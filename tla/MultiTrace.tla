----------------------------- MODULE MultiTrace -----------------------------
(* multi-trace.c: events of the rings are paired by key, two(A, B). The     *)
(* first event of a pair waits in ctx->backup; with --detail every event is *)
(* kept on ctx->timeline until no pair can show it any more. One call of    *)
(* sample() or lost() is one step: the profiler is single-threaded.         *)
EXTENDS Integers, Sequences, FiniteSets, SequencesExt

CONSTANTS
    NrList,      \* the number of -e options
    Modes,       \* the command lines checked, each with its bounds (nr_*)
    StartTime,   \* time before the first event
    MaxStep,     \* bound: ticks between two events
    MaxGap       \* bound: ticks between the events around a loss

\* Event times are far from zero: `time - before_event1' and `time - after_event2'
\* do not wrap around.
ASSUME WindowAssumption ==
    /\ {NrList, StartTime, MaxStep, MaxGap} \subseteq Nat
    /\ \A m \in Modes : {m.before, m.after} \subseteq 0 .. StartTime - 1

VARIABLES
    mode,     \* the command line
    ctx,      \* struct multi_trace_ctx
    last,     \* per ring, the time of the last event read (perf_event_mono_time)
    gap,      \* per ring, the time of the next event when a loss lies before it, else 0
    losses,   \* the losses reported
    running   \* FALSE after the final flush

vars == <<mode, ctx, last, gap, losses, running>>

\* struct tp: the event of -e option list, its _ret, or an untraced event next to it;
\* "free" is the extra event of the syscalls profiler.
NoTp == [list |-> 0, kind |-> "none"]

Ins == 1 .. mode.nr_ins
Lists == 0 .. mode.nr_ins

\* The members of struct timeline_node that a node keeps for life; its seq is its index
\* in ctx.event.
Event(t, k, i, tp, find, backup) ==
    [time |-> t, key |-> k, ins |-> i, tp |-> tp, find |-> find, backup |-> backup]

Time(c, n) == c.event[n].time
Key(c, n) == c.event[n].key

\* timeline_node_cmp(): by time, key and seq.
NodeBefore(c, m, n) ==
    \/ Time(c, m) < Time(c, n)
    \/ Time(c, m) = Time(c, n) /\ Key(c, m) < Key(c, n)
    \/ Time(c, m) = Time(c, n) /\ Key(c, m) = Key(c, n) /\ m < n

\* perf_event_backup_node_cmp() and nested_perf_event_backup_node_cmp() return 0.
SameSlot(c, m, n) == Key(c, m) = Key(c, n) /\ (mode.nested => Time(c, m) = Time(c, n))

\* needed_list (0), or perins_list[ins] when there is no timeline.
ListOf(c, n) == IF mode.timeline THEN 0 ELSE c.event[n].ins

\* timeline_lost_list (0, LOST_AFFECT_ALL_EVENT) or perins_lost_list[ins].
LostListOf(ins) == IF mode.perkey THEN 0 ELSE ins

-----------------------------------------------------------------------------
(* The backup and the timeline.                                            *)

MarkUnneeded(c, n) ==
    [c EXCEPT !.unneeded = @ \union ({n} \intersect c.timeline), !.nr_unneeded = @ + 1]

\* A mutant of BackupNodeNew: list_add() instead of list_add_tail().
BackupNodeNewHead(c, n) ==
    [c EXCEPT !.backup = @ \union {n}, !.needed[ListOf(c, n)] = <<n>> \o @]

BackupNodeNew(c, n) ==
    [c EXCEPT !.backup = @ \union {n}, !.needed[ListOf(c, n)] = Append(@, n)]

\* rblist__remove_node(&ctx->backup), for each of a set of nodes.
RemoveFromBackup(c, S) ==
    [c EXCEPT !.backup = @ \ S,
              !.needed = [l \in Lists |-> SelectSeq(@[l], LAMBDA n : n \notin S)],
              !.unneeded = IF mode.timeline THEN @ \union S ELSE @,
              !.nr_unneeded = IF mode.timeline THEN @ + Cardinality(S) ELSE @]

TimelineNodeNew(c, n) ==
    IF c.event[n].tp.kind = "untraced"
    THEN [c EXCEPT !.timeline = @ \union {n}, !.unneeded = @ \union {n}, !.nr_unneeded = @ + 1]
    ELSE [c EXCEPT !.timeline = @ \union {n}, !.pending = Append(@, n)]

\* A mutant of TimelineNodeDelete: tl_stat.unneeded is not counted down.
TimelineNodeDeleteUncounted(c, S) ==
    [c EXCEPT !.timeline = @ \ S, !.pending = SelectSeq(@, LAMBDA n : n \notin S)]

TimelineNodeDelete(c, S) ==
    [c EXCEPT !.timeline = @ \ S,
              !.pending = SelectSeq(@, LAMBDA n : n \notin S),
              !.unneeded = @ \ S,
              !.nr_unneeded = @ - Cardinality(S \intersect c.unneeded)]

\* A mutant of NeededFirst: the last event of the timeline, whatever is needed.
NeededLast(c) == CHOOSE n \in c.timeline : \A m \in c.timeline \ {n} : NodeBefore(c, m, n)

\* The event before whose window of before_event1 nothing is needed.
NeededFirst(c) ==
    IF c.needed[0] # <<>> THEN c.needed[0][1]
    ELSE IF c.pending # <<>> THEN c.pending[1]
    ELSE CHOOSE n \in c.timeline : \A m \in c.timeline \ {n} : NodeBefore(c, m, n)

\* timeline_free_unneeded(), from the front of the timeline. A node that is still needed
\* is a "BUG" or the "free unneeded" message.
FreeUnneeded(c) ==
    LET before == IF mode.before = 0 \/ c.timeline = {} THEN 0
                  ELSE Time(c, NeededFirst(c)) - mode.before
        free(n) == (before = 0 /\ n \in c.unneeded) \/ Time(c, n) < before
        freed == {n \in c.timeline : \A m \in c.timeline : NodeBefore(c, m, n) \/ m = n => free(m)}
        needed == freed \ c.unneeded
        c1 == RemoveFromBackup(c, needed \intersect c.backup)
    IN  [TimelineNodeDelete(c1, freed) EXCEPT !.bug = @ \/ needed # {}]

\* reclaim(): all events with the same key.
Reclaim(c, key) == RemoveFromBackup(c, {n \in c.backup : Key(c, n) = key})

\* A mutant of LostReclaim: only the key numbered like the ring, whatever the keys are.
LostReclaimIns(c, ins) == Reclaim(c, ins)

LostReclaim(c, ins) == IF mode.perkey THEN RemoveFromBackup(c, c.backup) ELSE Reclaim(c, ins)

-----------------------------------------------------------------------------
(* Handling one traced event: h is the context and the event's             *)
(* need_find_prev and need_backup, which a loss may clear.                 *)

\* multi_trace_event_lost(). The losses that ended are dropped; inside a loss the event
\* is neither paired nor kept; the last event before it is not kept.
EventLost(h, n) ==
    LET c == h.ctx
        l == LostListOf(c.event[n].ins)
        t == Time(c, n)
        ended(i) == t > c.lost[l][i].start /\ t >= c.lost[l][i].end
        nr == Cardinality({k \in 1 .. Len(c.lost[l]) : \A i \in 1 .. k : ended(i)})
        rest == SubSeq(c.lost[l], nr + 1, Len(c.lost[l]))
        inside == rest # <<>> /\ t > rest[1].start
        at == rest # <<>> /\ t = rest[1].start
        reclaim == \/ \E i \in 1 .. nr : ~c.lost[l][i].reclaim
                   \/ inside /\ ~rest[1].reclaim
        c1 == IF reclaim THEN LostReclaim(c, c.event[n].ins) ELSE c
        c2 == [c1 EXCEPT !.lost[l] = IF inside THEN [rest EXCEPT ![1].reclaim = TRUE] ELSE rest]
    IN  [h EXCEPT !.ctx = IF (inside \/ at) /\ h.backup THEN MarkUnneeded(c2, n) ELSE c2,
                  !.find = @ /\ ~inside,
                  !.backup = @ /\ ~inside /\ ~at]

\* multi_trace_init(): pairs of each list with the next one.
ListPair(a, b) == b.list = IF mode.cycle THEN (a.list + 1) % NrList ELSE a.list + 1

\* nested_trace_init(): a call and its return.
ReturnPair(a, b) == b.kind = "ret" /\ a.list = b.list

\* ctx->impl->object_find(ctx->class, a, b): the pairs made at init; call_find() does not look
\* at the second event.
ObjectFind(a, b) == IF mode.nested THEN mode.call \/ ReturnPair(a, b) ELSE ListPair(a, b)

\* tp1: the tracepoint an _ret returns from.
Tp1(tp) == IF mode.nested /\ tp.kind = "ret" THEN [tp EXCEPT !.kind = "event"] ELSE NoTp

\* multi_trace_find_prev(): the latest first, of the given tracepoint.
PrevSet(c, n) ==
    {m \in c.backup : /\ Key(c, m) = Key(c, n)
                      /\ Tp1(c.event[n].tp) # NoTp => c.event[m].tp = Tp1(c.event[n].tp)}

\* A mutant of FindPrev: the backup in time order, so the outermost call comes first.
FindPrevOldest(c, n) ==
    CHOOSE m \in PrevSet(c, n) : \A k \in PrevSet(c, n) : Time(c, k) >= Time(c, m)

FindPrev(c, n) == CHOOSE m \in PrevSet(c, n) : \A k \in PrevSet(c, n) : Time(c, k) <= Time(c, m)

\* What event_iter shows: from before_event1 in front of event1 to after_event2 behind event2.
Detail(c, m, n) ==
    {k \in c.timeline :
        /\ \/ Time(c, k) > Time(c, m) - mode.before
           \/ Time(c, k) = Time(c, m) - mode.before /\ Key(c, k) >= Key(c, n) /\
              (mode.before = 0 => ~NodeBefore(c, k, m))
        /\ k = n \/ NodeBefore(c, k, n) \/ (mode.after > 0 /\ Time(c, k) <= Time(c, n) + mode.after)}

Two(c, m, n) == [c EXCEPT !.pairs = @ \union {[e1 |-> m, e2 |-> n, detail |-> Detail(c, m, n)]}]

\* multi_trace_tryto_call_two(). two(A, NULL) is the pair with e2 = 0.
TrytoCallTwo(h, n) ==
    LET c == h.ctx
        tp == c.event[n].tp
        m == FindPrev(c, n)
        c1 == IF ObjectFind(c.event[m].tp, tp) /\ Time(c, m) < Time(c, n) THEN Two(c, m, n) ELSE c
        remove == mode.nested => tp.kind = "ret"
    IN  IF ~h.find THEN h
        ELSE IF PrevSet(c, n) # {}
        THEN IF remove THEN [h EXCEPT !.ctx = RemoveFromBackup(c1, {m}), !.free = TRUE]
             ELSE [h EXCEPT !.ctx = c1]
        ELSE IF mode.call /\ tp.kind = "event"
        THEN [h EXCEPT !.ctx.pairs = @ \union {[e1 |-> n, e2 |-> 0, detail |-> {}]}]
        ELSE h

\* multi_trace_tryto_backup(): only the last event of a key waits for its pair.
TrytoBackup(h, n) ==
    LET c == h.ctx
        exist == {m \in c.backup : SameSlot(c, m, n)}
    IN  IF ~h.backup THEN [h EXCEPT !.free = TRUE]
        ELSE IF \E m \in exist : Time(c, n) < Time(c, m)
        THEN [h EXCEPT !.ctx = MarkUnneeded(c, n), !.free = TRUE]
        ELSE [h EXCEPT !.ctx = BackupNodeNew(RemoveFromBackup(c, exist), n),
                       !.free = @ \/ exist # {}]

HandleEvent(h, n) == TrytoBackup(TrytoCallTwo(EventLost(h, n), n), n)

\* multi_trace_first_pending(): the head leaves pending_list.
FirstPending(c) ==
    LET n == c.pending[1]
        c1 == [c EXCEPT !.pending = Tail(@)]
    IN  IF c.event[n].backup THEN c1 ELSE MarkUnneeded(c1, n)

\* A mutant of NrReady: the deadline leaves after_event2 out.
NrReadyNow(c, n) ==
    Cardinality({k \in 1 .. Len(c.pending) : \A i \in 1 .. k : Time(c, c.pending[i]) <= Time(c, n)})

\* How many of pending_list are older than after_event2 when n arrives.
NrReady(c, n) ==
    LET ready(i) == mode.after = 0 \/ Time(c, c.pending[i]) <= Time(c, n) - mode.after
    IN  Cardinality({k \in 1 .. Len(c.pending) : \A i \in 1 .. k : ready(i)})

\* The while loop of multi_trace_sample().
HandlePending(h0, n) ==
    FoldLeft(LAMBDA h, p : HandleEvent([h EXCEPT !.ctx = FirstPending(h.ctx),
                                                 !.find = h.ctx.event[p].find,
                                                 !.backup = h.ctx.event[p].backup], p),
             h0, SubSeq(h0.ctx.pending, 1, NrReady(h0.ctx, n)))

Handling(c, e) == [ctx |-> c, find |-> e.find, backup |-> e.backup, free |-> FALSE]

\* multi_trace_sample() once the tracepoint, the key and the flags are known.
SampleTimeline(c, e) ==
    LET n == Len(c.event)
        unneeded == e.tp.kind = "untraced" \/ ~e.backup
        h == HandlePending([Handling(TimelineNodeNew(c, n), e) EXCEPT !.free = unneeded], n)
    IN  IF c.timeline = {} /\ unneeded /\ mode.before = 0 /\ mode.after = 0 THEN c
        ELSE IF h.free THEN FreeUnneeded(h.ctx) ELSE h.ctx

SampleBackup(c, e) ==
    IF e.tp.kind = "untraced" THEN c ELSE HandleEvent(Handling(c, e), Len(c.event)).ctx

SampleEvent(c, e) ==
    LET c1 == [c EXCEPT !.event = Append(@, e)]
    IN  CASE e.tp.kind = "free" -> Reclaim(c1, e.key)
          [] mode.timeline -> SampleTimeline(c1, e)
          [] OTHER -> SampleBackup(c1, e)

-----------------------------------------------------------------------------
(* The steps.                                                              *)

Tps ==
    {[list |-> i, kind |-> "event"] : i \in 0 .. NrList - 1}
    \union (IF mode.nested THEN {[list |-> i, kind |-> "ret"] : i \in 0 .. NrList - 1} ELSE {})
    \union (IF mode.timeline THEN {[list |-> 0, kind |-> "untraced"]} ELSE {})
    \union (IF mode.free THEN {[list |-> 0, kind |-> "free"]} ELSE {})

\* need_find_prev, from the -e option and the role of the event (as_event2).
NeedFindPrev(tp, as2) ==
    IF mode.nested THEN mode.call \/ tp.kind = "ret" ELSE (tp.list # 0 \/ mode.cycle) /\ as2

\* need_backup: not at the last level, not an unnecessary sched_wakeup, as_event1.
NeedBackup(tp, as1) ==
    IF mode.nested THEN tp.kind = "event" ELSE (tp.list # NrList - 1 \/ mode.cycle) /\ as1

\* The times the next event of a ring may have. With --order the rings are merged in time
\* order, and the event behind a reported loss is already in the heap. Events of one key
\* of a nested trace have different times.
NextTimes(i, k) ==
    LET oldest == IF mode.order THEN CHOOSE t \in {last[j] : j \in Ins} : \A j \in Ins : last[j] <= t
                  ELSE last[i]
    IN  {t \in IF gap[i] # 0 THEN {gap[i]} ELSE oldest .. oldest + MaxStep :
            /\ mode.order => \A j \in Ins : gap[j] # 0 => t <= gap[j]
            /\ mode.nested => \A n \in DOMAIN ctx.event : ctx.event[n].key = k => ctx.event[n].time < t}

\* multi_trace_sample().
Sample ==
    /\ running /\ Len(ctx.event) < mode.nr_events
    /\ \E i \in Ins, k \in 1 .. mode.nr_keys, tp \in Tps, role \in mode.roles :
        /\ ~mode.perkey => k = i
        /\ \E t \in NextTimes(i, k) :
            /\ ctx' = SampleEvent(ctx, Event(t, k, i, tp, NeedFindPrev(tp, role.as2),
                                             NeedBackup(tp, role.as1)))
            /\ last' = [last EXCEPT ![i] = t]
        /\ gap' = [gap EXCEPT ![i] = 0]
    /\ UNCHANGED <<mode, losses, running>>

\* Where a loss goes in timeline_lost_list: by start_time.
InsertLost(s, l) ==
    LET nr == Cardinality({k \in 1 .. Len(s) : \A i \in 1 .. k : s[i].start <= l.start})
    IN  IF mode.perkey THEN InsertAt(s, nr + 1, l) ELSE Append(s, l)

\* multi_trace_lost(): at once, or when the events around the loss are handled.
LostEvent(c, l) ==
    IF ~mode.order /\ mode.after = 0
    THEN LET c1 == LostReclaim(c, l.ins) IN IF mode.timeline THEN FreeUnneeded(c1) ELSE c1
    ELSE [c EXCEPT !.lost[LostListOf(l.ins)] = InsertLost(@, l)]

\* lost_start and lost_end: the times around the loss, which only the heap sort knows.
LostRange(start, end) == IF mode.order THEN <<start, end>> ELSE <<0, 0>>

\* A loss is reported when the next event of the ring is read: no event later than its
\* start has been handled.
Lost ==
    /\ running /\ Cardinality(losses) < mode.nr_losses
    /\ \E i \in Ins, d \in 1 .. MaxGap :
        LET end == last[i] + d
            range == LostRange(last[i], end)
        IN
        /\ gap[i] = 0
        /\ mode.order => \A j \in Ins : last[j] <= last[i]
        /\ ctx' = LostEvent(ctx, [ins |-> i, start |-> range[1], end |-> range[2], reclaim |-> FALSE])
        /\ gap' = [gap EXCEPT ![i] = end]
        /\ losses' = losses \union {[ins |-> i, start |-> last[i], end |-> end]}
    /\ UNCHANGED <<mode, last, running>>

\* multi_trace_flush(PROF_DEV_FLUSH_FINAL): what is pending or waits for its pair is dropped.
Flush(c) ==
    LET drained == FoldLeft(LAMBDA d, p : FirstPending(d), c, c.pending)
        emptied == RemoveFromBackup(drained, drained.backup)
    IN  TimelineNodeDelete(emptied, emptied.timeline)

\* The last flush and multi_trace_exit(): the losses not yet met are freed, and with the
\* device goes the history of its events.
Exit ==
    /\ running
    /\ ctx' = [Flush(ctx) EXCEPT !.lost = [l \in Lists |-> <<>>], !.event = <<>>, !.pairs = {}]
    /\ last' = [i \in Ins |-> StartTime]
    /\ gap' = [i \in Ins |-> 0]
    /\ losses' = {}
    /\ running' = FALSE
    /\ UNCHANGED mode

Init ==
    /\ mode \in Modes
    /\ ctx = [event |-> <<>>, backup |-> {}, needed |-> [l \in Lists |-> <<>>],
              timeline |-> {}, unneeded |-> {}, nr_unneeded |-> 0, pending |-> <<>>,
              lost |-> [l \in Lists |-> <<>>], pairs |-> {}, bug |-> FALSE]
    /\ last = [i \in Ins |-> StartTime]
    /\ gap = [i \in Ins |-> 0]
    /\ losses = {}
    /\ running = TRUE

Next == Sample \/ Lost \/ Exit

Spec == Init /\ [][Next]_vars

-----------------------------------------------------------------------------
(* What must hold.                                                         *)

Nodes == DOMAIN ctx.event
Traced == {n \in Nodes : ctx.event[n].tp.kind \in {"event", "ret"}}

\* Nodes, lists and times are of their types.
TypeOK ==
    /\ mode \in Modes /\ running \in BOOLEAN /\ ctx.bug \in BOOLEAN
    /\ ctx.backup \union ctx.timeline \subseteq Nodes /\ ctx.unneeded \subseteq ctx.timeline
    /\ ctx.pending \in Seq(Nodes) /\ \A l \in Lists : ctx.needed[l] \in Seq(Nodes)
    /\ ctx.nr_unneeded \in Nat
    /\ last \in [Ins -> Nat] /\ gap \in [Ins -> Nat]

\* A node of the timeline is either free to go or waits in exactly one of pending_list and
\* ctx->backup, the backup and its lists hold the same nodes, and tl_stat.unneeded counts
\* the nodes free to go: timeline_free_unneeded() and timeline_node_delete() never print
\* their "BUG".
NeededIsLinked ==
    /\ ~ctx.bug
    /\ mode.timeline =>
        /\ ctx.timeline \ ctx.unneeded = ctx.backup \union Range(ctx.pending)
        /\ ctx.backup \intersect Range(ctx.pending) = {}
        /\ ctx.nr_unneeded = Cardinality(ctx.unneeded)
    /\ ctx.backup = UNION {Range(ctx.needed[l]) : l \in Lists}

\* A loss lies between two events of a key.
Cut(a, b) ==
    \E l \in losses : /\ mode.perkey \/ l.ins = Key(ctx, a)
                      /\ Time(ctx, a) < l.end /\ Time(ctx, b) > l.start

\* No pair spans a loss: B may have been lost and another B taken for it
\* ("unsafe two(A, B)", multi_trace_event_lost()).
PairsSafe == \A p \in ctx.pairs : p.e2 # 0 => ~Cut(p.e1, p.e2)

\* What may come between two events of a key and end the wait of the first.
Between(a, b) ==
    {c \in a + 1 .. b - 1 : /\ Key(ctx, c) = Key(ctx, a)
                            /\ \/ ctx.event[c].tp.kind = "free"
                               \/ c \in Traced /\ (ctx.event[c].find \/ ctx.event[c].backup)}

\* r returns from the call a: calls and returns of a's function in between are balanced.
Returns(a, r) ==
    LET tp == ctx.event[a].tp
        nr(k, kind) == Cardinality({c \in a + 1 .. k : Key(ctx, c) = Key(ctx, a)
                                                      /\ ctx.event[c].tp = [tp EXCEPT !.kind = kind]})
    IN  /\ tp.kind = "event" /\ ctx.event[r].tp = [tp EXCEPT !.kind = "ret"]
        /\ \A k \in a + 1 .. r - 1 : nr(k, "event") >= nr(k, "ret")
        /\ nr(r - 1, "event") = nr(r - 1, "ret")

\* a is called and has not returned when b comes.
Calling(a, b) ==
    /\ ctx.event[a].tp.kind = "event" /\ Key(ctx, a) = Key(ctx, b) /\ ~Cut(a, b)
    /\ \A r \in a + 1 .. b - 1 : Key(ctx, r) = Key(ctx, a) => ~Returns(a, r)

Candidate(a, b) ==
    /\ Key(ctx, a) = Key(ctx, b) /\ Time(ctx, a) < Time(ctx, b)
    /\ ctx.event[a].backup /\ ctx.event[b].find
    /\ ObjectFind(ctx.event[a].tp, ctx.event[b].tp)

\* The pairs a reader of the whole trace would make.
MustPair(a, b) ==
    /\ Candidate(a, b) /\ ~Cut(a, b)
    /\ IF ~mode.nested THEN Between(a, b) = {}
       ELSE IF ctx.event[b].tp.kind = "ret" THEN Returns(a, b)
       ELSE Calling(a, b) /\ \A c \in a + 1 .. b - 1 : c \in Traced => ~Calling(c, b)

\* Events at the time of the second one may be taken in any order.
MayPair(a, b) ==
    /\ Candidate(a, b)
    /\ MustPair(a, b) \/ (~mode.nested /\ \A c \in Between(a, b) : Time(ctx, c) = Time(ctx, b))

\* two(A, B) is called for the pairs of the trace and no others: the two successive events
\* of a key, or a call with its caller and with its own return, however the key's
\* other events, the losses and the delay of after_event2 fall.
PairsRight ==
    /\ \A p \in ctx.pairs : p.e2 # 0 => MayPair(p.e1, p.e2)
    /\ running => \A a, b \in Traced :
        a < b /\ b \notin Range(ctx.pending) /\ MustPair(a, b) =>
            \E p \in ctx.pairs : p.e1 = a /\ p.e2 = b

\* --detail shows every event from before_event1 in front of A to after_event2 behind B: none of
\* them was freed by timeline_free_unneeded() or had yet to come when two(A, B) was called.
DetailComplete ==
    mode.timeline => \A p \in ctx.pairs : p.e2 # 0 =>
        \A n \in Nodes :
            LET t == Time(ctx, n) IN
            \/ Time(ctx, p.e1) - mode.before < t /\ t < Time(ctx, p.e2)
            \/ Time(ctx, p.e2) < t /\ t < Time(ctx, p.e2) + mode.after
            => n \in p.detail

\* multi_trace_minevtime() with --than: the first of the timeline, or of the heads of perins_list.
Minevtime ==
    LET heads == IF mode.timeline THEN ctx.timeline
                 ELSE {ctx.needed[i][1] : i \in {j \in Ins : ctx.needed[j] # <<>>}}
    IN  CHOOSE n \in heads : \A m \in heads : Time(ctx, n) <= Time(ctx, m)

\* No event that waits for its pair is older than what minevtime() says: comm_gc() keeps
\* the names its report will print.
MinevtimeOldest == \A n \in ctx.backup : Time(ctx, Minevtime) <= Time(ctx, n)
=============================================================================
