----------------------------- MODULE OrderProcess -----------------------------
(***************************************************************************)
(* Heap sort of the events of one profiling device (src/order.c).          *)
(*                                                                         *)
(* The kernel writes records into one ring buffer per instance; perf-prof  *)
(* reads them through lib/perf/mmap.c and hands them to the profiler in    *)
(* time order.  order_process() runs in one thread but the kernel writes   *)
(* at any moment, so every read of a ring's head and every write of its    *)
(* tail is a step of its own.  Events pulled from other perf-prof          *)
(* processes (event-spread.c) join the same heap as streams.               *)
(*                                                                         *)
(* A position in a ring is the number of records before it; log[m] is the  *)
(* sequence of all records ever written to ring m, and Off gives the byte  *)
(* offset that CIRC_SPACE needs.                                           *)
(***************************************************************************)
EXTENDS Integers, Sequences, FiniteSets

CONSTANTS
    NrMaps,      \* ring buffers (order.nr_mmaps)
    NrStreams,   \* registered streams (order.nr_streams)
    RingSize,    \* bytes of a ring buffer (map->mask + 1)
    Watermark,   \* order.wakeup_watermark
    SampleSize,  \* header.size of a PERF_RECORD_SAMPLE
    LostSize,    \* header.size of a PERF_RECORD_LOST
    OtherSize,   \* header.size of any other record
    HasLost,     \* the profiler has a lost() callback
    Sideband,    \* rings that also get records other than SAMPLE and LOST
    Clocked,     \* the device pushes events: perf-clock calls order_to()
    MaxNest,     \* events being output at once into one ring (interrupts)
    MaxClock,    \* bound: timestamps taken by the kernel
    MaxOther,    \* bound: side-band records
    MaxItems     \* bound: items per stream

ASSUME OrderAssumption ==
    /\ NrMaps \in Nat /\ NrStreams \in Nat
    /\ {RingSize, SampleSize, LostSize, OtherSize} \subseteq Nat \ {0}
    /\ Watermark \in Nat
    /\ {HasLost, Clocked} \subseteq BOOLEAN /\ Sideband \subseteq Nat
    /\ {MaxNest, MaxClock, MaxOther, MaxItems} \subseteq Nat

Maps == 1 .. NrMaps
Streams == NrMaps + 1 .. NrMaps + NrStreams
Sources == 1 .. NrMaps + NrStreams

\* dev->order.heap_event_list: order_register() puts each new stream in front.
HeapEventList ==
    [i \in Sources |-> IF i <= NrStreams THEN NrMaps + NrStreams + 1 - i ELSE i - NrStreams]

BreakReasons == {"NONE", "EMPTY", "LOST_WAIT", "TARGET_MAP", "TARGET_TIME", "STREAM_STOP"}

VARIABLES
    \* kernel
    clock,          \* last timestamp taken
    inflight,       \* per map: timestamps taken, record not yet visible
    log,            \* per map: all records written so far
    others,         \* side-band records written or lost
    dropped,        \* per map: records lost since the last PERF_RECORD_LOST
    tail,           \* per map: data_tail, written by perf_mmap__consume()
    items,          \* per stream: times of the items received so far
    \* struct perf_mmap
    prev, start, end,
    \* struct perf_mmap_event
    event_mono_time, maybe_lost_end, lost_pause,
    \* struct stream_event: item read last, end of the batch, heap_event.unconsumed
    rd, batch, unconsumed,
    \* struct heap_event.time of the members of the heap
    time,
    \* dev->order
    heap, heap_popped_time, break_reason,
    \* locals of order_process(): lost is the PERF_RECORD_LOST not yet reported
    pc, todo, cur, target, target_end, target_tm, need_break, lost,
    \* what the profiler saw: records per map, last time, lost() calls
    got, out, reports

kernelVars == <<clock, inflight, log, others, dropped, items>>
mmapVars == <<prev, start, end, tail>>
lostVars == <<maybe_lost_end, lost_pause>>
streamVars == <<rd, batch, unconsumed>>
callVars == <<target, target_end, target_tm>>
outVars == <<got, out, reports>>
vars == <<kernelVars, mmapVars, event_mono_time, lostVars, streamVars, time, heap,
          heap_popped_time, break_reason, pc, todo, cur, callVars, need_break, lost, outVars>>

-----------------------------------------------------------------------------
(* Ring buffers: lib/perf/mmap.c *)

Size(type) == CASE type = "SAMPLE" -> SampleSize
                [] type = "LOST" -> LostSize
                [] OTHER -> OtherSize

\* Byte offset of position i.
Off(m, i) == IF i = 0 THEN 0 ELSE log[m][i].off

\* data_head, as perf_mmap__read_head() sees it.
DataHead(m) == Len(log[m])

\* perf_mmap__empty()
MmapEmptyMutant(m) == DataHead(m) <= prev[m] + 1
MmapEmpty(m) == DataHead(m) = prev[m]

\* perf_mmap_has_space(): CIRC_SPACE(map->end, map->start, map->mask+1) >= size.
HasSpace(m, size) == RingSize - 1 - (Off(m, end[m]) - Off(m, start[m])) >= size

\* perf_mmap__read_init() on a non-overwrite ring.
ReadInit(m) ==
    /\ start' = [start EXCEPT ![m] = prev[m]]
    /\ end' = [end EXCEPT ![m] = DataHead(m)]

\* perf_mmap__read_event(): refresh end, advance start past one record if there is one.
ReadEvent(m) ==
    LET s == IF start[m] < DataHead(m) THEN start[m] + 1 ELSE start[m]
    IN  /\ end' = [end EXCEPT ![m] = DataHead(m)]
        /\ start' = [start EXCEPT ![m] = s]
        /\ prev' = [prev EXCEPT ![m] = s]

\* perf_mmap__consume(): the position written to data_tail.
ConsumeToMutant(m) == end[m]
ConsumeTo(m) == prev[m]

\* perf_mmap__unread_event(): start and prev go back one record.
UnreadToMutant(m) == start[m]
UnreadToMutant2(m) == start[m] - 2
UnreadTo(m) == start[m] - 1

-----------------------------------------------------------------------------
(* The kernel: __perf_output_begin() drops a record when the ring has no   *)
(* room, and puts a PERF_RECORD_LOST in front of the next one that fits.    *)

Record(type, t, off) == [type |-> type, time |-> t, off |-> off + Size(type)]

Output(m, type, t) ==
    LET used == Off(m, DataHead(m)) - Off(m, tail[m])
        base == Off(m, DataHead(m))
        need == Size(type) + (IF dropped[m] > 0 THEN LostSize ELSE 0)
    IN  IF RingSize - 1 - used < need
        THEN /\ dropped' = [dropped EXCEPT ![m] = @ + 1]
             /\ UNCHANGED log
        ELSE /\ dropped' = [dropped EXCEPT ![m] = 0]
             /\ log' = [log EXCEPT ![m] =
                    IF dropped[m] > 0
                    THEN @ \o <<Record("LOST", dropped[m], base), Record(type, t, base + LostSize)>>
                    ELSE Append(@, Record(type, t, base))]

\* The kernel takes the timestamp of an event of ring m.
OutputStart(m) ==
    /\ clock < MaxClock
    /\ Len(inflight[m]) < MaxNest
    /\ clock' = clock + 1
    /\ inflight' = [inflight EXCEPT ![m] = Append(@, clock + 1)]
    /\ UNCHANGED <<log, others, dropped, items>>

\* The event taken last (an interrupt finishes first) becomes visible, or is lost.
OutputEnd(m) ==
    /\ inflight[m] # <<>>
    /\ Output(m, "SAMPLE", inflight[m][Len(inflight[m])])
    /\ inflight' = [inflight EXCEPT ![m] = SubSeq(@, 1, Len(@) - 1)]
    /\ UNCHANGED <<clock, others, items>>

\* With MaxNest = 0 no output is ever delayed: both at once.
OutputAtOnce(m) ==
    /\ MaxNest = 0 /\ clock < MaxClock
    /\ clock' = clock + 1
    /\ Output(m, "SAMPLE", clock + 1)
    /\ UNCHANGED <<inflight, others, items>>

\* A side-band record (comm, mmap, throttle, ...): it has no time of its own.
OutputOther(m) ==
    /\ m \in Sideband
    /\ others < MaxOther
    /\ others' = others + 1
    /\ Output(m, "OTHER", 0)
    /\ UNCHANGED <<clock, inflight, items>>

\* An item (a SAMPLE or an ORDER_TIME) of a stream arrives, late or not; its sender
\* sends in time order.
StreamArrive(s) ==
    /\ Len(items[s]) < MaxItems
    /\ \E t \in 1 .. clock + 1 :
        /\ t <= MaxClock
        /\ \A i \in 1 .. Len(items[s]) : items[s][i] <= t
        /\ clock' = IF t > clock THEN t ELSE clock
        /\ items' = [items EXCEPT ![s] = Append(@, t)]
    /\ UNCHANGED <<inflight, log, others, dropped>>

Kernel ==
    /\ \/ \E m \in Maps : OutputStart(m) \/ OutputEnd(m) \/ OutputAtOnce(m) \/ OutputOther(m)
       \/ \E s \in Streams : StreamArrive(s)
    /\ UNCHANGED <<mmapVars, event_mono_time, lostVars, streamVars, time, heap,
                   heap_popped_time, break_reason, pc, todo, cur, callVars, need_break,
                   lost, outVars>>

-----------------------------------------------------------------------------
(* order_process() *)

NoLost == [n |-> 0, map |-> 0, pos |-> 0]

\* The PERF_RECORD_LOST at position p of ring m, copied into the local `lost'.
LostAtMutant(m, p) == NoLost
LostAt(m, p) == [n |-> log[m][p].time, map |-> m, pos |-> p]

\* prof->lost(dev, &lost, ins, lost_start, lost_end): start and end are the event times
\* before and after the loss; popped is heap_popped_time when the call is made.
Report(m, l, lost_end) ==
    [map |-> m, from |-> l.map, pos |-> l.pos, n |-> l.n, start |-> event_mono_time[m],
     end |-> lost_end, popped |-> heap_popped_time]

\* perf_event_process_record() of the record that ends at position p.
Deliver(m, p) == got' = [got EXCEPT ![m] = Append(@, p)]

\* order_process() returns: its locals are gone.
Return ==
    /\ pc' = "idle"
    /\ todo' = <<>> /\ cur' = 0 /\ need_break' = 0 /\ lost' = NoLost
    /\ target' = 0 /\ target_end' = 0 /\ target_tm' = 0

Begin ==
    /\ pc' = "init"
    /\ todo' = HeapEventList
    /\ heap' = {}
    /\ lost' = NoLost
    /\ need_break' = 0
    /\ UNCHANGED <<kernelVars, tail, prev, event_mono_time, lostVars, streamVars, time,
                   heap_popped_time, break_reason, cur, outVars>>

\* order_mmap(dev, m): perf_mmap__read_init(target_map) takes target_map->end.
OrderMmap(m) ==
    /\ pc = "idle"
    /\ ReadInit(m)
    /\ pc' = "target"
    /\ target' = m
    /\ target_end' = DataHead(m)
    /\ target_tm' = 0
    /\ UNCHANGED <<kernelVars, tail, prev, event_mono_time, lostVars, streamVars, time, heap,
                   heap_popped_time, break_reason, todo, cur, need_break, lost, outVars>>

\* perf_mmap__empty(target_map) reads the head again: return, or start the sort.
TargetCheck ==
    /\ pc = "target"
    /\ \/ /\ MmapEmpty(target)
          /\ Return
          /\ UNCHANGED <<kernelVars, tail, prev, event_mono_time, lostVars, streamVars, time,
                         heap, heap_popped_time, break_reason, outVars>>
       \/ /\ ~MmapEmpty(target)
          /\ Begin
          /\ UNCHANGED callVars
    /\ UNCHANGED <<start, end>>

\* order_to(dev, t), and order_stream(dev) with no target time.
OrderTo(t) ==
    /\ pc = "idle"
    /\ Begin
    /\ target' = 0
    /\ target_end' = 0
    /\ target_tm' = t
    /\ UNCHANGED <<start, end>>

-----------------------------------------------------------------------------
(* order_heap_init(): one member of heap_event_list after the other. *)

\* perf_mmap_event_init(): a ring that is empty stays out of the heap.
InitMmap ==
    /\ pc = "init" /\ todo # <<>> /\ Head(todo) \in Maps
    /\ LET m == Head(todo)
       IN  IF MmapEmpty(m)
           THEN /\ todo' = Tail(todo)
                /\ UNCHANGED <<pc, cur, start, end>>
           ELSE /\ ReadInit(m)
                /\ pc' = "initread"
                /\ cur' = m
                /\ UNCHANGED todo
    /\ lost' = NoLost
    /\ UNCHANGED <<kernelVars, tail, prev, event_mono_time, lostVars, streamVars, time, heap,
                   heap_popped_time, break_reason, callVars, need_break, outVars>>

\* An event that became visible too late is moved to heap_popped_time.
FixAtInitMutant(t) == t
FixAtInit(t) == IF t < heap_popped_time THEN heap_popped_time ELSE t

\* perf_mmap_event_init(), retry: side-band records are processed and consumed at once, a
\* LOST is remembered, a SAMPLE enters the heap no earlier than heap_popped_time.
InitRead ==
    /\ pc = "initread"
    /\ ReadEvent(cur)
    /\ LET m == cur
           p == start'[m]
           r == log[m][p]
           t == FixAtInit(r.time)
       IN  \/ /\ start[m] = DataHead(m)
              /\ pc' = "init" /\ todo' = Tail(todo)
              /\ lost' = NoLost
              /\ UNCHANGED <<tail, time, heap, outVars>>
           \/ /\ start[m] < DataHead(m) /\ r.type = "LOST" /\ HasLost
              /\ lost' = LostAt(m, p)
              /\ tail' = [tail EXCEPT ![m] = prev'[m]]
              /\ UNCHANGED <<pc, todo, time, heap, outVars>>
           \/ /\ start[m] < DataHead(m) /\ r.type # "SAMPLE" /\ ~(r.type = "LOST" /\ HasLost)
              /\ Deliver(m, p)
              /\ tail' = [tail EXCEPT ![m] = prev'[m]]
              /\ UNCHANGED <<pc, todo, lost, time, heap, out, reports>>
           \/ /\ start[m] < DataHead(m) /\ r.type = "SAMPLE"
              /\ time' = [time EXCEPT ![m] = t]
              /\ heap' = heap \cup {m}
              /\ reports' = IF lost.n > 0 THEN reports \cup {Report(m, lost, t)} ELSE reports
              /\ lost' = NoLost
              /\ pc' = "init" /\ todo' = Tail(todo)
              /\ UNCHANGED <<tail, got, out>>
    /\ UNCHANGED <<kernelVars, event_mono_time, lostVars, streamVars, heap_popped_time,
                   break_reason, cur, callVars, need_break>>

\* ORDER_BREAK_STREAM_STOP: a stream without an item ends the sort.
StreamStopMutant == UNCHANGED <<break_reason, pc>>
StreamStop == break_reason' = "STREAM_STOP" /\ pc' = "exit"

\* stream_event_init(heap_event, true): an item kept by the last call, or the next item,
\* reading a new batch when the last one is used up.  No item stops the whole sort.
InitStream(s) ==
    /\ pc = "init" /\ todo # <<>> /\ Head(todo) = s
    /\ LET b == IF rd[s] < batch[s] THEN batch[s] ELSE Len(items[s])
       IN  \/ /\ unconsumed[s] = 1
              /\ unconsumed' = [unconsumed EXCEPT ![s] = 0]
              /\ heap' = heap \cup {s}
              /\ todo' = Tail(todo)
              /\ UNCHANGED <<rd, batch, time, pc, break_reason>>
           \/ /\ unconsumed[s] = 0 /\ rd[s] < b
              /\ rd' = [rd EXCEPT ![s] = @ + 1]
              /\ batch' = [batch EXCEPT ![s] = b]
              /\ time' = [time EXCEPT ![s] = items[s][rd[s] + 1]]
              /\ heap' = heap \cup {s}
              /\ todo' = Tail(todo)
              /\ UNCHANGED <<unconsumed, pc, break_reason>>
           \/ /\ unconsumed[s] = 0 /\ rd[s] = b
              /\ StreamStop
              /\ UNCHANGED <<rd, batch, time, unconsumed, heap, todo>>
    /\ UNCHANGED <<kernelVars, mmapVars, event_mono_time, lostVars, heap_popped_time, cur,
                   callVars, need_break, lost, outVars>>

\* min_heapify_all(): the list is done.
InitDone ==
    /\ pc = "init" /\ todo = <<>>
    /\ pc' = "loop"
    /\ lost' = NoLost
    /\ UNCHANGED <<kernelVars, mmapVars, event_mono_time, lostVars, streamVars, time, heap,
                   heap_popped_time, break_reason, todo, cur, callVars, need_break, outVars>>

-----------------------------------------------------------------------------
(* The sorting loop. *)

\* min_heap_peek(): any member with the least time.
Top(h) == h \in heap /\ \A g \in heap : time[h] <= time[g]

LoopBreak(reason) ==
    /\ break_reason' = reason
    /\ pc' = "exit"
    /\ UNCHANGED <<kernelVars, mmapVars, event_mono_time, streamVars, time, heap,
                   heap_popped_time, todo, cur, callVars, need_break, lost, outVars>>

\* The heap ran empty.
LoopEmpty ==
    /\ pc = "loop" /\ heap = {}
    /\ LoopBreak("EMPTY")
    /\ UNCHANGED lostVars

\* heap_popped_time never goes back: an earlier event is only counted as unordered.
Popped(t) == heap_popped_time' = IF t < heap_popped_time THEN heap_popped_time ELSE t

\* stream_event_process(): hand the item on, read the next one of the batch; the end of
\* the batch stops the sort.
LoopStream(s) ==
    /\ pc = "loop" /\ s \in Streams /\ Top(s)
    /\ Popped(time[s])
    /\ out' = time[s]
    /\ \/ /\ rd[s] < batch[s]
          /\ rd' = [rd EXCEPT ![s] = @ + 1]
          /\ time' = [time EXCEPT ![s] = items[s][rd[s] + 1]]
          /\ UNCHANGED <<heap, pc, break_reason>>
       \/ /\ rd[s] = batch[s]
          /\ heap' = heap \ {s}
          /\ StreamStop
          /\ UNCHANGED <<rd, time>>
    /\ UNCHANGED <<kernelVars, mmapVars, event_mono_time, lostVars, batch, unconsumed, todo, cur,
                   callVars, need_break, lost, got, reports>>

\* order_to(): the earliest event is after the target time.
LoopTargetTime(m) ==
    /\ pc = "loop" /\ m \in Maps /\ Top(m)
    /\ target_tm # 0 /\ time[m] > target_tm
    /\ LoopBreak("TARGET_TIME")
    /\ UNCHANGED lostVars

\* A loss may hide behind map->end, and this is the last event before it: keep it in the
\* ring.  Only the first such break sets break_reason.
LoopLostWait(m) ==
    /\ pc = "loop" /\ m \in Maps /\ Top(m)
    /\ target_tm = 0 \/ time[m] <= target_tm
    /\ HasLost /\ end[m] = maybe_lost_end[m] /\ MmapEmpty(m)
    /\ lost_pause' = [lost_pause EXCEPT ![m] = 1]
    /\ LoopBreak(IF lost_pause[m] = 1 THEN break_reason ELSE "LOST_WAIT")
    /\ UNCHANGED maybe_lost_end

\* Not enough safe space left: the last record may be followed by a loss.
MaybeLostMutant(m) == ~HasSpace(m, Watermark \div 2)
MaybeLost(m) == ~HasSpace(m, Watermark + SampleSize)

\* The rest of one pass: predict a loss, keep the order within the ring, process.
LoopProcess(m) ==
    /\ pc = "loop" /\ m \in Maps /\ Top(m)
    /\ target_tm = 0 \/ time[m] <= target_tm
    /\ IF HasLost
       THEN /\ \/ /\ end[m] # maybe_lost_end[m]
                  /\ maybe_lost_end' = [maybe_lost_end EXCEPT ![m] =
                        IF MaybeLost(m) THEN end[m] ELSE end[m] - 1]
               \/ /\ end[m] = maybe_lost_end[m] /\ ~MmapEmpty(m)
                  /\ UNCHANGED maybe_lost_end
            /\ lost_pause' = [lost_pause EXCEPT ![m] = 0]
       ELSE UNCHANGED lostVars
    /\ LET t == IF time[m] < event_mono_time[m] THEN event_mono_time[m] ELSE time[m]
       IN  /\ event_mono_time' = [event_mono_time EXCEPT ![m] = t]
           /\ time' = [time EXCEPT ![m] = t]
           /\ Popped(t)
           /\ out' = t
    /\ Deliver(m, start[m])
    /\ cur' = m
    /\ pc' = "consume"
    /\ UNCHANGED <<kernelVars, mmapVars, streamVars, heap, break_reason, todo, callVars,
                   need_break, lost, reports>>

\* consume: release the record, unless a loss is near and the ring is still crowded; see
\* whether the target is reached.
LoopConsume ==
    /\ pc = "consume"
    /\ tail' = IF end[cur] # maybe_lost_end[cur] \/ HasSpace(cur, Watermark \div 2)
               THEN [tail EXCEPT ![cur] = ConsumeTo(cur)] ELSE tail
    /\ IF cur = target /\ start[cur] = target_end
       THEN break_reason' = "TARGET_MAP" /\ need_break' = 1
       ELSE UNCHANGED <<break_reason, need_break>>
    /\ pc' = "read"
    /\ UNCHANGED <<kernelVars, prev, start, end, event_mono_time, lostVars, streamVars, time,
                   heap, heap_popped_time, todo, cur, callVars, lost, outVars>>

\* perf_mmap__read_event() after the consume, and what it leads to.
LoopRead ==
    /\ pc = "read"
    /\ ReadEvent(cur)
    /\ LET m == cur
           p == start'[m]
           r == log[m][p]
       IN  \/ /\ start[m] = DataHead(m)
              /\ heap' = heap \ {m}
              /\ pc' = IF need_break = 1 THEN "exit" ELSE "loop"
              /\ UNCHANGED <<time, lost, outVars>>
           \/ /\ start[m] < DataHead(m) /\ r.type = "LOST" /\ HasLost
              /\ lost' = LostAt(m, p)
              /\ pc' = "consume"
              /\ UNCHANGED <<heap, time, outVars>>
           \/ /\ start[m] < DataHead(m) /\ r.type # "SAMPLE" /\ ~(r.type = "LOST" /\ HasLost)
              /\ Deliver(m, p)
              /\ pc' = "consume"
              /\ UNCHANGED <<heap, time, lost, out, reports>>
           \/ /\ start[m] < DataHead(m) /\ r.type = "SAMPLE"
              /\ time' = [time EXCEPT ![m] = r.time]
              /\ reports' = IF lost.n > 0 THEN reports \cup {Report(m, lost, r.time)} ELSE reports
              /\ lost' = NoLost
              /\ pc' = IF need_break = 1 THEN "exit" ELSE "loop"
              /\ UNCHANGED <<heap, got, out>>
    /\ UNCHANGED <<kernelVars, tail, event_mono_time, lostVars, streamVars, heap_popped_time,
                   break_reason, todo, cur, callVars, need_break>>

\* stream_stop: give back the event of every ring still in the heap, mark the items of
\* the streams as unconsumed.
ExitPut(h) ==
    /\ pc = "exit" /\ h \in heap
    /\ heap' = heap \ {h}
    /\ IF h \in Maps
       THEN /\ start' = [start EXCEPT ![h] = UnreadTo(h)]
            /\ prev' = [prev EXCEPT ![h] = UnreadTo(h)]
            /\ tail' = [tail EXCEPT ![h] = UnreadTo(h)]
            /\ UNCHANGED unconsumed
       ELSE /\ unconsumed' = [unconsumed EXCEPT ![h] = 1]
            /\ UNCHANGED <<start, prev, tail>>
    /\ UNCHANGED <<kernelVars, end, event_mono_time, lostVars, rd, batch, time, heap_popped_time,
                   break_reason, pc, todo, cur, callVars, need_break, lost, outVars>>

Exit ==
    /\ pc = "exit" /\ heap = {}
    /\ Return
    /\ UNCHANGED <<kernelVars, mmapVars, event_mono_time, lostVars, streamVars, time, heap,
                   heap_popped_time, break_reason, outVars>>

-----------------------------------------------------------------------------

Init ==
    /\ clock = 0
    /\ inflight = [m \in Maps |-> <<>>]
    /\ log = [m \in Maps |-> <<>>]
    /\ others = 0 /\ dropped = [m \in Maps |-> 0]
    /\ items = [s \in Streams |-> <<>>]
    /\ tail = [m \in Maps |-> 0]
    /\ prev = [m \in Maps |-> 0]
    /\ start = [m \in Maps |-> 0]
    /\ end = [m \in Maps |-> 0]
    /\ event_mono_time = [m \in Maps |-> 0]
    /\ maybe_lost_end = [m \in Maps |-> 0]
    /\ lost_pause = [m \in Maps |-> 0]
    /\ rd = [s \in Streams |-> 0]
    /\ batch = [s \in Streams |-> 0]
    /\ unconsumed = [s \in Streams |-> 0]
    /\ time = [h \in Sources |-> 0]
    /\ heap = {} /\ heap_popped_time = 0 /\ break_reason = "NONE"
    /\ pc = "idle" /\ todo = <<>> /\ cur = 0 /\ need_break = 0 /\ lost = NoLost
    /\ target = 0 /\ target_end = 0 /\ target_tm = 0
    /\ got = [m \in Maps |-> <<>>]
    /\ out = 0 /\ reports = {}

Step ==
    \/ TargetCheck
    \/ InitMmap \/ InitRead \/ InitDone
    \/ LoopEmpty
    \/ \E s \in Streams : InitStream(s) \/ LoopStream(s)
    \/ \E m \in Maps : LoopTargetTime(m) \/ LoopLostWait(m) \/ LoopProcess(m)
    \/ LoopConsume \/ LoopRead
    \/ \E h \in Sources : ExitPut(h)
    \/ Exit

\* order_stream(), when stream s can be read (tcp_notify(), the EPOLLIN of a cdev).
OrderStream(s) == s \in Streams /\ OrderTo(0)

Call ==
    \/ \E m \in Maps : OrderMmap(m)
    \/ Clocked /\ \E t \in 1 .. clock : OrderTo(t)
    \/ \E s \in Streams : OrderStream(s)

Next == Kernel \/ Call \/ Step

Spec == Init /\ [][Next]_vars

-----------------------------------------------------------------------------
(* Properties. *)

PCs == {"idle", "target", "init", "initread", "loop", "consume", "read", "exit"}
Records == [type : {"SAMPLE", "LOST", "OTHER"}, time : Nat, off : Nat]
LostRecords == [n : Nat, map : 0 .. NrMaps, pos : Nat]
Reports == [map : Maps, from : Maps, pos : Nat, n : Nat, start : Nat, end : Nat, popped : Nat]

KernelTypeOK ==
    /\ clock \in Nat /\ others \in Nat
    /\ inflight \in [Maps -> Seq(Nat)] /\ log \in [Maps -> Seq(Records)]
    /\ dropped \in [Maps -> Nat] /\ items \in [Streams -> Seq(Nat)]

RingTypeOK ==
    /\ {prev, start, end, tail} \subseteq [Maps -> Nat]
    /\ event_mono_time \in [Maps -> Nat] /\ maybe_lost_end \in [Maps -> Int]
    /\ lost_pause \in [Maps -> {0, 1}]

SortTypeOK ==
    /\ rd \in [Streams -> Nat] /\ batch \in [Streams -> Nat] /\ unconsumed \in [Streams -> {0, 1}]
    /\ time \in [Sources -> Nat] /\ heap \subseteq Sources
    /\ heap_popped_time \in Nat /\ break_reason \in BreakReasons

CallTypeOK ==
    /\ pc \in PCs /\ todo \in Seq(Sources) /\ {cur, target} \subseteq 0 .. NrMaps
    /\ {target_end, target_tm} \subseteq Nat
    /\ need_break \in {0, 1} /\ lost \in LostRecords

OutTypeOK == got \in [Maps -> Seq(Nat)] /\ out \in Nat /\ reports \subseteq Reports

\* Every variable of order_process() stays within its type; positions in a ring never
\* get negative when events are given back.
TypeOK == KernelTypeOK /\ RingTypeOK /\ SortTypeOK /\ CallTypeOK /\ OutTypeOK

\* The profiler sees events in time order, whatever ring or stream they come from and
\* however late the kernel made them visible (the "out-of-order" branches of
\* order_process() and stream_event_process() are never taken).
DeliveredInOrder == [][out' >= out]_vars

\* The kernel is never given back room that holds a record not yet handed on, nor the
\* event a member of the heap points at (perf_mmap__consume() stays behind
\* perf_mmap__read_event() on every path, the early breaks included).
NotOverwritten ==
    \A m \in Maps :
        /\ \A p \in 1 .. tail[m] :
            (log[m][p].type # "LOST" \/ ~HasLost) => \E i \in 1 .. Len(got[m]) : got[m][i] = p
        /\ m \in heap /\ ~(pc = "read" /\ m = cur) => tail[m] < start[m]

\* When a loss is reported, nothing later than the event before it has been processed yet
\* (the "BUG: unsafe lost event" message of perf_mmap_event_init() never appears).
NoUnsafeLost == \A r \in reports : r.popped <= r.start

\* A sample is processed only after every loss recorded in front of it was reported.
LostReported ==
    HasLost => \A m \in Maps : \A i \in 1 .. Len(got[m]) : \A p \in 1 .. got[m][i] :
        log[m][got[m][i]].type = "SAMPLE" /\ log[m][p].type = "LOST" =>
            \E r \in reports : r.map = m /\ r.from = m /\ r.pos = p

-----------------------------------------------------------------------------
(* The inductive invariant behind TypeOK and DeliveredInOrder, proved in   *)
(* OrderProcessProofs.                                                     *)

\* Control: what the locals of order_process() refer to.
ControlInv ==
    /\ pc = "target" => target \in Maps
    /\ pc \in {"initread", "consume", "read"} => cur \in Maps
    /\ pc = "initread" => todo # <<>> /\ Head(todo) = cur
    /\ lost.n > 0 => lost.map \in Maps
    /\ prev = start
    /\ \A m \in Maps : m \in heap => start[m] >= 1

\* Streams: a batch lies within what was received, items are in time order, and the
\* heap time of a stream is the time of the item it points at.
StreamInv ==
    \A s \in Streams :
        /\ rd[s] <= batch[s] /\ batch[s] <= Len(items[s])
        /\ \A i, j \in 1 .. Len(items[s]) : i <= j => items[s][i] <= items[s][j]
        /\ s \in heap \/ unconsumed[s] = 1 => rd[s] >= 1 /\ time[s] = items[s][rd[s]]

\* The loop runs with every stream in the heap ("All stream_events are initialized, start
\* heap sort").
ReadyInv ==
    /\ pc \in {"init", "initread"} =>
        \A s \in Streams : s \in heap \/ \E i \in 1 .. Len(todo) : todo[i] = s
    /\ pc \in {"loop", "consume", "read"} => \A s \in Streams : s \in heap

\* A ring in the heap is not behind heap_popped_time, or its next event will be moved to
\* event_mono_time, which then is heap_popped_time.
RingTimeInv ==
    /\ out = heap_popped_time
    /\ \A m \in Maps : event_mono_time[m] <= heap_popped_time
    /\ \A m \in Maps : m \in heap =>
        time[m] >= heap_popped_time \/ event_mono_time[m] = heap_popped_time
    /\ pc \in {"consume", "read"} => event_mono_time[cur] = heap_popped_time

\* No item of a stream that is still to come is behind heap_popped_time.
StreamTimeInv ==
    \A s \in Streams :
        /\ s \in heap \/ unconsumed[s] = 1 => heap_popped_time <= time[s]
        /\ \A i \in rd[s] + 1 .. Len(items[s]) : heap_popped_time <= items[s][i]
        /\ items[s] = <<>> => heap_popped_time = 0
        /\ items[s] # <<>> => heap_popped_time <= items[s][Len(items[s])]

OrderInv == ControlInv /\ StreamInv /\ ReadyInv /\ RingTimeInv /\ StreamTimeInv

-----------------------------------------------------------------------------
(* What order_process() promises: see OrderedDelivery. *)

\* Records of ring m not yet handed to the profiler.
Waiting(m) ==
    LET n == IF got[m] = <<>> THEN 0 ELSE got[m][Len(got[m])] IN SubSeq(log[m], n + 1, Len(log[m]))

Promise == INSTANCE OrderedDelivery
             WITH Rings <- Maps, queue <- [m \in Maps |-> Waiting(m)], last <- out

\* order_process() implements ordered delivery: each record of a ring is handed on once,
\* in ring order, none skipped, although every call gives back the events it did not get
\* to; a sample keeps its time unless it is late, and a late one gets exactly the time
\* handed on last.
ImplementsDelivery == Promise!Spec

-----------------------------------------------------------------------------
(* Liveness. *)

\* The event loop keeps flushing every ring (prof_dev_flush() visits each of them), and a
\* call of order_process() runs to its end.
Fairness == WF_vars(Step) /\ \A m \in Maps : SF_vars(OrderMmap(m))

FairSpec == Spec /\ Fairness

\* A record the kernel wrote is handed on, unless the sort waits for a ring whose last event
\* may be followed by a loss: it waits only while nothing is written behind that event, and
\* goes on when the next record shows whether there was a loss.
EventuallyHandedOn ==
    \A m \in Maps : Waiting(m) # <<>> ~>
        \/ Waiting(m) = <<>>
        \/ \E n \in Maps : lost_pause[n] = 1 /\ maybe_lost_end[n] = DataHead(n)
====
