------------------------------ MODULE EventSpread ------------------------------
(***************************************************************************)
(* src/event-spread.c and src/net.c: one perf-prof pushes events into a    *)
(* character device or a TCP connection, another one pulls them.  Both     *)
(* senders keep what cannot be written at once in a circular buffer and    *)
(* count what does not fit; the readers cut events out of what read()      *)
(* returns.  A reader with heap sort on takes one event at a time from     *)
(* block_read_event().                                                     *)
(*                                                                         *)
(* Each write(), send(), read() and recv() is a step of its own: the two   *)
(* processes run side by side.  Lengths are in cells of some bytes.        *)
(***************************************************************************)
EXTENDS Integers, Sequences, FiniteSetsExt

CONSTANTS
    Modes,        \* the settings: a set of records [sender, reader, order, breaks]
    BUF_LEN,      \* of the circular buffer and of the reader's buffer
    PipeLen,      \* what the kernel keeps between the two
    HdrLen,       \* struct perf_event_header
    TpLen,        \* struct perf_record_tp with the names
    LostLen,      \* struct perf_record_lost
    Sizes,        \* of the other events
    MaxEvents,    \* bound: events pushed
    MaxBreaks,    \* bound: connections that break
    None

ASSUME EventSpreadAssumption ==
    /\ Modes \subseteq [sender : {"cdev", "tcp"}, reader : {"cdev", "tcp"}, order : BOOLEAN,
                        breaks : SUBSET {"shut", "reset"}]
    /\ {BUF_LEN, PipeLen, HdrLen, TpLen, LostLen} \cup Sizes \subseteq Nat \ {0}
    /\ \A s \in Sizes \cup {TpLen, LostLen} : HdrLen < s /\ s < BUF_LEN
    /\ {MaxEvents, MaxBreaks} \subseteq Nat

VARIABLES
    mode,         \* the setting
    conn,         \* the connection: "up", "shut" by the sender's end, "reset"
    breaks,
    connected,    \* the sender has a peer
    buf,          \* its circular buffer
    head,         \* cdev->head, client->write
    tail,         \* cdev->tail, client->send
    lost,         \* lost_event.lost
    armed,        \* EPOLLOUT is asked for
    pc,           \* what the sender is doing
    back,         \* and what after it
    msg,          \* the event it makes room for
    len,          \* of buf_send()
    nr,           \* events pushed so far
    pipe,         \* the cells in the kernel
    rbuf,         \* the cells the reader has read and not consumed
    arrived,      \* the cells it took for the last event
    block         \* the reader's event_block: "open", "hungup", "closed" or, freed and then used,
                  \* "dangling"

send == <<connected, buf, head, tail, lost, armed>>
sender == <<send, pc, back, msg, len, nr>>
reader == <<rbuf, arrived, block>>
vars == <<mode, conn, breaks, sender, pipe, reader>>

-----------------------------------------------------------------------------
(* Events and their cells. *)

Event(n, s) == [type |-> "SAMPLE", n |-> n, size |-> s]

TP == [type |-> "TP", n |-> 0, size |-> TpLen]

Lost(n) == [type |-> "LOST", n |-> n, size |-> LostLen]

Message == {TP} \cup {Event(n, s) : n \in 1 .. MaxEvents, s \in Sizes} \cup {Lost(n) : n \in 1 .. MaxEvents}

Cells(m) == [k \in 1 .. m.size |-> <<m, k>>]

\* The events whose last cell is in it.
Messages(cells) ==
    LET ends == SelectSeq(cells, LAMBDA c : c[2] = c[1].size)
    IN  [i \in 1 .. Len(ends) |-> ends[i][1]]

-----------------------------------------------------------------------------
(* The circular buffer. *)

\* CIRC_CNT(), buf_cnt()
Cnt(h, t) == (h - t) % BUF_LEN

\* Bug: a full buffer cannot be told from an empty one.
SpaceMutant(h, t) == BUF_LEN - Cnt(h, t)

\* CIRC_SPACE(), buf_idle()
Space(h, t) == Cnt(t, h + 1)

\* CIRC_CNT_TO_END()
CntToEnd(h, t) == Min({Cnt(h, t), BUF_LEN - t})

\* n cells from the tail on
Queued(n) == [i \in 1 .. n |-> buf[(tail + i - 1) % BUF_LEN]]

\* Bug: the head runs over the end of the buffer.
WriteMutant(m) ==
    /\ buf' = [i \in DOMAIN buf |-> IF Cnt(i, head) < m.size THEN Cells(m)[Cnt(i, head) + 1] ELSE buf[i]]
    /\ head' = head + m.size

\* buf_write()
Write(m) ==
    /\ buf' = [i \in DOMAIN buf |-> IF Cnt(i, head) < m.size THEN Cells(m)[Cnt(i, head) + 1] ELSE buf[i]]
    /\ head' = (head + m.size) % BUF_LEN

\* Bug: nobody asks for EPOLLOUT.
ArmMutant(t) == UNCHANGED armed

\* EPOLLOUT is asked for when an event enters an empty buffer, of which t is the tail.
Arm(t) == armed' = (armed \/ Cnt(head, t) = 0)

Room == IF conn = "up" THEN PipeLen - Len(pipe) ELSE 0

-----------------------------------------------------------------------------
(* Pushing. *)

\* The end of block_broadcast() and of tcp_send(), after an attempt to make room
Store(m) ==
    IF Space(head, tail) >= m.size
    THEN Write(m) /\ Arm(tail) /\ UNCHANGED <<tail, lost, connected>>
    ELSE lost' = lost + 1 /\ UNCHANGED <<buf, head, tail, armed, connected>>

\* block_broadcast() and tcp_server_broadcast(): nothing is pushed without a peer.
Broadcast(s) ==
    /\ pc \in {"idle", "flush"}
    /\ connected
    /\ nr < MaxEvents
    /\ nr' = nr + 1
    /\ IF Space(head, tail) < s
       THEN /\ pc' = IF mode.sender = "cdev" THEN "write" ELSE "send"
            /\ back' = pc
            /\ msg' = Event(nr + 1, s)
            /\ len' = Cnt(head, tail)
            /\ UNCHANGED send
       ELSE Store(Event(nr + 1, s)) /\ UNCHANGED <<pc, back, msg, len>>
    /\ UNCHANGED <<mode, conn, breaks, pipe, reader>>

\* There was an attempt to make room.
Stored ==
    /\ pc = "store"
    /\ Store(msg)
    /\ pc' = back
    /\ msg' = None
    /\ UNCHANGED <<mode, conn, breaks, back, len, nr, pipe, reader>>

\* handle_cdev_event(EPOLLOUT), handle_accept(): a new peer is sent the header first.
Connect ==
    /\ pc = "idle"
    /\ conn = "up"
    /\ ~connected
    /\ connected' = TRUE
    /\ Write(TP) /\ Arm(tail)
    /\ pc' = IF mode.sender = "cdev" THEN "flush" ELSE "idle"
    /\ UNCHANGED <<mode, conn, breaks, tail, lost, back, msg, len, nr, pipe, reader>>

\* prof_dev_flush() of cdev_write_header() is over.
Flushed ==
    /\ pc = "flush"
    /\ pc' = "write"
    /\ back' = "idle"
    /\ UNCHANGED <<mode, conn, breaks, send, msg, len, nr, pipe, reader>>

\* EPOLLOUT is reported.
PollOut ==
    /\ pc = "idle"
    /\ connected /\ armed /\ Room > 0
    /\ pc' = IF mode.sender = "cdev" THEN "write" ELSE "send"
    /\ back' = "idle"
    /\ len' = Cnt(head, tail)
    /\ UNCHANGED <<mode, conn, breaks, send, msg, nr, pipe, reader>>

Return == pc' = IF msg = None THEN back ELSE "store"

\* A write() of handle_cdev_event(), and what follows it up to the next one
CdevWrite ==
    /\ pc = "write"
    /\ LET cnt == CntToEnd(head, tail)
           wr == Min({cnt, Room})
           t == (tail + wr) % BUF_LEN
       IN  \/ /\ cnt = 0
              /\ armed' = FALSE
              /\ Return
              /\ UNCHANGED <<buf, head, tail, lost, connected, pipe>>
           \/ /\ cnt > 0 /\ wr = 0
              /\ Return
              /\ UNCHANGED <<send, pipe>>
           \/ /\ wr > 0
              /\ pipe' = pipe \o Queued(wr)
              /\ tail' = t
              /\ IF lost > 0 /\ wr >= LostLen
                 THEN Write(Lost(lost)) /\ Arm(t) /\ lost' = 0
                 ELSE UNCHANGED <<buf, head, armed, lost>>
              /\ UNCHANGED <<connected, pc>>
    /\ UNCHANGED <<mode, conn, breaks, back, msg, len, nr, reader>>

\* The first send() of buf_send(), up to the end of the buffer
SendToEnd ==
    /\ pc = "send"
    /\ conn = "up"
    /\ tail + len >= BUF_LEN
    /\ LET n == BUF_LEN - tail
           ret == Min({n, Room})
       IN  /\ tail' = (tail + ret) % BUF_LEN
           /\ pipe' = pipe \o Queued(ret)
           /\ len' = len - ret
           /\ IF ret = n THEN UNCHANGED pc ELSE Return
    /\ UNCHANGED <<mode, conn, breaks, connected, buf, head, lost, armed, back, msg, nr, reader>>

\* Bug: the cells in use are taken for the free ones.
TellLossMutant(t) == lost > 0 /\ Cnt(head, t) > LostLen

\* buf_send() tells of the events lost.
TellLoss(t) == lost > 0 /\ Space(head, t) > LostLen

\* The second one, what follows it and, for EPOLLOUT, the end of handle_inout()
SendRest ==
    /\ pc = "send"
    /\ conn = "up"
    /\ tail + len < BUF_LEN
    /\ LET ret == Min({len, Room})
           t == (tail + ret) % BUF_LEN
       IN  /\ tail' = t
           /\ pipe' = pipe \o Queued(ret)
           /\ IF (ret > 0 \/ len = 0) /\ TellLoss(t)
              THEN Write(Lost(lost)) /\ lost' = 0
              ELSE UNCHANGED <<buf, head, lost>>
           /\ armed' = (armed /\ (msg # None \/ Cnt(head', t) # 0))
    /\ Return
    /\ UNCHANGED <<mode, conn, breaks, connected, back, msg, len, nr, reader>>

\* send() fails: tcp_send() takes the client off the list, handle_inout() closes it.
SendFails ==
    /\ pc = "send"
    /\ conn # "up"
    /\ connected' = FALSE
    /\ pc' = back
    /\ msg' = None
    /\ UNCHANGED <<mode, conn, breaks, buf, head, tail, lost, armed, back, len, nr, pipe, reader>>

-----------------------------------------------------------------------------
(* Pulling. *)

\* Bug: the event that ends what was read is left for later.
CompleteMutant(cells) == Len(cells) > HdrLen /\ Len(cells) > cells[1][1].size

\* An event is there.  Its size is in its header.
Complete(cells) == Len(cells) > HdrLen /\ Len(cells) >= cells[1][1].size

First(cells) == SubSeq(cells, 1, cells[1][1].size)

Rest(cells) == SubSeq(cells, cells[1][1].size + 1, Len(cells))

\* What a read() of at most n cells can return
Readable(n) == 1 .. Min({n, Len(pipe)})

\* handle_cdev_event(EPOLLIN) and handle_inout(EPOLLIN): a read()
Read ==
    /\ ~mode.order /\ block = "open"
    /\ ~Complete(rbuf)
    /\ \E n \in Readable(BUF_LEN - Len(rbuf)) :
           /\ rbuf' = rbuf \o SubSeq(pipe, 1, n)
           /\ pipe' = SubSeq(pipe, n + 1, Len(pipe))
    /\ UNCHANGED <<mode, conn, breaks, sender, arrived, block>>

\* block_process_event() with the events in it, one after the other
Process ==
    /\ ~mode.order /\ block = "open"
    /\ Complete(rbuf)
    /\ arrived' = First(rbuf)
    /\ rbuf' = Rest(rbuf)
    /\ UNCHANGED <<mode, conn, breaks, sender, pipe, block>>

\* Without the event that block_read_event() returned last
Unconsumed == IF Complete(rbuf) THEN Rest(rbuf) ELSE rbuf

\* block_read_event(): the event it returned last is consumed.  With init it reads when there
\* is no event behind it.
ReadEvent(init) ==
    /\ mode.order /\ block = "open"
    /\ LET reads == init /\ ~Complete(Unconsumed) /\ pipe # <<>>
       IN  \E n \in IF reads THEN Readable(BUF_LEN - Len(Unconsumed)) ELSE {0} :
               /\ rbuf' = Unconsumed \o SubSeq(pipe, 1, n)
               /\ pipe' = SubSeq(pipe, n + 1, Len(pipe))
               /\ arrived' = IF Complete(rbuf') THEN First(rbuf') ELSE arrived
    /\ UNCHANGED <<mode, conn, breaks, sender, block>>

-----------------------------------------------------------------------------
(* Hanging up. *)

Hangup(how) ==
    /\ how \in mode.breaks
    /\ conn = "up"
    /\ breaks < MaxBreaks
    /\ breaks' = breaks + 1
    /\ conn' = how
    /\ UNCHANGED <<mode, sender, pipe, reader>>

\* The sender is told: handle_cdev_event(EPOLLHUP), and tcp_unref() of an accepted client.
SenderHup ==
    /\ pc = "idle"
    /\ conn # "up"
    /\ head' = 0 /\ tail' = 0 /\ lost' = 0
    /\ connected' = FALSE
    /\ armed' = FALSE
    /\ UNCHANGED <<mode, conn, breaks, buf, pc, back, msg, len, nr, pipe, reader>>

\* Bug: cdev->read is not reset.
CdevHupKeeps ==
    /\ mode.reader = "cdev" /\ ~mode.order /\ block = "open"
    /\ conn # "up"
    /\ pipe = <<>> /\ ~Complete(rbuf)
    /\ block' = "hungup"
    /\ UNCHANGED <<mode, conn, breaks, sender, pipe, rbuf, arrived>>

\* The reader of a character device is told, after it has read what there was.  A sorting one
\* was never marked as connected: nothing is reset.
CdevHup ==
    /\ mode.reader = "cdev" /\ ~mode.order /\ block = "open"
    /\ conn # "up"
    /\ pipe = <<>> /\ ~Complete(rbuf)
    /\ rbuf' = <<>>
    /\ block' = "hungup"
    /\ UNCHANGED <<mode, conn, breaks, sender, pipe, arrived>>

\* handle_errhup() of the reader's connection: the block is freed.
TcpHup ==
    /\ mode.reader = "tcp" /\ block = "open"
    /\ \/ conn = "reset"
       \/ conn = "shut" /\ ~mode.order /\ pipe = <<>> /\ ~Complete(rbuf)
    /\ block' = "closed"
    /\ rbuf' = <<>>
    /\ pipe' = <<>>
    /\ UNCHANGED <<mode, conn, breaks, sender, arrived>>

\* recv() returns 0 in tcp_recv(): the block is freed, and block_read_event() goes on with it.
RecvNothing ==
    /\ mode.reader = "tcp" /\ mode.order /\ block = "open"
    /\ conn = "shut" /\ pipe = <<>>
    /\ ~Complete(Unconsumed)
    /\ block' = "dangling"
    /\ rbuf' = <<>>
    /\ UNCHANGED <<mode, conn, breaks, sender, pipe, arrived>>

\* There is a peer again: the character device of the reader is still open.
Reconnect ==
    /\ mode.reader = "cdev"
    /\ conn # "up"
    /\ ~connected /\ head = tail /\ lost = 0 /\ pc = "idle"
    /\ mode.order \/ block = "hungup"
    /\ conn' = "up"
    /\ block' = "open"
    /\ UNCHANGED <<mode, breaks, sender, pipe, rbuf, arrived>>

-----------------------------------------------------------------------------

\* What is on its way.  An event that block_read_event() returned is consumed by the next call;
\* what a broken connection leaves in the sender's buffer goes nowhere.
InFlight ==
    (IF mode.order THEN Unconsumed ELSE rbuf) \o pipe
    \o IF conn = "up" THEN Queued(Cnt(head, tail)) ELSE <<>>

\* Bound: everything has been pushed.  Or nobody is connected.
Done ==
    /\ pc = "idle"
    /\ conn # "up" \/ (nr = MaxEvents /\ InFlight = <<>>)
    /\ UNCHANGED vars

Init ==
    /\ mode \in Modes
    /\ conn = "up" /\ breaks = 0
    /\ connected = FALSE
    /\ buf = [i \in 0 .. BUF_LEN - 1 |-> None]
    /\ head = 0 /\ tail = 0 /\ lost = 0
    /\ armed = FALSE
    /\ pc = "idle" /\ back = "idle" /\ msg = None /\ len = 0 /\ nr = 0
    /\ pipe = <<>>
    /\ rbuf = <<>> /\ arrived = None /\ block = "open"

SenderStep == Connect \/ Flushed \/ PollOut \/ Stored \/ CdevWrite \/ SendToEnd \/ SendRest \/ SendFails

Next ==
    \/ \E s \in Sizes : Broadcast(s)
    \/ SenderStep
    \/ Read \/ Process
    \/ \E init \in BOOLEAN : ReadEvent(init)
    \/ \E how \in {"shut", "reset"} : Hangup(how)
    \/ SenderHup \/ CdevHup \/ TcpHup \/ RecvNothing \/ Reconnect
    \/ Done

Spec == Init /\ [][Next]_vars

\* Both processes run.  A sorting reader is called for each ORDER_TIME, every 10 ms.
FairSpec == Spec /\ WF_vars(SenderStep) /\ WF_vars(Read \/ Process \/ ReadEvent(TRUE))

-----------------------------------------------------------------------------
(* Properties. *)

\* Indices, counters and states stay in their ranges.
TypeOK ==
    /\ mode \in Modes
    /\ conn \in {"up", "shut", "reset"}
    /\ breaks \in 0 .. MaxBreaks
    /\ connected \in BOOLEAN /\ armed \in BOOLEAN
    /\ {head, tail} \subseteq 0 .. BUF_LEN - 1
    /\ {lost, nr} \subseteq 0 .. MaxEvents
    /\ pc \in {"idle", "flush", "write", "send", "store"} /\ back \in {"idle", "flush"}
    /\ msg \in Message \cup {None}
    /\ len \in 0 .. BUF_LEN - 1
    /\ Len(pipe) <= PipeLen
    /\ Len(rbuf) <= BUF_LEN
    /\ block \in {"open", "hungup", "closed", "dangling"}

\* Whoever waits for room is woken up: with cells in the buffer EPOLLOUT is asked for.
NobodyForgotten == connected /\ pc = "idle" /\ Cnt(head, tail) > 0 => armed

\* The block that a handler or block_read_event() works with is not freed under it.
BlockLives == block # "dangling"

\* What the reader cuts out of its buffer and hands on is an event as the sender wrote it, also
\* after a connection that broke in the middle of an event.
ArrivesWhole == arrived # None => arrived = Cells(arrived[1][1])

\* Two perf-prof processes, connected through either kind of sender and of reader, are a queue
\* that loses no event without counting it, and tells of each loss once.
Queue == INSTANCE LossyQueue WITH
    queue <- Messages(InFlight),
    lost <- IF conn = "up" THEN lost ELSE 0,
    arrived <- IF arrived = None THEN None ELSE arrived[1][1],
    up <- conn = "up"

ImplementsQueue == Queue!Spec

\* What was pushed arrives, or the connection breaks: nothing stays in a buffer.
EventsArrive == InFlight # <<>> ~> (conn # "up" \/ InFlight = <<>>)

\* A TCP client is told of every loss; the character device tells when it next writes enough.
LossTold == (mode.sender = "tcp" /\ lost > 0) ~> (conn # "up" \/ lost = 0)
====
