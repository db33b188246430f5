---------------------------- MODULE OrderedDelivery ----------------------------
(***************************************************************************)
(* What the heap sort promises to a profiler: the rings are FIFO queues,   *)
(* and the times of the samples and stream items handed on never go back.  *)
(***************************************************************************)
EXTENDS Integers, Sequences

CONSTANTS Rings, HasLost

VARIABLES
    queue,    \* per ring: records written and not yet handed on
    last      \* time handed on last

Later(a, b) == IF a < b THEN b ELSE a

\* A PERF_RECORD_LOST is not handed on when the profiler has a lost() callback.
Skipped(r) == r.type = "LOST" /\ HasLost

Init ==
    /\ queue = [m \in Rings |-> <<>>]
    /\ last = 0

\* The kernel appends to a ring.
Write(m) ==
    /\ Len(queue'[m]) > Len(queue[m])
    /\ SubSeq(queue'[m], 1, Len(queue[m])) = queue[m]
    /\ \A n \in Rings \ {m} : queue'[n] = queue[n]
    /\ UNCHANGED last

\* The first record that is not skipped is handed on; a late sample gets the last time.
HandOn(m) ==
    \E k \in 1 .. Len(queue[m]) :
        /\ \A i \in 1 .. k - 1 : Skipped(queue[m][i])
        /\ ~Skipped(queue[m][k])
        /\ queue' = [queue EXCEPT ![m] = SubSeq(@, k + 1, Len(@))]
        /\ last' = IF queue[m][k].type = "SAMPLE" THEN Later(last, queue[m][k].time) ELSE last

\* An item of a stream is handed on.
HandOnItem ==
    /\ last' >= last
    /\ UNCHANGED queue

Next == HandOnItem \/ \E m \in Rings : Write(m) \/ HandOn(m)

Spec == Init /\ [][Next]_<<queue, last>>
====
