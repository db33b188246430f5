------------------------------ MODULE LossyQueue ------------------------------
(***************************************************************************)
(* What a pushing perf-prof promises a pulling one: the events it took     *)
(* over arrive whole, once and in order.  Events there was no room for are *)
(* counted, and each count arrives in a LOST record behind the events that *)
(* were taken over before it was told.  When the connection breaks the     *)
(* events that have not arrived, from some event on, are gone.             *)
(***************************************************************************)
EXTENDS Naturals, Sequences

CONSTANTS
    Message,      \* what can be sent
    Lost(_),      \* the record that tells of n lost events
    None

VARIABLES
    queue,        \* taken over and not arrived
    lost,         \* events lost and not told of
    arrived,      \* the last that arrived
    up            \* the two are connected

vars == <<queue, lost, arrived, up>>

Init == queue = <<>> /\ lost = 0 /\ arrived = None /\ up \in BOOLEAN

Take(m) == queue' = Append(queue, m) /\ UNCHANGED <<lost, arrived, up>>

Lose == lost' = lost + 1 /\ UNCHANGED <<queue, arrived, up>>

Tell == lost > 0 /\ queue' = Append(queue, Lost(lost)) /\ lost' = 0 /\ UNCHANGED <<arrived, up>>

Arrive == queue # <<>> /\ arrived' = Head(queue) /\ queue' = Tail(queue) /\ UNCHANGED <<lost, up>>

\* From some event on, those that have not arrived are gone, and the count with them.
Break == /\ up /\ up' = FALSE
         /\ \E n \in 0 .. Len(queue) : queue' = SubSeq(queue, 1, n)
         /\ lost' = 0
         /\ UNCHANGED arrived

Forget == /\ ~up
          /\ \E n \in 0 .. Len(queue) : queue' = SubSeq(queue, 1, n)
          /\ UNCHANGED <<lost, arrived, up>>

Connect == up' = TRUE /\ UNCHANGED <<queue, lost, arrived>>

Next == (\E m \in Message : Take(m)) \/ Lose \/ Tell \/ Arrive \/ Break \/ Forget \/ Connect

Spec == Init /\ [][Next]_vars
====
