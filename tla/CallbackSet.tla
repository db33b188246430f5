------------------------------ MODULE CallbackSet ------------------------------
(***************************************************************************)
(* What the event loop promises to the code that registers with it: a file *)
(* descriptor has at most one callback; of the descriptors found ready     *)
(* together each gets one call, of the callback registered at the time of  *)
(* the call, unless it is unregistered first.  An event found for one      *)
(* registration of a descriptor is never given to a later one.             *)
(***************************************************************************)
CONSTANTS Fd, Callback, None

VARIABLES
    callbacks,    \* the callback of each descriptor, or None
    pending,      \* descriptors found ready and still to be called
    calling       \* the call that runs: descriptor and callback

Registered == {f \in Fd : callbacks[f] # None}

Init ==
    /\ callbacks = [f \in Fd |-> None]
    /\ pending = {}
    /\ calling = None

\* A registered descriptor takes the new callback and keeps its place in the round.
Register(f, c) ==
    /\ callbacks' = [callbacks EXCEPT ![f] = c]
    /\ UNCHANGED <<pending, calling>>

Unregister(f) ==
    /\ callbacks' = [callbacks EXCEPT ![f] = None]
    /\ pending' = pending \ {f}
    /\ UNCHANGED calling

\* A round starts when the one before it is over.
Collect(S) ==
    /\ calling = None
    /\ pending = {}
    /\ pending' = S
    /\ UNCHANGED <<callbacks, calling>>

Call(f) ==
    /\ calling = None
    /\ pending' = pending \ {f}
    /\ calling' = <<f, callbacks[f]>>
    /\ UNCHANGED callbacks

Return ==
    /\ calling' = None
    /\ UNCHANGED <<callbacks, pending>>

Next ==
    \/ \E f \in Fd, c \in Callback : Register(f, c)
    \/ \E f \in Fd : Unregister(f)
    \/ \E S \in SUBSET Registered : Collect(S)
    \/ \E f \in pending : Call(f)
    \/ Return

Spec == Init /\ [][Next]_<<callbacks, pending, calling>>
====
