------------------------------- MODULE EventPoll -------------------------------
(***************************************************************************)
(* lib/epoll.c: the event loop under every other part of the program.  A   *)
(* registration is a malloc'ed event_poll_data whose address the kernel    *)
(* keeps and hands back; a poll collects a batch of such addresses and     *)
(* calls the handlers one by one, and a handler adds and deletes           *)
(* registrations, those later in the batch included, while memory that is  *)
(* freed may be allocated again at once.                                   *)
(***************************************************************************)
EXTENDS Integers, Sequences, FiniteSets

CONSTANTS
    Fd,           \* file descriptor numbers
    Addr,         \* addresses malloc() can return
    Callback,     \* what a registration calls: handle and ptr
    MaxEvents,    \* ep->maxevents
    NULL

ASSUME EventPollAssumption ==
    /\ IsFiniteSet(Fd)
    /\ MaxEvents \in Nat \ {0}
    /\ NULL \notin Addr /\ NULL \notin Callback
    /\ NULL \notin [fd : Fd, callback : Callback] /\ NULL \notin Fd \X Callback

VARIABLES
    root,         \* the rb-tree: address of the node of each descriptor
    data,         \* what is stored at each address, NULL where nothing is allocated
    nr,           \* ep->nr
    events,       \* ep->events: the addresses collected, from 0
    i,            \* ep->i
    cnt,          \* ep->cnt
    next,         \* the loop variable of event_poll__poll()
    pc,           \* "out" of a poll, in its "loop", in a handler ("handle"), "end" of main()
    calling,      \* the handler that runs: its descriptor and callback
    kern,         \* the kernel's interest list: the address given for each descriptor
    ready         \* the kernel's ready list

vars == <<root, data, nr, events, i, cnt, next, pc, calling, kern, ready>>

-----------------------------------------------------------------------------
(* Registrations. *)

Allocated == {a \in Addr : data[a] # NULL}

Registered == {f \in Fd : root[f] # NULL}

\* The ready list without one descriptor.
Unready(f) ==
    LET at == CHOOSE k \in DOMAIN ready : ready[k] = f
    IN  IF \E k \in DOMAIN ready : ready[k] = f
        THEN [k \in 1 .. Len(ready) - 1 |-> IF k < at THEN ready[k] ELSE ready[k + 1]]
        ELSE ready

\* Registrations are made before main() polls, by handlers, and when main() closes down.
Running == pc \in {"out", "handle"}

\* The file may not support epoll: its node stays in the tree, unknown to the kernel.
AddNew(f, c) ==
    /\ root[f] = NULL
    /\ \E a \in Addr \ Allocated, supported \in BOOLEAN :
        /\ root' = [root EXCEPT ![f] = a]
        /\ data' = [data EXCEPT ![a] = [fd |-> f, callback |-> c]]
        /\ kern' = IF supported THEN [kern EXCEPT ![f] = a] ELSE kern
    /\ nr' = nr + 1
    /\ UNCHANGED <<events, ready>>

AddOldCounted(f, c) ==
    /\ root[f] # NULL
    /\ Addr \ Allocated # {}
    /\ data' = [data EXCEPT ![root[f]] = [fd |-> f, callback |-> c]]
    /\ nr' = nr + 1
    /\ UNCHANGED <<root, kern, events, ready>>

\* The node allocated for the search is freed again and the old one takes the new values.
AddOld(f, c) ==
    /\ root[f] # NULL
    /\ Addr \ Allocated # {}
    /\ data' = [data EXCEPT ![root[f]] = [fd |-> f, callback |-> c]]
    /\ kern' = IF kern[f] = NULL THEN kern ELSE [kern EXCEPT ![f] = root[f]]
    /\ UNCHANGED <<root, nr, events, ready>>

\* event_poll__add(); without memory it returns -ENOMEM and changes nothing.
Add(f, c) ==
    /\ Running
    /\ AddNew(f, c) \/ AddOld(f, c)
    /\ UNCHANGED <<i, cnt, next, pc, calling>>

\* The rest of the batch without the address.
ClearedTooFew(a) ==
    [k \in DOMAIN events |-> IF k \in i + 1 .. cnt - 2 /\ events[k] = a THEN NULL ELSE events[k]]
ClearedAll(a) ==
    [k \in DOMAIN events |-> IF k \in i + 1 .. cnt - 1 THEN NULL ELSE events[k]]
Cleared(a) ==
    [k \in DOMAIN events |-> IF k \in i + 1 .. cnt - 1 /\ events[k] = a THEN NULL ELSE events[k]]

\* event_poll__del()
Del(f) ==
    /\ Running
    /\ root[f] # NULL
    /\ events' = Cleared(root[f])
    /\ root' = [root EXCEPT ![f] = NULL]
    /\ data' = [data EXCEPT ![root[f]] = NULL]
    /\ nr' = nr - 1
    /\ kern' = [kern EXCEPT ![f] = NULL]
    /\ ready' = Unready(f)
    /\ UNCHANGED <<i, cnt, next, pc, calling>>

-----------------------------------------------------------------------------
(* event_poll__poll() *)

\* How many of the ready files epoll_wait() reports.
Reported == IF Len(ready) < MaxEvents THEN Len(ready) ELSE MaxEvents

\* epoll_wait() blocks until a file is ready, takes as many as fit from the front of the
\* list and puts them, still ready as far as it knows, at the end.
Wait ==
    /\ pc = "out"
    /\ ready # <<>>
    /\ LET n == Reported
       IN  /\ cnt' = n
           /\ events' = [k \in DOMAIN events |-> IF k < n THEN kern[ready[k + 1]] ELSE events[k]]
           /\ ready' = [k \in DOMAIN ready |->
                           IF k <= Len(ready) - n THEN ready[k + n] ELSE ready[k - (Len(ready) - n)]]
    /\ pc' = "loop"
    /\ UNCHANGED <<root, data, nr, i, next, calling, kern>>

\* An entry that was cleared is skipped and leaves ep->i alone.
Skip ==
    /\ pc = "loop"
    /\ next < cnt
    /\ events[next] = NULL
    /\ next' = next + 1
    /\ UNCHANGED <<root, data, nr, events, i, cnt, pc, calling, kern, ready>>

Dispatch ==
    /\ pc = "loop"
    /\ next < cnt
    /\ events[next] # NULL
    /\ i' = next
    /\ calling' = IF data[events[next]] = NULL THEN NULL
                 ELSE <<data[events[next]].fd, data[events[next]].callback>>
    /\ pc' = "handle"
    /\ UNCHANGED <<root, data, nr, events, cnt, next, kern, ready>>

\* The handler returns.
Return ==
    /\ pc = "handle"
    /\ next' = next + 1
    /\ calling' = NULL
    /\ pc' = "loop"
    /\ UNCHANGED <<root, data, nr, events, i, cnt, kern, ready>>

\* The batch is done; without registrations main() leaves its loop.
EndPoll ==
    /\ pc = "loop"
    /\ next = cnt
    /\ i' = 0
    /\ cnt' = 0
    /\ next' = 0
    /\ pc' = IF nr = 0 THEN "end" ELSE "out"
    /\ UNCHANGED <<root, data, nr, events, calling, kern, ready>>

-----------------------------------------------------------------------------
(* The files. *)

InReady(f) == \E k \in DOMAIN ready : ready[k] = f

\* Data arrives, a timer expires, the other end hangs up.
BecomeReady(f) ==
    /\ kern[f] # NULL
    /\ ~InReady(f)
    /\ ready' = Append(ready, f)
    /\ UNCHANGED <<root, data, nr, events, i, cnt, next, pc, calling, kern>>

\* What was there has been read.
Drained(f) ==
    /\ pc # "end"
    /\ InReady(f)
    /\ ready' = Unready(f)
    /\ UNCHANGED <<root, data, nr, events, i, cnt, next, pc, calling, kern>>

Ended == pc = "end" /\ UNCHANGED vars

Init ==
    /\ root = [f \in Fd |-> NULL]
    /\ data = [a \in Addr |-> NULL]
    /\ nr = 0
    /\ events = [k \in 0 .. MaxEvents - 1 |-> NULL]
    /\ i = 0 /\ cnt = 0 /\ next = 0
    /\ pc = "out"
    /\ calling = NULL
    /\ kern = [f \in Fd |-> NULL]
    /\ ready = <<>>

Next ==
    \/ \E f \in Fd, c \in Callback : Add(f, c)
    \/ \E f \in Fd : Del(f)
    \/ Wait \/ Skip \/ Dispatch \/ Return \/ EndPoll
    \/ \E f \in Fd : BecomeReady(f) \/ Drained(f)
    \/ Ended

Spec == Init /\ [][Next]_vars

\* main() polls again when a poll is over, and every handler returns.
FairSpec == Spec /\ WF_vars(Wait) /\ WF_vars(Skip \/ Dispatch \/ EndPoll) /\ WF_vars(Return)

-----------------------------------------------------------------------------
(* Properties. *)

TypeOK ==
    /\ root \in [Fd -> Addr \cup {NULL}]
    /\ data \in [Addr -> [fd : Fd, callback : Callback] \cup {NULL}]
    /\ nr \in Nat
    /\ events \in [0 .. MaxEvents - 1 -> Addr \cup {NULL}]
    /\ i \in 0 .. MaxEvents - 1
    /\ cnt \in 0 .. MaxEvents
    /\ next \in 0 .. MaxEvents
    /\ pc \in {"out", "loop", "handle", "end"}
    /\ calling \in Fd \X Callback \cup {NULL}
    /\ kern \in [Fd -> Addr \cup {NULL}]
    /\ ready \in Seq(Fd)

\* Positions of the batch still to be looked at.
Rest == CASE pc = "loop" -> next .. cnt - 1
          [] pc = "handle" -> next + 1 .. cnt - 1
          [] OTHER -> {}

\* An address still to be taken from the batch is that of a registration in the tree, and
\* no two places hold the same: deleting a registration, in whatever handler, leaves no
\* pointer to the freed event_poll_data that the loop of event_poll__poll() would follow.
BatchLive ==
    /\ \A k \in Rest : events[k] # NULL =>
        /\ data[events[k]] # NULL
        /\ root[data[events[k]].fd] = events[k]
    /\ \A j, k \in Rest : events[j] = events[k] /\ events[j] # NULL => j = k

\* The kernel hands back the address of the node in the tree or nothing, and ep->nr, by
\* which main() decides that nobody is left to wait for, counts the nodes.
TreeAgrees ==
    /\ \A f \in Fd : kern[f] \in {NULL, root[f]}
    /\ \A f \in Registered : data[root[f]] # NULL /\ data[root[f]].fd = f
    /\ nr = Cardinality(Registered)

\* The callback of each descriptor, and the descriptors the batch still holds.
callbacks == [f \in Fd |-> IF root[f] = NULL THEN NULL ELSE data[root[f]].callback]
pending == {f \in Fd : \E k \in Rest : /\ events[k] # NULL
                                       /\ data[events[k]] # NULL
                                       /\ data[events[k]].fd = f}

Callbacks == INSTANCE CallbackSet WITH None <- NULL

\* The pointers, the reuse of memory and of descriptor numbers, and the clearing of the
\* batch are not visible to the code that registers: event_poll__add(), __del() and
\* __poll() implement a set of callbacks.
ImplementsCallbacks == Callbacks!Spec

\* A descriptor that stays ready is handled, however few fit in one batch and whatever
\* the handlers of the others add and delete.
EveryReadyHandled ==
    \A f \in Fd : InReady(f) ~> 
        (~InReady(f) \/ pc = "end" \/ (calling # NULL /\ calling[1] = f))
====
