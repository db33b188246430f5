---------------------------- MODULE EventPollProofs ----------------------------
(***************************************************************************)
(* The event loop implements a set of callbacks, for every number of       *)
(* descriptors, addresses and callbacks and every size of the batch.       *)
(***************************************************************************)
EXTENDS EventPoll, FiniteSetTheorems, TLAPS

\* Where the loop is, and what ep->i and ep->cnt are there: in a handler the positions
\* that event_poll__del() clears are exactly those still to be looked at.
Control ==
    /\ pc \in {"out", "end"} => i = 0 /\ cnt = 0 /\ next = 0
    /\ pc = "loop" => next <= cnt
    /\ pc = "handle" => i = next /\ next < cnt
    /\ pc # "handle" => calling = NULL

\* The kernel reports a descriptor once, and only one of its interest list.
ReadyListed ==
    /\ \A k \in 1 .. Len(ready) : kern[ready[k]] # NULL
    /\ \A j, k \in 1 .. Len(ready) : ready[j] = ready[k] => j = k

IInv == TypeOK /\ TreeAgrees /\ BatchLive /\ Control /\ ReadyListed

\* The list t holds descriptors of the ready list other than f, once each.
Remains(t, f) ==
    /\ t \in Seq(Fd)
    /\ \A k \in 1 .. Len(t) : \E j \in 1 .. Len(ready) : t[k] = ready[j] /\ ready[j] # f
    /\ \A j, k \in 1 .. Len(t) : t[j] = t[k] => j = k

\* Taking a descriptor out of the ready list keeps the others, once each.
LEMMA UnreadyRemoves ==
    ASSUME NEW f \in Fd, ready \in Seq(Fd),
           \A j, k \in 1 .. Len(ready) : ready[j] = ready[k] => j = k
    PROVE  Remains(Unready(f), f)
<1>1. CASE ~\E k \in DOMAIN ready : ready[k] = f
  BY <1>1 DEF Unready, Remains
<1>2. CASE \E k \in DOMAIN ready : ready[k] = f
  <2> DEFINE at == CHOOSE k \in DOMAIN ready : ready[k] = f
             s == [k \in 1 .. Len(ready) - 1 |-> IF k < at THEN ready[k] ELSE ready[k + 1]]
  <2>1. at \in 1 .. Len(ready) /\ ready[at] = f
    BY <1>2
  <2>2. Unready(f) = s
    BY <1>2, Zenon DEF Unready
  <2> HIDE DEF at
  <2>3. Len(ready) \in Nat /\ Len(ready) - 1 \in Nat
    BY <2>1
  <2>4. s \in Seq(Fd) /\ Len(s) = Len(ready) - 1
    BY <2>1, <2>3
  <2>5. ASSUME NEW k \in 1 .. Len(s)
        PROVE  \E j \in 1 .. Len(ready) : /\ s[k] = ready[j] /\ ready[j] # f
                                          /\ j = IF k < at THEN k ELSE k + 1
    BY <2>1, <2>3, <2>4
  <2>6. ASSUME NEW j \in 1 .. Len(s), NEW k \in 1 .. Len(s), s[j] = s[k]
        PROVE  j = k
    <3>1. PICK jj \in 1 .. Len(ready) : s[j] = ready[jj] /\ jj = IF j < at THEN j ELSE j + 1
      BY <2>5, Zenon
    <3>2. PICK kk \in 1 .. Len(ready) : s[k] = ready[kk] /\ kk = IF k < at THEN k ELSE k + 1
      BY <2>5, Zenon
    <3>3. jj = kk
      BY <3>1, <3>2, <2>6, Zenon
    <3> QED BY <3>1, <3>2, <3>3, <2>1, <2>3, <2>4
  <2> HIDE DEF s
  <2> QED BY <2>2, <2>4, <2>5, <2>6, Zenon DEF Remains
<1> QED BY <1>1, <1>2, Zenon

-----------------------------------------------------------------------------
(* The invariant. *)

LEMMA InitIInv == Init => IInv
<1> SUFFICES ASSUME Init PROVE IInv
  BY Zenon
<1> USE EventPollAssumption
<1>1. TypeOK
  BY DEF Init, TypeOK
<1>2. TreeAgrees
  <2>1. Registered = {}
    BY Zenon DEF Init, Registered
  <2>2. Cardinality({}) = 0
    BY FS_EmptySet, Zenon
  <2> QED BY <2>1, <2>2, Zenon DEF Init, TreeAgrees
<1>3. BatchLive /\ Control /\ ReadyListed
  BY DEF Init, BatchLive, Rest, Control, ReadyListed
<1> QED BY <1>1, <1>2, <1>3, Zenon DEF IInv

\* Two descriptors never share a node.
LEMMA RootInjective ==
    ASSUME TreeAgrees, NEW f \in Fd, NEW g \in Fd, root[f] # NULL, root[f] = root[g]
    PROVE  f = g
BY Zenon DEF TreeAgrees, Registered

\* The number of nodes after one more, and after one less.
LEMMA OneMore ==
    ASSUME TreeAgrees, NEW f \in Fd, root[f] = NULL
    PROVE  /\ Cardinality(Registered \cup {f}) = nr + 1
           /\ nr \in Nat
<1>1. IsFiniteSet(Registered) /\ f \notin Registered
  BY EventPollAssumption, FS_Subset, Zenon DEF Registered
<1> QED BY <1>1, FS_AddElement, FS_CardinalityType, Zenon DEF TreeAgrees

LEMMA OneLess ==
    ASSUME TreeAgrees, NEW f \in Fd, root[f] # NULL
    PROVE  /\ Cardinality(Registered \ {f}) = nr - 1
           /\ nr - 1 \in Nat
<1>1. IsFiniteSet(Registered) /\ f \in Registered
  BY EventPollAssumption, FS_Subset, Zenon DEF Registered
<1>2. /\ IsFiniteSet(Registered \ {f})
      /\ Cardinality(Registered \ {f}) = Cardinality(Registered) - 1
  BY <1>1, FS_RemoveElement, Zenon
<1>3. Cardinality(Registered \ {f}) \in Nat
  BY <1>2, FS_CardinalityType, Zenon
<1> QED BY <1>2, <1>3, Zenon DEF TreeAgrees

LEMMA AddNewStep ==
    ASSUME IInv, NEW f \in Fd, NEW c \in Callback, Running, AddNew(f, c),
           UNCHANGED <<i, cnt, next, pc, calling>>
    PROVE  IInv'
<1> USE EventPollAssumption
<1>1. PICK a \in Addr \ Allocated, supported \in BOOLEAN :
        /\ root' = [root EXCEPT ![f] = a]
        /\ data' = [data EXCEPT ![a] = [fd |-> f, callback |-> c]]
        /\ kern' = IF supported THEN [kern EXCEPT ![f] = a] ELSE kern
  BY Zenon DEF AddNew
<1>2. a \in Addr /\ data[a] = NULL /\ a # NULL
  BY Zenon DEF Allocated
<1>3. TypeOK'
  BY <1>1, <1>2 DEF AddNew, IInv, TypeOK
<1>4. Registered' = Registered \cup {f}
  BY <1>1, <1>2 DEF Registered, IInv, TypeOK
<1>5. nr' = Cardinality(Registered')
  BY <1>4, OneMore, Zenon DEF AddNew, IInv
<1>6. \A g \in Registered : root[g] # a
  BY <1>2, Zenon DEF IInv, TreeAgrees
<1>7. kern[f] = NULL
  BY Zenon DEF IInv, TreeAgrees, AddNew
<1>8. TreeAgrees'
  <2>1. ASSUME NEW g \in Fd PROVE (kern[g] \in {NULL, root[g]})'
    BY <1>1, <1>7 DEF IInv, TreeAgrees, TypeOK
  <2>2. ASSUME NEW g \in Registered' PROVE (data[root[g]] # NULL /\ data[root[g]].fd = g)'
    <3>1. CASE g = f
      BY <3>1, <1>1, <1>2 DEF IInv, TypeOK
    <3>2. CASE g # f
      <4>1. g \in Registered /\ g \in Fd
        BY <3>2, <1>4, Zenon DEF Registered
      <4>2. root'[g] = root[g] /\ data'[root[g]] = data[root[g]]
        BY <4>1, <3>2, <1>1, <1>6, Zenon DEF IInv, TypeOK, Registered
      <4> QED BY <4>1, <4>2, Zenon DEF IInv, TreeAgrees
    <3> QED BY <3>1, <3>2, Zenon
  <2> QED BY <2>1, <2>2, <1>5, Zenon DEF TreeAgrees
<1>9. BatchLive'
  <2>1. Rest' = Rest /\ events' = events
    BY Zenon DEF Rest, AddNew
  <2>2. ASSUME NEW k \in Rest, events[k] # NULL
        PROVE  /\ data'[events[k]] # NULL
               /\ root'[data'[events[k]].fd] = events[k]
    <3>1. /\ data[events[k]] # NULL
          /\ root[data[events[k]].fd] = events[k]
          /\ events[k] # a
      BY <1>2, <2>2, Zenon DEF IInv, BatchLive
    <3>2. events[k] \in Addr
      BY <2>2 DEF IInv, TypeOK, Rest, Control
    <3>3. data[events[k]].fd \in Fd /\ data[events[k]].fd # f
      BY <3>1, <3>2, <2>2, Zenon DEF IInv, TypeOK, AddNew
    <3>4. data'[events[k]] = data[events[k]]
      BY <3>1, <3>2, <1>1, Zenon DEF IInv, TypeOK
    <3>5. root'[data[events[k]].fd] = root[data[events[k]].fd]
      BY <3>3, <1>1, Zenon DEF IInv, TypeOK
    <3> QED BY <3>1, <3>4, <3>5, Zenon
  <2> QED BY <2>1, <2>2, Zenon DEF IInv, BatchLive
<1>10. Control'
  BY Zenon DEF IInv, Control
<1>11. ReadyListed'
  BY <1>1, <1>2 DEF IInv, ReadyListed, TypeOK, AddNew
<1> QED BY <1>3, <1>8, <1>9, <1>10, <1>11, Zenon DEF IInv

LEMMA AddOldStep ==
    ASSUME IInv, NEW f \in Fd, NEW c \in Callback, Running, AddOld(f, c),
           UNCHANGED <<i, cnt, next, pc, calling>>
    PROVE  IInv'
<1> USE EventPollAssumption
<1>1. root[f] \in Addr /\ root[f] # NULL /\ data[root[f]] # NULL /\ data[root[f]].fd = f
  BY DEF IInv, TypeOK, AddOld, TreeAgrees, Registered
<1>2. kern' = kern
  BY DEF IInv, TypeOK, AddOld, TreeAgrees
<1>3. TypeOK'
  BY <1>1, <1>2, Zenon DEF AddOld, IInv, TypeOK
<1>4. \A a \in Addr : data[a] # NULL => data'[a] # NULL /\ data'[a].fd = data[a].fd
  BY <1>1 DEF AddOld, IInv, TypeOK
<1>5. TreeAgrees'
  BY <1>2, <1>4 DEF AddOld, IInv, TypeOK, TreeAgrees, Registered
<1>6. BatchLive'
  <2>1. Rest' = Rest /\ events' = events /\ root' = root
    BY Zenon DEF Rest, AddOld
  <2>2. ASSUME NEW k \in Rest, events[k] # NULL PROVE events[k] \in Addr
    BY <2>2 DEF IInv, TypeOK, Rest, Control
  <2> QED BY <2>1, <2>2, <1>4, Zenon DEF IInv, BatchLive
<1>7. Control' /\ ReadyListed'
  BY <1>2, Zenon DEF IInv, Control, ReadyListed, AddOld
<1> QED BY <1>3, <1>5, <1>6, <1>7, Zenon DEF IInv

LEMMA DelStep ==
    ASSUME IInv, NEW f \in Fd, Del(f)
    PROVE  IInv'
<1> USE EventPollAssumption
<1>1. root[f] \in Addr /\ root[f] # NULL /\ data[root[f]] # NULL /\ data[root[f]].fd = f
  BY DEF IInv, TypeOK, Del, TreeAgrees, Registered
<1>2. nr' \in Nat /\ Registered' = Registered \ {f} /\ nr' = Cardinality(Registered')
  <2>1. Registered' = Registered \ {f}
    BY <1>1, Zenon DEF Registered, IInv, TypeOK, Del
  <2> QED BY <1>1, <2>1, OneLess, Zenon DEF Del, IInv
<1>3. /\ ready' \in Seq(Fd)
      /\ \A k \in 1 .. Len(ready') :
            \E j \in 1 .. Len(ready) : ready'[k] = ready[j] /\ ready[j] # f
      /\ \A j, k \in 1 .. Len(ready') : ready'[j] = ready'[k] => j = k
  <2>1. ready' = Unready(f)
    BY Zenon DEF Del
  <2>2. ready \in Seq(Fd) /\ \A j, k \in 1 .. Len(ready) : ready[j] = ready[k] => j = k
    BY Zenon DEF IInv, TypeOK, ReadyListed
  <2>3. Remains(ready', f)
    BY <2>1, <2>2, UnreadyRemoves, Zenon
  <2> QED BY <2>3, Zenon DEF Remains
<1>4. TypeOK'
  <2>1. events' \in [0 .. MaxEvents - 1 -> Addr \cup {NULL}]
    BY Zenon DEF Del, Cleared, IInv, TypeOK
  <2> QED BY <2>1, <1>1, <1>2, <1>3, Zenon DEF Del, IInv, TypeOK
<1>5. TreeAgrees'
  <2>1. ASSUME NEW g \in Fd PROVE (kern[g] \in {NULL, root[g]})'
    BY Zenon DEF Del, IInv, TypeOK, TreeAgrees
  <2>2. ASSUME NEW g \in Registered' PROVE (data[root[g]] # NULL /\ data[root[g]].fd = g)'
    <3>1. g \in Registered /\ g \in Fd /\ g # f
      BY <1>2, Zenon DEF Registered
    <3>2. root[g] \in Addr /\ root[g] # NULL /\ root[g] # root[f]
      BY <3>1, RootInjective, Zenon DEF IInv, TypeOK, Registered
    <3>3. root'[g] = root[g] /\ data'[root[g]] = data[root[g]]
      BY <3>1, <3>2, <1>1, Zenon DEF Del, IInv, TypeOK
    <3> QED BY <3>1, <3>3, Zenon DEF IInv, TreeAgrees
  <2> QED BY <2>1, <2>2, <1>2, Zenon DEF TreeAgrees
<1>6. BatchLive'
  <2>1. Rest' = Rest /\ Rest \subseteq i + 1 .. cnt - 1 /\ Rest \subseteq DOMAIN events
    BY DEF Rest, Del, Running, IInv, Control, TypeOK
  <2>2. ASSUME NEW k \in Rest, events'[k] # NULL
        PROVE  events'[k] = events[k] /\ events[k] # root[f] /\ events[k] \in Addr
    BY <2>1, <2>2, Zenon DEF Del, Cleared, IInv, TypeOK
  <2>3. ASSUME NEW k \in Rest, events'[k] # NULL
        PROVE  /\ data'[events'[k]] # NULL
               /\ root'[data'[events'[k]].fd] = events'[k]
    <3>1. /\ data[events[k]] # NULL
          /\ root[data[events[k]].fd] = events[k]
          /\ events[k] # root[f] /\ events[k] \in Addr
          /\ events'[k] = events[k]
      BY <2>2, <2>3, Zenon DEF IInv, BatchLive
    <3>2. data'[events[k]] = data[events[k]]
      BY <3>1, <1>1, Zenon DEF Del, IInv, TypeOK
    <3>3. data[events[k]].fd \in Fd /\ data[events[k]].fd # f
      BY <3>1, Zenon DEF IInv, TypeOK
    <3>4. root'[data[events[k]].fd] = root[data[events[k]].fd]
      BY <3>3, Zenon DEF Del, IInv, TypeOK
    <3> QED BY <3>1, <3>2, <3>4, Zenon
  <2>4. ASSUME NEW j \in Rest, NEW k \in Rest, events'[j] = events'[k], events'[j] # NULL
        PROVE  j = k
    BY <2>2, <2>4 DEF IInv, BatchLive
  <2> QED BY <2>1, <2>3, <2>4, Zenon DEF BatchLive
<1>7. Control'
  BY Zenon DEF Del, IInv, Control
<1>8. ReadyListed'
  <2>1. ASSUME NEW k \in 1 .. Len(ready') PROVE kern'[ready'[k]] # NULL
    <3>1. PICK j \in 1 .. Len(ready) : ready'[k] = ready[j] /\ ready[j] # f
      BY <1>3, Zenon
    <3>2. ready[j] \in Fd
      BY DEF IInv, TypeOK
    <3>3. kern'[ready[j]] = kern[ready[j]]
      BY <3>1, <3>2, Zenon DEF Del, IInv, TypeOK
    <3> QED BY <3>1, <3>3, Zenon DEF IInv, ReadyListed
  <2> QED BY <2>1, <1>3, Zenon DEF ReadyListed
<1> QED BY <1>4, <1>5, <1>6, <1>7, <1>8, Zenon DEF IInv

LEMMA WaitStep ==
    ASSUME IInv, Wait
    PROVE  IInv'
<1> USE EventPollAssumption
<1> DEFINE n == Reported
<1>1. n \in Nat /\ n <= MaxEvents /\ n <= Len(ready) /\ n > 0 /\ Len(ready) \in Nat
  BY DEF Wait, Reported, IInv, TypeOK
<1>2. cnt' = n /\ i = 0 /\ next = 0
  BY Zenon DEF Wait, IInv, Control
<1> HIDE DEF n
<1>3. events' = [k \in DOMAIN events |-> IF k < n THEN kern[ready[k + 1]] ELSE events[k]]
  BY Zenon DEF Wait, n
<1>4. ready' = [k \in 1 .. Len(ready) |->
                   IF k <= Len(ready) - n THEN ready[k + n] ELSE ready[k - (Len(ready) - n)]]
  BY DEF Wait, n, IInv, TypeOK
<1>5. ready' \in Seq(Fd) /\ Len(ready') = Len(ready)
  BY <1>1, <1>4 DEF IInv, TypeOK
<1>6. \A k \in 0 .. n - 1 :
        /\ k + 1 \in 1 .. Len(ready) /\ ready[k + 1] \in Fd
        /\ events'[k] = kern[ready[k + 1]] /\ kern[ready[k + 1]] # NULL
        /\ root[ready[k + 1]] = kern[ready[k + 1]]
  BY <1>1, <1>3 DEF IInv, TypeOK, ReadyListed, TreeAgrees
<1>7. TypeOK'
  <2>1. events' \in [0 .. MaxEvents - 1 -> Addr \cup {NULL}]
    BY <1>1, <1>3 DEF IInv, TypeOK
  <2> QED BY <2>1, <1>1, <1>2, <1>5 DEF Wait, IInv, TypeOK
<1>8. TreeAgrees'
  BY Zenon DEF Wait, IInv, TreeAgrees, Registered
<1>9. BatchLive'
  <2>1. Rest' = 0 .. n - 1
    BY <1>2, Zenon DEF Wait, Rest
  <2>2. ASSUME NEW k \in 0 .. n - 1
        PROVE  /\ data'[events'[k]] # NULL
               /\ data'[events'[k]].fd = ready[k + 1]
               /\ root'[data'[events'[k]].fd] = events'[k]
    <3>1. ready[k + 1] \in Registered /\ events'[k] = root[ready[k + 1]]
      BY <1>6, Zenon DEF Registered
    <3>2. data[events'[k]] # NULL /\ data[events'[k]].fd = ready[k + 1]
      BY <3>1, Zenon DEF IInv, TreeAgrees
    <3> QED BY <3>1, <3>2, Zenon DEF Wait
  <2>3. ASSUME NEW j \in 0 .. n - 1, NEW k \in 0 .. n - 1, events'[j] = events'[k]
        PROVE  j = k
    <3>1. ready[j + 1] = ready[k + 1]
      BY <2>2, <2>3, Zenon
    <3> QED BY <3>1, <1>6 DEF IInv, ReadyListed
  <2> QED BY <2>1, <2>2, <2>3, Zenon DEF BatchLive
<1>10. Control'
  BY <1>1, <1>2 DEF Wait, IInv, Control
<1>11. ReadyListed'
  <2> DEFINE from(x) == IF x <= Len(ready) - n THEN x + n ELSE x - (Len(ready) - n)
  <2>1. \A x \in 1 .. Len(ready) : from(x) \in 1 .. Len(ready) /\ ready'[x] = ready[from(x)]
    BY <1>1, <1>4
  <2>2. \A j, k \in 1 .. Len(ready) : from(j) = from(k) => j = k
    BY <1>1
  <2> HIDE DEF from
  <2>3. \A x \in 1 .. Len(ready) : kern[ready'[x]] # NULL
    BY <2>1 DEF IInv, ReadyListed
  <2>4. ASSUME NEW j \in 1 .. Len(ready), NEW k \in 1 .. Len(ready), ready'[j] = ready'[k]
        PROVE  j = k
    <3>1. /\ from(j) \in 1 .. Len(ready) /\ from(k) \in 1 .. Len(ready)
          /\ ready[from(j)] = ready[from(k)]
      BY <2>1, <2>4, Zenon
    <3>2. from(j) = from(k)
      BY <3>1, Zenon DEF IInv, ReadyListed
    <3> QED BY <2>2, <3>2, Zenon
  <2> QED BY <2>3, <2>4, <1>5, Zenon DEF Wait, ReadyListed
<1> QED BY <1>7, <1>8, <1>9, <1>10, <1>11, Zenon DEF IInv

LEMMA LoopStep ==
    ASSUME IInv, Skip \/ Dispatch \/ Return \/ EndPoll
    PROVE  IInv'
<1> USE EventPollAssumption
<1>1. TreeAgrees' /\ ReadyListed'
  <2>1. UNCHANGED <<root, data, nr, kern, ready>>
    BY Zenon DEF Skip, Dispatch, Return, EndPoll
  <2>2. TreeAgrees'
    BY <2>1, Zenon DEF IInv, TreeAgrees, Registered
  <2>3. ReadyListed'
    BY <2>1, Zenon DEF IInv, ReadyListed
  <2> QED BY <2>2, <2>3, Zenon
<1>2. CASE Skip
  <2>1. TypeOK' /\ Control'
    BY <1>2 DEF Skip, IInv, TypeOK, Control
  <2>2. Rest' \subseteq Rest
    BY <1>2 DEF Skip, Rest, IInv, TypeOK
  <2> QED BY <1>1, <1>2, <2>1, <2>2, Zenon DEF Skip, IInv, BatchLive
<1>3. CASE Dispatch
  <2>1. next \in Rest /\ next \in 0 .. MaxEvents - 1
    BY <1>3 DEF Dispatch, Rest, IInv, TypeOK
  <2>2. events[next] \in Addr /\ data[events[next]] # NULL
    BY <1>3, <2>1, Zenon DEF Dispatch, IInv, TypeOK, BatchLive
  <2>3. calling' \in Fd \X Callback
    BY <1>3, <2>2, Zenon DEF Dispatch, IInv, TypeOK
  <2>4. TypeOK' /\ Control'
    BY <1>3, <2>1, <2>3, Zenon DEF Dispatch, IInv, TypeOK, Control
  <2>5. Rest' \subseteq Rest
    BY <1>3 DEF Dispatch, Rest, IInv, TypeOK
  <2> QED BY <1>1, <1>3, <2>4, <2>5, Zenon DEF Dispatch, IInv, BatchLive
<1>4. CASE Return
  <2>1. TypeOK' /\ Control'
    BY <1>4 DEF Return, IInv, TypeOK, Control
  <2>2. Rest' \subseteq Rest
    BY <1>4, Zenon DEF Return, Rest, IInv, TypeOK
  <2> QED BY <1>1, <1>4, <2>1, <2>2, Zenon DEF Return, IInv, BatchLive
<1>5. CASE EndPoll
  <2>1. TypeOK' /\ Control'
    BY <1>5 DEF EndPoll, IInv, TypeOK, Control
  <2>2. Rest' = {}
    BY <1>5, Zenon DEF EndPoll, Rest
  <2> QED BY <1>1, <2>1, <2>2, Zenon DEF IInv, BatchLive
<1> QED BY <1>2, <1>3, <1>4, <1>5, Zenon

LEMMA FileStep ==
    ASSUME IInv, NEW f \in Fd, BecomeReady(f) \/ Drained(f)
    PROVE  IInv'
<1> USE EventPollAssumption
<1>1. /\ UNCHANGED <<root, data, nr, events, i, cnt, next, pc, calling, kern>>
  BY Zenon DEF BecomeReady, Drained
<1>2. ready' \in Seq(Fd) /\ ReadyListed'
  <2>1. CASE BecomeReady(f)
    <3>1. /\ ready \in Seq(Fd) /\ ready' = Append(ready, f) /\ kern' = kern /\ kern[f] # NULL
          /\ \A k \in 1 .. Len(ready) : ready[k] # f
      BY <2>1 DEF BecomeReady, InReady, IInv, TypeOK
    <3>2. /\ ready' \in Seq(Fd) /\ Len(ready') = Len(ready) + 1 /\ Len(ready) \in Nat
          /\ \A k \in 1 .. Len(ready) : ready'[k] = ready[k]
          /\ ready'[Len(ready) + 1] = f
      BY <3>1
    <3> QED BY <3>1, <3>2 DEF IInv, ReadyListed
  <2>2. CASE Drained(f)
    <3>1. ready' = Unready(f) /\ kern' = kern
      BY <2>2, Zenon DEF Drained
    <3>2. ready \in Seq(Fd) /\ \A j, k \in 1 .. Len(ready) : ready[j] = ready[k] => j = k
      BY Zenon DEF IInv, TypeOK, ReadyListed
    <3>3. Remains(ready', f)
      BY <3>1, <3>2, UnreadyRemoves, Zenon
    <3> QED BY <3>1, <3>3 DEF Remains, IInv, ReadyListed
  <2> QED BY <2>1, <2>2, Zenon
<1>3. TypeOK' /\ TreeAgrees' /\ BatchLive' /\ Control'
  BY <1>1, <1>2 DEF IInv, TypeOK, TreeAgrees, Registered, BatchLive, Rest, Control
<1> QED BY <1>2, <1>3, Zenon DEF IInv

LEMMA NextIInv == IInv /\ [Next]_vars => IInv'
<1> SUFFICES ASSUME IInv, [Next]_vars PROVE IInv'
  BY Zenon
<1>1. ASSUME NEW f \in Fd, NEW c \in Callback, Add(f, c) PROVE IInv'
  BY <1>1, AddNewStep, AddOldStep, Zenon DEF Add
<1>2. ASSUME NEW f \in Fd, Del(f) PROVE IInv'
  BY <1>2, DelStep, Zenon
<1>3. CASE Wait
  BY <1>3, WaitStep, Zenon
<1>4. CASE Skip \/ Dispatch \/ Return \/ EndPoll
  BY <1>4, LoopStep, Zenon
<1>5. ASSUME NEW f \in Fd, BecomeReady(f) \/ Drained(f) PROVE IInv'
  BY <1>5, FileStep, Zenon
<1>6. CASE UNCHANGED vars
  BY <1>6 DEF vars, IInv, TypeOK, TreeAgrees, Registered, BatchLive, Rest, Control, ReadyListed
<1> QED BY <1>1, <1>2, <1>3, <1>4, <1>5, <1>6, Zenon DEF Next, Ended

\* In every run of the event loop the batch holds no dangling address, the kernel and the
\* tree agree and ep->nr counts the registrations.
THEOREM BatchSafe == Spec => [](TypeOK /\ BatchLive /\ TreeAgrees)
<1>1. Spec => []IInv
  BY InitIInv, NextIInv, PTL DEF Spec
<1>2. IInv => TypeOK /\ BatchLive /\ TreeAgrees
  BY Zenon DEF IInv
<1> QED BY <1>1, <1>2, PTL

\* The tree of event_poll__add() and event_poll__del(), its memory and ep->nr agree with what
\* the kernel watches, in every state of the loop.
THEOREM TreeMatches == Spec => []TreeAgrees
BY BatchSafe, PTL

-----------------------------------------------------------------------------
(* The refinement. *)

\* A step that leaves the nodes and the rest of the batch alone is not visible.
LEMMA SameCallbacks ==
    ASSUME UNCHANGED <<root, data>>
    PROVE  callbacks' = callbacks
BY Zenon DEF callbacks

LEMMA SamePending ==
    ASSUME UNCHANGED <<data, events>>, Rest' = Rest
    PROVE  pending' = pending
BY Zenon DEF pending

LEMMA RefineAdd ==
    ASSUME IInv, IInv', NEW f \in Fd, NEW c \in Callback, Add(f, c)
    PROVE  Callbacks!Register(f, c)
<1> USE EventPollAssumption
<1>1. /\ root' \in [Fd -> Addr \cup {NULL}] /\ root'[f] \in Addr /\ root'[f] # NULL
      /\ \A g \in Fd : g # f => root'[g] = root[g]
      /\ \A g \in Fd : g # f /\ root[g] # NULL => root[g] # root'[f]
      /\ data' = [data EXCEPT ![root'[f]] = [fd |-> f, callback |-> c]]
      /\ \A a \in Addr : data[a] # NULL => data'[a] # NULL /\ data'[a].fd = data[a].fd
  <2>1. CASE AddNew(f, c)
    <3>1. PICK a \in Addr \ Allocated :
            /\ root' = [root EXCEPT ![f] = a]
            /\ data' = [data EXCEPT ![a] = [fd |-> f, callback |-> c]]
      BY <2>1, Zenon DEF AddNew
    <3>2. data[a] = NULL /\ a \in Addr /\ a # NULL
      BY Zenon DEF Allocated
    <3>3. \A g \in Fd : root[g] # NULL => root[g] # a
      BY <3>2, Zenon DEF IInv, TreeAgrees, Registered
    <3> QED BY <3>1, <3>2, <3>3, ZenonT(30) DEF IInv, TypeOK
  <2>2. CASE AddOld(f, c)
    <3>1. root' = root /\ root[f] \in Addr /\ root[f] # NULL
      BY <2>2, Zenon DEF AddOld, IInv, TypeOK
    <3>2. data[root[f]] # NULL /\ data[root[f]].fd = f
      BY <3>1, Zenon DEF IInv, TreeAgrees, Registered
    <3>3. \A g \in Fd : g # f /\ root[g] # NULL => root[g] # root[f]
      BY RootInjective, Zenon DEF IInv
    <3> QED BY <2>2, <3>1, <3>2, <3>3 DEF AddOld, IInv, TypeOK
  <2> QED BY <2>1, <2>2, Zenon DEF Add
<1>2. /\ data \in [Addr -> [fd : Fd, callback : Callback] \cup {NULL}]
      /\ data' \in [Addr -> [fd : Fd, callback : Callback] \cup {NULL}]
      /\ root \in [Fd -> Addr \cup {NULL}]
  BY Zenon DEF IInv, TypeOK
<1>3. callbacks' = [callbacks EXCEPT ![f] = c]
  <2>1. callbacks'[f] = c
    BY <1>1, <1>2, Zenon DEF callbacks
  <2>2. ASSUME NEW g \in Fd, g # f PROVE callbacks'[g] = callbacks[g]
    BY <1>1, <1>2, <2>2 DEF callbacks
  <2> QED BY <2>1, <2>2, ZenonT(30) DEF callbacks
<1>4. pending' = pending
  <2>1. Rest' = Rest /\ events' = events
    BY Zenon DEF Add, AddNew, AddOld, Rest
  <2>2. ASSUME NEW k \in Rest, events[k] # NULL
        PROVE  /\ data[events[k]] # NULL /\ data'[events[k]] # NULL
               /\ data'[events[k]].fd = data[events[k]].fd
    <3>1. next \in 0 .. MaxEvents /\ cnt \in 0 .. MaxEvents /\ MaxEvents \in Nat
      BY Zenon DEF IInv, TypeOK, EventPollAssumption
    <3>2. k \in 0 .. MaxEvents - 1
      BY <3>1 DEF Rest
    <3>3. events[k] \in Addr \cup {NULL}
      BY <3>2, Zenon DEF IInv, TypeOK
    <3>4. data[events[k]] # NULL
      BY <2>2, Zenon DEF IInv, BatchLive
    <3> QED BY <2>2, <3>3, <3>4, <1>1, Zenon
  <2> QED BY <2>1, <2>2, Zenon DEF pending
<1>5. calling' = calling
  BY Zenon DEF Add
<1> QED BY <1>3, <1>4, <1>5, Zenon DEF Callbacks!Register

LEMMA RefineDel ==
    ASSUME IInv, NEW f \in Fd, Del(f)
    PROVE  Callbacks!Unregister(f)
<1> USE EventPollAssumption
<1>1. root[f] \in Addr /\ root[f] # NULL /\ data[root[f]] # NULL /\ data[root[f]].fd = f
  BY ZenonT(30) DEF IInv, TypeOK, Del, TreeAgrees, Registered
<1>2. callbacks' = [callbacks EXCEPT ![f] = NULL]
  <2>1. callbacks'[f] = NULL
    BY Zenon DEF callbacks, Del, IInv, TypeOK
  <2>2. ASSUME NEW g \in Fd, g # f PROVE callbacks'[g] = callbacks[g]
    <3>1. root'[g] = root[g]
      BY <2>2, Zenon DEF Del, IInv, TypeOK
    <3>2. root[g] # NULL => root[g] \in Addr /\ root[g] # root[f]
      BY <2>2, RootInjective, Zenon DEF IInv, TypeOK
    <3>3. root[g] # NULL => data'[root[g]] = data[root[g]]
      BY <3>2, <1>1, Zenon DEF Del, IInv, TypeOK
    <3> QED BY <3>1, <3>3, Zenon DEF callbacks
  <2> QED BY <2>1, <2>2, Zenon DEF callbacks
<1>3. pending' = pending \ {f}
  <2>1. Rest' = Rest /\ Rest \subseteq i + 1 .. cnt - 1 /\ Rest \subseteq DOMAIN events
    BY DEF Rest, Del, Running, IInv, Control, TypeOK
  <2>2. ASSUME NEW k \in Rest
        PROVE  events'[k] = IF events[k] = root[f] THEN NULL ELSE events[k]
    BY <2>1, Zenon DEF Del, Cleared
  <2>3. ASSUME NEW k \in Rest, events[k] # NULL, events[k] # root[f]
        PROVE  data'[events[k]] = data[events[k]] /\ data[events[k]].fd # f /\ data[events[k]] # NULL
    <3>1. events[k] \in Addr
      BY <2>1, <2>3, Zenon DEF IInv, TypeOK
    <3>2. root[data[events[k]].fd] = events[k] /\ data[events[k]] # NULL
      BY <2>3, Zenon DEF IInv, BatchLive
    <3> QED BY <3>1, <3>2, <2>3, <1>1, Zenon DEF Del, IInv, TypeOK
  <2>4. ASSUME NEW g \in pending' PROVE g \in pending /\ g # f
    <3>1. PICK k \in Rest : events'[k] # NULL /\ data'[events'[k]].fd = g
      BY <2>1, Zenon DEF pending
    <3>2. events'[k] = events[k] /\ events[k] # root[f]
      BY <3>1, <2>2, Zenon
    <3> QED BY <3>1, <3>2, <2>3, Zenon DEF pending
  <2>5. ASSUME NEW g \in pending, g # f PROVE g \in pending'
    <3>1. PICK k \in Rest : events[k] # NULL /\ data[events[k]].fd = g
      BY Zenon DEF pending
    <3>2. events[k] # root[f]
      BY <3>1, <1>1, <2>5, Zenon
    <3>3. events'[k] = events[k] /\ data'[events[k]] = data[events[k]] /\ data[events[k]] # NULL
      BY <3>1, <3>2, <2>2, <2>3, Zenon
    <3> QED BY <3>1, <3>3, <2>1, Zenon DEF pending
  <2> QED BY <2>4, <2>5, Zenon
<1>4. calling' = calling
  BY Zenon DEF Del
<1> QED BY <1>2, <1>3, <1>4, Zenon DEF Callbacks!Unregister

LEMMA RefineWait ==
    ASSUME IInv, IInv', Wait
    PROVE  \E S \in SUBSET Callbacks!Registered : Callbacks!Collect(S)
<1> USE EventPollAssumption
<1>1. pending = {}
  BY Zenon DEF Wait, pending, Rest
<1>2. pending' \in SUBSET Callbacks!Registered
  <2> SUFFICES ASSUME NEW f \in pending' PROVE f \in Fd /\ callbacks[f] # NULL
    BY Zenon DEF Callbacks!Registered, pending
  <2>1. PICK k \in Rest' : events'[k] # NULL /\ data'[events'[k]] # NULL /\ data'[events'[k]].fd = f
    BY Zenon DEF pending
  <2>2. root'[f] = events'[k]
    BY <2>1, Zenon DEF IInv, BatchLive
  <2>3. UNCHANGED <<root, data>>
    BY Zenon DEF Wait
  <2>4. f \in Fd /\ root[f] # NULL /\ root[f] \in Addr /\ data[root[f]] # NULL
    BY <2>1, <2>2, <2>3, Zenon DEF pending, IInv, TypeOK
  <2>5. data[root[f]].callback \in Callback
    BY <2>4, Zenon DEF IInv, TypeOK
  <2> QED BY <2>4, <2>5, Zenon DEF callbacks
<1>3. calling = NULL /\ calling' = calling
  BY Zenon DEF Wait, IInv, Control
<1>4. callbacks' = callbacks
  BY SameCallbacks, Zenon DEF Wait
<1>5. Callbacks!Collect(pending')
  BY <1>1, <1>3, <1>4, Zenon DEF Callbacks!Collect
<1> QED BY <1>2, <1>5, Zenon

LEMMA RefineDispatch ==
    ASSUME IInv, Dispatch
    PROVE  \E f \in pending : Callbacks!Call(f)
<1> USE EventPollAssumption
<1>1. /\ next \in Rest /\ Rest = next .. cnt - 1 /\ Rest' = next + 1 .. cnt - 1
      /\ Rest \subseteq 0 .. MaxEvents - 1 /\ Rest = {next} \cup Rest' /\ next \notin Rest'
  BY DEF Dispatch, Rest, IInv, TypeOK
<1> DEFINE a == events[next]
           f == data[a].fd
<1>2. a \in Addr /\ data[a] # NULL /\ root[f] = a /\ a # NULL
  BY <1>1, Zenon DEF Dispatch, IInv, TypeOK, BatchLive
<1>3. f \in Fd /\ calling' = <<f, data[a].callback>> /\ callbacks[f] = data[a].callback
  BY <1>2, Zenon DEF Dispatch, IInv, TypeOK, callbacks
<1>4. f \in pending
  BY <1>1, <1>2, <1>3, Zenon DEF pending
<1>5. pending' = pending \ {f}
  <2>1. UNCHANGED <<data, events>>
    BY Zenon DEF Dispatch
  <2>2. ASSUME NEW k \in Rest', events[k] # NULL PROVE data[events[k]].fd # f
    <3>1. k \in Rest /\ k # next
      BY <1>1, Zenon
    <3>2. root[data[events[k]].fd] = events[k] /\ events[k] # a
      BY <3>1, <2>2, <1>1, <1>2, Zenon DEF IInv, BatchLive
    <3> QED BY <3>2, <1>2, Zenon
  <2> QED BY <2>1, <2>2, <1>1, Zenon DEF pending
<1>6. callbacks' = callbacks
  BY SameCallbacks, Zenon DEF Dispatch
<1>7. calling = NULL
  BY Zenon DEF Dispatch, IInv, Control
<1>8. Callbacks!Call(f)
  BY <1>3, <1>5, <1>6, <1>7, Zenon DEF Callbacks!Call
<1> QED BY <1>4, <1>8, Zenon

\* The steps that no caller sees.
LEMMA RefineInternal ==
    ASSUME IInv, \/ Skip \/ EndPoll \/ UNCHANGED vars
                 \/ \E f \in Fd : BecomeReady(f) \/ Drained(f)
    PROVE  UNCHANGED <<callbacks, pending, calling>>
<1>1. UNCHANGED <<root, data, events, calling>>
  BY Zenon DEF Skip, EndPoll, vars, BecomeReady, Drained
<1>2. callbacks' = callbacks
  BY <1>1, SameCallbacks, Zenon
<1>3. pending' = pending
  <2>1. CASE Skip
    <3>1. Rest = {next} \cup Rest' /\ events[next] = NULL
      BY <2>1 DEF Skip, Rest, IInv, TypeOK
    <3> QED BY <3>1, <1>1, Zenon DEF pending
  <2>2. CASE EndPoll
    <3>1. Rest = {} /\ Rest' = {}
      BY <2>2 DEF EndPoll, Rest, IInv, TypeOK
    <3> QED BY <3>1, <1>1, Zenon DEF pending
  <2>3. CASE UNCHANGED vars \/ \E f \in Fd : BecomeReady(f) \/ Drained(f)
    <3>1. Rest' = Rest
      BY <2>3, Zenon DEF vars, BecomeReady, Drained, Rest
    <3> QED BY <3>1, <1>1, SamePending, Zenon
  <2> QED BY <2>1, <2>2, <2>3, Zenon
<1> QED BY <1>1, <1>2, <1>3, Zenon

LEMMA RefineReturn ==
    ASSUME IInv, Return
    PROVE  Callbacks!Return
<1>1. Rest' = Rest
  BY Zenon DEF Return, Rest, IInv, TypeOK
<1>2. callbacks' = callbacks /\ pending' = pending
  BY <1>1, SameCallbacks, SamePending, Zenon DEF Return
<1> QED BY <1>2, Zenon DEF Return, Callbacks!Return

\* What the callers of event_poll__add(), event_poll__del() and event_poll__poll() see is a
\* set of callbacks: each step of the pointer code is a step of it, or none.
THEOREM EventPollRefines == Spec => ImplementsCallbacks
<1>1. Init => Callbacks!Init
  <2> SUFFICES ASSUME Init PROVE Callbacks!Init
    BY Zenon
  <2>1. callbacks = [f \in Fd |-> NULL]
    BY Zenon DEF Init, callbacks
  <2>2. pending = {}
    BY Zenon DEF Init, pending, Rest
  <2> QED BY <2>1, <2>2, Zenon DEF Init, Callbacks!Init
<1>2. IInv /\ IInv' /\ [Next]_vars => [Callbacks!Next]_<<callbacks, pending, calling>>
  <2> SUFFICES ASSUME IInv, IInv', [Next]_vars
               PROVE  Callbacks!Next \/ UNCHANGED <<callbacks, pending, calling>>
    BY Zenon
  <2>1. ASSUME NEW f \in Fd, NEW c \in Callback, Add(f, c) PROVE Callbacks!Next
    BY <2>1, RefineAdd, Zenon DEF Callbacks!Next
  <2>2. ASSUME NEW f \in Fd, Del(f) PROVE Callbacks!Next
    BY <2>2, RefineDel, Zenon DEF Callbacks!Next
  <2>3. CASE Wait
    BY <2>3, RefineWait, Zenon DEF Callbacks!Next
  <2>4. CASE Dispatch
    BY <2>4, RefineDispatch, Zenon DEF Callbacks!Next
  <2>5. CASE Return
    BY <2>5, RefineReturn, Zenon DEF Callbacks!Next
  <2>6. CASE \/ Skip \/ EndPoll \/ UNCHANGED vars
             \/ \E f \in Fd : BecomeReady(f) \/ Drained(f)
    BY <2>6, RefineInternal, Zenon
  <2> QED BY <2>1, <2>2, <2>3, <2>4, <2>5, <2>6, Zenon DEF Next, Ended
<1>3. Spec => []IInv
  BY InitIInv, NextIInv, PTL DEF Spec
<1> QED BY <1>1, <1>2, <1>3, PTL DEF Spec, ImplementsCallbacks, Callbacks!Spec
====
