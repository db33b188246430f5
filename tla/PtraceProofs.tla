----------------------------- MODULE PtraceProofs -----------------------------
(***************************************************************************)
(* The pid_list of ptrace.c, for every number of processes and devices:    *)
(* its references are balanced, none of its BUG messages is printed, and   *)
(* no process runs that no device follows.                                 *)
(***************************************************************************)
EXTENDS PtraceWorldProofs, PtraceStepProofs

-----------------------------------------------------------------------------
(* The handlers.                                                           *)

\* What a handler leaves behind.
Leaves(v, P, N, S) ==
    /\ Becomes(v) /\ Is(v, P, N, bug)
    /\ \A x \in Pids \ S : P[x] = proc[x] /\ N[x] = node[x]

\* The state after a handler that leaves this behind.
LEMMA Left ==
    ASSUME NEW v, NEW P, NEW N, NEW S, PtraceInv, closing' \in BOOLEAN, Leaves(v, P, N, S)
    PROVE  Around(S) /\ proc' = P /\ node' = N
<1>1. proc' = P /\ node' = N /\ bug' = bug /\ P \in Procs /\ N \in NodeFns
  BY Zenon DEF Leaves, Becomes, Is, Worlds
<1>2. TypeOK' /\ NoBug'
  BY <1>1, Zenon DEF TypeOK, NoBug, Procs, NodeFns, PtraceInv
<1> QED BY <1>1, <1>2, Zenon DEF Around, Leaves

\* A process that is followed goes on.
LEMMA Resumes ==
    ASSUME PtraceInv, NEW p \in Pids, NEW w, Handed(w, p), NEW v, Becomes(v), UNCHANGED closing,
           proc[p].state = "stopped", proc[p].stop # "fork", node[p] # None, node[p].initial = 2,
           \/ v = Cont(w, p) /\ (node[p].detach => proc[p].pend)
           \/ v = Listen(w, p)
    PROVE  PtraceInv'
<1>1. closing' \in BOOLEAN
  BY Zenon DEF PtraceInv, TypeOK
<1>2. ASSUME NEW s \in {"running", "listening"}, Is(v, In(w.proc, p, s), w.node, w.bug),
             s = "running" /\ node[p].detach => proc[p].pend
      PROVE  PtraceInv'
  <2>1. Is(v, In(w.proc, p, s), node, bug)
    BY <1>2, Zenon DEF Handed
  <2>2. PICK P : P = In(w.proc, p, s)
    BY Zenon
  <2>3. /\ P[p].state = s /\ ~P[p].unread /\ P[p].stop = proc[p].stop /\ P[p].pend = proc[p].pend
        /\ \A x \in Pids \ {p} : P[x] = proc[x]
    <3>1. w.proc \in Procs
      BY Zenon DEF Handed
    <3>2. Shifted(P, w.proc, p, s)
      <4>1. s \in {"none", "running", "stopped", "listening", "zombie", "gone", "free"}
        OBVIOUS
      <4> QED BY <2>2, <3>1, <4>1, InFields, Zenon
    <3>3. /\ ~w.proc[p].unread /\ w.proc[p].stop = proc[p].stop /\ w.proc[p].pend = proc[p].pend
          /\ \A x \in Pids \ {p} : w.proc[x] = proc[x]
      BY Zenon DEF Handed
    <3> QED BY <3>2, <3>3, Zenon DEF Shifted
  <2>4. Around({p}) /\ proc' = P /\ node' = node
    <3>1. Leaves(v, P, node, {p})
      BY <2>1, <2>2, <2>3, Zenon DEF Leaves
    <3> QED BY <1>1, <3>1, Left, Zenon
  <2>5. Moved(p, s)
    BY <2>3, <2>4, Zenon DEF Moved
  <2> QED BY <1>2, <2>4, <2>5, StepResumed, Zenon
<1>3. w \in Worlds /\ w.proc[p].state = "stopped"
  BY Zenon DEF Handed
<1>4. CASE v = Cont(w, p) /\ (node[p].detach => proc[p].pend)
  BY <1>2, <1>3, <1>4, Resumed, Zenon
<1>5. CASE v = Listen(w, p)
  BY <1>2, <1>3, <1>5, Resumed
<1> QED BY <1>4, <1>5, Zenon

\* __fork(), of a child that pid_list does not know.
LEMMA ForksFirst ==
    ASSUME PtraceInv, NEW p \in Pids, NEW c \in Pids, NEW w, Handed(w, p), ForkStop(p), proc[p].child = c,
           ForkReady(w, p, c), node[c] = None, Becomes(Forked(w, p, c)), closing' \in BOOLEAN
    PROVE  PtraceInv'
<1>1. Told(p, c)
  BY ForkTold, Zenon
<1>2. /\ w \in Worlds /\ w.proc \in Procs /\ w.node = node /\ w.bug = bug
      /\ node[p] \in Node /\ node[p] # None /\ p # c
      /\ \A x \in Pids \ {p} : w.proc[x] = proc[x]
  BY <1>1, Zenon DEF Handed, Told, NodeFns
<1>3. PICK v, s, P, m, k : /\ v = Forked(w, p, c) /\ s = After(w, p)
                           /\ P = In(w.proc, p, s)
                           /\ m = Listing(Held(w, p), c) /\ k = Grown(Child(Fresh, p, node[p]))
  BY Zenon
<1>4. Is(v, P, Two(node, p, m, c, k), bug)
  <2>1. Is(v, In(w.proc, p, s), Two(w.node, p, m, c, Grown(Child(Fresh, p, w.node[p]))), w.bug)
    BY <1>2, <1>3, ForkedFirst, Zenon
  <2> QED BY <1>2, <1>3, <2>1, Zenon
<1>5. \/ node[p].detach /\ s = "free" /\ m = Listing(node[p], c)
      \/ ~node[p].detach /\ s = "running" /\ m = Listing(More(node[p]), c)
  BY <1>2, <1>3, Zenon DEF After, Held
<1>6. Shifted(P, w.proc, p, s)
  <2>1. s \in {"none", "running", "stopped", "listening", "zombie", "gone", "free"}
    BY <1>5
  <2> QED BY <1>2, <1>3, <2>1, InFields, Zenon
<1>7. P[p].state = s /\ P[c] = proc[c] /\ \A x \in Pids \ {p, c} : P[x] = proc[x]
  BY <1>2, <1>6, Zenon DEF Shifted
<1>8. Around({p, c}) /\ proc' = P /\ node' = Two(node, p, m, c, k)
  <2>1. \A x \in Pids \ {p, c} : P[x] = proc[x] /\ Two(node, p, m, c, k)[x] = node[x]
    BY <1>7, Zenon DEF Two
  <2>2. Leaves(v, P, Two(node, p, m, c, k), {p, c})
    BY <1>3, <1>4, <2>1, Zenon DEF Leaves
  <2> QED BY <2>2, Left, Zenon
<1>9. node'[p] = m /\ node'[c] = k
  BY <1>2, <1>8, Zenon DEF Two
<1>10. Infant(k, p, node[p])
  BY <1>2, <1>3, LinkedChild, Zenon
<1>11. /\ Alike(m, node[p]) /\ m.children = node[p].children \cup {c}
       /\ \/ node[p].detach /\ proc'[p].state = "free" /\ m.refcount = node[p].refcount
          \/ ~node[p].detach /\ proc'[p].state = "running" /\ m.refcount = node[p].refcount + 1
  <2>1. proc'[p].state = s
    BY <1>7, <1>8, Zenon
  <2>2. CASE node[p].detach
    <3>1. s = "free" /\ m = Listing(node[p], c)
      BY <1>5, <2>2, Zenon
    <3>2. Alike(m, node[p]) /\ m.children = node[p].children \cup {c} /\ m.refcount = node[p].refcount
      BY <1>2, <3>1, LinkedParent, Zenon
    <3> QED BY <2>1, <2>2, <3>1, <3>2, Zenon
  <2>3. CASE ~node[p].detach
    <3>1. s = "running" /\ m = Listing(More(node[p]), c)
      BY <1>5, <2>3, Zenon
    <3>2. Alike(m, node[p]) /\ m.children = node[p].children \cup {c} /\ m.refcount = node[p].refcount + 1
      BY <1>2, <3>1, LinkedParent, Zenon
    <3> QED BY <2>1, <2>3, <3>1, <3>2, Zenon
  <2> QED BY <2>2, <2>3, Zenon
<1>12. proc'[c] = proc[c]
  BY <1>7, <1>8, Zenon
<1>13. /\ Alike(node'[p], node[p]) /\ node'[p].children = node[p].children \cup {c}
       /\ \/ node[p].detach /\ proc'[p].state = "free" /\ node'[p].refcount = node[p].refcount
          \/ ~node[p].detach /\ proc'[p].state = "running" /\ node'[p].refcount = node[p].refcount + 1
  BY <1>9, <1>11, Zenon
<1>14. /\ node'[c] # None /\ node'[c].initial = 1 /\ node'[c].parent = p
       /\ node'[c].detach = node[p].detach /\ node'[c].workload = node[p].workload
       /\ node'[c].refcount = 1 /\ node'[c].children = {} /\ node'[c].devs = {}
  BY <1>9, <1>10, Zenon DEF Infant
<1> QED BY <1>8, <1>12, <1>13, <1>14, StepLinked, Zenon

\* __fork(), of a child whose own stop was read.
LEMMA ForksSecond ==
    ASSUME PtraceInv, NEW p \in Pids, NEW c \in Pids, NEW w, Handed(w, p), ForkStop(p), proc[p].child = c,
           ForkReady(w, p, c), node[c] # None, Becomes(Forked(w, p, c)), closing' \in BOOLEAN
    PROVE  PtraceInv'
<1>1. Told(p, c)
  BY ForkTold, Zenon
<1>2. /\ w \in Worlds /\ w.proc \in Procs /\ w.node = node /\ w.bug = bug
      /\ node[p] \in Node /\ node[p] # None /\ node[c] \in Node /\ p # c
      /\ \A x \in Pids \ {p} : w.proc[x] = proc[x]
  BY <1>1, Zenon DEF Handed, Told, NodeFns
<1>3. ASSUME NEW s \in {"running", "free"}, NEW m, NEW k,
             Is(Forked(w, p, c), In(In(w.proc, p, s), c, s), Two(w.node, p, m, c, k), w.bug)
      PROVE  /\ Around({p, c}) /\ node'[p] = m /\ node'[c] = k
             /\ proc'[p].state = s /\ proc'[c].state = s
  <2>1. PICK P, Q : P = In(w.proc, p, s) /\ Q = In(P, c, s)
    BY Zenon
  <2>2. s \in {"none", "running", "stopped", "listening", "zombie", "gone", "free"}
    BY <1>3
  <2>3. Shifted(P, w.proc, p, s)
    BY <1>2, <2>1, <2>2, InFields, Zenon
  <2>4. P \in Procs
    BY <2>3, Zenon DEF Shifted
  <2>5. Shifted(Q, P, c, s)
    BY <2>1, <2>2, <2>4, InFields, Zenon
  <2>6. Q[p].state = s /\ Q[c].state = s /\ \A x \in Pids \ {p, c} : Q[x] = proc[x]
    BY <1>2, <2>3, <2>5, Zenon DEF Shifted
  <2>7. Is(Forked(w, p, c), Q, Two(node, p, m, c, k), bug)
    BY <1>2, <1>3, <2>1, Zenon
  <2>8. \A x \in Pids \ {p, c} : Q[x] = proc[x] /\ Two(node, p, m, c, k)[x] = node[x]
    BY <2>6, Zenon DEF Two
  <2>9. Around({p, c}) /\ proc' = Q /\ node' = Two(node, p, m, c, k)
    <3>1. Leaves(Forked(w, p, c), Q, Two(node, p, m, c, k), {p, c})
      BY <2>7, <2>8, Zenon DEF Leaves
    <3> QED BY <3>1, Left, Zenon
  <2>10. node'[p] = m /\ node'[c] = k
    BY <1>2, <2>9, Zenon DEF Two
  <2> QED BY <2>6, <2>9, <2>10, Zenon
<1>4. ~node[p].detach => node[p].devs # {}
  BY <1>1, Zenon DEF Told
<1>5. CASE node[p].detach
  <2>1. Is(Forked(w, p, c), In(In(w.proc, p, "free"), c, "free"), Two(w.node, p, Less(node[p]), c, None), w.bug)
    BY <1>2, <1>4, <1>5, ForkedSecond, Zenon
  <2>2. /\ Around({p, c}) /\ node'[p] = Less(node[p]) /\ node'[c] = None
        /\ proc'[p].state = "free" /\ proc'[c].state = "free"
    BY <1>3, <2>1, Zenon
  <2>3. Joined(p, c)
    BY <1>5, <2>2 DEF Joined, Ended
  <2> QED BY <2>2, <2>3, StepJoined, Zenon
<1>6. CASE ~node[p].detach
  <2>1. PICK h, m, k : h = Child(node[c], p, node[p]) /\ m = Listing(More(node[p]), c) /\ k = Followed(Grown(h), c, m)
    BY Zenon
  <2>2. Is(Forked(w, p, c), In(In(w.proc, p, "running"), c, "running"), Two(w.node, p, node[p], c, k), w.bug)
    BY <1>2, <1>4, <1>6, <2>1, ForkedSecond, Zenon
  <2>3. /\ Around({p, c}) /\ node'[p] = node[p] /\ node'[c] = k
        /\ proc'[p].state = "running" /\ proc'[c].state = "running"
    BY <1>3, <2>2, Zenon
  <2>4. m \in Node /\ m.devs = node[p].devs
    BY <1>2, <2>1, MoreNode, ListingNode
  <2>5. node[c].initial = 1 /\ node[c].refcount = 1 /\ node[c].children = {}
    BY <1>2, Zenon DEF ForkReady
  <2>6. /\ h \in Node /\ h.initial = 1 /\ h.detach = node[p].detach /\ h.workload = node[p].workload
        /\ h.refcount = 1 /\ h.children = {}
    BY <1>2, <2>1, <2>5, ChildNode
  <2>7. Grownup(k, node[p])
    <3>1. ~h.detach /\ m.devs # {}
      BY <1>4, <1>6, <2>4, <2>6, Zenon
    <3>2. Grownup(Followed(Grown(h), c, m), node[p])
      BY <1>2, <2>4, <2>6, <3>1, FollowedChild
    <3> QED BY <2>1, <3>2, Zenon
  <2>8. Joined(p, c)
    BY <1>6, <2>3, <2>7, Zenon DEF Joined, Started, Grownup
  <2> QED BY <2>3, <2>8, StepJoined, Zenon
<1> QED BY <1>5, <1>6, Zenon

\* __fork()
LEMMA Forks ==
    ASSUME PtraceInv, NEW p \in Pids, NEW w, Handed(w, p), ForkStop(p),
           Becomes(Forked(w, p, proc[p].child)), closing' \in BOOLEAN
    PROVE  PtraceInv'
<1>1. PICK c : c = proc[p].child
  BY Zenon
<1>2. Told(p, c) /\ Place(p) /\ c \in Pids
  BY <1>1, ForkTold, Placed, Zenon DEF Told
<1>3. Place(c)
  BY <1>2, Placed, Zenon
<1>4. ForkReady(w, p, c)
  <2>1. /\ p # c /\ w.proc[p].state = "stopped" /\ w.node = node /\ w.proc[c] = proc[c]
        /\ proc[p].state = "stopped"
    BY <1>2, Zenon DEF Told, Handed, ForkStop
  <2>2. node[p] # None /\ node[p].parent = None /\ (node[p].detach => ~node[p].workload)
    BY <1>2, Zenon DEF Told
  <2>3. Unlisted(node, p) /\ (node[p].refcount = 1 => node[p].children = {})
    BY <1>2, <2>1, <2>2 DEF Place
  <2>4. node[c] = None \/ (node[c].initial = 1 /\ node[c].parent = None)
    BY <1>2, Zenon DEF Told, Expected
  <2>5. Unlisted(node, c) /\ (node[c] # None => node[c].refcount = 1 /\ node[c].children = {})
    BY <1>3, <2>4, Zenon DEF Place
  <2>6. node[c] # None => proc[c].state = "stopped"
    BY <1>2, <2>4, Zenon DEF PtraceInv, ChildInv, Nodes
  <2> QED BY <2>1, <2>2, <2>3, <2>4, <2>5, <2>6, Zenon DEF ForkReady
<1> QED BY <1>1, <1>2, <1>4, ForksFirst, ForksSecond, Zenon

\* The second stop of a new child, or its end: what happens to it and to its parent.
Parted(v, P, k, c, q) ==
    /\ node[c] # None /\ node[c].parent = q
    /\ Becomes(v) /\ Is(v, P, Two(node, c, k, q, Less(Without(node[q], c))), bug)
    /\ \A x \in Pids \ {c} : P[x] = proc[x]
    /\ \/ P[c].state \in {"gone", "free"} /\ k = None
       \/ P[c].state = "running" /\ Grownup(k, node[c])

\* A new child leaves its parent: it runs, is detached or is gone.
LEMMA ChildLeaves ==
    ASSUME PtraceInv, NEW c \in Pids, NEW q \in Pids, NEW v, NEW P, NEW k, closing' \in BOOLEAN,
           Parted(v, P, k, c, q)
    PROVE  PtraceInv'
<1>1. PICK m : m = Less(Without(node[q], c))
  BY Zenon
<1>2. node[c] # None /\ node[c].parent = q /\ c # q
  BY ParentBereft, Zenon DEF Waits, Parted
<1>3. Leaves(v, P, Two(node, c, k, q, m), {c, q})
  BY <1>1, Zenon DEF Leaves, Two, Parted
<1>4. Around({c, q}) /\ proc' = P /\ node' = Two(node, c, k, q, m)
  BY <1>3, Left, Zenon
<1>5. node'[c] = k /\ node'[q] = m /\ proc'[q] = proc[q] /\ proc'[c] = P[c]
  BY <1>2, <1>4, Zenon DEF Two, Parted
<1>6. Ended(c) \/ (Started(c) /\ node'[c].workload = node[c].workload)
  BY <1>5, Zenon DEF Ended, Started, Grownup, Parted
<1>7. Started(c) => node'[c].workload = node[c].workload
  BY <1>6, Zenon DEF Ended, Started
<1> QED BY <1>1, <1>2, <1>4, <1>5, <1>6, <1>7, StepChild, Zenon

\* A new child and its parent in another world.
LEMMA NewbornWaits ==
    ASSUME NEW w, NEW c \in Pids, NEW q \in Pids, Waits(c, q), Place(c), node[c].parent = q,
           w.node = node, w.proc[c].state = "stopped"
    PROVE  Newborn(w, c, q)
BY Zenon DEF Newborn, Waits, Place

\* __new_or_interrupt(), of a new child whose parent has told of it.
LEMMA TrapsChild ==
    ASSUME PtraceInv, NEW p \in Pids, NEW w, Handed(w, p), closing' \in BOOLEAN,
           proc[p].state = "stopped", proc[p].unread, proc[p].stop = "trap",
           node[p] # None, node[p].initial = 1, Becomes(SeenInitial(w, p))
    PROVE  PtraceInv'
<1>1. PICK q \in Pids : q = node[p].parent /\ q # None /\ Waits(p, q) /\ Place(p)
  <2>1. node[p].parent # None
    BY DEF PtraceInv, ChildInv, Nodes
  <2> QED BY <2>1, Waiting, Placed, Zenon DEF Waits
<1>2. /\ w \in Worlds /\ w.proc \in Procs /\ w.node = node /\ w.bug = bug /\ w.proc[p].state = "stopped"
      /\ \A x \in Pids \ {p} : w.proc[x] = proc[x]
  BY Zenon DEF Handed
<1>3. Newborn(w, p, q)
  BY <1>1, <1>2, NewbornWaits, Zenon
<1>4. node[p] \in Node /\ node[q] \in Node /\ node[q] # None
  BY <1>1, Zenon DEF Waits, PtraceInv, TypeOK
<1>5. ASSUME NEW s \in {"running", "free"}
      PROVE  In(w.proc, p, s)[p].state = s /\ \A x \in Pids \ {p} : In(w.proc, p, s)[x] = proc[x]
  <2>1. s \in {"none", "running", "stopped", "listening", "zombie", "gone", "free"}
    BY <1>5
  <2>2. Shifted(In(w.proc, p, s), w.proc, p, s)
    BY <1>2, <2>1, InFields, Zenon
  <2> QED BY <1>2, <2>2, Zenon DEF Shifted
<1>6. CASE node[p].detach
  <2>1. ~node[p].workload
    BY <1>6 DEF PtraceInv, DetachInv, Nodes
  <2>2. Is(SeenInitial(w, p), In(w.proc, p, "free"), Two(w.node, p, None, q, Less(Without(w.node[q], p))), w.bug)
    BY <1>2, <1>3, <1>6, <2>1, SeenSecond, Zenon
  <2>3. Is(SeenInitial(w, p), In(w.proc, p, "free"), Two(node, p, None, q, Less(Without(node[q], p))), bug)
    BY <1>2, <2>2, Zenon
  <2>4. /\ In(w.proc, p, "free")[p].state \in {"gone", "free"}
        /\ \A x \in Pids \ {p} : In(w.proc, p, "free")[x] = proc[x]
    BY <1>5, Zenon
  <2>5. Parted(SeenInitial(w, p), In(w.proc, p, "free"), None, p, q)
    BY <1>1, <2>3, <2>4, Zenon DEF Parted
  <2>6. PICK v, P, k : v = SeenInitial(w, p) /\ P = In(w.proc, p, "free") /\ k = None
    BY Zenon
  <2>7. Parted(v, P, k, p, q)
    BY <2>5, <2>6
  <2> QED BY <1>1, <2>7, ChildLeaves
<1>7. CASE ~node[p].detach
  <2>1. node[q].devs # {}
    BY <1>1, <1>7, Zenon DEF Waits, PtraceInv, DetachInv, Nodes
  <2>2. PICK k : k = Followed(Grown(node[p]), p, node[q])
    BY Zenon
  <2>3. Is(SeenInitial(w, p), In(w.proc, p, "running"), Two(w.node, p, k, q, Less(Without(w.node[q], p))), w.bug)
    BY <1>2, <1>3, <1>7, <2>1, <2>2, SeenSecond, Zenon
  <2>4. Is(SeenInitial(w, p), In(w.proc, p, "running"), Two(node, p, k, q, Less(Without(node[q], p))), bug)
    BY <1>2, <2>3, Zenon
  <2>5. Grownup(k, node[p])
    <3>1. node[p].refcount = 1 /\ node[p].children = {}
      BY <1>1, Zenon DEF Place
    <3> QED BY <1>4, <1>7, <2>1, <2>2, <3>1, FollowedChild, Zenon
  <2>6. /\ In(w.proc, p, "running")[p].state = "running"
        /\ \A x \in Pids \ {p} : In(w.proc, p, "running")[x] = proc[x]
    BY <1>5, Zenon
  <2>7. Parted(SeenInitial(w, p), In(w.proc, p, "running"), k, p, q)
    BY <1>1, <2>4, <2>5, <2>6, Zenon DEF Parted
  <2>8. PICK v, P : v = SeenInitial(w, p) /\ P = In(w.proc, p, "running")
    BY Zenon
  <2>9. Parted(v, P, k, p, q)
    BY <2>7, <2>8
  <2> QED BY <1>1, <2>9, ChildLeaves
<1> QED BY <1>6, <1>7, Zenon

\* __new_or_interrupt()
LEMMA Traps ==
    ASSUME PtraceInv, NEW p \in Pids, NEW w, Handed(w, p), UNCHANGED closing,
           proc[p].state = "stopped", proc[p].unread, proc[p].stop = "trap",
           Becomes(NewOrInterrupt(w, p))
    PROVE  PtraceInv'
<1>1. /\ w \in Worlds /\ w.proc \in Procs /\ w.node = node /\ w.bug = bug /\ w.proc[p].state = "stopped"
      /\ ~w.proc[p].unread /\ w.proc[p].stop = proc[p].stop /\ w.proc[p].pend = proc[p].pend
      /\ \A x \in Pids \ {p} : w.proc[x] = proc[x]
  BY Zenon DEF Handed
<1>2. closing' \in BOOLEAN
  BY Zenon DEF PtraceInv, TypeOK
<1>3. CASE node[p] = None
  <2>1. PICK v, P, k : v = NewOrInterrupt(w, p) /\ P = w.proc /\ k = Grown(Fresh)
    BY Zenon
  <2>2. Is(v, P, [node EXCEPT ![p] = k], bug)
    <3>1. Is(NewOrInterrupt(w, p), w.proc, [w.node EXCEPT ![p] = Grown(Fresh)], w.bug)
      BY <1>1, <1>3, TrapUnknown, Zenon
    <3> QED BY <1>1, <2>1, <3>1, Zenon
  <2>3. node \in NodeFns
    BY Zenon DEF Handed
  <2>4. Leaves(v, P, [node EXCEPT ![p] = k], {p})
    BY <1>1, <2>1, <2>2, <2>3, Zenon DEF Leaves, NodeFns
  <2>5. Around({p}) /\ proc' = P /\ node' = [node EXCEPT ![p] = k]
    BY <1>2, <2>4, Left, Zenon
  <2>6. node'[p] = k /\ Moved(p, "stopped")
    BY <1>1, <2>1, <2>3, <2>5, Zenon DEF NodeFns, Moved
  <2>7. /\ k \in Node /\ k # None /\ k.initial = 1 /\ ~k.detach /\ ~k.workload
        /\ k.refcount = 1 /\ k.parent = None /\ k.children = {} /\ k.devs = {}
    <3>1. Fresh \in Node /\ Fresh.initial \in {0, 1}
      BY FreshNode, Zenon
    <3>2. /\ k \in Node /\ k.initial = Fresh.initial + 1
          /\ k.detach = Fresh.detach /\ k.workload = Fresh.workload
          /\ k.refcount = Fresh.refcount /\ k.parent = Fresh.parent
          /\ k.children = Fresh.children /\ k.devs = Fresh.devs
      BY <2>1, <3>1, GrownNode
    <3> QED BY <3>2, FreshNode, PtraceAssumption
  <2>8. Unknown(p)
    BY <1>3, Zenon DEF Unknown
  <2> QED BY <2>5, <2>6, <2>7, <2>8, StepNew, Zenon
<1>4. CASE node[p] # None
  <2>1. /\ node[p].initial \in {1, 2}
        /\ node[p].parent # None => node[p].initial = 1 /\ node[node[p].parent].detach = node[p].detach
    BY <1>4, Zenon DEF PtraceInv, ChildInv, Nodes
  <2>2. /\ node[p].initial # 2 => NewOrInterrupt(w, p) = SeenInitial(w, p)
        /\ node[p].initial = 2 /\ node[p].detach => NewOrInterrupt(w, p) = Detach(w, p)
        /\ node[p].initial = 2 /\ ~node[p].detach => NewOrInterrupt(w, p) = Cont(w, p)
    BY <1>1, <1>4, <2>1, TrapKnown, Zenon
  <2>3. CASE node[p].initial = 1
    <3>1. Becomes(SeenInitial(w, p))
      BY <2>2, <2>3
    <3> QED BY <1>2, <1>4, <2>3, <3>1, TrapsChild, Zenon
  <2>4. CASE node[p].initial = 2 /\ node[p].detach
    <3>1. Place(p) /\ node[p].parent = None /\ ~node[p].workload
      <4>1. node[p].parent = None
        BY <2>1, <2>4
      <4>2. ~node[p].workload
        BY <1>4, <2>4 DEF PtraceInv, DetachInv, Nodes
      <4> QED BY <4>1, <4>2, Placed, Zenon
    <3>2. Unlisted(node, p) /\ (node[p].refcount = 1 => node[p].children = {})
      BY <1>4, <3>1 DEF Place
    <3>3. PICK P, n : P = In(w.proc, p, "free") /\ n = Less(node[p])
      BY Zenon
    <3>4. Is(Detach(w, p), P, [node EXCEPT ![p] = n], bug)
      <4>1. Is(Detach(w, p), In(w.proc, p, "free"), [w.node EXCEPT ![p] = Less(w.node[p])], w.bug)
        BY <1>1, <1>4, <3>1, <3>2, DetachLess, Zenon
      <4> QED BY <1>1, <3>3, <4>1, Zenon
    <3>5. P[p].state = "free" /\ \A x \in Pids \ {p} : P[x] = proc[x]
      <4>1. Shifted(P, w.proc, p, "free")
        BY <1>1, <3>3, InFields, Zenon
      <4> QED BY <1>1, <4>1, Zenon DEF Shifted
    <3>6. Leaves(Detach(w, p), P, [node EXCEPT ![p] = n], {p})
      <4>1. node \in NodeFns /\ Becomes(Detach(w, p))
        BY <2>2, <2>4, Zenon DEF Handed
      <4> QED BY <3>4, <3>5, <4>1, Zenon DEF Leaves, NodeFns
    <3>7. Around({p}) /\ proc' = P /\ node' = [node EXCEPT ![p] = n]
      BY <1>2, <3>6, Left, Zenon
    <3>8. node'[p] = Less(node[p]) /\ proc'[p].state = "free"
      <4>1. node \in NodeFns
        BY Zenon DEF Handed
      <4> QED BY <3>3, <3>5, <3>7, <4>1, Zenon DEF NodeFns
    <3>9. proc[p].state \notin {"gone", "free"} /\ ~ForkStop(p)
      BY DEF ForkStop
    <3> QED BY <1>4, <2>4, <3>1, <3>7, <3>8, <3>9, StepGone, Zenon
  <2>5. CASE node[p].initial = 2 /\ ~node[p].detach
    <3>1. Becomes(Cont(w, p)) /\ proc[p].stop # "fork"
      BY <2>2, <2>5
    <3> QED BY <1>4, <2>5, <3>1, Resumes, Zenon
  <2> QED BY <2>1, <2>3, <2>4, <2>5, Zenon
<1> QED BY <1>3, <1>4, Zenon

\* ptrace_stop()
LEMMA StopKeeps ==
    ASSUME PtraceInv, NEW p \in Pids, PtraceStop(p)
    PROVE  PtraceInv'
<1>1. PICK w : w = [World EXCEPT !.proc[p].unread = FALSE]
  BY Zenon
<1>2. /\ proc[p].stop = "fork" => Becomes(Forked(w, p, proc[p].child))
      /\ proc[p].stop = "trap" => Becomes(NewOrInterrupt(w, p))
      /\ proc[p].stop = "signal" => Becomes(Cont(w, p))
      /\ proc[p].stop = "group" => Becomes(Listen(w, p))
  BY <1>1, Zenon DEF PtraceStop, Forked
<1>3. proc[p].state = "stopped" /\ proc[p].unread /\ UNCHANGED closing
  BY Zenon DEF PtraceStop
<1>4. Handed(w, p) /\ closing' \in BOOLEAN
  BY <1>1, <1>3, ReadWorld, Zenon DEF PtraceInv, TypeOK
<1>5. /\ proc[p].stop \in {"fork", "trap", "signal", "group"}
      /\ proc[p].stop # "trap" => node[p] # None /\ node[p].initial = 2
  BY <1>3, Zenon DEF PtraceInv, ProcInv
<1>6. CASE proc[p].stop = "fork"
  <2>1. ForkStop(p)
    BY <1>3, <1>6, Zenon DEF ForkStop
  <2> QED BY <1>2, <1>4, <1>6, <2>1, Forks, Zenon
<1>7. CASE proc[p].stop = "trap"
  BY <1>2, <1>3, <1>4, <1>7, Traps, Zenon
<1>8. CASE proc[p].stop = "signal"
  <2>1. PICK v : v = Cont(w, p) /\ Becomes(v)
    BY <1>2, <1>8, Zenon
  <2>2. proc[p].stop # "fork" /\ node[p] # None /\ node[p].initial = 2
    BY <1>5, <1>8
  <2>3. node[p].detach => proc[p].pend
    BY <1>3, <1>8, <2>2 DEF PtraceInv, DetachInv, Nodes
  <2> QED BY <1>3, <1>4, <2>1, <2>2, <2>3, Resumes, Zenon
<1>9. CASE proc[p].stop = "group"
  <2>1. PICK v : v = Listen(w, p) /\ Becomes(v)
    BY <1>2, <1>9, Zenon
  <2>2. proc[p].stop # "fork" /\ node[p] # None /\ node[p].initial = 2
    BY <1>5, <1>9
  <2> QED BY <1>3, <1>4, <2>1, <2>2, Resumes, Zenon
<1> QED BY <1>5, <1>6, <1>7, <1>8, <1>9, Zenon

\* ptrace_exited(): the process holds its node no longer.
LEMMA ExitedKeeps ==
    ASSUME PtraceInv, NEW p \in Pids, PtraceExited(p)
    PROVE  PtraceInv'
<1>1. PICK w : w = [World EXCEPT !.proc[p] = [proc[p] EXCEPT !.state = "gone", !.unread = FALSE]]
  BY Zenon
<1>2. PICK v, P : v = Put(w, p) /\ P = w.proc
  BY Zenon
<1>3. proc[p].state = "zombie" /\ Becomes(v) /\ closing' \in BOOLEAN
  <2>1. proc[p].state = "zombie" /\ Becomes(v) /\ UNCHANGED closing
    BY <1>1, <1>2, Zenon DEF PtraceExited
  <2> QED BY <2>1, Zenon DEF PtraceInv, TypeOK
<1>4. /\ w \in Worlds /\ w.node = node /\ w.bug = bug /\ node \in NodeFns
      /\ P[p].state = "gone" /\ \A x \in Pids \ {p} : P[x] = proc[x]
  <2>1. TypeOK
    BY Zenon DEF PtraceInv
  <2> QED BY <1>1, <1>2, <2>1, Reaped, Zenon
<1>5. node[p] # None /\ Place(p)
  <2>1. node[p] # None
    BY <1>3, Zenon DEF PtraceInv, ProcInv
  <2> QED BY <2>1, Placed, Zenon
<1>6. CASE node[p].parent = None
  <2>1. Unlisted(node, p) /\ (node[p].refcount = 1 => node[p].children = {})
    BY <1>3, <1>5, <1>6 DEF Place
  <2>2. PICK n : n = Less(node[p])
    BY Zenon
  <2>3. Is(v, P, [node EXCEPT ![p] = n], bug)
    <3>1. Is(Put(w, p), w.proc, [w.node EXCEPT ![p] = Less(w.node[p])], w.bug)
      BY <1>4, <1>5, <1>6, <2>1, PutLess, Zenon
    <3> QED BY <1>2, <1>4, <2>2, <3>1, Zenon
  <2>4. Leaves(v, P, [node EXCEPT ![p] = n], {p})
    BY <1>3, <1>4, <2>3, Zenon DEF Leaves, NodeFns
  <2>5. Around({p}) /\ proc' = P /\ node' = [node EXCEPT ![p] = n]
    BY <1>3, <2>4, Left, Zenon
  <2>6. proc'[p].state = "gone" /\ node'[p] = Less(node[p])
    <3>1. node'[p] = n
      BY <1>4, <2>5, Zenon DEF NodeFns
    <3> QED BY <1>4, <2>2, <2>5, <3>1, Zenon
  <2>7. node[p].initial = 2
    BY <1>3, <1>5, <1>6 DEF PtraceInv, ChildInv, Nodes
  <2>8. proc[p].state \notin {"gone", "free"} /\ ~ForkStop(p)
    BY <1>3 DEF ForkStop
  <2>9. PICK s \in {"gone", "free"} : s = "gone"
    OBVIOUS
  <2> QED BY <1>5, <1>6, <2>5, <2>6, <2>7, <2>8, <2>9, StepGone
<1>7. CASE node[p].parent # None
  <2>1. PICK q \in Pids : q = node[p].parent /\ Waits(p, q)
    BY <1>5, <1>7, Waiting, Zenon DEF Waits
  <2>2. /\ node[p].refcount = 1 /\ node[p].children = {} /\ p # q
        /\ node[q] # None /\ ListedBy(node, p, q) /\ Unlisted(node, q)
        /\ node[q].refcount = 1 => node[q].children \subseteq {p}
    BY <1>5, <2>1, Zenon DEF Waits, Place
  <2>3. Is(Put(w, p), w.proc, Two(w.node, p, None, q, Less(Without(w.node[q], p))), w.bug)
    BY <1>4, <1>5, <2>1, <2>2, PutChild, Zenon
  <2>4. Is(v, P, Two(node, p, None, q, Less(Without(node[q], p))), bug)
    BY <1>2, <1>4, <2>3, Zenon
  <2>5. P[p].state \in {"gone", "free"}
    BY <1>4
  <2>6. PICK k : k = None
    BY Zenon
  <2>7. Parted(v, P, k, p, q)
    BY <1>3, <1>4, <1>5, <2>1, <2>4, <2>5, <2>6, Zenon DEF Parted
  <2> QED BY <1>3, <2>1, <2>7, ChildLeaves
<1> QED BY <1>6, <1>7, Zenon

\* Every step keeps the invariant.
LEMMA NextKeeps ==
    ASSUME PtraceInv, [Next]_vars
    PROVE  PtraceInv'
<1>1. ASSUME NEW p \in Pids, NEW c \in Pids, Fork(p, c)
      PROVE  PtraceInv'
  BY <1>1, ForkKeeps, Zenon
<1>2. ASSUME NEW p \in Pids, Trap(p) \/ Signal(p) \/ Exit(p) \/ GroupStop(p) \/ Sigcont(p)
      PROVE  PtraceInv'
  BY <1>2, KernelKeeps, Zenon
<1>3. ASSUME NEW p \in Pids, PtraceStop(p)
      PROVE  PtraceInv'
  BY <1>3, StopKeeps, Zenon
<1>4. ASSUME NEW p \in Pids, PtraceExited(p)
      PROVE  PtraceInv'
  BY <1>4, ExitedKeeps, Zenon
<1>5. ASSUME NEW d \in Devs, Close(d)
      PROVE  PtraceInv'
  <2>1. PICK D : D = Cloned(d)
    BY Zenon
  <2>2. Becomes(PtraceDetach(D)) /\ UNCHANGED closing
    BY <1>5, <2>1, Zenon DEF Close
  <2>3. closing' \in BOOLEAN
    BY <2>2, Zenon DEF PtraceInv, TypeOK
  <2> QED BY <2>2, <2>3, DetachKeeps
<1>6. ASSUME Sigint
      PROVE  PtraceInv'
  <2>1. PICK D : D = Open
    BY Zenon
  <2>2. Becomes(PtraceDetach(D)) /\ closing' = TRUE
    BY <1>6, <2>1, Zenon DEF Sigint
  <2>3. closing' \in BOOLEAN
    BY <2>2
  <2> QED BY <2>2, <2>3, DetachKeeps
<1>7. ASSUME UNCHANGED vars
      PROVE  PtraceInv'
  BY <1>7, NothingChanges, Zenon
<1>8. Done => UNCHANGED vars
  BY Zenon DEF Done
<1> QED BY <1>1, <1>2, <1>3, <1>4, <1>5, <1>6, <1>7, <1>8, Zenon DEF Next

-----------------------------------------------------------------------------

\* The inductive invariant holds in every state: of pid_list, of the processes the kernel
\* stops for it, and of the stops that wait for waitid().
THEOREM PtraceInvariant == Spec => []PtraceInv
<1>1. Init => PtraceInv
  BY InitHolds, Zenon
<1>2. PtraceInv /\ [Next]_vars => PtraceInv'
  BY NextKeeps, Zenon
<1> QED BY <1>1, <1>2, PTL DEF Spec

\* The variables keep their types: no reference count of a pid_node that exists reaches 0.
THEOREM PtraceTypes == Spec => []TypeOK
<1>1. PtraceInv => TypeOK
  BY Zenon DEF PtraceInv
<1> QED BY <1>1, PtraceInvariant, PTL

\* No message that starts with BUG is ever printed, however many processes fork, whatever
\* the order in which the stops are read and the devices closed.
THEOREM NoBugPrinted == Spec => []NoBug
<1>1. PtraceInv => NoBug
  BY Zenon DEF PtraceInv
<1> QED BY <1>1, PtraceInvariant, PTL

\* get_pid() and put_pid() are balanced: a node lives as long as its process is traced or a
\* new child waits for it, and no longer.
THEOREM RefsCounted == Spec => []RefsBalanced
<1>1. PtraceInv => RefsBalanced
  BY Zenon DEF PtraceInv
<1> QED BY <1>1, PtraceInvariant, PTL

\* A process never runs under ptrace without a device that follows it, unless it is about to
\* be detached.
THEOREM FollowedWhileRunning == Spec => []RunsFollowed
<1>1. PtraceInv => RunsFollowed
  BY InvFollowed, Zenon
<1> QED BY <1>1, PtraceInvariant, PTL

\* ptrace_detach_done() waits for every traced process, when none is a workload that can be
\* killed: no child that pid_list does not know yet is left stopped.
THEOREM NobodyLeft ==
    ASSUME Workloads \subseteq {FALSE}
    PROVE  Spec => []NobodyLeftTraced
<1>1. PtraceInv => NobodyLeftTraced
  BY InvNobody, Zenon
<1> QED BY <1>1, PtraceInvariant, PTL
===============================================================================
