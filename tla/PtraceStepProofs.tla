--------------------------- MODULE PtraceStepProofs ---------------------------
(***************************************************************************)
(* The inductive invariant of ptrace.c holds at the start, and is kept by  *)
(* every change that reading a report makes to a process, its node and     *)
(* that of its parent, by what the kernel does and by closing devices.     *)
(***************************************************************************)
EXTENDS PtraceWorlds, FiniteSetTheorems, TLAPS

-----------------------------------------------------------------------------
(* What follows from the invariant, and what it says in a step that        *)
(* changes nothing.                                                        *)

\* A process that runs is followed, or about to stop.
LEMMA InvFollowed ==
    ASSUME PtraceInv
    PROVE  RunsFollowed
<1>1. ASSUME NEW p \in Pids, proc[p].state = "running"
      PROVE  node[p] # None /\ node[p].initial = 2 /\ (node[p].devs # {} \/ (node[p].detach /\ proc[p].pend))
  BY <1>1 DEF PtraceInv, ProcInv, DetachInv, Nodes
<1> QED BY <1>1, Zenon DEF RunsFollowed, Nodes

\* Without a workload nobody is left when pid_list is empty.
LEMMA InvNobody ==
    ASSUME PtraceInv, Workloads \subseteq {FALSE}
    PROVE  NobodyLeftTraced
<1>1. SUFFICES ASSUME DetachDone, NEW p \in Pids
               PROVE  proc[p].state \in {"none", "gone", "free"}
  BY Zenon DEF NobodyLeftTraced
<1>2. \A x \in Pids : node[x] = None
  BY <1>1, Zenon DEF DetachDone
<1>3. \A x \in Pids : ~ForkStop(x)
  BY <1>2 DEF PtraceInv, ProcInv, ForkStop
<1>4. ~Unknown(p)
  BY <1>1, <1>3, Zenon DEF PtraceInv, OrphanInv
<1>5. proc[p] \in Proc
  BY <1>1, Zenon DEF PtraceInv, TypeOK
<1>6. proc[p].state \in {"none", "running", "stopped", "listening", "zombie", "gone", "free"}
  BY <1>5, Zenon DEF Proc
<1> QED BY <1>1, <1>2, <1>4, <1>6 DEF PtraceInv, ProcInv, Unknown

\* A step that changes nothing.
LEMMA NothingChanges ==
    ASSUME PtraceInv, UNCHANGED vars
    PROVE  PtraceInv'
<1>1. proc' = proc /\ node' = node /\ bug' = bug /\ closing' = closing
  BY Zenon DEF vars
<1>2. TypeOK' /\ NoBug' /\ RefsBalanced'
  BY <1>1 DEF PtraceInv, TypeOK, NoBug, RefsBalanced, Nodes
<1>3. ProcInv' /\ DetachInv'
  BY <1>1 DEF PtraceInv, ProcInv, DetachInv, Nodes
<1>4. ChildInv'
  BY <1>1 DEF PtraceInv, ChildInv, Nodes
<1>5. ASSUME NEW x \in Pids
      PROVE  (ForkStop(x)' <=> ForkStop(x)) /\ (Unknown(x)' <=> Unknown(x)) /\ (Expected(x)' <=> Expected(x))
  BY <1>1, Zenon DEF ForkStop, Unknown, Expected
<1>6. ForkInv'
  BY <1>1, <1>5 DEF PtraceInv, ForkInv
<1>7. OrphanInv'
  BY <1>1, <1>5, Zenon DEF PtraceInv, OrphanInv, Nodes
<1> QED BY <1>2, <1>3, <1>4, <1>6, <1>7, Zenon DEF PtraceInv

-----------------------------------------------------------------------------
(* What the invariant says of the lists and of the reference counts.       *)

\* The list of each node holds the new children that wait for it, and no other.
ListsRight(N) ==
    \A p \in Pids : N[p] # None =>
        \A c \in Pids : c \in N[p].children <=> N[c] # None /\ N[c].parent = p

\* The references to the node n of the process r: its new children and, until it is gone, itself.
Owed(r, n) == Cardinality(n.children) + IF r.state \in {"gone", "free"} THEN 0 ELSE 1

Balanced(P, N) ==
    /\ ListsRight(N)
    /\ \A p \in Pids : N[p] # None =>
           /\ N[p].refcount = Owed(P[p], N[p])
           /\ N[p].parent # None => N[N[p].parent] # None

\* The lists, as sets and as members.
LEMMA ListsAsSets ==
    ASSUME NEW N \in NodeFns
    PROVE  ListsRight(N) <=>
               \A p \in {x \in Pids : N[x] # None} :
                   N[p].children = {c \in {x \in Pids : N[x] # None} : N[c].parent = p}
<1>1. \A p \in Pids : N[p] # None => N[p].children \subseteq Pids
  BY DEF NodeFns, Node
<1> QED BY <1>1 DEF ListsRight

\* The reference counts, before and after a step.
LEMMA RefsAsBalanced ==
    ASSUME TypeOK
    PROVE  RefsBalanced <=> Balanced(proc, node)
<1>1. node \in NodeFns
  BY Zenon DEF TypeOK, NodeFns
<1>2. ListsRight(node) <=> \A p \in Nodes : node[p].children = {c \in Nodes : node[c].parent = p}
  BY <1>1, ListsAsSets, Zenon DEF Nodes
<1>3. \A p \in Nodes : node[p].parent \in Pids \cup {None}
  BY <1>1 DEF Nodes, NodeFns, Node
<1> QED BY <1>2, <1>3, Zenon DEF RefsBalanced, Balanced, Owed, Nodes

\* The same after a step.
LEMMA RefsAsBalancedNext ==
    ASSUME TypeOK'
    PROVE  RefsBalanced' <=> Balanced(proc', node')
<1>1. node' \in NodeFns
  BY Zenon DEF TypeOK, NodeFns
<1>2. ListsRight(node') <=> \A p \in Nodes' : node'[p].children = {c \in Nodes' : node'[c].parent = p}
  BY <1>1, ListsAsSets, Zenon DEF Nodes
<1>3. \A p \in Nodes' : node'[p].parent \in Pids \cup {None}
  BY <1>1 DEF Nodes, NodeFns, Node
<1> QED BY <1>2, <1>3, Zenon DEF RefsBalanced, Balanced, Owed, Nodes

\* Lists of new children and their sizes.
LEMMA ChildrenCount ==
    ASSUME NEW n \in Node, NEW c \in Pids
    PROVE  /\ Cardinality(n.children) \in Nat
           /\ Cardinality(n.children) = 0 <=> n.children = {}
           /\ c \in n.children => Cardinality(n.children \ {c}) = Cardinality(n.children) - 1
           /\ Cardinality(n.children \ {c}) = 0 => n.children \ {c} = {}
           /\ c \notin n.children => Cardinality(n.children \cup {c}) = Cardinality(n.children) + 1
<1>1. IsFiniteSet(n.children)
  <2>1. n.children \subseteq Pids
    BY DEF Node
  <2> QED BY <2>1, PtraceAssumption, FS_Subset, Zenon
<1>2. Cardinality(n.children \ {c}) = 0 => n.children \ {c} = {}
  <2>1. IsFiniteSet(n.children \ {c})
    BY <1>1, FS_Difference, Zenon
  <2> QED BY <2>1, FS_EmptySet, Zenon
<1> QED BY <1>1, <1>2, FS_CardinalityType, FS_EmptySet, FS_AddElement, FS_RemoveElement, Zenon

\* Where the process p is listed, and when its node has new children.
Place(p) ==
    /\ node[p] = None \/ node[p].parent = None => Unlisted(node, p)
    /\ node[p] # None =>
           /\ node[p].refcount = 1 /\ proc[p].state \notin {"gone", "free"} => node[p].children = {}
           /\ node[p].initial = 1 =>
                  node[p].refcount = 1 /\ node[p].children = {} /\ proc[p].state \in {"stopped", "zombie"}

\* The new child c waits for its parent q.
Waits(c, q) ==
    /\ q \in Pids /\ q # c
    /\ node[c] # None /\ node[c].initial = 1
    /\ node[q] # None /\ node[q].initial = 2 /\ node[q].parent = None
    /\ node[q].detach = node[c].detach /\ node[q].workload = node[c].workload
    /\ c \in node[q].children
    /\ ListedBy(node, c, q) /\ Unlisted(node, q)
    /\ node[q].refcount = 1 => node[q].children \subseteq {c}

\* Every process is in its place.
LEMMA Placed ==
    ASSUME PtraceInv, NEW p \in Pids
    PROVE  Place(p)
<1>1. Balanced(proc, node)
  BY RefsAsBalanced, Zenon DEF PtraceInv
<1>2. \A x \in Pids : node[x] # None => node[x] \in Node
  BY Zenon DEF PtraceInv, TypeOK
<1>3. node[p] = None \/ node[p].parent = None => Unlisted(node, p)
  <2> SUFFICES ASSUME node[p] = None \/ node[p].parent = None, NEW q \in Pids, node[q] # None
               PROVE  p \notin node[q].children
    BY Zenon DEF Unlisted
  <2>1. p \in node[q].children <=> node[p] # None /\ node[p].parent = q
    BY <1>1, Zenon DEF Balanced, ListsRight
  <2> QED BY <2>1, PtraceAssumption, Zenon
<1>4. ASSUME node[p] # None, node[p].refcount = 1, proc[p].state \notin {"gone", "free"}
      PROVE  node[p].children = {}
  <2>1. node[p].refcount = Cardinality(node[p].children) + 1
    BY <1>1, <1>4 DEF Balanced, Owed
  <2>2. node[p].children # {} => Cardinality(node[p].children) \in Nat \ {0}
    BY <1>2, <1>4, ChildrenCount, Zenon
  <2> QED BY <1>4, <2>1, <2>2
<1>5. ASSUME node[p] # None, node[p].initial = 1
      PROVE  node[p].refcount = 1 /\ node[p].children = {} /\ proc[p].state \in {"stopped", "zombie"}
  <2>1. node[p].children = {}
    <3>1. ASSUME NEW c \in Pids PROVE c \notin node[p].children
      <4> SUFFICES ASSUME c \in node[p].children PROVE FALSE
        OBVIOUS
      <4>1. node[c] # None /\ node[c].parent = p
        BY <1>1, <1>5, Zenon DEF Balanced, ListsRight
      <4>2. node[p].initial = 2
        BY <4>1, PtraceAssumption DEF PtraceInv, ChildInv, Nodes
      <4> QED BY <1>5, <4>2
    <3> QED BY <1>2, <1>5, <3>1 DEF Node
  <2>2. proc[p].state \in {"stopped", "zombie"}
    BY <1>5 DEF PtraceInv, ChildInv, Nodes
  <2>3. node[p].refcount = Cardinality(node[p].children) + 1
    BY <1>1, <1>5, <2>2 DEF Balanced, Owed
  <2>4. Cardinality(node[p].children) = 0
    BY <1>2, <1>5, <2>1, ChildrenCount, Zenon
  <2> QED BY <2>1, <2>2, <2>3, <2>4
<1> QED BY <1>3, <1>4, <1>5, Zenon DEF Place

\* Every child with a parent waits for it.
LEMMA Waiting ==
    ASSUME PtraceInv, NEW c \in Pids, node[c] # None, node[c].parent # None
    PROVE  Waits(c, node[c].parent)
<1>1. Balanced(proc, node)
  BY RefsAsBalanced, Zenon DEF PtraceInv
<1>2. \A x \in Pids : node[x] # None => node[x] \in Node
  BY Zenon DEF PtraceInv, TypeOK
<1>3. PICK q : q = node[c].parent
  BY Zenon
<1>4. /\ q \in Pids /\ node[c].initial = 1
      /\ node[q] # None /\ node[q].initial = 2
      /\ node[q].detach = node[c].detach /\ node[q].workload = node[c].workload
  BY <1>3, Zenon DEF PtraceInv, ChildInv, Nodes
<1>5. q # c
  BY <1>4
<1>6. node[q].parent = None
  <2> SUFFICES ASSUME node[q].parent # None PROVE FALSE
    BY Zenon
  <2>1. node[q].initial = 1
    BY <1>4, Zenon DEF PtraceInv, ChildInv, Nodes
  <2> QED BY <1>4, <2>1
<1>7. c \in node[q].children /\ ListedBy(node, c, q)
  BY <1>1, <1>3, <1>4, Zenon DEF Balanced, ListsRight, ListedBy
<1>8. Unlisted(node, q)
  BY <1>4, <1>6, Placed, Zenon DEF Place
<1>9. ASSUME node[q].refcount = 1 PROVE node[q].children \subseteq {c}
  <2>1. node[q] \in Node
    BY <1>2, <1>4, Zenon
  <2>2. node[q].children # {} /\ Cardinality(node[q].children) # 0
    BY <1>7, <2>1, ChildrenCount, Zenon
  <2>3. node[q].refcount = Owed(proc[q], node[q])
    BY <1>1, <1>4, Zenon DEF Balanced
  <2>4. Cardinality(node[q].children \ {c}) = 0
    BY <1>7, <1>9, <2>1, <2>2, <2>3, ChildrenCount DEF Owed
  <2>5. node[q].children \ {c} = {}
    BY <2>1, <2>4, ChildrenCount, Zenon
  <2> QED BY <2>5, Zenon
<1> QED BY <1>3, <1>4, <1>5, <1>6, <1>7, <1>8, <1>9, Zenon DEF Waits

-----------------------------------------------------------------------------
(* The steps, by what they change.                                         *)

\* Before and after a step, the processes other than S being left alone.
Around(S) ==
    /\ PtraceInv /\ TypeOK' /\ NoBug'
    /\ \A x \in Pids \ S : proc'[x] = proc[x] /\ node'[x] = node[x]

\* The report of p was read, and it is in another state.
Moved(p, s) ==
    /\ proc'[p].state = s /\ ~proc'[p].unread
    /\ proc'[p].stop = proc[p].stop /\ proc'[p].pend = proc[p].pend

\* The FORK stop of x still waits.
SameFork(x) == ForkStop(x)' /\ proc'[x].child = proc[x].child

\* No FORK stop is new, and the children they tell of are new ones.
LEMMA ForkKept ==
    ASSUME ForkInv,
           \A x \in Pids : ForkStop(x)' => ForkStop(x) /\ SameFork(x),
           \A x, c \in Pids : ForkStop(x) /\ SameFork(x) /\ proc[x].child = c => Expected(c)'
    PROVE  ForkInv'
<1> SUFFICES ASSUME NEW x \in Pids, ForkStop(x)'
             PROVE  /\ proc'[x].child \in Pids
                    /\ Expected(proc[x].child)'
                    /\ \A q \in Pids : ForkStop(q)' /\ proc'[q].child = proc'[x].child => q = x
  BY Zenon DEF ForkInv
<1>1. ForkStop(x) /\ proc'[x].child = proc[x].child
  BY Zenon DEF SameFork
<1>2. proc[x].child \in Pids /\ \A q \in Pids : ForkStop(q) /\ proc[q].child = proc[x].child => q = x
  BY <1>1, Zenon DEF ForkInv
<1>3. ASSUME NEW q \in Pids, ForkStop(q)', proc'[q].child = proc'[x].child PROVE q = x
  BY <1>1, <1>2, <1>3, Zenon DEF SameFork
<1>4. ASSUME NEW c \in Pids, proc[x].child = c PROVE Expected(c)'
  BY <1>1, <1>4, Zenon
<1> QED BY <1>1, <1>2, <1>3, <1>4, Zenon

\* No child is new to pid_list whose parent's FORK stop was lost.
LEMMA OrphanKept ==
    ASSUME OrphanInv,
           Workloads \subseteq {FALSE} /\ (\A x \in Nodes : ~node[x].workload) =>
               /\ \A x \in Nodes' : ~node'[x].workload
               /\ \A x \in Pids : Unknown(x)' => Unknown(x)
               /\ \A x, c \in Pids : ForkStop(x) /\ proc[x].child = c /\ Unknown(c)' => SameFork(x)
    PROVE  OrphanInv'
<1> SUFFICES ASSUME Workloads \subseteq {FALSE}
             PROVE  /\ \A x \in Nodes' : ~node'[x].workload
                    /\ \A c \in Pids : Unknown(c)' => \E p \in Pids : ForkStop(p)' /\ proc'[p].child = c
  BY Zenon DEF OrphanInv
<1>1. /\ \A x \in Nodes' : ~node'[x].workload
      /\ \A x \in Pids : Unknown(x)' => Unknown(x)
      /\ \A x, c \in Pids : ForkStop(x) /\ proc[x].child = c /\ Unknown(c)' => SameFork(x)
  BY Zenon DEF OrphanInv
<1>2. ASSUME NEW c \in Pids, Unknown(c)'
      PROVE  \E p \in Pids : ForkStop(p)' /\ proc'[p].child = c
  <2>1. PICK p \in Pids : ForkStop(p) /\ proc[p].child = c
    BY <1>1, <1>2, Zenon DEF OrphanInv
  <2> QED BY <1>1, <1>2, <2>1, Zenon DEF SameFork
<1> QED BY <1>1, <1>2, Zenon

\* The parts of the invariant that are about single processes.
Parts == RefsBalanced /\ ProcInv /\ ChildInv /\ DetachInv /\ ForkInv /\ OrphanInv

\* What is known around a step.
LEMMA AroundParts ==
    ASSUME NEW S, Around(S)
    PROVE  /\ Parts /\ Balanced(proc, node)
           /\ \A x \in Pids : node[x] # None => node[x] \in Node
           /\ \A x \in Pids : node'[x] # None => node'[x] \in Node
           /\ \A x \in Pids \ S : proc'[x] = proc[x] /\ node'[x] = node[x]
           /\ None \notin Pids
           /\ Balanced(proc', node') /\ ProcInv' /\ ChildInv' /\ DetachInv' /\ ForkInv' /\ OrphanInv' =>
                  PtraceInv'
<1>1. PtraceInv /\ TypeOK /\ TypeOK' /\ NoBug'
  BY Zenon DEF Around, PtraceInv
<1>2. Parts /\ Balanced(proc, node)
  BY <1>1, RefsAsBalanced, Zenon DEF PtraceInv, Parts
<1>3. /\ \A x \in Pids : node[x] # None => node[x] \in Node
      /\ \A x \in Pids : node'[x] # None => node'[x] \in Node
  BY <1>1, Zenon DEF TypeOK
<1>4. Balanced(proc', node') => RefsBalanced'
  BY <1>1, RefsAsBalancedNext, Zenon
<1> QED BY <1>1, <1>2, <1>3, <1>4, PtraceAssumption, Zenon DEF Around, PtraceInv

\* PTRACE_CONT and PTRACE_LISTEN of a process that is followed.
LEMMA StepResumed ==
    ASSUME NEW p \in Pids, NEW s \in {"running", "listening"},
           Around({p}), Moved(p, s), node'[p] = node[p],
           proc[p].state = "stopped", proc[p].stop # "fork",
           node[p] # None, node[p].initial = 2,
           s = "running" /\ node[p].detach => proc[p].pend
    PROVE  PtraceInv'
<1>1. node' = node /\ Nodes' = Nodes
  <2>1. node \in [Pids -> Node \cup {None}] /\ node' \in [Pids -> Node \cup {None}]
    BY Zenon DEF Around, PtraceInv, TypeOK
  <2>2. \A x \in Pids : node'[x] = node[x]
    BY Zenon DEF Around
  <2>3. node' = node
    BY <2>1, <2>2
  <2> QED BY <2>3, Zenon DEF Nodes
<1>2. /\ \A x \in Pids \ {p} : proc'[x] = proc[x]
      /\ RefsBalanced /\ ProcInv /\ ChildInv /\ DetachInv /\ ForkInv /\ OrphanInv
  BY Zenon DEF Around, PtraceInv
<1>3. proc'[p].state = s /\ p \in Nodes
  BY Zenon DEF Moved, Nodes
<1>4. RefsBalanced'
  <2>1. \A x \in Pids : proc'[x].state \in {"gone", "free"} <=> proc[x].state \in {"gone", "free"}
    BY <1>2, <1>3
  <2>2. Balanced(proc, node)
    BY RefsAsBalanced, Zenon DEF Around, PtraceInv
  <2>3. Balanced(proc', node')
    BY <1>1, <2>1, <2>2 DEF Balanced, Owed
  <2> QED BY <2>3, RefsAsBalancedNext, Zenon DEF Around
<1>5. ProcInv'
  BY <1>1, <1>2, <1>3 DEF ProcInv
<1>6. ChildInv'
  BY <1>1, <1>2, <1>3 DEF ChildInv, Nodes
<1>7. DetachInv'
  BY <1>1, <1>2, <1>3 DEF DetachInv, Nodes, Moved
<1>8. \A x \in Pids : /\ ForkStop(x)' => ForkStop(x)
                      /\ ForkStop(x) => SameFork(x)
                      /\ Unknown(x)' <=> Unknown(x)
  BY <1>1, <1>2, <1>3 DEF ForkStop, SameFork, Unknown
<1>9. ForkInv'
  <2>1. ASSUME NEW x \in Pids, NEW c \in Pids, ForkStop(x), proc[x].child = c PROVE Expected(c)'
    <3>1. Expected(c)
      BY <1>2, <2>1, Zenon DEF ForkInv
    <3> QED BY <1>1, <1>8, <3>1 DEF Expected
  <2> QED BY <1>2, <1>8, <2>1, ForkKept, Zenon
<1>10. OrphanInv'
  BY <1>1, <1>2, <1>8, OrphanKept, Zenon
<1> QED BY <1>4, <1>5, <1>6, <1>7, <1>9, <1>10, Zenon DEF Around, PtraceInv

\* __new_or_interrupt() of a child whose parent was not heard of.
LEMMA StepNew ==
    ASSUME NEW p \in Pids, Around({p}), Moved(p, "stopped"), Unknown(p),
           node'[p] # None, node'[p].initial = 1, ~node'[p].detach, ~node'[p].workload,
           node'[p].refcount = 1, node'[p].parent = None, node'[p].children = {}, node'[p].devs = {}
    PROVE  PtraceInv'
<1>1. /\ \A x \in Pids \ {p} : proc'[x] = proc[x] /\ node'[x] = node[x]
      /\ \A x \in Pids : node[x] # None => node[x] \in Node
      /\ Parts /\ Balanced(proc, node) /\ None \notin Pids
  BY AroundParts, Zenon
<1>2. /\ proc[p].state = "stopped" /\ proc[p].stop = "trap" /\ node[p] = None
      /\ proc'[p].state = "stopped" /\ ~proc'[p].unread /\ proc'[p].stop = "trap"
  BY Zenon DEF Unknown, Moved
<1>3. Balanced(proc', node')
  <2>1. ListsRight(node')
    <3> SUFFICES ASSUME NEW x \in Pids, node'[x] # None, NEW c \in Pids
                 PROVE  c \in node'[x].children <=> node'[c] # None /\ node'[c].parent = x
      BY Zenon DEF ListsRight
    <3>1. CASE x = p
      BY <1>1, <1>2, <3>1 DEF Balanced
    <3>2. CASE x # p
      BY <1>1, <1>2, <3>2 DEF Balanced, ListsRight
    <3> QED BY <3>1, <3>2, Zenon
  <2>2. Cardinality({}) = 0
    BY FS_EmptySet, Zenon
  <2>3. ASSUME NEW x \in Pids, node'[x] # None
        PROVE  /\ node'[x].refcount = Owed(proc'[x], node'[x])
               /\ node'[x].parent # None => node'[node'[x].parent] # None
    <3>1. CASE x = p
      BY <1>2, <2>2, <3>1 DEF Owed
    <3>2. CASE x # p
      BY <1>1, <2>3, <3>2 DEF Balanced, Node
    <3> QED BY <3>1, <3>2, Zenon
  <2> QED BY <2>1, <2>3, Zenon DEF Balanced
<1>4. ProcInv'
  BY <1>1, <1>2 DEF ProcInv, Parts
<1>5. ChildInv'
  BY <1>1, <1>2 DEF ChildInv, Nodes, Parts
<1>6. DetachInv'
  BY <1>1, <1>2 DEF DetachInv, Nodes, Parts
<1>8. \A x \in Pids : /\ ForkStop(x)' => ForkStop(x)
                      /\ ForkStop(x) => SameFork(x)
                      /\ Unknown(x)' <=> Unknown(x) /\ x # p
  BY <1>1, <1>2 DEF ForkStop, SameFork, Unknown
<1>9. ForkInv'
  <2>1. ASSUME NEW x \in Pids, NEW c \in Pids, ForkStop(x), proc[x].child = c PROVE Expected(c)'
    <3>1. Expected(c)
      BY <1>1, <2>1, Zenon DEF ForkInv, Parts
    <3> QED BY <1>1, <1>8, <3>1 DEF Expected
  <2> QED BY <1>1, <1>8, <2>1, ForkKept, Zenon DEF Parts
<1>10. OrphanInv'
  <2>1. (\A x \in Nodes : ~node[x].workload) => \A x \in Nodes' : ~node'[x].workload
    BY <1>1, Zenon DEF Nodes
  <2> QED BY <1>1, <1>8, <2>1, OrphanKept, Zenon DEF Parts
<1> QED BY <1>3, <1>4, <1>5, <1>6, <1>9, <1>10, AroundParts, Zenon

\* A node that loses a reference is freed, or else like it was.
LEMMA LessNode ==
    ASSUME NEW n \in Node
    PROVE  /\ n.refcount = 1 => Less(n) = None
           /\ n.refcount # 1 => /\ Alike(Less(n), n)
                                /\ Less(n).refcount = n.refcount - 1 /\ Less(n).children = n.children
<1>1. CASE n.refcount = 1
  BY <1>1 DEF Less
<1>2. CASE n.refcount # 1
  <2>1. Less(n) = [n EXCEPT !.refcount = @ - 1] /\ Less(n) \in Node
    BY <1>2 DEF Less, Node
  <2>2. /\ Less(n).initial = n.initial /\ Less(n).detach = n.detach /\ Less(n).workload = n.workload
        /\ Less(n).parent = n.parent /\ Less(n).devs = n.devs
        /\ Less(n).refcount = n.refcount - 1 /\ Less(n).children = n.children
    BY <2>1 DEF Node
  <2> QED BY <1>2, <2>1, <2>2, PtraceAssumption, Zenon DEF Alike
<1> QED BY <1>1, <1>2, Zenon

\* The process p, which holds no parent, is reaped or detached: its node is freed, or stays
\* for the new children that hold it.
LEMMA StepGone ==
    ASSUME NEW p \in Pids, NEW s \in {"gone", "free"},
           Around({p}), proc'[p].state = s,
           proc[p].state \notin {"gone", "free"}, ~ForkStop(p),
           node[p] # None, node[p].parent = None, node[p].initial = 2,
           s = "free" => node[p].detach /\ ~node[p].workload,
           node'[p] = Less(node[p])
    PROVE  PtraceInv'
<1>1. /\ \A x \in Pids \ {p} : proc'[x] = proc[x] /\ node'[x] = node[x]
      /\ \A x \in Pids : node[x] # None => node[x] \in Node
      /\ Parts /\ Balanced(proc, node) /\ None \notin Pids
  BY AroundParts, Zenon
<1>2. \/ node'[p] = None /\ node[p].children = {}
      \/ /\ Alike(node'[p], node[p])
         /\ node'[p].children = node[p].children /\ node'[p].refcount = node[p].refcount - 1
  <2>1. node[p].refcount = 1 => node[p].children = {}
    BY Placed, Zenon DEF Place, Around
  <2> QED BY <1>1, <2>1, LessNode, Zenon
<1>3. \A x \in Pids : node[x] # None /\ node[x].parent = p => node'[p] # None
  BY <1>1, <1>2 DEF Balanced, ListsRight, Alike
<1>4. Balanced(proc', node')
  <2>1. ListsRight(node')
    <3> SUFFICES ASSUME NEW x \in Pids, node'[x] # None, NEW c \in Pids
                 PROVE  c \in node'[x].children <=> node'[c] # None /\ node'[c].parent = x
      BY Zenon DEF ListsRight
    <3>1. node[x] # None /\ node'[x].children = node[x].children
      BY <1>1, <1>2 DEF Alike
    <3>2. c \in node[x].children <=> node[c] # None /\ node[c].parent = x
      BY <1>1, <3>1, Zenon DEF Balanced, ListsRight
    <3> QED BY <1>1, <1>2, <3>1, <3>2 DEF Alike
  <2>2. ASSUME NEW x \in Pids, node'[x] # None
        PROVE  /\ node'[x].refcount = Owed(proc'[x], node'[x])
               /\ node'[x].parent # None => node'[node'[x].parent] # None
    <3>1. CASE x = p
      <4>1. /\ Alike(node'[p], node[p])
            /\ node'[p].children = node[p].children /\ node'[p].refcount = node[p].refcount - 1
        BY <1>2, <2>2, <3>1, Zenon
      <4>2. Cardinality(node[p].children) \in Nat /\ node[p].refcount = Cardinality(node[p].children) + 1
        <5>1. Cardinality(node[p].children) \in Nat
          BY <1>1, ChildrenCount, Zenon
        <5> QED BY <1>1, <5>1 DEF Balanced, Owed
      <4> QED BY <3>1, <4>1, <4>2 DEF Owed, Alike
    <3>2. CASE x # p
      <4>1. /\ node'[x] = node[x] /\ proc'[x] = proc[x] /\ node[x] \in Node
            /\ node[x].refcount = Owed(proc[x], node[x])
            /\ node[x].parent # None => node[node[x].parent] # None
        BY <1>1, <2>2, <3>2, Zenon DEF Balanced
      <4>2. node[x].parent \in Pids \cup {None}
        BY <4>1 DEF Node
      <4>3. node[x].parent # None => node'[node[x].parent] # None
        BY <1>1, <1>3, <2>2, <4>1, <4>2, Zenon
      <4> QED BY <4>1, <4>3, Zenon
    <3> QED BY <3>1, <3>2, Zenon
  <2> QED BY <2>1, <2>2, Zenon DEF Balanced
<1>5. ProcInv'
  BY <1>1 DEF ProcInv, Parts
<1>6. ChildInv'
  <2>1. \A x \in Pids : node'[x] # None => node[x] # None /\ Alike(node'[x], node[x])
    BY <1>1, <1>2 DEF Alike
  <2>2. \A x \in Pids : node'[x] # None /\ node[x].parent # None => node'[node[x].parent] # None /\ x # p
    BY <1>1, <1>3, <2>1 DEF ChildInv, Nodes, Parts
  <2> QED BY <1>1, <2>1, <2>2 DEF ChildInv, Nodes, Parts, Alike
<1>7. DetachInv'
  BY <1>1, <1>2 DEF DetachInv, Nodes, Parts, Alike
<1>8. \A x \in Pids : /\ ForkStop(x)' => ForkStop(x) /\ x # p
                      /\ ForkStop(x) => SameFork(x)
                      /\ Unknown(x)' <=> Unknown(x)
  BY <1>1 DEF ForkStop, SameFork, Unknown
<1>9. ForkInv'
  <2>1. ASSUME NEW x \in Pids, NEW c \in Pids, ForkStop(x), proc[x].child = c PROVE Expected(c)'
    <3>1. Expected(c)
      BY <1>1, <2>1, Zenon DEF ForkInv, Parts
    <3> QED BY <1>1, <1>8, <3>1 DEF Expected
  <2> QED BY <1>1, <1>8, <2>1, ForkKept, Zenon DEF Parts
<1>10. OrphanInv'
  <2>1. (\A x \in Nodes : ~node[x].workload) => \A x \in Nodes' : ~node'[x].workload
    BY <1>1, <1>2 DEF Nodes, Alike
  <2> QED BY <1>1, <1>8, <2>1, OrphanKept, Zenon DEF Parts
<1> QED BY <1>4, <1>5, <1>6, <1>7, <1>9, <1>10, AroundParts, Zenon

\* The parent q has lost its new child c: its node m is freed, or else like it was.
Bereft(q, c, m) ==
    \/ m = None /\ node[q].children = {c} /\ proc[q].state \in {"gone", "free"}
    \/ /\ Alike(m, node[q])
       /\ m.children = node[q].children \ {c}
       /\ m.refcount = node[q].refcount - 1
       /\ m.refcount = Owed(proc[q], m)

\* A parent that loses a new child keeps its references balanced.
LEMMA ParentBereft ==
    ASSUME PtraceInv, NEW c \in Pids, NEW q \in Pids, node[c] # None, node[c].parent = q
    PROVE  Waits(c, q) /\ Bereft(q, c, Less(Without(node[q], c)))
<1>1. Waits(c, q)
  BY Waiting, PtraceAssumption, Zenon
<1>2. node[q] \in Node /\ node[q].refcount = Owed(proc[q], node[q])
  <2>1. Balanced(proc, node)
    BY RefsAsBalanced, Zenon DEF PtraceInv
  <2> QED BY <1>1, <2>1, Zenon DEF Waits, Balanced, PtraceInv, TypeOK
<1>3. PICK n, m : n = Without(node[q], c) /\ m = Less(n)
  BY Zenon
<1>4. /\ n \in Node /\ n.refcount = node[q].refcount /\ n.children = node[q].children \ {c}
      /\ n.initial = node[q].initial /\ n.detach = node[q].detach /\ n.workload = node[q].workload
      /\ n.parent = node[q].parent /\ n.devs = node[q].devs
  BY <1>2, <1>3 DEF Without, Node
<1>5. CASE n.refcount = 1
  <2>1. m = None
    BY <1>3, <1>4, <1>5, LessNode, Zenon
  <2>2. node[q].children = {c}
    BY <1>1, <1>4, <1>5, Zenon DEF Waits
  <2>3. proc[q].state \in {"gone", "free"}
    <3>1. Place(q)
      BY Placed, Zenon
    <3> QED BY <1>1, <1>4, <1>5, <2>2, <3>1, Zenon DEF Place, Waits
  <2> QED BY <1>1, <1>3, <2>1, <2>2, <2>3, Zenon DEF Bereft
<1>6. CASE n.refcount # 1
  <2>1. Alike(m, n) /\ m.refcount = n.refcount - 1 /\ m.children = n.children
    BY <1>3, <1>4, <1>6, LessNode, Zenon
  <2>2. Alike(m, node[q]) /\ m.children = node[q].children \ {c} /\ m.refcount = node[q].refcount - 1
    BY <1>4, <2>1, Zenon DEF Alike
  <2>3. /\ Cardinality(node[q].children) \in Nat
        /\ Cardinality(node[q].children \ {c}) = Cardinality(node[q].children) - 1
    BY <1>1, <1>2, ChildrenCount, Zenon DEF Waits
  <2>4. m.refcount = Owed(proc[q], m)
    BY <1>2, <2>2, <2>3 DEF Owed
  <2> QED BY <1>1, <1>3, <2>2, <2>4, Zenon DEF Bereft
<1> QED BY <1>5, <1>6, Zenon

\* A new child is reaped or detached; its device is cloned and it runs.
Ended(c) == proc'[c].state \in {"gone", "free"} /\ node'[c] = None
Started(c) ==
    /\ proc'[c].state = "running"
    /\ node'[c] # None /\ node'[c].initial = 2 /\ ~node'[c].detach /\ node'[c].refcount = 1
    /\ node'[c].parent = None /\ node'[c].children = {} /\ node'[c].devs # {}

\* When the node of q or that of its new child c changes, and the child waits no longer, the
\* references stay balanced.
LEMMA BereftBalanced ==
    ASSUME NEW c \in Pids, NEW q \in Pids, Around({c, q}),
           node[c] # None, node[c].parent = q, proc'[q] = proc[q], Bereft(q, c, node'[q]),
           Ended(c) \/ Started(c)
    PROVE  Balanced(proc', node')
<1>1. /\ \A x \in Pids \ {c, q} : proc'[x] = proc[x] /\ node'[x] = node[x]
      /\ \A x \in Pids : node[x] # None => node[x] \in Node
      /\ Parts /\ Balanced(proc, node) /\ None \notin Pids
  BY AroundParts, Zenon
<1>2. Waits(c, q) /\ node[c].children = {}
  <2>1. Waits(c, q) /\ Place(c)
    BY ParentBereft, Placed, Zenon DEF Around
  <2> QED BY <2>1, Zenon DEF Waits, Place
<1>3. /\ c # q /\ node[q] # None /\ node[q].parent = None /\ c \in node[q].children
      /\ \A x \in Pids \ {q} : node[x] # None => c \notin node[x].children
  BY <1>2, Zenon DEF Waits, ListedBy
<1>4. \A x \in Pids : node[x] # None /\ node[x].parent = q => x = c \/ node'[q] # None
  BY <1>1, <1>3 DEF Balanced, ListsRight, Bereft, Alike
<1>5. \A x \in Pids : node[x] # None => node[x].parent # c
  BY <1>1, <1>2 DEF Balanced, ListsRight
<1>6. \A x \in Pids : node'[x] # None => /\ x \notin {c, q} => node'[x] = node[x] /\ node[x] # None
                                         /\ x = q => node'[x].parent = None
                                         /\ x = c => node'[x].parent = None
  BY <1>1, <1>3 DEF Bereft, Alike, Ended, Started
<1>7. ListsRight(node')
  <2> SUFFICES ASSUME NEW x \in Pids, node'[x] # None, NEW y \in Pids
               PROVE  y \in node'[x].children <=> node'[y] # None /\ node'[y].parent = x
    BY Zenon DEF ListsRight
  <2>1. node[x] # None => (y \in node[x].children <=> node[y] # None /\ node[y].parent = x)
    BY <1>1, Zenon DEF Balanced, ListsRight
  <2>2. CASE x = c
    BY <1>1, <1>3, <1>5, <1>6, <2>2 DEF Ended, Started
  <2>3. CASE x = q
    BY <1>1, <1>3, <1>6, <2>1, <2>3 DEF Bereft
  <2>4. CASE x \notin {c, q}
    BY <1>1, <1>3, <1>6, <2>1, <2>4
  <2> QED BY <2>2, <2>3, <2>4, Zenon
<1>8. Cardinality({}) = 0
  BY FS_EmptySet, Zenon
<1>9. ASSUME NEW x \in Pids, node'[x] # None
      PROVE  /\ node'[x].refcount = Owed(proc'[x], node'[x])
             /\ node'[x].parent # None => node'[node'[x].parent] # None
  <2>1. CASE x = c
    <3>1. Started(c)
      BY <1>9, <2>1, Zenon DEF Ended
    <3> QED BY <1>6, <1>8, <1>9, <2>1, <3>1 DEF Owed, Started
  <2>2. CASE x = q
    BY <1>6, <1>9, <2>2, Zenon DEF Bereft
  <2>3. CASE x \notin {c, q}
    <3>1. /\ node'[x] = node[x] /\ proc'[x] = proc[x] /\ node[x] \in Node /\ node[x] # None
          /\ node[x].refcount = Owed(proc[x], node[x])
          /\ node[x].parent # None => node[node[x].parent] # None
      BY <1>1, <1>6, <1>9, <2>3, Zenon DEF Balanced
    <3>2. node[x].parent \in Pids \cup {None}
      BY <3>1 DEF Node
    <3>3. node[x].parent # None => node'[node[x].parent] # None
      BY <1>1, <1>4, <1>5, <2>3, <3>1, <3>2
    <3> QED BY <3>1, <3>3, Zenon
  <2> QED BY <2>1, <2>2, <2>3, Zenon
<1> QED BY <1>7, <1>9, Zenon DEF Balanced

\* The new child c, which waits for its parent q, is reaped or detached, or else its device
\* is cloned and it runs.
LEMMA StepChild ==
    ASSUME NEW c \in Pids, NEW q \in Pids, Around({c, q}),
           node[c] # None, node[c].parent = q,
           proc'[q] = proc[q], node'[q] = Less(Without(node[q], c)),
           Ended(c) \/ Started(c), Started(c) => node'[c].workload = node[c].workload
    PROVE  PtraceInv'
<1>1. /\ \A x \in Pids \ {c, q} : proc'[x] = proc[x] /\ node'[x] = node[x]
      /\ \A x \in Pids : node[x] # None => node[x] \in Node
      /\ Parts /\ Balanced(proc, node) /\ None \notin Pids
  BY AroundParts, Zenon
<1>2. Waits(c, q) /\ Bereft(q, c, node'[q])
  BY ParentBereft, Zenon DEF Around
<1>3. /\ c # q /\ node[q] # None /\ node[q].parent = None /\ c \in node[q].children
      /\ node[q].initial = 2 /\ node[c].initial = 1
  BY <1>2, Zenon DEF Waits
<1>4. Place(c)
  BY Placed, Zenon DEF Around
<1>5. Balanced(proc', node')
  BY <1>2, BereftBalanced, Zenon
<1>6. \A x \in Pids \ {c} : node'[x] # None => node[x] # None /\ Alike(node'[x], node[x])
  BY <1>1, <1>2, <1>3 DEF Bereft, Alike
<1>7. \A x \in Pids \ {c} : node'[x] = None => node[x] = None \/ proc[x].state \in {"gone", "free"}
  BY <1>1, <1>2, Zenon DEF Bereft, Alike
<1>8. \A x \in Pids \ {c} : proc'[x] = proc[x]
  BY <1>1
<1>9. ProcInv'
  BY <1>1, <1>6, <1>7, <1>8 DEF ProcInv, Parts, Alike, Ended, Started
<1>10. \A x \in Pids \ {c} : node'[x] # None /\ node[x].parent # None =>
           node[x].parent \in Pids \ {c} /\ node'[node[x].parent] # None
  <2> SUFFICES ASSUME NEW x \in Pids \ {c}, node'[x] # None, node[x].parent # None
               PROVE  node[x].parent \in Pids \ {c} /\ node'[node[x].parent] # None
    BY Zenon
  <2>1. node[x] # None /\ node'[x].parent = node[x].parent
    BY <1>6, Zenon DEF Alike
  <2>2. node[x].parent \in Pids /\ node[node[x].parent].initial = 2
    BY <1>1, <2>1, Zenon DEF ChildInv, Nodes, Parts
  <2>3. node[x].parent # c
    BY <1>3, <2>2
  <2>4. node'[node[x].parent] # None
    BY <1>5, <2>1, Zenon DEF Balanced
  <2> QED BY <2>2, <2>3, <2>4, Zenon
<1>11. ChildInv'
  <2>1. \A x \in Nodes' : x # c => x \in Nodes /\ Alike(node'[x], node[x]) /\ proc'[x] = proc[x]
    BY <1>6, <1>8, Zenon DEF Nodes
  <2> QED BY <1>1, <1>6, <1>10, <2>1 DEF ChildInv, Nodes, Parts, Alike, Ended, Started
<1>12. DetachInv'
  BY <1>1, <1>6, <1>8 DEF DetachInv, Nodes, Parts, Alike, Ended, Started
<1>13. ~ForkStop(c) /\ ~Unknown(c)
  BY <1>1, <1>3 DEF ForkStop, Unknown, ProcInv, Parts
<1>14. \A x \in Pids : /\ ForkStop(x)' => ForkStop(x)
                       /\ ForkStop(x) => SameFork(x)
                       /\ Unknown(x)' <=> Unknown(x)
  BY <1>1, <1>6, <1>7, <1>8, <1>13 DEF ForkStop, SameFork, Unknown, Ended, Started
<1>15. ForkInv'
  <2>1. ASSUME NEW x \in Pids, NEW y \in Pids, ForkStop(x), proc[x].child = y PROVE Expected(y)'
    <3>1. Expected(y)
      BY <1>1, <2>1, Zenon DEF ForkInv, Parts
    <3>2. y \notin {c, q}
      BY <1>1, <1>3, <3>1 DEF Expected
    <3> QED BY <1>1, <1>14, <3>1, <3>2 DEF Expected
  <2> QED BY <1>1, <1>14, <2>1, ForkKept, Zenon DEF Parts
<1>16. OrphanInv'
  <2>1. (\A x \in Nodes : ~node[x].workload) => \A x \in Nodes' : ~node'[x].workload
    BY <1>1, <1>6 DEF Nodes, Alike, Ended, Started
  <2> QED BY <1>1, <1>14, <2>1, OrphanKept, Zenon DEF Parts
<1> QED BY <1>5, <1>9, <1>11, <1>12, <1>15, <1>16, AroundParts, Zenon

\* What the invariant says of p and its child c while the FORK stop of p waits.
Told(p, c) ==
    /\ c \in Pids /\ c # p
    /\ node[p] # None /\ node[p].initial = 2 /\ node[p].parent = None
    /\ node[p].detach => ~node[p].workload
    /\ ~node[p].detach => node[p].devs # {}
    /\ Expected(c)
    /\ \A q \in Pids \ {p} : ForkStop(q) => proc[q].child # c

\* What the invariant says of a FORK stop that is about to be read.
LEMMA ForkTold ==
    ASSUME PtraceInv, NEW p \in Pids, ForkStop(p)
    PROVE  Told(p, proc[p].child)
<1>1. PICK c : c = proc[p].child
  BY Zenon
<1>2. c \in Pids /\ Expected(c) /\ \A q \in Pids \ {p} : ForkStop(q) => proc[q].child # c
  BY <1>1, Zenon DEF PtraceInv, ForkInv
<1>3. proc[p].state = "stopped" /\ proc[p].stop = "fork"
  BY Zenon DEF ForkStop
<1>4. node[p] # None /\ node[p].initial = 2
  BY <1>3 DEF PtraceInv, ProcInv
<1>5. node[p].parent = None
  BY <1>4 DEF PtraceInv, ChildInv, Nodes
<1>6. c # p
  BY <1>2, <1>4 DEF Expected
<1>7. node[p].detach => ~node[p].workload
  BY <1>3, <1>4 DEF PtraceInv, DetachInv, Nodes
<1>8. ~node[p].detach => node[p].devs # {}
  BY <1>4, Zenon DEF PtraceInv, DetachInv, Nodes
<1> QED BY <1>1, <1>2, <1>4, <1>5, <1>6, <1>7, <1>8, Zenon DEF Told

\* The FORK stop of p is read, and what stays is the same for all others.
LEMMA StepForked ==
    ASSUME NEW p \in Pids, NEW c \in Pids, Around({p, c}), ForkStop(p), proc[p].child = c,
           proc'[p].state \in {"running", "free"}, ~Unknown(c)',
           \A q \in Pids \ {p} : ForkStop(q)' <=> ForkStop(q)
    PROVE  /\ ForkInv'
           /\ ((\A x \in Nodes : ~node[x].workload) => \A x \in Nodes' : ~node'[x].workload) => OrphanInv'
<1>1. /\ \A x \in Pids \ {p, c} : proc'[x] = proc[x] /\ node'[x] = node[x]
      /\ Parts
  BY AroundParts, Zenon
<1>2. Told(p, c)
  BY ForkTold, Zenon DEF Around
<1>3. ~ForkStop(p)' /\ ~Unknown(p)' /\ ~ForkStop(c)
  BY <1>2 DEF ForkStop, Unknown, Told, Expected, Around, PtraceInv, ProcInv
<1>4. \A x \in Pids : /\ ForkStop(x)' => ForkStop(x) /\ SameFork(x)
                      /\ ForkStop(x) => SameFork(x) \/ x = p
                      /\ Unknown(x)' => Unknown(x) /\ x \notin {p, c}
                      /\ x \notin {p, c} => Unknown(x)' = Unknown(x)
  BY <1>1, <1>3 DEF ForkStop, SameFork, Unknown
<1>5. ForkInv'
  <2>1. ASSUME NEW x \in Pids, NEW y \in Pids, ForkStop(x), SameFork(x), proc[x].child = y PROVE Expected(y)'
    <3>1. Expected(y)
      BY <1>1, <2>1, Zenon DEF ForkInv, Parts
    <3>2. x # p /\ y \notin {p, c}
      BY <1>2, <1>3, <2>1, <3>1 DEF Expected, SameFork, Told
    <3> QED BY <1>1, <1>4, <3>1, <3>2 DEF Expected
  <2> QED BY <1>1, <1>4, <2>1, ForkKept, Zenon DEF Parts
<1> QED BY <1>1, <1>3, <1>4, <1>5, OrphanKept, Zenon DEF Parts

\* __fork() of a child that pid_list does not know: the parent lists it and goes on, or is
\* detached, and the child waits for its own stop.
LEMMA StepLinked ==
    ASSUME NEW p \in Pids, NEW c \in Pids, Around({p, c}), ForkStop(p), proc[p].child = c,
           node[c] = None, proc'[c] = proc[c],
           \/ node[p].detach /\ proc'[p].state = "free" /\ node'[p].refcount = node[p].refcount
           \/ ~node[p].detach /\ proc'[p].state = "running" /\ node'[p].refcount = node[p].refcount + 1,
           Alike(node'[p], node[p]), node'[p].children = node[p].children \cup {c},
           node'[c] # None, node'[c].initial = 1, node'[c].parent = p,
           node'[c].detach = node[p].detach, node'[c].workload = node[p].workload,
           node'[c].refcount = 1, node'[c].children = {}, node'[c].devs = {}
    PROVE  PtraceInv'
<1>1. /\ \A x \in Pids \ {p, c} : proc'[x] = proc[x] /\ node'[x] = node[x]
      /\ \A x \in Pids : node[x] # None => node[x] \in Node
      /\ Parts /\ Balanced(proc, node) /\ None \notin Pids
  BY AroundParts, Zenon
<1>2. Told(p, c)
  BY ForkTold, Zenon DEF Around
<1>3. /\ c # p /\ node[p] # None /\ node[p].initial = 2 /\ node[p].parent = None
      /\ node[p].detach => ~node[p].workload
      /\ node'[p] # None /\ node'[p].parent = None /\ node'[p].initial = 2
      /\ proc[c].state = "stopped" /\ proc[c].unread /\ proc[c].stop = "trap"
  BY <1>2, Zenon DEF Told, Expected, Unknown, Alike
<1>4. proc[p].state = "stopped" /\ proc'[p].state \in {"running", "free"}
  BY DEF ForkStop
<1>5. \A x \in Pids : node[x] # None => c \notin node[x].children /\ node[x].parent # c
  BY <1>1 DEF Balanced, ListsRight
<1>6. Balanced(proc', node')
  <2>0. ListsRight(node)
    BY <1>1, Zenon DEF Balanced
  <2>1. ListsRight(node')
    <3> SUFFICES ASSUME NEW x \in Pids, node'[x] # None, NEW y \in Pids
                 PROVE  y \in node'[x].children <=> node'[y] # None /\ node'[y].parent = x
      BY Zenon DEF ListsRight
    <3>1. node[x] # None => (y \in node[x].children <=> node[y] # None /\ node[y].parent = x)
      BY <2>0, Zenon DEF ListsRight
    <3>2. CASE x = c
      BY <1>1, <1>3, <1>5, <3>2
    <3>3. CASE x = p
      BY <1>1, <1>3, <1>5, <3>1, <3>3
    <3>4. CASE x \notin {p, c}
      BY <1>1, <1>3, <1>5, <3>1, <3>4
    <3> QED BY <3>2, <3>3, <3>4, Zenon
  <2>2. Cardinality({}) = 0
    BY FS_EmptySet, Zenon
  <2>3. node'[p].refcount = Owed(proc'[p], node'[p])
    <3>1. /\ Cardinality(node[p].children) \in Nat
          /\ Cardinality(node[p].children \cup {c}) = Cardinality(node[p].children) + 1
      <4>1. node[p] \in Node /\ c \notin node[p].children
        BY <1>1, <1>3, <1>5, Zenon
      <4> QED BY <4>1, ChildrenCount, Zenon
    <3>2. node[p].refcount = Cardinality(node[p].children) + 1
      BY <1>1, <1>3, <1>4 DEF Balanced, Owed
    <3> QED BY <3>1, <3>2 DEF Owed
  <2>4. node'[c].refcount = Owed(proc'[c], node'[c])
    BY <1>3, <2>2 DEF Owed
  <2>5. ASSUME NEW x \in Pids \ {p, c}, node'[x] # None
        PROVE  /\ node'[x].refcount = Owed(proc'[x], node'[x])
               /\ node'[x].parent # None => node'[node'[x].parent] # None
    <3>1. /\ node'[x] = node[x] /\ proc'[x] = proc[x] /\ node[x] \in Node
          /\ node[x].refcount = Owed(proc[x], node[x])
          /\ node[x].parent # None => node[node[x].parent] # None
      BY <1>1, <2>5, Zenon DEF Balanced
    <3>2. node[x].parent \in Pids \cup {None}
      BY <3>1 DEF Node
    <3>3. node[x].parent # None => node'[node[x].parent] # None
      BY <1>1, <1>3, <3>1, <3>2
    <3> QED BY <3>1, <3>3, Zenon
  <2>6. ASSUME NEW x \in Pids, node'[x] # None
        PROVE  /\ node'[x].refcount = Owed(proc'[x], node'[x])
               /\ node'[x].parent # None => node'[node'[x].parent] # None
    <3>1. CASE x = p
      BY <1>3, <2>3, <3>1, Zenon
    <3>2. CASE x = c
      BY <1>3, <2>4, <3>2, Zenon
    <3>3. CASE x \notin {p, c}
      BY <2>5, <2>6, <3>3, Zenon
    <3> QED BY <3>1, <3>2, <3>3, Zenon
  <2> QED BY <2>1, <2>6, Zenon DEF Balanced
<1>7. \A x \in Pids \ {c} : /\ node'[x] = None <=> node[x] = None
                            /\ node'[x] # None => Alike(node'[x], node[x])
  BY <1>1, <1>3 DEF Alike
<1>8. ProcInv'
  <2>1. proc'[p].state = "free" \/ (proc'[p].state = "running" /\ node'[p] # None /\ node'[p].initial = 2)
    BY <1>3, Zenon DEF Alike
  <2>2. proc'[c] = proc[c] /\ proc[c].state = "stopped" /\ proc[c].unread /\ proc[c].stop = "trap"
    BY <1>3, <1>4, Zenon
  <2> QED BY <1>1, <2>1, <2>2 DEF ProcInv, Parts
<1>9. ChildInv'
  <2>1. \A x \in Nodes \ {p} : node[x].parent # None => node[x].parent \in Nodes \ {c}
    <3>1. ChildInv
      BY <1>1, Zenon DEF Parts
    <3> QED BY <3>1, Zenon DEF ChildInv, Nodes
  <2>2. \A x \in Pids \ {c} : x \in Nodes' <=> x \in Nodes
    BY <1>7, Zenon DEF Nodes
  <2> QED BY <1>1, <1>3, <1>7, <2>1, <2>2 DEF ChildInv, Nodes, Parts, Alike
<1>10. DetachInv'
  BY <1>1, <1>3, <1>4, <1>7 DEF DetachInv, Nodes, Parts, Alike
<1>11. ~Unknown(c)' /\ \A q \in Pids \ {p} : ForkStop(q)' <=> ForkStop(q)
  BY <1>1, <1>3 DEF Unknown, ForkStop
<1>12. (\A x \in Nodes : ~node[x].workload) => \A x \in Nodes' : ~node'[x].workload
  BY <1>1, <1>3, <1>7 DEF Nodes, Alike
<1>13. ForkInv' /\ OrphanInv'
  BY <1>4, <1>11, <1>12, StepForked, Zenon
<1> QED BY <1>6, <1>8, <1>9, <1>10, <1>13, AroundParts, Zenon

\* The outcome of a FORK stop of p that is the second stop seen of its child c.
Joined(p, c) ==
    \/ node[p].detach /\ proc'[p].state = "free" /\ node'[p] = Less(node[p]) /\ Ended(c)
    \/ /\ ~node[p].detach /\ proc'[p].state = "running" /\ node'[p] = node[p]
       /\ Started(c) /\ node'[c].workload = node[p].workload

\* __fork() of a child whose own stop was read: both are detached, or both go on.
LEMMA StepJoined ==
    ASSUME NEW p \in Pids, NEW c \in Pids, Around({p, c}), ForkStop(p), proc[p].child = c,
           node[c] # None,
           Joined(p, c)
    PROVE  PtraceInv'
<1>1. /\ \A x \in Pids \ {p, c} : proc'[x] = proc[x] /\ node'[x] = node[x]
      /\ \A x \in Pids : node[x] # None => node[x] \in Node
      /\ Parts /\ Balanced(proc, node) /\ None \notin Pids
  BY AroundParts, Zenon
<1>2. Told(p, c) /\ Place(p) /\ Place(c)
  BY ForkTold, Placed, Zenon DEF Around
<1>3. /\ c # p /\ node[p] # None /\ node[p].initial = 2 /\ node[p].parent = None
      /\ node[p].detach => ~node[p].workload
      /\ node[c].initial = 1 /\ node[c].parent = None
  BY <1>2, Zenon DEF Told, Expected
<1>4. node[c].children = {} /\ proc[p].state = "stopped" /\ proc'[p].state \in {"running", "free"}
  BY <1>2, <1>3 DEF Place, ForkStop, Joined
<1>5. node[p] \in Node /\ node[p].refcount = Owed(proc[p], node[p]) /\ ListsRight(node)
  BY <1>1, <1>3, Zenon DEF Balanced
<1>6. \/ node'[p] = None /\ node[p].children = {} /\ proc'[p].state = "free"
      \/ /\ Alike(node'[p], node[p]) /\ node'[p].children = node[p].children
         /\ node'[p].refcount = Owed(proc'[p], node'[p])
  <2>1. CASE proc'[p].state = "running"
    <3>1. node'[p] = node[p] /\ proc[p].state = "stopped"
      BY <1>4, <2>1 DEF Joined
    <3>2. Owed(proc'[p], node'[p]) = Owed(proc[p], node[p])
      BY <2>1, <3>1 DEF Owed
    <3> QED BY <1>3, <1>5, <3>1, <3>2, Zenon DEF Alike
  <2>2. CASE proc'[p].state = "free" /\ node[p].refcount = 1
    <3>1. node[p].children = {}
      BY <1>2, <1>3, <1>4, <2>2 DEF Place
    <3>2. node'[p] = Less(node[p])
      BY <2>2 DEF Joined
    <3> QED BY <1>5, <2>2, <3>1, <3>2, LessNode, Zenon
  <2>3. CASE proc'[p].state = "free" /\ node[p].refcount # 1
    <3>1. node'[p] = Less(node[p])
      BY <2>3 DEF Joined
    <3>2. /\ Alike(node'[p], node[p]) /\ node'[p].children = node[p].children
          /\ node'[p].refcount = node[p].refcount - 1
      BY <1>5, <2>3, <3>1, LessNode, Zenon
    <3>3. Cardinality(node[p].children) \in Nat
      BY <1>5, ChildrenCount, Zenon
    <3>4. node'[p].refcount = Owed(proc'[p], node'[p])
      BY <1>4, <1>5, <2>3, <3>2, <3>3 DEF Owed
    <3> QED BY <3>2, <3>4, Zenon
  <2> QED BY <1>4, <2>1, <2>2, <2>3, Zenon
<1>7. \/ proc'[p].state = "free" /\ Ended(c)
      \/ ~node[p].detach /\ proc'[p].state = "running" /\ node'[p] = node[p] /\ Started(c)
  BY Zenon DEF Joined
<1>8. node'[c] # None => /\ node'[c].parent = None /\ node'[c].children = {}
                         /\ Started(c) /\ node'[c].workload = node[p].workload
  BY Zenon DEF Joined, Ended, Started
<1>9. ListsRight(node')
  <2> SUFFICES ASSUME NEW x \in Pids, node'[x] # None, NEW y \in Pids
               PROVE  y \in node'[x].children <=> node'[y] # None /\ node'[y].parent = x
    BY Zenon DEF ListsRight
  <2>1. node[x] # None => (y \in node[x].children <=> node[y] # None /\ node[y].parent = x)
    BY <1>5, Zenon DEF ListsRight
  <2>2. node[c] # None => (y \in node[c].children <=> node[y] # None /\ node[y].parent = c)
    BY <1>5, Zenon DEF ListsRight
  <2>3. node'[p] # None => node'[p].parent = None /\ node'[p].children = node[p].children
    BY <1>3, <1>6, Zenon DEF Alike
  <2>4. CASE x = c
    BY <1>1, <1>3, <1>4, <1>8, <2>2, <2>3, <2>4
  <2>5. CASE x = p
    BY <1>1, <1>3, <1>8, <2>1, <2>3, <2>5
  <2>6. CASE x \notin {p, c}
    BY <1>1, <1>3, <1>8, <2>1, <2>3, <2>6
  <2> QED BY <2>4, <2>5, <2>6, Zenon
<1>10. ASSUME NEW x \in Pids \ {p, c}, node'[x] # None
       PROVE  /\ node'[x] = node[x] /\ proc'[x] = proc[x] /\ node[x] \in Node
              /\ node[x].refcount = Owed(proc[x], node[x])
              /\ node[x].parent # None => node[x].parent \in Pids \ {c} /\ node'[node[x].parent] # None
  <2>1. /\ node'[x] = node[x] /\ proc'[x] = proc[x] /\ node[x] \in Node
        /\ node[x].refcount = Owed(proc[x], node[x])
        /\ node[x].parent # None => node[node[x].parent] # None
    BY <1>1, <1>10, Zenon DEF Balanced
  <2>2. node[x].parent \in Pids \cup {None}
    BY <2>1 DEF Node
  <2>3. node[x].parent # c /\ (node[x].parent = p => node'[p] # None)
    BY <1>3, <1>4, <1>5, <1>6, <1>10, <2>1 DEF ListsRight, Alike
  <2> QED BY <1>1, <2>1, <2>2, <2>3, Zenon
<1>11. Balanced(proc', node')
  <2>1. Cardinality({}) = 0
    BY FS_EmptySet, Zenon
  <2>2. ASSUME NEW x \in Pids, node'[x] # None
        PROVE  /\ node'[x].refcount = Owed(proc'[x], node'[x])
               /\ node'[x].parent # None => node'[node'[x].parent] # None
    <3>1. CASE x = p
      BY <1>3, <1>6, <2>2, <3>1, Zenon DEF Alike
    <3>2. CASE x = c
      BY <1>8, <2>1, <2>2, <3>2 DEF Owed, Started
    <3>3. CASE x \notin {p, c}
      BY <1>10, <2>2, <3>3, Zenon
    <3> QED BY <3>1, <3>2, <3>3, Zenon
  <2> QED BY <1>9, <2>2, Zenon DEF Balanced
<1>12. ProcInv'
  <2>1. proc'[p].state = "running" => node'[p] # None /\ node'[p].initial = 2
    BY <1>3, <1>7
  <2>2. \/ proc'[c].state \in {"gone", "free"}
        \/ proc'[c].state = "running" /\ node'[c] # None /\ node'[c].initial = 2
    BY <1>7, Zenon DEF Ended, Started
  <2>3. proc'[p].state \in {"running", "free"}
    BY <1>4, Zenon
  <2> QED BY <1>1, <2>1, <2>2, <2>3 DEF ProcInv, Parts
<1>13. ChildInv'
  <2>1. \A x \in Pids \ {p, c} : node[x].parent # None /\ node[x] # None => node[x].parent \in Pids \ {c}
    BY <1>1, <1>10, Zenon
  <2>2. node'[c] # None => node'[c].initial = 2 /\ node'[c].parent = None
    BY <1>8, Zenon DEF Started
  <2>3. node'[p] # None => node'[p].initial = 2 /\ node'[p].parent = None
                           /\ node'[p].detach = node[p].detach /\ node'[p].workload = node[p].workload
    <3>1. node'[p] # None => Alike(node'[p], node[p])
      BY <1>6, Zenon
    <3> QED BY <1>3, <3>1, Zenon DEF Alike
  <2> QED BY <1>1, <1>3, <1>10, <2>1, <2>2, <2>3 DEF ChildInv, Nodes, Parts
<1>14. DetachInv'
  <2> DEFINE Fine(x) == /\ node'[x].initial = 2 => node'[x].devs # {} \/ node'[x].detach
                        /\ node'[x].detach /\ node'[x].workload => proc'[x].state \in {"zombie", "gone"}
                        /\ proc'[x].state = "free" => node'[x].detach
                        /\ node'[x].detach /\ proc'[x].state = "running" => proc'[x].pend
                        /\ node'[x].detach /\ proc'[x].state = "stopped" /\ proc'[x].stop = "signal" =>
                               proc'[x].pend
  <2>1. \A x \in Pids \ {p, c} : node'[x] # None => Fine(x)
    BY <1>1, Zenon DEF DetachInv, Nodes, Parts
  <2>2. node'[p] # None => Fine(p)
    <3>1. CASE proc'[p].state = "free"
      BY <1>3, <1>6, <3>1 DEF Joined, Alike
    <3>2. CASE proc'[p].state = "running"
      <4>1. node'[p] = node[p] /\ ~node[p].detach
        BY <3>2 DEF Joined
      <4>2. node[p].devs # {}
        BY <1>1, <1>3, <4>1 DEF DetachInv, Nodes, Parts
      <4> QED BY <3>2, <4>1, <4>2
    <3> QED BY <1>4, <3>1, <3>2
  <2>3. node'[c] # None => Fine(c)
    BY <1>8 DEF Started
  <2> QED BY <2>1, <2>2, <2>3, Zenon DEF DetachInv, Nodes
<1>15. ~Unknown(c)' /\ \A q \in Pids \ {p} : ForkStop(q)' <=> ForkStop(q)
  <2>1. proc'[c].state # "stopped" /\ ~ForkStop(c)
    BY <1>1, <1>3, <1>7 DEF Ended, Started, ForkStop, ProcInv, Parts
  <2> QED BY <1>1, <2>1 DEF Unknown, ForkStop
<1>16. (\A x \in Nodes : ~node[x].workload) => \A x \in Nodes' : ~node'[x].workload
  BY <1>1, <1>3, <1>6, <1>8 DEF Nodes, Alike
<1>17. ForkInv' /\ OrphanInv'
  BY <1>4, <1>15, <1>16, StepForked, Zenon
<1> QED BY <1>11, <1>12, <1>13, <1>14, <1>17, AroundParts, Zenon

-----------------------------------------------------------------------------
(* Stops and forks.                                                        *)

\* A traced process stops, or dies.
LEMMA StepStops ==
    ASSUME NEW p \in Pids, Around({p}), node' = node,
           proc[p].state \in {"running", "listening"},
           \/ proc'[p].state = "zombie"
           \/ /\ proc'[p].state = "stopped" /\ proc'[p].unread
              /\ proc'[p].stop \in {"trap", "signal", "group"},
           proc'[p].stop = "signal" /\ node[p].detach => proc'[p].state = "zombie"
    PROVE  PtraceInv'
<1>1. /\ \A x \in Pids \ {p} : proc'[x] = proc[x]
      /\ Parts /\ Balanced(proc, node)
  BY AroundParts, Zenon
<1>2. node[p] # None /\ node[p].initial = 2
  BY <1>1 DEF Parts, ProcInv
<1>3. Nodes' = Nodes
  BY Zenon DEF Nodes
<1>4. Balanced(proc', node')
  <2>1. \A x \in Pids : proc'[x].state \in {"gone", "free"} <=> proc[x].state \in {"gone", "free"}
    BY <1>1
  <2> QED BY <1>1, <2>1 DEF Balanced, Owed
<1>5. ProcInv'
  BY <1>1, <1>2 DEF ProcInv, Parts
<1>6. ChildInv'
  <2>1. node[p].parent = None
    BY <1>1, <1>2 DEF ChildInv, Nodes, Parts
  <2> QED BY <1>1, <1>2, <1>3, <2>1 DEF ChildInv, Nodes, Parts
<1>7. DetachInv'
  BY <1>1, <1>2, <1>3 DEF DetachInv, Nodes, Parts
<1>8. \A x \in Pids : /\ ForkStop(x)' => ForkStop(x)
                      /\ ForkStop(x) => SameFork(x)
                      /\ Unknown(x)' <=> Unknown(x)
  BY <1>1, <1>2 DEF ForkStop, SameFork, Unknown
<1>9. ForkInv'
  <2>1. ASSUME NEW x \in Pids, NEW c \in Pids, ForkStop(x), proc[x].child = c PROVE Expected(c)'
    <3>1. Expected(c)
      BY <1>1, <2>1, Zenon DEF ForkInv, Parts
    <3> QED BY <1>8, <3>1 DEF Expected
  <2> QED BY <1>1, <1>8, <2>1, ForkKept, Zenon DEF Parts
<1>10. OrphanInv'
  BY <1>1, <1>3, <1>8, OrphanKept, Zenon DEF Parts
<1> QED BY <1>4, <1>5, <1>6, <1>7, <1>9, <1>10, AroundParts, Zenon

\* A traced process forks.
LEMMA StepForks ==
    ASSUME NEW p \in Pids, NEW c \in Pids, Around({p, c}), node' = node,
           proc[p].state = "running", proc[c].state = "none",
           proc'[p].state = "stopped", proc'[p].unread, proc'[p].stop = "fork", proc'[p].child = c,
           proc'[c].state = "stopped", proc'[c].unread, proc'[c].stop = "trap"
    PROVE  PtraceInv'
<1>1. /\ \A x \in Pids \ {p, c} : proc'[x] = proc[x]
      /\ Parts /\ Balanced(proc, node) /\ p # c
  <2>1. p # c
    OBVIOUS
  <2> QED BY <2>1, AroundParts, Zenon
<1>2. node[p] # None /\ node[p].initial = 2 /\ node[c] = None
  BY <1>1 DEF Parts, ProcInv
<1>3. Nodes' = Nodes
  BY Zenon DEF Nodes
<1>4. Balanced(proc', node')
  <2>1. \A x \in Pids : proc'[x].state \in {"gone", "free"} <=> proc[x].state \in {"gone", "free"}
    BY <1>1
  <2> QED BY <1>1, <2>1 DEF Balanced, Owed
<1>5. ProcInv'
  BY <1>1, <1>2 DEF ProcInv, Parts
<1>6. ChildInv'
  <2>1. node[p].parent = None
    BY <1>1, <1>2 DEF ChildInv, Nodes, Parts
  <2> QED BY <1>1, <1>2, <1>3, <2>1 DEF ChildInv, Nodes, Parts
<1>7. DetachInv'
  BY <1>1, <1>2, <1>3 DEF DetachInv, Nodes, Parts
<1>8. /\ ~ForkStop(p) /\ ~ForkStop(c) /\ ~Unknown(p) /\ ~Unknown(c)
      /\ ForkStop(p)' /\ ~ForkStop(c)' /\ Unknown(c)' /\ ~Unknown(p)'
      /\ \A x \in Pids \ {p, c} : ForkStop(x)' = ForkStop(x) /\ Unknown(x)' = Unknown(x)
  BY <1>1, <1>2 DEF ForkStop, Unknown
<1>9. \A x \in Pids : ForkStop(x) => proc[x].child # c
  <2> SUFFICES ASSUME NEW x \in Pids, ForkStop(x) PROVE proc[x].child # c
    BY Zenon
  <2>1. Expected(proc[x].child)
    BY <1>1, Zenon DEF Parts, ForkInv
  <2> QED BY <1>2, <1>8, <2>1 DEF Expected
<1>10. ForkInv'
  <2> SUFFICES ASSUME NEW x \in Pids, ForkStop(x)'
               PROVE  /\ proc'[x].child \in Pids
                      /\ Expected(proc[x].child)'
                      /\ \A q \in Pids : ForkStop(q)' /\ proc'[q].child = proc'[x].child => q = x
    BY Zenon DEF ForkInv
  <2>1. CASE x = p
    BY <1>1, <1>2, <1>8, <1>9, <2>1 DEF Expected
  <2>2. CASE x # p
    <3>1. ForkStop(x) /\ x # c /\ proc'[x] = proc[x]
      BY <1>1, <1>8, <2>2
    <3>2. /\ proc[x].child \in Pids /\ Expected(proc[x].child) /\ proc[x].child # c
          /\ \A q \in Pids : ForkStop(q) /\ proc[q].child = proc[x].child => q = x
      BY <1>1, <1>9, <3>1, Zenon DEF Parts, ForkInv
    <3>3. Expected(proc[x].child)'
      BY <1>1, <1>2, <1>8, <3>1, <3>2 DEF Expected
    <3>4. \A q \in Pids : ForkStop(q)' /\ proc'[q].child = proc'[x].child => q = x
      BY <1>1, <1>8, <3>1, <3>2
    <3> QED BY <3>1, <3>2, <3>3, <3>4, Zenon
  <2> QED BY <2>1, <2>2, Zenon
<1>11. OrphanInv'
  <2>1. Workloads \subseteq {FALSE} => \A x \in Nodes' : ~node'[x].workload
    BY <1>1, <1>3, Zenon DEF Parts, OrphanInv
  <2>2. ASSUME Workloads \subseteq {FALSE}, NEW y \in Pids, Unknown(y)'
        PROVE  \E q \in Pids : ForkStop(q)' /\ proc'[q].child = y
    <3>1. CASE y = c
      BY <1>8, <3>1, Zenon
    <3>2. CASE y # c
      <4>1. Unknown(y)
        BY <1>8, <2>2, <3>2, Zenon
      <4>2. PICK q \in Pids : ForkStop(q) /\ proc[q].child = y
        BY <1>1, <2>2, <4>1, Zenon DEF Parts, OrphanInv
      <4> QED BY <1>1, <1>8, <4>2
    <3> QED BY <3>1, <3>2, Zenon
  <2> QED BY <2>1, <2>2, Zenon DEF OrphanInv
<1> QED BY <1>4, <1>5, <1>6, <1>7, <1>10, <1>11, AroundParts, Zenon

\* ptrace_detach(): the processes of L lose their last device, those of I are their new
\* children.
Last(L, D) == \A x \in Pids : x \in L <=> /\ node[x] # None
                                          /\ node[x].devs # {} /\ node[x].devs \subseteq D
                                          /\ ~node[x].detach
Initials(L, I) == \A x \in Pids : x \in I <=> \E q \in Pids : q \in L /\ x \in node[q].children

\* The node of x afterwards.
Cut(x, L, I, D) ==
    /\ node[x] = None <=> node'[x] = None
    /\ node[x] # None =>
           /\ node'[x].initial = node[x].initial /\ node'[x].workload = node[x].workload
           /\ node'[x].refcount = node[x].refcount /\ node'[x].parent = node[x].parent
           /\ node'[x].children = node[x].children
           /\ node'[x].devs = node[x].devs \ D
           /\ node'[x].detach <=> node[x].detach \/ x \in L \/ x \in I

\* The process x afterwards: untouched, killed or interrupted.
Struck(x, L, I) ==
    \/ x \notin L /\ (x \notin I \/ ~node[x].workload) /\ proc'[x] = proc[x]
    \/ /\ x \in L \/ x \in I
       /\ node[x].workload
       /\ proc[x].state \in {"running", "stopped", "listening"} /\ proc'[x].state = "zombie"
    \/ /\ x \in L \/ x \in I
       /\ node[x].workload
       /\ proc[x].state \notin {"running", "stopped", "listening"} /\ proc'[x] = proc[x]
    \/ /\ x \in L /\ ~node[x].workload
       /\ proc[x].state \in {"running", "stopped"} /\ proc'[x].pend
       /\ proc'[x].state = proc[x].state /\ proc'[x].stop = proc[x].stop
       /\ proc'[x].unread = proc[x].unread /\ proc'[x].child = proc[x].child
    \/ /\ x \in L /\ ~node[x].workload
       /\ proc[x].state = "listening"
       /\ proc'[x].state = "stopped" /\ proc'[x].stop = "group" /\ proc'[x].unread
    \/ /\ x \in L /\ ~node[x].workload
       /\ proc[x].state \notin {"running", "stopped", "listening"} /\ proc'[x] = proc[x]

\* ptrace_detach(): the devices D are closed.
LEMMA StepDetach ==
    ASSUME NEW D, NEW L, NEW I, Around(Pids), Last(L, D), Initials(L, I),
           \A x \in Pids : Cut(x, L, I, D) /\ Struck(x, L, I)
    PROVE  PtraceInv'
<1>1. /\ \A x \in Pids : node[x] # None => node[x] \in Node
      /\ Parts /\ Balanced(proc, node) /\ ListsRight(node) /\ None \notin Pids
  BY AroundParts, Zenon DEF Balanced
<1>2. \A x \in Pids : x \in L => x \in Nodes /\ node[x].initial = 2 /\ node[x].parent = None
  <2> SUFFICES ASSUME NEW x \in Pids, x \in L
               PROVE  x \in Nodes /\ node[x].initial = 2 /\ node[x].parent = None
    BY Zenon
  <2>1. node[x] # None /\ node[x].devs # {}
    BY Zenon DEF Last
  <2> QED BY <1>1, <2>1 DEF Parts, ChildInv, Nodes
<1>3. \A x \in Pids : x \in I <=> x \in Nodes /\ node[x].parent \in Pids /\ node[x].parent \in L
  <2> SUFFICES ASSUME NEW x \in Pids
               PROVE  x \in I <=> x \in Nodes /\ node[x].parent \in Pids /\ node[x].parent \in L
    BY Zenon
  <2>1. \A q \in Pids : q \in L => (x \in node[q].children <=> node[x] # None /\ node[x].parent = q)
    BY <1>1, <1>2, Zenon DEF ListsRight, Nodes
  <2> QED BY <2>1, Zenon DEF Initials, Nodes
<1>4. Nodes' = Nodes
  BY Zenon DEF Nodes, Cut
<1>5. \A x \in Pids : x \in I => /\ node[x] # None /\ node[x].initial = 1 /\ x \notin L
                                 /\ \/ proc[x].state = "zombie"
                                    \/ proc[x].state = "stopped" /\ proc[x].unread /\ proc[x].stop = "trap"
  <2> SUFFICES ASSUME NEW x \in Pids, x \in I
               PROVE  /\ node[x] # None /\ node[x].initial = 1 /\ x \notin L
                      /\ \/ proc[x].state = "zombie"
                         \/ proc[x].state = "stopped" /\ proc[x].unread /\ proc[x].stop = "trap"
    BY Zenon
  <2>1. node[x] # None /\ node[x].parent # None
    BY <1>1, <1>3, Zenon DEF Nodes
  <2> QED BY <1>1, <1>2, <2>1 DEF Parts, ChildInv, Nodes
<1>6. Balanced(proc', node')
  <2>1. ASSUME NEW x \in Pids
        PROVE  proc'[x].state \in {"gone", "free"} <=> proc[x].state \in {"gone", "free"}
    <3>1. Struck(x, L, I)
      BY Zenon
    <3> QED BY <3>1 DEF Struck
  <2>2. ListsRight(node')
    <3> SUFFICES ASSUME NEW x \in Pids, node'[x] # None, NEW y \in Pids
                 PROVE  y \in node'[x].children <=> node'[y] # None /\ node'[y].parent = x
      BY Zenon DEF ListsRight
    <3>1. node[x] # None /\ node'[x].children = node[x].children
      BY Zenon DEF Cut
    <3>2. y \in node[x].children <=> node[y] # None /\ node[y].parent = x
      BY <1>1, <3>1, Zenon DEF ListsRight
    <3>3. node'[y] # None /\ node'[y].parent = x <=> node[y] # None /\ node[y].parent = x
      BY Zenon DEF Cut
    <3> QED BY <3>1, <3>2, <3>3, Zenon
  <2>3. ASSUME NEW x \in Pids, node'[x] # None
        PROVE  /\ node'[x].refcount = Owed(proc'[x], node'[x])
               /\ node'[x].parent # None => node'[node'[x].parent] # None
    <3>1. /\ node[x] # None /\ node'[x].refcount = node[x].refcount
          /\ node'[x].parent = node[x].parent /\ node'[x].children = node[x].children
      BY <2>3, Zenon DEF Cut
    <3>2. /\ node[x] \in Node /\ node[x].refcount = Owed(proc[x], node[x])
          /\ node[x].parent # None => node[node[x].parent] # None
      BY <1>1, <3>1, Zenon DEF Balanced
    <3>3. node[x].parent \in Pids \cup {None}
      BY <3>2 DEF Node
    <3>4. Owed(proc'[x], node'[x]) = Owed(proc[x], node[x])
      <4>1. proc'[x].state \in {"gone", "free"} <=> proc[x].state \in {"gone", "free"}
        BY <2>1, Zenon
      <4> QED BY <3>1, <4>1 DEF Owed
    <3> QED BY <3>1, <3>2, <3>3, <3>4, Zenon DEF Cut
  <2> QED BY <2>2, <2>3, Zenon DEF Balanced
<1>7. ProcInv'
  <2> SUFFICES ASSUME NEW x \in Pids
               PROVE  /\ proc'[x].state = "none" => node'[x] = None
                      /\ proc'[x].state = "zombie" => node'[x] # None
                      /\ proc'[x].state \in {"running", "listening"} => node'[x] # None /\ node'[x].initial = 2
                      /\ proc'[x].state = "stopped" =>
                           /\ proc'[x].stop \in {"fork", "trap", "signal", "group"}
                           /\ proc'[x].stop # "trap" => node'[x] # None /\ node'[x].initial = 2 /\ proc'[x].unread
                           /\ ~proc'[x].unread => node'[x] # None /\ node'[x].initial = 1
    BY Zenon DEF ProcInv
  <2>1. Cut(x, L, I, D) /\ Struck(x, L, I)
    BY Zenon
  <2>2. (x \in L => node[x] # None /\ node[x].initial = 2) /\ (x \in I => node[x] # None)
    BY <1>2, <1>5, Zenon DEF Nodes
  <2>3. /\ proc[x].state = "none" => node[x] = None
        /\ proc[x].state = "zombie" => node[x] # None
        /\ proc[x].state \in {"running", "listening"} => node[x] # None /\ node[x].initial = 2
        /\ proc[x].state = "stopped" =>
             /\ proc[x].stop \in {"fork", "trap", "signal", "group"}
             /\ proc[x].stop # "trap" => node[x] # None /\ node[x].initial = 2 /\ proc[x].unread
             /\ ~proc[x].unread => node[x] # None /\ node[x].initial = 1
    BY <1>1, Zenon DEF Parts, ProcInv
  <2> QED BY <2>1, <2>2, <2>3 DEF Cut, Struck
<1>8. ASSUME NEW x \in Pids, node'[x] # None
      PROVE  /\ node[x] # None /\ Cut(x, L, I, D) /\ Struck(x, L, I)
             /\ node'[x].initial = node[x].initial /\ node'[x].parent = node[x].parent
             /\ node'[x].workload = node[x].workload
             /\ node'[x].detach <=> node[x].detach \/ x \in L \/ x \in I
             /\ node'[x].devs = node[x].devs \ D
  BY <1>8, Zenon DEF Cut
<1>9. ChildInv'
  <2>1. ASSUME NEW x \in Pids, node'[x] # None, node'[x].initial = 1, node'[x].parent = None
        PROVE  /\ proc'[x].state = "stopped" /\ ~proc'[x].unread /\ proc'[x].stop = "trap"
               /\ ~node'[x].detach /\ ~node'[x].workload
    <3>1. /\ x \in Nodes /\ node[x].initial = 1 /\ node[x].parent = None /\ Struck(x, L, I)
          /\ node'[x].workload = node[x].workload
          /\ node'[x].detach <=> node[x].detach \/ x \in L \/ x \in I
      BY <1>8, <2>1, Zenon DEF Nodes
    <3>2. x \notin L
      <4>1. 1 # 2
        OBVIOUS
      <4> QED BY <1>2, <3>1, <4>1, Zenon
    <3>3. x \notin I
      BY <1>1, <1>3, <3>1, Zenon
    <3>4. proc'[x] = proc[x]
      BY <3>1, <3>2, <3>3, Zenon DEF Struck
    <3>5. /\ proc[x].state = "stopped" /\ ~proc[x].unread /\ proc[x].stop = "trap"
          /\ ~node[x].detach /\ ~node[x].workload
      <4>1. ChildInv
        BY <1>1, Zenon DEF Parts
      <4> QED BY <3>1, <4>1, Zenon DEF ChildInv
    <3> QED BY <3>1, <3>2, <3>3, <3>4, <3>5, Zenon
  <2>2. ASSUME NEW x \in Pids, node'[x] # None, node'[x].parent # None
        PROVE  /\ node'[x].initial = 1
               /\ \/ proc'[x].state = "zombie"
                  \/ proc'[x].state = "stopped" /\ proc'[x].unread /\ proc'[x].stop = "trap"
               /\ node'[x].parent \in Nodes'
               /\ node'[node'[x].parent].initial = 2
               /\ node'[node'[x].parent].detach = node'[x].detach
               /\ node'[node'[x].parent].workload = node'[x].workload
    <3>1. PICK q \in Pids : q = node[x].parent /\ q \in Nodes
      BY <1>1, <1>8, <2>2, Zenon DEF Parts, ChildInv, Nodes
    <3>2. /\ node[x].initial = 1
          /\ \/ proc[x].state = "zombie"
             \/ proc[x].state = "stopped" /\ proc[x].unread /\ proc[x].stop = "trap"
          /\ node[q].initial = 2 /\ node[q].detach = node[x].detach /\ node[q].workload = node[x].workload
      <4>1. x \in Nodes /\ node[x].parent = q /\ q # None
        BY <1>1, <1>8, <2>2, <3>1, Zenon DEF Nodes
      <4>2. ChildInv
        BY <1>1, Zenon DEF Parts
      <4> QED BY <4>1, <4>2, Zenon DEF ChildInv
    <3>3. x \notin L /\ q \notin I /\ (x \in I <=> q \in L) /\ node'[q] # None
      <4>1. x \in Nodes /\ node[x].parent = q /\ node'[q] # None
        BY <1>4, <1>8, <2>2, <3>1, Zenon DEF Nodes
      <4>2. x \notin L /\ q \notin I
        BY <1>2, <1>5, <3>2
      <4> QED BY <1>3, <4>1, <4>2, Zenon
    <3>4. \/ proc'[x].state = "zombie"
          \/ proc'[x].state = "stopped" /\ proc'[x].unread /\ proc'[x].stop = "trap"
      BY <1>8, <2>2, <3>2, <3>3 DEF Struck
    <3>5. node'[q].detach <=> node'[x].detach
      BY <1>8, <2>2, <3>2, <3>3, Zenon
    <3>6. node'[q].detach = node'[x].detach
      <4>1. node'[q].detach \in BOOLEAN /\ node'[x].detach \in BOOLEAN
        BY <2>2, <3>3, AroundParts, Zenon DEF Node
      <4> QED BY <3>5, <4>1, Zenon
    <3>7. node'[q].initial = 2 /\ node'[q].workload = node'[x].workload /\ node'[x].parent = q
      BY <1>8, <2>2, <3>1, <3>2, <3>3, Zenon
    <3> QED BY <1>8, <2>2, <3>1, <3>2, <3>3, <3>4, <3>6, <3>7, Zenon DEF Nodes
  <2>3. ASSUME NEW x \in Pids, node'[x] # None
        PROVE  node'[x].initial \in {1, 2} /\ (node'[x].initial = 1 => node'[x].devs = {})
    <3>1. node[x].initial \in {1, 2} /\ (node[x].initial = 1 => node[x].devs = {})
      BY <1>1, <1>8, <2>3, Zenon DEF Parts, ChildInv, Nodes
    <3> QED BY <1>8, <2>3, <3>1
  <2> QED BY <2>1, <2>2, <2>3, Zenon DEF ChildInv, Nodes
<1>10. DetachInv'
  <2> SUFFICES ASSUME NEW x \in Pids, node'[x] # None
               PROVE  /\ node'[x].initial = 2 => node'[x].devs # {} \/ node'[x].detach
                      /\ node'[x].detach /\ node'[x].workload => proc'[x].state \in {"zombie", "gone"}
                      /\ proc'[x].state = "free" => node'[x].detach
                      /\ node'[x].detach /\ proc'[x].state = "running" => proc'[x].pend
                      /\ node'[x].detach /\ proc'[x].state = "stopped" /\ proc'[x].stop = "signal" => proc'[x].pend
    BY Zenon DEF DetachInv, Nodes
  <2>1. /\ node[x].initial = 2 => node[x].devs # {} \/ node[x].detach
        /\ node[x].detach /\ node[x].workload => proc[x].state \in {"zombie", "gone"}
        /\ proc[x].state = "free" => node[x].detach
        /\ node[x].detach /\ proc[x].state = "running" => proc[x].pend
        /\ node[x].detach /\ proc[x].state = "stopped" /\ proc[x].stop = "signal" => proc[x].pend
    BY <1>1, <1>8, Zenon DEF Parts, DetachInv, Nodes
  <2>2. node'[x].initial = 2 => node'[x].devs # {} \/ node'[x].detach
    <3>1. x \in L <=> node[x].devs # {} /\ node[x].devs \subseteq D /\ ~node[x].detach
      BY <1>8, Zenon DEF Last
    <3> QED BY <1>8, <2>1, <3>1
  <2>3. ASSUME node'[x].detach, node'[x].workload PROVE proc'[x].state \in {"zombie", "gone"}
    <3>1. Struck(x, L, I) /\ node[x].workload
      BY <1>8, <2>3, Zenon
    <3>2. CASE node[x].detach
      BY <2>1, <3>1, <3>2 DEF Struck
    <3>3. CASE ~node[x].detach /\ (x \in L \/ x \in I)
      <4>1. proc[x].state # "free" /\ proc[x].state # "none"
        BY <1>1, <1>8, <2>1, <3>3 DEF Parts, ProcInv
      <4>2. proc[x].state \in {"none", "running", "stopped", "listening", "zombie", "gone", "free"}
        BY Zenon DEF Around, PtraceInv, TypeOK, Proc
      <4> QED BY <3>1, <3>3, <4>1, <4>2 DEF Struck
    <3> QED BY <1>8, <2>3, <3>2, <3>3, Zenon
  <2>4. proc'[x].state = "free" => node'[x].detach
    BY <1>8, <2>1 DEF Struck
  <2>5. /\ node'[x].detach /\ proc'[x].state = "running" => proc'[x].pend
        /\ node'[x].detach /\ proc'[x].state = "stopped" /\ proc'[x].stop = "signal" => proc'[x].pend
    BY <1>5, <1>8, <2>1 DEF Struck
  <2> QED BY <2>2, <2>3, <2>4, <2>5, Zenon
<1>11. ASSUME NEW x \in Pids, node[x] = None \/ ForkStop(x)' \/ Unknown(x)'
       PROVE  /\ node[x] = None => proc'[x] = proc[x] /\ node'[x] = None
              /\ ForkStop(x)' => ForkStop(x) /\ SameFork(x)
              /\ Unknown(x)' => Unknown(x)
  <2>1. Cut(x, L, I, D) /\ Struck(x, L, I)
    BY Zenon
  <2>2. node[x] = None => x \notin L /\ x \notin I
    BY <1>2, <1>5, Zenon DEF Nodes
  <2> QED BY <2>1, <2>2 DEF Cut, Struck, ForkStop, Unknown, SameFork
<1>12. ForkInv'
  <2>1. ASSUME NEW x \in Pids, NEW c \in Pids, ForkStop(x), proc[x].child = c PROVE Expected(c)'
    <3>1. Expected(c)
      BY <1>1, <2>1, Zenon DEF ForkInv, Parts
    <3>2. CASE node[c] = None
      BY <1>11, <3>1, <3>2 DEF Expected, Unknown
    <3>3. CASE node[c] # None
      <4>1. node'[c] # None
        BY <3>3, Zenon DEF Cut
      <4> QED BY <1>8, <3>1, <3>3, <4>1, Zenon DEF Expected
    <3> QED BY <3>2, <3>3, Zenon
  <2> QED BY <1>1, <1>11, <2>1, ForkKept, Zenon DEF Parts
<1>13. OrphanInv'
  <2>1. ASSUME \A x \in Nodes : ~node[x].workload, NEW x \in Pids, ForkStop(x) PROVE SameFork(x)
    <3>1. node[x] # None
      BY <1>1, <2>1 DEF Parts, ProcInv, ForkStop
    <3>2. Struck(x, L, I) /\ ~node[x].workload
      BY <2>1, <3>1, Zenon DEF Nodes
    <3> QED BY <2>1, <3>2 DEF Struck, ForkStop, SameFork
  <2>2. (\A x \in Nodes : ~node[x].workload) => \A x \in Nodes' : ~node'[x].workload
    BY <1>4, <1>8, Zenon DEF Nodes
  <2> QED BY <1>1, <1>11, <2>1, <2>2, OrphanKept, Zenon DEF Parts
<1> QED BY <1>6, <1>7, <1>9, <1>10, <1>12, <1>13, AroundParts, Zenon

\* A step of the kernel changes one process.
LEMMA Reports ==
    ASSUME PtraceInv, NEW p \in Pids, NEW r \in Proc, proc' = [proc EXCEPT ![p] = r],
           UNCHANGED <<node, bug, closing>>
    PROVE  Around({p}) /\ node' = node /\ proc'[p] = r
<1>1. proc \in [Pids -> Proc] /\ TypeOK /\ NoBug /\ node' = node /\ bug' = bug /\ closing' = closing
  BY Zenon DEF PtraceInv, TypeOK
<1>2. proc' \in [Pids -> Proc] /\ proc'[p] = r /\ \A x \in Pids \ {p} : proc'[x] = proc[x]
  BY <1>1, Zenon
<1>3. TypeOK' /\ NoBug'
  BY <1>1, <1>2 DEF TypeOK, NoBug
<1> QED BY <1>1, <1>2, <1>3, Zenon DEF Around

\* What a report looks like.
LEMMA ReportFields ==
    ASSUME NEW o \in Proc, NEW why \in {"fork", "trap", "signal", "group"}
    PROVE  /\ Stopped(o, why) \in Proc
           /\ Stopped(o, why).state = "stopped" /\ Stopped(o, why).unread /\ Stopped(o, why).stop = why
           /\ Stopped(o, why).pend = o.pend
<1>1. PICK r : r = Stopped(o, why)
  BY Zenon
<1>2. why \in {None, "fork", "trap", "signal", "group"}
  OBVIOUS
<1>3. r = [o EXCEPT !.state = "stopped", !.stop = why, !.unread = TRUE]
  BY <1>1, Zenon DEF Stopped
<1>4. /\ r \in Proc /\ r.state = "stopped" /\ r.unread /\ r.stop = why /\ r.pend = o.pend
  BY <1>2, <1>3, Zenon DEF Proc
<1> QED BY <1>1, <1>4, Zenon

\* The stops that were asked for, the signals, the ends and the stops of job control.
LEMMA KernelKeeps ==
    ASSUME PtraceInv, NEW p \in Pids,
           Trap(p) \/ Signal(p) \/ Exit(p) \/ GroupStop(p) \/ Sigcont(p)
    PROVE  PtraceInv'
<1> DEFINE o == proc[p]
<1>1. o \in Proc
  BY Zenon DEF PtraceInv, TypeOK
<1>2. ASSUME o.state \in {"running", "listening"}, UNCHANGED <<node, bug, closing>>, NEW r \in Proc,
             proc' = [proc EXCEPT ![p] = r],
             \/ r.state = "zombie"
             \/ r.state = "stopped" /\ r.unread /\ r.stop \in {"trap", "signal", "group"},
             r.stop = "signal" /\ node[p].detach => r.state = "zombie"
      PROVE  PtraceInv'
  <2>1. Around({p}) /\ node' = node /\ proc'[p] = r
    BY <1>2, Reports, Zenon
  <2> QED BY <1>2, <2>1, StepStops
<1>3. ASSUME Trap(p) \/ Sigcont(p)
      PROVE  PtraceInv'
  <2>1. PICK r, z : z = Stopped(o, "trap") /\ r = [z EXCEPT !.pend = FALSE]
    BY Zenon
  <2>2. z \in Proc /\ z.state = "stopped" /\ z.unread /\ z.stop = "trap"
    BY <1>1, <2>1, ReportFields
  <2>3. r \in Proc /\ r.state = "stopped" /\ r.unread /\ r.stop = "trap"
    BY <2>1, <2>2, Zenon DEF Proc
  <2>4. /\ o.state \in {"running", "listening"} /\ UNCHANGED <<node, bug, closing>>
        /\ proc' = [proc EXCEPT ![p] = r]
    BY <1>3, <2>1 DEF Trap, Sigcont
  <2> QED BY <1>2, <2>3, <2>4, Zenon
<1>4. ASSUME Signal(p)
      PROVE  PtraceInv'
  <2>1. PICK r : r = Stopped(o, "signal")
    BY Zenon
  <2>2. r \in Proc /\ r.state = "stopped" /\ r.unread /\ r.stop = "signal"
    BY <1>1, <2>1, ReportFields
  <2>3. /\ o.state = "running" /\ ~o.pend /\ UNCHANGED <<node, bug, closing>>
        /\ proc' = [proc EXCEPT ![p] = r]
    BY <1>4, <2>1, Zenon DEF Signal
  <2>4. ~node[p].detach
    BY <2>3 DEF PtraceInv, ProcInv, DetachInv, Nodes
  <2> QED BY <1>2, <2>2, <2>3, <2>4, Zenon
<1>5. ASSUME GroupStop(p)
      PROVE  PtraceInv'
  <2>1. PICK r : r = Stopped(o, "group")
    BY Zenon
  <2>2. r \in Proc /\ r.state = "stopped" /\ r.unread /\ r.stop = "group"
    BY <1>1, <2>1, ReportFields
  <2>3. o.state = "running" /\ UNCHANGED <<node, bug, closing>> /\ proc' = [proc EXCEPT ![p] = r]
    BY <1>5, <2>1, Zenon DEF GroupStop
  <2> QED BY <1>2, <2>2, <2>3, Zenon
<1>6. ASSUME Exit(p)
      PROVE  PtraceInv'
  <2>1. PICK r : r = [o EXCEPT !.state = "zombie", !.unread = TRUE, !.pend = FALSE]
    BY Zenon
  <2>2. r \in Proc /\ r.state = "zombie"
    BY <1>1, <2>1, Zenon DEF Proc
  <2>3. o.state = "running" /\ UNCHANGED <<node, bug, closing>> /\ proc' = [proc EXCEPT ![p] = r]
    BY <1>6, <2>1 DEF Exit, Kill
  <2> QED BY <1>2, <2>2, <2>3, Zenon
<1> QED BY <1>3, <1>4, <1>5, <1>6, Zenon

\* A fork: the parent and its child stop.
LEMMA ForkKeeps ==
    ASSUME PtraceInv, NEW p \in Pids, NEW c \in Pids, Fork(p, c)
    PROVE  PtraceInv'
<1>1. PICK y, z, r, k : /\ y = Stopped(proc[p], "fork") /\ z = Stopped(proc[c], "trap")
                        /\ r = [y EXCEPT !.child = c, !.pend = FALSE]
                        /\ k = [z EXCEPT !.anc = proc[p].anc \cup {p}]
  BY Zenon
<1>2. proc \in [Pids -> Proc] /\ TypeOK /\ NoBug
  BY Zenon DEF PtraceInv, TypeOK
<1>3. /\ proc[p].state = "running" /\ proc[c].state = "none"
      /\ node' = node /\ bug' = bug /\ closing' = closing
  BY Zenon DEF Fork
<1>4. p # c
  BY <1>3
<1>5. proc' = [proc EXCEPT ![p] = r, ![c] = k]
  BY <1>1, <1>2, <1>4 DEF Fork
<1>6. r \in Proc /\ r.state = "stopped" /\ r.unread /\ r.stop = "fork" /\ r.child = c
  <2>1. y \in Proc /\ y.state = "stopped" /\ y.unread /\ y.stop = "fork"
    BY <1>1, <1>2, ReportFields
  <2> QED BY <1>1, <2>1, Zenon DEF Proc
<1>7. k \in Proc /\ k.state = "stopped" /\ k.unread /\ k.stop = "trap"
  <2>1. z \in Proc /\ z.state = "stopped" /\ z.unread /\ z.stop = "trap"
    BY <1>1, <1>2, ReportFields
  <2>2. proc[p].anc \cup {p} \in SUBSET Pids
    BY <1>2 DEF Proc
  <2> QED BY <1>1, <2>1, <2>2, Zenon DEF Proc
<1>8. proc' \in [Pids -> Proc] /\ proc'[p] = r /\ proc'[c] = k /\ \A x \in Pids \ {p, c} : proc'[x] = proc[x]
  BY <1>2, <1>4, <1>5, <1>6, <1>7, Zenon
<1>9. Around({p, c})
  <2>1. TypeOK' /\ NoBug'
    BY <1>2, <1>3, <1>8, Zenon DEF TypeOK, NoBug
  <2> QED BY <1>2, <1>3, <1>8, <2>1, Zenon DEF Around
<1> QED BY <1>3, <1>6, <1>7, <1>8, <1>9, StepForks, Zenon

\* The process and the node after ptrace_detach().
Struckdown(x, L, I) ==
    IF x \notin L \cup I THEN proc[x]
    ELSE IF node[x].workload THEN Kill(proc[x])
    ELSE IF x \in L THEN Interrupt(proc[x])
    ELSE proc[x]

Cutdown(x, L, I, D) ==
    IF node[x] = None THEN None
    ELSE [node[x] EXCEPT !.devs = @ \ D, !.detach = @ \/ x \in L \cup I]

\* PTRACE_INTERRUPT and SIGKILL.
LEMMA KillFields ==
    ASSUME NEW o \in Proc
    PROVE  /\ Kill(o) \in Proc
           /\ IF o.state \in {"running", "stopped", "listening"} THEN Kill(o).state = "zombie" ELSE Kill(o) = o
<1>1. CASE o.state \in {"running", "stopped", "listening"}
  <2>1. PICK r : r = [o EXCEPT !.state = "zombie", !.unread = TRUE, !.pend = FALSE]
    BY Zenon
  <2>2. r \in Proc /\ r.state = "zombie"
    BY <2>1, Zenon DEF Proc
  <2>3. Kill(o) = r
    BY <1>1, <2>1, Zenon DEF Kill
  <2> QED BY <1>1, <2>2, <2>3, Zenon
<1>2. CASE o.state \notin {"running", "stopped", "listening"}
  BY <1>2, Zenon DEF Kill
<1> QED BY <1>1, <1>2, Zenon

\* PTRACE_INTERRUPT: a process that runs will stop, one in a group-stop reports again.
LEMMA InterruptFields ==
    ASSUME NEW o \in Proc
    PROVE  /\ Interrupt(o) \in Proc
           /\ \/ /\ o.state \in {"running", "stopped"}
                 /\ Interrupt(o).pend
                 /\ Interrupt(o).state = o.state /\ Interrupt(o).stop = o.stop
                 /\ Interrupt(o).unread = o.unread /\ Interrupt(o).child = o.child
              \/ /\ o.state = "listening"
                 /\ Interrupt(o).state = "stopped" /\ Interrupt(o).stop = "group" /\ Interrupt(o).unread
              \/ o.state \notin {"running", "stopped", "listening"} /\ Interrupt(o) = o
<1>1. CASE o.state \in {"running", "stopped"}
  <2>1. PICK r : r = [o EXCEPT !.pend = TRUE]
    BY Zenon
  <2>2. r \in Proc /\ r.pend /\ r.state = o.state /\ r.stop = o.stop /\ r.unread = o.unread /\ r.child = o.child
    BY <2>1, Zenon DEF Proc
  <2>3. Interrupt(o) = r
    BY <1>1, <2>1 DEF Interrupt
  <2> QED BY <1>1, <2>2, <2>3, Zenon
<1>2. CASE o.state = "listening"
  <2>1. PICK r : r = Stopped(o, "group")
    BY Zenon
  <2>2. r \in Proc /\ r.state = "stopped" /\ r.stop = "group" /\ r.unread
    BY <2>1, ReportFields
  <2>3. Interrupt(o) = r
    BY <1>2, <2>1 DEF Interrupt
  <2> QED BY <1>2, <2>2, <2>3, Zenon
<1>3. CASE o.state \notin {"running", "stopped", "listening"}
  <2>1. Interrupt(o) = o
    BY <1>3 DEF Interrupt
  <2> QED BY <1>3, <2>1, Zenon
<1> QED BY <1>1, <1>2, <1>3

\* One process and its node.
LEMMA DetachOne ==
    ASSUME PtraceInv, NEW x \in Pids, NEW L, NEW I, NEW D,
           proc'[x] = Struckdown(x, L, I), node'[x] = Cutdown(x, L, I, D)
    PROVE  /\ proc'[x] \in Proc /\ node'[x] \in Node \cup {None}
           /\ Cut(x, L, I, D) /\ Struck(x, L, I)
<1>1. proc[x] \in Proc /\ node[x] \in Node \cup {None} /\ None \notin Node
  BY PtraceAssumption, Zenon DEF PtraceInv, TypeOK
<1>2. node'[x] \in Node \cup {None} /\ Cut(x, L, I, D)
  <2>1. CASE node[x] = None
    BY <2>1, Zenon DEF Cutdown, Cut
  <2>2. CASE node[x] # None
    <3>1. PICK n, m : n = node[x] /\ m = node'[x]
      BY Zenon
    <3>2. n \in Node
      BY <1>1, <2>2, <3>1
    <3>3. m = [n EXCEPT !.devs = @ \ D, !.detach = @ \/ x \in L \cup I]
      BY <2>2, <3>1, Zenon DEF Cutdown
    <3>4. /\ m \in Node /\ m.devs = n.devs \ D
          /\ m.initial = n.initial /\ m.workload = n.workload /\ m.refcount = n.refcount
          /\ m.parent = n.parent /\ m.children = n.children
          /\ m.detach = (n.detach \/ x \in L \cup I)
      BY <3>2, <3>3, Zenon DEF Node
    <3>5. m.detach <=> n.detach \/ x \in L \/ x \in I
      BY <3>4, Zenon
    <3>6. m # None
      BY <1>1, <3>4
    <3> QED BY <2>2, <3>1, <3>4, <3>5, <3>6, Zenon DEF Cut
  <2> QED BY <2>1, <2>2, Zenon
<1>3. CASE x \notin L \cup I
  BY <1>1, <1>2, <1>3, Zenon DEF Struckdown, Struck
<1>4. CASE x \in L \cup I /\ node[x].workload
  <2>1. proc'[x] = Kill(proc[x])
    BY <1>4, Zenon DEF Struckdown
  <2> QED BY <1>1, <1>2, <1>4, <2>1, KillFields, Zenon DEF Struck
<1>5. CASE x \in L /\ ~node[x].workload
  <2>1. proc'[x] = Interrupt(proc[x])
    BY <1>5, Zenon DEF Struckdown
  <2> QED BY <1>1, <1>2, <1>5, <2>1, InterruptFields, Zenon DEF Struck
<1>6. CASE x \in I /\ x \notin L /\ ~node[x].workload
  BY <1>1, <1>2, <1>6, Zenon DEF Struckdown, Struck
<1> QED BY <1>3, <1>4, <1>5, <1>6, Zenon

\* ptrace_detach()
LEMMA DetachKeeps ==
    ASSUME PtraceInv, NEW D, closing' \in BOOLEAN, Becomes(PtraceDetach(D))
    PROVE  PtraceInv'
<1>1. PICK L : L = {p \in Pids : /\ node[p] # None
                                 /\ node[p].devs # {} /\ node[p].devs \subseteq D
                                 /\ ~node[p].detach}
  BY Zenon
<1>2. PICK I : I = UNION {node[p].children : p \in L}
  BY Zenon
<1>3. PICK P, N : P = [p \in Pids |-> Struckdown(p, L, I)] /\ N = [p \in Pids |-> Cutdown(p, L, I, D)]
  BY Zenon
<1>4. PtraceDetach(D) = [proc |-> P, node |-> N, bug |-> bug]
  BY <1>1, <1>2, <1>3, Zenon DEF PtraceDetach, Struckdown, Cutdown
<1>5. proc' = P /\ node' = N /\ bug' = bug
  <2>1. PICK v : v = PtraceDetach(D)
    BY Zenon
  <2>2. v.proc = P /\ v.node = N /\ v.bug = bug
    BY <1>4, <2>1
  <2>3. Becomes(v)
    BY <2>1, Zenon
  <2>4. proc' = v.proc /\ node' = v.node /\ bug' = v.bug
    BY <2>3, Zenon DEF Becomes
  <2> QED BY <2>2, <2>4, Zenon
<1>6. ASSUME NEW x \in Pids
      PROVE  proc'[x] = Struckdown(x, L, I) /\ node'[x] = Cutdown(x, L, I, D)
  BY <1>3, <1>5, Zenon
<1>7. ASSUME NEW x \in Pids
      PROVE  /\ proc'[x] \in Proc /\ node'[x] \in Node \cup {None}
             /\ Cut(x, L, I, D) /\ Struck(x, L, I)
  BY <1>6, DetachOne, Zenon
<1>8. TypeOK' /\ NoBug'
  <2>1. proc' \in [Pids -> Proc] /\ node' \in [Pids -> Node \cup {None}]
    BY <1>3, <1>5, <1>7, Zenon
  <2>2. TypeOK /\ NoBug
    BY Zenon DEF PtraceInv
  <2> QED BY <1>5, <2>1, <2>2 DEF TypeOK, NoBug
<1>9. Around(Pids)
  BY <1>8, Zenon DEF Around
<1>10. Last(L, D)
  BY <1>1, Zenon DEF Last
<1>11. Initials(L, I)
  BY <1>1, <1>2, Zenon DEF Initials
<1> QED BY <1>7, <1>9, <1>10, <1>11, StepDetach, Zenon

\* The processes that --ptrace attaches to, or the workload, run and are followed.
LEMMA InitHolds ==
    ASSUME Init
    PROVE  PtraceInv
<1>1. PICK b \in BOOLEAN :
          /\ b \in Workloads
          /\ proc = [p \in Pids |-> IF p \in Attached THEN [NoProc EXCEPT !.state = "running"] ELSE NoProc]
          /\ node = [p \in Pids |-> IF p \in Attached THEN NewNode(2, b, {None} \X Roots) ELSE None]
          /\ bug = FALSE /\ closing = FALSE
  BY PtraceAssumption, Zenon DEF Init
<1>2. PICK r, n : r = [NoProc EXCEPT !.state = "running"] /\ n = NewNode(2, b, {None} \X Roots)
  BY Zenon
<1>3. NoProc \in Proc /\ NoProc.state = "none"
  BY DEF NoProc, Proc
<1>4. r \in Proc /\ r.state = "running"
  BY <1>2, <1>3, Zenon DEF Proc
<1>5. /\ n \in Node /\ n # None /\ n.initial = 2 /\ ~n.detach /\ n.workload = b /\ n.refcount = 1
      /\ n.parent = None /\ n.children = {} /\ n.devs # {}
  <2>1. {None} \X Roots \in SUBSET Devs /\ {None} \X Roots # {}
    <3>1. PICK d : d \in Roots
      BY PtraceAssumption, Zenon
    <3>2. <<None, d>> \in {None} \X Roots
      BY <3>1
    <3>3. {None} \X Roots \subseteq (Pids \cup {None}) \X Roots
      OBVIOUS
    <3> QED BY <3>2, <3>3, Zenon DEF Devs
  <2>2. n = [initial |-> 2, detach |-> FALSE, workload |-> b, refcount |-> 1,
             parent |-> None, children |-> {}, devs |-> {None} \X Roots]
    BY <1>2, Zenon DEF NewNode
  <2>3. n \in Node
    BY <1>1, <2>1, <2>2 DEF Node
  <2>4. n # None
    BY <2>3, PtraceAssumption, Zenon
  <2> QED BY <2>1, <2>2, <2>3, <2>4, Zenon
<1>6. ASSUME NEW p \in Pids
      PROVE  \/ proc[p] = r /\ node[p] = n
             \/ proc[p] = NoProc /\ node[p] = None
  BY <1>1, <1>2, Zenon
<1>7. TypeOK /\ NoBug
  <2>1. proc \in [Pids -> Proc] /\ node \in [Pids -> Node \cup {None}]
    BY <1>1, <1>3, <1>4, <1>5, <1>6, Zenon
  <2> QED BY <1>1, <2>1, Zenon DEF TypeOK, NoBug
<1>8. ASSUME NEW p \in Pids
      PROVE  /\ proc[p].state \in {"none", "running"} /\ (proc[p].state = "none" <=> node[p] = None)
             /\ node[p] # None => node[p] = n
  BY <1>3, <1>4, <1>5, <1>6
<1>9. RefsBalanced
  <2>1. Balanced(proc, node)
    <3>1. ListsRight(node)
      BY <1>5, <1>8, PtraceAssumption, Zenon DEF ListsRight
    <3>2. ASSUME NEW p \in Pids, node[p] # None
          PROVE  node[p].refcount = Owed(proc[p], node[p]) /\ node[p].parent = None
      <4>1. Cardinality({}) = 0
        BY FS_EmptySet, Zenon
      <4>2. node[p] = n /\ proc[p].state = "running"
        BY <1>8, <3>2
      <4>3. Owed(proc[p], node[p]) = 0 + 1
        BY <1>5, <4>1, <4>2 DEF Owed
      <4> QED BY <1>5, <4>2, <4>3
    <3> QED BY <3>1, <3>2, Zenon DEF Balanced
  <2> QED BY <1>7, <2>1, RefsAsBalanced, Zenon
<1>10. ProcInv
  BY <1>5, <1>8 DEF ProcInv
<1>11. ChildInv
  BY <1>5, <1>8 DEF ChildInv, Nodes
<1>12. DetachInv
  BY <1>5, <1>8 DEF DetachInv, Nodes
<1>13. ForkInv /\ OrphanInv
  <2>1. ASSUME NEW p \in Pids
        PROVE  ~ForkStop(p) /\ ~Unknown(p)
    BY <1>8 DEF ForkStop, Unknown
  <2>2. Workloads \subseteq {FALSE} => \A p \in Nodes : ~node[p].workload
    BY <1>1, <1>5, <1>8, Zenon DEF Nodes
  <2> QED BY <2>1, <2>2, Zenon DEF ForkInv, OrphanInv
<1> QED BY <1>7, <1>9, <1>10, <1>11, <1>12, <1>13, Zenon DEF PtraceInv
===============================================================================
