-------------------------- MODULE PtraceWorldProofs ---------------------------
(***************************************************************************)
(* What the operations on pid_list do to the three parts of a world: the   *)
(* processes, the nodes and the BUG messages.                              *)
(***************************************************************************)
EXTENDS PtraceWorlds, TLAPS

\* Taking p off the lists leaves a node alone that does not list it.
LEMMA WithoutSame ==
    ASSUME NEW n \in Node, NEW p \in Pids, p \notin n.children
    PROVE  Without(n, p) = n
BY DEF Without, Node

\* A node that is changed stays a node.
LEMMA NodeChanged ==
    ASSUME NEW n \in Node, NEW p \in Pids
    PROVE  /\ Without(n, p) \in Node
           /\ Less(n) \in Node \cup {None}
           /\ Without(n, p).refcount = n.refcount
           /\ Without(n, p).children = n.children \ {p}
           /\ Without(n, p).parent = n.parent
BY DEF Without, Less, Node

\* A world with another node is a world.
LEMMA SetNode ==
    ASSUME NEW w \in Worlds, NEW p \in Pids, NEW n \in Node \cup {None},
           NEW v, v = [w EXCEPT !.node[p] = n]
    PROVE  Is(v, w.proc, [w.node EXCEPT ![p] = n], w.bug)
BY Zenon DEF Is, Worlds, NodeFns

\* PTRACE_CONT, PTRACE_LISTEN and PTRACE_DETACH of a stopped process.
LEMMA Resumed ==
    ASSUME NEW w \in Worlds, NEW p \in Pids, w.proc[p].state = "stopped"
    PROVE  /\ Is(Cont(w, p), In(w.proc, p, "running"), w.node, w.bug)
           /\ Is(Listen(w, p), In(w.proc, p, "listening"), w.node, w.bug)
           /\ Is(Release(w, p), In(w.proc, p, "free"), w.node, w.bug)
<1>1. ASSUME NEW s \in {"running", "listening", "free"} PROVE In(w.proc, p, s) \in Procs
  BY DEF Worlds, Procs, Proc, In
<1>2. Cont(w, p) = [w EXCEPT !.proc = In(w.proc, p, "running")]
  BY DEF Cont, In
<1>3. Listen(w, p) = [w EXCEPT !.proc = In(w.proc, p, "listening")]
  BY DEF Listen, In
<1>4. Release(w, p) = [w EXCEPT !.proc = In(w.proc, p, "free")]
  BY DEF Release, In
<1>5. ASSUME NEW Q \in Procs PROVE Is([w EXCEPT !.proc = Q], Q, w.node, w.bug)
  BY Zenon DEF Is, Worlds
<1> QED BY <1>1, <1>2, <1>3, <1>4, <1>5

\* Off the lists: nothing happens to a process that is on none.
LEMMA UnlistNone ==
    ASSUME NEW w \in Worlds, NEW p \in Pids, Unlisted(w.node, p)
    PROVE  Is(Unlist(w, p), w.proc, w.node, w.bug)
<1> DEFINE M == [q \in Pids |-> IF w.node[q] = None THEN None ELSE Without(w.node[q], p)]
<1>0. w.node \in NodeFns
  BY Zenon DEF Worlds
<1>1. M = w.node
  <2>1. ASSUME NEW q \in Pids PROVE M[q] = w.node[q]
    <3>1. CASE w.node[q] = None
      BY <3>1, Zenon
    <3>2. CASE w.node[q] # None
      <4>1. w.node[q] \in Node /\ p \notin w.node[q].children
        BY <1>0, <3>2, Zenon DEF NodeFns, Unlisted
      <4> QED BY <3>2, <4>1, WithoutSame, Zenon
    <3> QED BY <3>1, <3>2, Zenon
  <2> QED BY <1>0, <2>1, Zenon DEF NodeFns
<1>2. Unlist(w, p) = [w EXCEPT !.node = M]
  BY DEF Unlist, Unlisting, Without
<1> HIDE DEF M
<1> QED BY <1>0, <1>1, <1>2, Zenon DEF Is, Worlds

\* Off the lists: only the node that may list p is another one.
LEMMA UnlistOne ==
    ASSUME NEW w \in Worlds, NEW p \in Pids, NEW q \in Pids,
           w.node[q] # None, ListedBy(w.node, p, q)
    PROVE  Is(Unlist(w, p), w.proc, [w.node EXCEPT ![q] = Without(w.node[q], p)], w.bug)
<1> DEFINE M == [x \in Pids |-> IF w.node[x] = None THEN None ELSE Without(w.node[x], p)]
           L == [w.node EXCEPT ![q] = Without(w.node[q], p)]
<1>0. w.node \in NodeFns
  BY Zenon DEF Worlds
<1>1. L \in NodeFns
  BY <1>0, NodeChanged, Zenon DEF NodeFns
<1>2. M = L
  <2>1. ASSUME NEW x \in Pids PROVE M[x] = L[x]
    <3>1. CASE x = q
      BY <1>0, <3>1, Zenon DEF NodeFns
    <3>2. CASE x # q /\ w.node[x] = None
      BY <1>0, <3>2, Zenon DEF NodeFns
    <3>3. CASE x # q /\ w.node[x] # None
      <4>1. w.node[x] \in Node /\ p \notin w.node[x].children
        BY <1>0, <3>3, Zenon DEF NodeFns, ListedBy
      <4> QED BY <1>0, <3>3, <4>1, WithoutSame, Zenon DEF NodeFns
    <3> QED BY <3>1, <3>2, <3>3, Zenon
  <2> HIDE DEF L
  <2> QED BY <1>1, <2>1, Zenon DEF NodeFns
<1>3. Unlist(w, p) = [w EXCEPT !.node = M]
  BY DEF Unlist, Unlisting, Without
<1>4. Is(Unlist(w, p), w.proc, L, w.bug)
  <2> HIDE DEF M, L
  <2> QED BY <1>1, <1>2, <1>3, Zenon DEF Is, Worlds
<1> QED BY <1>4, Zenon

\* put_pid(): a node without new children is deleted with its last reference.
LEMMA PutOneLess ==
    ASSUME NEW w \in Worlds, NEW p \in Pids, w.node[p] # None,
           Unlisted(w.node, p), w.node[p].refcount = 1 => w.node[p].children = {}
    PROVE  Is(PutOne(w, p), w.proc, [w.node EXCEPT ![p] = Less(w.node[p])], w.bug)
<1>1. w.node \in NodeFns /\ w.node[p] \in Node /\ w.bug \in BOOLEAN
  BY Zenon DEF Worlds, NodeFns
<1>2. CASE w.node[p].refcount > 1
  <2>1. PutOne(w, p) = [w EXCEPT !.node[p].refcount = @ - 1]
    BY <1>2, Zenon DEF PutOne
  <2>2. Less(w.node[p]) = [w.node[p] EXCEPT !.refcount = @ - 1]
    BY <1>2, Zenon DEF Less
  <2>3. [w.node[p] EXCEPT !.refcount = @ - 1] \in Node
    BY <1>1, <1>2 DEF Node
  <2> QED BY <2>1, <2>2, <2>3 DEF Is, Worlds, NodeFns
<1>3. CASE ~(w.node[p].refcount > 1)
  <2>1. w.node[p].children = {}
    BY <1>1, <1>3 DEF Node
  <2>2. PICK u : u = Unlist(w, p)
    BY Zenon
  <2>3. Is(u, w.proc, w.node, w.bug)
    BY <2>2, UnlistNone, Zenon
  <2>4. PICK v : v = [u EXCEPT !.node[p] = None]
    BY Zenon
  <2>5. Is(v, w.proc, [w.node EXCEPT ![p] = None], w.bug)
    BY <1>1, <2>3, <2>4, Zenon DEF Is, Worlds, NodeFns
  <2>6. PutOne(w, p) = [v EXCEPT !.bug = w.bug \/ w.node[p].children # {}]
    BY <1>3, <2>2, <2>4, Zenon DEF PutOne
  <2>7. (w.bug \/ w.node[p].children # {}) = w.bug
    BY <1>1, <2>1, Zenon
  <2>8. Less(w.node[p]) = None
    BY <1>3, Zenon DEF Less
  <2> QED BY <1>1, <2>5, <2>6, <2>7, <2>8, Zenon DEF Is, Worlds
<1> QED BY <1>2, <1>3, Zenon

\* The nodes N with n for p and m for q.
Two(N, p, n, q, m) == [x \in Pids |-> IF x = p THEN n ELSE IF x = q THEN m ELSE N[x]]

\* put_pid() of a node that holds no parent, or is not deleted.
LEMMA PutLess ==
    ASSUME NEW w \in Worlds, NEW p \in Pids, w.node[p] # None,
           Unlisted(w.node, p), w.node[p].refcount = 1 => w.node[p].children = {},
           w.node[p].parent = None \/ w.node[p].refcount > 1
    PROVE  Is(Put(w, p), w.proc, [w.node EXCEPT ![p] = Less(w.node[p])], w.bug)
<1>1. PICK v : v = PutOne(w, p)
  BY Zenon
<1>2. Is(v, w.proc, [w.node EXCEPT ![p] = Less(w.node[p])], w.bug)
  BY <1>1, PutOneLess, Zenon
<1>3. w.node \in NodeFns /\ w.node[p] \in Node
  BY Zenon DEF Worlds, NodeFns
<1>4. CASE w.node[p].parent = None
  <2>1. Put(w, p) = v
    BY <1>1, <1>4, Zenon DEF Put
  <2> QED BY <1>2, <2>1, Zenon
<1>5. CASE w.node[p].refcount > 1
  <2>1. Less(w.node[p]) \in Node
    BY <1>3, <1>5 DEF Less, Node
  <2>2. v.node[p] \in Node
    BY <1>2, <1>3, <2>1, Zenon DEF Is, NodeFns
  <2>3. v.node[p] # None
    BY <2>2, PtraceAssumption, Zenon
  <2>4. Put(w, p) = v
    BY <1>1, <2>3, Zenon DEF Put
  <2> QED BY <1>2, <2>4, Zenon
<1> QED BY <1>4, <1>5, Zenon

\* put_pid() of the last reference of a new child: it is deleted, and its parent loses one.
LEMMA PutChild ==
    ASSUME NEW w \in Worlds, NEW p \in Pids, NEW q \in Pids, p # q,
           w.node[p] # None, w.node[p].refcount = 1, w.node[p].children = {},
           w.node[p].parent = q, w.node[q] # None,
           ListedBy(w.node, p, q), Unlisted(w.node, q),
           w.node[q].refcount = 1 => w.node[q].children \subseteq {p}
    PROVE  Is(Put(w, p), w.proc, Two(w.node, p, None, q, Less(Without(w.node[q], p))), w.bug)
<1> DEFINE n == Without(w.node[q], p)
           N == Two(w.node, p, None, q, n)
<1>1. /\ w.node \in NodeFns /\ w.bug \in BOOLEAN
      /\ w.node[p] \in Node /\ w.node[q] \in Node
  BY Zenon DEF Worlds, NodeFns
<1>2. /\ n \in Node /\ n.refcount = w.node[q].refcount
      /\ n.children = w.node[q].children \ {p}
      /\ Less(n) \in Node \cup {None}
  BY <1>1, NodeChanged, Zenon
<1> HIDE DEF n
<1>3. N \in NodeFns /\ N[p] = None /\ N[q] = n /\ \A x \in Pids \ {p, q} : N[x] = w.node[x]
  BY <1>1, <1>2, Zenon DEF Two, NodeFns
<1>4. PICK v : v = PutOne(w, p)
  BY Zenon
<1>5. Is(v, w.proc, N, w.bug)
  <2>1. PICK u : u = Unlist(w, p)
    BY Zenon
  <2>2. Is(u, w.proc, [w.node EXCEPT ![q] = n], w.bug)
    BY <2>1, UnlistOne, Zenon DEF n
  <2>3. PICK t : t = [u EXCEPT !.node[p] = None]
    BY Zenon
  <2>4. Is(t, w.proc, [[w.node EXCEPT ![q] = n] EXCEPT ![p] = None], w.bug)
    BY <1>1, <1>2, <2>2, <2>3, Zenon DEF Is, Worlds, NodeFns
  <2>5. [[w.node EXCEPT ![q] = n] EXCEPT ![p] = None] = N
    BY <1>1, Zenon DEF Two, NodeFns
  <2>6. PutOne(w, p) = [t EXCEPT !.bug = w.bug \/ w.node[p].children # {}]
    <3>1. ~(w.node[p].refcount > 1)
      BY <1>1 DEF Node
    <3> QED BY <2>1, <2>3, <3>1, Zenon DEF PutOne
  <2>7. (w.bug \/ w.node[p].children # {}) = w.bug
    BY <1>1, Zenon
  <2> HIDE DEF N
  <2> QED BY <1>1, <1>4, <2>4, <2>5, <2>6, <2>7, Zenon DEF Is, Worlds
<1> HIDE DEF N
<1>6. Put(w, p) = PutOne(v, q)
  <2>1. q # None
    BY PtraceAssumption, Zenon
  <2> QED BY <1>3, <1>4, <1>5, <2>1, Zenon DEF Put, Is
<1>7. Unlisted(N, q)
  <2>1. ASSUME NEW x \in Pids, N[x] # None PROVE q \notin N[x].children
    <3>1. CASE x = q
      BY <1>2, <1>3, <3>1, Zenon DEF Unlisted
    <3>2. CASE x # q
      BY <1>3, <2>1, <3>2, Zenon DEF Unlisted
    <3> QED BY <3>1, <3>2, Zenon
  <2> QED BY <2>1, Zenon DEF Unlisted
<1>8. n # None /\ (n.refcount = 1 => n.children = {})
  BY <1>2, PtraceAssumption, Zenon
<1>9. Is(PutOne(v, q), w.proc, [N EXCEPT ![q] = Less(n)], w.bug)
  <2>1. v \in Worlds /\ v.node = N /\ v.proc = w.proc /\ v.bug = w.bug
    BY <1>5, Zenon DEF Is
  <2> QED BY <2>1, <1>3, <1>7, <1>8, PutOneLess, Zenon
<1>10. [N EXCEPT ![q] = Less(n)] = Two(w.node, p, None, q, Less(n))
  BY <1>1, <1>2, Zenon DEF N, Two, NodeFns
<1> QED BY <1>6, <1>9, <1>10, Zenon DEF n

\* __detach() of a process that holds no parent, or whose node stays.
LEMMA DetachLess ==
    ASSUME NEW w \in Worlds, NEW p \in Pids, w.node[p] # None,
           w.proc[p].state = "stopped", ~w.node[p].workload,
           Unlisted(w.node, p), w.node[p].refcount = 1 => w.node[p].children = {},
           w.node[p].parent = None \/ w.node[p].refcount > 1
    PROVE  Is(Detach(w, p), In(w.proc, p, "free"), [w.node EXCEPT ![p] = Less(w.node[p])], w.bug)
<1>1. PICK v : v = Release(w, p)
  BY Zenon
<1>2. v \in Worlds /\ v.proc = In(w.proc, p, "free") /\ v.node = w.node /\ v.bug = w.bug
  BY <1>1, Resumed, Zenon DEF Is
<1>3. Detach(w, p) = Put(v, p)
  BY <1>1, Zenon DEF Detach
<1>4. Is(Put(v, p), v.proc, [v.node EXCEPT ![p] = Less(v.node[p])], v.bug)
  BY <1>2, PutLess, Zenon
<1> QED BY <1>2, <1>3, <1>4, Zenon

\* __detach() of a new child: its parent loses a reference.
LEMMA DetachChild ==
    ASSUME NEW w \in Worlds, NEW p \in Pids, NEW q \in Pids, p # q,
           w.proc[p].state = "stopped", ~w.node[p].workload,
           w.node[p] # None, w.node[p].refcount = 1, w.node[p].children = {},
           w.node[p].parent = q, w.node[q] # None,
           ListedBy(w.node, p, q), Unlisted(w.node, q),
           w.node[q].refcount = 1 => w.node[q].children \subseteq {p}
    PROVE  Is(Detach(w, p), In(w.proc, p, "free"),
              Two(w.node, p, None, q, Less(Without(w.node[q], p))), w.bug)
<1>1. PICK v : v = Release(w, p)
  BY Zenon
<1>2. v \in Worlds /\ v.proc = In(w.proc, p, "free") /\ v.node = w.node /\ v.bug = w.bug
  BY <1>1, Resumed, Zenon DEF Is
<1>3. Detach(w, p) = Put(v, p)
  BY <1>1, Zenon DEF Detach
<1>4. Is(Put(v, p), v.proc, Two(v.node, p, None, q, Less(Without(v.node[q], p))), v.bug)
  BY <1>2, PutChild, Zenon
<1> QED BY <1>2, <1>3, <1>4, Zenon

\* What holds of a new child c and its parent q when both stops were seen.
Newborn(w, c, q) ==
    /\ c # q
    /\ w.proc[c].state = "stopped"
    /\ w.node[c] # None /\ w.node[c].refcount = 1 /\ w.node[c].children = {}
    /\ w.node[c].parent = q /\ w.node[q] # None /\ w.node[q].parent = None
    /\ ListedBy(w.node, c, q) /\ Unlisted(w.node, q)
    /\ w.node[q].refcount = 1 => w.node[q].children \subseteq {c}

\* The world v is w with the child off the list of its parent, whose node is n then.
Off(w, c, q, v, n) ==
    /\ v \in Worlds /\ v.proc = w.proc /\ v.bug = w.bug
    /\ n \in Node
    /\ v.node = [w.node EXCEPT ![q] = n]
    /\ v.node \in NodeFns /\ w.node \in NodeFns
    /\ v.node[c] = w.node[c] /\ v.node[q] = n
    /\ n.parent = None /\ Without(n, c) = n
    /\ n.refcount = 1 => n.children = {}
    /\ Unlisted(v.node, c) /\ Unlisted(v.node, q)

\* __fork__new() takes the child off the list of its parent.
LEMMA OffList ==
    ASSUME NEW w \in Worlds, NEW c \in Pids, NEW q \in Pids, Newborn(w, c, q),
           NEW v, v = Unlist(w, c), NEW n, n = Without(w.node[q], c)
    PROVE  Off(w, c, q, v, n)
<1>1. Is(v, w.proc, [w.node EXCEPT ![q] = n], w.bug)
  BY UnlistOne, Zenon DEF Newborn
<1>2. v \in Worlds /\ v.proc = w.proc /\ v.bug = w.bug /\ v.node = [w.node EXCEPT ![q] = n]
  BY <1>1, Zenon DEF Is
<1>3. w.node \in NodeFns /\ v.node \in NodeFns /\ w.node[q] \in Node
  BY <1>2, Zenon DEF Worlds, NodeFns, Newborn
<1>4. /\ n \in Node /\ n.refcount = w.node[q].refcount
      /\ n.children = w.node[q].children \ {c} /\ n.parent = w.node[q].parent
  BY <1>3, NodeChanged, Zenon
<1>5. Without(n, c) = n
  BY <1>4, WithoutSame, Zenon
<1>6. v.node[q] = n /\ \A x \in Pids \ {q} : v.node[x] = w.node[x]
  BY <1>2, <1>3, Zenon DEF NodeFns
<1>7. Unlisted(v.node, c)
  <2> SUFFICES ASSUME NEW x \in Pids, v.node[x] # None PROVE c \notin v.node[x].children
    BY Zenon DEF Unlisted
  <2>1. CASE x = q
    BY <1>4, <1>6, <2>1, Zenon
  <2>2. CASE x # q
    BY <1>6, <2>2, Zenon DEF Newborn, ListedBy
  <2> QED BY <2>1, <2>2, Zenon
<1>8. Unlisted(v.node, q)
  <2> SUFFICES ASSUME NEW x \in Pids, v.node[x] # None PROVE q \notin v.node[x].children
    BY Zenon DEF Unlisted
  <2>1. CASE x = q
    BY <1>4, <1>6, <2>1, Zenon DEF Newborn, Unlisted
  <2>2. CASE x # q
    BY <1>6, <2>2, Zenon DEF Newborn, Unlisted
  <2> QED BY <2>1, <2>2, Zenon
<1>9. v.node[c] = w.node[c] /\ n.parent = None /\ (n.refcount = 1 => n.children = {})
  BY <1>4, <1>6, Zenon DEF Newborn
<1> QED BY <1>2, <1>3, <1>4, <1>5, <1>6, <1>7, <1>8, <1>9, Zenon DEF Off

\* __fork__new() of a child that is to be detached.
LEMMA ForkNewDetached ==
    ASSUME NEW w \in Worlds, NEW c \in Pids, NEW q \in Pids, Newborn(w, c, q),
           w.node[c].detach, ~w.node[c].workload
    PROVE  Is(ForkNew(w, c), In(w.proc, c, "free"),
              Two(w.node, c, None, q, Less(Without(w.node[q], c))), w.bug)
<1>1. PICK v, n : v = Unlist(w, c) /\ n = Without(w.node[q], c)
  BY Zenon
<1>2. Off(w, c, q, v, n)
  BY <1>1, OffList, Zenon
<1>3. ForkNew(w, c) = Detach(v, c)
  BY <1>1, Zenon DEF ForkNew
<1>4. n # None /\ ListedBy(v.node, c, q)
  BY <1>2, PtraceAssumption, Zenon DEF Off, Unlisted, ListedBy
<1>5. /\ v.proc[c].state = "stopped" /\ ~v.node[c].workload
      /\ v.node[c] # None /\ v.node[c].refcount = 1 /\ v.node[c].children = {}
      /\ v.node[c].parent = q /\ v.node[q] # None /\ c # q
      /\ v.node[q].refcount = 1 => v.node[q].children \subseteq {c}
  BY <1>2, <1>4, Zenon DEF Off, Newborn
<1>7. Is(Detach(v, c), In(v.proc, c, "free"), Two(v.node, c, None, q, Less(Without(v.node[q], c))), v.bug)
  BY <1>2, <1>4, <1>5, DetachChild, Zenon DEF Off
<1>6. Two(v.node, c, None, q, Less(n)) = Two(w.node, c, None, q, Less(n))
  BY <1>2, Zenon DEF Off, Two, NodeFns
<1> QED BY <1>1, <1>2, <1>3, <1>6, <1>7, Zenon DEF Off

\* The node n of the new child c with clones of the devices of its parent's node m.
Clones(c, m) == {<<c, d[2]>> : d \in m.devs}
Followed(n, c, m) == [n EXCEPT !.devs = Clones(c, m), !.parent = None]

\* The clones are devices.
LEMMA FollowedNode ==
    ASSUME NEW n \in Node, NEW c \in Pids, NEW m \in Node
    PROVE  /\ Followed(n, c, m) \in Node
           /\ Followed(n, c, m).children = n.children
           /\ Followed(n, c, m).devs = Clones(c, m)
<1>1. Clones(c, m) \in SUBSET Devs
  <2>1. ASSUME NEW d \in m.devs PROVE <<c, d[2]>> \in Devs
    <3>1. d \in (Pids \cup {None}) \X Roots
      BY Zenon DEF Node, Devs
    <3> QED BY <3>1 DEF Devs
  <2> QED BY <2>1, Zenon DEF Clones
<1>2. Followed(n, c, m) \in Node
  BY <1>1, Zenon DEF Followed, Node
<1>3. Followed(n, c, m).children = n.children /\ Followed(n, c, m).devs = Clones(c, m)
  BY DEF Node, Followed
<1> QED BY <1>2, <1>3, Zenon

\* __fork__new() of a child that is to be followed: the devices of its parent are cloned.
LEMMA ForkNewCloned ==
    ASSUME NEW w \in Worlds, NEW c \in Pids, NEW q \in Pids, Newborn(w, c, q),
           ~w.node[c].detach, w.node[q].devs # {}
    PROVE  Is(ForkNew(w, c), In(w.proc, c, "running"),
              Two(w.node, c, Followed(w.node[c], c, w.node[q]), q, Less(Without(w.node[q], c))),
              w.bug)
<1>1. PICK v, n, f : /\ v = Unlist(w, c) /\ n = Without(w.node[q], c)
                     /\ f = Followed(w.node[c], c, w.node[q])
  BY Zenon
<1>2. Off(w, c, q, v, n)
  BY <1>1, OffList, Zenon
<1>3. w.node[c] \in Node /\ w.node[q] \in Node /\ c # q
  BY Zenon DEF Worlds, NodeFns, Newborn
<1>4. f \in Node /\ f.children = {} /\ f.devs # {}
  <2>1. f \in Node /\ f.children = w.node[c].children /\ f.devs = Clones(c, w.node[q])
    BY <1>1, <1>3, FollowedNode, Zenon
  <2> QED BY <2>1, Zenon DEF Newborn, Clones
<1>5. PICK t : t = [v EXCEPT !.node[c] = f]
  BY Zenon
<1>6. /\ t \in Worlds /\ t.proc = w.proc /\ t.bug = w.bug
      /\ t.node = [v.node EXCEPT ![c] = f]
  BY <1>2, <1>4, <1>5, Zenon DEF Off, Worlds, NodeFns
<1>7. t.node[q] = n /\ t.node[c] = f /\ \A x \in Pids \ {c} : t.node[x] = v.node[x]
  BY <1>2, <1>3, <1>6, Zenon DEF Off, NodeFns
<1>8. Unlisted(t.node, q)
  <2> SUFFICES ASSUME NEW x \in Pids, t.node[x] # None PROVE q \notin t.node[x].children
    BY Zenon DEF Unlisted
  <2>1. CASE x = c
    BY <1>4, <1>7, <2>1, Zenon
  <2>2. CASE x # c
    BY <1>2, <1>7, <2>2, Zenon DEF Off, Unlisted
  <2> QED BY <2>1, <2>2, Zenon
<1>9. PICK u : u = Put(t, q)
  BY Zenon
<1>10. /\ t.node[q] # None /\ t.node[q].parent = None
       /\ t.node[q].refcount = 1 => t.node[q].children = {}
  BY <1>2, <1>7, PtraceAssumption, Zenon DEF Off
<1>11. Is(u, w.proc, [t.node EXCEPT ![q] = Less(n)], w.bug)
  BY <1>6, <1>7, <1>8, <1>9, <1>10, PutLess, Zenon
<1>12. [t.node EXCEPT ![q] = Less(n)] = Two(w.node, c, f, q, Less(n))
  BY <1>2, <1>3, <1>6, Zenon DEF Off, Two, NodeFns
<1>13. Two(w.node, c, f, q, Less(n))[c] = f
  BY Zenon DEF Two
<1>14. u \in Worlds /\ u.proc = w.proc /\ u.node = Two(w.node, c, f, q, Less(n)) /\ u.bug = w.bug
  BY <1>11, <1>12, Zenon DEF Is
<1>15. ForkNew(w, c) = Cont(u, c)
  <2>1. q # None /\ w.node[c].parent = q /\ w.node[q] # None
    BY PtraceAssumption, Zenon DEF Newborn
  <2>2. t = [v EXCEPT !.node[c] =
                [v.node[c] EXCEPT !.devs = {<<c, d[2]>> : d \in w.node[q].devs}, !.parent = None]]
    BY <1>1, <1>2, <1>5, Zenon DEF Off, Followed, Clones
  <2>3. u.node[c].devs # {}
    BY <1>4, <1>13, <1>14, Zenon
  <2> QED BY <1>1, <1>9, <2>1, <2>2, <2>3, Zenon DEF ForkNew
<1>16. Is(Cont(u, c), In(u.proc, c, "running"), u.node, u.bug)
  BY <1>14, Resumed, Zenon DEF Newborn
<1> QED BY <1>1, <1>14, <1>15, <1>16, Zenon

\* A node of which one more stop was seen.
Grown(n) == [n EXCEPT !.initial = @ + 1]

\* It stays a node, and nothing else changes.
LEMMA GrownNode ==
    ASSUME NEW n \in Node, n.initial \in {0, 1}
    PROVE  /\ Grown(n) \in Node /\ Grown(n).initial = n.initial + 1
           /\ Grown(n).detach = n.detach /\ Grown(n).workload = n.workload
           /\ Grown(n).refcount = n.refcount /\ Grown(n).parent = n.parent
           /\ Grown(n).children = n.children /\ Grown(n).devs = n.devs
BY DEF Grown, Node

\* The stop of a new child is counted.
LEMMA Seen ==
    ASSUME NEW w \in Worlds, NEW c \in Pids, w.node[c] # None, w.node[c].initial \in {0, 1},
           NEW v, v = [w EXCEPT !.node[c].initial = @ + 1]
    PROVE  /\ Is(v, w.proc, [w.node EXCEPT ![c] = Grown(w.node[c])], w.bug)
           /\ w.node[c].initial = 0 => SeenInitial(w, c) = v
           /\ w.node[c].initial = 1 => SeenInitial(w, c) = ForkNew(v, c)
<1>1. w.node \in NodeFns /\ w.node[c] \in Node
  BY Zenon DEF Worlds, NodeFns
<1>2. Grown(w.node[c]) \in Node /\ Grown(w.node[c]).initial = w.node[c].initial + 1
  BY <1>1, GrownNode, Zenon
<1>3. v = [w EXCEPT !.node[c] = Grown(w.node[c])]
  BY DEF Grown
<1>4. Is(v, w.proc, [w.node EXCEPT ![c] = Grown(w.node[c])], w.bug)
  BY <1>1, <1>2, <1>3 DEF Is, Worlds, NodeFns
<1>5. v.node[c].initial = w.node[c].initial + 1
  BY <1>1, <1>2, <1>4, Zenon DEF Is, NodeFns
<1>6. w.node[c].initial = 0 => v.node[c].initial # 2
  BY <1>5
<1>7. w.node[c].initial = 1 => v.node[c].initial = 2
  BY <1>5
<1>8. SeenInitial(w, c) = IF v.node[c].initial = 2 THEN ForkNew(v, c) ELSE v
  BY DEF SeenInitial
<1> QED BY <1>4, <1>6, <1>7, <1>8, Zenon

\* The world v is w with the second stop of the new child counted.
Counted(w, c, q, v) ==
    /\ v \in Worlds /\ v.proc = w.proc /\ v.bug = w.bug
    /\ Newborn(v, c, q)
    /\ v.node[c] = Grown(w.node[c]) /\ v.node[q] = w.node[q]
    /\ v.node[c].detach = w.node[c].detach /\ v.node[c].workload = w.node[c].workload
    /\ \A k, m : Two(v.node, c, k, q, m) = Two(w.node, c, k, q, m)

\* When the second stop of a new child is seen it is still one.
LEMMA SeenNewborn ==
    ASSUME NEW w \in Worlds, NEW c \in Pids, NEW q \in Pids, Newborn(w, c, q), w.node[c].initial = 1,
           NEW v, Is(v, w.proc, [w.node EXCEPT ![c] = Grown(w.node[c])], w.bug)
    PROVE  Counted(w, c, q, v)
<1>1. w.node \in NodeFns /\ w.node[c] \in Node /\ c # q
  BY Zenon DEF Worlds, NodeFns, Newborn
<1>2. PICK g : g = Grown(w.node[c])
  BY Zenon
<1>3. /\ g \in Node /\ g.detach = w.node[c].detach /\ g.workload = w.node[c].workload
      /\ g.refcount = w.node[c].refcount /\ g.parent = w.node[c].parent
      /\ g.children = w.node[c].children
  BY <1>1, <1>2, GrownNode, Zenon
<1>4. v \in Worlds /\ v.proc = w.proc /\ v.bug = w.bug /\ v.node = [w.node EXCEPT ![c] = g]
  BY <1>2, Zenon DEF Is
<1>5. v.node[c] = g /\ \A x \in Pids \ {c} : v.node[x] = w.node[x]
  BY <1>1, <1>4, Zenon DEF NodeFns
<1>6. ListedBy(v.node, c, q) /\ Unlisted(v.node, q)
  <2>1. ASSUME NEW x \in Pids, v.node[x] # None
        PROVE  (x # q => c \notin v.node[x].children) /\ q \notin v.node[x].children
    <3>1. CASE x = c
      BY <1>3, <1>5, <3>1, Zenon DEF Newborn
    <3>2. CASE x # c
      BY <1>5, <2>1, <3>2, Zenon DEF Newborn, ListedBy, Unlisted
    <3> QED BY <3>1, <3>2, Zenon
  <2> QED BY <2>1, Zenon DEF ListedBy, Unlisted
<1>7. Newborn(v, c, q)
  <2>1. g # None
    BY <1>3, PtraceAssumption, Zenon
  <2> QED BY <1>1, <1>3, <1>4, <1>5, <1>6, <2>1, Zenon DEF Newborn
<1>8. ASSUME NEW k, NEW m PROVE Two(v.node, c, k, q, m) = Two(w.node, c, k, q, m)
  BY <1>5, Zenon DEF Two
<1> QED BY <1>1, <1>2, <1>3, <1>4, <1>5, <1>7, <1>8, Zenon DEF Counted

\* The second stop of a child that is to be detached, and of one that is to be followed.
LEMMA SeenSecond ==
    ASSUME NEW w \in Worlds, NEW c \in Pids, NEW q \in Pids, Newborn(w, c, q), w.node[c].initial = 1
    PROVE  /\ w.node[c].detach /\ ~w.node[c].workload =>
                  Is(SeenInitial(w, c), In(w.proc, c, "free"),
                     Two(w.node, c, None, q, Less(Without(w.node[q], c))), w.bug)
           /\ ~w.node[c].detach /\ w.node[q].devs # {} =>
                  Is(SeenInitial(w, c), In(w.proc, c, "running"),
                     Two(w.node, c, Followed(Grown(w.node[c]), c, w.node[q]), q, Less(Without(w.node[q], c))),
                     w.bug)
<1>1. PICK v : v = [w EXCEPT !.node[c].initial = @ + 1]
  BY Zenon
<1>2. w.node[c] # None
  BY Zenon DEF Newborn
<1>3. Is(v, w.proc, [w.node EXCEPT ![c] = Grown(w.node[c])], w.bug) /\ SeenInitial(w, c) = ForkNew(v, c)
  BY <1>1, <1>2, Seen, Zenon
<1>4. Counted(w, c, q, v)
  BY <1>3, SeenNewborn, Zenon
<1>5. ASSUME w.node[c].detach, ~w.node[c].workload
      PROVE  Is(SeenInitial(w, c), In(w.proc, c, "free"),
                Two(w.node, c, None, q, Less(Without(w.node[q], c))), w.bug)
  <2>1. Is(ForkNew(v, c), In(v.proc, c, "free"),
           Two(v.node, c, None, q, Less(Without(v.node[q], c))), v.bug)
    BY <1>4, <1>5, ForkNewDetached, Zenon DEF Counted
  <2> QED BY <1>3, <1>4, <2>1, Zenon DEF Counted
<1>6. ASSUME ~w.node[c].detach, w.node[q].devs # {}
      PROVE  Is(SeenInitial(w, c), In(w.proc, c, "running"),
                Two(w.node, c, Followed(Grown(w.node[c]), c, w.node[q]), q, Less(Without(w.node[q], c))),
                w.bug)
  <2>1. Is(ForkNew(v, c), In(v.proc, c, "running"),
           Two(v.node, c, Followed(v.node[c], c, v.node[q]), q, Less(Without(v.node[q], c))), v.bug)
    BY <1>4, <1>6, ForkNewCloned, Zenon DEF Counted
  <2> QED BY <1>3, <1>4, <2>1, Zenon DEF Counted
<1> QED BY <1>5, <1>6, Zenon

\* The node of a process that pid_list does not know.
Fresh == NewNode(0, FALSE, {})

\* It is one, without a parent, children and devices.
LEMMA FreshNode ==
    /\ Fresh \in Node /\ Fresh # None /\ Fresh.initial = 0 /\ ~Fresh.detach /\ ~Fresh.workload
    /\ Fresh.refcount = 1 /\ Fresh.parent = None /\ Fresh.children = {} /\ Fresh.devs = {}
<1>1. Fresh \in Node
  BY DEF Fresh, NewNode, Node
<1>2. /\ Fresh.initial = 0 /\ ~Fresh.detach /\ ~Fresh.workload
      /\ Fresh.refcount = 1 /\ Fresh.parent = None /\ Fresh.children = {} /\ Fresh.devs = {}
  BY Zenon DEF Fresh, NewNode
<1> QED BY <1>1, <1>2, PtraceAssumption, Zenon

\* __new_or_interrupt() makes a node for a child it hears of first.
LEMMA TrapUnknown ==
    ASSUME NEW w \in Worlds, NEW p \in Pids, w.node[p] = None
    PROVE  Is(NewOrInterrupt(w, p), w.proc, [w.node EXCEPT ![p] = Grown(Fresh)], w.bug)
<1>1. PICK v : v = FindNew(w, p)
  BY Zenon
<1>2. v = [w EXCEPT !.node[p] = Fresh]
  BY <1>1, Zenon DEF FindNew, Fresh
<1>3. w.node \in NodeFns /\ w.bug \in BOOLEAN
  BY Zenon DEF Worlds
<1>4. v \in Worlds /\ v.proc = w.proc /\ v.node = [w.node EXCEPT ![p] = Fresh] /\ v.bug = w.bug
  BY <1>2, <1>3, FreshNode, Zenon DEF Worlds, NodeFns
<1>5. v.node[p] = Fresh
  BY <1>3, <1>4, Zenon DEF NodeFns
<1>6. PICK u : u = [v EXCEPT !.bug = w.bug]
  BY Zenon
<1>7. u \in Worlds /\ u.proc = w.proc /\ u.node = v.node /\ u.bug = w.bug
  BY <1>3, <1>4, <1>6, Zenon DEF Worlds
<1>8. NewOrInterrupt(w, p) = SeenInitial(u, p)
  <2>1. Fresh.initial # 2 /\ Fresh.parent = None
    BY FreshNode
  <2>2. NewOrInterrupt(w, p) = SeenInitial([v EXCEPT !.bug = v.bug \/ FALSE], p)
    BY <1>1, <1>5, <2>1, Zenon DEF NewOrInterrupt
  <2>3. (v.bug \/ FALSE) = w.bug
    BY <1>3, <1>4, Zenon
  <2> QED BY <1>6, <2>2, <2>3, Zenon
<1>9. PICK t : t = [u EXCEPT !.node[p].initial = @ + 1]
  BY Zenon
<1>10. Is(t, u.proc, [u.node EXCEPT ![p] = Grown(u.node[p])], u.bug) /\ SeenInitial(u, p) = t
  <2>1. u \in Worlds /\ u.node[p] # None /\ u.node[p].initial = 0 /\ u.node[p].initial \in {0, 1}
    BY <1>5, <1>7, FreshNode, Zenon
  <2> QED BY <1>9, <2>1, Seen, Zenon
<1>11. [u.node EXCEPT ![p] = Grown(u.node[p])] = [w.node EXCEPT ![p] = Grown(Fresh)]
  BY <1>3, <1>4, <1>5, <1>7, Zenon DEF NodeFns
<1> QED BY <1>7, <1>8, <1>10, <1>11, Zenon

\* A trap of a process that it knows: the message about detach needs a parent that differs.
LEMMA TrapKnown ==
    ASSUME NEW w \in Worlds, NEW p \in Pids, w.node[p] # None,
           w.node[p].parent # None => w.node[w.node[p].parent].detach = w.node[p].detach
    PROVE  /\ w.node[p].initial # 2 => NewOrInterrupt(w, p) = SeenInitial(w, p)
           /\ w.node[p].initial = 2 /\ w.node[p].detach => NewOrInterrupt(w, p) = Detach(w, p)
           /\ w.node[p].initial = 2 /\ ~w.node[p].detach => NewOrInterrupt(w, p) = Cont(w, p)
<1> DEFINE q == w.node[p].parent
           unequal == q # None /\ w.node[q] # None /\ w.node[q].detach # w.node[p].detach
<1>1. FindNew(w, p) = w
  BY Zenon DEF FindNew
<1>2. ~unequal
  BY Zenon
<1>3. [w EXCEPT !.bug = @ \/ unequal] = w
  <2>1. w.bug \in BOOLEAN
    BY Zenon DEF Worlds
  <2>2. (w.bug \/ unequal) = w.bug
    BY <1>2, <2>1, Zenon
  <2> HIDE DEF unequal
  <2> QED BY <2>2, Zenon DEF Worlds
<1>4. NewOrInterrupt(w, p) = LET u == [w EXCEPT !.bug = @ \/ unequal]
                             IN  IF w.node[p].initial # 2 THEN SeenInitial(u, p)
                                 ELSE IF w.node[p].detach THEN Detach(u, p)
                                 ELSE Cont(u, p)
  BY <1>1, Zenon DEF NewOrInterrupt
<1> HIDE DEF unequal
<1> QED BY <1>3, <1>4, Zenon

\* A node with one more reference, and with one more new child.
More(n) == [n EXCEPT !.refcount = @ + 1]
Listing(n, c) == [n EXCEPT !.children = @ \cup {c}]

\* The node n of the child that the FORK stop of p tells of; m is the node of p.
Child(n, p, m) == [n EXCEPT !.detach = m.detach, !.workload = m.workload, !.parent = p]

\* A node is its fields.
LEMMA NodeEq ==
    ASSUME NEW n \in Node, NEW m \in Node,
           n.initial = m.initial, n.detach = m.detach, n.workload = m.workload,
           n.refcount = m.refcount, n.parent = m.parent, n.children = m.children, n.devs = m.devs
    PROVE  n = m
BY DEF Node

\* They are nodes, and nothing else changes.
LEMMA MoreNode ==
    ASSUME NEW n \in Node
    PROVE  /\ More(n) \in Node /\ More(n) # None /\ Less(More(n)) = n
           /\ More(n).refcount = n.refcount + 1 /\ More(n).refcount > 1
           /\ More(n).initial = n.initial /\ More(n).detach = n.detach
           /\ More(n).workload = n.workload /\ More(n).parent = n.parent
           /\ More(n).children = n.children /\ More(n).devs = n.devs
<1>1. More(n) \in Node
  BY DEF More, Node
<1>2. /\ More(n).refcount = n.refcount + 1 /\ More(n).refcount > 1
      /\ More(n).initial = n.initial /\ More(n).detach = n.detach
      /\ More(n).workload = n.workload /\ More(n).parent = n.parent
      /\ More(n).children = n.children /\ More(n).devs = n.devs
  BY DEF More, Node
<1>3. Less(More(n)) = n
  <2>1. PICK m : m = More(n)
    BY Zenon
  <2>2. Less(m) = [m EXCEPT !.refcount = @ - 1]
    BY <1>2, <2>1, Zenon DEF Less
  <2>3. /\ Less(m) \in Node /\ Less(m).refcount = n.refcount
        /\ Less(m).initial = n.initial /\ Less(m).detach = n.detach
        /\ Less(m).workload = n.workload /\ Less(m).parent = n.parent
        /\ Less(m).children = n.children /\ Less(m).devs = n.devs
    BY <1>1, <1>2, <2>1, <2>2 DEF Node
  <2> QED BY <2>1, <2>3, NodeEq, Zenon
<1> QED BY <1>1, <1>2, <1>3, PtraceAssumption, Zenon

\* The parent lists its new child.
LEMMA ListingNode ==
    ASSUME NEW n \in Node, NEW c \in Pids
    PROVE  /\ Listing(n, c) \in Node /\ Listing(n, c) # None
           /\ c \notin n.children => Without(Listing(n, c), c) = n
           /\ Listing(n, c).children = n.children \cup {c}
           /\ Listing(n, c).refcount = n.refcount
           /\ Listing(n, c).initial = n.initial /\ Listing(n, c).detach = n.detach
           /\ Listing(n, c).workload = n.workload /\ Listing(n, c).parent = n.parent
           /\ Listing(n, c).devs = n.devs
<1>1. Listing(n, c) \in Node
  BY DEF Listing, Node
<1>2. /\ Listing(n, c).children = n.children \cup {c}
      /\ Listing(n, c).refcount = n.refcount
      /\ Listing(n, c).initial = n.initial /\ Listing(n, c).detach = n.detach
      /\ Listing(n, c).workload = n.workload /\ Listing(n, c).parent = n.parent
      /\ Listing(n, c).devs = n.devs
  BY DEF Listing, Node
<1>3. ASSUME c \notin n.children PROVE Without(Listing(n, c), c) = n
  <2>1. PICK m : m = Listing(n, c)
    BY Zenon
  <2>2. /\ Without(m, c) \in Node /\ Without(m, c).children = n.children
        /\ Without(m, c).refcount = n.refcount
        /\ Without(m, c).initial = n.initial /\ Without(m, c).detach = n.detach
        /\ Without(m, c).workload = n.workload /\ Without(m, c).parent = n.parent
        /\ Without(m, c).devs = n.devs
    BY <1>1, <1>2, <1>3, <2>1 DEF Without, Node
  <2> QED BY <2>1, <2>2, NodeEq, Zenon
<1> QED BY <1>1, <1>2, <1>3, PtraceAssumption, Zenon

\* The new child knows its parent.
LEMMA ChildNode ==
    ASSUME NEW n \in Node, NEW p \in Pids, NEW m \in Node
    PROVE  /\ Child(n, p, m) \in Node /\ Child(n, p, m) # None
           /\ Child(n, p, m).detach = m.detach /\ Child(n, p, m).workload = m.workload
           /\ Child(n, p, m).parent = p
           /\ Child(n, p, m).initial = n.initial /\ Child(n, p, m).refcount = n.refcount
           /\ Child(n, p, m).children = n.children /\ Child(n, p, m).devs = n.devs
<1>1. Child(n, p, m) \in Node
  BY Zenon DEF Child, Node
<1>2. /\ Child(n, p, m).detach = m.detach /\ Child(n, p, m).workload = m.workload
      /\ Child(n, p, m).parent = p
      /\ Child(n, p, m).initial = n.initial /\ Child(n, p, m).refcount = n.refcount
      /\ Child(n, p, m).children = n.children /\ Child(n, p, m).devs = n.devs
  BY DEF Child, Node
<1> QED BY <1>1, <1>2, PtraceAssumption, Zenon

\* What holds of p and its child c when the FORK stop of p is read.
ForkReady(w, p, c) ==
    /\ p # c
    /\ w.proc[p].state = "stopped"
    /\ w.node[p] # None /\ w.node[p].parent = None
    /\ Unlisted(w.node, p) /\ Unlisted(w.node, c)
    /\ w.node[p].refcount = 1 => w.node[p].children = {}
    /\ w.node[p].detach => ~w.node[p].workload
    /\ w.node[c] # None =>
           /\ w.node[c].initial = 1 /\ w.node[c].refcount = 1 /\ w.node[c].children = {}
           /\ w.proc[c].state = "stopped"

\* The node of the child, the state of the parent afterwards, and its node.
ChildOf(w, c) == IF w.node[c] = None THEN Fresh ELSE w.node[c]
After(w, p) == IF w.node[p].detach THEN "free" ELSE "running"
Held(w, p) == IF w.node[p].detach THEN w.node[p] ELSE More(w.node[p])

\* The child is a node without children.
LEMMA ChildOfNode ==
    ASSUME NEW w \in Worlds, NEW p \in Pids, NEW c \in Pids, ForkReady(w, p, c)
    PROVE  /\ ChildOf(w, c) \in Node /\ ChildOf(w, c) # None
           /\ ChildOf(w, c).children = {} /\ ChildOf(w, c).refcount = 1
           /\ w.node[c] # None => ChildOf(w, c).initial = 1
           /\ w.node[c] = None => ChildOf(w, c) = Fresh
           /\ w.node \in NodeFns /\ w.node[p] \in Node
<1>1. w.node \in NodeFns /\ w.node[p] \in Node /\ (w.node[c] # None => w.node[c] \in Node)
  BY Zenon DEF Worlds, NodeFns, ForkReady
<1> QED BY <1>1, FreshNode, Zenon DEF ChildOf, ForkReady

\* __fork() holds the parent and makes a node for the child.
LEMMA ForkHeld ==
    ASSUME NEW w \in Worlds, NEW p \in Pids, NEW c \in Pids, ForkReady(w, p, c)
    PROVE  Is(FindNew(Get(w, p), c), w.proc, Two(w.node, p, More(w.node[p]), c, ChildOf(w, c)), w.bug)
<1>1. w.node \in NodeFns /\ w.node[p] \in Node /\ p # c /\ w.node[p] # None
  BY Zenon DEF Worlds, NodeFns, ForkReady
<1>2. PICK m : m = More(w.node[p])
  BY Zenon
<1>3. m \in Node
  BY <1>1, <1>2, MoreNode, Zenon
<1>4. PICK g : g = Get(w, p)
  BY Zenon
<1>5. g = [w EXCEPT !.node[p] = m]
  BY <1>1, <1>2, <1>4 DEF Get, More
<1>6. g \in Worlds /\ g.proc = w.proc /\ g.node = [w.node EXCEPT ![p] = m] /\ g.bug = w.bug
  BY <1>1, <1>3, <1>5, Zenon DEF Worlds, NodeFns
<1>7. g.node[c] = w.node[c]
  BY <1>1, <1>6, Zenon DEF NodeFns
<1>8. CASE w.node[c] = None
  <2>1. FindNew(g, c) = [g EXCEPT !.node[c] = Fresh]
    BY <1>7, <1>8, Zenon DEF FindNew, Fresh
  <2>2. Is(FindNew(g, c), w.proc, [g.node EXCEPT ![c] = Fresh], w.bug)
    <3>1. Is(FindNew(g, c), g.proc, [g.node EXCEPT ![c] = Fresh], g.bug)
      BY <1>6, <2>1, FreshNode, SetNode, Zenon
    <3> QED BY <1>6, <3>1, Zenon
  <2>3. [g.node EXCEPT ![c] = Fresh] = Two(w.node, p, m, c, Fresh)
    BY <1>1, <1>6, Zenon DEF Two, NodeFns
  <2> QED BY <1>2, <1>4, <1>8, <2>2, <2>3, Zenon DEF ChildOf
<1>9. CASE w.node[c] # None
  <2>1. FindNew(g, c) = g
    BY <1>7, <1>9, Zenon DEF FindNew
  <2>2. g.node = Two(w.node, p, m, c, w.node[c])
    BY <1>1, <1>6, Zenon DEF Two, NodeFns
  <2> QED BY <1>2, <1>4, <1>6, <1>9, <2>1, <2>2, Zenon DEF ChildOf, Is
<1> QED BY <1>8, <1>9, Zenon

\* __fork() lets the parent go on, or detaches it.
LEMMA ForkResumed ==
    ASSUME NEW w \in Worlds, NEW p \in Pids, NEW c \in Pids, ForkReady(w, p, c),
           NEW h, h = FindNew(Get(w, p), c)
    PROVE  Is(IF h.node[p].detach THEN Detach(h, p) ELSE Cont(h, p),
              In(w.proc, p, After(w, p)), Two(w.node, p, Held(w, p), c, ChildOf(w, c)), w.bug)
<1>1. PICK n, m, k : n = w.node[p] /\ m = More(n) /\ k = ChildOf(w, c)
  BY Zenon
<1>2. w.node \in NodeFns /\ n \in Node /\ k \in Node /\ k # None /\ k.children = {} /\ p # c
  BY <1>1, ChildOfNode, Zenon DEF ForkReady
<1>3. /\ m \in Node /\ m # None /\ Less(m) = n /\ m.refcount > 1 /\ ~(m.refcount = 1)
      /\ m.detach = n.detach /\ m.workload = n.workload /\ m.children = n.children
  <2>1. /\ m \in Node /\ m # None /\ Less(m) = n /\ m.refcount > 1
        /\ m.detach = n.detach /\ m.workload = n.workload /\ m.children = n.children
    BY <1>1, <1>2, MoreNode, Zenon
  <2>2. ~(m.refcount = 1)
    BY <2>1 DEF Node
  <2> QED BY <2>1, <2>2, Zenon
<1>4. h \in Worlds /\ h.proc = w.proc /\ h.node = Two(w.node, p, m, c, k) /\ h.bug = w.bug
  BY <1>1, ForkHeld, Zenon DEF Is
<1>5. h.node[p] = m /\ h.node[c] = k /\ \A x \in Pids \ {p, c} : h.node[x] = w.node[x]
  BY <1>2, <1>4, Zenon DEF Two
<1>6. CASE n.detach
  <2>1. Unlisted(h.node, p)
    <3> SUFFICES ASSUME NEW x \in Pids, h.node[x] # None PROVE p \notin h.node[x].children
      BY Zenon DEF Unlisted
    <3>1. CASE x = p
      BY <1>1, <1>3, <1>5, <3>1, Zenon DEF ForkReady, Unlisted
    <3>2. CASE x = c
      BY <1>2, <1>5, <3>2, Zenon
    <3>3. CASE x \notin {p, c}
      BY <1>5, <3>3, Zenon DEF ForkReady, Unlisted
    <3> QED BY <3>1, <3>2, <3>3, Zenon
  <2>2. /\ h.node[p] # None /\ h.proc[p].state = "stopped" /\ ~h.node[p].workload
        /\ h.node[p].refcount = 1 => h.node[p].children = {}
        /\ h.node[p].refcount > 1
    BY <1>1, <1>3, <1>4, <1>5, <1>6, Zenon DEF ForkReady
  <2>3. Is(Detach(h, p), In(h.proc, p, "free"), [h.node EXCEPT ![p] = Less(h.node[p])], h.bug)
    BY <1>4, <2>1, <2>2, DetachLess, Zenon
  <2>4. [h.node EXCEPT ![p] = Less(h.node[p])] = Two(w.node, p, n, c, k)
    BY <1>2, <1>3, <1>4, <1>5, Zenon DEF Two
  <2> QED BY <1>1, <1>3, <1>4, <1>5, <1>6, <2>3, <2>4, Zenon DEF After, Held
<1>7. CASE ~n.detach
  <2>1. Is(Cont(h, p), In(h.proc, p, "running"), h.node, h.bug)
    BY <1>4, Resumed, Zenon DEF ForkReady
  <2> QED BY <1>1, <1>3, <1>4, <1>5, <1>7, <2>1, Zenon DEF After, Held
<1> QED BY <1>6, <1>7, Zenon

\* __fork() links the two.
LEMMA ForkLinked ==
    ASSUME NEW w \in Worlds, NEW p \in Pids, NEW c \in Pids, ForkReady(w, p, c)
    PROVE  \E l : /\ Forked(w, p, c) = SeenInitial(l, c)
                  /\ Is(l, In(w.proc, p, After(w, p)),
                        Two(w.node, p, Listing(Held(w, p), c), c, Child(ChildOf(w, c), p, w.node[p])),
                        w.bug)
<1>1. PICK n, m, k : n = w.node[p] /\ m = Held(w, p) /\ k = ChildOf(w, c)
  BY Zenon
<1>2. w.node \in NodeFns /\ n \in Node /\ k \in Node /\ k # None /\ p # c /\ n # None
  BY <1>1, ChildOfNode, Zenon DEF ForkReady
<1>3. m \in Node /\ m # None
  BY <1>1, <1>2, MoreNode, Zenon DEF Held
<1>4. PICK h : h = FindNew(Get(w, p), c)
  BY Zenon
<1>5. h.node[p].detach = n.detach /\ h.node[p].workload = n.workload
  <2>1. Is(h, w.proc, Two(w.node, p, More(n), c, k), w.bug)
    BY <1>1, <1>4, ForkHeld, Zenon
  <2>2. h.node[p] = More(n)
    BY <2>1, Zenon DEF Is, Two
  <2> QED BY <1>2, <2>2, MoreNode
<1>6. PICK r : r = IF h.node[p].detach THEN Detach(h, p) ELSE Cont(h, p)
  OBVIOUS
<1>7. r \in Worlds /\ r.proc = In(w.proc, p, After(w, p)) /\ r.node = Two(w.node, p, m, c, k) /\ r.bug = w.bug
  <2>1. Is(r, In(w.proc, p, After(w, p)), Two(w.node, p, m, c, k), w.bug)
    BY <1>1, <1>4, <1>6, ForkResumed, Zenon
  <2> QED BY <2>1, Zenon DEF Is
<1>8. r.node[p] = m /\ r.node[c] = k /\ r.node \in NodeFns
  BY <1>2, <1>7, Zenon DEF Two, Worlds
<1>9. PICK ch, pn : ch = Child(k, p, n) /\ pn = Listing(m, c)
  BY Zenon
<1>10. ch \in Node /\ pn \in Node
  BY <1>2, <1>3, <1>9, ChildNode, ListingNode, Zenon
<1>11. PICK l : l = [r EXCEPT !.node = [r.node EXCEPT ![c] = ch, ![p] = pn]]
  BY Zenon
<1>12. [r.node EXCEPT ![c] = ch, ![p] = pn] = Two(w.node, p, pn, c, ch)
  BY <1>2, <1>7, <1>8 DEF Two, NodeFns
<1>13. Two(w.node, p, pn, c, ch) \in NodeFns
  BY <1>2, <1>10, Zenon DEF Two, NodeFns
<1>14. Is(l, r.proc, Two(w.node, p, pn, c, ch), r.bug)
  BY <1>7, <1>11, <1>12, <1>13, Zenon DEF Is, Worlds
<1>15. Forked(w, p, c) = SeenInitial(l, c)
  <2>1. ch = [r.node[c] EXCEPT !.detach = IF TRUE THEN h.node[p].detach ELSE TRUE,
                               !.workload = TRUE /\ h.node[p].workload,
                               !.parent = IF TRUE THEN p ELSE None]
    <3>1. (TRUE /\ n.workload) = n.workload
      BY <1>2, Zenon DEF Node
    <3> QED BY <1>5, <1>8, <1>9, <3>1, Zenon DEF Child
  <2>2. pn = IF r.node[p] = None THEN None ELSE [r.node[p] EXCEPT !.children = @ \cup {c}]
    BY <1>3, <1>8, <1>9, Zenon DEF Listing
  <2>3. (w.node[p] # None) = TRUE
    BY <1>1, <1>2, Zenon
  <2>4. Linked(w, p, c) = l
    BY <1>4, <1>6, <1>11, <2>1, <2>2, <2>3, Zenon DEF Linked
  <2> QED BY <2>4, Zenon DEF Forked
<1> QED BY <1>1, <1>7, <1>9, <1>14, <1>15, Zenon

\* __fork() of a child whose own stop was not read: it waits for that one.
LEMMA ForkedFirst ==
    ASSUME NEW w \in Worlds, NEW p \in Pids, NEW c \in Pids, ForkReady(w, p, c), w.node[c] = None
    PROVE  Is(Forked(w, p, c), In(w.proc, p, After(w, p)),
              Two(w.node, p, Listing(Held(w, p), c), c, Grown(Child(Fresh, p, w.node[p]))), w.bug)
<1>1. PICK l : /\ Forked(w, p, c) = SeenInitial(l, c)
               /\ Is(l, In(w.proc, p, After(w, p)),
                     Two(w.node, p, Listing(Held(w, p), c), c, Child(ChildOf(w, c), p, w.node[p])),
                     w.bug)
  BY ForkLinked, Zenon
<1>2. PICK ch, pn : ch = Child(Fresh, p, w.node[p]) /\ pn = Listing(Held(w, p), c)
  BY Zenon
<1>3. p # c /\ w.node[p] \in Node /\ ChildOf(w, c) = Fresh
  BY ChildOfNode, Zenon DEF ForkReady
<1>4. ch # None /\ ch.initial = 0
  BY <1>2, <1>3, FreshNode, ChildNode
<1>5. l \in Worlds /\ l.proc = In(w.proc, p, After(w, p)) /\ l.node = Two(w.node, p, pn, c, ch) /\ l.bug = w.bug
  BY <1>1, <1>2, <1>3, Zenon DEF Is
<1>6. l.node[c] = ch
  BY <1>3, <1>5, Zenon DEF Two
<1>7. PICK v : v = [l EXCEPT !.node[c].initial = @ + 1]
  BY Zenon
<1>8. Is(v, l.proc, [l.node EXCEPT ![c] = Grown(l.node[c])], l.bug) /\ SeenInitial(l, c) = v
  <2>1. l.node[c] # None /\ l.node[c].initial = 0 /\ l.node[c].initial \in {0, 1}
    BY <1>4, <1>6, Zenon
  <2> QED BY <1>5, <1>7, <2>1, Seen, Zenon
<1>9. [l.node EXCEPT ![c] = Grown(l.node[c])] = Two(w.node, p, pn, c, Grown(ch))
  BY <1>3, <1>5, <1>6, Zenon DEF Two
<1> QED BY <1>1, <1>2, <1>5, <1>8, <1>9, Zenon

\* __fork() of a child whose own stop was read: it is detached with its parent, or followed.
LEMMA ForkedSecond ==
    ASSUME NEW w \in Worlds, NEW p \in Pids, NEW c \in Pids, ForkReady(w, p, c), w.node[c] # None,
           ~w.node[p].detach => w.node[p].devs # {}
    PROVE  /\ w.node[p].detach =>
                  Is(Forked(w, p, c), In(In(w.proc, p, "free"), c, "free"),
                     Two(w.node, p, Less(w.node[p]), c, None), w.bug)
           /\ ~w.node[p].detach =>
                  Is(Forked(w, p, c), In(In(w.proc, p, "running"), c, "running"),
                     Two(w.node, p, w.node[p], c,
                         Followed(Grown(Child(w.node[c], p, w.node[p])), c, Listing(More(w.node[p]), c))),
                     w.bug)
<1>1. PICK n, m, k, ch, pn : /\ n = w.node[p] /\ m = Held(w, p) /\ k = w.node[c]
                             /\ ch = Child(k, p, n) /\ pn = Listing(m, c)
  BY Zenon
<1>2. PICK l : /\ Forked(w, p, c) = SeenInitial(l, c)
               /\ Is(l, In(w.proc, p, After(w, p)), Two(w.node, p, pn, c, ch), w.bug)
  <2>1. ChildOf(w, c) = k
    BY <1>1, Zenon DEF ChildOf
  <2> QED BY <1>1, <2>1, ForkLinked, Zenon
<1>3. /\ w.node \in NodeFns /\ n \in Node /\ k \in Node /\ p # c
      /\ k.initial = 1 /\ k.refcount = 1 /\ k.children = {}
  BY <1>1, ChildOfNode, Zenon DEF ForkReady, ChildOf
<1>4. /\ m \in Node /\ m.children = n.children /\ m.parent = n.parent /\ m.devs = n.devs
      /\ m.refcount = 1 => n.detach /\ n.refcount = 1
  <2>1. CASE n.detach
    BY <1>1, <1>3, <2>1, Zenon DEF Held
  <2>2. CASE ~n.detach
    <3>1. /\ m \in Node /\ m.children = n.children /\ m.parent = n.parent /\ m.devs = n.devs
          /\ m.refcount > 1
      BY <1>1, <1>3, <2>2, MoreNode, Zenon DEF Held
    <3>2. m.refcount # 1
      BY <3>1 DEF Node
    <3> QED BY <3>1, <3>2, Zenon
  <2> QED BY <2>1, <2>2, Zenon
<1>5. /\ ch \in Node /\ ch # None /\ ch.initial = 1 /\ ch.detach = n.detach /\ ch.workload = n.workload
      /\ ch.parent = p /\ ch.refcount = 1 /\ ch.children = {}
  BY <1>1, <1>3, ChildNode
<1>6. c \notin n.children
  BY <1>1, Zenon DEF ForkReady, Unlisted
<1>7. /\ pn \in Node /\ pn # None /\ Without(pn, c) = m
      /\ pn.children = n.children \cup {c} /\ pn.refcount = m.refcount
      /\ pn.parent = n.parent /\ pn.devs = n.devs
  BY <1>1, <1>4, <1>6, ListingNode
<1>8. /\ l \in Worlds /\ l.proc = In(w.proc, p, After(w, p))
      /\ l.node = Two(w.node, p, pn, c, ch) /\ l.bug = w.bug
  BY <1>2, Zenon DEF Is
<1>9. l.node[p] = pn /\ l.node[c] = ch /\ \A x \in Pids \ {p, c} : l.node[x] = w.node[x]
  BY <1>3, <1>8, Zenon DEF Two
<1>10. Newborn(l, c, p)
  <2>1. l.proc[c].state = "stopped"
    <3>1. w.proc \in Procs
      BY Zenon DEF Worlds
    <3> QED BY <1>3, <1>8, <3>1, Zenon DEF In, Procs, ForkReady
  <2>2. ASSUME NEW x \in Pids, l.node[x] # None
        PROVE  (x # p => c \notin l.node[x].children) /\ p \notin l.node[x].children
    <3>1. CASE x = p
      BY <1>1, <1>3, <1>7, <1>9, <3>1, Zenon DEF ForkReady, Unlisted
    <3>2. CASE x = c
      BY <1>5, <1>9, <3>2, Zenon
    <3>3. CASE x \notin {p, c}
      BY <1>9, <2>2, <3>3, Zenon DEF ForkReady, Unlisted
    <3> QED BY <3>1, <3>2, <3>3, Zenon
  <2>3. pn.parent = None /\ (pn.refcount = 1 => pn.children \subseteq {c})
    BY <1>1, <1>4, <1>7, Zenon DEF ForkReady
  <2> QED BY <1>3, <1>5, <1>7, <1>9, <2>1, <2>2, <2>3, Zenon DEF Newborn, ListedBy, Unlisted
<1>11. ASSUME NEW x, NEW y PROVE Two(l.node, c, x, p, y) = Two(w.node, p, y, c, x)
  BY <1>3, <1>9, Zenon DEF Two
<1>12. ASSUME n.detach
       PROVE  Is(Forked(w, p, c), In(In(w.proc, p, "free"), c, "free"), Two(w.node, p, Less(n), c, None), w.bug)
  <2>1. m = n /\ After(w, p) = "free" /\ ~n.workload
    BY <1>1, <1>12, Zenon DEF Held, After, ForkReady
  <2>2. l.node[c].initial = 1 /\ l.node[c].detach /\ ~l.node[c].workload
    BY <1>5, <1>9, <1>12, <2>1, Zenon
  <2>3. Is(SeenInitial(l, c), In(l.proc, c, "free"), Two(l.node, c, None, p, Less(Without(l.node[p], c))), l.bug)
    BY <1>8, <1>10, <2>2, SeenSecond, Zenon
  <2>4. Two(l.node, c, None, p, Less(n)) = Two(w.node, p, Less(n), c, None)
    BY <1>11, Zenon
  <2>5. Without(l.node[p], c) = n
    BY <1>7, <1>9, <2>1, Zenon
  <2>6. In(l.proc, c, "free") = In(In(w.proc, p, "free"), c, "free")
    BY <1>8, <2>1, Zenon
  <2> QED BY <1>2, <1>8, <2>3, <2>4, <2>5, <2>6, Zenon
<1>13. ASSUME ~n.detach
       PROVE  Is(Forked(w, p, c), In(In(w.proc, p, "running"), c, "running"),
                 Two(w.node, p, n, c, Followed(Grown(ch), c, pn)), w.bug)
  <2>1. m = More(n) /\ After(w, p) = "running"
    BY <1>1, <1>13, Zenon DEF Held, After
  <2>2. l.node[c].initial = 1 /\ ~l.node[c].detach /\ l.node[p].devs # {}
    BY <1>1, <1>5, <1>7, <1>9, <1>13, Zenon
  <2>3. Is(SeenInitial(l, c), In(l.proc, c, "running"),
           Two(l.node, c, Followed(Grown(l.node[c]), c, l.node[p]), p, Less(Without(l.node[p], c))), l.bug)
    BY <1>8, <1>10, <2>2, SeenSecond, Zenon
  <2>4. Less(m) = n
    BY <1>3, <2>1, MoreNode, Zenon
  <2>5. Less(Without(l.node[p], c)) = n
    BY <1>7, <1>9, <2>4, Zenon
  <2>6. In(l.proc, c, "running") = In(In(w.proc, p, "running"), c, "running")
    BY <1>8, <2>1, Zenon
  <2>7. PICK f : f = Followed(Grown(ch), c, pn)
    BY Zenon
  <2>8. f = Followed(Grown(l.node[c]), c, l.node[p])
    BY <1>9, <2>7, Zenon
  <2>9. Two(l.node, c, f, p, n) = Two(w.node, p, n, c, f)
    BY <1>11, Zenon
  <2> QED BY <1>2, <1>8, <2>3, <2>5, <2>6, <2>7, <2>8, <2>9, Zenon
<1>14. n.detach \/ pn = Listing(More(n), c)
  BY <1>1, Zenon DEF Held
<1> QED BY <1>1, <1>12, <1>13, <1>14, Zenon

-----------------------------------------------------------------------------
(* The world that a handler starts from, and the nodes it leaves.          *)

\* The processes when the report of p was read, and then when p is in another state.
Read(P, p) == [P EXCEPT ![p] = [P[p] EXCEPT !.unread = FALSE]]

\* Reading the report of p changes nothing else.
LEMMA ReadFields ==
    ASSUME NEW P \in Procs, NEW p \in Pids
    PROVE  /\ Read(P, p) \in Procs
           /\ Read(P, p)[p].state = P[p].state /\ ~Read(P, p)[p].unread
           /\ Read(P, p)[p].stop = P[p].stop /\ Read(P, p)[p].pend = P[p].pend
           /\ \A x \in Pids \ {p} : Read(P, p)[x] = P[x]
<1>1. PICK r : r = [P[p] EXCEPT !.unread = FALSE]
  BY Zenon
<1>2. P[p] \in Proc
  BY Zenon DEF Procs
<1>3. r \in Proc /\ r.state = P[p].state /\ ~r.unread /\ r.stop = P[p].stop /\ r.pend = P[p].pend
  BY <1>1, <1>2, Zenon DEF Proc
<1>4. Read(P, p) = [P EXCEPT ![p] = r]
  BY <1>1, Zenon DEF Read
<1> QED BY <1>3, <1>4, Zenon DEF Procs

Shifted(Q, P, p, s) ==
    /\ Q \in Procs
    /\ Q[p].state = s /\ Q[p].unread = P[p].unread /\ Q[p].stop = P[p].stop /\ Q[p].pend = P[p].pend
    /\ \A x \in Pids \ {p} : Q[x] = P[x]

\* Nor does putting p in another state.
LEMMA InFields ==
    ASSUME NEW P \in Procs, NEW p \in Pids,
           NEW s \in {"none", "running", "stopped", "listening", "zombie", "gone", "free"}
    PROVE  Shifted(In(P, p, s), P, p, s)
BY DEF Shifted, In, Procs, Proc

\* ptrace_stop() hands this world to the handlers.
Handed(w, p) ==
    /\ w \in Worlds /\ w.proc = Read(proc, p) /\ w.node = node /\ w.bug = bug
    /\ w.proc \in Procs /\ w.node \in NodeFns
    /\ w.proc[p].state = proc[p].state /\ ~w.proc[p].unread
    /\ w.proc[p].stop = proc[p].stop /\ w.proc[p].pend = proc[p].pend
    /\ \A x \in Pids \ {p} : w.proc[x] = proc[x]

\* The world that ptrace_stop() hands to the handlers.
LEMMA ReadWorld ==
    ASSUME TypeOK, NEW p \in Pids, NEW w, w = [World EXCEPT !.proc[p].unread = FALSE]
    PROVE  Handed(w, p)
<1>1. proc \in Procs /\ node \in NodeFns /\ bug \in BOOLEAN
  BY Zenon DEF TypeOK, Procs, NodeFns
<1>2. PICK W, Q : W = World /\ Q = Read(proc, p)
  BY Zenon
<1>3. W \in Worlds /\ W.proc = proc /\ W.node = node /\ W.bug = bug
  BY <1>1, <1>2, Zenon DEF World, Worlds
<1>4. w = [W EXCEPT !.proc = Q]
  BY <1>2, <1>3 DEF Read
<1>5. /\ Q \in Procs /\ Q[p].state = proc[p].state /\ ~Q[p].unread
      /\ Q[p].stop = proc[p].stop /\ Q[p].pend = proc[p].pend
      /\ \A x \in Pids \ {p} : Q[x] = proc[x]
  BY <1>1, <1>2, ReadFields, Zenon
<1>6. w \in Worlds /\ w.proc = Q /\ w.node = node /\ w.bug = bug
  <2>1. Is(w, Q, W.node, W.bug)
    BY <1>3, <1>4, <1>5, Zenon DEF Is, Worlds
  <2> QED BY <1>3, <2>1, Zenon DEF Is
<1> QED BY <1>1, <1>2, <1>5, <1>6, Zenon DEF Handed

\* The world in which a process is reaped.
LEMMA Reaped ==
    ASSUME TypeOK, NEW p \in Pids, NEW w,
           w = [World EXCEPT !.proc[p] = [proc[p] EXCEPT !.state = "gone", !.unread = FALSE]]
    PROVE  /\ w \in Worlds /\ w.node = node /\ w.bug = bug /\ w.node \in NodeFns
           /\ w.proc[p].state = "gone" /\ \A x \in Pids \ {p} : w.proc[x] = proc[x]
<1>1. proc \in Procs /\ node \in NodeFns /\ bug \in BOOLEAN
  BY Zenon DEF TypeOK, Procs, NodeFns
<1>2. PICK r : r = [proc[p] EXCEPT !.state = "gone", !.unread = FALSE]
  BY Zenon
<1>3. r \in Proc /\ r.state = "gone"
  <2>1. PICK o : o = proc[p]
    BY Zenon
  <2>2. o \in Proc
    BY <1>1, <2>1, Zenon DEF Procs
  <2>3. r = [o EXCEPT !.state = "gone", !.unread = FALSE]
    BY <1>2, <2>1, Zenon
  <2> QED BY <2>2, <2>3, Zenon DEF Proc
<1>4. PICK W, Q : W = World /\ Q = [proc EXCEPT ![p] = r]
  BY Zenon
<1>5. W \in Worlds /\ W.proc = proc /\ W.node = node /\ W.bug = bug
  BY <1>1, <1>4, Zenon DEF World, Worlds
<1>6. w = [W EXCEPT !.proc = Q]
  BY <1>2, <1>4, <1>5
<1>7. Q \in Procs /\ Q[p].state = "gone" /\ \A x \in Pids \ {p} : Q[x] = proc[x]
  BY <1>1, <1>3, <1>4, Zenon DEF Procs
<1>8. Is(w, Q, W.node, W.bug)
  BY <1>5, <1>6, <1>7, Zenon DEF Is, Worlds
<1> QED BY <1>1, <1>5, <1>7, <1>8, Zenon DEF Is

\* The node of the parent and that of the child, when pid_list did not know the child.
LEMMA LinkedParent ==
    ASSUME NEW n \in Node, NEW c \in Pids, n # None
    PROVE  /\ Alike(Listing(n, c), n)
           /\ Listing(n, c).children = n.children \cup {c} /\ Listing(n, c).refcount = n.refcount
           /\ Alike(Listing(More(n), c), n)
           /\ Listing(More(n), c).children = n.children \cup {c}
           /\ Listing(More(n), c).refcount = n.refcount + 1
<1>1. PICK m : m = More(n)
  BY Zenon
<1>2. /\ m \in Node /\ m.refcount = n.refcount + 1 /\ m.children = n.children /\ Alike(m, n)
  <2>1. More(n) \in Node /\ More(n).refcount = n.refcount + 1 /\ More(n).children = n.children
    BY MoreNode, Zenon
  <2>2. Alike(More(n), n)
    BY MoreNode, Zenon DEF Alike
  <2> QED BY <1>1, <2>1, <2>2, Zenon
<1>3. /\ Listing(n, c).children = n.children \cup {c} /\ Listing(n, c).refcount = n.refcount
      /\ Listing(m, c).children = m.children \cup {c} /\ Listing(m, c).refcount = m.refcount
  BY <1>2, ListingNode, Zenon
<1>4. Alike(Listing(n, c), n) /\ Alike(Listing(m, c), m)
  BY <1>2, ListingNode, Zenon DEF Alike
<1>5. Alike(Listing(m, c), n)
  BY <1>2, <1>4, Zenon DEF Alike
<1> QED BY <1>1, <1>2, <1>3, <1>4, <1>5, Zenon

\* A new child of p, whose node is m.
Infant(k, p, m) ==
    /\ k # None /\ k.initial = 1 /\ k.parent = p /\ k.detach = m.detach /\ k.workload = m.workload
    /\ k.refcount = 1 /\ k.children = {} /\ k.devs = {}

\* The child that a FORK stop tells of first.
LEMMA LinkedChild ==
    ASSUME NEW m \in Node, NEW p \in Pids
    PROVE  Infant(Grown(Child(Fresh, p, m)), p, m)
<1>1. PICK k : k = Child(Fresh, p, m)
  BY Zenon
<1>2. /\ k \in Node /\ k.detach = m.detach /\ k.workload = m.workload /\ k.parent = p
      /\ k.initial = 0 /\ k.refcount = 1 /\ k.children = {} /\ k.devs = {}
  BY <1>1, FreshNode, ChildNode
<1>3. /\ Grown(k) \in Node /\ Grown(k).initial = k.initial + 1
      /\ Grown(k).detach = k.detach /\ Grown(k).workload = k.workload
      /\ Grown(k).refcount = k.refcount /\ Grown(k).parent = k.parent
      /\ Grown(k).children = k.children /\ Grown(k).devs = k.devs
  BY <1>2, GrownNode
<1>4. Grown(k) # None
  BY <1>3, PtraceAssumption, Zenon
<1> QED BY <1>1, <1>2, <1>3, <1>4 DEF Infant

\* A child k that its parent, whose node is m, has made a device for.
Grownup(k, m) ==
    /\ k # None /\ k.initial = 2 /\ ~k.detach /\ k.workload = m.workload /\ k.refcount = 1
    /\ k.parent = None /\ k.children = {} /\ k.devs # {}

\* The child whose device is cloned.
LEMMA FollowedChild ==
    ASSUME NEW k \in Node, NEW c \in Pids, NEW m \in Node, NEW g \in Node,
           k.initial = 1, ~k.detach, k.workload = g.workload, k.refcount = 1, k.children = {}, m.devs # {}
    PROVE  Grownup(Followed(Grown(k), c, m), g)
<1>1. PICK j, f : j = Grown(k) /\ f = Followed(j, c, m)
  BY Zenon
<1>2. /\ j \in Node /\ j.initial = 2 /\ j.detach = k.detach /\ j.workload = k.workload
      /\ j.refcount = k.refcount /\ j.children = k.children
  BY <1>1, GrownNode
<1>3. f \in Node /\ f.children = j.children /\ f.devs = Clones(c, m)
  BY <1>1, <1>2, FollowedNode, Zenon
<1>4. f.initial = j.initial /\ f.detach = j.detach /\ f.workload = j.workload /\ f.refcount = j.refcount
      /\ f.parent = None
  BY <1>1, <1>2 DEF Followed, Node
<1>5. Clones(c, m) # {}
  BY Zenon DEF Clones
<1>6. f # None
  BY <1>3, PtraceAssumption, Zenon
<1> QED BY <1>1, <1>2, <1>3, <1>4, <1>5, <1>6, Zenon DEF Grownup
===============================================================================
