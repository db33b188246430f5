----------------------------- MODULE PtraceWorlds -----------------------------
(***************************************************************************)
(* The terms in which the proofs about ptrace.c speak of pid_list: a world *)
(* is what the handlers compute, the processes and the nodes together.     *)
(***************************************************************************)
EXTENDS Ptrace

Procs == [Pids -> Proc]
NodeFns == [Pids -> Node \cup {None}]
Worlds == [proc : Procs, node : NodeFns, bug : BOOLEAN]

\* The world v has these parts.
Is(v, P, N, b) == v \in Worlds /\ v.proc = P /\ v.node = N /\ v.bug = b

\* __fork(), of which c is the child.
Forked(w, p, c) == SeenInitial(Linked(w, p, c), c)

\* The process p in another state.
In(P, p, state) == [P EXCEPT ![p] = [P[p] EXCEPT !.state = state]]

\* A node that loses a reference.
Less(n) == IF n.refcount > 1 THEN [n EXCEPT !.refcount = @ - 1] ELSE None

\* A node that p is no new child of any more.
Without(n, p) == [n EXCEPT !.children = @ \ {p}]

\* No list of new children has p on it; none but that of q.
Unlisted(N, p) == \A q \in Pids : N[q] # None => p \notin N[q].children
ListedBy(N, p, q) == \A x \in Pids \ {q} : N[x] # None => p \notin N[x].children

\* The node m is n, but for its list and its references.
Alike(m, n) ==
    /\ m # None
    /\ m.initial = n.initial /\ m.detach = n.detach /\ m.workload = n.workload
    /\ m.parent = n.parent /\ m.devs = n.devs
===============================================================================
