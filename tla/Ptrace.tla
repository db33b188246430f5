-------------------------------- MODULE Ptrace --------------------------------
(***************************************************************************)
(* src/ptrace.c: following the children of the processes a device is       *)
(* attached to.  A forked child is stopped by the kernel until a device is *)
(* cloned for it; the stop of the child and the FORK stop of its parent    *)
(* are reported in either order.  Closing a device interrupts its          *)
(* processes, or kills the workload, and main() waits until the last of    *)
(* them is detached.                                                       *)
(*                                                                         *)
(* A handler runs to its end between two steps of the processes; what the  *)
(* kernel has to report waits in the process until waitid() returns it, in *)
(* any order.  A pid is used once.                                         *)
(***************************************************************************)
EXTENDS Naturals, FiniteSets

CONSTANTS
    Pids,         \* all processes there ever are
    Attached,     \* those that --ptrace attaches to, or the workload
    Roots,        \* the devices that attach to them
    Workloads,    \* whether the processes are a workload: a set of settings
    Stoppable,    \* those that job control may stop
    None

\* A device: <<None, r>> is opened by the user, <<p, r>> cloned from it when p was forked.
Devs == (Pids \cup {None}) \X Roots

\* A process.
Proc == [state : {"none", "running", "stopped", "listening", "zombie", "gone", "free"},
         stop : {None, "fork", "trap", "signal", "group"},
         child : Pids \cup {None}, unread : BOOLEAN, pend : BOOLEAN, anc : SUBSET Pids]

\* struct pid_node
Node == [initial : 0 .. 2, detach : BOOLEAN, workload : BOOLEAN, refcount : Nat \ {0},
         parent : Pids \cup {None}, children : SUBSET Pids, devs : SUBSET Devs]

ASSUME PtraceAssumption ==
    /\ IsFiniteSet(Pids)
    /\ Attached \subseteq Pids
    /\ Roots # {}
    /\ Workloads \subseteq BOOLEAN
    /\ Stoppable \subseteq Pids
    /\ None \notin Pids /\ None \notin Node

VARIABLES
    proc,         \* the processes, as the kernel sees them
    node,         \* pid_list: the pid_node of each process
    bug,          \* a message that starts with BUG has been printed
    closing       \* SIGINT has been received

vars == <<proc, node, bug, closing>>

-----------------------------------------------------------------------------
(* The kernel. *)

\* state: "none" before it is forked, "running", "stopped" at a report or, after
\* PTRACE_LISTEN, "listening", "zombie" when dead, "gone" when reaped, "free" when detached.
\* stop: what is reported.  unread: waitid() has not returned it.  pend: it will stop.
NoProc == [state |-> "none", stop |-> None, child |-> None, unread |-> FALSE, pend |-> FALSE, anc |-> {}]

Stopped(r, why) == [r EXCEPT !.state = "stopped", !.stop = why, !.unread = TRUE]

\* ptrace(PTRACE_CONT)
Cont(w, p) ==
    IF w.proc[p].state = "stopped" THEN [w EXCEPT !.proc[p].state = "running"] ELSE w

\* ptrace(PTRACE_LISTEN)
Listen(w, p) ==
    IF w.proc[p].state = "stopped" THEN [w EXCEPT !.proc[p].state = "listening"] ELSE w

\* ptrace(PTRACE_DETACH)
Release(w, p) ==
    IF w.proc[p].state = "stopped" THEN [w EXCEPT !.proc[p].state = "free"] ELSE w

\* ptrace(PTRACE_INTERRUPT): a process in a group-stop reports that again.
Interrupt(r) ==
    CASE r.state \in {"running", "stopped"} -> [r EXCEPT !.pend = TRUE]
      [] r.state = "listening" -> Stopped(r, "group")
      [] OTHER -> r

\* kill(SIGKILL): what it had to report is lost.
Kill(r) ==
    IF r.state \in {"running", "stopped", "listening"}
    THEN [r EXCEPT !.state = "zombie", !.unread = TRUE, !.pend = FALSE] ELSE r

\* A fork: the child stops before it runs, the parent at the end of the system call.  Any
\* stop takes the place of one that was asked for.
Fork(p, c) ==
    /\ proc[p].state = "running"
    /\ proc[c].state = "none"
    /\ proc' = [proc EXCEPT ![p] = [Stopped(@, "fork") EXCEPT !.child = c, !.pend = FALSE],
                            ![c] = [Stopped(@, "trap") EXCEPT !.anc = proc[p].anc \cup {p}]]
    /\ UNCHANGED <<node, bug, closing>>

\* It stops because it was asked to.
Trap(p) ==
    /\ proc[p].state = "running"
    /\ proc[p].pend
    /\ proc' = [proc EXCEPT ![p] = [Stopped(@, "trap") EXCEPT !.pend = FALSE]]
    /\ UNCHANGED <<node, bug, closing>>

\* A signal is about to be delivered.
Signal(p) ==
    /\ proc[p].state = "running"
    /\ ~proc[p].pend
    /\ proc' = [proc EXCEPT ![p] = Stopped(@, "signal")]
    /\ UNCHANGED <<node, bug, closing>>

Exit(p) ==
    /\ proc[p].state = "running"
    /\ proc' = [proc EXCEPT ![p] = Kill(@)]
    /\ UNCHANGED <<node, bug, closing>>

\* SIGSTOP, SIGTSTP, SIGTTIN or SIGTTOU stops it.
GroupStop(p) ==
    /\ p \in Stoppable
    /\ proc[p].state = "running"
    /\ ~proc[p].pend
    /\ proc' = [proc EXCEPT ![p] = Stopped(@, "group")]
    /\ UNCHANGED <<node, bug, closing>>

\* SIGCONT wakes it up.
Sigcont(p) ==
    /\ proc[p].state = "listening"
    /\ proc' = [proc EXCEPT ![p] = [Stopped(@, "trap") EXCEPT !.pend = FALSE]]
    /\ UNCHANGED <<node, bug, closing>>

-----------------------------------------------------------------------------
(* pid_list *)

World == [proc |-> proc, node |-> node, bug |-> bug]

Becomes(w) == \E v \in {w} : proc' = v.proc /\ node' = v.node /\ bug' = v.bug

\* initial: stops of a new child seen, 2 when its device is cloned.  parent: held until then.
\* children: those whose parent it is.  devs: the devices that follow it.
NewNode(initial, workload, devs) ==
    [initial |-> initial, detach |-> FALSE, workload |-> workload, refcount |-> 1,
     parent |-> None, children |-> {}, devs |-> devs]

\* new_find_pid()
FindNew(w, p) ==
    IF w.node[p] = None THEN [w EXCEPT !.node[p] = NewNode(0, FALSE, {})] ELSE w

\* Bug: the parent is not held.
GetNone(w, p) == w

\* get_pid()
Get(w, p) == IF w.node[p] = None THEN w ELSE [w EXCEPT !.node[p].refcount = @ + 1]

\* Off the initial_child_list of its parent.
Unlisting(N, p) ==
    [q \in Pids |-> IF N[q] = None THEN None ELSE [N[q] EXCEPT !.children = @ \ {p}]]

Unlist(w, p) == [w EXCEPT !.node = Unlisting(@, p)]

\* Bug: the node outlives its last reference.
PutTooLate(w, p) ==
    IF w.node[p] = None THEN w
    ELSE IF w.node[p].refcount > 0 THEN [w EXCEPT !.node[p].refcount = @ - 1]
    ELSE [Unlist(w, p) EXCEPT !.node[p] = None]

\* put_pid() without the reference that a deleted node holds itself
PutOne(w, p) ==
    IF w.node[p] = None THEN w
    ELSE IF w.node[p].refcount > 1 THEN [w EXCEPT !.node[p].refcount = @ - 1]
    ELSE LET v == [Unlist(w, p) EXCEPT !.node[p] = None]
         IN  [v EXCEPT !.bug = w.bug \/ w.node[p].children # {}]

\* put_pid(): deleting a node puts its parent, which waits for no parent itself.
Put(w, p) ==
    LET v == PutOne(w, p)
    IN  IF w.node[p] # None /\ v.node[p] = None /\ w.node[p].parent # None
        THEN PutOne(v, w.node[p].parent) ELSE v

-----------------------------------------------------------------------------
(* The reports of the kernel. *)

\* Bug: the node goes, the process stays.
DetachNode(w, p) ==
    IF w.node[p].workload THEN [w EXCEPT !.bug = TRUE] ELSE Put(w, p)

\* __detach()
Detach(w, p) ==
    IF w.node[p].workload THEN [w EXCEPT !.bug = TRUE] ELSE Put(Release(w, p), p)

\* __fork__new(): both stops of a new child were seen.
ForkNew(w, c) ==
    LET parent == w.node[c].parent
        v == Unlist(w, c)
        devs == IF parent = None \/ w.node[parent] = None THEN {}
                ELSE {<<c, d[2]>> : d \in w.node[parent].devs}
        u == IF parent = None THEN v
             ELSE Put([v EXCEPT !.node[c] = [v.node[c] EXCEPT !.devs = devs, !.parent = None]], parent)
    IN  IF w.node[c].detach THEN Detach(v, c)
        ELSE IF u.node[c].devs = {} THEN Detach(u, c)
        ELSE Cont(u, c)

\* Bug: the child runs after its first stop.
SeenOnce(w, c) == ForkNew([w EXCEPT !.node[c].initial = @ + 1], c)

\* The child's own stop, or the FORK stop of its parent, is the first or the second seen.
SeenInitial(w, c) ==
    LET v == [w EXCEPT !.node[c].initial = @ + 1]
    IN  IF v.node[c].initial = 2 THEN ForkNew(v, c) ELSE v

\* __fork(): the parent goes on, and waits for its new child.
Linked(w, p, c) ==
    LET found == w.node[p] # None
        held == FindNew(Get(w, p), c)
        resumed == IF ~found THEN [Release(held, p) EXCEPT !.bug = TRUE]
                   ELSE IF held.node[p].detach THEN Detach(held, p)
                   ELSE Cont(held, p)
        child == [resumed.node[c] EXCEPT
                     !.detach = IF found THEN held.node[p].detach ELSE TRUE,
                     !.workload = found /\ held.node[p].workload,
                     !.parent = IF found THEN p ELSE None]
        parent == IF resumed.node[p] = None THEN None ELSE [resumed.node[p] EXCEPT !.children = @ \cup {c}]
    IN  [resumed EXCEPT !.node = [resumed.node EXCEPT ![c] = child, ![p] = parent]]

\* Bug: a process that SIGCONT woke up is reported again and again, and not continued.
KeepStop(w, p) ==
    LET v == FindNew(w, p)
    IN  IF v.node[p].initial # 2 THEN SeenInitial(v, p)
        ELSE IF v.node[p].detach THEN Detach(v, p)
        ELSE [v EXCEPT !.proc[p].unread = TRUE]

\* __new_or_interrupt(): a new child, PTRACE_INTERRUPT or SIGCONT
NewOrInterrupt(w, p) ==
    LET v == FindNew(w, p)
        n == v.node[p]
        unequal == n.parent # None /\ v.node[n.parent] # None /\ v.node[n.parent].detach # n.detach
        u == [v EXCEPT !.bug = @ \/ unequal]
    IN  IF n.initial # 2 THEN SeenInitial(u, p)
        ELSE IF n.detach THEN Detach(u, p)
        ELSE Cont(u, p)

\* ptrace_stop()
PtraceStop(p) ==
    /\ proc[p].state = "stopped"
    /\ proc[p].unread
    /\ \E w \in {[World EXCEPT !.proc[p].unread = FALSE]} :
           \/ /\ proc[p].stop = "fork"
              /\ \E v \in {Linked(w, p, proc[p].child)} : Becomes(SeenInitial(v, proc[p].child))
           \/ proc[p].stop = "trap" /\ Becomes(NewOrInterrupt(w, p))
           \/ proc[p].stop = "signal" /\ Becomes(Cont(w, p))
           \/ proc[p].stop = "group" /\ Becomes(Listen(w, p))
    /\ UNCHANGED closing

\* ptrace_exited()
PtraceExited(p) ==
    /\ proc[p].state = "zombie"
    /\ Becomes(Put([World EXCEPT !.proc[p] = [proc[p] EXCEPT !.state = "gone", !.unread = FALSE]], p))
    /\ UNCHANGED closing

-----------------------------------------------------------------------------
(* Closing devices. *)

\* The devices that follow a process.
Open == UNION {node[p].devs : p \in {q \in Pids : node[q] # None}}

\* The device and the devices cloned from it, however far down.
Cloned(d) == {e \in Open : /\ e[2] = d[2]
                           /\ \/ d[1] \in {None, e[1]}
                              \/ e[1] # None /\ d[1] \in proc[e[1]].anc}

\* Bug: the new children are forgotten.
DetachOld(D) ==
    LET last == {p \in Pids : node[p] # None /\ node[p].devs # {} /\ node[p].devs \subseteq D}
    IN  [World EXCEPT
          !.node = [p \in Pids |->
              IF node[p] = None THEN None
              ELSE [node[p] EXCEPT !.devs = @ \ D, !.detach = @ \/ p \in last]],
          !.proc = [p \in Pids |-> IF p \in last THEN Interrupt(proc[p]) ELSE proc[p]]]

\* Bug: nothing is interrupted.
DetachLater(D) ==
    [World EXCEPT !.node = [p \in Pids |->
        IF node[p] = None THEN None
        ELSE [node[p] EXCEPT !.devs = @ \ D, !.detach = node[p].devs \subseteq D]]]

\* ptrace_detach(): the processes that no other device follows are interrupted, or killed,
\* and with them the new children that wait for their second stop.
PtraceDetach(D) ==
    LET last == {p \in Pids : /\ node[p] # None
                              /\ node[p].devs # {} /\ node[p].devs \subseteq D
                              /\ ~node[p].detach}
        initial == UNION {node[p].children : p \in last}
    IN  [proc |-> [p \in Pids |->
              IF p \notin last \cup initial THEN proc[p]
              ELSE IF node[p].workload THEN Kill(proc[p])
              ELSE IF p \in last THEN Interrupt(proc[p])
              ELSE proc[p]],
         node |-> [p \in Pids |->
              IF node[p] = None THEN None
              ELSE [node[p] EXCEPT !.devs = @ \ D, !.detach = @ \/ p \in last \cup initial]],
         bug |-> bug]

\* prof_dev_close(), when a device has seen enough events or its files hang up
Close(d) ==
    /\ d \in Open
    /\ Becomes(PtraceDetach(Cloned(d)))
    /\ UNCHANGED closing

\* SIGINT: every device is closed.
Sigint ==
    /\ ~closing
    /\ closing' = TRUE
    /\ Becomes(PtraceDetach(Open))

\* ptrace_detach_done(): main() has waited long enough.
DetachDone == \A p \in Pids : node[p] = None

Done ==
    /\ closing /\ DetachDone
    /\ UNCHANGED vars

-----------------------------------------------------------------------------

Init ==
    \E workload \in Workloads :
        /\ proc = [p \in Pids |-> IF p \in Attached THEN [NoProc EXCEPT !.state = "running"] ELSE NoProc]
        /\ node = [p \in Pids |-> IF p \in Attached THEN NewNode(2, workload, {None} \X Roots) ELSE None]
        /\ bug = FALSE
        /\ closing = FALSE

Next ==
    \/ \E p, c \in Pids : Fork(p, c)
    \/ \E p \in Pids : Trap(p) \/ Signal(p) \/ Exit(p) \/ GroupStop(p) \/ Sigcont(p)
    \/ \E p \in Pids : PtraceStop(p) \/ PtraceExited(p)
    \/ \E d \in Devs : Close(d)
    \/ Sigint
    \/ Done

Spec == Init /\ [][Next]_vars

\* waitid() returns every report in the end; a process that is asked to stop does.
FairSpec ==
    /\ Spec
    /\ \A p \in Pids : WF_vars(PtraceStop(p)) /\ WF_vars(PtraceExited(p)) /\ WF_vars(Trap(p))

-----------------------------------------------------------------------------
(* Properties. *)

TypeOK ==
    /\ proc \in [Pids -> Proc]
    /\ node \in [Pids -> Node \cup {None}]
    /\ bug \in BOOLEAN
    /\ closing \in BOOLEAN

Nodes == {p \in Pids : node[p] # None}

\* None of the messages that call a state of pid_list a BUG is ever printed: the parent
\* node is not freed before the FORK stop, a parent and its new child agree on detach, and
\* no node is deleted with new children on its list.
NoBug == ~bug

\* A node holds itself until its process is gone, and each new child holds its parent.
RefsBalanced ==
    \A p \in Nodes :
        /\ node[p].children = {c \in Nodes : node[c].parent = p}
        /\ node[p].refcount = Cardinality(node[p].children)
                              + IF proc[p].state \in {"gone", "free"} THEN 0 ELSE 1
        /\ node[p].parent # None => node[p].parent \in Nodes

\* A process that runs under ptrace has a device that follows it, or is about to stop and be
\* detached: no child of a followed process runs before its device is cloned.
RunsFollowed ==
    \A p \in Pids : proc[p].state = "running" =>
        /\ p \in Nodes
        /\ node[p].initial = 2
        /\ node[p].devs # {} \/ (node[p].detach /\ proc[p].pend)

\* When ptrace_detach_done() nothing is left under ptrace.
NobodyLeftTraced ==
    DetachDone => \A p \in Pids : proc[p].state \in {"none", "gone", "free"}

\* A process that stops runs again, is detached or dies: no new child waits for ever for a
\* device, in whatever order its stop and that of its parent are read.
StopsEnd == \A p \in Pids : proc[p].state = "stopped" ~> proc[p].state # "stopped"

\* After SIGINT main() does not wait for ever in prof_dev_list_close(), unless for a process
\* that job control has stopped: PTRACE_LISTEN leaves it there until SIGCONT.
DetachEnds == closing ~> (DetachDone \/ \E p \in Pids : proc[p].state = "listening")

-----------------------------------------------------------------------------
(* The inductive invariant behind NoBug, RefsBalanced, RunsFollowed and    *)
(* NobodyLeftTraced, proved in PtraceProofs.                               *)

\* The FORK stop of p waits for waitid().
ForkStop(p) == proc[p].state = "stopped" /\ proc[p].unread /\ proc[p].stop = "fork"

\* The first stop of p does, and its parent's was not read either.
Unknown(p) ==
    /\ proc[p].state = "stopped" /\ proc[p].unread /\ proc[p].stop = "trap"
    /\ node[p] = None

\* At most the own stop of the new child c was read.
Expected(c) == IF node[c] = None THEN Unknown(c) ELSE node[c].initial = 1 /\ node[c].parent = None

\* Processes: only a new child stays stopped after its stop was read, and only a process
\* whose device is cloned stops for anything but a trap.
ProcInv ==
    \A p \in Pids :
        /\ proc[p].state = "none" => node[p] = None
        /\ proc[p].state = "zombie" => node[p] # None
        /\ proc[p].state \in {"running", "listening"} => node[p] # None /\ node[p].initial = 2
        /\ proc[p].state = "stopped" =>
               /\ proc[p].stop \in {"fork", "trap", "signal", "group"}
               /\ proc[p].stop # "trap" => node[p] # None /\ node[p].initial = 2 /\ proc[p].unread
               /\ ~proc[p].unread => node[p] # None /\ node[p].initial = 1

\* New children: those whose own stop was read first know no parent; the others share
\* detach and workload with it.
ChildInv ==
    \A p \in Nodes :
        /\ node[p].initial \in {1, 2}
        /\ node[p].initial = 1 => node[p].devs = {}
        /\ node[p].initial = 1 /\ node[p].parent = None =>
               /\ proc[p].state = "stopped" /\ ~proc[p].unread /\ proc[p].stop = "trap"
               /\ ~node[p].detach /\ ~node[p].workload
        /\ node[p].parent # None =>
               /\ node[p].initial = 1
               /\ \/ proc[p].state = "zombie"
                  \/ proc[p].state = "stopped" /\ proc[p].unread /\ proc[p].stop = "trap"
               /\ node[p].parent \in Nodes
               /\ node[node[p].parent].initial = 2
               /\ node[node[p].parent].detach = node[p].detach
               /\ node[node[p].parent].workload = node[p].workload

\* Detaching: what no device follows is told to stop, or was killed.
DetachInv ==
    \A p \in Nodes :
        /\ node[p].initial = 2 => node[p].devs # {} \/ node[p].detach
        /\ node[p].detach /\ node[p].workload => proc[p].state \in {"zombie", "gone"}
        /\ proc[p].state = "free" => node[p].detach
        /\ node[p].detach /\ proc[p].state = "running" => proc[p].pend
        /\ node[p].detach /\ proc[p].state = "stopped" /\ proc[p].stop = "signal" => proc[p].pend

\* A FORK stop tells of a child of which at most the own stop was read.
ForkInv ==
    \A p \in Pids : ForkStop(p) =>
        /\ proc[p].child \in Pids
        /\ Expected(proc[p].child)
        /\ \A q \in Pids : ForkStop(q) /\ proc[q].child = proc[p].child => q = p

\* Without a workload no FORK stop is lost: of a child that pid_list does not know yet its
\* parent is about to tell.
OrphanInv ==
    Workloads \subseteq {FALSE} =>
        /\ \A p \in Nodes : ~node[p].workload
        /\ \A c \in Pids : Unknown(c) => \E p \in Pids : ForkStop(p) /\ proc[p].child = c

PtraceInv == TypeOK /\ NoBug /\ RefsBalanced /\ ProcInv /\ ChildInv /\ DetachInv /\ ForkInv /\ OrphanInv
====
