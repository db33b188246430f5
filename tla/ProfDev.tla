------------------------------- MODULE ProfDev -------------------------------
(***************************************************************************)
(* The life cycle of a prof_dev: opened, cloned, enabled, forwarding its   *)
(* events to a target, flushed, disabled, closed from inside the handling  *)
(* of its own events, and freed with its last reference.                   *)
(*                                                                         *)
(* The program is one thread, but its procedures call each other through   *)
(* callbacks and recurse over the device tree, so they run on an explicit  *)
(* call stack; the kernel writes events between any two steps.  Device 1   *)
(* is the one main() opens, 2 .. 1 + NrSources are the devices its event   *)
(* list names (profiler//, forwarded to 1), the rest are clones that       *)
(* ptrace makes of them when a traced process forks.                       *)
(***************************************************************************)
EXTENDS Integers, Sequences, FiniteSets, Functions

CONSTANTS
    NrSources,      \* devices the event list of device 1 may name
    NrClones,       \* devices ptrace may clone
    Modes,          \* the settings a run starts from
    MaxEvents       \* events the kernel writes in all

Devs == 1 .. 1 + NrSources + NrClones
Sources == 2 .. 1 + NrSources
Clones == 2 + NrSources .. 1 + NrSources + NrClones

\* sources: devices in the event list of device 1.  order: --order.  exit_n: -N of each
\* device that is opened (0: none); a clone has the one of its parent.  ptrace: the devices that trace their processes.  streams: the devices
\* with a stream, which may stop the heap sort.  marker: a line may arrive on stdin.
ModeType ==
    [sources : 0 .. NrSources, order : BOOLEAN, exit_n : [Devs -> Nat], ptrace : SUBSET Devs,
     streams : SUBSET Devs, marker : BOOLEAN]

ASSUME ProfDevAssumption ==
    /\ NrSources \in Nat /\ NrClones \in Nat /\ MaxEvents \in Nat
    /\ Modes \subseteq ModeType

VARIABLES
    mode,           \* the setting of this run
    dev,            \* the devices
    stack,          \* the call stack, innermost call first
    ret,            \* what order_heap_init() returned
    prof_dev_list,  \* normal devices, in the order in which main() closes them
    running,        \* active devices; -1 after SIGINT
    written         \* events written so far

vars == <<mode, dev, stack, ret, prof_dev_list, running, written>>

-----------------------------------------------------------------------------
(* Devices. *)

OFF == -1
INACTIVE == 0
ACTIVE == 1
EXIT == -2

NoDev ==
    [life |-> "none", refcount |-> 0, dev_users |-> 0, state |-> OFF, inclose |-> FALSE,
     inflush |-> FALSE, clone |-> FALSE, parent |-> 0, child_list |-> <<>>, target |-> 0,
     source_list |-> <<>>, polled |-> FALSE, on |-> FALSE, pending |-> 0, sampled |-> 0,
     ptraced |-> FALSE, tps |-> <<>>, heap |-> {}, inprocess |-> FALSE, exit_n |-> 0]

Live(d) == dev[d].life = "live"

Without(s, d) == SelectSeq(s, LAMBDA x : x # d)

First(s) == IF s = <<>> THEN 0 ELSE s[1]

\* list_next_entry(); an entry taken off its list with list_del_init() follows itself.
NextIn(s, d) ==
    IF \E i \in 1 .. Len(s) : s[i] = d
    THEN LET i == CHOOSE i \in 1 .. Len(s) : s[i] = d
         IN  IF i = Len(s) THEN 0 ELSE s[i + 1]
    ELSE d

\* order_main_dev(): all devices of a tree sort together, in the topmost one.
MainDev(d) ==
    LET up[x \in Devs] == IF dev[x].parent = 0 THEN x ELSE up[dev[x].parent]
    IN  up[d]

\* malloc() and the links to the parent; the reference of the open itself.  A clone gets a copy
\* of its parent's options (clone_env()).
Alloc(d, p, cl) ==
    [x \in Devs |->
        IF x = d THEN [NoDev EXCEPT !.life = "live", !.refcount = 2, !.parent = p, !.clone = cl,
                         !.state = IF p # 0 /\ ~cl /\ dev[p].state <= INACTIVE THEN OFF ELSE INACTIVE,
                         !.exit_n = IF cl THEN dev[p].exit_n ELSE mode.exit_n[d]]
        ELSE IF x = p THEN [dev[x] EXCEPT !.child_list = Append(@, d)]
        ELSE dev[x]]

-----------------------------------------------------------------------------
(* The call stack. *)

\* it is the cursor of a loop; target and left are the device order_process() was called
\* for and the events of it that are still to be processed.
Frame(f, d) == [f |-> f, d |-> d, pc |-> "start", it |-> 0, target |-> 0, left |-> 0]

\* The frames the program ends with: main() returned, or a NULL pointer was followed.
Exit(pc) == <<[Frame("main", 1) EXCEPT !.pc = pc]>>

\* The innermost call is at step pc of procedure f, for device d.
At(f, pc, d) == stack # <<>> /\ Head(stack).f = f /\ Head(stack).pc = pc /\ Head(stack).d = d

It == Head(stack).it

Goto(pc, it) == stack' = <<[Head(stack) EXCEPT !.pc = pc, !.it = it]>> \o Tail(stack)

Call(f, d, pc) == stack' = <<Frame(f, d), [Head(stack) EXCEPT !.pc = pc]>> \o Tail(stack)

TailCall(f, d) == stack' = <<Frame(f, d)>> \o Tail(stack)

Return == stack' = Tail(stack)

Keep == UNCHANGED <<mode, ret, prof_dev_list, running, written>>

\* for_each_dev_get(): while the cursor is a device, take a reference and run the body;
\* then step to the next entry and drop the reference.  After the loop the procedure goes
\* on at done, with its cursor at it.
ForEach(body, next, done, it) ==
    IF It # 0 /\ dev[It].refcount > 0
    THEN /\ dev' = [dev EXCEPT ![It].refcount = @ + 1]
         /\ Call(body, It, next)
    ELSE /\ Goto(done, it)
         /\ UNCHANGED dev

ForEachNext(list, loop) ==
    /\ stack' = <<Frame("put", It), [Head(stack) EXCEPT !.pc = loop, !.it = NextIn(list, It)]>>
                \o Tail(stack)
    /\ UNCHANGED dev

\* The body of a loop that leaves this device alone.
Skip(d) ==
    /\ At("skip", "start", d)
    /\ Return
    /\ UNCHANGED dev /\ Keep

-----------------------------------------------------------------------------
(* References. *)

\* A wrong prof_dev_use(): every user takes a reference of its own.
UseEach(x) == [x EXCEPT !.dev_users = @ + 1, !.refcount = @ + 1]

\* prof_dev_use(): the users of a device hold one reference together.
Use(x) == [x EXCEPT !.dev_users = @ + 1, !.refcount = @ + IF x.dev_users = 0 THEN 1 ELSE 0]

\* prof_dev_put(): the last reference frees the device.
Put(d) ==
    /\ At("put", "start", d)
    /\ dev' = [dev EXCEPT ![d].refcount = @ - 1]
    /\ IF dev[d].refcount = 1 THEN TailCall("free", d) ELSE Return
    /\ Keep

\* A wrong prof_dev_unuse(): the reference of the users is not given back.
UnuseHolding(d) ==
    /\ At("unuse", "start", d)
    /\ dev' = [dev EXCEPT ![d].dev_users = IF @ > 0 THEN @ - 1 ELSE @]
    /\ IF dev[d].dev_users = 1 THEN TailCall("close", d) ELSE Return
    /\ Keep

\* prof_dev_unuse(): the last user gives its reference back and closes the device.
Unuse(d) ==
    \/ /\ At("unuse", "start", d)
       /\ IF dev[d].dev_users > 0
          THEN /\ dev' = [dev EXCEPT ![d].dev_users = @ - 1]
               /\ IF dev[d].dev_users = 1 THEN Call("put", d, "put") ELSE Return
          ELSE Return /\ UNCHANGED dev
       /\ Keep
    \/ /\ At("unuse", "put", d)
       /\ IF Live(d) THEN TailCall("close", d) ELSE Return
       /\ UNCHANGED dev /\ Keep

\* A wrong prof_dev_free(): the children keep the freed device as their parent.
OrphansStay(d) == dev

\* prof_dev_free(): the parent inherits the children.
Inherit(d) ==
    LET p == dev[d].parent
        orphans == dev[d].child_list
    IN  [x \in Devs |->
            [dev[x] EXCEPT
                !.clone = IF x \in Range(orphans) THEN p # 0 /\ dev[d].clone ELSE @,
                !.parent = IF x \in Range(orphans) THEN p ELSE @,
                !.child_list = IF p # 0 /\ x = p THEN @ \o orphans ELSE @]]

\* prof_dev_free(): deinit() gives back the devices of the event list (tp_list_free());
\* then the links of the tree are undone.
Free(d) ==
    \/ /\ At("free", "start", d)
       /\ IF dev[d].tps # <<>>
          THEN /\ dev' = [dev EXCEPT ![d].tps = Tail(@)]
               /\ Call("unuse", Head(dev[d].tps), "start")
          ELSE /\ Goto("unlink", 0)
               /\ UNCHANGED dev
       /\ Keep
    \/ /\ At("free", "unlink", d)
       /\ dev' = [x \in Devs |->
            [Inherit(d)[x] EXCEPT
                !.life = IF x = d THEN "freed" ELSE @,
                !.child_list = IF x = dev[d].parent THEN Without(@, d) ELSE @,
                !.source_list = IF x = dev[d].target THEN Without(@, d) ELSE @]]
       /\ Return
       /\ Keep

-----------------------------------------------------------------------------
(* Opening. *)

\* prof_dev_open_internal(): init() opens the devices of the event list and forwards
\* them, then the events are opened and the device is traced, listed and enabled.  Any
\* stage before that may fail; prof_dev_enable() fails only with epoll_ctl(), which is left out.
Open(d) ==
    \/ /\ At("open", "start", d)
       /\ d = 1 /\ Len(dev[d].tps) < mode.sources
       /\ LET s == 2 + Len(dev[d].tps)
          IN  /\ dev' = Alloc(s, d, FALSE)
              /\ Call("open", s, "opened")
       /\ Keep
    \/ /\ At("open", "opened", d)
       /\ LET s == 2 + Len(dev[d].tps)
          IN  IF Live(s)
              THEN /\ dev' = [dev EXCEPT ![s] = [Use(@) EXCEPT !.target = d],
                                         ![d].tps = Append(@, s),
                                         ![d].source_list = Append(@, s)]
                   /\ Goto("start", 0)
              ELSE /\ Goto("deinit", 0)
                   /\ UNCHANGED dev
       /\ Keep
    \/ /\ At("open", "start", d)
       /\ ~(d = 1 /\ Len(dev[d].tps) < mode.sources)
       /\ UNCHANGED <<mode, ret, running, written>>
       /\ \/ /\ Goto("fail", First(dev[d].child_list))
             /\ UNCHANGED <<dev, prof_dev_list>>
          \/ /\ prof_dev_list' = IF dev[d].child_list # <<>> THEN <<d>> \o prof_dev_list
                                 ELSE Append(prof_dev_list, d)
             /\ dev' = IF dev[d].clone \/ d \notin mode.ptrace THEN dev
                       ELSE [dev EXCEPT ![d] = [Use(@) EXCEPT !.ptraced = TRUE]]
             /\ IF dev[d].state = INACTIVE THEN Call("enable", d, "enabled")
                ELSE Goto("enabled", 0)
    \/ /\ At("open", "enabled", d)
       /\ IF dev[d].clone THEN Return ELSE TailCall("put", d)
       /\ UNCHANGED dev /\ Keep
    \/ /\ At("open", "fail", d)
       /\ ForEach("close", "failnext", "deinit", 0)
       /\ Keep
    \/ /\ At("open", "failnext", d)
       /\ ForEachNext(dev[d].child_list, "fail")
       /\ Keep
    \/ /\ At("open", "deinit", d)
       /\ IF dev[d].tps # <<>>
          THEN /\ dev' = [dev EXCEPT ![d].tps = Tail(@)]
               /\ Call("unuse", Head(dev[d].tps), "deinit")
          ELSE /\ dev' = [x \in Devs |->
                    [dev[x] EXCEPT
                        !.life = IF x = d THEN "freed" ELSE @,
                        !.child_list = IF x = dev[d].parent THEN Without(@, d) ELSE @]]
               /\ Return
       /\ Keep

\* prof_dev_clone() of a device whose traced process forked; the clone is traced as well.
\* prof_dev_forward(), which did not fail for the parent, does not fail for the clone.
Clone(d) ==
    \/ /\ At("clone", "start", d)
       /\ dev[d].state # EXIT
       /\ \E c \in Clones :
            /\ dev[c].life = "none"
            /\ \A x \in Clones : x < c => dev[x].life # "none"
            /\ dev' = [Alloc(c, d, TRUE) EXCEPT ![d].refcount = @ + 1]
            /\ stack' = <<Frame("open", c), [Head(stack) EXCEPT !.pc = "cloned", !.it = c]>>
                        \o Tail(stack)
       /\ Keep
    \/ /\ At("clone", "cloned", d)
       /\ LET t == dev[d].target
          IN  IF Live(It)
              THEN /\ dev' = IF t = 0 THEN dev
                             ELSE [dev EXCEPT ![It].target = t,
                                              ![t].source_list = Append(@, It)]
                   /\ stack' = <<Frame("put", It), [Head(stack) EXCEPT !.pc = "parent"]>>
                               \o Tail(stack)
              ELSE Goto("parent", It) /\ UNCHANGED dev
       /\ Keep
    \/ /\ At("clone", "parent", d)
       /\ stack' = <<Frame("put", d), [Head(stack) EXCEPT !.pc = "link"]>> \o Tail(stack)
       /\ UNCHANGED dev /\ Keep
    \/ /\ At("clone", "link", d)
       /\ IF Live(It)
          THEN /\ dev' = [dev EXCEPT ![It] = [Use(@) EXCEPT !.ptraced = TRUE]]
               /\ Return
          ELSE /\ stack' = Exit("crash")
               /\ UNCHANGED dev
       /\ Keep

-----------------------------------------------------------------------------
(* Enabling, disabling, flushing. *)

\* prof_dev_enable(): the children first; enabled() may close the device, whose threads
\* may be gone (task_state_enabled()).
Enable(d) ==
    \/ /\ At("enable", "start", d)
       /\ IF dev[d].state \in {ACTIVE, EXIT}
          THEN Return /\ UNCHANGED <<dev, running>>
          ELSE /\ dev' = [dev EXCEPT ![d].polled = TRUE, ![d].refcount = @ + 1,
                                     ![d].state = ACTIVE]
               /\ running' = IF running >= 0 THEN running + 1 ELSE running
               /\ Goto("children", First(dev[d].child_list))
       /\ UNCHANGED <<mode, ret, prof_dev_list, written>>
    \/ /\ At("enable", "children", d)
       /\ ForEach("enable", "next", "enabled", 0)
       /\ Keep
    \/ /\ At("enable", "next", d)
       /\ ForEachNext(dev[d].child_list, "children")
       /\ Keep
    \/ /\ At("enable", "enabled", d)
       /\ dev' = [dev EXCEPT ![d].on = TRUE]
       /\ \/ Goto("put", 0)
          \/ Call("close", d, "put")
       /\ Keep
    \/ /\ At("enable", "put", d)
       /\ TailCall("put", d)
       /\ UNCHANGED dev /\ Keep

\* The children that follow their parent: not the clones, and the sources of this
\* device have had their turn.
Follows(c, d) == c # 0 /\ ~dev[c].clone /\ dev[c].target # d

\* A wrong prof_dev_disable(): the device is not counted off.
NotLess == running

\* The active devices are counted until SIGINT.
OneLess == IF running > 0 THEN running - 1 ELSE running

\* A wrong prof_dev_disable(): the ring is not flushed.
StopOnly(d) ==
    /\ dev' = [dev EXCEPT ![d].on = FALSE, ![d].polled = FALSE]
    /\ Goto("put", 0)

\* The events are disabled, then the ring is flushed.
StopAndFlush(d) ==
    /\ dev' = [dev EXCEPT ![d].on = FALSE, ![d].polled = FALSE]
    /\ Call("flush", d, "put")

\* prof_dev_disable(): sources and children first, then the events stop and what is left
\* in the ring is flushed.
Disable(d) ==
    \/ /\ At("disable", "start", d)
       /\ IF dev[d].state < ACTIVE
          THEN Return /\ UNCHANGED <<dev, running>>
          ELSE /\ dev' = [dev EXCEPT ![d].refcount = @ + 1, ![d].state = INACTIVE]
               /\ running' = OneLess
               /\ Goto("sources", First(dev[d].source_list))
       /\ UNCHANGED <<mode, ret, prof_dev_list, written>>
    \/ /\ At("disable", "sources", d)
       /\ ForEach("disable", "nextsource", "children", First(dev[d].child_list))
       /\ Keep
    \/ /\ At("disable", "nextsource", d)
       /\ ForEachNext(dev[d].source_list, "sources")
       /\ Keep
    \/ /\ At("disable", "children", d)
       /\ ForEach(IF Follows(It, d) THEN "disable" ELSE "skip", "nextchild", "off", 0)
       /\ Keep
    \/ /\ At("disable", "nextchild", d)
       /\ ForEachNext(dev[d].child_list, "children")
       /\ Keep
    \/ /\ At("disable", "off", d)
       /\ StopAndFlush(d)
       /\ Keep
    \/ /\ At("disable", "put", d)
       /\ TailCall("put", d)
       /\ UNCHANGED dev /\ Keep

\* prof_dev_flush(dev, PROF_DEV_FLUSH_FINAL).
Flush(d) ==
    \/ /\ At("flush", "start", d)
       /\ IF dev[d].inflush THEN Return /\ UNCHANGED dev
          ELSE /\ dev' = [dev EXCEPT ![d].refcount = @ + 1, ![d].inflush = TRUE]
               /\ Call("read", d, "done")
       /\ Keep
    \/ /\ At("flush", "done", d)
       /\ dev' = [dev EXCEPT ![d].inflush = FALSE]
       /\ TailCall("put", d)
       /\ Keep

-----------------------------------------------------------------------------
(* Events. *)

\* perf_event_handle_mmap(): read the ring to its end, or sort it with the others.
Read(d) ==
    /\ At("read", "start", d)
    /\ IF mode.order THEN TailCall("order", d) /\ UNCHANGED dev
       ELSE IF dev[d].pending > 0
       THEN /\ dev' = [dev EXCEPT ![d].pending = @ - 1]
            /\ Call("record", d, "start")
       ELSE Return /\ UNCHANGED dev
    /\ Keep

\* perf_event_process_record(): a sample is forwarded to the target; the device that
\* reaches its -N is closed.
Limit(d) == dev[d].exit_n > 0

Record(d) ==
    /\ At("record", "start", d)
    /\ LET t == dev[d].target
           n == dev[d].sampled + 1
       IN  IF t # 0 /\ Limit(d) /\ n > dev[d].exit_n
           THEN /\ dev' = [dev EXCEPT ![d].sampled = n]
                /\ TailCall("close", d)
           ELSE LET x == IF t = 0 THEN d ELSE t
                    m == dev[x].sampled + 1
                IN  /\ dev' = [dev EXCEPT ![d].sampled = IF Limit(d) THEN n ELSE @,
                                          ![x].sampled = IF Limit(x) THEN m ELSE @]
                    /\ IF Limit(x) /\ m >= dev[x].exit_n THEN TailCall("close", x) ELSE Return
    /\ Keep

\* order_heap_init(): the next event of the rings of d and, recursively, of its children.
\* A stream without an event stops the whole sort, and every loop of the recursion.
HeapInit(d) ==
    \/ /\ At("heapinit", "start", d)
       /\ LET m == MainDev(d)
          IN  dev' = IF dev[d].pending = 0 THEN dev
                     ELSE [dev EXCEPT ![d].pending = @ - 1, ![d].refcount = @ + 1,
                                      ![m].heap = @ \cup {d}]
       /\ \/ Goto("children", First(dev[d].child_list)) /\ ret' = 0
          \/ d \in mode.streams /\ Return /\ ret' = 1
       /\ UNCHANGED <<mode, prof_dev_list, running, written>>
    \/ /\ At("heapinit", "children", d)
       /\ ForEach("heapinit", "next", "end", 0)
       /\ Keep
    \/ /\ At("heapinit", "next", d)
       /\ IF ret # 0 THEN Return /\ UNCHANGED dev
          ELSE ForEachNext(dev[d].child_list, "children")
       /\ Keep
    \/ /\ At("heapinit", "end", d)
       /\ Return
       /\ UNCHANGED dev /\ Keep

\* order_process(): the devices of the events in the heap are held until the events are
\* processed or given back.  The sort ends with the last event that was in the ring of the
\* device it was called for, or when a stream has no more events.
Order(d) ==
    \/ /\ At("order", "start", d)
       /\ LET m == MainDev(d)
          IN  IF dev[m].inprocess \/ dev[d].pending = 0 THEN Return /\ UNCHANGED dev
              ELSE /\ dev' = [dev EXCEPT ![m].refcount = @ + 1, ![m].inprocess = TRUE]
                   /\ stack' = <<Frame("heapinit", m),
                                 [Frame("sort", m) EXCEPT !.pc = "ready", !.target = d,
                                                          !.left = dev[d].pending]>> \o Tail(stack)
       /\ Keep
    \/ /\ At("sort", "ready", d)
       /\ Goto(IF ret = 0 THEN "loop" ELSE "stop", 0)
       /\ UNCHANGED dev /\ Keep
    \/ /\ At("sort", "loop", d)
       /\ IF Head(stack).left = 0 THEN Goto("stop", 0)
          ELSE \/ mode.streams # {} /\ Goto("stop", 0)
               \/ \E x \in dev[d].heap :
                    LET n == IF x = Head(stack).target THEN 1 ELSE 0
                    IN  stack' = <<Frame("record", x),
                                   [Head(stack) EXCEPT !.pc = "next", !.it = x, !.left = @ - n]>>
                                 \o Tail(stack)
       /\ UNCHANGED dev /\ Keep
    \/ /\ At("sort", "next", d)
       /\ IF dev[It].pending > 0
          THEN /\ dev' = [dev EXCEPT ![It].pending = @ - 1]
               /\ Goto("loop", 0)
          ELSE /\ dev' = [dev EXCEPT ![d].heap = @ \ {It}]
               /\ stack' = <<Frame("put", It), [Head(stack) EXCEPT !.pc = "loop", !.it = 0]>>
                           \o Tail(stack)
       /\ Keep
    \/ /\ At("sort", "stop", d)
       /\ IF dev[d].heap = {}
          THEN /\ dev' = [dev EXCEPT ![d].inprocess = FALSE]
               /\ TailCall("put", d)
          ELSE \E x \in dev[d].heap :
                /\ dev' = [dev EXCEPT ![x].pending = @ + 1, ![d].heap = @ \ {x}]
                /\ Call("put", x, "stop")
       /\ Keep

-----------------------------------------------------------------------------
(* Closing. *)

\* A wrong prof_dev_close(): the device stays listed.
StillListed(d) == prof_dev_list

\* list_del_init(&dev->dev_link).
Unlisted(d) == Without(prof_dev_list, d)

\* prof_dev_close(): once; the sources follow, and the children that are no clones.
Close(d) ==
    \/ /\ At("close", "start", d)
       /\ IF dev[d].inclose THEN Return /\ UNCHANGED dev
          ELSE /\ dev' = [dev EXCEPT ![d].inclose = TRUE]
               /\ Call("disable", d, "exit")
       /\ Keep
    \/ /\ At("close", "exit", d)
       /\ dev' = [dev EXCEPT ![d].state = EXIT]
       /\ prof_dev_list' = Unlisted(d)
       /\ Call("detach", d, "first")
       /\ UNCHANGED <<mode, ret, running, written>>
    \/ /\ At("close", "first", d)
       /\ Goto("sources", First(dev[d].source_list))
       /\ UNCHANGED dev /\ Keep
    \/ /\ At("close", "sources", d)
       /\ ForEach("close", "nextsource", "children", First(dev[d].child_list))
       /\ Keep
    \/ /\ At("close", "nextsource", d)
       /\ ForEachNext(dev[d].source_list, "sources")
       /\ Keep
    \/ /\ At("close", "children", d)
       /\ ForEach(IF Follows(It, d) THEN "close" ELSE "skip", "nextchild", "put", 0)
       /\ Keep
    \/ /\ At("close", "nextchild", d)
       /\ ForEachNext(dev[d].child_list, "children")
       /\ Keep
    \/ /\ At("close", "put", d)
       /\ TailCall("put", d)
       /\ UNCHANGED dev /\ Keep

\* ptrace_detach(): the device and its traced clones no longer use their processes.
Detach(d) ==
    \/ /\ At("detach", "start", d)
       /\ IF ~dev[d].ptraced THEN Return /\ UNCHANGED dev
          ELSE /\ dev' = [dev EXCEPT ![d].refcount = @ + 1, ![d].ptraced = FALSE]
               /\ Call("unuse", d, "first")
       /\ Keep
    \/ /\ At("detach", "first", d)
       /\ Goto("children", First(dev[d].child_list))
       /\ UNCHANGED dev /\ Keep
    \/ /\ At("detach", "children", d)
       /\ ForEach(IF It # 0 /\ dev[It].clone /\ dev[It].ptraced THEN "detach" ELSE "skip", "next", "put", 0)
       /\ Keep
    \/ /\ At("detach", "next", d)
       /\ ForEachNext(dev[d].child_list, "children")
       /\ Keep
    \/ /\ At("detach", "put", d)
       /\ TailCall("put", d)
       /\ UNCHANGED dev /\ Keep

-----------------------------------------------------------------------------
(* The event loop. *)

\* A wrong perf_event_handle(): the device is not held while its events are handled.
HandleUnheld(d) ==
    /\ At("handle", "start", d)
    /\ Call("read", d, "put") \/ Call("read", d, "hangup")
    /\ UNCHANGED dev /\ Keep

\* perf_event_handle(): the device is held while its events are handled.
HandleHeld(d) ==
    /\ At("handle", "start", d)
    /\ dev' = [dev EXCEPT ![d].refcount = @ + 1]
    /\ Call("read", d, "put") \/ Call("read", d, "hangup")
    /\ Keep

\* The last process of the device may be gone (EPOLLHUP).
Handle(d) ==
    \/ HandleHeld(d)
    \/ /\ At("handle", "hangup", d)
       /\ dev' = [dev EXCEPT ![d].polled = FALSE]
       /\ Call("close", d, "put")
       /\ Keep
    \/ /\ At("handle", "put", d)
       /\ TailCall("put", d)
       /\ UNCHANGED dev /\ Keep

\* interval_handle(): the device's ring, then the same for its sources.
Interval(d) ==
    \/ /\ At("interval", "start", d)
       /\ dev' = [dev EXCEPT ![d].refcount = @ + 1]
       /\ Call("read", d, "first")
       /\ Keep
    \/ /\ At("interval", "first", d)
       /\ Goto("sources", First(dev[d].source_list))
       /\ UNCHANGED dev /\ Keep
    \/ /\ At("interval", "sources", d)
       /\ ForEach("interval", "next", "put", 0)
       /\ Keep
    \/ /\ At("interval", "next", d)
       /\ ForEachNext(dev[d].source_list, "sources")
       /\ Keep
    \/ /\ At("interval", "put", d)
       /\ TailCall("put", d)
       /\ UNCHANGED dev /\ Keep

\* print_marker_and_interval(): the interval of every device that forwards to no other.
Marker(d) ==
    \/ /\ At("marker", "start", d)
       /\ ForEach(IF It # 0 /\ dev[It].target = 0 THEN "interval" ELSE "skip", "next", "end", 0)
       /\ Keep
    \/ /\ At("marker", "next", d)
       /\ ForEachNext(prof_dev_list, "start")
       /\ Keep
    \/ /\ At("marker", "end", d)
       /\ Return
       /\ UNCHANGED dev /\ Keep

\* The rest of main(): it ends at once when its device could not be opened.
Main(d) ==
    /\ At("main", "start", d)
    /\ IF Live(1) THEN Return ELSE stack' = Exit("exit")
    /\ UNCHANGED dev /\ Keep

Step(d) ==
    \/ Skip(d) \/ Put(d) \/ Unuse(d) \/ Free(d) \/ Open(d) \/ Clone(d) \/ Enable(d) \/ Disable(d)
    \/ Flush(d) \/ Read(d) \/ Record(d) \/ HeapInit(d) \/ Order(d) \/ Close(d) \/ Detach(d)
    \/ Handle(d) \/ Interval(d) \/ Marker(d) \/ Main(d)

\* A callback of the event loop starts.
Dispatch(f, d) ==
    /\ stack = <<>> /\ running > 0
    /\ stack' = <<Frame(f, d)>>
    /\ UNCHANGED <<mode, dev, ret, prof_dev_list, running, written>>

\* The ring of a device is readable, or its processes are gone.
Poll(d) == dev[d].polled /\ Dispatch("handle", d)

\* The interval timer of a device.
Tick(d) == Live(d) /\ dev[d].state = ACTIVE /\ Dispatch("interval", d)

\* A traced process forks (of a device without an event list of its own).
Fork(d) ==
    /\ Live(d) /\ dev[d].ptraced /\ dev[d].tps = <<>>
    /\ \E c \in Clones : dev[c].life = "none"
    /\ Dispatch("clone", d)

\* A traced process exits: ptrace_exited() takes its link away.
Exited(d) ==
    /\ stack = <<>> /\ running > 0
    /\ Live(d) /\ dev[d].ptraced
    /\ dev' = [dev EXCEPT ![d].ptraced = FALSE]
    /\ stack' = <<Frame("unuse", d)>>
    /\ Keep

\* The workload that main() started exits (SIGCHLD).
Workload(d) ==
    /\ d \in Range(prof_dev_list) /\ d = 1 /\ ~dev[d].ptraced
    /\ Dispatch("close", d)

\* A line arrives on stdin.
Line ==
    /\ mode.marker
    /\ stack = <<>> /\ running > 0
    /\ stack' = <<[Frame("marker", 1) EXCEPT !.it = First(prof_dev_list)]>>
    /\ UNCHANGED <<mode, dev, ret, prof_dev_list, running, written>>

\* SIGINT or SIGTERM.
Signal ==
    /\ stack = <<>> /\ running > 0
    /\ running' = -1
    /\ UNCHANGED <<mode, dev, stack, ret, prof_dev_list, written>>

\* prof_dev_list_close(): the devices that are still open, the first one first.
ListClose ==
    /\ stack = <<>> /\ running <= 0 /\ prof_dev_list # <<>>
    /\ stack' = <<Frame("close", Head(prof_dev_list))>>
    /\ UNCHANGED <<mode, dev, ret, prof_dev_list, running, written>>

\* The kernel writes an event to the ring of an enabled device.
Kernel(d) ==
    /\ Live(d) /\ dev[d].on /\ written < MaxEvents
    /\ dev' = [dev EXCEPT ![d].pending = @ + 1]
    /\ written' = written + 1
    /\ UNCHANGED <<mode, stack, ret, prof_dev_list, running>>

Init ==
    /\ mode \in Modes
    /\ dev = [d \in Devs |->
                IF d = 1 THEN [NoDev EXCEPT !.life = "live", !.refcount = 2, !.state = INACTIVE,
                                           !.exit_n = mode.exit_n[1]]
                ELSE NoDev]
    /\ stack = <<Frame("open", 1), Frame("main", 1)>>
    /\ ret = 0
    /\ prof_dev_list = <<>>
    /\ running = 0
    /\ written = 0

\* main() has returned, or crashed.
Done ==
    \/ stack = <<>> /\ running <= 0 /\ prof_dev_list = <<>>
    \/ stack # <<>> /\ Head(stack).f = "main" /\ Head(stack).pc # "start"

Program == \/ \E d \in Devs : Step(d)
           \/ ListClose

Next ==
    \/ Program
    \/ \E d \in Devs : Poll(d) \/ Tick(d) \/ Fork(d) \/ Exited(d) \/ Workload(d) \/ Kernel(d)
    \/ Line \/ Signal
    \/ Done /\ UNCHANGED vars

Spec == Init /\ [][Next]_vars

\* The program runs on: one thread, whose calls do not block.
FairSpec == Spec /\ WF_vars(Program)

-----------------------------------------------------------------------------
(* Properties. *)

\* Counters of a device do not go below zero (prof_dev_put() and prof_dev_unuse() are called
\* as often as their counterparts), and running counts no more devices than there are.
TypeOK ==
    /\ mode \in Modes
    /\ running \in -1 .. Cardinality(Devs)
    /\ \A d \in Devs :
        /\ dev[d].life \in {"none", "live", "freed"}
        /\ dev[d].refcount \in Nat /\ dev[d].dev_users \in Nat /\ dev[d].pending \in Nat
        /\ dev[d].state \in {EXIT, OFF, INACTIVE, ACTIVE}
        /\ {dev[d].parent, dev[d].target} \subseteq {0} \cup Devs
    /\ \A i \in 1 .. Len(stack) : stack[i].d \in Devs

\* The device and the cursor that the innermost call works on are not freed: whatever the
\* callbacks of its events closed, it holds a reference (prof_dev_get(),
\* for_each_dev_get()).  The calls that use no device afterwards are left out: the results
\* of prof_dev_put() in prof_dev_unuse() and of prof_dev_clone() in __fork__new().
NoDanglingCall ==
    stack # <<>> =>
        /\ \/ Live(Head(stack).d)
           \/ Head(stack).f \in {"marker", "main"}
           \/ <<Head(stack).f, Head(stack).pc>> \in {<<"unuse", "put">>, <<"clone", "link">>}
        /\ It = 0 \/ Live(It) \/ Head(stack).f = "clone"

\* The parent and the forwarding target of a device are not freed before it.
LinksLive ==
    \A d \in Devs : Live(d) =>
        /\ dev[d].parent # 0 => Live(dev[d].parent)
        /\ dev[d].target # 0 => Live(dev[d].target)

\* Between two callbacks a device is held once by the open and once by its users, and
\* is freed exactly when neither holds it.
RefsBalanced ==
    stack = <<>> =>
        \A d \in Devs : Live(d) =>
            /\ dev[d].refcount = (IF dev[d].inclose THEN 0 ELSE 1) + (IF dev[d].dev_users > 0 THEN 1 ELSE 0)
            /\ dev[d].refcount > 0

\* The event loop of main() runs exactly while a device is active.
RunningCounts ==
    running >= 0 => running = Cardinality({d \in Devs : Live(d) /\ dev[d].state = ACTIVE})

\* A device is not freed with events in its ring, unless a device has reached its -N or a
\* stream without events keeps the sort from going on: prof_dev_disable() stops the events
\* before it flushes, and the flush reads the ring to its end.
NothingLeftBehind ==
    \A d \in Devs : dev[d].life = "freed" /\ dev[d].pending > 0 =>
        mode.streams # {} \/ \E x \in Devs : Limit(x) /\ dev[x].sampled >= dev[x].exit_n

\* When the program ends every device it opened has been freed, and so printed its last
\* results (deinit()).
AllFreed == Done /\ stack # Exit("crash") => \A d \in Devs : ~Live(d)

\* The event loop of main() is entered or the program ends, and once it is left (the last
\* device stopped, or SIGINT) every device is closed, and the program ends.
Terminates == running <= 0 ~> running > 0 \/ Done
=============================================================================
