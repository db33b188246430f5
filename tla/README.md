# perf-prof: TLA+ models, model checks and proofs

perf-prof is a profiler that runs as one thread. It opens perf events, reads the
records that the kernel writes into ring buffers, sorts them by time when a profiler
needs that (`--order`), and hands them to the profiler the user chose. Devices can
forward events to each other, be cloned when a traced process forks, and exchange
events with other perf-prof processes.

The code is sequential but far from simple to test: the kernel writes into the rings
between any two instructions, callbacks close the device whose event is being handled,
and the sort can stop half-way for five different reasons and must resume without losing
or repeating an event. Traced processes fork, stop and die on their own, channels to other
processes fill up and break, and records are lost in the middle of what a profiler wants
to pair. This directory models those parts.

`PROJECT.json` maps every definition to the lines it translates. It also lists the runs,
the mutants, the hazards, the findings and the theorems.

## The system: parts, state, operations

| Part | Source | State | Operations | What is hard | Module |
|---|---|---|---|---|---|
| Perf ring reader | `lib/perf/mmap.c` | `prev`, `start`, `end`, tail | read_init, read_event, unread_event, consume, empty | the kernel moves the head at any time; a record given back too early is overwritten | `OrderProcess` |
| Heap sort | `src/order.c` | heap, `heap_popped_time`, per-ring loss prediction, `break_reason` | order_process, order_mmap, order_to, order_heap_init, streams | late records, lost records, pauses, early exits | `OrderProcess` |
| perf-clock | `src/event-spread.c` | timer, `last_event_time` | perf_clock_timer, perf_clock_sample | promises that nothing earlier follows | `PerfClock` |
| Device life cycle | `src/monitor.c`, `src/monitor.h` | references, users, state, tree, forward links, `running` | open, clone, forward, enable, disable, flush, close, free, use, unuse | re-entrance: a device is closed from inside its own events | `ProfDev` |
| Process tracking | `src/ptrace.c` | `pid_list`, references, links to devices | attach, detach, fork, exit, stops | a child's stop and its parent's FORK stop come in either order, devices are closed in between | `Ptrace`; `ProfDev` (what it does to devices) |
| Event loop | `lib/epoll.c`, `src/timer.c` | tree of registrations, current batch | add, del, poll | a handler deletes an entry of the current batch and its memory is reused | `EventPoll`, `CallbackSet` |
| Event channels | `src/event-spread.c`, `src/net.c` | circular buffers, lost counters, read buffers | broadcast, EPOLLOUT, read, hang-up, reconnect | partial reads and writes, full buffers, an end that goes away | `EventSpread`, `LossyQueue` |
| Event pairing | `src/multi-trace.c` | backup, timeline, pending list, lists of losses | sample, lost, flush, minevtime | no pair across a loss; nothing freed that a pair will show | `MultiTrace` |
| Profilers over ordered events | `src/task-state.c`, `src/kmemleak.c`, `src/comm.c`, ... | tables by thread or pointer | sample, lost, exit | what they rely on is the order of events | not modelled |
| Conversions, expressions | `src/convert.c`, `src/expr.c` | none (pure) | clock conversions, compile and run | integer width | not modelled |

The other profilers, symbol and stack readers, language bindings, statistics and text
output are listed in `PROJECT.json` with the reason they are left out.

The parts meet in these ways. The event loop calls `perf_event_handle()`, which holds the
device and reads its ring, directly or through `order_mmap()`. `perf_event_process_record()`
forwards to the target or counts towards `-N`, and closes the device that reached it.
Closing disables, flushes (which reads rings and sorts again) and takes down the sources
and children. `perf_clock_sample()` calls `order_to()` of every pushing device. A pushing
device writes into a channel, and the pulling one registers the channel as a stream of its
sort. The sort hands samples and losses to `multi_trace_sample()` and `multi_trace_lost()`.
A FORK stop that ptrace reports clones the devices of the parent.

## Modules

### OrderProcess: the sort of one device

A position in a ring is the number of records in front of it, and `log[m]` keeps every
record ever written, so "given back", "read again" and "overwritten" are relations between
numbers. `Off` converts a position to the byte offset that `CIRC_SPACE` uses.

The kernel takes a timestamp (`inflight`), later it reserves room and makes the record
visible. Up to `MaxNest` outputs to one ring are open at once, as when an interrupt hits
between the two: the inner, later one then becomes visible first. A record that does not fit is
dropped, and the drops are reported by a PERF_RECORD_LOST in front of the next record
that fits.

`order_process()` is split where it reads a ring's head or writes its tail, because the
kernel may act there: taking the target, entering each ring into the heap (`init`,
`initread`), the loop, `consume`, `read`, and giving back what was not processed (`exit`).
Within one of these steps the code touches only its own memory.

Assumptions: one device, which is its own main device; one clock domain; each stream's sender
is in time order (this is what order.c:66 asks of it and what `PerfClock` examines); rings
stay mapped; `perf_mmap.flush` is never set, as in the code. Statistics and messages are
left out, and so is the copy of a record that wraps around the end of the ring.

### OrderedDelivery: what the sort promises

The rings are FIFO queues. Every record that is not skipped is handed on exactly once, in
ring order. Time never goes back: a late sample gets the time handed on last.
`OrderProcess!ImplementsDelivery` states that the sort implements it, with
`queue[m]` = the records of ring `m` behind the last one handed on and `last` = `out`.

### PerfClock: a device that pushes its events

It extends `OrderProcess` with perf-clock. Its timer takes a timestamp of its own
(`TimerExpires`); the handling of that sample, some time later (`ClockSample`), flushes the sort
up to that time, then broadcasts an ORDER_TIME, unless the sort stopped early or a sample as
late was broadcast already (`last_event_time`). Samples of rings are broadcast when they are of
the event that is pushed; stream items are not. `sent` is the time of the last item broadcast.

`PushOrdered` says that `sent` never goes back, with one exception that the code really has: a
sample that had its timestamp when the clock sample was handled, but was not yet visible in
its ring, can be broadcast after the ORDER_TIME with a smaller time. The history variable `late`
keeps these timestamps, and `PushOrdered` excuses a step only when it hands on a sample with
one of them. Without the exception the property fails in `push_clock`.

### ProfDev: the life cycle of devices

The procedures of monitor.c call each other through callbacks and recurse over the device
tree, so the model has an explicit call stack. A frame holds the procedure, the device,
the place in it, the cursor of its loop and, for the sort, what it was called for. One
action per procedure has one disjunct per place. The kernel writes events between any two
steps. When the stack is empty the event loop dispatches: a readable ring or hang-up, an
interval timer, a fork or exit of a traced process, the exit of the workload, a line on
stdin, SIGINT. When `running` falls to 0 or -1, `prof_dev_list_close()` closes what is
left.

Device 1 is the one `main()` opens, `Sources` are devices its event list names and which
forward to it, and `Clones` are made of traced devices. A clone inherits the `-N` of its
original, as it does in the code with the copy of `env`.

The heap sort appears here only by what it does to devices: it holds the children while
it fills the heap, processes events of any device of the tree, and stops when the
target's events are done, or because of a stream without an event.

Assumptions: one ring per device; all devices of a tree are sorted when one is; ptrace
attach and epoll_ctl succeed, and so `prof_dev_enable()` does and forwarding a clone; a traced device has one link; clones are made of devices without an
event list of devices; profiler callbacks do nothing to devices except that `enabled()`
may close the device; the flush is `PROF_DEV_FLUSH_FINAL`; handlers that are left in the
batch when SIGINT arrives are not run; reinit after ESRCH and the sort's pause for a loss
are left out; the wait for traced processes to detach is in `Ptrace`.

### EventPoll and CallbackSet: the event loop

`EventPoll` has the tree, the memory, the array `ep->events` with `ep->i` and `ep->cnt`, and
the kernel's interest and ready lists. A registration is an address; `event_poll__del()` frees
it and the next `event_poll__add()` may get the same one. Handlers are the `Add` and `Del`
steps between `Dispatch` and `Return`: they may touch any descriptor, their own and those
later in the batch included. A file that does not support epoll stays in the tree, unknown to
the kernel, as in the code.

`CallbackSet` is what callers rely on: each descriptor has at most one callback, those
found ready together are each called once with the callback current at that time, unless
unregistered first. `ImplementsCallbacks` states the refinement, with `callbacks` read through
the pointers and `pending` read from what is left of the batch.

### Ptrace: the stops of traced processes

`proc` is the kernel's view of each process (running, stopped at a report, listening in a
group-stop, zombie), `node` is `pid_list`. Every report waits until `waitid()` returns it, in any
order among processes. Each handler of ptrace.c is an operator from one world to the next,
and `PtraceStop`, `PtraceExited`, `Close` and `Sigint` are the steps that apply them.
`children` is the `initial_child_list` of a node.

Assumptions: a pid is used once; attaching and cloning succeed (`ProfDev` has the crash step
of a failed clone); closed devices are freed at once; signals from outside reach a process
only while it runs, so that a process is not killed at a stop that was not yet read, other than
a workload by `ptrace_detach()` itself.

### EventSpread and LossyQueue: channels

A sender (`block_broadcast()` on a character device, `tcp_server_broadcast()`) and a reader in
another perf-prof, with the kernel's pipe between them. Each `write()`, `send()`, `read()` and
`recv()` is a step. An event is a row of cells, so partial reads and writes, the wrap of the
circular buffer, and events glued together are visible. `LossyQueue` is what the pair
promises: whole events, once, in order; what finds no room is counted, and each count arrives
once as a LOST record; a broken connection loses a suffix. `ImplementsQueue` states the refinement.

Assumptions: one client per server; a hang-up is handled by the reader before the other end
connects again; a sorting character-device reader sees no hang-up (see below why).

### MultiTrace: pairing events

One step is one call of `multi_trace_sample()`, `multi_trace_lost()` or the final flush; the
state is the context record `ctx`, and the functions of multi-trace.c are operators on it.
Nodes are numbered in the order they arrive and `ctx.event` keeps what every node was, freed or
not: the history from which `MustPair` and `MayPair` compute, without backup, timeline or
pending list, which pairs a reader of the whole trace would make. `mode` is the command
line. `ListPair` and `ReturnPair` are the pairs made at init, and `ObjectFind` the look-up in them.

The environment delivers events as `OrderProcess` does: with `--order` in time order over
all rings, without it in order per ring; a loss is reported before anything behind it is
handled (that is `NoUnsafeLost`, checked in `order_lost`).

Assumptions: event times are larger than the windows (`WindowAssumption`; `time -
before_event1` is unsigned); in nested modes the calls of one key have different times;
allocation succeeds.

### MC modules

`MCOrderProcess` instantiates the sort; its constants are numbers in the configurations.
`MCProfDev`, `MCEventSpread` and `MCMultiTrace` define the settings (modes) their runs start
from.

## Runs

Passing:

| Run | Checks | Shows |
|---|---|---|
| `order_rings` | `TypeOK`, `NotOverwritten`, `DeliveredInOrder`, `ImplementsDelivery`, `EventuallyHandedOn` | two rings with losses, delayed outputs, side-band records, both kinds of calls: each record is handed on once and in time order; the tail never passes a record still needed; nothing stays in a ring for ever, unless the sort is paused in front of a possible loss of a ring whose head has not moved since |
| `order_lost` | `NoUnsafeLost`, `LostReported` | with a watermark of two samples and a LOST record the prediction is right: a loss is reported before anything later is processed |
| `push_clock` | `ImplementsDelivery`, `PushOrdered` | two rings with delayed outputs and a stream whose items arrive late and in batches, flushed by perf-clock: time order, and samples and ORDER_TIMEs broadcast in time order, but for outputs under way at a clock sample |
| `dev_life` | `TypeOK`, `NoDanglingCall`, `LinksLive`, `RefsBalanced`, `RunningCounts`, `NothingLeftBehind`, `AllFreed`, `Terminates` | a device, a source with `-N`, a clone, all callbacks: no freed device is used, references balance, no event is left behind, the program ends with every device freed |
| `event_poll` | `BatchLive`, `TreeAgrees`, `ImplementsCallbacks`, `EveryReadyHandled` | three files, batches of two, reuse of memory: no deleted callback runs, every ready file gets its turn |
| `ptrace_follow` | `TypeOK`, `NoBug`, `RefsBalanced`, `RunsFollowed`, `NobodyLeftTraced`, `StopsEnd`, `DetachEnds` | a process, its child and grandchild under two devices, stops read in every order: no BUG message, no child runs unobserved, every stop ends, the last detach is reached |
| `event_spread` | `TypeOK`, `NobodyForgotten`, `ArrivesWhole`, `ImplementsQueue`, `EventsArrive`, `LossTold` | either kind of channel, with or without sort on the reader: a queue that counts what it loses, and nothing stays in a buffer |
| `multi_trace` | `TypeOK`, `NeededIsLinked`, `PairsSafe`, `PairsRight`, `DetailComplete`, `MinevtimeOldest` | thirteen command lines: exactly the pairs of the trace, none across a loss, each with its whole window |

Runs that reproduce a disagreement between the code and what a comment in it says:

| Run | Property | What happens |
|---|---|---|
| `push_lost_wait` | `PushOrdered` | a second pause on a ring keeps a stale `break_reason`; perf-clock promises too much (order.c:857) |
| `workload_detach` | `DetachEnds` | SIGINT kills a workload between its child's stop and its own FORK stop; the child stays stopped and `main()` waits for ever (ptrace.c:266) |
| `recv_frees_block` | `BlockLives` | the sender ends; `tcp_recv()` frees the block that `block_read_event()` goes on with (net.c:498) |
| `pair_across_loss` | `PairsSafe` | without `--order` a loss has no times; with `--detail=+1ms` it is used up by an event from before it (monitor.c:2025) |

### Bounds

- Two rings are the least in which one ring's event can be handed on before another's;
  the loss and target races all involve exactly one other ring. The stream of `push_clock`
  stops the sort while the rings are ready.
- `RingSize` 3 and `Watermark` 3 in `order_rings`: a ring holds two samples, so within `MaxClock`
  3 timestamps it overflows, wraps and is read again, and the sort pauses for a possible loss
  and resumes. `RingSize` 8 in `push_clock` excludes losses, which that run is not about.
- `MaxNest` 2 in `push_clock` allows an output inside an output. `MaxOther` 1 gives one
  side-band record, which is enough to stand between a loss and the next sample.
- `RingSize` 5, `Watermark` 3 and `MaxClock` 8 in `order_lost` are enough to fill one ring, lose,
  and go on in the other. A loss behind a loss takes longer: with `RingSize` 4 and a watermark of
  two samples the property fails with `MaxClock` 9 and holds with 7. The theorem `LossesForeseen` covers
  the instances that are out of reach, with the watermark it needs.
- `NrSources` 1, `NrClones` 1, `MaxEvents` 2: a tree with a target, a source and a clone
  that forwards too. Two events are one that reaches `-N` and one that is still in a ring
  when the closing flush runs. `-N` is given to the source, or to a device that is alone.
- Three files with batches of two leave one ready file out of a batch and one entry behind
  the handler that runs; three addresses for three files make reuse the rule. One callback is
  enough for the places and addresses; the proof covers any set of them.
- Three processes are a parent, a child and a grandchild, so that a node is both a new child
  and a parent; two devices let one be closed while the other goes on following.
- `BUF_LEN` 8 with events of 3 and 4 cells and a pipe of 3: every write wraps sooner or later,
  every event is read in pieces, two events fit and the third is lost. Three events and one
  break are a loss, its report and an event behind it.
- Each mode of `MCMultiTrace` has its own bounds: four to six events, one or two rings, at
  most two losses. Six events are two calls nested in a third with their returns; four or five
  on a timeline are a pair, an event in front of and behind its window, and one
  that triggers the freeing. `MaxGap` 2 lets events of another ring fall inside a loss.

No symmetry is used: rings differ in `Sideband` and in their place in the list, and devices
in their role.

### Fairness

`order_rings` assumes weak fairness of the steps of `order_process()` (one thread, no call
of which blocks) and strong fairness of `order_mmap()` for each ring: `prof_dev_flush()`
visits every ring, each time from the first, so a ring is visited again and again however
often the others keep the sort busy. Nothing is assumed of the kernel.

`dev_life` assumes weak fairness of `Program`, the steps of calls in progress and
`prof_dev_list_close()`. No callback of the event loop and no kernel write is assumed to
happen, so `Terminates` says that the program ends once the event loop was left, or was
never entered; not that it is left.

`event_poll` assumes that `main()` polls again, that the loop over the batch goes on and that each
handler returns. `ptrace_follow` and `workload_detach` assume that `waitid()` returns each
report (it is called on every SIGCHLD until nothing is left) and that a process asked to stop by
`PTRACE_INTERRUPT` does; not that a process exits, forks or receives SIGCONT.
`event_spread` assumes that both processes take their enabled steps; a sorting reader is called
for every ORDER_TIME, which arrives each 10 ms. Nothing is assumed of pushes or breaks.

## Proofs

| Theorem | Statement | Module |
|---|---|---|
| `InvHolds` | `Spec => []Inv` | `OrderProcessProofs` |
| `TypeCorrect` | `Spec => []TypeOK` | `OrderProcessProofs` |
| `OrderedOutput` | `Spec => DeliveredInOrder` | `OrderProcessProofs` |
| `DeliveryInvHolds` | `Spec => []DeliveryInv` | `OrderProcessProofs` |
| `RoomKept` | `Spec => []NotOverwritten` | `OrderProcessProofs` |
| `DeliveryRefined` | `Spec => ImplementsDelivery` | `DeliveryProofs` |
| `LossesTold` | `Sideband = {}` implies `Spec => []LostReported` | `DeliveryProofs` |
| `LossesForeseen` | `Roomy` and `Sideband = {}` imply `Spec => []NoUnsafeLost` | `LossProofs` |
| `BatchSafe` | `Spec => [](TypeOK /\ BatchLive /\ TreeAgrees)` | `EventPollProofs` |
| `TreeMatches` | `Spec => []TreeAgrees` | `EventPollProofs` |
| `EventPollRefines` | `Spec => ImplementsCallbacks` | `EventPollProofs` |
| `SpreadTypes` | `Spec => []TypeOK` | `EventSpreadProofs` |
| `NoWaiterForgotten` | `Spec => []NobodyForgotten` | `EventSpreadProofs` |
| `EventsWhole` | `NoSortedBreak` implies `Spec => []ArrivesWhole` | `EventSpreadProofs` |
| `PtraceInvariant` | `Spec => []PtraceInv` | `PtraceProofs` |
| `PtraceTypes` | `Spec => []TypeOK` | `PtraceProofs` |
| `NoBugPrinted` | `Spec => []NoBug` | `PtraceProofs` |
| `RefsCounted` | `Spec => []RefsBalanced` | `PtraceProofs` |
| `FollowedWhileRunning` | `Spec => []RunsFollowed` | `PtraceProofs` |
| `NobodyLeft` | `Workloads \subseteq {FALSE}` implies `Spec => []NobodyLeftTraced` | `PtraceProofs` |

### The sort

The first six are about `OrderProcess`, for any number of rings and streams, any sizes and
watermark, any bounds. Their only assumption is `OrderAssumption`, which types the
constants: sizes are positive, the rest natural numbers or Booleans.

`DeliveredInOrder` is not inductive. What the profiler sees (`out`) is `heap_popped_time`,
and a record popped next might be earlier in two ways. A record of a ring can be late,
because the kernel delayed it; the code then moves it to `event_mono_time` of the ring. A
stream item is never moved, so it must not be late at all. The inductive invariant
`Inv == TypeOK /\ OrderInv` has what is needed to exclude both:

- `ControlInv`: the locals refer to a ring or stream of the right kind; a ring in the heap
  has read at least one record (so that giving it back stays within the ring).
- `RingTimeInv`: a ring in the heap is not behind `heap_popped_time`, or it is the ring
  whose `event_mono_time` equals it, so that its late record is moved up.
- `StreamInv`: a stream's batch lies within what it received, items are in time order, the
  heap holds the time of the item it points at.
- `ReadyInv`: the loop runs only with every stream in the heap, which is why
  `order_heap_init()` must stop for a stream that has no item.
- `StreamTimeInv`: no item that is still to come is behind `heap_popped_time`. It follows
  from the two before: when the smallest time is popped every stream takes part.

`OrderProcessProofs` has the facts about data and frames first, then the initial states, the
kernel's steps, calls and returns, the filling of the heap, the loop, and last the theorems,
with one step per action.

`NotOverwritten` and the refinement need to know, at every line of `order_process()`, which
records of a ring were dealt with. That is `Handled(m)`: the read position, or one less while
the heap holds an event of the ring that was read and not handed on (`Pending(m)`).
`DeliveryInv` adds to `Inv`:

- `PlaceInv`: nothing is held between calls; a source enters the heap at most once per call;
  in the middle of a pass the ring at the top is still in the heap.
- `Bounds`: no ring is read past its head, and `data_tail` never passes `Handled`.
- `Held`: the event held is a sample, with its own time or, when it is late, one not later than
  `heap_popped_time`. Without it the time handed on could not be told from the record.
- `Accounted`: each record up to `Handled` was handed on or is a loss that goes to `lost()`,
  and the last one handed on is followed by such losses only.

Each action is shown to have one of four effects on a ring: it `Keeps` it, `Skips` one loss,
`Hands` one record on or, the kernel, `Writes` (`StepEffect`); at most one ring is handed on from
or written to. That the invariant survives and that the step is a `HandOn`, a `Write`, or one
that leaves the queues alone then follows from the effect, without looking at the action again.
The invariant and the effects are in `OrderProcessProofs`, the refinement is in `DeliveryProofs`.

### Losses

The next two are about `OrderProcess` too, without side-band records (see below what these do
to a loss). `LossesTold` needs `TellInv`: a LOST record stands in front of a sample
(`Paired`), once read it is reported or is the one that `lost` remembers (`ToldInv`), and no
sample handed on has an unreported one in front of it (`BehindInv`).

`LossesForeseen` is about the arithmetic of order.c:849 and 918, which compares the free space
with the watermark after the space has already grown. `Roomy` is what it needs of the sizes:
the watermark covers two samples and a LOST record, half of it a LOST record, and the
ring is larger than watermark and sample. A watermark in bytes is half of the ring unless
the user sets it (`reduce_wakeup_times()`, order.c:983), which satisfies this for any ring that
holds a few samples. With `wakeup_events` it can be the size of one sample, which does
not; see order.c:849 below. The invariant `ForeseenInv` says for each place at which
`order_process()` can be with a ring (`AwayOK`, `PendingOK`, `PassingOK`) how full the ring must be if
something was dropped behind its last record: so full that `maybe_lost_end` already is, or will
be, the end of the ring. `LossProofs` shows what each operation does to one ring, then
that each action is one of these operations, then that the reports are safe.

### The event loop

The next three of the table are about `EventPoll`, for any finite set of descriptors, any addresses and
callbacks, any batch size. `EventPollAssumption` says that `NULL` is none of the values it is
compared with. `BatchLive` is not inductive: that `event_poll__del()` clears the right places
needs `Control` (in a handler `ep->i` is the place the loop is at, so `i + 1 .. cnt - 1` is all
that is left), that a new batch holds each address once needs `ReadyListed` (the kernel lists
a descriptor once and only if it is registered), and both need `TreeAgrees` (a node
belongs to one descriptor). `IInv` is their conjunction. The refinement follows with one
lemma per action: `Add` is `Register`, `Del` is `Unregister`, `Wait` is `Collect`, `Dispatch` is
`Call`, `Return` is `Return`, the rest stutter.

### Channels

Three theorems are about `EventSpread`, for any sizes of the buffer, the pipe and the events, any
settings, any number of events and breaks. `EventSpreadAssumption` says that the
sizes are positive and that an event fits into the buffer and is longer than its header.
`SpreadInv` adds to `TypeOK` where the sender is in its loops (`SenderInv`: how much
`buf_send()` has to send, who waits for room), that EPOLLOUT is asked for while there is something
to send (`ArmedInv`), and what a broken connection leaves (`ConnInv`). `ArrivesWhole` is about the
last event only; `StreamInv` says it of everything on its way: the cells in the
reader's buffer, the pipe and the circular buffer, one behind the other, are whole events, but
for one cut off where a connection broke. `NoSortedBreak` is the assumption that a sorting
reader of a character device sees no hang-up; without it the property is false (event-spread.c:587
below).

### Traced processes

The last six are about `Ptrace`, for any finite set of processes, any devices, any order in
which the stops are read. `PtraceAssumption` says that the processes are finitely many (their
references are counted), that at least one device attaches to them, and that `None` is
neither a process nor a node. None of the four properties is inductive. `PtraceInv` adds to
them what the handlers rely on when they find a node in `pid_list` or do not find it:

- `ProcInv`: a process runs only after both its first stop and its parent's FORK stop were
  read (`initial` = 2), and only a new child stays stopped after its stop was read. This is
  what makes `RunsFollowed` survive `PTRACE_CONT`.
- `ChildInv`: a child whose own stop was read first has no parent yet and is stopped; one whose
  parent's FORK stop was read first is on the parent's list and agrees with it on detach and
  workload. The BUG messages of `__fork()` and `__new_or_interrupt()` are about this.
- `DetachInv`: a node without a device was told to detach, and its process was interrupted
  or killed.
- `ForkInv`: a FORK stop tells of a child of which at most the own stop was read, and no other
  FORK stop tells of it. With it the node that `__fork()` finds or makes is the right one.
- `OrphanInv`: of a stopped child that `pid_list` does not know, a FORK stop is still to be
  read. Only this one needs that the processes are no workload: `ptrace_detach()` kills a
  workload, and its FORK stop with it, which leaves the child behind; `workload_detach` shows
  what becomes of it. So `NobodyLeft` assumes `Workloads \subseteq {FALSE}`; the others do not.

The handlers are operators on worlds, so the proof has two halves that meet in
`PtraceProofs`. `PtraceWorldProofs` computes what each operation on `pid_list` (`Put`, `Detach`,
`ForkNew`, `SeenInitial`, ...) does to the processes and the nodes, in the terms of
`PtraceWorlds`. `PtraceStepProofs` shows that each kind of change keeps the invariant: a
process goes on, is detached, a child joins its parent, a node loses its last reference; and the
kernel's steps, `ptrace_detach()` and the initial states.

### Only model-checked

Liveness, which is out of the prover's reach; the refinement `ImplementsQueue`;
`PushOrdered`; all of `ProfDev` and `MultiTrace`. The last
folds over lists, and facts about folds need an induction over data that the prover cannot do.

## Seen, without a run

These were met while translating the code. They are listed as hazards with a note, or
follow from an assumption above.

order.c:

- 737: `perf_mmap__read_init()` takes the end of the ring and `perf_mmap__empty()` reads the head
  again. A record written in between makes the sort run without a target, past what was there
  when it was called. order.c:514-517 says "future events will not be touched".
- 849: the prediction of a loss needs a watermark of two samples and a LOST record. With a
  watermark of one sample, which `wakeup_events` gives, it comes too late, and an event from
  behind the loss is processed first (`order_lost` with `Watermark` 1). With two samples it
  misses a loss behind a loss (`RingSize` 4, `Watermark` 2, `MaxClock` 9).
- 958: with side-band records a loss can be reported for another ring, with that ring's
  times; a side-band record also resets the prediction. `order_lost` therefore has none.
- 701: leaving the loop over the children for a stream without an event keeps a reference;
  monitor.h:514 says "To break the loop, call prof_dev_put(dev)". One mode of `dev_life` has a
  stream, of device 1, for which the sort stops before that loop; none has a stream of a child.
- A delayed output that becomes visible after an ORDER_TIME was sent is broadcast with a time
  moved up only to what this device has handed on. It happens in `push_clock`; `PushOrdered`
  excepts it.

monitor.c:

- 2918: a target that reaches its `-N` inside an event of its source is freed while the source
  still points to it; monitor.c:2985 says "the forwarding source will also be closed".
- 3196: a line on stdin runs the interval of each listed device, in a plain loop over the
  list. A device with `-N` that closes itself there leaves the cursor on freed memory.
- `prof_dev_clone()` keeps the extra reference of the open when forwarding the clone fails.

ptrace.c:

- 56: `__ptrace_link()` follows the clone before testing it for NULL. `ProfDev` ends in a
  crash step there, which `AllFreed` leaves out.
- 234: when no process can be attached the device is closed, and its open goes on and lists it.
- 376: the loop over a process's links clones a device, which may close the device the loop is
  at.
- 449: a parent killed from outside after its child's stop was read, and before its own FORK
  stop was, leaves the child stopped; a child killed before its parent's FORK stop is read
  leaves a node that is never freed, and `main()` waits for it.
- A process in a group-stop is left there by `PTRACE_LISTEN`; the detach waits for SIGCONT.
  `DetachEnds` says so.

event-spread.c and net.c:

- 587: the reader of a character device with a sort keeps a partial event in `block->size`, but a
  hang-up resets `cdev->read`; `cdev->connected` is never set, so the device is not reopened
  either. The next connection's first event is glued to the partial one.
- The LOST record of a character device is written behind a write of at least its own length;
  after shorter writes only, the loss stays untold.
- A failing `epoll_ctl(ADD)` leaves the node in the tree; closing a TCP server leaves its
  accepted clients.

multi-trace.c:

- 2245: nested-trace keys its backup by key and time; two calls of one key with the same
  timestamp replace one another.
- Events at the same time as the second event of a pair may be taken before or after it:
  `MayPair` allows both.
- `multi_trace_print_lost()` prints the first loss of the list, whichever was met.

## Not modelled

- Profilers that count or print (`PROJECT.json` lists them): one sample in, one line or one
  counter out. `task-state` and `kmemleak` keep tables, but each operation is one look-up or
  update and what they need from the rest, order and reported losses, is checked above.
- `convert.c` multiplies 64-bit values by 32-bit factors: beyond TLC's integers. The change of the
  sort's clock when the first stream is registered (order.c:380) is left out with it.
- `expr.c`, `tep.c` and the filters turn text into code: no state, no interleaving.
- What `two-event.c` computes from a pair: sums, percentiles and text.
- Symbols, stacks, Python, SQL, BPF loaders and the vendored libraries under `lib/` other
  than the ring reader and the event loop.

## Running

    tlc -config order_rings.cfg MCOrderProcess
    tlc -config push_clock.cfg PerfClock
    tlc -config dev_life.cfg MCProfDev
    tlc -config event_poll.cfg EventPoll
    tlc -config ptrace_follow.cfg Ptrace
    tlc -config event_spread.cfg MCEventSpread
    tlc -config multi_trace.cfg MCMultiTrace
    tlapm OrderProcessProofs.tla
    tlapm DeliveryProofs.tla
    tlapm LossProofs.tla
    tlapm EventPollProofs.tla
    tlapm EventSpreadProofs.tla
    tlapm PtraceWorldProofs.tla
    tlapm PtraceStepProofs.tla
    tlapm PtraceProofs.tla

The module of each configuration is in `PROJECT.json`. The longest run takes a minute or
two; the proof modules take about an hour together. `tlapm`
checks the proofs of one module; those it extends are checked by a call of their own.
