------------------------------- MODULE PerfClock -------------------------------
(***************************************************************************)
(* A device with an event that is pushed (event-spread.c): its samples are *)
(* broadcast as the heap sort hands them on, and the perf-clock service    *)
(* device flushes the sort up to each timer sample and broadcasts an       *)
(* ORDER_TIME, which tells the pulling side that nothing earlier will      *)
(* follow.                                                                 *)
(***************************************************************************)
EXTENDS OrderProcess

VARIABLES
    timer,             \* time of a perf-clock sample that waits to be read, or 0
    tick,              \* timer->time of the perf-clock sample being handled, or 0
    last_event_time,   \* eb_list->last_event_time: the SAMPLE broadcast last
    sent,              \* time of the item broadcast last, a SAMPLE or an ORDER_TIME
    late               \* history: timestamps whose output was under way at a perf-clock sample

clockVars == <<timer, tick, last_event_time, sent, late>>
pushVars == <<vars, clockVars>>

\* The timer of perf-clock expires: its sample takes a timestamp of its own.
TimerExpires ==
    /\ clock < MaxClock /\ timer = 0
    /\ clock' = clock + 1 /\ timer' = clock + 1
    /\ UNCHANGED <<inflight, log, others, dropped, items, mmapVars, event_mono_time, lostVars,
                   streamVars, time, heap, heap_popped_time, break_reason, pc, todo, cur, callVars,
                   need_break, lost, outVars, tick, last_event_time, sent, late>>

\* perf_clock_sample(): flush up to the timer's time, unless the sort is already past it.
ClockSample ==
    /\ pc = "idle" /\ tick = 0 /\ timer # 0
    /\ tick' = timer /\ timer' = 0
    /\ IF heap_popped_time < timer THEN OrderTo(timer) ELSE UNCHANGED vars
    /\ late' = late \cup UNION {{inflight[m][i] : i \in DOMAIN inflight[m]} : m \in Maps}
    /\ UNCHANGED <<last_event_time, sent>>

\* ORDER_TIME is sent when the sort got to the timer's time and no sample broadcast so far is as late.
OrderTimeDueMutant == break_reason \notin {"LOST_WAIT", "STREAM_STOP"}
OrderTimeDue == break_reason \notin {"LOST_WAIT", "STREAM_STOP"} /\ last_event_time < tick

\* perf_clock_sample() after order_to() returned.
ClockBroadcast ==
    /\ pc = "idle" /\ tick # 0
    /\ tick' = 0
    /\ sent' = IF OrderTimeDue THEN tick ELSE sent
    /\ UNCHANGED <<vars, timer, last_event_time, late>>

\* tp_broadcast_event() of a sample of the pushed event.
BroadcastSample ==
    /\ pc = "loop" /\ got' # got
    /\ last_event_time' = out'
    /\ sent' = out'

\* A step of order_process().  Only samples of the rings are broadcast, and of these only the
\* ones of the event that has the push attribute.
PushStep ==
    /\ Step
    /\ BroadcastSample \/ UNCHANGED <<last_event_time, sent>>
    /\ UNCHANGED <<timer, tick, late>>

PushInit == Init /\ timer = 0 /\ tick = 0 /\ last_event_time = 0 /\ sent = 0 /\ late = {}

PushNext ==
    \/ Kernel /\ UNCHANGED clockVars
    \/ \E m \in Maps : tick = 0 /\ OrderMmap(m) /\ UNCHANGED clockVars
    \/ \E s \in Streams : tick = 0 /\ OrderStream(s) /\ UNCHANGED clockVars
    \/ TimerExpires
    \/ ClockSample
    \/ ClockBroadcast
    \/ PushStep

PushSpec == PushInit /\ [][PushNext]_pushVars

\* The sample of ring m handed on by this step was being output when the clock ticked.
WasUnderWay(m) == got'[m] # got[m] /\ log[m][got'[m][Len(got'[m])]].time \in late

\* Broadcast events are time-ordered ("event-spread: Ensure that broadcast events are
\* time-ordered"), which is what the heap sort of the pulling side relies on: no sample follows a
\* sample or an ORDER_TIME with a later time, unless its output was still under way when
\* perf_clock_sample() began (the kernel had taken its timestamp, no flush could see it).
PushOrdered == [][sent' >= sent \/ \E m \in Maps : WasUnderWay(m)]_pushVars
====
