-------------------------- MODULE OrderProcessProofs --------------------------
(***************************************************************************)
(* Theorems about OrderProcess, for any number of rings and streams, any   *)
(* ring size and watermark, with or without a lost() callback.             *)
(***************************************************************************)
EXTENDS OrderProcess, TLAPS

-----------------------------------------------------------------------------
(* The inductive invariant and the facts its proof rests on: what a step   *)
(* leaves alone, the initial states, the kernel's steps, and the calls and *)
(* returns of order_process().                                             *)

Inv == TypeOK /\ OrderInv

-----------------------------------------------------------------------------
(* Facts about the data. *)

\* A member of a sequence is its head or a member of its tail.
LEMMA InTail ==
    ASSUME NEW S, NEW q \in Seq(S), q # <<>>, NEW i \in 1 .. Len(q), q[i] # Head(q)
    PROVE  \E j \in 1 .. Len(Tail(q)) : Tail(q)[j] = q[i]
<1>1. i # 1 /\ i - 1 \in 1 .. Len(Tail(q))
    OBVIOUS
<1>2. Tail(q)[i - 1] = q[i]
    BY <1>1
<1> QED
    BY <1>1, <1>2, Zenon

\* Maps and streams are the two kinds of sources.
LEMMA SourceKinds ==
    /\ \A h \in Sources : h \in Maps \/ h \in Streams
    /\ \A h : ~(h \in Maps /\ h \in Streams)
    /\ Maps \subseteq Sources /\ Streams \subseteq Sources
    /\ 0 \notin Maps /\ Maps \subseteq 0 .. NrMaps
BY OrderAssumption DEF Maps, Streams, Sources, OrderAssumption

\* heap_event_list holds sources only, and every stream.
LEMMA ListFacts ==
    /\ HeapEventList \in Seq(Sources)
    /\ \A s \in Streams : \E i \in 1 .. Len(HeapEventList) : HeapEventList[i] = s
<1>1. NrMaps \in Nat /\ NrStreams \in Nat
    BY OrderAssumption, Zenon DEF OrderAssumption
<1>2. HeapEventList \in [1 .. NrMaps + NrStreams -> Sources]
    BY <1>1 DEF HeapEventList, Sources
<1>3. HeapEventList \in Seq(Sources) /\ Len(HeapEventList) = NrMaps + NrStreams
    BY <1>1, <1>2
<1>4. ASSUME NEW s \in Streams
      PROVE  \E i \in 1 .. Len(HeapEventList) : HeapEventList[i] = s
    <2>1. NrMaps + NrStreams + 1 - s \in 1 .. NrStreams
        BY <1>1 DEF Streams
    <2>2. HeapEventList[NrMaps + NrStreams + 1 - s] = s
        BY <1>1, <2>1 DEF HeapEventList, Sources, Streams
    <2> QED
        BY <1>1, <1>3, <2>1, <2>2
<1> QED
    BY <1>3, <1>4, Zenon

\* No loss is pending.
LEMMA NoLostType == NoLost \in LostRecords /\ ~(NoLost.n > 0) /\ 0 \in 0 .. NrMaps
<1>1. 0 \in 0 .. NrMaps
    BY OrderAssumption DEF OrderAssumption
<1> QED
    BY <1>1 DEF NoLost, LostRecords

-----------------------------------------------------------------------------
(* What a step leaves alone. *)

\* A step that writes nothing to the rings and streams keeps their types.
LEMMA KernelFrame == ASSUME KernelTypeOK, UNCHANGED kernelVars PROVE KernelTypeOK' /\ UNCHANGED items
BY Zenon DEF KernelTypeOK, kernelVars

\* A step that leaves the reader's ring positions and loss prediction alone keeps their types.
LEMMA RingFrame ==
    ASSUME RingTypeOK, UNCHANGED <<prev, start, end, tail>>, UNCHANGED event_mono_time, UNCHANGED lostVars
    PROVE  RingTypeOK'
BY Zenon DEF RingTypeOK, lostVars

\* A step that leaves the streams' positions and the heap alone keeps their types.
LEMMA SortFrame ==
    ASSUME SortTypeOK, UNCHANGED streamVars, UNCHANGED <<time, heap, heap_popped_time, break_reason>>
    PROVE  SortTypeOK'
BY Zenon DEF SortTypeOK, streamVars

\* A step that leaves the arguments of the call of order_process() alone keeps their types.
LEMMA CallFrame ==
    ASSUME CallTypeOK, UNCHANGED callVars
    PROVE  /\ target' \in 0 .. NrMaps /\ target' = target
           /\ target_end' \in Nat /\ target_tm' \in Nat
BY Zenon DEF CallTypeOK, callVars

\* A step that hands nothing on and reports nothing keeps the types of the output.
LEMMA OutFrame == ASSUME OutTypeOK, UNCHANGED outVars PROVE OutTypeOK' /\ UNCHANGED out
BY Zenon DEF OutTypeOK, outVars

\* Streams that stay where they are, or leave the heap.
LEMMA StreamFrame ==
    ASSUME StreamInv, StreamTimeInv, UNCHANGED items, UNCHANGED streamVars,
           UNCHANGED heap_popped_time,
           \A s \in Streams : (s \in heap' => s \in heap) /\ time'[s] = time[s]
    PROVE  StreamInv' /\ StreamTimeInv'
<1>1. rd' = rd /\ batch' = batch /\ unconsumed' = unconsumed
    BY Zenon DEF streamVars
<1>2. StreamInv'
    BY <1>1, Zenon DEF StreamInv
<1>3. StreamTimeInv'
    BY <1>1, Zenon DEF StreamTimeInv
<1> QED
    BY <1>2, <1>3, Zenon

-----------------------------------------------------------------------------
(* Initial states. *)

\* The state before the first call of order_process() satisfies the invariant.
LEMMA InitInv == Init => Inv
<1> SUFFICES ASSUME Init PROVE Inv
    BY Zenon
<1> USE DEF Init
<1>1. TypeOK
    <2>1. KernelTypeOK
        BY DEF KernelTypeOK
    <2>2. RingTypeOK
        BY DEF RingTypeOK
    <2>3. SortTypeOK
        BY Zenon DEF SortTypeOK, BreakReasons
    <2>4. CallTypeOK
        BY NoLostType DEF CallTypeOK, PCs
    <2>5. OutTypeOK
        BY DEF OutTypeOK
    <2> QED
        BY <2>1, <2>2, <2>3, <2>4, <2>5, Zenon DEF TypeOK
<1>2. ControlInv
    BY DEF ControlInv, NoLost
<1>3. StreamInv
    BY DEF StreamInv
<1>4. ReadyInv
    BY Zenon DEF ReadyInv
<1>5. RingTimeInv
    BY DEF RingTimeInv
<1>6. StreamTimeInv
    BY DEF StreamTimeInv
<1> QED
    BY <1>1, <1>2, <1>3, <1>4, <1>5, <1>6, Zenon DEF Inv, OrderInv

-----------------------------------------------------------------------------
(* The kernel. *)

\* Every record has a size.
LEMMA SizeType == \A type : Size(type) \in Nat /\ LostSize \in Nat
BY OrderAssumption, Zenon DEF OrderAssumption, Size

\* The kernel writes well-formed records, and nothing but records.
LEMMA OutputType ==
    ASSUME KernelTypeOK, NEW m \in Maps, NEW type \in {"SAMPLE", "OTHER"}, NEW t \in Nat,
           Output(m, type, t)
    PROVE  log' \in [Maps -> Seq(Records)] /\ dropped' \in [Maps -> Nat]
<1> DEFINE base == Off(m, DataHead(m))
<1>1. log[m] \in Seq(Records) /\ dropped[m] \in Nat
    BY Zenon DEF KernelTypeOK
<1>2. base \in Nat
    <2>1. CASE Len(log[m]) = 0
        BY <2>1, Zenon DEF Off, DataHead
    <2>2. CASE Len(log[m]) # 0
        <3>1. log[m][Len(log[m])] \in Records
            BY <1>1, <2>2
        <3> QED
            BY <2>2, <3>1, Zenon DEF Off, DataHead, Records
    <2> QED
        BY <2>1, <2>2, Zenon
<1>3. /\ Record("LOST", dropped[m], base) \in Records
      /\ Record(type, t, base + LostSize) \in Records
      /\ Record(type, t, base) \in Records
    BY <1>1, <1>2, SizeType DEF Record, Records
<1> HIDE DEF base
<1>4. CASE log' = log /\ dropped' = [dropped EXCEPT ![m] = @ + 1]
    BY <1>1, <1>4 DEF KernelTypeOK
<1>5. CASE /\ dropped' = [dropped EXCEPT ![m] = 0]
           /\ log' = [log EXCEPT ![m] = Append(@, Record(type, t, base))]
    BY <1>1, <1>3, <1>5 DEF KernelTypeOK
<1>6. CASE /\ dropped' = [dropped EXCEPT ![m] = 0]
           /\ log' = [log EXCEPT ![m] = @ \o <<Record("LOST", dropped[m], base),
                                               Record(type, t, base + LostSize)>>]
    BY <1>1, <1>3, <1>6 DEF KernelTypeOK
<1> QED
    BY <1>4, <1>5, <1>6, Zenon DEF Output, base

\* What the kernel and the senders of streams do leaves the process alone.
LEMMA KernelInv == Inv /\ Kernel => Inv'
<1> SUFFICES ASSUME Inv, Kernel PROVE Inv'
    BY Zenon
<1> USE DEF Inv, TypeOK, OrderInv
<1> DEFINE others_same ==
        UNCHANGED <<mmapVars, event_mono_time, lostVars, streamVars, time, heap,
                    heap_popped_time, break_reason, pc, todo, cur, callVars, need_break,
                    lost, outVars>>
<1>1. others_same
    BY Zenon DEF Kernel
<1>2. RingTypeOK' /\ SortTypeOK' /\ CallTypeOK' /\ OutTypeOK'
    BY <1>1, Zenon DEF RingTypeOK, SortTypeOK, CallTypeOK, OutTypeOK, mmapVars, lostVars, streamVars,
                callVars, outVars
<1>3. ControlInv' /\ ReadyInv' /\ RingTimeInv'
    BY <1>1, Zenon DEF ControlInv, ReadyInv, RingTimeInv, mmapVars, lostVars, streamVars, callVars,
                outVars
<1>4. ASSUME NEW m \in Maps, OutputStart(m) PROVE KernelTypeOK' /\ UNCHANGED items
    BY <1>4 DEF OutputStart, KernelTypeOK
<1>5. ASSUME NEW m \in Maps, OutputEnd(m) PROVE KernelTypeOK' /\ UNCHANGED items
    <2>1. inflight[m] \in Seq(Nat) /\ inflight[m] # <<>>
        BY <1>5, Zenon DEF OutputEnd, KernelTypeOK
    <2>2. /\ inflight[m][Len(inflight[m])] \in Nat
          /\ SubSeq(inflight[m], 1, Len(inflight[m]) - 1) \in Seq(Nat)
        BY <2>1
    <2> QED
        BY <1>5, <2>2, OutputType, Zenon DEF OutputEnd, KernelTypeOK
<1>6. ASSUME NEW m \in Maps, OutputAtOnce(m) PROVE KernelTypeOK' /\ UNCHANGED items
    <2>1. clock + 1 \in Nat
        BY DEF KernelTypeOK
    <2> QED
        BY <1>6, <2>1, OutputType, Zenon DEF OutputAtOnce, KernelTypeOK
<1>7. ASSUME NEW m \in Maps, OutputOther(m) PROVE KernelTypeOK' /\ UNCHANGED items
    BY <1>7, OutputType DEF OutputOther, KernelTypeOK
<1>8. ASSUME UNCHANGED items PROVE StreamInv' /\ StreamTimeInv'
    BY <1>1, <1>8, Zenon DEF StreamInv, StreamTimeInv, streamVars
<1>9. ASSUME NEW s \in Streams, StreamArrive(s) PROVE KernelTypeOK' /\ StreamInv' /\ StreamTimeInv'
    <2>1. PICK t \in 1 .. clock + 1 :
            /\ \A i \in 1 .. Len(items[s]) : items[s][i] <= t
            /\ clock' = IF t > clock THEN t ELSE clock
            /\ items' = [items EXCEPT ![s] = Append(@, t)]
        BY <1>9, Zenon DEF StreamArrive
    <2>2. clock \in Nat /\ t \in Nat /\ items \in [Streams -> Seq(Nat)] /\ items[s] \in Seq(Nat)
        BY DEF KernelTypeOK
    <2>3. KernelTypeOK'
        BY <1>9, <2>1, <2>2 DEF StreamArrive, KernelTypeOK
    <2> DEFINE n == Len(items[s])
    <2>4. /\ items'[s] \in Seq(Nat) /\ Len(items'[s]) = n + 1 /\ n \in Nat
          /\ items'[s][n + 1] = t
          /\ \A i \in 1 .. n : items'[s][i] = items[s][i]
          /\ \A g \in Streams \ {s} : items'[g] = items[g]
        BY <2>1, <2>2
    <2>5. rd[s] \in Nat /\ batch[s] \in Nat
        BY Zenon DEF SortTypeOK
    <2>6. StreamInv'
        BY <1>1, <2>1, <2>2, <2>4, <2>5 DEF StreamInv, streamVars
    <2>7. heap_popped_time \in Nat /\ heap_popped_time <= t
        <3>1. CASE items[s] = <<>>
            BY <2>2, <3>1 DEF StreamTimeInv, SortTypeOK
        <3>2. CASE items[s] # <<>>
            <4>1. n \in 1 .. n /\ items[s][n] \in Nat
                BY <2>2, <3>2
            <4>2. heap_popped_time \in Nat /\ heap_popped_time <= items[s][n]
                BY <3>2, Zenon DEF StreamTimeInv, SortTypeOK
            <4>3. items[s][n] <= t
                BY <2>1, <4>1, Zenon
            <4> QED
                BY <2>2, <4>1, <4>2, <4>3
        <3> QED
            BY <3>1, <3>2, Zenon
    <2>8. StreamTimeInv'
        <3> SUFFICES ASSUME NEW g \in Streams
                     PROVE  /\ g \in heap \/ unconsumed[g] = 1 => heap_popped_time <= time[g]
                            /\ \A i \in rd[g] + 1 .. Len(items'[g]) : heap_popped_time <= items'[g][i]
                            /\ items'[g] = <<>> => heap_popped_time = 0
                            /\ items'[g] # <<>> => heap_popped_time <= items'[g][Len(items'[g])]
            BY <1>1, Zenon DEF StreamTimeInv, streamVars
        <3>1. CASE g = s
            <4>1. ASSUME NEW i \in rd[s] + 1 .. n + 1 PROVE heap_popped_time <= items'[s][i]
                <5>1. CASE i = n + 1
                    BY <2>4, <2>7, <5>1, Zenon
                <5>2. CASE i # n + 1
                    <6>1. i \in rd[s] + 1 .. n /\ i \in 1 .. n
                        BY <2>4, <2>5, <5>2
                    <6> QED
                        BY <2>4, <6>1, Zenon DEF StreamTimeInv
                <5> QED
                    BY <5>1, <5>2, Zenon
            <4>2. items'[s] # <<>> /\ heap_popped_time <= items'[s][Len(items'[s])]
                BY <2>4, <2>7
            <4> QED
                BY <2>4, <3>1, <4>1, <4>2, Zenon DEF StreamTimeInv
        <3>2. CASE g # s
            BY <2>4, <3>2, Zenon DEF StreamTimeInv
        <3> QED
            BY <3>1, <3>2, Zenon
    <2> QED
        BY <2>3, <2>6, <2>8, Zenon
<1> QED
    BY <1>2, <1>3, <1>4, <1>5, <1>6, <1>7, <1>8, <1>9, Zenon DEF Kernel

-----------------------------------------------------------------------------
(* What a read of a ring returns. *)

\* perf_mmap__read_event(): start and prev move together, past at most one record.
LEMMA ReadEventFacts ==
    ASSUME KernelTypeOK, RingTypeOK, prev = start, NEW m \in Maps, ReadEvent(m)
    PROVE  /\ prev' = start' /\ start' \in [Maps -> Nat] /\ end' \in [Maps -> Nat]
           /\ \A n \in Maps : start'[n] >= start[n]
           /\ start[m] < DataHead(m) =>
                start'[m] >= 1 /\ start'[m] \in Nat /\ log[m][start'[m]] \in Records
<1>1. log[m] \in Seq(Records) /\ start \in [Maps -> Nat] /\ end \in [Maps -> Nat]
    BY Zenon DEF KernelTypeOK, RingTypeOK
<1>2. Len(log[m]) \in Nat /\ start[m] \in Nat
    BY <1>1
<1>3. /\ prev' = start' /\ start' \in [Maps -> Nat] /\ end' \in [Maps -> Nat]
      /\ \A n \in Maps : start'[n] >= start[n]
    BY <1>1, <1>2 DEF ReadEvent, DataHead
<1>4. ASSUME start[m] < DataHead(m) PROVE start'[m] = start[m] + 1
    BY <1>1, <1>4, Zenon DEF ReadEvent
<1>5. ASSUME start[m] < DataHead(m) PROVE log[m][start[m] + 1] \in Records
    BY <1>1, <1>2, <1>5 DEF DataHead
<1> QED
    BY <1>2, <1>3, <1>4, <1>5

\* A pending loss is well-formed.
LEMMA LostAtType ==
    ASSUME NEW m \in Maps, NEW p \in Nat, log[m][p] \in Records
    PROVE  LostAt(m, p) \in LostRecords /\ LostAt(m, p).map \in Maps
BY SourceKinds, Zenon DEF LostAt, LostRecords, Records

\* A report is well-formed.
LEMMA ReportType ==
    ASSUME RingTypeOK, SortTypeOK, CallTypeOK, NEW m \in Maps, NEW t \in Nat,
           lost.map \in Maps
    PROVE  Report(m, lost, t) \in Reports
BY Zenon DEF RingTypeOK, SortTypeOK, CallTypeOK, LostRecords, Report, Reports

-----------------------------------------------------------------------------
(* Calls of order_process(), and its returns. *)

\* perf_mmap__read_init() keeps start where it is.
LEMMA ReadInitFacts ==
    ASSUME KernelTypeOK, RingTypeOK, prev = start, NEW m \in Maps, ReadInit(m)
    PROVE  start' = start /\ end' \in [Maps -> Nat]
<1>1. Len(log[m]) \in Nat /\ start \in [Maps -> Nat] /\ end \in [Maps -> Nat]
    BY DEF KernelTypeOK, RingTypeOK
<1> QED
    BY <1>1, Zenon DEF ReadInit, DataHead

\* order_mmap().
LEMMA OrderMmapInv == ASSUME NEW m \in Maps PROVE Inv /\ OrderMmap(m) => Inv'
<1> SUFFICES ASSUME Inv, OrderMmap(m) PROVE Inv'
    BY Zenon
<1> USE DEF Inv, TypeOK, OrderInv
<1>1. /\ pc' = "target" /\ target' = m /\ target_end' = DataHead(m) /\ target_tm' = 0
      /\ ReadInit(m)
      /\ UNCHANGED kernelVars /\ UNCHANGED lostVars /\ UNCHANGED streamVars /\ UNCHANGED outVars
      /\ tail' = tail /\ prev' = prev /\ event_mono_time' = event_mono_time
      /\ time' = time /\ heap' = heap /\ heap_popped_time' = heap_popped_time
      /\ break_reason' = break_reason
      /\ todo' = todo /\ cur' = cur /\ need_break' = need_break /\ lost' = lost
    BY Zenon DEF OrderMmap
<1>2. start' = start /\ end' \in [Maps -> Nat]
    BY <1>1, ReadInitFacts, Zenon DEF ControlInv
<1>3. KernelTypeOK' /\ SortTypeOK' /\ OutTypeOK' /\ items' = items /\ out' = out
    BY <1>1, KernelFrame, SortFrame, OutFrame, Zenon
<1>4. RingTypeOK'
    BY <1>1, <1>2, Zenon DEF RingTypeOK, lostVars
<1>5. CallTypeOK'
    <2>1. m \in 0 .. NrMaps /\ DataHead(m) \in Nat /\ clock \in Nat
        BY SourceKinds DEF KernelTypeOK, DataHead
    <2> QED
        BY <1>1, <2>1 DEF CallTypeOK, PCs
<1>6. ControlInv' /\ ReadyInv' /\ RingTimeInv'
    BY <1>1, <1>2, <1>3, Zenon DEF ControlInv, ReadyInv, RingTimeInv
<1>7. StreamInv' /\ StreamTimeInv'
    BY <1>1, <1>3, StreamFrame, Zenon
<1> QED
    BY <1>3, <1>4, <1>5, <1>6, <1>7, Zenon

\* The heap is empty and every source is still to be initialised.
LEMMA BeginInv ==
    ASSUME Inv, Begin, UNCHANGED <<start, end>>, {target', target_end', target_tm'} \subseteq Nat,
           target' \in 0 .. NrMaps
    PROVE  Inv'
<1> USE DEF Inv, TypeOK, OrderInv
<1>1. /\ pc' = "init" /\ todo' = HeapEventList /\ heap' = {} /\ lost' = NoLost
      /\ need_break' = 0 /\ cur' = cur
      /\ UNCHANGED kernelVars /\ UNCHANGED lostVars /\ UNCHANGED streamVars /\ UNCHANGED outVars
      /\ tail' = tail /\ prev' = prev /\ start' = start /\ end' = end
      /\ event_mono_time' = event_mono_time /\ time' = time
      /\ heap_popped_time' = heap_popped_time /\ break_reason' = break_reason
    BY Zenon DEF Begin
<1>2. KernelTypeOK' /\ RingTypeOK' /\ OutTypeOK' /\ items' = items /\ out' = out
    BY <1>1, KernelFrame, RingFrame, OutFrame, Zenon
<1>3. SortTypeOK'
    BY <1>1, Zenon DEF SortTypeOK, streamVars
<1>4. CallTypeOK'
    BY <1>1, ListFacts, NoLostType, Zenon DEF CallTypeOK, PCs
<1>5. ControlInv' /\ RingTimeInv'
    BY <1>1, <1>2, NoLostType, Zenon DEF ControlInv, RingTimeInv
<1>6. StreamInv' /\ StreamTimeInv'
    BY <1>1, <1>2, StreamFrame, Zenon
<1>7. ReadyInv'
    BY <1>1, ListFacts, Zenon DEF ReadyInv
<1> QED
    BY <1>2, <1>3, <1>4, <1>5, <1>6, <1>7, Zenon

\* The locals of order_process() are gone.
LEMMA ReturnInv ==
    ASSUME Inv, Return,
           UNCHANGED <<kernelVars, mmapVars, event_mono_time, lostVars, streamVars, time, heap,
                       heap_popped_time, break_reason, outVars>>
    PROVE  Inv'
<1> USE DEF Inv, TypeOK, OrderInv
<1>1. /\ UNCHANGED kernelVars /\ UNCHANGED mmapVars /\ UNCHANGED lostVars
      /\ UNCHANGED streamVars /\ UNCHANGED outVars
      /\ event_mono_time' = event_mono_time /\ time' = time /\ heap' = heap
      /\ heap_popped_time' = heap_popped_time /\ break_reason' = break_reason
    BY Zenon
<1>2. /\ pc' = "idle" /\ todo' = <<>> /\ cur' = 0 /\ need_break' = 0 /\ lost' = NoLost
      /\ target' = 0 /\ target_end' = 0 /\ target_tm' = 0
    BY Zenon DEF Return
<1>3. KernelTypeOK' /\ RingTypeOK' /\ SortTypeOK' /\ OutTypeOK' /\ items' = items /\ out' = out
    BY <1>1, KernelFrame, RingFrame, SortFrame, OutFrame, Zenon DEF mmapVars
<1>4. CallTypeOK'
    BY <1>2, NoLostType DEF CallTypeOK, PCs
<1>5. ControlInv' /\ RingTimeInv' /\ ReadyInv'
    BY <1>1, <1>2, <1>3, NoLostType, Zenon DEF ControlInv, RingTimeInv, ReadyInv, mmapVars
<1>6. StreamInv' /\ StreamTimeInv'
    BY <1>1, <1>3, StreamFrame, Zenon
<1> QED
    BY <1>3, <1>4, <1>5, <1>6, Zenon

\* The early return on an empty target, or the start of the sort.
LEMMA TargetCheckInv == Inv /\ TargetCheck => Inv'
<1> SUFFICES ASSUME Inv, TargetCheck PROVE Inv'
    BY Zenon
<1>1. CASE Return
    <2>1. UNCHANGED <<kernelVars, mmapVars, event_mono_time, lostVars, streamVars, time, heap,
                      heap_popped_time, break_reason, outVars>>
        BY <1>1, Zenon DEF TargetCheck, Return, Begin, mmapVars
    <2> QED
        BY <1>1, <2>1, ReturnInv, Zenon
<1>2. CASE Begin /\ UNCHANGED callVars
    <2>1. UNCHANGED <<start, end>>
        BY Zenon DEF TargetCheck
    <2>2. {target', target_end', target_tm'} \subseteq Nat /\ target' \in 0 .. NrMaps
        BY <1>2 DEF Inv, TypeOK, CallTypeOK, callVars
    <2> QED
        BY <1>2, <2>1, <2>2, BeginInv, Zenon
<1> QED
    BY <1>1, <1>2, Zenon DEF TargetCheck

\* order_to() and order_stream().
LEMMA OrderToInv == ASSUME NEW t \in Nat PROVE Inv /\ OrderTo(t) => Inv'
<1> SUFFICES ASSUME Inv, OrderTo(t) PROVE Inv'
    BY Zenon
<1>1. 0 \in 0 .. NrMaps
    BY OrderAssumption, NoLostType, Zenon DEF OrderAssumption
<1>2. {target', target_end', target_tm'} \subseteq Nat /\ target' \in 0 .. NrMaps
    BY <1>1 DEF OrderTo
<1> QED
    BY <1>2, BeginInv, Zenon DEF OrderTo

\* The end of order_process().
LEMMA ExitInv == Inv /\ Exit => Inv'
BY ReturnInv, Zenon DEF Exit

-----------------------------------------------------------------------------
(* order_heap_init(). *)

\* Dropping the head of heap_event_list loses no other stream.
LEMMA TailReady ==
    ASSUME CallTypeOK, ReadyInv, pc \in {"init", "initread"}, todo # <<>>,
           NEW s \in Streams, s # Head(todo)
    PROVE  s \in heap \/ \E j \in 1 .. Len(Tail(todo)) : Tail(todo)[j] = s
<1>1. CASE s \notin heap
    <2>1. PICK i \in 1 .. Len(todo) : todo[i] = s
        BY <1>1, Zenon DEF ReadyInv
    <2>2. todo \in Seq(Sources)
        BY Zenon DEF CallTypeOK
    <2> QED
        BY <2>1, <2>2, InTail, Zenon
<1> QED
    BY <1>1, Zenon

\* perf_mmap_event_init() before it reads.
LEMMA InitMmapInv == Inv /\ InitMmap => Inv'
<1> SUFFICES ASSUME Inv, InitMmap PROVE Inv'
    BY Zenon
<1> USE DEF Inv, TypeOK, OrderInv
<1> DEFINE m == Head(todo)
<1>1. /\ pc = "init" /\ todo # <<>> /\ m \in Maps /\ lost' = NoLost
      /\ UNCHANGED kernelVars /\ UNCHANGED lostVars /\ UNCHANGED streamVars
      /\ UNCHANGED callVars /\ UNCHANGED outVars
      /\ tail' = tail /\ prev' = prev /\ event_mono_time' = event_mono_time
      /\ time' = time /\ heap' = heap /\ heap_popped_time' = heap_popped_time
      /\ break_reason' = break_reason /\ need_break' = need_break
    BY Zenon DEF InitMmap
<1>2. \/ todo' = Tail(todo) /\ pc' = pc /\ cur' = cur /\ start' = start /\ end' = end
      \/ ReadInit(m) /\ pc' = "initread" /\ cur' = m /\ todo' = todo
    BY Zenon DEF InitMmap
<1>3. Tail(todo) \in Seq(Sources) /\ m \in 0 .. NrMaps
    <2>1. todo \in Seq(Sources)
        BY Zenon DEF CallTypeOK
    <2>2. Tail(todo) \in Seq(Sources)
        BY <1>1, <2>1
    <2> QED
        BY <1>1, <2>2, SourceKinds, Zenon
<1>4. start' = start /\ end' \in [Maps -> Nat]
    BY <1>1, <1>2, ReadInitFacts, Zenon DEF ControlInv, RingTypeOK
<1> HIDE DEF m
<1>5. KernelTypeOK' /\ SortTypeOK' /\ OutTypeOK' /\ items' = items /\ out' = out
    BY <1>1, KernelFrame, SortFrame, OutFrame, Zenon
<1>6. RingTypeOK'
    BY <1>1, <1>4, Zenon DEF RingTypeOK, lostVars
<1>7. CallTypeOK'
    <2>1. pc' \in PCs /\ todo' \in Seq(Sources) /\ cur' \in 0 .. NrMaps
        BY <1>1, <1>2, <1>3, Zenon DEF CallTypeOK, PCs
    <2> QED
        BY <1>1, <2>1, NoLostType, CallFrame, Zenon DEF CallTypeOK
<1>8. ControlInv'
    BY <1>1, <1>2, <1>4, NoLostType, Zenon DEF ControlInv, m
<1>9. RingTimeInv'
    BY <1>1, <1>2, <1>5, Zenon DEF RingTimeInv
<1>10. StreamInv' /\ StreamTimeInv'
    BY <1>1, <1>5, StreamFrame, Zenon
<1>11. ReadyInv'
    <2>1. \A s \in Streams : s # m
        BY <1>1, SourceKinds, Zenon
    <2>2. ASSUME NEW s \in Streams PROVE s \in heap \/ \E i \in 1 .. Len(todo') : todo'[i] = s
        <3>1. CASE todo' = Tail(todo)
            BY <1>1, <2>1, <3>1, TailReady, Zenon DEF m
        <3>2. CASE todo' = todo
            BY <1>1, <3>2, Zenon DEF ReadyInv
        <3> QED
            BY <1>2, <3>1, <3>2, Zenon
    <2>3. pc' \notin {"loop", "consume", "read"}
        BY <1>1, <1>2, Zenon
    <2> QED
        BY <1>1, <2>2, <2>3, Zenon DEF ReadyInv
<1> QED
    BY <1>5, <1>6, <1>7, <1>8, <1>9, <1>10, <1>11, Zenon

\* perf_mmap_event_init() at retry.
LEMMA InitReadInv == Inv /\ InitRead => Inv'
<1> SUFFICES ASSUME Inv, InitRead PROVE Inv'
    BY Zenon
<1> USE DEF Inv, TypeOK, OrderInv
<1> DEFINE m == cur
           p == start'[m]
           r == log[m][p]
           t == FixAtInit(r.time)
<1>1. /\ pc = "initread" /\ m \in Maps /\ ReadEvent(m)
      /\ UNCHANGED kernelVars /\ UNCHANGED lostVars /\ UNCHANGED streamVars /\ UNCHANGED callVars
      /\ event_mono_time' = event_mono_time /\ heap_popped_time' = heap_popped_time
      /\ break_reason' = break_reason /\ cur' = cur /\ need_break' = need_break
    BY Zenon DEF InitRead, ControlInv
<1>2. /\ prev' = start' /\ start' \in [Maps -> Nat] /\ end' \in [Maps -> Nat]
      /\ \A n \in Maps : start'[n] >= start[n]
      /\ start[m] < DataHead(m) => p >= 1 /\ p \in Nat /\ r \in Records
    BY <1>1, ReadEventFacts, Zenon DEF ControlInv
<1>3. \/ /\ start[m] = DataHead(m)
         /\ pc' = "init" /\ todo' = Tail(todo) /\ lost' = NoLost
         /\ tail' = tail /\ time' = time /\ heap' = heap /\ UNCHANGED outVars
      \/ /\ start[m] < DataHead(m) /\ lost' = LostAt(m, p)
         /\ tail' = [tail EXCEPT ![m] = prev'[m]]
         /\ pc' = pc /\ todo' = todo /\ time' = time /\ heap' = heap /\ UNCHANGED outVars
      \/ /\ start[m] < DataHead(m) /\ Deliver(m, p)
         /\ tail' = [tail EXCEPT ![m] = prev'[m]]
         /\ pc' = pc /\ todo' = todo /\ lost' = lost /\ time' = time /\ heap' = heap
         /\ out' = out /\ reports' = reports
      \/ /\ start[m] < DataHead(m) /\ time' = [time EXCEPT ![m] = t]
         /\ heap' = heap \cup {m}
         /\ reports' = IF lost.n > 0 THEN reports \cup {Report(m, lost, t)} ELSE reports
         /\ lost' = NoLost /\ pc' = "init" /\ todo' = Tail(todo)
         /\ tail' = tail /\ got' = got /\ out' = out
    BY Zenon DEF InitRead
<1>4. start[m] < DataHead(m) => t \in Nat /\ t >= heap_popped_time
    BY <1>2 DEF FixAtInit, Records, SortTypeOK
<1> HIDE DEF m, p, r, t
<1>5. KernelTypeOK' /\ items' = items
    BY <1>1, KernelFrame, Zenon
<1>6. RingTypeOK'
    <2>1. tail' = tail \/ tail' = [tail EXCEPT ![m] = prev'[m]]
        BY <1>3, Zenon
    <2>2. tail' \in [Maps -> Nat]
        BY <1>1, <1>2, <2>1, Zenon DEF RingTypeOK
    <2> QED
        BY <1>1, <1>2, <2>2, Zenon DEF RingTypeOK, lostVars
<1>7. /\ time' = time /\ heap' = heap
      \/ /\ start[m] < DataHead(m) /\ time' = [time EXCEPT ![m] = t] /\ heap' = heap \cup {m}
    BY <1>3, Zenon
<1>8. SortTypeOK'
    <2>1. m \in Sources /\ heap \subseteq Sources /\ time \in [Sources -> Nat]
        BY <1>1, SourceKinds, Zenon DEF SortTypeOK
    <2>2. time' \in [Sources -> Nat] /\ heap' \subseteq Sources
        BY <1>4, <1>7, <2>1, Zenon
    <2> QED
        BY <1>1, <2>2, Zenon DEF SortTypeOK, streamVars
<1>9. todo # <<>> /\ Head(todo) = m
    BY <1>1, Zenon DEF ControlInv, m
<1>10. \/ pc' = "init" /\ todo' = Tail(todo) /\ cur' = cur
       \/ pc' = "initread" /\ todo' = todo /\ cur' = cur
    BY <1>1, <1>3, Zenon
<1>11. start[m] < DataHead(m) => LostAt(m, p) \in LostRecords /\ LostAt(m, p).map \in Maps
    BY <1>1, <1>2, LostAtType, Zenon DEF r
<1>12. CallTypeOK'
    <2>1. todo \in Seq(Sources)
        BY Zenon DEF CallTypeOK
    <2>2. Tail(todo) \in Seq(Sources)
        BY <1>9, <2>1
    <2>3. pc' \in PCs /\ todo' \in Seq(Sources)
        BY <1>10, <2>1, <2>2, Zenon DEF PCs
    <2>4. lost' \in LostRecords
        BY <1>3, <1>11, NoLostType, Zenon DEF CallTypeOK
    <2> QED
        BY <1>1, <2>3, <2>4, CallFrame, Zenon DEF CallTypeOK
<1>13. OutTypeOK' /\ out' = out
    <2>1. lost.n > 0 /\ start[m] < DataHead(m) => Report(m, lost, t) \in Reports
        BY <1>1, <1>4, ReportType, Zenon DEF ControlInv
    <2>2. reports' \subseteq Reports /\ out' = out
        BY <1>3, <2>1, Zenon DEF OutTypeOK, outVars
    <2>3. p \in Nat => Append(got[m], p) \in Seq(Nat)
        BY <1>1 DEF OutTypeOK
    <2>4. got' = got \/ (p \in Nat /\ got' = [got EXCEPT ![m] = Append(@, p)])
        BY <1>2, <1>3, Zenon DEF outVars, Deliver
    <2>5. got' \in [Maps -> Seq(Nat)]
        BY <1>1, <2>3, <2>4, Zenon DEF OutTypeOK
    <2> QED
        BY <2>2, <2>5, Zenon DEF OutTypeOK
<1>14. ControlInv'
    <2>1. lost'.n > 0 => lost'.map \in Maps
        BY <1>3, <1>11, NoLostType, Zenon DEF ControlInv
    <2>2. ASSUME NEW n \in Maps, n \in heap' PROVE start'[n] >= 1
        <3>1. start[n] \in Nat /\ start'[n] \in Nat /\ start'[n] >= start[n]
            BY <1>2, Zenon DEF RingTypeOK
        <3>2. CASE n \in heap
            BY <3>1, <3>2 DEF ControlInv
        <3>3. CASE n = m /\ start[m] < DataHead(m)
            BY <1>2, <3>3, Zenon DEF p
        <3> QED
            BY <1>7, <2>2, <3>2, <3>3, Zenon
    <2> QED
        BY <1>1, <1>2, <1>9, <1>10, <2>1, <2>2, Zenon DEF ControlInv, m
<1>15. \A s \in Streams : (s \in heap' <=> s \in heap) /\ time'[s] = time[s] /\ s # m
    BY <1>1, <1>7, SourceKinds, Zenon DEF SortTypeOK
<1>16. StreamInv' /\ StreamTimeInv'
    BY <1>1, <1>5, <1>15, StreamFrame, Zenon
<1>17. ReadyInv'
    <2>1. ASSUME NEW s \in Streams PROVE s \in heap' \/ \E i \in 1 .. Len(todo') : todo'[i] = s
        <3>1. CASE todo' = Tail(todo)
            BY <1>1, <1>9, <1>15, <3>1, TailReady, Zenon
        <3>2. CASE todo' = todo
            BY <1>1, <1>15, <3>2, Zenon DEF ReadyInv
        <3> QED
            BY <1>10, <3>1, <3>2, Zenon
    <2>2. pc' \notin {"loop", "consume", "read"}
        BY <1>10, Zenon
    <2> QED
        BY <2>1, <2>2, Zenon DEF ReadyInv
<1>18. RingTimeInv'
    <2>1. pc' \notin {"consume", "read"}
        BY <1>10, Zenon
    <2>2. ASSUME NEW n \in Maps, n \in heap'
          PROVE  time'[n] >= heap_popped_time \/ event_mono_time[n] = heap_popped_time
        <3>1. CASE n \in heap /\ time'[n] = time[n]
            BY <3>1, Zenon DEF RingTimeInv
        <3>2. CASE start[m] < DataHead(m) /\ time'[n] = t
            BY <1>4, <3>2, Zenon
        <3>3. \/ n \in heap /\ time'[n] = time[n]
              \/ start[m] < DataHead(m) /\ time'[n] = t
            BY <1>1, <1>7, <2>2, SourceKinds, Zenon DEF SortTypeOK
        <3> QED
            BY <3>1, <3>2, <3>3, Zenon
    <2> QED
        BY <1>1, <1>13, <2>1, <2>2, Zenon DEF RingTimeInv
<1> QED
    BY <1>5, <1>6, <1>8, <1>12, <1>13, <1>14, <1>16, <1>17, <1>18, Zenon

\* stream_event_init().
LEMMA InitStreamInv == ASSUME Inv, NEW h \in Streams, InitStream(h) PROVE Inv'
<1>0. h = Head(todo) /\ InitStream(Head(todo))
    BY Zenon DEF InitStream
<1> USE DEF Inv, TypeOK, OrderInv
<1> DEFINE s == Head(todo)
           b == IF rd[s] < batch[s] THEN batch[s] ELSE Len(items[s])
<1>1. /\ pc = "init" /\ todo # <<>> /\ s \in Streams
      /\ UNCHANGED kernelVars /\ UNCHANGED mmapVars /\ UNCHANGED lostVars
      /\ UNCHANGED callVars /\ UNCHANGED outVars
      /\ event_mono_time' = event_mono_time /\ heap_popped_time' = heap_popped_time
      /\ cur' = cur /\ need_break' = need_break /\ lost' = lost
    BY <1>0, Zenon DEF InitStream
<1>2. /\ rd[s] \in Nat /\ batch[s] \in Nat /\ items[s] \in Seq(Nat) /\ Len(items[s]) \in Nat
      /\ rd[s] <= batch[s] /\ batch[s] <= Len(items[s]) /\ s \in Sources /\ s \notin Maps
    <2>1. rd[s] \in Nat /\ batch[s] \in Nat
        BY <1>1, Zenon DEF SortTypeOK
    <2>2. items[s] \in Seq(Nat)
        BY <1>1, Zenon DEF KernelTypeOK
    <2>3. rd[s] <= batch[s] /\ batch[s] <= Len(items[s])
        BY <1>1, Zenon DEF StreamInv
    <2>4. s \in Sources /\ s \notin Maps
        BY <1>1, SourceKinds, Zenon
    <2>5. Len(items[s]) \in Nat
        BY <2>2
    <2> QED
        BY <2>1, <2>2, <2>3, <2>4, <2>5, Zenon
<1>3. \/ /\ unconsumed[s] = 1
         /\ unconsumed' = [unconsumed EXCEPT ![s] = 0]
         /\ heap' = heap \cup {s} /\ todo' = Tail(todo)
         /\ rd' = rd /\ batch' = batch /\ time' = time /\ pc' = pc
         /\ break_reason' = break_reason
      \/ /\ rd[s] < b
         /\ rd' = [rd EXCEPT ![s] = @ + 1]
         /\ batch' = [batch EXCEPT ![s] = b]
         /\ time' = [time EXCEPT ![s] = items[s][rd[s] + 1]]
         /\ heap' = heap \cup {s} /\ todo' = Tail(todo)
         /\ unconsumed' = unconsumed /\ pc' = pc /\ break_reason' = break_reason
      \/ /\ break_reason' = "STREAM_STOP" /\ pc' = "exit"
         /\ rd' = rd /\ batch' = batch /\ time' = time /\ unconsumed' = unconsumed
         /\ heap' = heap /\ todo' = todo
    BY <1>0, Zenon DEF InitStream, StreamStop
<1>4. b \in Nat /\ b <= Len(items[s])
    BY <1>2
<1>5. Tail(todo) \in Seq(Sources) /\ todo \in Seq(Sources)
    BY <1>1 DEF CallTypeOK
<1> HIDE DEF s, b
<1>19. ASSUME rd[s] < b
       PROVE  /\ items[s][rd[s] + 1] \in Nat
              /\ rd[s] + 1 \in rd[s] + 1 .. Len(items[s]) /\ rd[s] + 1 <= b /\ rd[s] + 1 >= 1
    <2>1. rd[s] + 1 \in 1 .. Len(items[s]) /\ rd[s] + 1 \in rd[s] + 1 .. Len(items[s])
          /\ rd[s] + 1 <= b
        BY <1>2, <1>4, <1>19
    <2> QED
        BY <1>2, <2>1
<1>20. /\ time' = time \/ (items[s][rd[s] + 1] \in Nat /\ time' = [time EXCEPT ![s] = items[s][rd[s] + 1]])
       /\ todo' = todo \/ todo' = Tail(todo)
    BY <1>3, <1>19, Zenon
<1>17. heap' = heap \/ heap' = heap \cup {s}
    BY <1>3, Zenon
<1>18. \/ pc' = "exit"
       \/ pc' = "init" /\ heap' = heap \cup {s} /\ todo' = Tail(todo)
    BY <1>1, <1>3, Zenon
<1>6. KernelTypeOK' /\ RingTypeOK' /\ OutTypeOK' /\ items' = items /\ out' = out
    BY <1>1, KernelFrame, RingFrame, OutFrame, Zenon DEF mmapVars
<1>7. SortTypeOK'
    <2>1. break_reason' = break_reason \/ break_reason' = "STREAM_STOP"
        BY <1>3, Zenon
    <2>5. heap' \subseteq Sources /\ break_reason' \in BreakReasons /\ heap_popped_time' \in Nat
        BY <1>1, <1>2, <1>17, <2>1, Zenon DEF SortTypeOK, BreakReasons
    <2>2. rd' \in [Streams -> Nat] /\ batch' \in [Streams -> Nat]
        <3>1. rd[s] + 1 \in Nat
            BY <1>2
        <3>2. rd' = rd \/ rd' = [rd EXCEPT ![s] = rd[s] + 1]
            BY <1>3, Zenon
        <3>3. batch' = batch \/ batch' = [batch EXCEPT ![s] = b]
            BY <1>3, Zenon
        <3> QED
            BY <1>4, <3>1, <3>2, <3>3, Zenon DEF SortTypeOK
    <2>3. unconsumed' \in [Streams -> {0, 1}]
        BY <1>3, Zenon DEF SortTypeOK
    <2>4. time' \in [Sources -> Nat]
        BY <1>20, Zenon DEF SortTypeOK
    <2> QED
        BY <2>2, <2>3, <2>4, <2>5, Zenon DEF SortTypeOK
<1>8. CallTypeOK'
    <2>1. pc' \in PCs /\ todo' \in Seq(Sources)
        BY <1>5, <1>18, <1>20, Zenon DEF PCs
    <2> QED
        BY <1>1, <2>1, CallFrame, Zenon DEF CallTypeOK
<1>9. ControlInv'
    <2>1. pc' \in {"init", "exit"}
        BY <1>18, Zenon
    <2>2. \A m \in Maps : m \in heap' => m \in heap
        BY <1>2, <1>17, Zenon
    <2> QED
        BY <1>1, <2>1, <2>2, Zenon DEF ControlInv, mmapVars
<1>10. ReadyInv'
    <2>1. \A g \in Streams : g # s => g \in heap \/ \E j \in 1 .. Len(Tail(todo)) : Tail(todo)[j] = g
        BY <1>1, TailReady, Zenon DEF s
    <2> QED
        BY <1>18, <2>1, Zenon DEF ReadyInv
<1>11. \A m \in Maps : (m \in heap' <=> m \in heap) /\ time'[m] = time[m]
    BY <1>2, <1>17, <1>20, SourceKinds, Zenon DEF SortTypeOK
<1>12. RingTimeInv'
    <2>1. pc' \notin {"consume", "read"}
        BY <1>18, Zenon
    <2> QED
        BY <1>1, <1>6, <1>11, <2>1, Zenon DEF RingTimeInv
<1>13. \A g \in Streams : g # s =>
        /\ rd'[g] = rd[g] /\ batch'[g] = batch[g] /\ time'[g] = time[g]
        /\ unconsumed'[g] = unconsumed[g] /\ (g \in heap' <=> g \in heap) /\ items'[g] = items[g]
    BY <1>3, <1>6, SourceKinds, Zenon DEF SortTypeOK
<1>14. /\ items' = items /\ heap_popped_time' = heap_popped_time
       /\ rd'[s] <= batch'[s] /\ batch'[s] <= Len(items[s])
       /\ s \in heap' \/ unconsumed'[s] = 1 =>
            rd'[s] >= 1 /\ time'[s] = items[s][rd'[s]] /\ heap_popped_time <= time'[s]
       /\ rd'[s] >= rd[s] /\ rd'[s] \in Nat
    <2>1. items' = items /\ heap_popped_time' = heap_popped_time
        BY <1>1, <1>6, Zenon
    <2>5. /\ rd[s] <= batch[s] /\ batch[s] <= Len(items[s])
          /\ s \in heap \/ unconsumed[s] = 1 =>
               rd[s] >= 1 /\ time[s] = items[s][rd[s]] /\ heap_popped_time <= time[s]
        <3>1. /\ rd[s] <= batch[s] /\ batch[s] <= Len(items[s])
              /\ s \in heap \/ unconsumed[s] = 1 => rd[s] >= 1 /\ time[s] = items[s][rd[s]]
            BY <1>1, <1>2, Zenon DEF StreamInv
        <3>2. s \in heap \/ unconsumed[s] = 1 => heap_popped_time <= time[s]
            BY <1>1, <1>2, Zenon DEF StreamTimeInv
        <3> QED
            BY <3>1, <3>2, Zenon
    <2>6. rd[s] >= rd[s] /\ rd[s] \in Nat
        BY <1>2
    <2>2. CASE /\ unconsumed[s] = 1
               /\ rd' = rd /\ batch' = batch /\ time' = time
        BY <2>1, <2>2, <2>5, <2>6, Zenon
    <2>3. CASE /\ rd[s] < b
               /\ rd' = [rd EXCEPT ![s] = @ + 1]
               /\ batch' = [batch EXCEPT ![s] = b]
               /\ time' = [time EXCEPT ![s] = items[s][rd[s] + 1]]
        <3>1. rd'[s] = rd[s] + 1 /\ batch'[s] = b /\ time'[s] = items[s][rd[s] + 1]
            BY <1>1, <1>2, <2>3, Zenon DEF SortTypeOK
        <3>2. /\ rd[s] + 1 \in rd[s] + 1 .. Len(items[s]) /\ rd[s] + 1 <= b /\ rd[s] + 1 >= 1
              /\ rd[s] + 1 >= rd[s] /\ rd[s] + 1 \in Nat
            BY <1>2, <1>19, <2>3
        <3>3. heap_popped_time <= items[s][rd[s] + 1]
            BY <1>1, <3>2, Zenon DEF StreamTimeInv
        <3> QED
            BY <1>4, <2>1, <3>1, <3>2, <3>3, Zenon
    <2>4. CASE /\ rd' = rd /\ batch' = batch /\ time' = time
               /\ unconsumed' = unconsumed /\ heap' = heap
        BY <2>1, <2>4, <2>5, <2>6, Zenon
    <2> QED
        BY <1>3, <2>2, <2>3, <2>4, Zenon
<1>15. StreamInv'
    <2> SUFFICES ASSUME NEW g \in Streams
                 PROVE  /\ rd'[g] <= batch'[g] /\ batch'[g] <= Len(items[g])
                        /\ \A i, j \in 1 .. Len(items[g]) : i <= j => items[g][i] <= items[g][j]
                        /\ g \in heap' \/ unconsumed'[g] = 1 =>
                             rd'[g] >= 1 /\ time'[g] = items[g][rd'[g]]
        BY <1>14, Zenon DEF StreamInv
    <2>1. \A i, j \in 1 .. Len(items[g]) : i <= j => items[g][i] <= items[g][j]
        BY Zenon DEF StreamInv
    <2>2. CASE g = s
        BY <1>14, <2>1, <2>2, Zenon
    <2>3. CASE g # s
        BY <1>13, <2>1, <2>3, Zenon DEF StreamInv
    <2> QED
        BY <2>2, <2>3, Zenon
<1>16. StreamTimeInv'
    <2> SUFFICES ASSUME NEW g \in Streams
                 PROVE  /\ g \in heap' \/ unconsumed'[g] = 1 => heap_popped_time <= time'[g]
                        /\ \A i \in rd'[g] + 1 .. Len(items[g]) : heap_popped_time <= items[g][i]
                        /\ items[g] = <<>> => heap_popped_time = 0
                        /\ items[g] # <<>> => heap_popped_time <= items[g][Len(items[g])]
        BY <1>14, Zenon DEF StreamTimeInv
    <2>1. CASE g = s
        <3>1. /\ \A i \in rd[g] + 1 .. Len(items[g]) : heap_popped_time <= items[g][i]
              /\ items[g] = <<>> => heap_popped_time = 0
              /\ items[g] # <<>> => heap_popped_time <= items[g][Len(items[g])]
            BY Zenon DEF StreamTimeInv
        <3>2. g \in heap' \/ unconsumed'[g] = 1 => heap_popped_time <= time'[g]
            BY <1>14, <2>1, Zenon
        <3>3. \A i \in rd'[g] + 1 .. Len(items[g]) : i \in rd[g] + 1 .. Len(items[g])
            BY <1>2, <1>14, <2>1
        <3> QED
            BY <3>1, <3>2, <3>3, Zenon
    <2>2. CASE g # s
        BY <1>13, <2>2, Zenon DEF StreamTimeInv
    <2> QED
        BY <2>1, <2>2, Zenon
<1> QED
    BY <1>6, <1>7, <1>8, <1>9, <1>10, <1>12, <1>15, <1>16, Zenon

\* The heap is complete.
LEMMA InitDoneInv == Inv /\ InitDone => Inv'
<1> SUFFICES ASSUME Inv, InitDone PROVE Inv'
    BY Zenon
<1> USE DEF Inv, TypeOK, OrderInv
<1>1. /\ pc = "init" /\ todo = <<>> /\ pc' = "loop" /\ lost' = NoLost
      /\ UNCHANGED kernelVars /\ UNCHANGED mmapVars /\ UNCHANGED lostVars
      /\ UNCHANGED streamVars /\ UNCHANGED callVars /\ UNCHANGED outVars
      /\ event_mono_time' = event_mono_time /\ time' = time /\ heap' = heap
      /\ heap_popped_time' = heap_popped_time /\ break_reason' = break_reason
      /\ todo' = todo /\ cur' = cur /\ need_break' = need_break
    BY Zenon DEF InitDone
<1>2. KernelTypeOK' /\ RingTypeOK' /\ SortTypeOK' /\ OutTypeOK' /\ items' = items /\ out' = out
    BY <1>1, KernelFrame, RingFrame, SortFrame, OutFrame, Zenon DEF mmapVars
<1>3. CallTypeOK'
    BY <1>1, NoLostType, CallFrame, Zenon DEF CallTypeOK, PCs
<1>4. ControlInv' /\ RingTimeInv'
    BY <1>1, <1>2, NoLostType, Zenon DEF ControlInv, RingTimeInv, mmapVars
<1>5. ReadyInv'
    BY <1>1 DEF ReadyInv
<1>6. StreamInv' /\ StreamTimeInv'
    BY <1>1, <1>2, StreamFrame, Zenon
<1> QED
    BY <1>2, <1>3, <1>4, <1>5, <1>6, Zenon

-----------------------------------------------------------------------------
(* The sorting loop and the clean-up of the heap. *)

\* Every early break of the loop.
LEMMA LoopBreakInv ==
    ASSUME Inv, NEW reason \in BreakReasons, LoopBreak(reason), RingTypeOK'
    PROVE  Inv'
<1> USE DEF Inv, TypeOK, OrderInv
<1>1. /\ break_reason' = reason /\ pc' = "exit"
      /\ UNCHANGED kernelVars /\ UNCHANGED mmapVars /\ UNCHANGED streamVars
      /\ UNCHANGED callVars /\ UNCHANGED outVars
      /\ event_mono_time' = event_mono_time /\ time' = time /\ heap' = heap
      /\ heap_popped_time' = heap_popped_time
      /\ todo' = todo /\ cur' = cur /\ need_break' = need_break /\ lost' = lost
    BY Zenon DEF LoopBreak
<1>2. KernelTypeOK' /\ OutTypeOK' /\ items' = items /\ out' = out
    BY <1>1, KernelFrame, OutFrame, Zenon
<1>3. SortTypeOK'
    BY <1>1, Zenon DEF SortTypeOK, streamVars
<1>4. CallTypeOK'
    BY <1>1, CallFrame, Zenon DEF CallTypeOK, PCs
<1>5. ControlInv' /\ RingTimeInv' /\ ReadyInv'
    BY <1>1, <1>2, Zenon DEF ControlInv, RingTimeInv, ReadyInv, mmapVars
<1>6. StreamInv' /\ StreamTimeInv'
    BY <1>1, <1>2, StreamFrame, Zenon
<1> QED
    BY <1>2, <1>3, <1>4, <1>5, <1>6, Zenon

\* Every reason for which the sorting loop stops before an event keeps the invariant.
LEMMA LoopBreaksInv ==
    ASSUME Inv, LoopEmpty \/ \E m \in Maps : LoopTargetTime(m) \/ LoopLostWait(m)
    PROVE  Inv'
<1> USE DEF Inv, TypeOK
<1>1. CASE LoopEmpty
    <2>1. RingTypeOK'
        BY <1>1, Zenon DEF RingTypeOK, LoopEmpty, LoopBreak, lostVars, mmapVars
    <2> QED
        BY <1>1, <2>1, LoopBreakInv, Zenon DEF LoopEmpty, BreakReasons
<1>2. ASSUME NEW m \in Maps, LoopTargetTime(m) PROVE Inv'
    <2>1. RingTypeOK'
        BY <1>2, Zenon DEF RingTypeOK, LoopTargetTime, LoopBreak, lostVars, mmapVars
    <2> QED
        BY <1>2, <2>1, LoopBreakInv, Zenon DEF LoopTargetTime, BreakReasons
<1>3. ASSUME NEW m \in Maps, LoopLostWait(m) PROVE Inv'
    <2>1. RingTypeOK'
        BY <1>3, Zenon DEF RingTypeOK, LoopLostWait, LoopBreak, mmapVars
    <2>2. (IF lost_pause[m] = 1 THEN break_reason ELSE "LOST_WAIT") \in BreakReasons
        BY Zenon DEF SortTypeOK, BreakReasons
    <2> QED
        BY <1>3, <2>1, <2>2, LoopBreakInv, Zenon DEF LoopLostWait
<1> QED
    BY <1>1, <1>2, <1>3, Zenon

\* heap_popped_time may move to t when no source is behind t: the invariants that speak of
\* it are kept by any step that leaves the rest of the streams alone.
LEMMA PoppedStreams ==
    ASSUME Inv, NEW t \in Nat, NEW s \in Streams, s \in heap, t <= time[s]
    PROVE  /\ items[s] # <<>>
           /\ \A i \in rd[s] .. Len(items[s]) : t <= items[s][i]
           /\ t <= items[s][Len(items[s])]
<1>1. /\ rd[s] \in Nat /\ items[s] \in Seq(Nat) /\ Len(items[s]) \in Nat /\ rd[s] >= 1
      /\ batch[s] \in Nat
      /\ rd[s] <= Len(items[s]) /\ time[s] = items[s][rd[s]] /\ time[s] \in Nat
    <2>1. rd[s] \in Nat /\ batch[s] \in Nat
        BY Zenon DEF Inv, TypeOK, SortTypeOK
    <2>2. items[s] \in Seq(Nat)
        BY Zenon DEF Inv, TypeOK, KernelTypeOK
    <2>3. rd[s] <= batch[s] /\ batch[s] <= Len(items[s]) /\ rd[s] >= 1 /\ time[s] = items[s][rd[s]]
        BY Zenon DEF Inv, OrderInv, StreamInv
    <2>4. Len(items[s]) \in Nat
        BY <2>2
    <2>5. time[s] \in Nat
        BY SourceKinds, Zenon DEF Inv, TypeOK, SortTypeOK
    <2> QED
        BY <2>1, <2>2, <2>3, <2>4, <2>5
<1>2. ASSUME NEW i \in rd[s] .. Len(items[s]) PROVE t <= items[s][i]
    <2>1. rd[s] \in 1 .. Len(items[s]) /\ i \in 1 .. Len(items[s]) /\ rd[s] <= i
        BY <1>1
    <2>2. items[s][rd[s]] <= items[s][i]
        BY <2>1, Zenon DEF Inv, OrderInv, StreamInv
    <2>3. items[s] \in Seq(Nat) /\ i \in 1 .. Len(items[s])
        BY <1>1, <2>1, Zenon
    <2>4. items[s][i] \in Nat
        BY <2>3
    <2> QED
        BY <1>1, <2>2, <2>4
<1>3. Len(items[s]) \in rd[s] .. Len(items[s]) /\ items[s] # <<>>
    BY <1>1
<1> QED
    BY <1>2, <1>3, Zenon

\* stream_event_process(): the item is not behind heap_popped_time, and nothing in the heap
\* is behind the item.
LEMMA LoopStreamInv == ASSUME NEW s \in Streams PROVE Inv /\ LoopStream(s) => Inv' /\ out' >= out
<1> SUFFICES ASSUME Inv, LoopStream(s) PROVE Inv' /\ out' >= out
    BY Zenon
<1> USE DEF Inv, TypeOK, OrderInv
<1>1. /\ pc = "loop" /\ s \in heap /\ \A g \in heap : time[s] <= time[g]
      /\ Popped(time[s]) /\ out' = time[s]
      /\ UNCHANGED kernelVars /\ UNCHANGED mmapVars /\ UNCHANGED lostVars /\ UNCHANGED callVars
      /\ event_mono_time' = event_mono_time /\ batch' = batch /\ unconsumed' = unconsumed
      /\ todo' = todo /\ cur' = cur /\ need_break' = need_break /\ lost' = lost
      /\ got' = got /\ reports' = reports
    BY Zenon DEF LoopStream, Top
<1>2. \/ /\ rd[s] < batch[s]
         /\ rd' = [rd EXCEPT ![s] = @ + 1]
         /\ time' = [time EXCEPT ![s] = items[s][rd[s] + 1]]
         /\ heap' = heap /\ pc' = pc /\ break_reason' = break_reason
      \/ /\ heap' = heap \ {s}
         /\ break_reason' = "STREAM_STOP" /\ pc' = "exit"
         /\ rd' = rd /\ time' = time
    BY Zenon DEF LoopStream, StreamStop
<1>3. \A g \in Streams : g \in heap
    BY <1>1, Zenon DEF ReadyInv
<1>4. /\ time \in [Sources -> Nat] /\ time[s] \in Nat /\ heap_popped_time \in Nat
      /\ s \in Sources /\ s \notin Maps
    BY SourceKinds, Zenon DEF SortTypeOK
<1>5. heap_popped_time <= time[s]
    BY <1>1, Zenon DEF StreamTimeInv
<1>6. heap_popped_time' = time[s] /\ out' >= out
    BY <1>1, <1>4, <1>5 DEF Popped, RingTimeInv
<1>7. /\ rd[s] \in Nat /\ batch[s] \in Nat /\ items[s] \in Seq(Nat) /\ Len(items[s]) \in Nat
      /\ rd[s] <= batch[s] /\ batch[s] <= Len(items[s]) /\ rd[s] >= 1
    <2>1. rd[s] \in Nat /\ batch[s] \in Nat
        BY Zenon DEF SortTypeOK
    <2>2. items[s] \in Seq(Nat)
        BY Zenon DEF KernelTypeOK
    <2>3. rd[s] <= batch[s] /\ batch[s] <= Len(items[s]) /\ rd[s] >= 1
        BY <1>1, Zenon DEF StreamInv
    <2> QED
        BY <2>1, <2>2, <2>3
<1>8. \A g \in Streams :
        /\ items[g] # <<>>
        /\ \A i \in rd[g] .. Len(items[g]) : time[s] <= items[g][i]
        /\ time[s] <= items[g][Len(items[g])]
    BY <1>1, <1>3, <1>4, PoppedStreams, Zenon
<1>9. rd[s] < batch[s] => /\ items[s][rd[s] + 1] \in Nat
                          /\ time[s] <= items[s][rd[s] + 1]
    <2> SUFFICES ASSUME rd[s] < batch[s]
                 PROVE  items[s][rd[s] + 1] \in Nat /\ time[s] <= items[s][rd[s] + 1]
        BY Zenon
    <2>1. rd[s] + 1 \in 1 .. Len(items[s]) /\ rd[s] + 1 \in rd[s] .. Len(items[s])
        BY <1>7
    <2> QED
        BY <1>7, <1>8, <2>1
<1>10. KernelTypeOK' /\ RingTypeOK' /\ OutTypeOK' /\ items' = items
    <2>1. OutTypeOK'
        BY <1>1, <1>4, Zenon DEF OutTypeOK
    <2> QED
        BY <1>1, <2>1, KernelFrame, RingFrame, Zenon DEF mmapVars
<1>11. SortTypeOK'
    <2>1. time' = time \/ (items[s][rd[s] + 1] \in Nat /\ time' = [time EXCEPT ![s] = items[s][rd[s] + 1]])
        BY <1>2, <1>9, Zenon
    <2>2. rd[s] + 1 \in Nat /\ (rd' = rd \/ rd' = [rd EXCEPT ![s] = rd[s] + 1])
        BY <1>2, <1>7
    <2>3. heap' \subseteq Sources /\ break_reason' \in BreakReasons
        BY <1>2, Zenon DEF SortTypeOK, BreakReasons
    <2>4. time' \in [Sources -> Nat] /\ rd' \in [Streams -> Nat]
        BY <2>1, <2>2, Zenon DEF SortTypeOK
    <2> QED
        BY <1>1, <1>4, <1>6, <2>3, <2>4, Zenon DEF SortTypeOK
<1>12. CallTypeOK'
    <2>1. pc' \in PCs
        BY <1>1, <1>2, Zenon DEF PCs
    <2> QED
        BY <1>1, <2>1, CallFrame, Zenon DEF CallTypeOK
<1>13. ControlInv'
    <2>1. pc' \in {"loop", "exit"} /\ \A m \in Maps : m \in heap' => m \in heap
        BY <1>1, <1>2, Zenon
    <2> QED
        BY <1>1, <2>1, Zenon DEF ControlInv, mmapVars
<1>14. ReadyInv'
    <2>1. pc' = "exit" \/ (pc' = "loop" /\ heap' = heap)
        BY <1>1, <1>2, Zenon
    <2> QED
        BY <1>3, <2>1, Zenon DEF ReadyInv
<1>15. \A m \in Maps : (m \in heap' <=> m \in heap) /\ time'[m] = time[m] /\ m \in Sources
    BY <1>2, <1>4, SourceKinds, Zenon
<1>16. RingTimeInv'
    <2>1. \A m \in Maps : event_mono_time'[m] <= heap_popped_time'
        <3> SUFFICES ASSUME NEW m \in Maps PROVE event_mono_time[m] <= time[s]
            BY <1>1, <1>6, Zenon
        <3>1. event_mono_time[m] \in Nat /\ event_mono_time[m] <= heap_popped_time
            BY Zenon DEF RingTimeInv, RingTypeOK
        <3> QED
            BY <1>4, <1>5, <3>1
    <2>2. \A m \in Maps : m \in heap' => time'[m] >= heap_popped_time'
        <3> SUFFICES ASSUME NEW m \in Maps, m \in heap PROVE time[m] >= time[s]
            BY <1>6, <1>15, Zenon
        <3> QED
            BY <1>1, <1>4, <1>15, Zenon
    <2>3. pc' \notin {"consume", "read"}
        BY <1>1, <1>2, Zenon
    <2> QED
        BY <1>1, <1>6, <2>1, <2>2, <2>3, Zenon DEF RingTimeInv
<1>17. \A g \in Streams : g # s =>
        rd'[g] = rd[g] /\ time'[g] = time[g] /\ (g \in heap' <=> g \in heap)
    BY <1>2, <1>4, SourceKinds, Zenon DEF SortTypeOK
<1>18. /\ items' = items /\ unconsumed' = unconsumed /\ batch' = batch
       /\ rd'[s] \in Nat /\ rd[s] <= rd'[s] /\ rd'[s] <= batch[s] /\ rd'[s] >= 1
    <2>1. rd'[s] = rd[s] \/ (rd[s] < batch[s] /\ rd'[s] = rd[s] + 1)
        BY <1>2, Zenon DEF SortTypeOK
    <2> QED
        BY <1>1, <1>7, <1>10, <2>1
<1>19. s \in heap' \/ unconsumed[s] = 1 => time'[s] = items[s][rd'[s]] /\ time[s] <= time'[s]
    <2>1. CASE time' = time /\ rd' = rd
        BY <1>1, <1>4, <2>1, Zenon DEF StreamInv
    <2>2. CASE /\ rd[s] < batch[s]
               /\ rd' = [rd EXCEPT ![s] = @ + 1]
               /\ time' = [time EXCEPT ![s] = items[s][rd[s] + 1]]
        <3>1. rd'[s] = rd[s] + 1 /\ time'[s] = items[s][rd[s] + 1]
            BY <1>4, <2>2, Zenon DEF SortTypeOK
        <3> QED
            BY <1>9, <2>2, <3>1, Zenon
    <2> QED
        BY <1>2, <2>1, <2>2, Zenon
<1>20. StreamInv'
    BY <1>17, <1>18, <1>19, Zenon DEF StreamInv
<1>21. StreamTimeInv'
    <2> SUFFICES ASSUME NEW g \in Streams
                 PROVE  /\ g \in heap' \/ unconsumed[g] = 1 => time[s] <= time'[g]
                        /\ \A i \in rd'[g] + 1 .. Len(items[g]) : time[s] <= items[g][i]
                        /\ items[g] # <<>> /\ time[s] <= items[g][Len(items[g])]
        BY <1>6, <1>18, Zenon DEF StreamTimeInv
    <2>1. items[g] # <<>> /\ time[s] <= items[g][Len(items[g])]
        BY <1>8, Zenon
    <2>2. rd[g] \in Nat /\ rd'[g] \in Nat /\ rd[g] <= rd'[g]
        BY <1>17, <1>18 DEF SortTypeOK
    <2>3. ASSUME NEW i \in rd'[g] + 1 .. Len(items[g]) PROVE time[s] <= items[g][i]
        <3>1. i \in rd[g] .. Len(items[g])
            BY <2>2
        <3> QED
            BY <1>8, <3>1, Zenon
    <2>4. g \in heap' \/ unconsumed[g] = 1 => time[s] <= time'[g]
        BY <1>1, <1>3, <1>17, <1>19, Zenon
    <2> QED
        BY <2>1, <2>3, <2>4, Zenon
<1> QED
    BY <1>6, <1>10, <1>11, <1>12, <1>13, <1>14, <1>16, <1>20, <1>21, Zenon

\* One pass for a ring: its event is moved up to event_mono_time when it is behind it, and
\* then it is exactly heap_popped_time; otherwise it is the earliest of the heap.
LEMMA LoopProcessInv == ASSUME NEW m \in Maps PROVE Inv /\ LoopProcess(m) => Inv' /\ out' >= out
<1> SUFFICES ASSUME Inv, LoopProcess(m) PROVE Inv' /\ out' >= out
    BY Zenon
<1> USE DEF Inv, TypeOK, OrderInv
<1> DEFINE t == IF time[m] < event_mono_time[m] THEN event_mono_time[m] ELSE time[m]
<1>1. /\ pc = "loop" /\ m \in heap /\ \A g \in heap : time[m] <= time[g]
      /\ event_mono_time' = [event_mono_time EXCEPT ![m] = t]
      /\ time' = [time EXCEPT ![m] = t]
      /\ Popped(t) /\ out' = t
      /\ Deliver(m, start[m])
      /\ cur' = m /\ pc' = "consume"
      /\ UNCHANGED kernelVars /\ UNCHANGED mmapVars /\ UNCHANGED streamVars /\ UNCHANGED callVars
      /\ heap' = heap /\ break_reason' = break_reason /\ todo' = todo
      /\ need_break' = need_break /\ lost' = lost /\ reports' = reports
    BY Zenon DEF LoopProcess, Top
<1>2. /\ time \in [Sources -> Nat] /\ time[m] \in Nat /\ event_mono_time[m] \in Nat
      /\ heap_popped_time \in Nat /\ m \in Sources /\ m \in 0 .. NrMaps
      /\ \A g \in heap : time[g] \in Nat
    BY SourceKinds, Zenon DEF SortTypeOK, RingTypeOK
<1>3. /\ event_mono_time[m] <= heap_popped_time
      /\ time[m] >= heap_popped_time \/ event_mono_time[m] = heap_popped_time
      /\ out = heap_popped_time
    BY <1>1, Zenon DEF RingTimeInv
<1>4. /\ t \in Nat /\ t >= heap_popped_time
      /\ t = heap_popped_time \/ (t = time[m] /\ \A g \in heap : t <= time[g])
    BY <1>1, <1>2, <1>3
<1> HIDE DEF t
<1>5. heap_popped_time' = t /\ out' >= out
    <2>1. Popped(t) /\ out' = t
        BY <1>1, Zenon
    <2> QED
        BY <1>2, <1>3, <1>4, <2>1 DEF Popped
<1>6. KernelTypeOK' /\ CallTypeOK' /\ items' = items
    <2>1. pc' \in PCs /\ cur' \in 0 .. NrMaps
        BY <1>1, <1>2, Zenon DEF PCs
    <2> QED
        BY <1>1, <2>1, KernelFrame, CallFrame, Zenon DEF CallTypeOK
<1>7. RingTypeOK'
    <2>1. event_mono_time' \in [Maps -> Nat] /\ {prev', start', end', tail'} \subseteq [Maps -> Nat]
        BY <1>1, <1>4, Zenon DEF RingTypeOK, mmapVars
    <2>2. \/ maybe_lost_end' = maybe_lost_end
          \/ maybe_lost_end' = [maybe_lost_end EXCEPT ![m] = end[m]]
          \/ maybe_lost_end' = [maybe_lost_end EXCEPT ![m] = end[m] - 1]
        BY Zenon DEF LoopProcess, lostVars
    <2>3. lost_pause' = lost_pause \/ lost_pause' = [lost_pause EXCEPT ![m] = 0]
        BY Zenon DEF LoopProcess, lostVars
    <2>4. end[m] \in Int /\ end[m] - 1 \in Int
        BY DEF RingTypeOK
    <2>5. maybe_lost_end' \in [Maps -> Int]
        BY <2>2, <2>4, Zenon DEF RingTypeOK
    <2>6. lost_pause' \in [Maps -> {0, 1}]
        BY <2>3, Zenon DEF RingTypeOK
    <2> QED
        BY <2>1, <2>5, <2>6, Zenon DEF RingTypeOK
<1>8. SortTypeOK'
    BY <1>1, <1>2, <1>4, <1>5, Zenon DEF SortTypeOK, streamVars
<1>9. OutTypeOK'
    <2>1. Append(got[m], start[m]) \in Seq(Nat)
        BY DEF OutTypeOK, RingTypeOK
    <2> QED
        BY <1>1, <1>4, <2>1, Zenon DEF OutTypeOK, Deliver
<1>10. ControlInv' /\ ReadyInv'
    BY <1>1, Zenon DEF ControlInv, ReadyInv, mmapVars
<1>11. event_mono_time'[m] = t /\ \A n \in Maps \ {m} : event_mono_time'[n] = event_mono_time[n]
    BY <1>1, Zenon DEF RingTypeOK
<1>12. time'[m] = t /\ \A h \in Sources \ {m} : time'[h] = time[h]
    BY <1>1, <1>2, Zenon
<1>13. RingTimeInv'
    <2>1. \A n \in Maps : event_mono_time'[n] <= heap_popped_time'
        <3> SUFFICES ASSUME NEW n \in Maps PROVE event_mono_time'[n] <= t
            BY <1>5, Zenon
        <3>1. event_mono_time[n] \in Nat /\ event_mono_time[n] <= heap_popped_time
            BY Zenon DEF RingTimeInv, RingTypeOK
        <3> QED
            BY <1>2, <1>4, <1>11, <3>1
    <2>2. ASSUME NEW n \in Maps, n \in heap, n # m
          PROVE  time'[n] >= heap_popped_time' \/ event_mono_time'[n] = heap_popped_time'
        <3>1. time'[n] = time[n] /\ event_mono_time'[n] = event_mono_time[n] /\ time[n] \in Nat
            BY <1>2, <1>11, <1>12, <2>2, SourceKinds, Zenon
        <3>2. CASE t = heap_popped_time
            BY <1>5, <2>2, <3>1, <3>2, Zenon DEF RingTimeInv
        <3>3. CASE \A g \in heap : t <= time[g]
            BY <1>4, <1>5, <2>2, <3>1, <3>3, Zenon
        <3> QED
            BY <1>4, <3>2, <3>3, Zenon
    <2> QED
        BY <1>1, <1>5, <1>11, <2>1, <2>2, Zenon DEF RingTimeInv
<1>14. \A s \in Streams : time'[s] = time[s] /\ s \in heap
    BY <1>1, <1>12, SourceKinds, Zenon DEF ReadyInv
<1>15. StreamInv'
    BY <1>1, <1>6, <1>14, Zenon DEF StreamInv, streamVars
<1>16. StreamTimeInv'
    <2> SUFFICES ASSUME NEW s \in Streams
                 PROVE  /\ t <= time[s]
                        /\ \A i \in rd[s] + 1 .. Len(items[s]) : t <= items[s][i]
                        /\ items[s] # <<>> /\ t <= items[s][Len(items[s])]
        BY <1>1, <1>5, <1>6, <1>14, Zenon DEF StreamTimeInv, streamVars
    <2>1. t <= time[s]
        BY <1>4, <1>14, Zenon DEF StreamTimeInv
    <2>2. /\ items[s] # <<>> /\ t <= items[s][Len(items[s])]
          /\ \A i \in rd[s] .. Len(items[s]) : t <= items[s][i]
        BY <1>4, <1>14, <2>1, PoppedStreams, Zenon
    <2>3. rd[s] \in Nat
        BY Zenon DEF SortTypeOK
    <2>4. items[s] \in Seq(Nat)
        BY Zenon DEF KernelTypeOK
    <2>5. \A i \in rd[s] + 1 .. Len(items[s]) : i \in rd[s] .. Len(items[s])
        <3> HIDE DEF Inv, TypeOK, OrderInv
        <3> QED
            BY <2>3, <2>4
    <2> QED
        BY <2>1, <2>2, <2>5, Zenon
<1> QED
    BY <1>5, <1>6, <1>7, <1>8, <1>9, <1>10, <1>13, <1>15, <1>16, Zenon

\* consume.
LEMMA LoopConsumeInv == Inv /\ LoopConsume => Inv'
<1> SUFFICES ASSUME Inv, LoopConsume PROVE Inv'
    BY Zenon
<1> USE DEF Inv, TypeOK, OrderInv
<1>1. /\ pc = "consume" /\ pc' = "read" /\ cur' = cur /\ todo' = todo /\ lost' = lost
      /\ UNCHANGED kernelVars /\ UNCHANGED lostVars /\ UNCHANGED streamVars
      /\ UNCHANGED callVars /\ UNCHANGED outVars
      /\ prev' = prev /\ start' = start /\ end' = end /\ event_mono_time' = event_mono_time
      /\ time' = time /\ heap' = heap /\ heap_popped_time' = heap_popped_time
    BY Zenon DEF LoopConsume
<1>2. tail' = tail \/ tail' = [tail EXCEPT ![cur] = prev[cur]]
    BY Zenon DEF LoopConsume, ConsumeTo
<1>3. break_reason' \in BreakReasons /\ need_break' \in {0, 1}
    BY Zenon DEF LoopConsume, SortTypeOK, CallTypeOK, BreakReasons
<1>4. KernelTypeOK' /\ OutTypeOK' /\ items' = items /\ out' = out
    BY <1>1, KernelFrame, OutFrame, Zenon
<1>5. RingTypeOK'
    <2>1. cur \in Maps
        BY <1>1, Zenon DEF ControlInv
    <2>2. tail' \in [Maps -> Nat]
        BY <1>2, <2>1, Zenon DEF RingTypeOK
    <2> QED
        BY <1>1, <2>2, Zenon DEF RingTypeOK, lostVars
<1>6. SortTypeOK'
    BY <1>1, <1>3, Zenon DEF SortTypeOK, streamVars
<1>7. CallTypeOK'
    BY <1>1, <1>3, CallFrame, Zenon DEF CallTypeOK, PCs
<1>8. ControlInv' /\ ReadyInv' /\ RingTimeInv'
    BY <1>1, <1>4, Zenon DEF ControlInv, ReadyInv, RingTimeInv
<1>9. StreamInv' /\ StreamTimeInv'
    BY <1>1, <1>4, StreamFrame, Zenon
<1> QED
    BY <1>4, <1>5, <1>6, <1>7, <1>8, <1>9, Zenon

\* The next record of the ring whose event was processed: whatever its time is, the ring's
\* event_mono_time is heap_popped_time.
LEMMA LoopReadInv == Inv /\ LoopRead => Inv'
<1> SUFFICES ASSUME Inv, LoopRead PROVE Inv'
    BY Zenon
<1> USE DEF Inv, TypeOK, OrderInv
<1> DEFINE m == cur
           p == start'[m]
           r == log[m][p]
<1>1. /\ pc = "read" /\ m \in Maps /\ ReadEvent(m)
      /\ UNCHANGED kernelVars /\ UNCHANGED lostVars /\ UNCHANGED streamVars /\ UNCHANGED callVars
      /\ tail' = tail /\ event_mono_time' = event_mono_time
      /\ heap_popped_time' = heap_popped_time /\ break_reason' = break_reason
      /\ todo' = todo /\ cur' = cur /\ need_break' = need_break
    BY Zenon DEF LoopRead, ControlInv
<1>2. /\ prev' = start' /\ start' \in [Maps -> Nat] /\ end' \in [Maps -> Nat]
      /\ \A n \in Maps : start'[n] >= start[n]
      /\ start[m] < DataHead(m) => p >= 1 /\ p \in Nat /\ r \in Records
    BY <1>1, ReadEventFacts, Zenon DEF ControlInv
<1>3. \/ /\ heap' = heap \ {m} /\ pc' \in {"exit", "loop"}
         /\ time' = time /\ lost' = lost /\ UNCHANGED outVars
      \/ /\ start[m] < DataHead(m) /\ lost' = LostAt(m, p) /\ pc' = "consume"
         /\ heap' = heap /\ time' = time /\ UNCHANGED outVars
      \/ /\ start[m] < DataHead(m) /\ Deliver(m, p) /\ pc' = "consume"
         /\ heap' = heap /\ time' = time /\ lost' = lost /\ out' = out /\ reports' = reports
      \/ /\ start[m] < DataHead(m) /\ time' = [time EXCEPT ![m] = r.time]
         /\ reports' = IF lost.n > 0 THEN reports \cup {Report(m, lost, r.time)} ELSE reports
         /\ lost' = NoLost /\ pc' \in {"exit", "loop"}
         /\ heap' = heap /\ got' = got /\ out' = out
    BY Zenon DEF LoopRead
<1>4. start[m] < DataHead(m) => r.time \in Nat
    BY <1>2, Zenon DEF Records
<1> HIDE DEF m, p, r
<1>5. KernelTypeOK' /\ items' = items
    BY <1>1, KernelFrame, Zenon
<1>6. RingTypeOK'
    BY <1>1, <1>2, Zenon DEF RingTypeOK, lostVars
<1>7. /\ heap' \subseteq heap
      /\ time' = time \/ (start[m] < DataHead(m) /\ time' = [time EXCEPT ![m] = r.time])
    <2>1. heap' = heap \/ heap' = heap \ {m}
        BY <1>3, Zenon
    <2>2. time' = time \/ (start[m] < DataHead(m) /\ time' = [time EXCEPT ![m] = r.time])
        BY <1>3, Zenon
    <2> QED
        BY <2>1, <2>2, Zenon
<1>8. SortTypeOK'
    <2>1. time' \in [Sources -> Nat] /\ heap' \subseteq Sources
        BY <1>4, <1>7, Zenon DEF SortTypeOK
    <2> QED
        BY <1>1, <2>1, Zenon DEF SortTypeOK, streamVars
<1>9. start[m] < DataHead(m) => LostAt(m, p) \in LostRecords /\ LostAt(m, p).map \in Maps
    BY <1>1, <1>2, LostAtType, Zenon DEF r
<1>10. pc' \in {"exit", "loop", "consume"}
    BY <1>3, Zenon
<1>11. CallTypeOK'
    <2>1. lost' \in LostRecords
        BY <1>3, <1>9, NoLostType, Zenon DEF CallTypeOK
    <2> QED
        BY <1>1, <1>10, <2>1, CallFrame, Zenon DEF CallTypeOK, PCs
<1>12. OutTypeOK' /\ out' = out
    <2>1. lost.n > 0 /\ start[m] < DataHead(m) => Report(m, lost, r.time) \in Reports
        BY <1>1, <1>4, ReportType, Zenon DEF ControlInv
    <2>2. reports' \subseteq Reports /\ out' = out
        BY <1>3, <2>1, Zenon DEF OutTypeOK, outVars
    <2>3. p \in Nat => Append(got[m], p) \in Seq(Nat)
        BY <1>1 DEF OutTypeOK
    <2>4. got' = got \/ (p \in Nat /\ got' = [got EXCEPT ![m] = Append(@, p)])
        BY <1>2, <1>3, Zenon DEF outVars, Deliver
    <2>5. got' \in [Maps -> Seq(Nat)]
        BY <2>3, <2>4, Zenon DEF OutTypeOK
    <2> QED
        BY <2>2, <2>5, Zenon DEF OutTypeOK
<1>13. ControlInv'
    <2>1. lost'.n > 0 => lost'.map \in Maps
        BY <1>3, <1>9, NoLostType, Zenon DEF ControlInv
    <2>2. ASSUME NEW n \in Maps, n \in heap' PROVE start'[n] >= 1
        <3>1. start[n] \in Nat /\ start'[n] \in Nat /\ start'[n] >= start[n]
            BY <1>2, Zenon DEF RingTypeOK
        <3>2. start[n] >= 1
            BY <1>7, <2>2, Zenon DEF ControlInv
        <3> QED
            BY <3>1, <3>2
    <2> QED
        BY <1>1, <1>2, <1>10, <2>1, <2>2, Zenon DEF ControlInv, m
<1>14. \A s \in Streams : s \in heap /\ s \in heap' /\ time'[s] = time[s]
    <2> SUFFICES ASSUME NEW s \in Streams PROVE s \in heap /\ s \in heap' /\ time'[s] = time[s]
        BY Zenon
    <2>1. s \in heap /\ s # m /\ s \in Sources
        BY <1>1, SourceKinds, Zenon DEF ReadyInv
    <2>2. s \in heap'
        BY <1>3, <2>1, Zenon
    <2> QED
        BY <1>7, <2>1, <2>2, Zenon DEF SortTypeOK
<1>15. StreamInv' /\ StreamTimeInv'
    BY <1>1, <1>5, <1>14, StreamFrame, Zenon
<1>16. ReadyInv'
    BY <1>10, <1>14, Zenon DEF ReadyInv
<1>17. RingTimeInv'
    <2>1. event_mono_time[m] = heap_popped_time
        BY <1>1, Zenon DEF RingTimeInv, m
    <2>2. ASSUME NEW n \in Maps, n \in heap'
          PROVE  time'[n] >= heap_popped_time \/ event_mono_time[n] = heap_popped_time
        <3>1. CASE n = m
            BY <2>1, <3>1, Zenon
        <3>2. CASE n # m
            <4>1. time'[n] = time[n] /\ n \in heap
                BY <1>7, <2>2, <3>2, SourceKinds, Zenon DEF SortTypeOK
            <4> QED
                BY <4>1, Zenon DEF RingTimeInv
        <3> QED
            BY <3>1, <3>2, Zenon
    <2> QED
        BY <1>1, <1>12, <2>1, <2>2, Zenon DEF RingTimeInv, m
<1> QED
    BY <1>5, <1>6, <1>8, <1>11, <1>12, <1>13, <1>15, <1>16, <1>17, Zenon

\* stream_stop: events are given back.
LEMMA ExitPutInv == ASSUME NEW h \in Sources PROVE Inv /\ ExitPut(h) => Inv'
<1> SUFFICES ASSUME Inv, ExitPut(h) PROVE Inv'
    BY Zenon
<1> USE DEF Inv, TypeOK, OrderInv
<1>1. /\ pc = "exit" /\ h \in heap /\ heap' = heap \ {h}
      /\ UNCHANGED kernelVars /\ UNCHANGED lostVars /\ UNCHANGED callVars /\ UNCHANGED outVars
      /\ end' = end /\ event_mono_time' = event_mono_time /\ rd' = rd /\ batch' = batch
      /\ time' = time /\ heap_popped_time' = heap_popped_time /\ break_reason' = break_reason
      /\ pc' = pc /\ todo' = todo /\ cur' = cur /\ need_break' = need_break /\ lost' = lost
    BY Zenon DEF ExitPut
<1>2. KernelTypeOK' /\ CallTypeOK' /\ OutTypeOK' /\ items' = items /\ out' = out
    BY <1>1, KernelFrame, CallFrame, OutFrame, Zenon DEF CallTypeOK
<1>3. ReadyInv' /\ RingTimeInv'
    BY <1>1, <1>2, Zenon DEF ReadyInv, RingTimeInv
<1>4. CASE h \in Maps
    <2>1. /\ start' = [start EXCEPT ![h] = start[h] - 1]
          /\ prev' = [prev EXCEPT ![h] = start[h] - 1]
          /\ tail' = [tail EXCEPT ![h] = start[h] - 1]
          /\ unconsumed' = unconsumed
        BY <1>4, Zenon DEF ExitPut, UnreadTo
    <2>2. start[h] - 1 \in Nat
        <3>1. start[h] \in Nat
            BY <1>4, Zenon DEF RingTypeOK
        <3>2. start[h] >= 1
            BY <1>1, <1>4, Zenon DEF ControlInv
        <3> HIDE DEF Inv, TypeOK, OrderInv
        <3> QED
            BY <3>1, <3>2
    <2>3. RingTypeOK'
        <3>1. start' \in [Maps -> Nat] /\ prev' \in [Maps -> Nat]
            BY <2>1, <2>2, Zenon DEF RingTypeOK
        <3>2. tail' \in [Maps -> Nat] /\ end' \in [Maps -> Nat]
            BY <1>1, <2>1, <2>2, Zenon DEF RingTypeOK
        <3> QED
            BY <1>1, <3>1, <3>2, Zenon DEF RingTypeOK, lostVars
    <2>4. SortTypeOK'
        BY <1>1, <2>1, Zenon DEF SortTypeOK
    <2>5. ControlInv'
        BY <1>1, <2>1, Zenon DEF ControlInv, RingTypeOK
    <2>6. StreamInv' /\ StreamTimeInv'
        BY <1>1, <1>2, <2>1, StreamFrame, Zenon DEF streamVars
    <2> QED
        BY <1>2, <1>3, <2>3, <2>4, <2>5, <2>6, Zenon
<1>5. CASE h \notin Maps
    <2>1. unconsumed' = [unconsumed EXCEPT ![h] = 1] /\ UNCHANGED <<start, prev, tail>>
        BY <1>5, Zenon DEF ExitPut
    <2>2. RingTypeOK'
        BY <1>1, <2>1, Zenon DEF RingTypeOK, lostVars
    <2>3. SortTypeOK'
        BY <1>1, <2>1, Zenon DEF SortTypeOK
    <2>4. ControlInv'
        BY <1>1, <2>1, Zenon DEF ControlInv
    <2>5. \A s \in Streams : s \in heap' \/ unconsumed'[s] = 1 => s \in heap \/ unconsumed[s] = 1
        BY <1>1, <2>1, Zenon DEF SortTypeOK
    <2>6. StreamInv' /\ StreamTimeInv'
        BY <1>1, <1>2, <2>5, Zenon DEF StreamInv, StreamTimeInv
    <2> QED
        BY <1>2, <1>3, <2>2, <2>3, <2>4, <2>6, Zenon
<1> QED
    BY <1>4, <1>5, Zenon

-----------------------------------------------------------------------------
(* Results. *)

\* One step keeps the invariant and never hands on an earlier time.
LEMMA NextInv == Inv /\ [Next]_vars => Inv' /\ out' >= out
<1> SUFFICES ASSUME Inv, [Next]_vars PROVE Inv' /\ out' >= out
    BY Zenon
<1>1. out \in Nat
    BY Zenon DEF Inv, TypeOK, OutTypeOK
<1>2. ASSUME UNCHANGED out PROVE out' >= out
    BY <1>1, <1>2
<1>3. CASE Kernel
    <2>1. UNCHANGED out
        BY <1>3, Zenon DEF Kernel, outVars
    <2> QED
        BY <1>2, <1>3, <2>1, KernelInv, Zenon
<1>4. ASSUME NEW m \in Maps, OrderMmap(m) PROVE Inv' /\ out' >= out
    <2>1. UNCHANGED out
        BY <1>4, Zenon DEF OrderMmap, outVars
    <2> QED
        BY <1>2, <1>4, <2>1, OrderMmapInv, Zenon
<1>5. ASSUME NEW t \in Nat, OrderTo(t) PROVE Inv' /\ out' >= out
    <2>1. UNCHANGED out
        BY <1>5, Zenon DEF OrderTo, Begin, outVars
    <2> QED
        BY <1>2, <1>5, <2>1, OrderToInv, Zenon
<1>6. CASE TargetCheck \/ Exit
    <2>1. UNCHANGED out
        BY <1>6, Zenon DEF TargetCheck, Exit, Begin, outVars
    <2> QED
        BY <1>2, <1>6, <2>1, TargetCheckInv, ExitInv, Zenon
<1>7. CASE InitMmap \/ InitDone
    <2>1. UNCHANGED out
        BY <1>7, Zenon DEF InitMmap, InitDone, outVars
    <2> QED
        BY <1>2, <1>7, <2>1, InitMmapInv, InitDoneInv, Zenon
<1>16. ASSUME NEW s \in Streams, InitStream(s) PROVE Inv' /\ out' >= out
    <2>1. UNCHANGED out
        BY <1>16, Zenon DEF InitStream, outVars
    <2> QED
        BY <1>2, <1>16, <2>1, InitStreamInv, Zenon
<1>8. CASE InitRead
    <2>1. UNCHANGED out
        BY <1>8, Zenon DEF InitRead, outVars
    <2> QED
        BY <1>2, <1>8, <2>1, InitReadInv, Zenon
<1>9. CASE LoopEmpty \/ \E m \in Maps : LoopTargetTime(m) \/ LoopLostWait(m)
    <2>1. UNCHANGED out
        BY <1>9, Zenon DEF LoopEmpty, LoopTargetTime, LoopLostWait, LoopBreak, outVars
    <2> QED
        BY <1>2, <1>9, <2>1, LoopBreaksInv, Zenon
<1>10. CASE LoopConsume
    <2>1. UNCHANGED out
        BY <1>10, Zenon DEF LoopConsume, outVars
    <2> QED
        BY <1>2, <1>10, <2>1, LoopConsumeInv, Zenon
<1>11. CASE LoopRead
    <2>1. UNCHANGED out
        BY <1>11, Zenon DEF LoopRead, outVars
    <2> QED
        BY <1>2, <1>11, <2>1, LoopReadInv, Zenon
<1>12. ASSUME NEW h \in Sources, ExitPut(h) PROVE Inv' /\ out' >= out
    <2>1. UNCHANGED out
        BY <1>12, Zenon DEF ExitPut, outVars
    <2> QED
        BY <1>2, <1>12, <2>1, ExitPutInv, Zenon
<1>13. CASE UNCHANGED vars
    <2> USE <1>13 DEF vars, kernelVars, mmapVars, lostVars, streamVars, callVars, outVars
    <2>1. TypeOK'
        BY Zenon DEF Inv, TypeOK, KernelTypeOK, RingTypeOK, SortTypeOK, CallTypeOK, OutTypeOK
    <2>2. ControlInv' /\ StreamInv' /\ ReadyInv' /\ RingTimeInv' /\ StreamTimeInv'
        BY Zenon DEF Inv, OrderInv, ControlInv, StreamInv, ReadyInv, RingTimeInv, StreamTimeInv
    <2> QED
        BY <1>2, <2>1, <2>2, Zenon DEF Inv, OrderInv
<1>14. CASE Call
    <2>1. \A t \in 1 .. clock : t \in Nat
        BY DEF Inv, TypeOK, KernelTypeOK
    <2> QED
        BY <1>4, <1>5, <1>14, <2>1, Zenon DEF Call, OrderStream
<1>15. CASE Step
    BY <1>6, <1>7, <1>8, <1>9, <1>10, <1>11, <1>12, <1>15, <1>16, LoopStreamInv,
       LoopProcessInv, Zenon DEF Step
<1> QED
    BY <1>3, <1>13, <1>14, <1>15, Zenon DEF Next

\* The inductive invariant holds in every reachable state of the sort.
THEOREM InvHolds == Spec => []Inv
<1>1. Init => Inv
    BY InitInv, Zenon
<1>2. Inv /\ [Next]_vars => Inv'
    BY NextInv, Zenon
<1> QED
    BY <1>1, <1>2, PTL DEF Spec

\* Every variable of order_process() keeps its type; in particular perf_mmap__unread_event()
\* never moves a ring in front of its first record.
THEOREM TypeCorrect == Spec => []TypeOK
<1>1. Inv => TypeOK
    BY Zenon DEF Inv
<1> QED
    BY <1>1, InvHolds, PTL

\* The profiler sees events in time order: for any number of rings and streams, any delay
\* of the kernel's output, any order of calls, the "out-of-order" branches of
\* order_process() and stream_event_process() are dead code.
THEOREM OrderedOutput == Spec => DeliveredInOrder
<1>1. Inv /\ [Next]_vars => [out' >= out]_vars
    BY NextInv, Zenon
<1> QED
    BY <1>1, InvHolds, PTL DEF Spec, DeliveredInOrder

-----------------------------------------------------------------------------
(* The invariant behind NotOverwritten and ImplementsDelivery, what a step *)
(* of order_process() may do to a ring, and the steps of the kernel, the   *)
(* calls and the returns.                                                  *)

\* A ring in the heap holds an event that was read and is not handed on yet; in the middle
\* of a pass of the loop the event of its ring is handed on already.
Pending(m) == m \in heap /\ ~(pc \in {"consume", "read"} /\ m = cur)

\* The last record of the ring that was dealt with.
Handled(m) == IF Pending(m) THEN start[m] - 1 ELSE start[m]

Skip(m, p) == Promise!Skipped(log[m][p])

LastGot(m) == IF got[m] = <<>> THEN 0 ELSE got[m][Len(got[m])]

-----------------------------------------------------------------------------
(* The invariant. *)

\* Where the sort is: between calls nothing is held, a source enters the heap once per call,
\* and the ring of the pass in progress is in the heap and has not been given back too far.
PlaceInv ==
    /\ pc \in {"idle", "target"} => heap = {}
    /\ pc \in {"init", "initread"} =>
        /\ \A i \in 1 .. Len(todo) : todo[i] \notin heap
        /\ \A i, j \in 1 .. Len(todo) : todo[i] = todo[j] => i = j
    /\ pc \in {"consume", "read"} => cur \in heap
    /\ pc = "consume" => tail[cur] < start[cur]

\* A ring is read up to its head at most, and given back up to what was dealt with.
Bounds(m) == start[m] <= Len(log[m]) /\ tail[m] <= Handled(m)

\* The event held is a sample, with its own time or, when it came too late, a time that was
\* handed on already.
Held(m) ==
    Pending(m) =>
        /\ log[m][start[m]].type = "SAMPLE"
        /\ \/ time[m] = log[m][start[m]].time
           \/ log[m][start[m]].time < time[m] /\ time[m] <= heap_popped_time

\* What was dealt with was handed on, or is a loss that lost() reports; nothing else was
\* handed on.
Accounted(m) ==
    /\ LastGot(m) \in 0 .. Handled(m)
    /\ \A p \in LastGot(m) + 1 .. Handled(m) : Skip(m, p)
    /\ \A p \in 1 .. Handled(m) : Skip(m, p) \/ \E i \in 1 .. Len(got[m]) : got[m][i] = p

DeliveryInv == Inv /\ PlaceInv /\ \A m \in Maps : Bounds(m) /\ Held(m) /\ Accounted(m)

-----------------------------------------------------------------------------
(* What a step does to a ring. *)

Keeps(m) == log'[m] = log[m] /\ got'[m] = got[m] /\ Handled(m)' = Handled(m)

\* A loss is remembered.
Skips(m) ==
    /\ log'[m] = log[m] /\ got'[m] = got[m]
    /\ Handled(m)' = Handled(m) + 1
    /\ Skip(m, Handled(m) + 1)

\* A record is handed on, at the time it should be.
Hands(m) ==
    /\ log'[m] = log[m] /\ got'[m] = Append(got[m], Handled(m) + 1)
    /\ Handled(m)' = Handled(m) + 1
    /\ Handled(m) + 1 <= Len(log[m])
    /\ ~Skip(m, Handled(m) + 1)
    /\ out' = IF log[m][Handled(m) + 1].type = "SAMPLE"
              THEN Promise!Later(out, log[m][Handled(m) + 1].time) ELSE out

\* The kernel appends.
Writes(m) ==
    /\ got'[m] = got[m] /\ Handled(m)' = Handled(m)
    /\ log'[m] \in Seq(Records) /\ Len(log'[m]) > Len(log[m])
    /\ \A p \in 1 .. Len(log[m]) : log'[m][p] = log[m][p]
    /\ out' = out

\* At most one ring changes in a way the profiler or the kernel sees.
StepEffect ==
    \/ \A m \in Maps : Keeps(m) \/ Skips(m)
    \/ \E m \in Maps : (Hands(m) \/ Writes(m)) /\ \A n \in Maps \ {m} : Keeps(n)

\* What is shown of every action: its effect, and that the invariant of the places survives it.
StepOK == StepEffect /\ PlaceInv' /\ \A m \in Maps : Bounds(m)' /\ Held(m)'

-----------------------------------------------------------------------------
(* Facts used for every action. *)

\* The positions up to the next one.
LEMMA UpToNext ==
    ASSUME NEW h \in Nat
    PROVE  /\ h + 1 \in Nat /\ h + 1 \in 1 .. h + 1 /\ h + 1 \in 0 .. h + 1 /\ (h + 1) + 1 = h + 2
           /\ \A p \in 1 .. h + 1 : p = h + 1 \/ p \in 1 .. h
           /\ \A p \in 1 .. h : p \in 1 .. h + 1
           /\ \A p : p \notin h + 2 .. h + 1
           /\ \A g \in Nat : g <= h =>
                /\ g \in 0 .. h + 1
                /\ \A p \in g + 1 .. h + 1 : p = h + 1 \/ p \in g + 1 .. h
OBVIOUS

\* The position behind the last one read.
LEMMA NextPos ==
    ASSUME NEW s \in Nat, NEW n \in Nat, s < n, NEW p, p = s + 1
    PROVE  p <= n /\ p - 1 = s /\ p \in 1 .. n
OBVIOUS

\* A position that stays, or becomes another.
LEMMA StaysOrNext ==
    ASSUME NEW a \in Nat, NEW s \in Nat, a <= s, NEW p, p \in {s, s + 1}, NEW b \in {a, p} PROVE b <= p
OBVIOUS

\* The position in front of another.
LEMMA PrevPos ==
    ASSUME NEW a \in Nat, NEW b \in Nat
    PROVE  (b - 1) + 1 = b /\ (a <= b - 1 => a <= b /\ a < b) /\ (a <= b => a - 1 <= b) /\ a - 1 <= a - 1
OBVIOUS

\* What Inv says of the cursors of the rings, their contents and the times kept of them.
LEMMA RingFacts ==
    ASSUME Inv
    PROVE  /\ prev = start /\ start \in [Maps -> Nat] /\ tail \in [Maps -> Nat]
           /\ log \in [Maps -> Seq(Records)] /\ got \in [Maps -> Seq(Nat)]
           /\ time \in [Sources -> Nat] /\ event_mono_time \in [Maps -> Nat]
           /\ heap_popped_time \in Nat /\ out = heap_popped_time /\ heap \subseteq Sources
           /\ todo \in Seq(Sources)
           /\ \A m \in Maps : /\ m \in heap => start[m] >= 1
                              /\ Len(log[m]) \in Nat
                              /\ \A p \in 1 .. Len(log[m]) : log[m][p] \in Records
<1>1. /\ start \in [Maps -> Nat] /\ tail \in [Maps -> Nat] /\ event_mono_time \in [Maps -> Nat]
      /\ log \in [Maps -> Seq(Records)] /\ got \in [Maps -> Seq(Nat)] /\ todo \in Seq(Sources)
    BY Zenon DEF Inv, TypeOK, RingTypeOK, KernelTypeOK, OutTypeOK, CallTypeOK
<1>2. time \in [Sources -> Nat] /\ heap_popped_time \in Nat /\ heap \subseteq Sources
    BY Zenon DEF Inv, TypeOK, SortTypeOK
<1>3. prev = start /\ out = heap_popped_time /\ \A m \in Maps : m \in heap => start[m] >= 1
    BY Zenon DEF Inv, OrderInv, ControlInv, RingTimeInv
<1>4. \A m \in Maps : Len(log[m]) \in Nat /\ \A p \in 1 .. Len(log[m]) : log[m][p] \in Records
    BY <1>1
<1> QED
    BY <1>1, <1>2, <1>3, <1>4, Zenon

\* What was dealt with is a position of the ring.
LEMMA HandledType ==
    ASSUME Inv, NEW m \in Maps
    PROVE  Handled(m) \in Nat /\ (Pending(m) => start[m] >= 1)
BY RingFacts DEF Handled, Pending

\* A ring that a step does not touch.
LEMMA RingSame ==
    ASSUME Inv, Inv', NEW m \in Maps, Bounds(m), Held(m),
           log'[m] = log[m], got'[m] = got[m], start'[m] = start[m], tail'[m] = tail[m],
           time'[m] = time[m], Pending(m)' <=> Pending(m), out' >= out
    PROVE  Keeps(m) /\ Bounds(m)' /\ Held(m)'
<1>1. Handled(m)' = Handled(m)
    BY Zenon DEF Handled
<1>2. Keeps(m) /\ Bounds(m)'
    BY <1>1, Zenon DEF Keeps, Bounds
<1>3. /\ heap_popped_time \in Nat /\ heap_popped_time' \in Nat
      /\ heap_popped_time' >= heap_popped_time
    BY Zenon DEF Inv, TypeOK, SortTypeOK, OrderInv, RingTimeInv
<1>4. time[m] \in Nat
    BY RingFacts, SourceKinds, Zenon
<1>5. Held(m)'
    BY <1>3, <1>4 DEF Held
<1> QED
    BY <1>2, <1>5, Zenon

\* A step that touches no ring.
LEMMA QuietStep ==
    ASSUME DeliveryInv, Inv', PlaceInv', out' >= out,
           \A m \in Maps : /\ log'[m] = log[m] /\ got'[m] = got[m]
                           /\ start'[m] = start[m] /\ tail'[m] = tail[m]
                           /\ time'[m] = time[m] /\ (Pending(m)' <=> Pending(m))
    PROVE  StepOK
<1>1. ASSUME NEW m \in Maps PROVE Keeps(m) /\ Bounds(m)' /\ Held(m)'
    BY <1>1, RingSame, Zenon DEF DeliveryInv
<1> QED
    BY <1>1, Zenon DEF StepOK, StepEffect

\* What is left of a list without repetitions, none of it in the heap.
LEMMA TailDistinct ==
    ASSUME NEW S, NEW q \in Seq(S), q # <<>>, NEW H,
           \A i \in 1 .. Len(q) : q[i] \notin H,
           \A i, j \in 1 .. Len(q) : q[i] = q[j] => i = j
    PROVE  /\ \A i \in 1 .. Len(Tail(q)) : Tail(q)[i] \notin H /\ Tail(q)[i] # Head(q)
           /\ \A i, j \in 1 .. Len(Tail(q)) : Tail(q)[i] = Tail(q)[j] => i = j
           /\ Head(q) \notin H
<1>1. Len(q) \in Nat /\ Len(q) >= 1 /\ Len(Tail(q)) = Len(q) - 1
    OBVIOUS
<1>2. \A i \in 1 .. Len(Tail(q)) : i + 1 \in 1 .. Len(q) /\ Tail(q)[i] = q[i + 1]
    BY <1>1
<1>3. 1 \in 1 .. Len(q) /\ Head(q) = q[1]
    BY <1>1
<1>4. ASSUME NEW i \in 1 .. Len(Tail(q)) PROVE Tail(q)[i] \notin H /\ Tail(q)[i] # Head(q)
    <2>1. q[i + 1] \notin H
        BY <1>2, Zenon
    <2>2. q[i + 1] # q[1]
        BY <1>1, <1>2, <1>3
    <2> QED
        BY <1>2, <1>3, <2>1, <2>2, Zenon
<1>5. ASSUME NEW i \in 1 .. Len(Tail(q)), NEW j \in 1 .. Len(Tail(q)), Tail(q)[i] = Tail(q)[j]
      PROVE  i = j
    <2>1. i + 1 = j + 1
        BY <1>2, <1>5, Zenon
    <2> QED
        BY <1>1, <2>1
<1> QED
    BY <1>3, <1>4, <1>5, Zenon

-----------------------------------------------------------------------------
(* What was dealt with stays accounted for. *)

\* One more element.
LEMMA AppendFacts ==
    ASSUME NEW S, NEW s \in Seq(S), NEW x \in S
    PROVE  /\ Len(Append(s, x)) = Len(s) + 1 /\ Append(s, x)[Len(s) + 1] = x
           /\ \A i \in 1 .. Len(s) : Append(s, x)[i] = s[i]
           /\ Append(s, x) # <<>>
OBVIOUS

\* Every record up to the one dealt with is accounted for after each of the four effects.
LEMMA AccountedStep ==
    ASSUME DeliveryInv, Inv', NEW m \in Maps, Keeps(m) \/ Skips(m) \/ Hands(m) \/ Writes(m)
    PROVE  Accounted(m)'
<1>1. /\ got[m] \in Seq(Nat) /\ Len(got[m]) \in Nat /\ Handled(m) \in Nat
      /\ start[m] \in Nat /\ Len(log[m]) \in Nat /\ Handled(m) <= Len(log[m])
    <2>1. got[m] \in Seq(Nat) /\ start[m] \in Nat /\ Len(log[m]) \in Nat
        BY RingFacts, Zenon DEF DeliveryInv
    <2>2. Handled(m) \in Nat /\ start[m] <= Len(log[m])
        BY HandledType, Zenon DEF DeliveryInv, Bounds
    <2> QED
        BY <2>1, <2>2 DEF Handled
<1>2. /\ LastGot(m) \in Nat /\ LastGot(m) <= Handled(m)
      /\ \A p \in LastGot(m) + 1 .. Handled(m) : Skip(m, p)
      /\ \A p \in 1 .. Handled(m) : Skip(m, p) \/ \E i \in 1 .. Len(got[m]) : got[m][i] = p
    BY <1>1 DEF DeliveryInv, Accounted
<1>3. CASE Keeps(m)
    <2>1. LastGot(m)' = LastGot(m) /\ Handled(m)' = Handled(m) /\ got'[m] = got[m]
        BY <1>3, Zenon DEF Keeps, LastGot
    <2>2. \A p : Skip(m, p)' <=> Skip(m, p)
        BY <1>3, Zenon DEF Keeps, Skip, Promise!Skipped
    <2> QED
        BY <2>1, <2>2, Zenon DEF DeliveryInv, Accounted
<1>4. CASE Skips(m)
    <2>1. LastGot(m)' = LastGot(m) /\ Handled(m)' = Handled(m) + 1 /\ got'[m] = got[m]
        BY <1>4, Zenon DEF Skips, LastGot
    <2>2. \A p : Skip(m, p)' <=> Skip(m, p)
        BY <1>4, Zenon DEF Skips, Skip, Promise!Skipped
    <2>3. Skip(m, Handled(m) + 1)
        BY <1>4, Zenon DEF Skips
    <2>4. /\ LastGot(m) \in 0 .. Handled(m) + 1
          /\ \A p \in LastGot(m) + 1 .. Handled(m) + 1 :
                p = Handled(m) + 1 \/ p \in LastGot(m) + 1 .. Handled(m)
          /\ \A p \in 1 .. Handled(m) + 1 : p = Handled(m) + 1 \/ p \in 1 .. Handled(m)
        BY <1>1, <1>2, UpToNext, Zenon
    <2> QED
        BY <1>2, <2>1, <2>2, <2>3, <2>4, Zenon DEF Accounted
<1>5. CASE Hands(m)
    <2>1. /\ Len(got'[m]) = Len(got[m]) + 1 /\ got'[m][Len(got[m]) + 1] = Handled(m) + 1
          /\ \A i \in 1 .. Len(got[m]) : got'[m][i] = got[m][i]
          /\ got'[m] # <<>>
        <3>1. got'[m] = Append(got[m], Handled(m) + 1) /\ Handled(m) + 1 \in Nat
            BY <1>1, <1>5, UpToNext, Zenon DEF Hands
        <3>2. got[m] \in Seq(Nat)
            BY <1>1, Zenon
        <3> DEFINE a == Append(got[m], Handled(m) + 1)
        <3>3. /\ Len(a) = Len(got[m]) + 1 /\ a[Len(got[m]) + 1] = Handled(m) + 1
              /\ \A i \in 1 .. Len(got[m]) : a[i] = got[m][i]
              /\ a # <<>>
            BY <3>1, <3>2, AppendFacts, Zenon
        <3>4. got'[m] = a
            BY <3>1, Zenon
        <3> HIDE DEF a
        <3> QED
            BY <3>3, <3>4, Zenon
    <2>2. LastGot(m)' = Handled(m) + 1 /\ Handled(m)' = Handled(m) + 1
        BY <1>5, <2>1, Zenon DEF Hands, LastGot
    <2>3. \A p : Skip(m, p)' <=> Skip(m, p)
        BY <1>5, Zenon DEF Hands, Skip, Promise!Skipped
    <2>4. ASSUME NEW p \in 1 .. Handled(m) + 1
          PROVE  Skip(m, p) \/ \E i \in 1 .. Len(got[m]) + 1 : got'[m][i] = p
        <3>1. CASE p = Handled(m) + 1
            <4>1. Len(got[m]) + 1 \in 1 .. Len(got[m]) + 1
                BY <1>1, UpToNext, Zenon
            <4> QED
                BY <2>1, <3>1, <4>1, Zenon
        <3>2. CASE p \in 1 .. Handled(m)
            <4>1. \A i \in 1 .. Len(got[m]) : i \in 1 .. Len(got[m]) + 1
                BY <1>1, UpToNext, Zenon
            <4> QED
                BY <1>2, <2>1, <3>2, <4>1, Zenon
        <3> QED
            BY <1>1, <3>1, <3>2, UpToNext, Zenon
    <2>5. /\ Handled(m) + 1 \in 0 .. Handled(m) + 1
          /\ \A p : p \notin Handled(m) + 2 .. Handled(m) + 1
          /\ (Handled(m) + 1) + 1 = Handled(m) + 2
        BY <1>1, UpToNext, Zenon
    <2> QED
        BY <2>1, <2>2, <2>3, <2>4, <2>5, Zenon DEF Accounted
<1>6. CASE Writes(m)
    <2>1. LastGot(m)' = LastGot(m) /\ Handled(m)' = Handled(m) /\ got'[m] = got[m]
        BY <1>6, Zenon DEF Writes, LastGot
    <2>2. \A p \in 1 .. Handled(m) : Skip(m, p)' <=> Skip(m, p)
        BY <1>1, <1>6 DEF Writes, Skip, Promise!Skipped
    <2> QED
        BY <1>1, <1>2, <2>1, <2>2 DEF Accounted
<1> QED
    BY <1>3, <1>4, <1>5, <1>6, Zenon

-----------------------------------------------------------------------------
(* Calls and returns. *)

\* heap_event_list has each source once.
LEMMA ListDistinct ==
    \A i, j \in 1 .. Len(HeapEventList) : HeapEventList[i] = HeapEventList[j] => i = j
<1>1. NrMaps \in Nat /\ NrStreams \in Nat
    BY OrderAssumption, Zenon DEF OrderAssumption
<1>2. HeapEventList \in [1 .. NrMaps + NrStreams -> Sources]
    BY <1>1 DEF HeapEventList, Sources
<1>3. Len(HeapEventList) = NrMaps + NrStreams
    BY <1>1, <1>2
<1> QED
    BY <1>1, <1>3 DEF HeapEventList, Sources

\* order_mmap().
LEMMA OrderMmapOK ==
    ASSUME DeliveryInv, Inv', NEW m \in Maps, OrderMmap(m), out' >= out
    PROVE  StepOK
<1>1. start' = start
    BY ReadInitFacts, Zenon DEF DeliveryInv, Inv, TypeOK, OrderInv, ControlInv, OrderMmap
<1>2. /\ pc = "idle" /\ pc' = "target" /\ heap' = heap /\ log' = log /\ got' = got /\ tail' = tail
      /\ time' = time
    BY Zenon DEF OrderMmap, kernelVars, outVars
<1>3. heap = {}
    BY <1>2, Zenon DEF DeliveryInv, PlaceInv
<1>4. PlaceInv'
    BY <1>2, <1>3, Zenon DEF PlaceInv
<1>5. \A n \in Maps : Pending(n)' <=> Pending(n)
    BY <1>2, <1>3, Zenon DEF Pending
<1> QED
    BY <1>1, <1>2, <1>4, <1>5, QuietStep, Zenon

\* The start of the sort.
LEMMA BeginOK ==
    ASSUME DeliveryInv, Inv', pc \in {"idle", "target"}, Begin, UNCHANGED <<start, end>>, out' >= out
    PROVE  StepOK
<1>1. /\ pc' = "init" /\ heap' = {} /\ todo' = HeapEventList /\ log' = log /\ got' = got
      /\ tail' = tail /\ time' = time /\ start' = start
    BY Zenon DEF Begin, kernelVars, outVars
<1>2. heap = {}
    BY Zenon DEF DeliveryInv, PlaceInv
<1>3. PlaceInv'
    BY <1>1, ListDistinct, Zenon DEF PlaceInv
<1>4. \A n \in Maps : Pending(n)' <=> Pending(n)
    BY <1>1, <1>2, Zenon DEF Pending
<1> QED
    BY <1>1, <1>3, <1>4, QuietStep, Zenon

\* A return of order_process().
LEMMA ReturnOK ==
    ASSUME DeliveryInv, Inv', heap = {}, Return, out' >= out,
           UNCHANGED <<kernelVars, mmapVars, time, heap, outVars>>
    PROVE  StepOK
<1>1. /\ pc' = "idle" /\ heap' = {} /\ log' = log /\ got' = got
      /\ tail' = tail /\ time' = time /\ start' = start
    BY Zenon DEF Return, kernelVars, mmapVars, outVars
<1>2. PlaceInv'
    BY <1>1, Zenon DEF PlaceInv
<1>3. \A n \in Maps : Pending(n)' <=> Pending(n)
    BY <1>1, Zenon DEF Pending
<1> QED
    BY <1>1, <1>2, <1>3, QuietStep, Zenon

\* perf_mmap__empty(): return, or start.
LEMMA TargetCheckOK == ASSUME DeliveryInv, Inv', TargetCheck, out' >= out PROVE StepOK
<1>1. pc = "target" /\ UNCHANGED <<start, end>> /\ heap = {}
    BY Zenon DEF TargetCheck, DeliveryInv, PlaceInv
<1>2. CASE Begin
    BY <1>1, <1>2, BeginOK, Zenon
<1>3. CASE Return
    <2>1. UNCHANGED <<kernelVars, mmapVars, time, heap, outVars>>
        BY <1>3, Zenon DEF TargetCheck, Return, Begin, mmapVars
    <2> QED
        BY <1>1, <1>3, <2>1, ReturnOK, Zenon
<1> QED
    BY <1>2, <1>3, Zenon DEF TargetCheck

\* The end of order_process().
LEMMA ExitOK == ASSUME DeliveryInv, Inv', Exit, out' >= out PROVE StepOK
<1>1. heap = {} /\ Return /\ UNCHANGED <<kernelVars, mmapVars, time, heap, outVars>>
    BY Zenon DEF Exit
<1> QED
    BY <1>1, ReturnOK, Zenon

-----------------------------------------------------------------------------
(* The kernel. *)

\* The kernel appends to one ring, or to none when the record is dropped.
LEMMA OutputWrites ==
    ASSUME KernelTypeOK, NEW m \in Maps, NEW type \in {"SAMPLE", "OTHER"}, NEW t \in Nat,
           Output(m, type, t)
    PROVE  \/ log' = log
           \/ /\ \A n \in Maps \ {m} : log'[n] = log[n]
              /\ log'[m] \in Seq(Records) /\ Len(log'[m]) > Len(log[m])
              /\ \A p \in 1 .. Len(log[m]) : log'[m][p] = log[m][p]
<1>1. log \in [Maps -> Seq(Records)] /\ log' \in [Maps -> Seq(Records)]
    BY OutputType, Zenon DEF KernelTypeOK
<1>2. log[m] \in Seq(Records) /\ log'[m] \in Seq(Records)
    BY <1>1, Zenon
<1>3. CASE log' = log
    BY <1>3, Zenon
<1>4. ASSUME NEW r, log' = [log EXCEPT ![m] = Append(@, r)]
      PROVE  /\ \A n \in Maps \ {m} : log'[n] = log[n]
             /\ log'[m] \in Seq(Records) /\ Len(log'[m]) > Len(log[m])
             /\ \A p \in 1 .. Len(log[m]) : log'[m][p] = log[m][p]
    <2>1. log'[m] = Append(log[m], r)
        BY <1>1, <1>4, Zenon
    <2> QED
        BY <1>1, <1>2, <1>4, <2>1
<1>5. ASSUME NEW r, NEW q, log' = [log EXCEPT ![m] = @ \o <<r, q>>]
      PROVE  /\ \A n \in Maps \ {m} : log'[n] = log[n]
             /\ log'[m] \in Seq(Records) /\ Len(log'[m]) > Len(log[m])
             /\ \A p \in 1 .. Len(log[m]) : log'[m][p] = log[m][p]
    <2>1. log'[m] = log[m] \o <<r, q>>
        BY <1>1, <1>5, Zenon
    <2> QED
        BY <1>1, <1>2, <1>5, <2>1
<1> QED
    BY <1>3, <1>4, <1>5, Zenon DEF Output

\* Records that are appended to a ring.
LEMMA AppendOK ==
    ASSUME DeliveryInv, Inv', PlaceInv', NEW m \in Maps,
           UNCHANGED <<start, tail, got, out, time, heap_popped_time>>,
           \A n \in Maps : Pending(n)' <=> Pending(n),
           \A n \in Maps \ {m} : log'[n] = log[n],
           log'[m] \in Seq(Records), Len(log'[m]) > Len(log[m]),
           \A p \in 1 .. Len(log[m]) : log'[m][p] = log[m][p]
    PROVE  StepOK
<1>1. ASSUME NEW n \in Maps \ {m} PROVE Keeps(n) /\ Bounds(n)' /\ Held(n)'
    <2>1. out' >= out
        BY RingFacts DEF DeliveryInv
    <2> QED
        BY <1>1, <2>1, RingSame, Zenon DEF DeliveryInv
<1>2. Handled(m)' = Handled(m)
    BY Zenon DEF Handled
<1>3. Writes(m)
    BY <1>2, Zenon DEF Writes
<1>4. /\ start[m] \in Nat /\ Len(log[m]) \in Nat /\ start[m] <= Len(log[m])
      /\ (Pending(m) => start[m] >= 1) /\ tail[m] <= Handled(m)
    BY RingFacts, HandledType, Zenon DEF DeliveryInv, Bounds
<1>5. Len(log'[m]) \in Nat
    OBVIOUS
<1>6. Bounds(m)'
    BY <1>2, <1>4, <1>5 DEF Bounds
<1>7. Pending(m) => log'[m][start[m]] = log[m][start[m]]
    BY <1>4
<1>8. Held(m)'
    BY <1>7, Zenon DEF DeliveryInv, Held
<1> QED
    BY <1>1, <1>3, <1>6, <1>8, Zenon DEF StepOK, StepEffect

\* The kernel and the senders of streams.
LEMMA KernelOK == ASSUME DeliveryInv, Inv', Kernel, out' >= out PROVE StepOK
<1>1. /\ start' = start /\ tail' = tail /\ got' = got /\ out' = out /\ time' = time /\ heap' = heap
      /\ pc' = pc /\ cur' = cur /\ todo' = todo /\ heap_popped_time' = heap_popped_time
    BY Zenon DEF Kernel, mmapVars, outVars
<1>2. PlaceInv'
    BY <1>1, Zenon DEF DeliveryInv, PlaceInv
<1>3. \A n \in Maps : Pending(n)' <=> Pending(n)
    BY <1>1, Zenon DEF Pending
<1>4. ASSUME log' = log PROVE StepOK
    BY <1>1, <1>2, <1>3, <1>4, QuietStep, Zenon
<1>5. ASSUME NEW m \in Maps, NEW type \in {"SAMPLE", "OTHER"}, NEW t \in Nat, Output(m, type, t)
      PROVE  StepOK
    <2>1. KernelTypeOK
        BY Zenon DEF DeliveryInv, Inv, TypeOK
    <2>2. \/ log' = log
          \/ /\ \A n \in Maps \ {m} : log'[n] = log[n]
             /\ log'[m] \in Seq(Records) /\ Len(log'[m]) > Len(log[m])
             /\ \A p \in 1 .. Len(log[m]) : log'[m][p] = log[m][p]
        BY <1>5, <2>1, OutputWrites, Zenon
    <2> QED
        BY <1>1, <1>2, <1>3, <1>4, <2>2, AppendOK, Zenon
<1>6. ASSUME NEW m \in Maps, OutputEnd(m) PROVE StepOK
    <2>1. inflight[m] \in Seq(Nat) /\ inflight[m] # <<>>
        BY <1>6, Zenon DEF OutputEnd, DeliveryInv, Inv, TypeOK, KernelTypeOK
    <2>2. inflight[m][Len(inflight[m])] \in Nat
        BY <2>1
    <2> QED
        BY <1>5, <1>6, <2>2, Zenon DEF OutputEnd
<1>7. ASSUME NEW m \in Maps, OutputAtOnce(m) PROVE StepOK
    <2>1. clock + 1 \in Nat
        BY DEF DeliveryInv, Inv, TypeOK, KernelTypeOK
    <2> QED
        BY <1>5, <1>7, <2>1, Zenon DEF OutputAtOnce
<1>8. ASSUME NEW m \in Maps, OutputOther(m) PROVE StepOK
    <2>1. 0 \in Nat
        BY Zenon
    <2> QED
        BY <1>5, <1>8, <2>1, Zenon DEF OutputOther
<1>9. ASSUME NEW m \in Maps, OutputStart(m) PROVE StepOK
    BY <1>4, <1>9, Zenon DEF OutputStart
<1>10. ASSUME NEW s \in Streams, StreamArrive(s) PROVE StepOK
    BY <1>4, <1>10, Zenon DEF StreamArrive
<1> QED
    BY <1>6, <1>7, <1>8, <1>9, <1>10, Zenon DEF Kernel

-----------------------------------------------------------------------------
(* The effect on the rings of filling the heap, of the loop of             *)
(* order_process() and of giving the events back at its end.               *)

(* Filling the heap. *)

\* perf_mmap__read_event() moves one ring, by at most one record.
LEMMA ReadMoves ==
    ASSUME Inv, NEW m \in Maps, ReadEvent(m), Bounds(m)
    PROVE  /\ \A n \in Maps \ {m} : start'[n] = start[n]
           /\ prev'[m] = start'[m] /\ start[m] \in Nat /\ Len(log[m]) \in Nat
           /\ start[m] = DataHead(m) => start'[m] = start[m]
           /\ start[m] < DataHead(m) => start'[m] = start[m] + 1
           /\ start[m] = DataHead(m) \/ start[m] < DataHead(m)
           /\ start[m] <= Len(log[m]) /\ DataHead(m) = Len(log[m])
BY RingFacts DEF ReadEvent, DataHead, Bounds

\* perf_mmap_event_init(), up to perf_mmap__read_init().
LEMMA InitMmapOK == ASSUME DeliveryInv, Inv', InitMmap, out' >= out PROVE StepOK
<1>1. /\ pc = "init" /\ todo # <<>> /\ Head(todo) \in Maps /\ heap' = heap /\ log' = log
      /\ got' = got /\ tail' = tail /\ time' = time
    BY Zenon DEF InitMmap, kernelVars, outVars
<1>2. start' = start
    <2>1. CASE ReadInit(Head(todo))
        BY <1>1, <2>1, ReadInitFacts, Zenon DEF DeliveryInv, Inv, TypeOK, OrderInv, ControlInv
    <2>2. CASE UNCHANGED start
        BY <2>2, Zenon
    <2> QED
        BY <2>1, <2>2, Zenon DEF InitMmap
<1>3. (pc' = "init" /\ todo' = Tail(todo)) \/ (pc' = "initread" /\ todo' = todo)
    BY <1>1, Zenon DEF InitMmap
<1>4. PlaceInv'
    <2>1. /\ \A i \in 1 .. Len(todo) : todo[i] \notin heap
          /\ \A i, j \in 1 .. Len(todo) : todo[i] = todo[j] => i = j
        BY <1>1, Zenon DEF DeliveryInv, PlaceInv
    <2>2. todo \in Seq(Sources)
        BY RingFacts, Zenon DEF DeliveryInv
    <2>3. /\ \A i \in 1 .. Len(Tail(todo)) : Tail(todo)[i] \notin heap
          /\ \A i, j \in 1 .. Len(Tail(todo)) : Tail(todo)[i] = Tail(todo)[j] => i = j
        BY <1>1, <2>1, <2>2, TailDistinct, Zenon
    <2> QED
        BY <1>1, <1>3, <2>1, <2>3, Zenon DEF PlaceInv
<1>5. \A n \in Maps : Pending(n)' <=> Pending(n)
    BY <1>1, <1>3, Zenon DEF Pending
<1> QED
    BY <1>1, <1>2, <1>4, <1>5, QuietStep, Zenon

\* stream_event_init().
LEMMA InitStreamOK ==
    ASSUME DeliveryInv, Inv', NEW s \in Streams, InitStream(s), out' >= out
    PROVE  StepOK
<1>1. /\ pc = "init" /\ todo # <<>> /\ Head(todo) = s /\ log' = log
      /\ got' = got /\ tail' = tail /\ start' = start /\ cur' = cur
    BY Zenon DEF InitStream, kernelVars, mmapVars, outVars
<1>2. /\ \/ heap' = heap \cup {s} /\ todo' = Tail(todo) /\ pc' = pc
         \/ heap' = heap /\ todo' = todo /\ pc' = "exit"
      /\ time' = time \/ time' = [time EXCEPT ![s] = items[s][rd[s] + 1]]
    BY Zenon DEF InitStream, StreamStop
<1>3. ASSUME NEW n \in Maps PROVE (n \in heap' <=> n \in heap) /\ time'[n] = time[n]
    <2>1. n # s /\ n \in Sources
        BY <1>1, SourceKinds, Zenon
    <2>2. time \in [Sources -> Nat]
        BY RingFacts, Zenon DEF DeliveryInv
    <2> QED
        BY <1>2, <2>1, <2>2, Zenon
<1>4. PlaceInv'
    <2>1. /\ \A i \in 1 .. Len(todo) : todo[i] \notin heap
          /\ \A i, j \in 1 .. Len(todo) : todo[i] = todo[j] => i = j
        BY <1>1, Zenon DEF DeliveryInv, PlaceInv
    <2>2. todo \in Seq(Sources)
        BY RingFacts, Zenon DEF DeliveryInv
    <2>3. /\ \A i \in 1 .. Len(Tail(todo)) : Tail(todo)[i] \notin heap /\ Tail(todo)[i] # s
          /\ \A i, j \in 1 .. Len(Tail(todo)) : Tail(todo)[i] = Tail(todo)[j] => i = j
        BY <1>1, <2>1, <2>2, TailDistinct, Zenon
    <2> QED
        BY <1>1, <1>2, <2>3, Zenon DEF PlaceInv
<1>5. \A n \in Maps : Pending(n)' <=> Pending(n)
    BY <1>1, <1>2, <1>3, Zenon DEF Pending
<1> QED
    BY <1>1, <1>3, <1>4, <1>5, QuietStep, Zenon

\* The heap is filled.
LEMMA InitDoneOK == ASSUME DeliveryInv, Inv', InitDone, out' >= out PROVE StepOK
<1>1. /\ pc = "init" /\ pc' = "loop" /\ heap' = heap /\ log' = log /\ got' = got
      /\ tail' = tail /\ time' = time /\ start' = start
    BY Zenon DEF InitDone, kernelVars, mmapVars, outVars
<1>2. PlaceInv' /\ \A n \in Maps : Pending(n)' <=> Pending(n)
    BY <1>1, Zenon DEF PlaceInv, Pending
<1> QED
    BY <1>1, <1>2, QuietStep, Zenon

\* A step that touches one ring.
LEMMA OneRing ==
    ASSUME DeliveryInv, Inv', PlaceInv', out' >= out, NEW m \in Maps,
           Keeps(m) \/ Skips(m) \/ Hands(m), Bounds(m)', Held(m)',
           \A n \in Maps \ {m} : /\ log'[n] = log[n] /\ got'[n] = got[n]
                                 /\ start'[n] = start[n] /\ tail'[n] = tail[n]
                                 /\ time'[n] = time[n] /\ (Pending(n)' <=> Pending(n))
    PROVE  StepOK
<1>1. ASSUME NEW n \in Maps \ {m} PROVE Keeps(n) /\ Bounds(n)' /\ Held(n)'
    BY <1>1, RingSame, Zenon DEF DeliveryInv
<1> QED
    BY <1>1, Zenon DEF StepOK, StepEffect

\* A record that is not kept in the heap: remembered as a loss, or handed on at once.
LEMMA PassOn ==
    ASSUME DeliveryInv, NEW m \in Maps, Handled(m) = start[m], start[m] + 1 <= Len(log[m]),
           log' = log, Handled(m)' = start[m] + 1,
           LET r == log[m][start[m] + 1]
           IN  \/ r.type = "LOST" /\ HasLost /\ got' = got
               \/ /\ r.type # "SAMPLE" /\ ~(r.type = "LOST" /\ HasLost)
                  /\ Deliver(m, start[m] + 1) /\ out' = out
    PROVE  Skips(m) \/ Hands(m)
<1>1. CASE /\ log[m][start[m] + 1].type = "LOST" /\ HasLost /\ got' = got
    BY <1>1, Zenon DEF Skips, Skip, Promise!Skipped
<1>2. CASE /\ log[m][start[m] + 1].type # "SAMPLE"
           /\ ~(log[m][start[m] + 1].type = "LOST" /\ HasLost)
           /\ Deliver(m, start[m] + 1) /\ out' = out
    <2>1. got \in [Maps -> Seq(Nat)]
        BY RingFacts, Zenon DEF DeliveryInv
    <2>2. got'[m] = Append(got[m], start[m] + 1)
        BY <1>2, <2>1, Zenon DEF Deliver
    <2>3. ~Skip(m, start[m] + 1)
        BY <1>2, Zenon DEF Skip, Promise!Skipped
    <2> QED
        BY <1>2, <2>2, <2>3, Zenon DEF Hands
<1> QED
    BY <1>1, <1>2, Zenon

\* The time at which perf_mmap_event_init() keeps a sample.
LEMMA TimeKept ==
    ASSUME NEW r \in Nat, heap_popped_time \in Nat, NEW t \in {r, FixAtInit(r)}
    PROVE  t = r \/ (r < t /\ t <= heap_popped_time)
BY DEF FixAtInit

\* perf_mmap__read_event() finds a record that is not kept in the heap.
LEMMA ReadPassesOn ==
    ASSUME DeliveryInv, Inv', PlaceInv', out' >= out, NEW m \in Maps, NEW p, p = start[m] + 1,
           ReadEvent(m), start[m] < DataHead(m), ~Pending(m),
           \A n \in Maps : Pending(n)' <=> Pending(n),
           log' = log, time' = time, out' = out,
           tail'[m] \in {tail[m], p}, \A n \in Maps \ {m} : tail'[n] = tail[n],
           \/ log[m][p].type = "LOST" /\ HasLost /\ got' = got
           \/ log[m][p].type # "SAMPLE" /\ ~(log[m][p].type = "LOST" /\ HasLost) /\ Deliver(m, p)
    PROVE  StepOK
<1>1. /\ \A n \in Maps \ {m} : start'[n] = start[n]
      /\ start'[m] = p /\ start[m] \in Nat /\ Len(log[m]) \in Nat /\ p <= Len(log[m])
    BY ReadMoves, NextPos, Zenon DEF DeliveryInv
<1>2. Handled(m) = start[m] /\ Handled(m)' = p
    BY <1>1, Zenon DEF Handled
<1>3. Skips(m) \/ Hands(m)
    BY <1>1, <1>2, PassOn, Zenon
<1>4. tail[m] \in Nat /\ tail[m] <= start[m]
    BY <1>2, RingFacts, Zenon DEF DeliveryInv, Bounds
<1>5. tail'[m] <= p
    BY <1>1, <1>4, StaysOrNext, Zenon
<1>6. Bounds(m)' /\ Held(m)'
    BY <1>1, <1>2, <1>5, Zenon DEF Bounds, Held
<1>7. \A n \in Maps \ {m} : got'[n] = got[n]
    BY RingFacts, Zenon DEF DeliveryInv, Deliver
<1> QED
    BY <1>1, <1>3, <1>6, <1>7, OneRing, Zenon

\* perf_mmap__read_event() finds a sample: it waits in the heap, at its own time or, when
\* that has passed, at heap_popped_time.
LEMMA ReadKeeps ==
    ASSUME DeliveryInv, Inv', PlaceInv', out' >= out, NEW m \in Maps, NEW p, p = start[m] + 1,
           ReadEvent(m), start[m] < DataHead(m), ~Pending(m), Pending(m)',
           \A n \in Maps \ {m} : Pending(n)' <=> Pending(n),
           log' = log, tail' = tail, got' = got, heap_popped_time' = heap_popped_time,
           log[m][p].type = "SAMPLE",
           NEW t, time' = [time EXCEPT ![m] = t], t \in {log[m][p].time, FixAtInit(log[m][p].time)}
    PROVE  StepOK
<1>1. /\ \A n \in Maps \ {m} : start'[n] = start[n]
      /\ start'[m] = p /\ start[m] \in Nat /\ Len(log[m]) \in Nat /\ p <= Len(log[m])
    BY ReadMoves, NextPos, Zenon DEF DeliveryInv
<1>2. p - 1 = start[m] /\ p \in 1 .. Len(log[m])
    BY ReadMoves, NextPos, Zenon DEF DeliveryInv
<1>3. Handled(m) = start[m] /\ Handled(m)' = start[m]
    BY <1>1, <1>2, Zenon DEF Handled
<1>4. tail[m] <= start[m]
    BY <1>3, Zenon DEF DeliveryInv, Bounds
<1>5. Keeps(m) /\ Bounds(m)'
    BY <1>1, <1>3, <1>4, Zenon DEF Keeps, Bounds
<1>6. time'[m] = t /\ \A n \in Maps \ {m} : time'[n] = time[n]
    BY RingFacts, SourceKinds, Zenon DEF DeliveryInv
<1>7. log[m][p].time \in Nat /\ heap_popped_time \in Nat
    <2>1. log[m][p] \in Records /\ heap_popped_time \in Nat
        BY <1>2, RingFacts, Zenon DEF DeliveryInv
    <2> QED
        BY <2>1, Zenon DEF Records
<1>8. t = log[m][p].time \/ (log[m][p].time < t /\ t <= heap_popped_time)
    BY <1>7, TimeKept, Zenon
<1>9. Held(m)'
    BY <1>1, <1>6, <1>8, Zenon DEF Held
<1> QED
    BY <1>1, <1>5, <1>6, <1>9, OneRing, Zenon

\* perf_mmap__read_event() finds nothing.
LEMMA ReadNothing ==
    ASSUME DeliveryInv, Inv', PlaceInv', out' >= out, NEW m \in Maps,
           ReadEvent(m), start[m] = DataHead(m), \A n \in Maps : Pending(n)' <=> Pending(n),
           log' = log, tail' = tail, got' = got, time' = time
    PROVE  StepOK
<1>1. \A n \in Maps : start'[n] = start[n]
    BY ReadMoves, Zenon DEF DeliveryInv
<1> QED
    BY <1>1, QuietStep, Zenon

\* The list without the ring that is read: none of its members is in the heap, nor again in
\* the list.
LEMMA TodoFacts ==
    ASSUME DeliveryInv, pc = "initread"
    PROVE  /\ cur \in Maps /\ cur \notin heap
           /\ \A i \in 1 .. Len(todo) : todo[i] \notin heap
           /\ \A i, j \in 1 .. Len(todo) : todo[i] = todo[j] => i = j
           /\ \A i \in 1 .. Len(Tail(todo)) : Tail(todo)[i] \notin heap /\ Tail(todo)[i] # cur
           /\ \A i, j \in 1 .. Len(Tail(todo)) : Tail(todo)[i] = Tail(todo)[j] => i = j
<1>1. cur \in Maps /\ todo # <<>> /\ Head(todo) = cur
    BY Zenon DEF DeliveryInv, Inv, OrderInv, ControlInv
<1>2. /\ \A i \in 1 .. Len(todo) : todo[i] \notin heap
      /\ \A i, j \in 1 .. Len(todo) : todo[i] = todo[j] => i = j
      /\ todo \in Seq(Sources)
    BY RingFacts, Zenon DEF DeliveryInv, PlaceInv
<1> QED
    BY <1>1, <1>2, TailDistinct, Zenon

\* perf_mmap_event_init(), one record.
LEMMA InitReadOK ==
    ASSUME DeliveryInv, Inv', InitRead, out' >= out, NEW m, m = cur, NEW p, p = start[m] + 1
    PROVE  StepOK
<1>1. pc = "initread" /\ ReadEvent(m) /\ log' = log /\ heap_popped_time' = heap_popped_time
    BY Zenon DEF InitRead, kernelVars
<1>2. /\ m \in Maps /\ m \notin heap
      /\ \A i \in 1 .. Len(todo) : todo[i] \notin heap
      /\ \A i, j \in 1 .. Len(todo) : todo[i] = todo[j] => i = j
      /\ \A i \in 1 .. Len(Tail(todo)) : Tail(todo)[i] \notin heap /\ Tail(todo)[i] # m
      /\ \A i, j \in 1 .. Len(Tail(todo)) : Tail(todo)[i] = Tail(todo)[j] => i = j
    BY <1>1, TodoFacts, Zenon
<1>3. start[m] < DataHead(m) => start'[m] = p /\ prev'[m] = p
    BY <1>1, <1>2, ReadMoves, Zenon DEF DeliveryInv
<1>4. \A n \in Maps : Pending(n) <=> n \in heap
    BY <1>1, Zenon DEF Pending
<1>5. CASE /\ start[m] = DataHead(m) /\ pc' = "init" /\ todo' = Tail(todo)
           /\ UNCHANGED <<tail, time, heap, outVars>>
    <2>1. PlaceInv' /\ \A n \in Maps : Pending(n)' <=> Pending(n)
        BY <1>2, <1>4, <1>5, Zenon DEF PlaceInv, Pending
    <2> QED
        BY <1>1, <1>2, <1>5, <2>1, ReadNothing, Zenon DEF outVars
<1>6. CASE /\ start[m] < DataHead(m) /\ UNCHANGED <<pc, todo, time, heap, out>>
           /\ tail' = [tail EXCEPT ![m] = p]
           /\ \/ log[m][p].type = "LOST" /\ HasLost /\ got' = got
              \/ log[m][p].type # "SAMPLE" /\ ~(log[m][p].type = "LOST" /\ HasLost) /\ Deliver(m, p)
    <2>1. PlaceInv' /\ \A n \in Maps : Pending(n)' <=> Pending(n)
        BY <1>1, <1>2, <1>4, <1>6, Zenon DEF PlaceInv, Pending
    <2>2. tail'[m] \in {tail[m], p} /\ \A n \in Maps \ {m} : tail'[n] = tail[n]
        BY <1>2, <1>6, RingFacts, Zenon DEF DeliveryInv
    <2>3. ~Pending(m)
        BY <1>2, <1>4, Zenon
    <2> QED
        BY <1>1, <1>2, <1>6, <2>1, <2>2, <2>3, ReadPassesOn, Zenon
<1>7. CASE /\ start[m] < DataHead(m) /\ log[m][p].type = "SAMPLE"
           /\ time' = [time EXCEPT ![m] = FixAtInit(log[m][p].time)]
           /\ heap' = heap \cup {m} /\ pc' = "init" /\ todo' = Tail(todo)
           /\ UNCHANGED <<tail, got, out>>
    <2>1. PlaceInv'
        BY <1>2, <1>7, Zenon DEF PlaceInv
    <2>2. \A n \in Maps : Pending(n)' <=> n \in heap \cup {m}
        BY <1>7, Zenon DEF Pending
    <2> QED
        BY <1>1, <1>2, <1>4, <1>7, <2>1, <2>2, ReadKeeps, Zenon
<1> QED
    BY <1>3, <1>5, <1>6, <1>7, Zenon DEF InitRead, outVars

-----------------------------------------------------------------------------
(* The loop. *)

\* The breaks of the loop.
LEMMA LoopBreakOK ==
    ASSUME DeliveryInv, Inv', pc = "loop", NEW reason, LoopBreak(reason), out' >= out
    PROVE  StepOK
<1>1. /\ pc' = "exit" /\ heap' = heap /\ log' = log /\ got' = got
      /\ tail' = tail /\ time' = time /\ start' = start
    BY Zenon DEF LoopBreak, kernelVars, mmapVars, outVars
<1>2. PlaceInv' /\ \A n \in Maps : Pending(n)' <=> Pending(n)
    BY <1>1, Zenon DEF PlaceInv, Pending
<1> QED
    BY <1>1, <1>2, QuietStep, Zenon

\* stream_event_process().
LEMMA LoopStreamOK ==
    ASSUME DeliveryInv, Inv', NEW s \in Streams, LoopStream(s), out' >= out
    PROVE  StepOK
<1>1. /\ pc = "loop" /\ log' = log /\ got' = got /\ tail' = tail /\ start' = start
    BY Zenon DEF LoopStream, kernelVars, mmapVars
<1>2. /\ (heap' = heap /\ pc' = pc) \/ (heap' = heap \ {s} /\ pc' = "exit")
      /\ time' = time \/ time' = [time EXCEPT ![s] = items[s][rd[s] + 1]]
    BY Zenon DEF LoopStream, StreamStop
<1>3. ASSUME NEW n \in Maps PROVE (n \in heap' <=> n \in heap) /\ time'[n] = time[n]
    <2>1. n # s /\ n \in Sources
        BY SourceKinds, Zenon
    <2>2. time \in [Sources -> Nat]
        BY RingFacts, Zenon DEF DeliveryInv
    <2> QED
        BY <1>2, <2>1, <2>2, Zenon
<1>4. PlaceInv' /\ \A n \in Maps : Pending(n)' <=> Pending(n)
    BY <1>1, <1>2, <1>3, Zenon DEF PlaceInv, Pending
<1> QED
    BY <1>1, <1>3, <1>4, QuietStep, Zenon

\* The time an event gets, from its own time r, heap_event.time x, event_mono_time e and the
\* time o handed on last.
LEMMA LateTime ==
    ASSUME NEW r \in Nat, NEW x \in Nat, NEW e \in Nat, NEW o \in Nat,
           x = r \/ (r < x /\ x <= o), e <= o, x >= o \/ e = o
    PROVE  (IF x < e THEN e ELSE x) = (IF o < r THEN r ELSE o)
OBVIOUS

\* The event at the top of the heap is handed on: late, at the time handed on last; else at
\* its own time.
LEMMA LoopProcessOK ==
    ASSUME DeliveryInv, Inv', NEW m \in Maps, LoopProcess(m), out' >= out
    PROVE  StepOK
<1> DEFINE t == IF time[m] < event_mono_time[m] THEN event_mono_time[m] ELSE time[m]
<1>1. /\ pc = "loop" /\ pc' = "consume" /\ m \in heap /\ cur' = m /\ heap' = heap /\ log' = log
      /\ tail' = tail /\ start' = start /\ Deliver(m, start[m]) /\ out' = t
      /\ time' = [time EXCEPT ![m] = t]
    BY Zenon DEF LoopProcess, Top, kernelVars, mmapVars
<1>2. /\ start[m] \in Nat /\ start[m] >= 1 /\ tail[m] \in Nat /\ Len(log[m]) \in Nat
      /\ time \in [Sources -> Nat] /\ got \in [Maps -> Seq(Nat)]
      /\ time[m] \in Nat /\ event_mono_time[m] \in Nat /\ out \in Nat
    BY <1>1, RingFacts, SourceKinds, Zenon DEF DeliveryInv
<1>3. Pending(m) /\ ~Pending(m)' /\ \A n \in Maps \ {m} : Pending(n)' <=> Pending(n)
    BY <1>1, Zenon DEF Pending
<1>4. Handled(m) = start[m] - 1 /\ Handled(m)' = start[m] /\ Handled(m) + 1 = start[m]
    BY <1>1, <1>2, <1>3, PrevPos, Zenon DEF Handled
<1>5. start[m] <= Len(log[m]) /\ tail[m] <= start[m] - 1
    BY <1>4, Zenon DEF DeliveryInv, Bounds
<1>6. PlaceInv'
    <2>1. tail[m] < start[m]
        BY <1>2, <1>5, PrevPos, Zenon
    <2> QED
        BY <1>1, <2>1, Zenon DEF PlaceInv
<1>7. Bounds(m)' /\ Held(m)'
    <2>1. tail[m] <= start[m]
        BY <1>2, <1>5, PrevPos, Zenon
    <2> QED
        BY <1>1, <1>3, <1>4, <1>5, <2>1, Zenon DEF Bounds, Held
<1>8. Hands(m)
    <2>1. got'[m] = Append(got[m], start[m])
        BY <1>1, <1>2, Zenon DEF Deliver
    <2>2. /\ log[m][start[m]].type = "SAMPLE"
          /\ \/ time[m] = log[m][start[m]].time
             \/ log[m][start[m]].time < time[m] /\ time[m] <= out
        BY <1>3, RingFacts, Zenon DEF DeliveryInv, Held
    <2>3. /\ event_mono_time[m] <= out
          /\ time[m] >= out \/ event_mono_time[m] = out
        BY <1>1, Zenon DEF DeliveryInv, Inv, OrderInv, RingTimeInv
    <2>4. log[m][start[m]].time \in Nat
        <3>1. log[m][start[m]] \in Records
            BY <1>2, <1>5, RingFacts DEF DeliveryInv
        <3> QED
            BY <3>1, Zenon DEF Records
    <2>5. t = Promise!Later(out, log[m][start[m]].time)
        <3> DEFINE r == log[m][start[m]].time
                   x == time[m]
                   e == event_mono_time[m]
        <3>1. /\ r \in Nat /\ x \in Nat /\ e \in Nat /\ out \in Nat
              /\ x = r \/ (r < x /\ x <= out)
            BY <1>2, <2>2, <2>4, Zenon
        <3>2. e <= out /\ (x >= out \/ e = out)
            BY <2>3, Zenon
        <3> HIDE DEF r, x, e
        <3>3. (IF x < e THEN e ELSE x) = (IF out < r THEN r ELSE out)
            BY <3>1, <3>2, LateTime
        <3> QED
            BY <3>3, Zenon DEF Promise!Later, r, x, e
    <2>6. ~Skip(m, start[m])
        BY <2>2, Zenon DEF Skip, Promise!Skipped
    <2> QED
        BY <1>1, <1>4, <1>5, <2>1, <2>2, <2>5, <2>6, Zenon DEF Hands
<1>9. \A n \in Maps \ {m} : got'[n] = got[n] /\ time'[n] = time[n]
    BY <1>1, <1>2, SourceKinds, Zenon DEF Deliver
<1> QED
    BY <1>1, <1>3, <1>6, <1>7, <1>8, <1>9, OneRing, Zenon

\* perf_mmap__consume() of an event that was handed on.
LEMMA LoopConsumeOK == ASSUME DeliveryInv, Inv', LoopConsume, out' >= out PROVE StepOK
<1>1. /\ pc = "consume" /\ pc' = "read" /\ cur \in Maps /\ cur \in heap /\ cur' = cur
      /\ heap' = heap /\ log' = log /\ got' = got /\ start' = start /\ time' = time
    BY Zenon DEF LoopConsume, DeliveryInv, PlaceInv, Inv, OrderInv, ControlInv, kernelVars, outVars
<1>2. tail \in [Maps -> Nat] /\ prev[cur] = start[cur] /\ start[cur] \in Nat
    BY <1>1, RingFacts, Zenon DEF DeliveryInv
<1>3. /\ tail'[cur] \in {tail[cur], start[cur]}
      /\ \A n \in Maps \ {cur} : tail'[n] = tail[n]
    BY <1>1, <1>2, Zenon DEF LoopConsume, ConsumeTo
<1>4. \A n \in Maps : Pending(n)' <=> Pending(n)
    BY <1>1, Zenon DEF Pending
<1>5. ~Pending(cur) /\ Handled(cur) = start[cur] /\ Handled(cur)' = start[cur]
    BY <1>1, <1>4, Zenon DEF Pending, Handled
<1>6. PlaceInv'
    BY <1>1, Zenon DEF PlaceInv
<1>7. start[cur] <= Len(log[cur]) /\ tail[cur] <= start[cur]
    BY <1>1, <1>5, Zenon DEF DeliveryInv, Bounds
<1>8. Keeps(cur) /\ Bounds(cur)' /\ Held(cur)'
    <2>1. tail'[cur] <= start[cur]
        BY <1>1, <1>2, <1>3, <1>7, StaysOrNext, Zenon
    <2> QED
        BY <1>1, <1>4, <1>5, <1>7, <2>1, Zenon DEF Keeps, Bounds, Held
<1> QED
    BY <1>1, <1>3, <1>4, <1>6, <1>8, OneRing, Zenon

\* perf_mmap__read_event() after the consume.
LEMMA LoopReadOK ==
    ASSUME DeliveryInv, Inv', LoopRead, out' >= out, NEW m, m = cur, NEW p, p = start[m] + 1
    PROVE  StepOK
<1>1. /\ pc = "read" /\ ReadEvent(m) /\ log' = log /\ cur' = cur /\ tail' = tail
      /\ heap_popped_time' = heap_popped_time
    BY Zenon DEF LoopRead, kernelVars
<1>2. m \in Maps /\ m \in heap
    BY <1>1, Zenon DEF DeliveryInv, PlaceInv, Inv, OrderInv, ControlInv
<1>3. start[m] < DataHead(m) => start'[m] = p
    BY <1>1, <1>2, ReadMoves, Zenon DEF DeliveryInv
<1>4. \A n \in Maps : Pending(n) <=> n \in heap /\ n # m
    BY <1>1, Zenon DEF Pending
<1>5. CASE /\ start[m] = DataHead(m) /\ heap' = heap \ {m} /\ pc' \in {"exit", "loop"}
           /\ UNCHANGED <<time, outVars>>
    <2>1. PlaceInv' /\ \A n \in Maps : Pending(n)' <=> Pending(n)
        BY <1>4, <1>5, Zenon DEF PlaceInv, Pending
    <2> QED
        BY <1>1, <1>2, <1>5, <2>1, ReadNothing, Zenon DEF outVars
<1>6. CASE /\ start[m] < DataHead(m) /\ UNCHANGED <<heap, time, out>> /\ pc' = "consume"
           /\ \/ log[m][p].type = "LOST" /\ HasLost /\ got' = got
              \/ log[m][p].type # "SAMPLE" /\ ~(log[m][p].type = "LOST" /\ HasLost) /\ Deliver(m, p)
    <2>1. ~Pending(m) /\ \A n \in Maps : Pending(n)' <=> Pending(n)
        BY <1>1, <1>2, <1>4, <1>6, Zenon DEF Pending
    <2>2. tail[m] < p
        <3>1. tail[m] \in Nat /\ start[m] \in Nat
            BY <1>2, RingFacts, Zenon DEF DeliveryInv
        <3>2. tail[m] <= start[m]
            BY <1>2, <2>1, Zenon DEF DeliveryInv, Bounds, Handled
        <3> QED
            BY <3>1, <3>2
    <2>3. PlaceInv'
        BY <1>1, <1>2, <1>3, <1>6, <2>2, Zenon DEF PlaceInv
    <2> QED
        BY <1>1, <1>2, <1>6, <2>1, <2>3, ReadPassesOn, Zenon
<1>7. CASE /\ start[m] < DataHead(m) /\ log[m][p].type = "SAMPLE"
           /\ time' = [time EXCEPT ![m] = log[m][p].time]
           /\ pc' \in {"exit", "loop"} /\ UNCHANGED <<heap, got, out>>
    <2>1. PlaceInv'
        BY <1>7, Zenon DEF PlaceInv
    <2>2. \A n \in Maps : Pending(n)' <=> n \in heap
        BY <1>7, Zenon DEF Pending
    <2> QED
        BY <1>1, <1>2, <1>4, <1>7, <2>1, <2>2, ReadKeeps, Zenon
<1>8. PICK q : q = start'[m]
    BY Zenon
<1>9. \/ /\ start[m] = DataHead(m) /\ heap' = heap \ {m} /\ pc' \in {"exit", "loop"}
         /\ time' = time /\ outVars' = outVars
      \/ /\ start[m] < DataHead(m) /\ heap' = heap /\ time' = time /\ out' = out /\ pc' = "consume"
         /\ \/ log[m][q].type = "LOST" /\ HasLost /\ got' = got
            \/ log[m][q].type # "SAMPLE" /\ ~(log[m][q].type = "LOST" /\ HasLost) /\ Deliver(m, q)
      \/ /\ start[m] < DataHead(m) /\ log[m][q].type = "SAMPLE"
         /\ time' = [time EXCEPT ![m] = log[m][q].time]
         /\ pc' \in {"exit", "loop"} /\ heap' = heap /\ got' = got /\ out' = out
    BY <1>8, Zenon DEF LoopRead, outVars
<1> QED
    BY <1>3, <1>5, <1>6, <1>7, <1>8, <1>9, Zenon

\* perf_mmap__unread_event() of an event that was not handed on.
LEMMA ExitPutOK ==
    ASSUME DeliveryInv, Inv', NEW h \in Sources, ExitPut(h), out' >= out
    PROVE  StepOK
<1>1. /\ pc = "exit" /\ pc' = "exit" /\ h \in heap /\ heap' = heap \ {h} /\ log' = log
      /\ got' = got /\ time' = time
    BY Zenon DEF ExitPut, kernelVars, outVars
<1>2. PlaceInv' /\ \A n \in Maps : (Pending(n) <=> n \in heap) /\ (Pending(n)' <=> n \in heap')
    BY <1>1, Zenon DEF PlaceInv, Pending
<1>3. start \in [Maps -> Nat] /\ tail \in [Maps -> Nat]
    BY RingFacts, Zenon DEF DeliveryInv
<1>4. CASE h \in Maps
    <2>1. /\ start'[h] = start[h] - 1 /\ tail'[h] = start[h] - 1
          /\ \A n \in Maps \ {h} : start'[n] = start[n] /\ tail'[n] = tail[n]
        BY <1>3, <1>4, Zenon DEF ExitPut, UnreadTo
    <2>2. Pending(h) /\ ~Pending(h)'
        BY <1>1, <1>2, <1>4, Zenon
    <2>3. Handled(h) = start[h] - 1 /\ Handled(h)' = start[h] - 1
        BY <2>1, <2>2, Zenon DEF Handled
    <2>4. start[h] \in Nat /\ Len(log[h]) \in Nat /\ start[h] <= Len(log[h])
        BY <1>4, RingFacts, Zenon DEF DeliveryInv, Bounds
    <2>5. start[h] - 1 <= Len(log[h]) /\ start[h] - 1 <= start[h] - 1
        BY <2>4, PrevPos, Zenon
    <2>6. Keeps(h) /\ Bounds(h)' /\ Held(h)'
        BY <1>1, <2>1, <2>2, <2>3, <2>5, Zenon DEF Keeps, Bounds, Held
    <2> QED
        BY <1>1, <1>2, <1>4, <2>1, <2>6, OneRing, Zenon
<1>5. CASE h \notin Maps
    <2>1. start' = start /\ tail' = tail
        BY <1>5, Zenon DEF ExitPut
    <2>2. \A n \in Maps : Pending(n)' <=> Pending(n)
        BY <1>1, <1>2, <1>5, Zenon
    <2> QED
        BY <1>1, <1>2, <2>1, <2>2, QuietStep, Zenon
<1> QED
    BY <1>4, <1>5, Zenon

-----------------------------------------------------------------------------
(* The theorems.                                                           *)

(* Every step. *)

\* The program starts with nothing written and nothing handed on.
LEMMA InitOK == Init => DeliveryInv
<1> SUFFICES ASSUME Init PROVE DeliveryInv
    BY Zenon
<1>1. Inv
    BY InitInv, Zenon
<1>2. PlaceInv /\ heap = {}
    BY Zenon DEF Init, PlaceInv
<1>3. ASSUME NEW m \in Maps PROVE Bounds(m) /\ Held(m) /\ Accounted(m)
    <2>1. ~Pending(m) /\ start[m] = 0 /\ tail[m] = 0 /\ log[m] = <<>> /\ got[m] = <<>>
        BY <1>2, Zenon DEF Pending, Init
    <2>2. Handled(m) = 0 /\ LastGot(m) = 0 /\ Len(log[m]) = 0
        BY <2>1, Zenon DEF Handled, LastGot
    <2>3. 0 \in 0 .. 0 /\ \A p : p \notin 0 + 1 .. 0 /\ p \notin 1 .. 0
        OBVIOUS
    <2>4. Accounted(m)
        BY <2>2, <2>3, Zenon DEF Accounted
    <2>5. 0 <= 0
        OBVIOUS
    <2> QED
        BY <2>1, <2>2, <2>4, <2>5, Zenon DEF Bounds, Held
<1> QED
    BY <1>1, <1>2, <1>3, Zenon DEF DeliveryInv

\* Every step of the program is one of the above.
LEMMA StepIsOK == ASSUME DeliveryInv, [Next]_vars, Inv', out' >= out PROVE StepOK
<1>1. CASE UNCHANGED vars
    <2>1. /\ log' = log /\ got' = got /\ start' = start /\ tail' = tail /\ time' = time
          /\ heap' = heap /\ pc' = pc /\ cur' = cur /\ todo' = todo
        BY <1>1, Zenon DEF vars, kernelVars, mmapVars, outVars
    <2>2. PlaceInv' /\ \A n \in Maps : Pending(n)' <=> Pending(n)
        BY <2>1, Zenon DEF DeliveryInv, PlaceInv, Pending
    <2> QED
        BY <2>1, <2>2, QuietStep, Zenon
<1>2. CASE Call
    <2>1. ASSUME NEW t, OrderTo(t) PROVE StepOK
        BY <2>1, BeginOK, Zenon DEF OrderTo
    <2> QED
        BY <1>2, <2>1, OrderMmapOK, Zenon DEF Call, OrderStream
<1>3. CASE Step
    <2>1. CASE TargetCheck \/ Exit
        BY <2>1, TargetCheckOK, ExitOK, Zenon
    <2>2. CASE InitMmap \/ InitRead \/ InitDone
        BY <2>2, InitMmapOK, InitReadOK, InitDoneOK, Zenon
    <2>3. CASE LoopEmpty \/ \E m \in Maps : LoopTargetTime(m) \/ LoopLostWait(m)
        BY <2>3, LoopBreakOK, Zenon DEF LoopEmpty, LoopTargetTime, LoopLostWait
    <2>4. CASE LoopConsume \/ LoopRead
        BY <2>4, LoopConsumeOK, LoopReadOK, Zenon
    <2>5. CASE \E s \in Streams : InitStream(s) \/ LoopStream(s)
        BY <2>5, InitStreamOK, LoopStreamOK, Zenon
    <2>6. CASE \E h \in Sources : ExitPut(h)
        BY <2>6, ExitPutOK, Zenon
    <2>7. CASE \E m \in Maps : LoopProcess(m)
        BY <2>7, LoopProcessOK, Zenon
    <2> QED
        BY <1>3, <2>1, <2>2, <2>3, <2>4, <2>5, <2>6, <2>7, Zenon DEF Step
<1> QED
    BY <1>1, <1>2, <1>3, KernelOK, Zenon DEF Next

\* Every step keeps the invariant and does one of four things to at most one ring.
LEMMA NextOK == DeliveryInv /\ [Next]_vars => DeliveryInv' /\ StepEffect /\ out' >= out
<1> SUFFICES ASSUME DeliveryInv, [Next]_vars PROVE DeliveryInv' /\ StepEffect /\ out' >= out
    BY Zenon
<1>1. Inv' /\ out' >= out
    BY NextInv, Zenon DEF DeliveryInv
<1>2. StepOK
    BY <1>1, StepIsOK, Zenon
<1>3. ASSUME NEW m \in Maps PROVE Accounted(m)'
    <2>1. Keeps(m) \/ Skips(m) \/ Hands(m) \/ Writes(m)
        BY <1>2, Zenon DEF StepOK, StepEffect
    <2> QED
        BY <1>1, <2>1, AccountedStep, Zenon
<1> QED
    BY <1>1, <1>2, <1>3, Zenon DEF StepOK, DeliveryInv

\* The invariant of the deliveries holds in every reachable state.
THEOREM DeliveryInvHolds == Spec => []DeliveryInv
<1>1. DeliveryInv /\ [Next]_vars => DeliveryInv'
    BY NextOK, Zenon
<1> QED
    BY <1>1, InitOK, PTL DEF Spec

\* For any rings, sizes and watermark, the kernel is never given back room that holds a
\* record not yet handed on, nor the event a member of the heap points at: consuming,
\* unreading and the early breaks of order_process() keep data_tail behind them.
THEOREM RoomKept == Spec => []NotOverwritten
<1>1. ASSUME DeliveryInv PROVE NotOverwritten
    <2>1. ASSUME NEW m \in Maps, NEW p \in 1 .. tail[m], log[m][p].type # "LOST" \/ ~HasLost
          PROVE  \E i \in 1 .. Len(got[m]) : got[m][i] = p
        <3>1. tail[m] \in Nat /\ Handled(m) \in Nat /\ tail[m] <= Handled(m)
            BY <1>1, RingFacts, HandledType, Zenon DEF DeliveryInv, Bounds
        <3>2. p \in 1 .. Handled(m)
            BY <3>1
        <3>3. ~Skip(m, p)
            BY <2>1, Zenon DEF Skip, Promise!Skipped
        <3> QED
            BY <1>1, <3>2, <3>3, Zenon DEF DeliveryInv, Accounted
    <2>2. ASSUME NEW m \in Maps, m \in heap, ~(pc = "read" /\ m = cur) PROVE tail[m] < start[m]
        <3>1. tail[m] \in Nat /\ start[m] \in Nat /\ tail[m] <= Handled(m)
            BY <1>1, RingFacts, Zenon DEF DeliveryInv, Bounds
        <3>2. CASE Pending(m)
            BY <3>1, <3>2 DEF Handled
        <3>3. CASE pc = "consume" /\ m = cur
            BY <1>1, <3>3, Zenon DEF DeliveryInv, PlaceInv
        <3> QED
            BY <2>2, <3>2, <3>3, Zenon DEF Pending
    <2> QED
        BY <2>1, <2>2, Zenon DEF NotOverwritten
<1> QED
    BY <1>1, DeliveryInvHolds, PTL

-----------------------------------------------------------------------------
(* Reports of losses. *)

\* The step of a call that can report a loss.
Reading == InitRead \/ LoopRead

\* Nothing else touches the reports; outside these steps and their consume, no loss is
\* remembered that was not remembered before.
LEMMA OthersReport ==
    ASSUME Next, ~Reading PROVE reports' = reports /\ (lost' = lost \/ lost' = NoLost)
<1>1. CASE Kernel
    BY <1>1, Zenon DEF Kernel, outVars
<1>2. CASE Call
    BY <1>2, Zenon DEF Call, OrderMmap, OrderStream, OrderTo, Begin, outVars
<1>3. CASE Step
    <2>1. CASE TargetCheck \/ InitMmap \/ InitDone
        BY <2>1, Zenon DEF TargetCheck, Return, Begin, InitMmap, InitDone, outVars
    <2>2. CASE \E s \in Streams : InitStream(s)
        BY <2>2, Zenon DEF InitStream, outVars
    <2>3. CASE \E s \in Streams : LoopStream(s)
        BY <2>3, Zenon DEF LoopStream
    <2>4. CASE LoopEmpty \/ \E m \in Maps : LoopTargetTime(m) \/ LoopLostWait(m)
        BY <2>4, Zenon DEF LoopEmpty, LoopTargetTime, LoopLostWait, LoopBreak, outVars
    <2>5. CASE \E m \in Maps : LoopProcess(m)
        BY <2>5, Zenon DEF LoopProcess
    <2>6. CASE LoopConsume \/ Exit \/ \E h \in Sources : ExitPut(h)
        BY <2>6, Zenon DEF LoopConsume, Exit, Return, ExitPut, outVars
    <2> QED
        BY <1>3, <2>1, <2>2, <2>3, <2>4, <2>5, <2>6, Zenon DEF Step, Reading
<1> QED
    BY <1>1, <1>2, <1>3, Zenon DEF Next
===============================================================================
