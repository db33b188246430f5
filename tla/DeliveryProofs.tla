---------------------------- MODULE DeliveryProofs ----------------------------
(***************************************************************************)
(* What order_process() hands to the profiler: every loss of a ring before *)
(* a sample behind it, and each record once, in ring order, as the         *)
(* abstract specification promises; for any number of rings and streams,   *)
(* any sizes and watermark.                                                *)
(***************************************************************************)
EXTENDS OrderProcessProofs

-----------------------------------------------------------------------------
(* Losses are reported before what lies behind them. *)

\* The LOST record at position p was reported to the profiler.
Told(m, p) == \E r \in reports : r.map = m /\ r.from = m /\ r.pos = p

\* order_process() has read an event of ring m and decides what to do with it.
AtEvent(m) == cur = m /\ pc \in {"initread", "consume", "read"}

\* A LOST record that was read is reported, or is the last record read and remembered in lost.
ToldInv(m) ==
    \A p \in 1 .. start[m] : log[m][p].type = "LOST" =>
        Told(m, p) \/ (p = start[m] /\ lost = LostAt(m, p) /\ AtEvent(m))

\* The samples that were handed on have no loss in front of them that was not reported.
BehindInv(m) ==
    \A i \in 1 .. Len(got[m]) :
        /\ got[m][i] \in 1 .. Len(log[m])
        /\ log[m][got[m][i]].type = "SAMPLE" =>
            \A p \in 1 .. got[m][i] : log[m][p].type = "LOST" => Told(m, p)

\* Without side-band records a ring holds samples, and LOST records in front of samples.
Paired(l) ==
    \A p \in 1 .. Len(l) :
        /\ l[p].type \in {"SAMPLE", "LOST"}
        /\ l[p].type = "LOST" => p < Len(l) /\ l[p + 1].type = "SAMPLE" /\ l[p].time > 0

TellInv == \A m \in Maps : Paired(log[m]) /\ ToldInv(m) /\ BehindInv(m)

\* The log of ring m stays or grows, and no report is taken back.
Onward(m) ==
    /\ Len(log'[m]) >= Len(log[m])
    /\ \A p \in 1 .. Len(log[m]) : log'[m][p] = log[m][p]
    /\ reports \subseteq reports'

\* What holds of the samples handed on stays true.
LEMMA BehindKeeps ==
    ASSUME Inv, Inv', NEW m \in Maps, BehindInv(m), Onward(m), got'[m] = got[m] PROVE BehindInv(m)'
<1> SUFFICES ASSUME NEW i \in 1 .. Len(got[m])
             PROVE  /\ got[m][i] \in 1 .. Len(log'[m])
                    /\ log'[m][got[m][i]].type = "SAMPLE" =>
                        \A p \in 1 .. got[m][i] : log'[m][p].type = "LOST" => Told(m, p)'
    BY Zenon DEF BehindInv
<1>1. PICK g : g = got[m][i]
    BY Zenon
<1>2. /\ g \in 1 .. Len(log[m])
      /\ log[m][g].type = "SAMPLE" => \A p \in 1 .. g : log[m][p].type = "LOST" => Told(m, p)
    BY <1>1, Zenon DEF BehindInv
<1>3. /\ Len(log[m]) \in Nat /\ Len(log'[m]) \in Nat /\ Len(log'[m]) >= Len(log[m])
      /\ reports \subseteq reports' /\ \A p \in 1 .. Len(log[m]) : log'[m][p] = log[m][p]
    <2>1. log[m] \in Seq(Records) /\ log'[m] \in Seq(Records)
        BY Zenon DEF Inv, TypeOK, KernelTypeOK
    <2>2. Len(log[m]) \in Nat /\ Len(log'[m]) \in Nat
        BY <2>1
    <2> QED
        BY <2>2, Zenon DEF Onward
<1>4. g \in 1 .. Len(log'[m]) /\ \A p \in 1 .. g : p \in 1 .. Len(log[m])
    BY <1>2, <1>3
<1>5. \A p : Told(m, p) => Told(m, p)'
    BY <1>3, Zenon DEF Told
<1> QED
    BY <1>1, <1>2, <1>3, <1>4, <1>5, Zenon

\* A ring whose losses were all reported, and of which nothing more is read.
LEMMA ToldKeeps ==
    ASSUME DeliveryInv, Inv', NEW m \in Maps, ToldInv(m), ~AtEvent(m), start'[m] <= start[m], Onward(m)
    PROVE  ToldInv(m)'
<1>1. start[m] \in Nat /\ start'[m] \in Nat /\ Len(log[m]) \in Nat /\ start[m] <= Len(log[m])
    <2>1. start \in [Maps -> Nat] /\ start' \in [Maps -> Nat]
        BY Zenon DEF DeliveryInv, Inv, TypeOK, RingTypeOK
    <2> QED
        BY <2>1, RingFacts, Zenon DEF DeliveryInv, Bounds
<1>2. \A p \in 1 .. start'[m] : p \in 1 .. start[m] /\ p \in 1 .. Len(log[m])
    BY <1>1
<1>3. \A p : Told(m, p) => Told(m, p)'
    BY Zenon DEF Told, Onward
<1> QED
    BY <1>2, <1>3, Zenon DEF ToldInv, Onward

\* A ring at whose event a step changes nothing.
LEMMA ToldStays ==
    ASSUME DeliveryInv, NEW m \in Maps, ToldInv(m), start'[m] = start[m], lost' = lost, Onward(m),
           AtEvent(m) => AtEvent(m)'
    PROVE  ToldInv(m)'
<1>1. start[m] \in Nat /\ Len(log[m]) \in Nat /\ start[m] <= Len(log[m])
    <2>1. start \in [Maps -> Nat]
        BY Zenon DEF DeliveryInv, Inv, TypeOK, RingTypeOK
    <2> QED
        BY <2>1, RingFacts, Zenon DEF DeliveryInv, Bounds
<1>2. \A p \in 1 .. start[m] : p \in 1 .. Len(log[m])
    BY <1>1
<1>3. \A p : Told(m, p) => Told(m, p)'
    BY Zenon DEF Told, Onward
<1>4. \A p \in 1 .. start[m] : log'[m][p] = log[m][p] /\ LostAt(m, p)' = LostAt(m, p)
    BY <1>2, Zenon DEF LostAt, Onward
<1> QED
    BY <1>3, <1>4, Zenon DEF ToldInv

\* Steps that leave the logs alone and take no report back.
LEMMA SameLog == ASSUME Inv, NEW m \in Maps, log'[m] = log[m], reports \subseteq reports' PROVE Onward(m)
<1>1. Len(log[m]) \in Nat
    BY RingFacts, Zenon
<1>2. Len(log[m]) >= Len(log[m])
    BY <1>1
<1> QED
    BY <1>2, Zenon DEF Onward

\* perf_mmap__read_event() of a ring that has records left, and what both callers do with
\* the record: a LOST is remembered, a sample reports what is remembered.
LEMMA ReadTells ==
    ASSUME HasLost, Inv, NEW m \in Maps, Paired(log[m]), ToldInv(m), AtEvent(m),
           start[m] \in Nat, start[m] < Len(log[m]), start'[m] = start[m] + 1, log' = log,
           \/ /\ log[m][start[m] + 1].type = "LOST"
              /\ lost' = LostAt(m, start[m] + 1) /\ AtEvent(m)' /\ reports' = reports
           \/ /\ log[m][start[m] + 1].type = "SAMPLE"
              /\ \E t : reports' = IF lost.n > 0 THEN reports \cup {Report(m, lost, t)} ELSE reports
    PROVE  ToldInv(m)'
<1>1. PICK s, u : s = start[m] /\ u = start[m] + 1
    BY Zenon
<1>2. /\ s \in Nat /\ u = s + 1 /\ Len(log[m]) \in Nat /\ u \in 1 .. Len(log[m]) /\ start'[m] = u
      /\ s # 0 => s \in 1 .. Len(log[m])
      /\ \A p \in 1 .. u : p = u \/ (p \in 1 .. s /\ (p = s \/ p # s) /\ p \in 1 .. Len(log[m]))
      /\ \A p \in 1 .. s : p \in 1 .. Len(log[m])
    BY <1>1, RingFacts
<1>3. \A p : Told(m, p) => Told(m, p)'
    BY Zenon DEF Told
<1>4. CASE /\ log[m][u].type = "LOST" /\ lost' = LostAt(m, u) /\ AtEvent(m)' /\ reports' = reports
    <2>1. ASSUME NEW p \in 1 .. s, log[m][p].type = "LOST" PROVE Told(m, p)
        <3>1. p \in 1 .. Len(log[m])
            BY <1>2, Zenon
        <3>2. log[m][p + 1].type = "SAMPLE"
            BY <2>1, <3>1, Zenon DEF Paired
        <3>3. p # s
            BY <1>2, <1>4, <3>2
        <3> QED
            BY <1>1, <2>1, <3>3, Zenon DEF ToldInv
    <2>2. LostAt(m, u)' = LostAt(m, u)
        BY Zenon DEF LostAt
    <2> QED
        BY <1>2, <1>3, <1>4, <2>1, <2>2, Zenon DEF ToldInv
<1>5. ASSUME log[m][u].type = "SAMPLE",
             NEW t, reports' = IF lost.n > 0 THEN reports \cup {Report(m, lost, t)} ELSE reports
      PROVE  ToldInv(m)'
    <2>1. ASSUME NEW p \in 1 .. s, log[m][p].type = "LOST" PROVE Told(m, p)'
        <3>1. CASE Told(m, p)
            BY <1>3, <3>1, Zenon
        <3>2. CASE p = start[m] /\ lost = LostAt(m, p)
            <4>1. log[m][p].time > 0
                BY <1>2, <2>1, Zenon DEF Paired
            <4>2. lost.n > 0 /\ lost.map = m /\ lost.pos = p
                BY <3>2, <4>1, Zenon DEF LostAt
            <4>3. Report(m, lost, t) \in reports'
                BY <1>5, <4>2, Zenon
            <4>4. Report(m, lost, t).map = m /\ Report(m, lost, t).from = m /\ Report(m, lost, t).pos = p
                BY <4>2, Zenon DEF Report
            <4> QED
                BY <4>3, <4>4, Zenon DEF Told
        <3> QED
            BY <1>1, <2>1, <3>1, <3>2, Zenon DEF ToldInv
    <2> QED
        BY <1>2, <1>5, <2>1, Zenon DEF ToldInv
<1> QED
    BY <1>1, <1>4, <1>5, Zenon

\* perf_mmap__read_event() of a ring that is used up: its last record is no LOST record.
LEMMA ReadsNothing ==
    ASSUME Inv, NEW m \in Maps, Paired(log[m]), ToldInv(m), start[m] \in Nat, start[m] = Len(log[m]),
           start'[m] = start[m], log' = log, reports' = reports
    PROVE  ToldInv(m)'
<1>1. ASSUME NEW p \in 1 .. start[m], log[m][p].type = "LOST" PROVE p < start[m]
    BY <1>1, Zenon DEF Paired
<1>2. \A p \in 1 .. start[m] : log[m][p].type = "LOST" => p # start[m]
    BY <1>1
<1> QED
    BY <1>2, Zenon DEF ToldInv, Told

\* perf_mmap_event_init() and the loop, from perf_mmap__read_event() on.
LEMMA ReadingTells ==
    ASSUME HasLost, DeliveryInv, Inv', TellInv, Reading PROVE TellInv'
<1>1. /\ pc \in {"initread", "read"} /\ ReadEvent(cur) /\ log' = log /\ cur' = cur
      /\ cur \in Maps
    BY Zenon DEF Reading, InitRead, LoopRead, kernelVars, DeliveryInv, Inv, OrderInv, ControlInv
<1>2. PICK m \in Maps : m = cur
    BY <1>1, Zenon
<1>3. /\ ReadEvent(m) /\ Inv /\ Paired(log[m]) /\ ToldInv(m) /\ start[m] \in Nat /\ AtEvent(m)
    BY <1>2, <1>1, RingFacts, Zenon DEF DeliveryInv, TellInv, AtEvent
<1>4. /\ \A n \in Maps \ {m} : start'[n] = start[n]
      /\ start[m] = DataHead(m) => start'[m] = start[m]
      /\ start[m] < DataHead(m) => start'[m] = start[m] + 1
      /\ start[m] = DataHead(m) \/ start[m] < DataHead(m)
      /\ DataHead(m) = Len(log[m])
    BY <1>3, ReadMoves, Zenon DEF DeliveryInv
<1>5. ASSUME ToldInv(m)', got' = got, reports \subseteq reports' PROVE TellInv'
    <2>1. ASSUME NEW n \in Maps PROVE Paired(log'[n]) /\ Onward(n) /\ BehindInv(n)'
        BY <1>1, <1>3, <1>5, <2>1, SameLog, BehindKeeps, Zenon DEF TellInv
    <2>2. ASSUME NEW n \in Maps, n # m PROVE ToldInv(n)'
        <3>1. start'[n] = start[n] /\ start[n] \in Nat
            BY <1>3, <1>4, <2>2, RingFacts, Zenon
        <3>2. start'[n] <= start[n] /\ ~AtEvent(n)
            BY <1>2, <2>2, <3>1 DEF AtEvent
        <3> QED
            BY <2>1, <2>2, <3>2, ToldKeeps, Zenon DEF TellInv
    <2> QED
        BY <1>5, <2>1, <2>2, Zenon DEF TellInv
<1>6. CASE start[m] = DataHead(m)
    <2>1. ~(start[m] < DataHead(m))
        BY <1>3, <1>4, <1>6
    <2>2. got' = got /\ reports' = reports
        BY <1>2, <1>6, <2>1, Zenon DEF Reading, InitRead, LoopRead, outVars
    <2>3. ToldInv(m)'
        BY <1>1, <1>3, <1>4, <1>6, <2>2, ReadsNothing, Zenon
    <2> QED
        BY <1>5, <2>2, <2>3, Zenon
<1>7. CASE start[m] < DataHead(m)
    <2>1. start'[m] = start[m] + 1 /\ start[m] # DataHead(m) /\ start[m] + 1 \in 1 .. Len(log[m])
        BY <1>3, <1>4, <1>7
    <2>2. PICK u : u = start[m] + 1
        BY Zenon
    <2>3. log[m][u].type \in {"SAMPLE", "LOST"} /\ start'[m] = u
        BY <1>3, <2>1, <2>2, Zenon DEF Paired
    <2>4. CASE log[m][u].type = "LOST"
        <3>1. /\ lost' = LostAt(m, u) /\ pc' \in {"initread", "consume"} /\ got' = got
              /\ reports' = reports
            BY <1>2, <1>1, <2>1, <2>3, <2>4, Zenon DEF Reading, InitRead, LoopRead, outVars
        <3>2. AtEvent(m)'
            BY <1>2, <1>1, <3>1, Zenon DEF AtEvent
        <3>3. ToldInv(m)'
            BY <1>1, <1>3, <1>4, <1>7, <2>1, <2>2, <2>4, <3>1, <3>2, ReadTells, Zenon
        <3> QED
            BY <1>5, <3>1, <3>3, Zenon
    <2>5. CASE log[m][u].type = "SAMPLE"
        <3>1. /\ got' = got
              /\ \E t : reports' = IF lost.n > 0 THEN reports \cup {Report(m, lost, t)} ELSE reports
            BY <1>2, <1>1, <2>1, <2>3, <2>5, Zenon DEF Reading, InitRead, LoopRead
        <3>2. reports \subseteq reports'
            BY <3>1, Zenon
        <3>3. ToldInv(m)'
            BY <1>1, <1>3, <1>4, <1>7, <2>1, <2>2, <2>5, <3>1, ReadTells, Zenon
        <3> QED
            BY <1>5, <3>1, <3>2, <3>3, Zenon
    <2> QED
        BY <2>3, <2>4, <2>5, Zenon
<1> QED
    BY <1>4, <1>6, <1>7, Zenon

\* The other steps of a call read no record: start stays, or goes back to give an event back.
LEMMA NothingRead ==
    ASSUME Inv, Call \/ Step, ~Reading
    PROVE  /\ log' = log /\ \A m \in Maps : start'[m] <= start[m]
           /\ \/ got' = got /\ LoopConsume /\ start' = start
              \/ got' = got /\ pc \in {"idle", "target", "init", "loop", "exit"}
              \/ \E m \in Maps : LoopProcess(m)
<1>1. /\ prev = start /\ start \in [Maps -> Nat]
    BY RingFacts, Zenon
<1>2. ASSUME start' = start PROVE \A m \in Maps : start'[m] <= start[m]
    <2>1. \A m \in Maps : start[m] \in Nat
        BY <1>1, Zenon
    <2> QED
        BY <1>2, <2>1
<1>3. ASSUME NEW m \in Maps, ReadInit(m) PROVE start' = start
    BY <1>3, ReadInitFacts, Zenon DEF Inv, TypeOK, OrderInv, ControlInv
<1>4. CASE Call
    <2>1. log' = log /\ got' = got /\ pc = "idle" /\ start' = start
        BY <1>3, <1>4, Zenon DEF Call, OrderMmap, OrderStream, OrderTo, Begin, kernelVars, outVars
    <2> QED
        BY <1>2, <2>1, Zenon
<1>5. CASE TargetCheck \/ InitDone \/ Exit \/ LoopEmpty
    <2>1. log' = log /\ got' = got /\ pc \in {"target", "init", "exit", "loop"} /\ start' = start
        BY <1>5, Zenon DEF TargetCheck, Return, Begin, InitDone, Exit, LoopEmpty, LoopBreak, kernelVars,
           mmapVars, outVars
    <2> QED
        BY <1>2, <2>1, Zenon
<1>6. CASE InitMmap
    <2>1. log' = log /\ got' = got /\ pc = "init" /\ start' = start
        BY <1>3, <1>6, Zenon DEF InitMmap, kernelVars, outVars
    <2> QED
        BY <1>2, <2>1, Zenon
<1>7. CASE \E s \in Streams : InitStream(s) \/ LoopStream(s)
    <2>1. log' = log /\ got' = got /\ pc \in {"init", "loop"} /\ start' = start
        BY <1>7, Zenon DEF InitStream, LoopStream, kernelVars, mmapVars, outVars
    <2> QED
        BY <1>2, <2>1, Zenon
<1>8. CASE \E m \in Maps : LoopTargetTime(m) \/ LoopLostWait(m)
    <2>1. log' = log /\ got' = got /\ pc = "loop" /\ start' = start
        BY <1>8, Zenon DEF LoopTargetTime, LoopLostWait, LoopBreak, kernelVars, mmapVars, outVars
    <2> QED
        BY <1>2, <2>1, Zenon
<1>9. CASE \E m \in Maps : LoopProcess(m)
    <2>1. log' = log /\ start' = start
        BY <1>9, Zenon DEF LoopProcess, kernelVars, mmapVars
    <2> QED
        BY <1>2, <1>9, <2>1, Zenon
<1>10. CASE LoopConsume
    <2>1. log' = log /\ got' = got /\ start' = start
        BY <1>10, Zenon DEF LoopConsume, kernelVars, outVars
    <2> QED
        BY <1>2, <1>10, <2>1, Zenon
<1>11. ASSUME NEW h \in Sources, ExitPut(h)
       PROVE  /\ log' = log /\ got' = got /\ pc = "exit" /\ \A m \in Maps : start'[m] <= start[m]
    <2>1. log' = log /\ got' = got /\ pc = "exit"
        BY <1>11, Zenon DEF ExitPut, kernelVars, outVars
    <2>2. start' = start \/ (h \in Maps /\ start' = [start EXCEPT ![h] = start[h] - 1])
        BY <1>11, Zenon DEF ExitPut, UnreadTo
    <2>3. \A m \in Maps : start'[m] <= start[m]
        BY <1>1, <2>2
    <2> QED
        BY <2>1, <2>3, Zenon
<1> QED
    BY <1>4, <1>5, <1>6, <1>7, <1>8, <1>9, <1>10, <1>11, Zenon DEF Step, Reading

\* A sample is handed on: every loss up to it was reported.
LEMMA ProcessTells ==
    ASSUME DeliveryInv, TellInv, NEW m \in Maps, LoopProcess(m) PROVE BehindInv(m)'
<1>1. /\ log' = log /\ reports' = reports /\ got' = [got EXCEPT ![m] = Append(@, start[m])]
      /\ pc = "loop" /\ m \in heap
    BY Zenon DEF LoopProcess, Top, Deliver, kernelVars
<1>2. /\ got[m] \in Seq(Nat) /\ got \in [Maps -> Seq(Nat)] /\ start[m] \in Nat /\ Len(log[m]) \in Nat
      /\ start[m] >= 1 /\ start[m] <= Len(log[m])
    BY <1>1, RingFacts, Zenon DEF DeliveryInv, Bounds
<1>3. ~AtEvent(m) /\ BehindInv(m) /\ ToldInv(m)
    BY <1>1, Zenon DEF AtEvent, TellInv
<1>4. got'[m] = Append(got[m], start[m])
    BY <1>1, <1>2, Zenon
<1>5. \A p \in 1 .. start[m] : log[m][p].type = "LOST" => Told(m, p)
    BY <1>3, Zenon DEF ToldInv
<1>6. start[m] \in 1 .. Len(log[m])
    BY <1>2
<1>7. \A i \in 1 .. Len(got'[m]) :
        got'[m][i] = start[m] \/ (i \in 1 .. Len(got[m]) /\ got'[m][i] = got[m][i])
    BY <1>2, <1>4
<1>8. \A p : Told(m, p)' = Told(m, p)
    BY <1>1, Zenon DEF Told
<1> SUFFICES ASSUME NEW i \in 1 .. Len(got'[m])
             PROVE  /\ got'[m][i] \in 1 .. Len(log[m])
                    /\ log[m][got'[m][i]].type = "SAMPLE" =>
                        \A p \in 1 .. got'[m][i] : log[m][p].type = "LOST" => Told(m, p)
    BY <1>1, <1>8, Zenon DEF BehindInv
<1>9. PICK g : g = got'[m][i]
    BY Zenon
<1>10. CASE g = start[m]
    BY <1>5, <1>6, <1>9, <1>10, Zenon
<1>11. CASE i \in 1 .. Len(got[m]) /\ g = got[m][i]
    BY <1>3, <1>9, <1>11, Zenon DEF BehindInv
<1> QED
    BY <1>7, <1>9, <1>10, <1>11, Zenon

\* The steps of a call that read no record.
LEMMA QuietTells ==
    ASSUME DeliveryInv, Inv', TellInv, Call \/ Step, ~Reading PROVE TellInv'
<1>1. /\ Inv /\ log' = log /\ \A m \in Maps : start'[m] <= start[m]
      /\ \/ got' = got /\ LoopConsume /\ start' = start
         \/ got' = got /\ pc \in {"idle", "target", "init", "loop", "exit"}
         \/ \E m \in Maps : LoopProcess(m)
    BY NothingRead, Zenon DEF DeliveryInv
<1>2. reports' = reports
    BY OthersReport, Zenon DEF Next
<1>3. ASSUME NEW m \in Maps PROVE Paired(log'[m]) /\ Onward(m)
    BY <1>1, <1>2, SameLog, Zenon DEF TellInv
<1>4. ASSUME NEW m \in Maps PROVE ToldInv(m)'
    <2>1. CASE LoopConsume /\ start' = start
        <3>1. lost' = lost /\ cur' = cur /\ pc' = "read"
            BY <2>1, Zenon DEF LoopConsume
        <3>2. AtEvent(m) => AtEvent(m)'
            BY <3>1, Zenon DEF AtEvent
        <3> QED
            BY <1>3, <2>1, <3>1, <3>2, ToldStays, Zenon DEF TellInv
    <2>2. CASE pc \in {"idle", "target", "init", "loop", "exit"}
        <3>1. ~AtEvent(m)
            BY <2>2, Zenon DEF AtEvent
        <3> QED
            BY <1>1, <1>3, <3>1, ToldKeeps, Zenon DEF TellInv
    <2>3. CASE \E n \in Maps : LoopProcess(n)
        <3>1. pc = "loop"
            BY <2>3, Zenon DEF LoopProcess
        <3> QED
            BY <2>2, <3>1, Zenon
    <2> QED
        BY <1>1, <2>1, <2>2, <2>3, Zenon
<1>5. ASSUME NEW m \in Maps PROVE BehindInv(m)'
    <2>1. CASE got'[m] = got[m]
        BY <1>1, <1>3, <2>1, BehindKeeps, Zenon DEF TellInv
    <2>2. ASSUME NEW n \in Maps, LoopProcess(n) PROVE BehindInv(m)'
        <3>1. CASE n = m
            BY <2>2, <3>1, ProcessTells, Zenon
        <3>2. CASE n # m
            <4>1. got' = [got EXCEPT ![n] = Append(@, start[n])] /\ got \in [Maps -> Seq(Nat)]
                BY <1>1, <2>2, RingFacts, Zenon DEF LoopProcess, Deliver
            <4>2. got'[m] = got[m]
                BY <3>2, <4>1, Zenon
            <4> QED
                BY <2>1, <4>2, Zenon
        <3> QED
            BY <3>1, <3>2, Zenon
    <2> QED
        BY <1>1, <2>1, <2>2, Zenon
<1> QED
    BY <1>3, <1>4, <1>5, Zenon DEF TellInv

\* __perf_output_begin() writes a sample, behind the LOST record it owes, or drops it.
LEMMA OutputPairs ==
    ASSUME Inv, NEW m \in Maps, Paired(log[m]), NEW tm \in Nat, Output(m, "SAMPLE", tm)
    PROVE  /\ \A n \in Maps \ {m} : log'[n] = log[n]
           /\ \/ log'[m] = log[m]
              \/ /\ Paired(log'[m]) /\ log'[m] \in Seq(Records)
                 /\ Len(log'[m]) > Len(log[m]) /\ \A p \in 1 .. Len(log[m]) : log'[m][p] = log[m][p]
<1>1. /\ KernelTypeOK /\ log \in [Maps -> Seq(Records)] /\ dropped[m] \in Nat
    BY Zenon DEF Inv, TypeOK, KernelTypeOK
<1>2. CASE log' = log
    BY <1>2, Zenon
<1>3. ASSUME log' # log
      PROVE  /\ \A n \in Maps \ {m} : log'[n] = log[n]
             /\ log'[m] \in Seq(Records) /\ Len(log'[m]) > Len(log[m])
             /\ \A p \in 1 .. Len(log[m]) : log'[m][p] = log[m][p]
    BY <1>1, <1>3, OutputWrites, Zenon
<1>4. PICK l, k : l = log[m] /\ k = log'[m]
    BY Zenon
<1>5. l \in Seq(Records) /\ Paired(l)
    BY <1>1, <1>4, Zenon
<1>6. ASSUME NEW b, log' = [log EXCEPT ![m] = Append(@, Record("SAMPLE", tm, b))] PROVE Paired(k)
    <2>1. PICK r : r = Record("SAMPLE", tm, b)
        BY Zenon
    <2>2. k = Append(l, r) /\ r.type = "SAMPLE"
        BY <1>1, <1>4, <1>6, <2>1, Zenon DEF Record
    <2>3. /\ Len(k) = Len(l) + 1 /\ Len(l) \in Nat /\ k[Len(k)].type = "SAMPLE"
          /\ \A p \in 1 .. Len(l) : k[p] = l[p] /\ p < Len(k) /\ (p < Len(l) => k[p + 1] = l[p + 1])
          /\ \A p \in 1 .. Len(k) : p = Len(k) \/ p \in 1 .. Len(l)
        BY <1>5, <2>2
    <2>4. ASSUME NEW p \in 1 .. Len(l)
          PROVE  /\ k[p].type \in {"SAMPLE", "LOST"}
                 /\ k[p].type = "LOST" => p < Len(k) /\ k[p + 1].type = "SAMPLE" /\ k[p].time > 0
        <3>1. k[p] = l[p] /\ p < Len(k) /\ (p < Len(l) => k[p + 1] = l[p + 1])
            BY <2>3, Zenon
        <3>2. /\ l[p].type \in {"SAMPLE", "LOST"}
              /\ l[p].type = "LOST" => p < Len(l) /\ l[p + 1].type = "SAMPLE" /\ l[p].time > 0
            BY <1>5, Zenon DEF Paired
        <3> QED
            BY <3>1, <3>2, Zenon
    <2>5. k[Len(k)].type # "LOST"
        BY <2>3, Zenon
    <2> QED
        BY <2>3, <2>4, <2>5, Zenon DEF Paired
<1>7. ASSUME dropped[m] > 0, NEW b, NEW c,
             log' = [log EXCEPT ![m] = @ \o <<Record("LOST", dropped[m], b), Record("SAMPLE", tm, c)>>]
      PROVE  Paired(k)
    <2>1. PICK q, r : q = Record("LOST", dropped[m], b) /\ r = Record("SAMPLE", tm, c)
        BY Zenon
    <2>2. k = l \o <<q, r>> /\ r.type = "SAMPLE" /\ q.type = "LOST" /\ q.time > 0
        BY <1>1, <1>4, <1>7, <2>1, Zenon DEF Record
    <2>3. /\ Len(k) = Len(l) + 2 /\ Len(l) \in Nat /\ k[Len(k)] = r /\ k[Len(l) + 1] = q
          /\ \A p \in 1 .. Len(l) : k[p] = l[p] /\ p < Len(k) /\ (p < Len(l) => k[p + 1] = l[p + 1])
        BY <1>5, <2>2
    <2>4. PICK u : u = Len(l) + 1
        BY Zenon
    <2>5. /\ u < Len(k) /\ k[u] = q /\ k[u + 1] = r
          /\ \A p \in 1 .. Len(k) : p = Len(k) \/ p = u \/ p \in 1 .. Len(l)
        BY <2>3, <2>4
    <2>6. ASSUME NEW p \in 1 .. Len(l)
          PROVE  /\ k[p].type \in {"SAMPLE", "LOST"}
                 /\ k[p].type = "LOST" => p < Len(k) /\ k[p + 1].type = "SAMPLE" /\ k[p].time > 0
        <3>1. k[p] = l[p] /\ p < Len(k) /\ (p < Len(l) => k[p + 1] = l[p + 1])
            BY <2>3, Zenon
        <3>2. /\ l[p].type \in {"SAMPLE", "LOST"}
              /\ l[p].type = "LOST" => p < Len(l) /\ l[p + 1].type = "SAMPLE" /\ l[p].time > 0
            BY <1>5, Zenon DEF Paired
        <3> QED
            BY <3>1, <3>2, Zenon
    <2>7. k[Len(k)].type = "SAMPLE" /\ k[Len(k)].type # "LOST"
        BY <2>2, <2>3, Zenon
    <2>8. k[u].type = "LOST" /\ u < Len(k) /\ k[u + 1].type = "SAMPLE" /\ k[u].time > 0
        BY <2>2, <2>5, Zenon
    <2> QED
        BY <2>5, <2>6, <2>7, <2>8, Zenon DEF Paired
<1>8. log' = log \/ Paired(k)
    BY <1>6, <1>7, Zenon DEF Output
<1> QED
    BY <1>2, <1>3, <1>4, <1>8, Zenon

\* The kernel writes behind what was read.
LEMMA KernelTells ==
    ASSUME Sideband = {}, DeliveryInv, Inv', TellInv, Kernel PROVE TellInv'
<1>1. /\ start' = start /\ lost' = lost /\ cur' = cur /\ pc' = pc /\ got' = got /\ reports' = reports
      /\ Inv
    BY Zenon DEF Kernel, mmapVars, outVars, DeliveryInv
<1>2. ASSUME NEW m \in Maps, Paired(log'[m]), Onward(m) PROVE ToldInv(m)' /\ BehindInv(m)'
    <2>1. ToldInv(m) /\ BehindInv(m) /\ start'[m] = start[m] /\ got'[m] = got[m]
        BY <1>1, Zenon DEF TellInv
    <2>2. AtEvent(m) => AtEvent(m)'
        BY <1>1, Zenon DEF AtEvent
    <2> QED
        BY <1>1, <1>2, <2>1, <2>2, ToldStays, BehindKeeps, Zenon
<1>3. ASSUME NEW m \in Maps, log'[m] = log[m] PROVE Paired(log'[m]) /\ Onward(m)
    BY <1>1, <1>3, SameLog, Zenon DEF TellInv
<1>4. ASSUME NEW m \in Maps, NEW tm \in Nat, Output(m, "SAMPLE", tm)
      PROVE  \A n \in Maps : Paired(log'[n]) /\ Onward(n)
    <2>1. ASSUME NEW n \in Maps, n # m PROVE Paired(log'[n]) /\ Onward(n)
        BY <1>1, <1>3, <1>4, <2>1, OutputPairs, Zenon DEF TellInv
    <2>2. CASE log'[m] = log[m]
        BY <1>3, <2>1, <2>2, Zenon
    <2>3. CASE /\ Paired(log'[m]) /\ log'[m] \in Seq(Records)
               /\ Len(log'[m]) > Len(log[m]) /\ \A p \in 1 .. Len(log[m]) : log'[m][p] = log[m][p]
        <3>1. Len(log[m]) \in Nat /\ Len(log'[m]) \in Nat
            BY <1>1, <2>3, RingFacts
        <3>2. Len(log'[m]) >= Len(log[m])
            BY <2>3, <3>1
        <3>3. Onward(m)
            BY <1>1, <2>3, <3>2, Zenon DEF Onward
        <3> QED
            BY <2>1, <2>3, <3>3, Zenon
    <2> QED
        BY <1>1, <1>4, <2>2, <2>3, OutputPairs, Zenon DEF TellInv
<1>5. ASSUME NEW m \in Maps, OutputEnd(m) PROVE \A n \in Maps : Paired(log'[n]) /\ Onward(n)
    <2>1. inflight[m] \in Seq(Nat) /\ inflight[m] # <<>>
        BY <1>1, <1>5, Zenon DEF OutputEnd, Inv, TypeOK, KernelTypeOK
    <2>2. inflight[m][Len(inflight[m])] \in Nat
        BY <2>1
    <2> QED
        BY <1>4, <1>5, <2>2, Zenon DEF OutputEnd
<1>6. ASSUME NEW m \in Maps, OutputAtOnce(m) PROVE \A n \in Maps : Paired(log'[n]) /\ Onward(n)
    <2>1. clock + 1 \in Nat
        BY <1>1 DEF Inv, TypeOK, KernelTypeOK
    <2> QED
        BY <1>4, <1>6, <2>1, Zenon DEF OutputAtOnce
<1>7. ASSUME NEW m \in Maps, OutputStart(m) PROVE \A n \in Maps : Paired(log'[n]) /\ Onward(n)
    BY <1>3, <1>7, Zenon DEF OutputStart
<1>8. ASSUME NEW m \in Maps PROVE ~OutputOther(m)
    BY Zenon DEF OutputOther
<1>9. ASSUME NEW s \in Streams, StreamArrive(s) PROVE \A n \in Maps : Paired(log'[n]) /\ Onward(n)
    BY <1>3, <1>9, Zenon DEF StreamArrive
<1>10. \A n \in Maps : Paired(log'[n]) /\ Onward(n)
    BY <1>5, <1>6, <1>7, <1>8, <1>9, Zenon DEF Kernel
<1> QED
    BY <1>2, <1>10, Zenon DEF TellInv

\* Every loss recorded in a ring is reported before a sample behind it is handed on, whatever
\* the watermark, for any number of rings and streams and any sizes.  Without side-band
\* records: the LOST record in front of one would be overwritten in lost by the next.
THEOREM LossesTold == ASSUME Sideband = {} PROVE Spec => []LostReported
<1>1. Init => TellInv
    <2> SUFFICES ASSUME Init, NEW m \in Maps PROVE Paired(log[m]) /\ ToldInv(m) /\ BehindInv(m)
        BY Zenon DEF TellInv
    <2>1. log[m] = <<>> /\ start[m] = 0 /\ got[m] = <<>>
        BY Zenon DEF Init
    <2>2. Paired(<<>>)
        BY DEF Paired
    <2>3. ToldInv(m)
        BY <2>1 DEF ToldInv
    <2>4. BehindInv(m)
        BY <2>1 DEF BehindInv
    <2> QED
        BY <2>1, <2>2, <2>3, <2>4, Zenon
<1>2. DeliveryInv /\ (HasLost => TellInv) /\ [Next]_vars => (HasLost => TellInv)'
    <2> SUFFICES ASSUME DeliveryInv, HasLost, TellInv, [Next]_vars PROVE TellInv'
        BY Zenon
    <2>1. Inv'
        BY NextOK, Zenon DEF DeliveryInv
    <2>2. CASE UNCHANGED vars
        <3>1. /\ log' = log /\ got' = got /\ start' = start /\ lost' = lost /\ cur' = cur /\ pc' = pc
              /\ reports' = reports
            BY <2>2, Zenon DEF vars, kernelVars, mmapVars, outVars
        <3>2. ASSUME NEW m \in Maps PROVE Paired(log'[m]) /\ ToldInv(m)' /\ BehindInv(m)'
            <4>1. Onward(m) /\ start'[m] = start[m] /\ got'[m] = got[m]
                BY <3>1, SameLog, Zenon DEF DeliveryInv
            <4>2. AtEvent(m) => AtEvent(m)'
                BY <3>1, Zenon DEF AtEvent
            <4> QED
                BY <2>1, <3>1, <4>1, <4>2, ToldStays, BehindKeeps, Zenon DEF TellInv, DeliveryInv
        <3> QED
            BY <3>2, Zenon DEF TellInv
    <2>3. CASE Kernel
        BY <2>1, <2>3, KernelTells, Zenon
    <2>4. CASE Call \/ Step
        <3>1. CASE Reading
            BY <2>1, <3>1, ReadingTells, Zenon
        <3>2. CASE ~Reading
            BY <2>1, <2>4, <3>2, QuietTells, Zenon
        <3> QED
            BY <3>1, <3>2, Zenon
    <2> QED
        BY <2>2, <2>3, <2>4, Zenon DEF Next
<1>3. (HasLost => TellInv) => LostReported
    <2> SUFFICES ASSUME HasLost, TellInv PROVE LostReported
        BY Zenon DEF LostReported
    <2>1. ASSUME NEW m \in Maps, NEW i \in 1 .. Len(got[m]), NEW p \in 1 .. got[m][i],
                 log[m][got[m][i]].type = "SAMPLE" /\ log[m][p].type = "LOST"
          PROVE  \E r \in reports : r.map = m /\ r.from = m /\ r.pos = p
        <3>1. PICK g : g = got[m][i]
            BY Zenon
        <3>2. p \in 1 .. g /\ log[m][g].type = "SAMPLE"
            BY <2>1, <3>1, Zenon
        <3>3. \A q \in 1 .. g : log[m][q].type = "LOST" => Told(m, q)
            <4>1. BehindInv(m)
                BY Zenon DEF TellInv
            <4> QED
                BY <3>1, <3>2, <4>1, Zenon DEF BehindInv
        <3>4. Told(m, p)
            BY <2>1, <3>2, <3>3, Zenon
        <3> QED
            BY <3>4, Zenon DEF Told
    <2> QED
        BY <2>1 DEF LostReported
<1> QED
    BY <1>1, <1>2, <1>3, DeliveryInvHolds, PTL DEF Spec

-----------------------------------------------------------------------------
(* The sort implements ordered delivery. *)

\* What is left of a sequence after n elements.
LEMMA RestFacts ==
    ASSUME NEW S, NEW s \in Seq(S), NEW n \in 0 .. Len(s)
    PROVE  /\ SubSeq(s, n + 1, Len(s)) \in Seq(S)
           /\ Len(SubSeq(s, n + 1, Len(s))) = Len(s) - n
           /\ \A i \in 1 .. Len(s) - n : SubSeq(s, n + 1, Len(s))[i] = s[n + i]
OBVIOUS

\* The first n elements of a sequence.
LEMMA PrefixFacts ==
    ASSUME NEW S, NEW s \in Seq(S), NEW n \in 0 .. Len(s)
    PROVE  /\ SubSeq(s, 1, n) \in Seq(S) /\ Len(SubSeq(s, 1, n)) = n
           /\ \A i \in 1 .. n : SubSeq(s, 1, n)[i] = s[i]
OBVIOUS

\* Sequences with the same elements are equal.
LEMMA SameSeq ==
    ASSUME NEW S, NEW s \in Seq(S), NEW t \in Seq(S), Len(s) = Len(t), \A i \in 1 .. Len(s) : s[i] = t[i]
    PROVE  s = t
OBVIOUS

\* Taking k more elements off what is left.
LEMMA RestOfRest ==
    ASSUME NEW S, NEW s \in Seq(S), NEW n \in 0 .. Len(s), NEW k \in 0 .. Len(s) - n,
           NEW r \in Seq(S), r = SubSeq(s, n + 1, Len(s))
    PROVE  SubSeq(r, k + 1, Len(r)) = SubSeq(s, n + k + 1, Len(s))
<1>1. /\ Len(s) \in Nat /\ n \in Nat /\ k \in Nat /\ n + k \in 0 .. Len(s)
    OBVIOUS
<1>2. Len(r) = Len(s) - n /\ \A i \in 1 .. Len(s) - n : r[i] = s[n + i]
    BY RestFacts, Zenon
<1>3. k \in 0 .. Len(r)
    BY <1>1, <1>2, Zenon
<1> DEFINE a == SubSeq(r, k + 1, Len(r))
           b == SubSeq(s, n + k + 1, Len(s))
<1>4. a \in Seq(S) /\ Len(a) = Len(r) - k /\ \A i \in 1 .. Len(r) - k : a[i] = r[k + i]
    BY <1>3, RestFacts, Zenon
<1>5. b \in Seq(S) /\ Len(b) = Len(s) - (n + k) /\ \A i \in 1 .. Len(s) - (n + k) : b[i] = s[n + k + i]
    BY <1>1, RestFacts, Zenon
<1> HIDE DEF a, b
<1>6. Len(a) = Len(b) /\ Len(a) = Len(s) - n - k
    BY <1>1, <1>2, <1>4, <1>5
<1>7. ASSUME NEW i \in 1 .. Len(a) PROVE a[i] = b[i]
    <2>1. i \in Nat /\ k + i \in 1 .. Len(s) - n /\ n + (k + i) = n + k + i
        BY <1>1, <1>6
    <2>2. a[i] = r[k + i] /\ r[k + i] = s[n + (k + i)] /\ b[i] = s[n + k + i]
        BY <1>2, <1>4, <1>5, <1>6, <2>1, Zenon
    <2> QED
        BY <2>1, <2>2, Zenon
<1>8. a = b
    BY <1>4, <1>5, <1>6, <1>7, SameSeq, Zenon
<1> QED
    BY <1>8, Zenon DEF a, b

\* The queue of the abstract specification: what is left of the log after the last record
\* handed on.
LEMMA WaitingFacts ==
    ASSUME DeliveryInv, NEW m \in Maps
    PROVE  /\ LastGot(m) \in 0 .. Len(log[m]) /\ log[m] \in Seq(Records) /\ Len(log[m]) \in Nat
           /\ Waiting(m) = SubSeq(log[m], LastGot(m) + 1, Len(log[m]))
           /\ Waiting(m) \in Seq(Records) /\ Len(Waiting(m)) = Len(log[m]) - LastGot(m)
           /\ \A i \in 1 .. Len(log[m]) - LastGot(m) : Waiting(m)[i] = log[m][LastGot(m) + i]
           /\ Handled(m) \in Nat /\ LastGot(m) <= Handled(m)
           /\ \A p \in LastGot(m) + 1 .. Handled(m) : Skip(m, p)
<1>1. /\ log[m] \in Seq(Records) /\ Len(log[m]) \in Nat /\ start[m] \in Nat /\ Handled(m) \in Nat
      /\ start[m] <= Len(log[m])
    BY RingFacts, HandledType, Zenon DEF DeliveryInv, Bounds
<1>2. Handled(m) <= Len(log[m])
    BY <1>1 DEF Handled
<1>3. LastGot(m) \in 0 .. Handled(m) /\ \A p \in LastGot(m) + 1 .. Handled(m) : Skip(m, p)
    BY Zenon DEF DeliveryInv, Accounted
<1>4. LastGot(m) \in 0 .. Len(log[m]) /\ LastGot(m) <= Handled(m)
    BY <1>1, <1>2, <1>3
<1>5. Waiting(m) = SubSeq(log[m], LastGot(m) + 1, Len(log[m]))
    BY Zenon DEF Waiting, LastGot
<1>6. /\ SubSeq(log[m], LastGot(m) + 1, Len(log[m])) \in Seq(Records)
      /\ Len(SubSeq(log[m], LastGot(m) + 1, Len(log[m]))) = Len(log[m]) - LastGot(m)
      /\ \A i \in 1 .. Len(log[m]) - LastGot(m) :
            SubSeq(log[m], LastGot(m) + 1, Len(log[m]))[i] = log[m][LastGot(m) + i]
    BY <1>1, <1>4, RestFacts, Zenon
<1> QED
    BY <1>1, <1>3, <1>4, <1>5, <1>6, Zenon

\* A ring of which nothing was handed on and to which nothing was written.
LEMMA WaitingSame ==
    ASSUME NEW m \in Maps, Keeps(m) \/ Skips(m)
    PROVE  Waiting(m)' = Waiting(m)
BY Zenon DEF Keeps, Skips, Waiting

\* Of a queue w, what is left of the log s after g records, k records are taken.
LEMMA TakeFacts ==
    ASSUME NEW s \in Seq(Records), NEW g \in 0 .. Len(s), NEW h \in Nat, g <= h, h + 1 <= Len(s),
           NEW w \in Seq(Records), w = SubSeq(s, g + 1, Len(s)), NEW k, k = h + 1 - g
    PROVE  /\ k \in 1 .. Len(w) /\ w[k] = s[h + 1]
           /\ \A i \in 1 .. k - 1 : g + i \in g + 1 .. h /\ w[i] = s[g + i]
           /\ SubSeq(w, k + 1, Len(w)) = SubSeq(s, h + 1 + 1, Len(s))
<1>1. Len(s) \in Nat /\ g \in Nat /\ g + k = h + 1 /\ g + k + 1 = h + 1 + 1 /\ k \in 0 .. Len(s) - g
    OBVIOUS
<1>2. Len(w) = Len(s) - g /\ \A i \in 1 .. Len(s) - g : w[i] = s[g + i]
    BY RestFacts, Zenon
<1>3. SubSeq(w, k + 1, Len(w)) = SubSeq(s, g + k + 1, Len(s))
    BY <1>1, RestOfRest, Zenon
<1>4. k \in 1 .. Len(w) /\ k \in 1 .. Len(s) - g
    BY <1>1, <1>2
<1>5. \A i \in 1 .. k - 1 : g + i \in g + 1 .. h /\ i \in 1 .. Len(s) - g
    BY <1>1
<1> QED
    BY <1>1, <1>2, <1>3, <1>4, <1>5, Zenon

\* The last element of a sequence x was appended to.
LEMMA LastAppended ==
    ASSUME NEW q \in Seq(Nat), NEW x \in Nat, NEW r, r = Append(q, x)
    PROVE  r # <<>> /\ r[Len(r)] = x
BY AppendFacts

\* Handing a record on takes it and the losses in front of it off the queue.
LEMMA HandsRefines ==
    ASSUME DeliveryInv, NEW m \in Maps, Hands(m), \A n \in Maps \ {m} : Keeps(n)
    PROVE  Promise!HandOn(m)
<1>1. PICK h : h = Handled(m)
    BY Zenon
<1>2. PICK g : g = LastGot(m)
    BY Zenon
<1>3. PICK w : w = Waiting(m)
    BY Zenon
<1>4. PICK k : k = h + 1 - g
    BY Zenon
<1>5. /\ log[m] \in Seq(Records) /\ g \in 0 .. Len(log[m]) /\ h \in Nat /\ g <= h
      /\ w \in Seq(Records) /\ w = SubSeq(log[m], g + 1, Len(log[m]))
      /\ \A p \in g + 1 .. h : Skip(m, p)
    BY <1>1, <1>2, <1>3, WaitingFacts, Zenon
<1>6. /\ log'[m] = log[m] /\ got'[m] = Append(got[m], h + 1)
      /\ h + 1 <= Len(log[m]) /\ ~Skip(m, h + 1)
      /\ out' = IF log[m][h + 1].type = "SAMPLE" THEN Promise!Later(out, log[m][h + 1].time) ELSE out
    BY <1>1, Zenon DEF Hands
<1>7. /\ k \in 1 .. Len(w) /\ w[k] = log[m][h + 1]
      /\ \A i \in 1 .. k - 1 : g + i \in g + 1 .. h /\ w[i] = log[m][g + i]
      /\ SubSeq(w, k + 1, Len(w)) = SubSeq(log[m], h + 1 + 1, Len(log[m]))
    <2>1. PICK s : s = log[m]
        BY Zenon
    <2>2. /\ s \in Seq(Records) /\ g \in 0 .. Len(s) /\ h \in Nat /\ g <= h /\ h + 1 <= Len(s)
          /\ w \in Seq(Records) /\ w = SubSeq(s, g + 1, Len(s))
        BY <1>5, <1>6, <2>1, Zenon
    <2>3. /\ k \in 1 .. Len(w) /\ w[k] = s[h + 1]
          /\ \A i \in 1 .. k - 1 : g + i \in g + 1 .. h /\ w[i] = s[g + i]
          /\ SubSeq(w, k + 1, Len(w)) = SubSeq(s, h + 1 + 1, Len(s))
        BY <1>4, <2>2, TakeFacts
    <2> QED
        BY <2>1, <2>3, Zenon
<1>8. Waiting(m)' = SubSeq(w, k + 1, Len(w))
    <2>1. got[m] \in Seq(Nat) /\ h + 1 \in Nat
        BY <1>5, RingFacts DEF DeliveryInv
    <2>2. got'[m] = Append(got[m], h + 1)
        BY <1>6, Zenon
    <2>3. got'[m] # <<>> /\ got'[m][Len(got'[m])] = h + 1
        BY <2>1, <2>2, LastAppended, Zenon
    <2> QED
        BY <1>6, <1>7, <2>3, Zenon DEF Waiting
<1>9. \A n \in Maps \ {m} : Waiting(n)' = Waiting(n)
    BY WaitingSame, Zenon
<1>10. [n \in Maps |-> Waiting(n)]' =
         [[n \in Maps |-> Waiting(n)] EXCEPT ![m] = SubSeq(w, k + 1, Len(w))]
    BY <1>8, <1>9, Zenon
<1>11. [n \in Maps |-> Waiting(n)][m] = w
    BY <1>3, Zenon
<1>12. ~Promise!Skipped(w[k]) /\ \A i \in 1 .. k - 1 : Promise!Skipped(w[i])
    BY <1>5, <1>6, <1>7, Zenon DEF Skip
<1> QED
    BY <1>6, <1>7, <1>10, <1>11, <1>12, Zenon DEF Promise!HandOn

\* Of a log t that continues the log s, the queue continues that of s.
LEMMA GrowFacts ==
    ASSUME NEW s \in Seq(Records), NEW t \in Seq(Records), NEW g \in 0 .. Len(s),
           Len(t) > Len(s), \A p \in 1 .. Len(s) : t[p] = s[p],
           NEW w \in Seq(Records), w = SubSeq(s, g + 1, Len(s)),
           NEW v, v = SubSeq(t, g + 1, Len(t))
    PROVE  Len(v) > Len(w) /\ SubSeq(v, 1, Len(w)) = w
<1>1. Len(s) \in Nat /\ Len(t) \in Nat /\ g \in Nat /\ g \in 0 .. Len(t)
    OBVIOUS
<1>2. Len(w) = Len(s) - g /\ \A i \in 1 .. Len(s) - g : w[i] = s[g + i]
    BY RestFacts, Zenon
<1>3. v \in Seq(Records) /\ Len(v) = Len(t) - g /\ \A i \in 1 .. Len(t) - g : v[i] = t[g + i]
    BY <1>1, RestFacts, Zenon
<1>4. Len(v) > Len(w) /\ Len(w) \in Nat /\ Len(v) \in Nat
    BY <1>1, <1>2, <1>3
<1>5. PICK u : u = SubSeq(v, 1, Len(w))
    BY Zenon
<1>6. u \in Seq(Records) /\ Len(u) = Len(w) /\ \A i \in 1 .. Len(w) : u[i] = v[i]
    <2>1. Len(w) \in 0 .. Len(v)
        BY <1>4
    <2> QED
        BY <1>3, <1>5, <2>1, PrefixFacts, Zenon
<1>7. ASSUME NEW i \in 1 .. Len(u) PROVE u[i] = w[i]
    <2>1. g + i \in 1 .. Len(s) /\ i \in 1 .. Len(t) - g /\ i \in 1 .. Len(s) - g
        BY <1>1, <1>2, <1>6
    <2> QED
        BY <1>2, <1>3, <1>6, <2>1, Zenon
<1>8. u = w
    BY <1>6, <1>7, SameSeq, Zenon
<1> QED
    BY <1>4, <1>5, <1>8, Zenon

\* What the kernel appends is appended to the queue.
LEMMA WritesRefines ==
    ASSUME DeliveryInv, NEW m \in Maps, Writes(m), \A n \in Maps \ {m} : Keeps(n)
    PROVE  Promise!Write(m)
<1>1. PICK g : g = LastGot(m)
    BY Zenon
<1>2. PICK w : w = Waiting(m)
    BY Zenon
<1>3. PICK v : v = Waiting(m)'
    BY Zenon
<1>4. /\ log[m] \in Seq(Records) /\ g \in 0 .. Len(log[m])
      /\ w \in Seq(Records) /\ w = SubSeq(log[m], g + 1, Len(log[m]))
    BY <1>1, <1>2, WaitingFacts, Zenon
<1>5. /\ log'[m] \in Seq(Records) /\ Len(log'[m]) > Len(log[m])
      /\ \A p \in 1 .. Len(log[m]) : log'[m][p] = log[m][p]
      /\ got'[m] = got[m] /\ out' = out
    BY Zenon DEF Writes
<1>6. v = SubSeq(log'[m], g + 1, Len(log'[m]))
    BY <1>1, <1>3, <1>5, Zenon DEF Waiting, LastGot
<1>7. Len(v) > Len(w) /\ SubSeq(v, 1, Len(w)) = w
    <2>1. PICK s : s = log[m]
        BY Zenon
    <2>2. PICK t : t = log'[m]
        BY Zenon
    <2>3. /\ s \in Seq(Records) /\ t \in Seq(Records) /\ g \in 0 .. Len(s) /\ Len(t) > Len(s)
          /\ \A p \in 1 .. Len(s) : t[p] = s[p]
          /\ w \in Seq(Records) /\ w = SubSeq(s, g + 1, Len(s)) /\ v = SubSeq(t, g + 1, Len(t))
        BY <1>4, <1>5, <1>6, <2>1, <2>2, Zenon
    <2> QED
        BY <2>3, GrowFacts
<1>8. \A n \in Maps \ {m} : Waiting(n)' = Waiting(n)
    BY WaitingSame, Zenon
<1>9. [n \in Maps |-> Waiting(n)][m] = w /\ [n \in Maps |-> Waiting(n)]'[m] = v
    BY <1>2, <1>3, Zenon
<1> QED
    BY <1>5, <1>7, <1>8, <1>9, Zenon DEF Promise!Write

\* Every step of the sort is one of the abstract specification.
LEMMA StepRefines ==
    ASSUME DeliveryInv, DeliveryInv', StepEffect, out' >= out
    PROVE  Promise!Next
<1>1. CASE \A m \in Maps : Keeps(m) \/ Skips(m)
    <2>1. \A m \in Maps : Waiting(m)' = Waiting(m)
        BY <1>1, WaitingSame, Zenon
    <2>2. [m \in Maps |-> Waiting(m)]' = [m \in Maps |-> Waiting(m)]
        BY <2>1, Zenon
    <2> QED
        BY <2>2, Zenon DEF Promise!Next, Promise!HandOnItem
<1>2. CASE \E m \in Maps : (Hands(m) \/ Writes(m)) /\ \A n \in Maps \ {m} : Keeps(n)
    BY <1>2, HandsRefines, WritesRefines, Zenon DEF Promise!Next
<1> QED
    BY <1>1, <1>2, Zenon DEF StepEffect

\* For any number of rings and streams, order_process() implements ordered delivery: each
\* record of a ring is handed on once, in ring order, none skipped but the losses that lost()
\* reports; a sample keeps its time unless it is late, and a late one gets the time handed on
\* last.
THEOREM DeliveryRefined == Spec => ImplementsDelivery
<1>1. Init => Promise!Init
    <2> SUFFICES ASSUME Init PROVE Promise!Init
        BY Zenon
    <2>1. ASSUME NEW m \in Maps PROVE Waiting(m) = <<>>
        <3>1. log[m] = <<>> /\ got[m] = <<>>
            BY Zenon DEF Init
        <3>2. Len(<<>>) = 0 /\ SubSeq(<<>>, 0 + 1, 0) = <<>>
            OBVIOUS
        <3> QED
            BY <3>1, <3>2, Zenon DEF Waiting
    <2> QED
        BY <2>1, Zenon DEF Promise!Init, Init
<1>2. DeliveryInv /\ DeliveryInv' /\ [Next]_vars
      => [Promise!Next]_<<[m \in Maps |-> Waiting(m)], out>>
    BY NextOK, StepRefines, Zenon
<1> QED
    BY <1>1, <1>2, DeliveryInvHolds, PTL DEF Spec, ImplementsDelivery, Promise!Spec
===============================================================================
