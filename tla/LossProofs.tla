------------------------------ MODULE LossProofs ------------------------------
(***************************************************************************)
(* order_process() foresees losses: when the watermark is large enough,    *)
(* nothing behind a loss is handed on, from any ring, before the loss is   *)
(* reported; for any number of rings.  First the states of one ring, and   *)
(* what a write, a drop, a consume, a read and an unread do to it; then    *)
(* the steps of the program.                                               *)
(***************************************************************************)
EXTENDS OrderProcessProofs

USE Zenon

-----------------------------------------------------------------------------
(* The states of a ring. *)

\* What a ring can hold (CIRC_SPACE of an empty ring).
Room == RingSize - 1

\* The sizes for which losses are foreseen: the watermark covers two samples and a LOST
\* record, half of it a LOST record, and the ring is larger than watermark and sample.
Roomy ==
    /\ Watermark >= 2 * SampleSize + LostSize
    /\ Watermark - Watermark \div 2 >= LostSize
    /\ Room >= Watermark + SampleSize

\* Where order_process() is with a ring: its next event is not read, is in the heap, or has
\* been processed and is at consume or at the next perf_mmap__read_event().
Phases == {"away", "pending", "consume", "read"}

\* Byte offset of position i of a log, and the bytes from one position to another.
OffIn(l, i) == IF i = 0 THEN 0 ELSE l[i].off

Between(l, i, j) == OffIn(l, j) - OffIn(l, i)

\* Without side-band records a ring holds samples, and LOST records in front of samples.
LogOK(l) ==
    /\ \A p \in 1 .. Len(l) :
        /\ l[p].type \in {"SAMPLE", "LOST"}
        /\ l[p].off = OffIn(l, p - 1) + Size(l[p].type)
        /\ l[p].type = "LOST" => p < Len(l) /\ l[p + 1].type = "SAMPLE" /\ l[p].time > 0
    /\ \A p, q \in 0 .. Len(l) : p <= q => OffIn(l, p) <= OffIn(l, q)

(* The state of a ring: its log l, the number dr of records dropped since, *)
(* the positions t (data_tail), s (start), e (end), mb (maybe_lost_end).   *)

\* A loss behind the end of the ring has been foreseen.
Foreseen(l, e, mb) == mb = Len(l) /\ e = Len(l)

\* Between two calls nothing is lost right behind what was processed.  Behind what is
\* still to be read something may be lost: the ring is so full that this will be foreseen.
AwayOK(l, dr, t, s, e, mb) ==
    /\ t = s
    /\ s = Len(l) => dr = 0
    /\ s < Len(l) => l[s + 1].type = "SAMPLE"
    /\ dr > 0 => Foreseen(l, e, mb) \/ Between(l, s, Len(l)) > Room - Watermark

\* The tail is one record behind, or the ring is crowded (the consume was left out).
LagOK(l, t, s, e) ==
    \/ Between(l, t, s) = Size(l[s].type)
    \/ Between(l, s, e) > Room - Watermark \div 2 - Size(l[s].type)

\* The event in the heap: a loss was foreseen, or will be with this event, which is the
\* case when end is up to date, or with the next one, which a LOST record may precede.
PendingOK(l, dr, t, s, e, mb) ==
    /\ s >= 1 /\ l[s].type = "SAMPLE" /\ t < s
    /\ LagOK(l, t, s, e)
    /\ dr > 0 => \/ Foreseen(l, e, mb)
                 \/ e = Len(l) /\ Between(l, s, Len(l)) > Room - Watermark - SampleSize
                 \/ Between(l, s, Len(l)) > Room - Watermark + LostSize

\* The event was processed, so it is not the last one before a loss that was foreseen; or
\* a LOST record was read.
PassingOK(l, dr, s, e, mb) ==
    /\ s >= 1
    /\ l[s].type = "SAMPLE" =>
        /\ \/ s < Len(l) /\ mb = e
           \/ mb = e - 1 /\ Room - Between(l, s, e) >= Watermark + SampleSize
        /\ dr > 0 => Foreseen(l, e, mb) \/ Between(l, s, Len(l)) > Room - Watermark + LostSize
    /\ l[s].type = "LOST" /\ dr > 0 =>
        Foreseen(l, e, mb) \/ Between(l, s, Len(l)) > Room - Watermark

RingOK(l, dr, t, s, e, mb, ph) ==
    /\ LogOK(l) /\ t <= s /\ s <= e /\ e <= Len(l)
    /\ ph = "away" => AwayOK(l, dr, t, s, e, mb)
    /\ ph = "pending" => PendingOK(l, dr, t, s, e, mb)
    /\ ph \in {"consume", "read"} => PassingOK(l, dr, s, e, mb)
    /\ ph = "consume" => t < s /\ LagOK(l, t, s, e)
    /\ ph = "read" => t = s \/ Between(l, s, e) > Room - Watermark \div 2

-----------------------------------------------------------------------------
(* Sizes and offsets. *)

\* The sizes are positive numbers.
LEMMA Sizes ==
    /\ SampleSize \in Nat \ {0} /\ LostSize \in Nat \ {0} /\ Watermark \in Nat /\ Room \in Int
    /\ Size("SAMPLE") = SampleSize /\ Size("LOST") = LostSize
    /\ Watermark \div 2 \in Nat /\ Watermark \div 2 <= Watermark
<1>1. SampleSize \in Nat \ {0} /\ LostSize \in Nat \ {0} /\ Watermark \in Nat /\ RingSize \in Nat
    BY OrderAssumption DEF OrderAssumption
<1>2. Size("SAMPLE") = SampleSize /\ Size("LOST") = LostSize
    BY SMT DEF Size
<1> QED
    BY <1>1, <1>2, SMT DEF Room

\* Offsets grow with the positions: a record takes its size.
LEMMA Offsets ==
    ASSUME NEW l \in Seq(Records), LogOK(l), NEW i \in 0 .. Len(l), NEW j \in 0 .. Len(l), i <= j
    PROVE  /\ OffIn(l, i) \in Nat /\ OffIn(l, j) \in Nat
           /\ OffIn(l, i) <= OffIn(l, j)
           /\ j = i + 1 => OffIn(l, j) = OffIn(l, i) + Size(l[j].type)
<1>1. ASSUME NEW k \in 0 .. Len(l) PROVE OffIn(l, k) \in Nat
    <2>1. CASE k = 0
        BY <2>1, SMT DEF OffIn
    <2>2. CASE k # 0
        <3>1. l[k] \in Records
            BY <2>2, SMT
        <3>2. l[k].off \in Nat
            BY <3>1, SMT DEF Records
        <3> QED
            BY <2>2, <3>2, SMT DEF OffIn
    <2> QED
        BY <2>1, <2>2, SMT
<1>2. OffIn(l, i) <= OffIn(l, j)
    BY DEF LogOK
<1>3. ASSUME j = i + 1 PROVE OffIn(l, j) = OffIn(l, i) + Size(l[j].type)
    <2>1. j \in 1 .. Len(l) /\ j - 1 = i /\ j # 0
        BY <1>3, SMT
    <2>2. l[j].off = OffIn(l, j - 1) + Size(l[j].type)
        BY <2>1 DEF LogOK
    <2> QED
        BY <2>1, <2>2 DEF OffIn
<1> QED
    BY <1>1, <1>2, <1>3

\* The last record of a ring is a sample.
LEMMA LastSample ==
    ASSUME NEW l \in Seq(Records), LogOK(l), NEW i \in 0 .. Len(l), i < Len(l)
    PROVE  OffIn(l, Len(l)) >= OffIn(l, i) + SampleSize
<1>1. Len(l) \in Nat /\ Len(l) \in 1 .. Len(l) /\ ~(Len(l) < Len(l)) /\ Len(l) >= 1
    BY SMT
<1>2. l[Len(l)].type = "SAMPLE"
    BY <1>1 DEF LogOK
<1>3. PICK k : k = Len(l) - 1
    OBVIOUS
<1>4. k \in 0 .. Len(l) /\ Len(l) \in 0 .. Len(l) /\ k <= Len(l) /\ Len(l) = k + 1 /\ i <= k
    BY <1>1, <1>3, SMT
<1>5. OffIn(l, Len(l)) = OffIn(l, k) + Size("SAMPLE") /\ OffIn(l, k) \in Nat
    BY <1>2, <1>4, Offsets
<1>6. OffIn(l, i) <= OffIn(l, k) /\ OffIn(l, i) \in Nat
    BY <1>4, Offsets
<1> QED
    BY <1>5, <1>6, Sizes, SMT

\* The offsets of the positions of a ring, in order.
LEMMA Marks ==
    ASSUME NEW l \in Seq(Records), LogOK(l), NEW t \in Nat, NEW s \in Nat, NEW e \in Nat,
           t <= s, s <= e, e <= Len(l)
    PROVE  /\ Len(l) \in Nat
           /\ {OffIn(l, t), OffIn(l, s), OffIn(l, e), OffIn(l, Len(l))} \subseteq Nat
           /\ OffIn(l, t) <= OffIn(l, s) /\ OffIn(l, s) <= OffIn(l, e)
           /\ OffIn(l, e) <= OffIn(l, Len(l))
           /\ e < Len(l) => OffIn(l, Len(l)) >= OffIn(l, e) + SampleSize
<1>1. /\ Len(l) \in Nat /\ t \in 0 .. Len(l) /\ s \in 0 .. Len(l) /\ e \in 0 .. Len(l)
      /\ Len(l) \in 0 .. Len(l)
    BY SMT
<1> QED
    BY <1>1, Offsets, LastSample

-----------------------------------------------------------------------------
(* What the kernel does to a ring. *)

\* A record is dropped when the ring has no room for it.
LEMMA DropKeeps ==
    ASSUME Roomy, NEW l \in Seq(Records), NEW dr \in Nat, NEW t \in Nat, NEW s \in Nat, NEW e \in Nat,
           NEW mb \in Int, NEW ph \in Phases, RingOK(l, dr, t, s, e, mb, ph),
           Room - Between(l, t, Len(l)) < SampleSize + (IF dr > 0 THEN LostSize ELSE 0)
    PROVE  RingOK(l, dr + 1, t, s, e, mb, ph)
<1>1. LogOK(l) /\ t <= s /\ s <= e /\ e <= Len(l)
    BY DEF RingOK
<1>2. CASE dr > 0
    <2>1. dr + 1 > 0 /\ dr # 0
        BY <1>2, SMT
    <2>2. ph = "away" => AwayOK(l, dr + 1, t, s, e, mb)
        BY <1>2, <2>1 DEF RingOK, AwayOK
    <2>3. ph = "pending" => PendingOK(l, dr + 1, t, s, e, mb)
        BY <1>2, <2>1 DEF RingOK, PendingOK
    <2>4. ph \in {"consume", "read"} => PassingOK(l, dr + 1, s, e, mb)
        BY <1>2, <2>1 DEF RingOK, PassingOK
    <2> QED
        BY <1>1, <2>2, <2>3, <2>4 DEF RingOK
<1>3. CASE dr = 0
    <2> DEFINE ot == OffIn(l, t)
               os == OffIn(l, s)
               oe == OffIn(l, e)
               oh == OffIn(l, Len(l))
               w == Watermark
               half == Watermark \div 2
    <2>1. /\ Len(l) \in Nat /\ ot \in Nat /\ os \in Nat /\ oe \in Nat /\ oh \in Nat
          /\ ot <= os /\ os <= oe /\ oe <= oh
          /\ e < Len(l) => oh >= oe + SampleSize
        BY <1>1, Marks
    <2>2. /\ w >= 2 * SampleSize + LostSize /\ w - half >= LostSize /\ Room >= w + SampleSize
          /\ SampleSize \in Nat \ {0} /\ LostSize \in Nat \ {0} /\ w \in Nat /\ Room \in Int
          /\ half \in Nat /\ half <= w
        BY Sizes DEF Roomy
    <2>3. e = Len(l) => oe = oh
        OBVIOUS
    <2>4. t = s => ot = os
        OBVIOUS
    <2>5. Room - (oh - ot) < SampleSize
        BY <1>3, <2>1, <2>2, SMT DEF Between
    <2>6. Between(l, s, Len(l)) = oh - os /\ Between(l, s, e) = oe - os /\ Between(l, t, s) = os - ot
        BY DEF Between
    <2>7. s = Len(l) => os = oh
        OBVIOUS
    <2> HIDE DEF ot, os, oe, oh, w, half
    <2>8. ph = "away" => AwayOK(l, dr + 1, t, s, e, mb)
        <3> SUFFICES ASSUME ph = "away" PROVE AwayOK(l, dr + 1, t, s, e, mb)
            OBVIOUS
        <3>1. t = s /\ (s < Len(l) => l[s + 1].type = "SAMPLE")
            BY DEF RingOK, AwayOK
        <3>2. s # Len(l)
            BY <2>1, <2>2, <2>4, <2>5, <2>7, <3>1, SMT
        <3>3. Between(l, s, Len(l)) > Room - Watermark
            BY <2>1, <2>2, <2>4, <2>5, <2>6, <3>1, SMT DEF w
        <3> QED
            BY <3>1, <3>2, <3>3 DEF AwayOK
    <2>9. ph = "pending" => PendingOK(l, dr + 1, t, s, e, mb)
        <3> SUFFICES ASSUME ph = "pending" PROVE PendingOK(l, dr + 1, t, s, e, mb)
            OBVIOUS
        <3>1. s >= 1 /\ l[s].type = "SAMPLE" /\ t < s /\ LagOK(l, t, s, e)
            BY DEF RingOK, PendingOK
        <3>2. os - ot = SampleSize \/ oe - os > Room - half - SampleSize
            BY <2>6, <3>1, Sizes DEF LagOK, half
        <3>3. \/ e = Len(l) /\ oh - os > Room - w - SampleSize
              \/ oh - os > Room - w + LostSize
            BY <1>1, <2>1, <2>2, <2>3, <2>5, <3>2, SMT
        <3> QED
            BY <2>6, <3>1, <3>3 DEF PendingOK, w
    <2>10. ASSUME ph \in {"consume", "read"} PROVE PassingOK(l, dr + 1, s, e, mb)
        <3>1. PassingOK(l, dr, s, e, mb) /\ s >= 1
            BY <2>10 DEF RingOK, PassingOK
        <3>2. l[s].type \in {"SAMPLE", "LOST"}
            <4>1. s \in 1 .. Len(l)
                BY <1>1, <2>1, <3>1, SMT
            <4> QED
                BY <1>1, <4>1 DEF LogOK
        <3>3. \/ os - ot = Size(l[s].type) \/ oe - os > Room - half - Size(l[s].type)
              \/ os = ot \/ oe - os > Room - half
            BY <2>4, <2>6, <2>10 DEF RingOK, LagOK, half
        <3>4. ASSUME l[s].type = "SAMPLE"
              PROVE  /\ \/ s < Len(l) /\ mb = e
                        \/ mb = e - 1 /\ Room - Between(l, s, e) >= Watermark + SampleSize
                     /\ Foreseen(l, e, mb) \/ Between(l, s, Len(l)) > Room - Watermark + LostSize
            <4>1. \/ s < Len(l) /\ mb = e
                  \/ mb = e - 1 /\ Room - (oe - os) >= w + SampleSize
                BY <2>6, <3>1, <3>4 DEF PassingOK, w
            <4>2. Size(l[s].type) = SampleSize
                BY <3>4, Sizes
            <4>3. (e = Len(l) /\ mb = e) \/ oh - os > Room - w + LostSize
                BY <1>1, <2>1, <2>2, <2>3, <2>5, <3>3, <4>1, <4>2, SMT
            <4> QED
                BY <2>6, <4>1, <4>3 DEF w, Foreseen
        <3>5. ASSUME l[s].type = "LOST" PROVE Between(l, s, Len(l)) > Room - Watermark
            <4>1. Size(l[s].type) = LostSize
                BY <3>5, Sizes
            <4>2. oh - os > Room - w
                BY <2>1, <2>2, <2>5, <3>3, <4>1, SMT
            <4> QED
                BY <2>6, <4>2 DEF w
        <3> QED
            BY <3>1, <3>4, <3>5 DEF PassingOK
    <2> QED
        BY <1>1, <2>8, <2>9, <2>10 DEF RingOK
<1> QED
    BY <1>2, <1>3, SMT

\* What was in a ring stays where it is when something is appended.
LEMMA Grown ==
    ASSUME NEW l \in Seq(Records), NEW k \in Seq(Records), Len(k) >= Len(l),
           \A p \in 1 .. Len(l) : k[p] = l[p], NEW i \in 0 .. Len(l)
    PROVE  OffIn(k, i) = OffIn(l, i) /\ (i >= 1 => k[i] = l[i])
<1>1. i >= 1 => i \in 1 .. Len(l)
    BY SMT
<1>2. i >= 1 \/ i = 0
    BY SMT
<1> QED
    BY <1>1, <1>2 DEF OffIn

\* A sample is appended.
LEMMA SampleAppended ==
    ASSUME NEW l \in Seq(Records), LogOK(l), NEW k \in Seq(Records), Len(k) = Len(l) + 1,
           \A p \in 1 .. Len(l) : k[p] = l[p], k[Len(k)].type = "SAMPLE",
           k[Len(k)].off = OffIn(l, Len(l)) + SampleSize
    PROVE  LogOK(k)
<1>1. Len(l) \in Nat /\ Len(k) \in Nat /\ Len(k) - 1 = Len(l)
    BY SMT
<1>2. ASSUME NEW i \in 0 .. Len(l) PROVE OffIn(k, i) = OffIn(l, i) /\ (i >= 1 => k[i] = l[i])
    <2>1. Len(k) >= Len(l)
        BY <1>1, SMT
    <2> QED
        BY <1>2, <2>1, Grown
<1>3. ASSUME NEW p \in 1 .. Len(k)
      PROVE  /\ k[p].type \in {"SAMPLE", "LOST"}
             /\ k[p].off = OffIn(k, p - 1) + Size(k[p].type)
             /\ k[p].type = "LOST" => p < Len(k) /\ k[p + 1].type = "SAMPLE" /\ k[p].time > 0
    <2>1. CASE p = Len(k)
        <3>1. OffIn(k, p - 1) = OffIn(l, Len(l))
            BY <1>1, <1>2, <2>1, SMT
        <3> QED
            BY <2>1, <3>1, Sizes
    <2>2. CASE p # Len(k)
        <3>1. p \in 1 .. Len(l) /\ p - 1 \in 0 .. Len(l) /\ p < Len(k)
            BY <1>1, <2>2, SMT
        <3>2. k[p] = l[p] /\ OffIn(k, p - 1) = OffIn(l, p - 1)
            BY <1>2, <3>1
        <3>3. p < Len(l) => p + 1 \in 1 .. Len(l)
            BY <1>1, <3>1, SMT
        <3>4. p < Len(l) => k[p + 1] = l[p + 1]
            BY <3>3
        <3>5. /\ l[p].type \in {"SAMPLE", "LOST"}
              /\ l[p].off = OffIn(l, p - 1) + Size(l[p].type)
              /\ l[p].type = "LOST" => p < Len(l) /\ l[p + 1].type = "SAMPLE" /\ l[p].time > 0
            BY <3>1 DEF LogOK
        <3> QED
            BY <3>1, <3>2, <3>4, <3>5
    <2> QED
        BY <2>1, <2>2
<1>4. ASSUME NEW p \in 0 .. Len(k), NEW q \in 0 .. Len(k), p <= q PROVE OffIn(k, p) <= OffIn(k, q)
    <2>1. OffIn(k, Len(k)) = OffIn(l, Len(l)) + SampleSize
        BY <1>1, SMT DEF OffIn
    <2>2. CASE q # Len(k)
        <3>1. p \in 0 .. Len(l) /\ q \in 0 .. Len(l)
            BY <1>1, <1>4, <2>2, SMT
        <3> QED
            BY <1>2, <1>4, <3>1 DEF LogOK
    <2>3. CASE q = Len(k) /\ p # Len(k)
        <3>1. p \in 0 .. Len(l) /\ Len(l) \in 0 .. Len(l) /\ p <= Len(l)
            BY <1>1, <2>3, SMT
        <3>2. OffIn(l, p) <= OffIn(l, Len(l)) /\ OffIn(l, p) \in Nat /\ OffIn(l, Len(l)) \in Nat
            BY <3>1, Offsets
        <3>3. OffIn(k, p) = OffIn(l, p)
            BY <1>2, <3>1
        <3> QED
            BY <2>1, <2>3, <3>2, <3>3, Sizes, SMT
    <2>4. CASE q = Len(k) /\ p = Len(k)
        <3>1. OffIn(l, Len(l)) \in Nat
            <4>1. Len(l) \in 0 .. Len(l) /\ Len(l) <= Len(l)
                BY <1>1, SMT
            <4> QED
                BY <4>1, Offsets
        <3> QED
            BY <2>1, <2>4, <3>1, Sizes, SMT
    <2> QED
        BY <2>2, <2>3, <2>4
<1> QED
    BY <1>3, <1>4 DEF LogOK

\* What __perf_output_begin() writes is a record.
LEMMA RecordTypes ==
    ASSUME NEW type \in {"SAMPLE", "LOST"}, NEW x \in Nat, NEW b \in Nat
    PROVE  Record(type, x, b) \in Records /\ b + LostSize \in Nat
BY Sizes, SMT DEF Record, Records

\* Two records are appended.
LEMMA TwoAppended ==
    ASSUME NEW l \in Seq(Records), NEW a \in Records, NEW b \in Records, NEW k, k = l \o <<a, b>>
    PROVE  /\ k \in Seq(Records) /\ Len(k) = Len(l) + 2 /\ \A p \in 1 .. Len(l) : k[p] = l[p]
           /\ k[Len(l) + 1] = a /\ k[Len(k)] = b
<1>1. <<a, b>> \in Seq(Records) /\ Len(<<a, b>>) = 2
    BY SMT
<1>2. k \in Seq(Records) /\ Len(k) = Len(l) + 2 /\ \A p \in 1 .. Len(l) : k[p] = l[p]
    BY <1>1, SMT
<1>3. k[Len(l) + 1] = a
    BY <1>1, SMT
<1>4. k[Len(l) + 2] = b
    BY <1>1, SMT
<1> QED
    BY <1>2, <1>3, <1>4

\* A LOST record and a sample are appended.
LEMMA LossAppended ==
    ASSUME NEW l \in Seq(Records), LogOK(l), NEW k \in Seq(Records), Len(k) = Len(l) + 2,
           \A p \in 1 .. Len(l) : k[p] = l[p],
           k[Len(l) + 1].type = "LOST", k[Len(l) + 1].time > 0,
           k[Len(l) + 1].off = OffIn(l, Len(l)) + LostSize,
           k[Len(k)].type = "SAMPLE", k[Len(k)].off = OffIn(l, Len(l)) + LostSize + SampleSize
    PROVE  LogOK(k)
<1> DEFINE n == Len(l)
<1>1. n \in Nat /\ Len(k) = n + 2
    BY SMT
<1>2. ASSUME NEW i \in 0 .. n PROVE OffIn(k, i) = OffIn(l, i) /\ (i >= 1 => k[i] = l[i])
    <2>1. Len(k) >= Len(l)
        BY <1>1, SMT
    <2> QED
        BY <1>2, <2>1, Grown
<1>3. /\ OffIn(k, n + 1) = OffIn(l, n) + LostSize
      /\ OffIn(k, n + 2) = OffIn(l, n) + LostSize + SampleSize
    BY <1>1, SMT DEF OffIn
<1>4. OffIn(l, n) \in Nat /\ OffIn(k, n) = OffIn(l, n)
    <2>1. n \in 0 .. n /\ n <= n
        BY <1>1, SMT
    <2> QED
        BY <1>2, <2>1, Offsets
<1>5. ASSUME NEW p \in 1 .. Len(k)
      PROVE  /\ k[p].type \in {"SAMPLE", "LOST"}
             /\ k[p].off = OffIn(k, p - 1) + Size(k[p].type)
             /\ k[p].type = "LOST" => p < Len(k) /\ k[p + 1].type = "SAMPLE" /\ k[p].time > 0
    <2>1. CASE p = n + 2
        <3>1. p - 1 = n + 1 /\ p = Len(k)
            BY <1>1, <2>1, SMT
        <3>2. k[p].off = OffIn(k, p - 1) + SampleSize
            BY <1>3, <1>4, <2>1, <3>1, Sizes, SMT
        <3> QED
            BY <3>1, <3>2, Sizes
    <2>2. CASE p = n + 1
        <3>1. p - 1 = n /\ p + 1 = Len(k) /\ p < Len(k)
            BY <1>1, <2>2, SMT
        <3> QED
            BY <1>4, <2>2, <3>1, Sizes
    <2>3. CASE p # n + 1 /\ p # n + 2
        <3>1. p \in 1 .. n /\ p - 1 \in 0 .. n /\ p < Len(k)
            BY <1>1, <2>3, SMT
        <3>2. k[p] = l[p] /\ OffIn(k, p - 1) = OffIn(l, p - 1)
            BY <1>2, <3>1
        <3>3. p < n => p + 1 \in 1 .. n
            BY <1>1, <3>1, SMT
        <3>4. p < n => k[p + 1] = l[p + 1]
            BY <3>3
        <3>5. /\ l[p].type \in {"SAMPLE", "LOST"}
              /\ l[p].off = OffIn(l, p - 1) + Size(l[p].type)
              /\ l[p].type = "LOST" => p < n /\ l[p + 1].type = "SAMPLE" /\ l[p].time > 0
            BY <3>1 DEF LogOK
        <3> QED
            BY <3>1, <3>2, <3>4, <3>5
    <2> QED
        BY <2>1, <2>2, <2>3
<1>6. ASSUME NEW p \in 0 .. Len(k), NEW q \in 0 .. Len(k), p <= q PROVE OffIn(k, p) <= OffIn(k, q)
    <2>1. CASE q \in 0 .. n
        <3>1. p \in 0 .. n
            BY <1>1, <1>6, <2>1, SMT
        <3> QED
            BY <1>2, <1>6, <2>1, <3>1 DEF LogOK
    <2>2. CASE p \in 0 .. n /\ q \notin 0 .. n
        <3>1. q \in {n + 1, n + 2} /\ n \in 0 .. n /\ p <= n
            BY <1>1, <2>2, SMT
        <3>2. OffIn(l, p) <= OffIn(l, n) /\ OffIn(l, p) \in Nat /\ OffIn(k, p) = OffIn(l, p)
            BY <1>2, <2>2, <3>1, Offsets
        <3> QED
            BY <1>3, <1>4, <3>1, <3>2, Sizes, SMT
    <2>3. CASE p \notin 0 .. n /\ q \notin 0 .. n
        <3>1. {p, q} \subseteq {n + 1, n + 2}
            BY <1>1, <2>3, SMT
        <3> QED
            BY <1>1, <1>3, <1>4, <1>6, <3>1, Sizes, SMT
    <2> QED
        BY <1>1, <1>6, <2>1, <2>2, <2>3, SMT
<1> QED
    BY <1>5, <1>6 DEF LogOK

\* Something is appended, in front of which nothing is lost any more.
LEMMA WriteKeeps ==
    ASSUME NEW l \in Seq(Records), NEW dr \in Nat, NEW t \in Nat, NEW s \in Nat, NEW e \in Nat,
           NEW mb \in Int, NEW ph \in Phases, RingOK(l, dr, t, s, e, mb, ph),
           NEW k \in Seq(Records), LogOK(k), Len(k) > Len(l),
           \A p \in 1 .. Len(l) : k[p] = l[p],
           dr = 0 => k[Len(l) + 1].type = "SAMPLE"
    PROVE  RingOK(k, 0, t, s, e, mb, ph)
<1>1. t <= s /\ s <= e /\ e <= Len(l)
    BY DEF RingOK
<1>2. /\ Len(l) \in Nat /\ Len(k) \in Nat /\ Len(k) >= Len(l) /\ e <= Len(k)
      /\ t \in 0 .. Len(l) /\ s \in 0 .. Len(l) /\ e \in 0 .. Len(l)
      /\ (s < Len(l) \/ s = Len(l)) /\ s < Len(k)
    BY <1>1, SMT
<1>3. /\ Between(k, t, s) = Between(l, t, s) /\ Between(k, s, e) = Between(l, s, e)
      /\ s >= 1 => k[s] = l[s]
    BY <1>2, Grown DEF Between
<1>4. ~(0 > 0)
    BY SMT
<1>5. ASSUME ph = "away" PROVE AwayOK(k, 0, t, s, e, mb)
    <2>1. AwayOK(l, dr, t, s, e, mb)
        BY <1>5 DEF RingOK
    <2>2. s < Len(l) => s + 1 \in 1 .. Len(l)
        BY <1>2, SMT
    <2>3. s < Len(l) => k[s + 1].type = "SAMPLE"
        BY <2>1, <2>2 DEF AwayOK
    <2> QED
        BY <1>2, <1>4, <2>1, <2>3 DEF AwayOK
<1>6. ASSUME ph = "pending" PROVE PendingOK(k, 0, t, s, e, mb)
    BY <1>3, <1>4, <1>6 DEF RingOK, PendingOK, LagOK
<1>7. ASSUME ph \in {"consume", "read"} PROVE PassingOK(k, 0, s, e, mb)
    BY <1>2, <1>3, <1>4, <1>7 DEF RingOK, PassingOK
<1>8. ASSUME ph = "consume" PROVE t < s /\ LagOK(k, t, s, e)
    BY <1>3, <1>8 DEF RingOK, LagOK, PassingOK
<1>9. ASSUME ph = "read" PROVE t = s \/ Between(k, s, e) > Room - Watermark \div 2
    BY <1>3, <1>9 DEF RingOK
<1> QED
    BY <1>1, <1>2, <1>5, <1>6, <1>7, <1>8, <1>9 DEF RingOK

-----------------------------------------------------------------------------
(* What order_process() does to a ring. *)

\* perf_mmap__read_init() of a ring, or a read that finds nothing.
LEMMA AwayInit ==
    ASSUME NEW l \in Seq(Records), NEW dr \in Nat, NEW t \in Nat, NEW s \in Nat, NEW e \in Nat,
           NEW mb \in Int, RingOK(l, dr, t, s, e, mb, "away")
    PROVE  RingOK(l, dr, t, s, Len(l), mb, "away")
<1>1. LogOK(l) /\ t <= s /\ s <= e /\ e <= Len(l) /\ AwayOK(l, dr, t, s, e, mb)
    BY DEF RingOK
<1>2. s <= Len(l) /\ Len(l) <= Len(l)
    BY <1>1, SMT
<1>3. AwayOK(l, dr, t, s, Len(l), mb)
    BY <1>1 DEF AwayOK, Foreseen
<1> QED
    BY <1>1, <1>2, <1>3 DEF RingOK

\* The first event of a ring in a call is a sample, which enters the heap.
LEMMA AwayRead ==
    ASSUME Roomy, NEW l \in Seq(Records), NEW dr \in Nat, NEW t \in Nat, NEW s \in Nat, NEW e \in Nat,
           NEW mb \in Int, RingOK(l, dr, t, s, e, mb, "away"), s < Len(l)
    PROVE  l[s + 1].type = "SAMPLE" /\ RingOK(l, dr, t, s + 1, Len(l), mb, "pending")
<1>1. /\ LogOK(l) /\ t <= s /\ s <= e /\ e <= Len(l) /\ AwayOK(l, dr, t, s, e, mb) /\ t = s
      /\ l[s + 1].type = "SAMPLE"
    BY DEF RingOK, AwayOK
<1>2. PICK u : u = s + 1
    OBVIOUS
<1>3. /\ Len(l) \in Nat /\ s \in 0 .. Len(l) /\ u \in 0 .. Len(l) /\ Len(l) \in 0 .. Len(l)
      /\ s <= u /\ u <= Len(l) /\ t <= u /\ u >= 1 /\ t < u /\ Len(l) <= Len(l)
    BY <1>1, <1>2, SMT
<1>4. OffIn(l, u) = OffIn(l, s) + SampleSize /\ OffIn(l, s) \in Nat
    BY <1>1, <1>2, <1>3, Offsets, Sizes
<1>5. OffIn(l, Len(l)) \in Nat
    BY <1>1, <1>3, Offsets
<1>6. LagOK(l, t, u, Len(l))
    <2>1. Between(l, t, u) = SampleSize
        BY <1>1, <1>4, Sizes, SMT DEF Between
    <2> QED
        BY <1>1, <1>2, <2>1, Sizes DEF LagOK
<1>7. ASSUME dr > 0
      PROVE  \/ Foreseen(l, Len(l), mb)
             \/ Between(l, u, Len(l)) > Room - Watermark - SampleSize
    <2>1. CASE Foreseen(l, e, mb)
        BY <2>1 DEF Foreseen
    <2>2. CASE Between(l, s, Len(l)) > Room - Watermark
        BY <1>4, <1>5, <2>2, Sizes, SMT DEF Between
    <2> QED
        BY <1>1, <1>7, <2>1, <2>2 DEF AwayOK
<1>8. PendingOK(l, dr, t, u, Len(l), mb)
    BY <1>1, <1>2, <1>3, <1>6, <1>7 DEF PendingOK
<1> QED
    BY <1>1, <1>2, <1>3, <1>8 DEF RingOK

\* The prediction, and perf_event_process_record().
LEMMA ProcessKeeps ==
    ASSUME Roomy, NEW l \in Seq(Records), NEW dr \in Nat, NEW t \in Nat, NEW s \in Nat, NEW e \in Nat,
           NEW mb \in Int, NEW nb \in Int, RingOK(l, dr, t, s, e, mb, "pending"),
           \/ /\ e # mb
              /\ nb = IF ~(Room - Between(l, s, e) >= Watermark + SampleSize) THEN e ELSE e - 1
           \/ e = mb /\ s # Len(l) /\ nb = mb
    PROVE  RingOK(l, dr, t, s, e, nb, "consume")
<1>1. LogOK(l) /\ t <= s /\ s <= e /\ e <= Len(l) /\ PendingOK(l, dr, t, s, e, mb)
    BY DEF RingOK
<1>2. s >= 1 /\ l[s].type = "SAMPLE" /\ t < s /\ LagOK(l, t, s, e)
    BY <1>1 DEF PendingOK
<1> DEFINE os == OffIn(l, s)
           oe == OffIn(l, e)
           oh == OffIn(l, Len(l))
           w == Watermark
<1>3. /\ Len(l) \in Nat /\ os \in Nat /\ oe \in Nat /\ oh \in Nat
      /\ os <= oe /\ oe <= oh /\ (e < Len(l) => oh >= oe + SampleSize)
    BY <1>1, Marks
<1>4. /\ w >= 2 * SampleSize + LostSize /\ Room >= w + SampleSize
      /\ SampleSize \in Nat \ {0} /\ LostSize \in Nat \ {0} /\ w \in Nat /\ Room \in Int
    BY Sizes DEF Roomy
<1>5. (e = Len(l) => oe = oh) /\ (s = Len(l) => os = oh)
    OBVIOUS
<1>6. Between(l, s, Len(l)) = oh - os /\ Between(l, s, e) = oe - os
    BY DEF Between
<1>7. \/ /\ e # mb /\ nb = e /\ Room - (oe - os) < w + SampleSize
      \/ /\ e # mb /\ nb = e - 1 /\ Room - (oe - os) >= w + SampleSize
      \/ e = mb /\ s # Len(l) /\ nb = mb
    BY <1>3, <1>4, <1>6, SMT DEF w
<1>8. dr > 0 => \/ mb = Len(l) /\ e = Len(l)
                \/ e = Len(l) /\ oh - os > Room - w - SampleSize
                \/ oh - os > Room - w + LostSize
    BY <1>1, <1>6 DEF PendingOK, Foreseen, w
<1> HIDE DEF os, oe, oh, w
<1>9. \/ s < Len(l) /\ nb = e
      \/ nb = e - 1 /\ Room - (oe - os) >= w + SampleSize
    BY <1>1, <1>3, <1>4, <1>5, <1>7, SMT
<1>10. dr > 0 => (nb = Len(l) /\ e = Len(l)) \/ oh - os > Room - w + LostSize
    BY <1>3, <1>4, <1>5, <1>7, <1>8, SMT
<1>11. PassingOK(l, dr, s, e, nb)
    BY <1>2, <1>6, <1>9, <1>10 DEF PassingOK, Foreseen, w
<1> QED
    BY <1>1, <1>2, <1>11 DEF RingOK

\* consume: the tail follows, unless the ring is crowded.
LEMMA ConsumeKeeps ==
    ASSUME Roomy, NEW l \in Seq(Records), NEW dr \in Nat, NEW t \in Nat, NEW s \in Nat, NEW e \in Nat,
           NEW mb \in Int, NEW u \in Nat, RingOK(l, dr, t, s, e, mb, "consume"),
           u = s \/ (u = t /\ ~(Room - Between(l, s, e) >= Watermark \div 2))
    PROVE  RingOK(l, dr, u, s, e, mb, "read")
<1>1. LogOK(l) /\ t <= s /\ s <= e /\ e <= Len(l) /\ PassingOK(l, dr, s, e, mb)
    BY DEF RingOK
<1>2. u <= s
    BY <1>1, SMT
<1>3. u = s \/ Between(l, s, e) > Room - Watermark \div 2
    <2>1. OffIn(l, s) \in Nat /\ OffIn(l, e) \in Nat
        BY <1>1, Marks
    <2>2. Between(l, s, e) \in Int
        BY <2>1, SMT DEF Between
    <2> QED
        BY <2>2, Sizes, SMT
<1> QED
    BY <1>1, <1>2, <1>3 DEF RingOK

\* The next record after the consume: a sample stays in the heap, a LOST record goes back
\* to the consume.
LEMMA ReadKeepsRing ==
    ASSUME Roomy, NEW l \in Seq(Records), NEW dr \in Nat, NEW t \in Nat, NEW s \in Nat, NEW e \in Nat,
           NEW mb \in Int, RingOK(l, dr, t, s, e, mb, "read"), s < Len(l)
    PROVE  /\ l[s + 1].type \in {"SAMPLE", "LOST"}
           /\ l[s + 1].type = "SAMPLE" => RingOK(l, dr, t, s + 1, Len(l), mb, "pending")
           /\ l[s + 1].type = "LOST" => RingOK(l, dr, t, s + 1, Len(l), mb, "consume")
<1>1. LogOK(l) /\ t <= s /\ s <= e /\ e <= Len(l) /\ PassingOK(l, dr, s, e, mb) /\ s >= 1
    BY DEF RingOK, PassingOK
<1>2. PICK u : u = s + 1
    OBVIOUS
<1>3. /\ Len(l) \in Nat /\ s \in 0 .. Len(l) /\ u \in 0 .. Len(l) /\ Len(l) \in 0 .. Len(l)
      /\ s <= u /\ u <= Len(l) /\ t <= u /\ u >= 1 /\ t < u /\ Len(l) <= Len(l)
      /\ u \in 1 .. Len(l) /\ s \in 1 .. Len(l)
    BY <1>1, <1>2, SMT
<1>4. l[u].type \in {"SAMPLE", "LOST"} /\ l[s].type \in {"SAMPLE", "LOST"}
    BY <1>1, <1>3 DEF LogOK
<1> DEFINE ot == OffIn(l, t)
           os == OffIn(l, s)
           ou == OffIn(l, u)
           oe == OffIn(l, e)
           oh == OffIn(l, Len(l))
           w == Watermark
           half == Watermark \div 2
           z == Size(l[u].type)
<1>5. /\ ot \in Nat /\ os \in Nat /\ oe \in Nat /\ oh \in Nat
      /\ ot <= os /\ os <= oe /\ oe <= oh /\ (t = s => ot = os) /\ (e = Len(l) => oe = oh)
    BY <1>1, Marks
<1>6. ou = os + z
    BY <1>1, <1>2, <1>3, Offsets
<1>7. /\ w >= 2 * SampleSize + LostSize /\ w - half >= LostSize /\ Room >= w + SampleSize
      /\ SampleSize \in Nat \ {0} /\ LostSize \in Nat \ {0} /\ w \in Nat /\ Room \in Int
      /\ half \in Nat /\ half <= w
    BY Sizes DEF Roomy
<1>8. (l[u].type = "SAMPLE" => z = SampleSize) /\ (l[u].type = "LOST" => z = LostSize)
    BY Sizes
<1>9. t = s \/ oe - os > Room - half
    BY DEF RingOK, Between
<1>10. /\ l[s].type = "SAMPLE" /\ dr > 0 =>
            (mb = Len(l) /\ e = Len(l)) \/ oh - os > Room - w + LostSize
       /\ l[s].type = "LOST" /\ dr > 0 => (mb = Len(l) /\ e = Len(l)) \/ oh - os > Room - w
    BY <1>1 DEF PassingOK, Foreseen, Between
<1>11. l[s].type = "LOST" => l[u].type = "SAMPLE"
    BY <1>1, <1>2, <1>3 DEF LogOK
<1>12. Between(l, u, Len(l)) = oh - ou /\ Between(l, t, u) = ou - ot
    BY DEF Between
<1>13. z \in Nat
    BY <1>4, <1>7, <1>8
<1> HIDE DEF ot, os, ou, oe, oh, w, half, z
<1>14. LagOK(l, t, u, Len(l))
    <2>1. ou - ot = z \/ oh - ou > Room - half - z
        BY <1>5, <1>6, <1>7, <1>9, <1>13, SMT
    <2> QED
        BY <1>12, <2>1 DEF LagOK, z, half
<1>15. ASSUME l[u].type = "SAMPLE" PROVE PendingOK(l, dr, t, u, Len(l), mb)
    <2>1. dr > 0 => (mb = Len(l) /\ e = Len(l)) \/ oh - ou > Room - w - SampleSize
        BY <1>4, <1>5, <1>6, <1>7, <1>8, <1>10, <1>15, SMT
    <2> QED
        BY <1>3, <1>12, <1>14, <1>15, <2>1 DEF PendingOK, Foreseen, w
<1>16. ASSUME l[u].type = "LOST" PROVE PassingOK(l, dr, u, Len(l), mb)
    <2>1. l[s].type = "SAMPLE" /\ l[u].type # "SAMPLE"
        BY <1>4, <1>11, <1>16
    <2>2. dr > 0 => (mb = Len(l) /\ e = Len(l)) \/ oh - ou > Room - w
        <3>1. z = LostSize /\ (dr > 0 => (mb = Len(l) /\ e = Len(l)) \/ oh - os > Room - w + LostSize)
            BY <1>8, <1>10, <1>16, <2>1
        <3> QED
            BY <1>5, <1>6, <1>7, <3>1, SMT
    <2> QED
        BY <1>3, <1>12, <2>1, <2>2 DEF PassingOK, Foreseen, w
<1> QED
    BY <1>1, <1>2, <1>3, <1>4, <1>14, <1>15, <1>16 DEF RingOK

\* The ring is empty after the consume: nothing was lost, and it leaves the heap.
LEMMA ReadEmpties ==
    ASSUME Roomy, NEW l \in Seq(Records), NEW dr \in Nat, NEW t \in Nat, NEW s \in Nat, NEW e \in Nat,
           NEW mb \in Int, RingOK(l, dr, t, s, e, mb, "read"), s = Len(l)
    PROVE  RingOK(l, dr, t, s, Len(l), mb, "away")
<1>1. LogOK(l) /\ t <= s /\ s <= e /\ e <= Len(l) /\ PassingOK(l, dr, s, e, mb) /\ s >= 1
    BY DEF RingOK, PassingOK
<1>2. /\ Len(l) \in Nat /\ e = Len(l) /\ s \in 1 .. Len(l) /\ ~(s < Len(l)) /\ Len(l) <= Len(l)
      /\ e - 1 # e
    BY <1>1, SMT
<1>3. l[s].type = "SAMPLE"
    BY <1>1, <1>2 DEF LogOK
<1>4. OffIn(l, s) \in Nat /\ Between(l, s, e) = OffIn(l, s) - OffIn(l, s)
      /\ Between(l, s, Len(l)) = OffIn(l, s) - OffIn(l, s)
    BY <1>1, <1>2, Marks DEF Between
<1>5. Between(l, s, e) = 0 /\ Between(l, s, Len(l)) = 0
    BY <1>4, SMT
<1>6. ~(0 > Room - Watermark \div 2) /\ ~(0 > Room - Watermark + LostSize)
    BY Sizes, SMT DEF Roomy
<1>7. t = s
    BY <1>5, <1>6 DEF RingOK
<1>8. mb # e
    BY <1>1, <1>2, <1>3 DEF PassingOK
<1>9. ~(dr > 0)
    BY <1>1, <1>2, <1>3, <1>5, <1>6, <1>8 DEF PassingOK, Foreseen
<1>10. dr = 0
    BY <1>9, SMT
<1>11. AwayOK(l, dr, t, s, Len(l), mb)
    BY <1>2, <1>7, <1>9, <1>10 DEF AwayOK
<1> QED
    BY <1>1, <1>2, <1>11 DEF RingOK

\* perf_mmap__unread_event() at the end of a call.
LEMMA PutBackKeeps ==
    ASSUME Roomy, NEW l \in Seq(Records), NEW dr \in Nat, NEW t \in Nat, NEW s \in Nat, NEW e \in Nat,
           NEW mb \in Int, RingOK(l, dr, t, s, e, mb, "pending")
    PROVE  RingOK(l, dr, s - 1, s - 1, e, mb, "away")
<1>1. LogOK(l) /\ t <= s /\ s <= e /\ e <= Len(l) /\ PendingOK(l, dr, t, s, e, mb)
    BY DEF RingOK
<1>2. s >= 1 /\ l[s].type = "SAMPLE"
    BY <1>1 DEF PendingOK
<1>3. PICK u : u = s - 1
    OBVIOUS
<1>4. /\ Len(l) \in Nat /\ u \in 0 .. Len(l) /\ s \in 0 .. Len(l) /\ u <= s /\ s = u + 1
      /\ u <= u /\ u <= e /\ u < Len(l) /\ u # Len(l)
    BY <1>1, <1>2, <1>3, SMT
<1>5. OffIn(l, s) = OffIn(l, u) + SampleSize /\ OffIn(l, u) \in Nat
    BY <1>1, <1>2, <1>4, Offsets, Sizes
<1>6. OffIn(l, Len(l)) \in Nat
    BY <1>1, Marks
<1>7. ASSUME dr > 0 PROVE Foreseen(l, e, mb) \/ Between(l, u, Len(l)) > Room - Watermark
    <2>1. CASE Foreseen(l, e, mb)
        BY <2>1, SMT
    <2>2. CASE \/ Between(l, s, Len(l)) > Room - Watermark - SampleSize
               \/ Between(l, s, Len(l)) > Room - Watermark + LostSize
        <3>1. PICK a, b, c \in Int : a = OffIn(l, s) /\ b = OffIn(l, u) /\ c = OffIn(l, Len(l))
            BY <1>5, <1>6, Sizes, SMT
        <3>2. a = b + SampleSize /\ (c - a > Room - Watermark - SampleSize \/ c - a > Room - Watermark + LostSize)
            BY <1>5, <2>2, <3>1 DEF Between
        <3>3. c - b > Room - Watermark
            BY <3>2, Sizes, SMT
        <3> QED
            BY <3>1, <3>3 DEF Between
    <2> QED
        BY <1>1, <1>7, <2>1, <2>2 DEF PendingOK
<1>8. AwayOK(l, dr, u, u, e, mb)
    BY <1>2, <1>4, <1>7 DEF AwayOK
<1> QED
    BY <1>1, <1>3, <1>4, <1>8 DEF RingOK

-----------------------------------------------------------------------------
(* The invariants. *)

\* Where order_process() is with ring m.
Phase(m) ==
    IF m \notin heap THEN "away"
    ELSE IF m = cur /\ pc \in {"consume", "read"} THEN pc ELSE "pending"

\* The state of ring m is one of those in which losses are foreseen.
RingState(m) ==
    RingOK(log[m], dropped[m], tail[m], start[m], end[m], maybe_lost_end[m], Phase(m))

\* Every ring is in one of these states; order_heap_init() meets no LOST record.
ForeseenInv == (\A m \in Maps : RingState(m)) /\ (pc = "initread" => lost = NoLost)

-----------------------------------------------------------------------------
(* Every step keeps the rings in these states. *)

\* The types of the parts of a ring.
LEMMA RingParts ==
    ASSUME Inv, NEW m \in Maps
    PROVE  /\ log[m] \in Seq(Records) /\ dropped[m] \in Nat /\ tail[m] \in Nat /\ start[m] \in Nat
           /\ end[m] \in Nat /\ maybe_lost_end[m] \in Int /\ Phase(m) \in Phases
<1>1. log[m] \in Seq(Records) /\ dropped[m] \in Nat
    BY DEF Inv, TypeOK, KernelTypeOK
<1>2. /\ tail \in [Maps -> Nat] /\ start \in [Maps -> Nat] /\ end \in [Maps -> Nat]
      /\ maybe_lost_end \in [Maps -> Int]
    BY DEF Inv, TypeOK, RingTypeOK
<1>3. Phase(m) \in Phases
    BY DEF Phase, Phases
<1> QED
    BY <1>1, <1>2, <1>3

\* A ring that a step leaves alone.
LEMMA RingAlone ==
    ASSUME NEW m \in Maps, RingState(m), log'[m] = log[m], dropped'[m] = dropped[m],
           tail'[m] = tail[m], start'[m] = start[m], end'[m] = end[m],
           maybe_lost_end'[m] = maybe_lost_end[m], Phase(m)' = Phase(m)
    PROVE  RingState(m)'
BY DEF RingState

\* A step that leaves every ring alone.
LEMMA RingsAlone ==
    ASSUME ForeseenInv, log' = log, dropped' = dropped, tail' = tail, start' = start, end' = end,
           maybe_lost_end' = maybe_lost_end, \A m \in Maps : Phase(m)' = Phase(m)
    PROVE  \A m \in Maps : RingState(m)'
BY RingAlone DEF ForeseenInv

\* __perf_output_begin() drops a record that finds no room, and writes one that does behind
\* the LOST record it owes.
LEMMA DropOrWrite ==
    ASSUME Inv, NEW m \in Maps, LogOK(log[m]), NEW tm \in Nat, Output(m, "SAMPLE", tm)
    PROVE  /\ \A n \in Maps \ {m} : log'[n] = log[n] /\ dropped'[n] = dropped[n]
           /\ \/ /\ Room - Between(log[m], tail[m], Len(log[m]))
                        < SampleSize + (IF dropped[m] > 0 THEN LostSize ELSE 0)
                 /\ dropped'[m] = dropped[m] + 1 /\ log'[m] = log[m]
              \/ /\ dropped'[m] = 0 /\ log'[m] \in Seq(Records) /\ LogOK(log'[m])
                 /\ Len(log'[m]) > Len(log[m]) /\ \A p \in 1 .. Len(log[m]) : log'[m][p] = log[m][p]
                 /\ dropped[m] = 0 => log'[m][Len(log[m]) + 1].type = "SAMPLE"
<1> DEFINE l == log[m]
           base == OffIn(l, Len(l))
<1>1. l \in Seq(Records) /\ dropped[m] \in Nat
    BY RingParts
<1>2. log \in [Maps -> Seq(Records)] /\ dropped \in [Maps -> Nat]
    BY DEF Inv, TypeOK, KernelTypeOK
<1>3. /\ Off(m, DataHead(m)) = base
      /\ Off(m, DataHead(m)) - Off(m, tail[m]) = Between(l, tail[m], Len(l))
    BY DEF Off, OffIn, DataHead, Between
<1>4. /\ LogOK(l) /\ Len(l) \in Nat /\ base \in Nat
    <2>1. Len(l) \in 0 .. Len(l) /\ Len(l) <= Len(l) /\ Len(l) \in Nat
        BY <1>1, SMT
    <2> QED
        BY <1>1, <2>1, Offsets
<1>5. CASE /\ Room - Between(l, tail[m], Len(l)) < SampleSize + (IF dropped[m] > 0 THEN LostSize ELSE 0)
           /\ dropped' = [dropped EXCEPT ![m] = @ + 1] /\ log' = log
    BY <1>2, <1>5
<1>6. CASE /\ dropped' = [dropped EXCEPT ![m] = 0]
           /\ log' = [log EXCEPT ![m] =
                IF dropped[m] > 0
                THEN @ \o <<Record("LOST", dropped[m], base), Record("SAMPLE", tm, base + LostSize)>>
                ELSE Append(@, Record("SAMPLE", tm, base))]
    <2>1. /\ dropped'[m] = 0
          /\ \A n \in Maps \ {m} : log'[n] = log[n] /\ dropped'[n] = dropped[n]
        BY <1>2, <1>6
    <2>2. PICK k : k = log'[m]
        OBVIOUS
    <2>3. /\ Record("LOST", dropped[m], base) \in Records
          /\ Record("SAMPLE", tm, base + LostSize) \in Records
          /\ Record("SAMPLE", tm, base) \in Records
        BY <1>1, <1>4, RecordTypes
    <2>4. /\ Record("LOST", dropped[m], base).type = "LOST"
          /\ Record("LOST", dropped[m], base).time = dropped[m]
          /\ Record("LOST", dropped[m], base).off = base + LostSize
          /\ Record("SAMPLE", tm, base + LostSize).type = "SAMPLE"
          /\ Record("SAMPLE", tm, base + LostSize).off = base + LostSize + SampleSize
          /\ Record("SAMPLE", tm, base).type = "SAMPLE"
          /\ Record("SAMPLE", tm, base).off = base + SampleSize
        BY Sizes DEF Record
    <2>5. ASSUME dropped[m] > 0
          PROVE  k \in Seq(Records) /\ Len(k) > Len(l) /\ (\A p \in 1 .. Len(l) : k[p] = l[p]) /\ LogOK(k)
        <3> DEFINE a == Record("LOST", dropped[m], base)
                   b == Record("SAMPLE", tm, base + LostSize)
        <3>1. k = l \o <<a, b>>
            BY <1>2, <1>6, <2>2, <2>5
        <3>2. /\ a.type = "LOST" /\ a.time = dropped[m] /\ a.off = base + LostSize
              /\ b.type = "SAMPLE" /\ b.off = base + LostSize + SampleSize
            BY <2>4
        <3>3. a \in Records /\ b \in Records
            BY <2>3
        <3> HIDE DEF a, b
        <3>4. /\ k \in Seq(Records) /\ Len(k) = Len(l) + 2 /\ \A p \in 1 .. Len(l) : k[p] = l[p]
              /\ k[Len(l) + 1] = a /\ k[Len(k)] = b
            BY <1>1, <3>1, <3>3, TwoAppended, SMT
        <3>5. Len(k) > Len(l)
            BY <1>4, <3>4, SMT
        <3>6. /\ k[Len(l) + 1].type = "LOST" /\ k[Len(l) + 1].time > 0
              /\ k[Len(l) + 1].off = base + LostSize
              /\ k[Len(k)].type = "SAMPLE" /\ k[Len(k)].off = base + LostSize + SampleSize
            BY <2>5, <3>2, <3>4
        <3> QED
            BY <1>1, <1>4, <3>4, <3>5, <3>6, LossAppended
    <2>6. ASSUME ~(dropped[m] > 0)
          PROVE  /\ k \in Seq(Records) /\ Len(k) > Len(l) /\ (\A p \in 1 .. Len(l) : k[p] = l[p])
                 /\ LogOK(k) /\ k[Len(l) + 1].type = "SAMPLE"
        <3>1. PICK b : b = Record("SAMPLE", tm, base)
            OBVIOUS
        <3>2. k = Append(l, b) /\ b \in Records
            BY <1>2, <1>6, <2>2, <2>3, <2>6, <3>1
        <3>3. /\ k \in Seq(Records) /\ Len(k) = Len(l) + 1 /\ \A p \in 1 .. Len(l) : k[p] = l[p]
              /\ k[Len(l) + 1] = b
            BY <1>1, <3>2, SMT
        <3>4. Len(k) > Len(l)
            BY <1>4, <3>3, SMT
        <3>5. k[Len(k)].type = "SAMPLE" /\ k[Len(k)].off = base + SampleSize
            BY <2>4, <3>1, <3>3
        <3> QED
            BY <1>1, <1>4, <3>3, <3>4, <3>5, SampleAppended
    <2>7. dropped[m] = 0 => ~(dropped[m] > 0)
        BY <1>1, SMT
    <2> QED
        BY <2>1, <2>2, <2>5, <2>6, <2>7
<1>7. Size("SAMPLE") = SampleSize
    BY Sizes
<1> QED
    BY <1>3, <1>5, <1>6, <1>7 DEF Output, Room

\* The kernel drops a record or writes it.
LEMMA OutputKeeps ==
    ASSUME Roomy, Inv, NEW m \in Maps, RingState(m), NEW tm \in Nat, Output(m, "SAMPLE", tm),
           tail'[m] = tail[m], start'[m] = start[m], end'[m] = end[m],
           maybe_lost_end'[m] = maybe_lost_end[m], Phase(m)' = Phase(m)
    PROVE  RingState(m)' /\ \A n \in Maps \ {m} : log'[n] = log[n] /\ dropped'[n] = dropped[n]
<1> DEFINE l == log[m]
<1>1. /\ l \in Seq(Records) /\ dropped[m] \in Nat /\ tail[m] \in Nat /\ start[m] \in Nat
      /\ end[m] \in Nat /\ maybe_lost_end[m] \in Int /\ Phase(m) \in Phases
    BY RingParts
<1>2. /\ RingOK(l, dropped[m], tail[m], start[m], end[m], maybe_lost_end[m], Phase(m))
      /\ LogOK(l)
    BY DEF RingState, RingOK
<1>3. ASSUME NEW k, NEW d, k = log'[m], d = dropped'[m],
             RingOK(k, d, tail[m], start[m], end[m], maybe_lost_end[m], Phase(m))
      PROVE  RingState(m)'
    BY <1>3 DEF RingState
<1>4. ASSUME Room - Between(l, tail[m], Len(l)) < SampleSize + (IF dropped[m] > 0 THEN LostSize ELSE 0),
             dropped'[m] = dropped[m] + 1, log'[m] = log[m]
      PROVE  RingState(m)'
    <2>1. RingOK(l, dropped[m] + 1, tail[m], start[m], end[m], maybe_lost_end[m], Phase(m))
        BY <1>1, <1>2, <1>4, DropKeeps
    <2> QED
        BY <1>3, <1>4, <2>1
<1>5. ASSUME dropped'[m] = 0, log'[m] \in Seq(Records), LogOK(log'[m]),
             Len(log'[m]) > Len(l), \A p \in 1 .. Len(l) : log'[m][p] = l[p],
             dropped[m] = 0 => log'[m][Len(l) + 1].type = "SAMPLE"
      PROVE  RingState(m)'
    <2>1. PICK k : k = log'[m]
        OBVIOUS
    <2>2. /\ k \in Seq(Records) /\ LogOK(k) /\ Len(k) > Len(l) /\ \A p \in 1 .. Len(l) : k[p] = l[p]
          /\ dropped[m] = 0 => k[Len(l) + 1].type = "SAMPLE"
        BY <1>5, <2>1
    <2>3. RingOK(k, 0, tail[m], start[m], end[m], maybe_lost_end[m], Phase(m))
        BY <1>1, <1>2, <2>2, WriteKeeps
    <2> QED
        BY <1>3, <1>5, <2>1, <2>3
<1> QED
    BY <1>2, <1>4, <1>5, DropOrWrite

\* A step that changes one ring.
LEMMA OneRingMoves ==
    ASSUME ForeseenInv, NEW m \in Maps, RingState(m)',
           \A n \in Maps \ {m} :
               /\ log'[n] = log[n] /\ dropped'[n] = dropped[n] /\ tail'[n] = tail[n]
               /\ start'[n] = start[n] /\ end'[n] = end[n]
               /\ maybe_lost_end'[n] = maybe_lost_end[n] /\ Phase(n)' = Phase(n)
    PROVE  \A n \in Maps : RingState(n)'
<1>1. ASSUME NEW n \in Maps, n # m PROVE RingState(n)'
    BY <1>1, RingAlone DEF ForeseenInv
<1> QED
    BY <1>1

\* The kernel and the senders of streams.
LEMMA KernelForeseen ==
    ASSUME Roomy, Sideband = {}, Inv, ForeseenInv, Kernel PROVE ForeseenInv'
<1>1. /\ tail' = tail /\ start' = start /\ end' = end /\ maybe_lost_end' = maybe_lost_end
      /\ heap' = heap /\ pc' = pc /\ cur' = cur /\ lost' = lost
    BY DEF Kernel, mmapVars, lostVars
<1>2. \A n \in Maps : Phase(n)' = Phase(n)
    BY <1>1 DEF Phase
<1>3. ASSUME log' = log /\ dropped' = dropped PROVE \A n \in Maps : RingState(n)'
    BY <1>1, <1>2, <1>3, RingsAlone
<1>4. ASSUME NEW m \in Maps, NEW tm \in Nat, Output(m, "SAMPLE", tm)
      PROVE  \A n \in Maps : RingState(n)'
    <2>1. RingState(m)' /\ \A n \in Maps \ {m} : log'[n] = log[n] /\ dropped'[n] = dropped[n]
        BY <1>1, <1>2, <1>4, OutputKeeps DEF ForeseenInv
    <2> QED
        BY <1>1, <1>2, <2>1, OneRingMoves
<1>5. ASSUME NEW m \in Maps, OutputEnd(m) PROVE \A n \in Maps : RingState(n)'
    <2>1. inflight[m] \in Seq(Nat) /\ inflight[m] # <<>>
        BY <1>5 DEF OutputEnd, Inv, TypeOK, KernelTypeOK
    <2>2. inflight[m][Len(inflight[m])] \in Nat
        BY <2>1, SMT
    <2> QED
        BY <1>4, <1>5, <2>2 DEF OutputEnd
<1>6. ASSUME NEW m \in Maps, OutputAtOnce(m) PROVE \A n \in Maps : RingState(n)'
    <2>1. clock + 1 \in Nat
        BY SMT DEF Inv, TypeOK, KernelTypeOK
    <2> QED
        BY <1>4, <1>6, <2>1 DEF OutputAtOnce
<1>7. ASSUME NEW m \in Maps, OutputStart(m) PROVE \A n \in Maps : RingState(n)'
    BY <1>3, <1>7 DEF OutputStart
<1>8. ASSUME NEW s \in Streams, StreamArrive(s) PROVE \A n \in Maps : RingState(n)'
    BY <1>3, <1>8 DEF StreamArrive
<1>9. ASSUME NEW m \in Maps PROVE ~OutputOther(m)
    BY DEF OutputOther
<1>10. \A n \in Maps : RingState(n)'
    BY <1>5, <1>6, <1>7, <1>8, <1>9 DEF Kernel
<1> QED
    BY <1>1, <1>10 DEF ForeseenInv

\* perf_mmap__read_init() of a ring that is not in the heap.
LEMMA ReadInitForeseen ==
    ASSUME Inv, ForeseenInv, NEW m \in Maps, m \notin heap, ReadInit(m), log' = log,
           dropped' = dropped, tail' = tail, maybe_lost_end' = maybe_lost_end,
           \A n \in Maps : Phase(n)' = Phase(n)
    PROVE  \A n \in Maps : RingState(n)'
<1>1. /\ log[m] \in Seq(Records) /\ dropped[m] \in Nat /\ tail[m] \in Nat /\ start[m] \in Nat
      /\ end[m] \in Nat /\ maybe_lost_end[m] \in Int
    BY RingParts
<1>2. prev = start /\ start \in [Maps -> Nat] /\ end \in [Maps -> Nat]
    BY RingFacts DEF Inv, TypeOK, RingTypeOK
<1>3. /\ start' = start /\ end'[m] = Len(log[m]) /\ \A n \in Maps \ {m} : end'[n] = end[n]
    BY <1>2 DEF ReadInit, DataHead
<1>4. Phase(m) = "away" /\ Phase(m)' = "away"
    BY DEF Phase
<1>5. RingOK(log[m], dropped[m], tail[m], start[m], Len(log[m]), maybe_lost_end[m], "away")
    BY <1>1, <1>4, AwayInit DEF ForeseenInv, RingState
<1>6. RingState(m)'
    BY <1>3, <1>4, <1>5 DEF RingState
<1> QED
    BY <1>3, <1>6, OneRingMoves

\* order_mmap().
LEMMA OrderMmapForeseen ==
    ASSUME DeliveryInv, ForeseenInv, NEW m \in Maps, OrderMmap(m) PROVE ForeseenInv'
<1>1. /\ pc = "idle" /\ pc' = "target" /\ heap' = heap /\ cur' = cur /\ ReadInit(m) /\ log' = log
      /\ dropped' = dropped /\ tail' = tail /\ maybe_lost_end' = maybe_lost_end
    BY DEF OrderMmap, kernelVars, lostVars
<1>2. heap = {}
    BY <1>1 DEF DeliveryInv, PlaceInv
<1>3. \A n \in Maps : Phase(n)' = Phase(n)
    BY <1>1, <1>2 DEF Phase
<1>4. \A n \in Maps : RingState(n)'
    BY <1>1, <1>2, <1>3, ReadInitForeseen DEF DeliveryInv
<1> QED
    BY <1>1, <1>4 DEF ForeseenInv

\* Calls, returns, streams and the breaks of the loop leave the rings alone.
LEMMA QuietForeseen ==
    ASSUME ForeseenInv, log' = log, dropped' = dropped, tail' = tail, start' = start, end' = end,
           maybe_lost_end' = maybe_lost_end, \A m \in Maps : m \in heap' <=> m \in heap,
           pc \notin {"consume", "read"}, pc' \notin {"consume", "read", "initread"}
    PROVE  ForeseenInv'
<1>1. \A m \in Maps : Phase(m)' = Phase(m)
    BY DEF Phase
<1>2. \A m \in Maps : RingState(m)'
    BY <1>1, RingsAlone
<1> QED
    BY <1>2 DEF ForeseenInv

\* The start of a call.
LEMMA BeginForeseen ==
    ASSUME DeliveryInv, ForeseenInv, Begin, pc \in {"idle", "target"}, UNCHANGED <<start, end>>
    PROVE  ForeseenInv'
<1>1. /\ heap = {} /\ heap' = {} /\ pc' = "init" /\ log' = log /\ dropped' = dropped /\ tail' = tail
      /\ maybe_lost_end' = maybe_lost_end /\ start' = start /\ end' = end
    BY DEF DeliveryInv, PlaceInv, Begin, kernelVars, lostVars
<1> QED
    BY <1>1, QuietForeseen

\* perf_mmap__empty(target_map), and the return of order_process().
LEMMA TargetCheckForeseen ==
    ASSUME DeliveryInv, ForeseenInv, TargetCheck PROVE ForeseenInv'
<1>1. pc = "target" /\ UNCHANGED <<start, end>>
    BY DEF TargetCheck
<1>2. CASE Begin
    BY <1>1, <1>2, BeginForeseen
<1>3. CASE /\ Return /\ UNCHANGED <<kernelVars, tail, prev, event_mono_time, lostVars, streamVars,
                                    time, heap, heap_popped_time, break_reason, outVars>>
    <2>1. /\ log' = log /\ dropped' = dropped /\ tail' = tail /\ heap' = heap /\ pc' = "idle"
          /\ maybe_lost_end' = maybe_lost_end /\ start' = start /\ end' = end
        BY <1>1, <1>3 DEF Return, kernelVars, lostVars
    <2> QED
        BY <1>1, <2>1, QuietForeseen
<1> QED
    BY <1>2, <1>3 DEF TargetCheck

\* The return after the heap was emptied.
LEMMA ExitForeseen == ASSUME ForeseenInv, Exit PROVE ForeseenInv'
<1>1. /\ log' = log /\ dropped' = dropped /\ tail' = tail /\ heap' = heap /\ pc' = "idle"
      /\ maybe_lost_end' = maybe_lost_end /\ start' = start /\ end' = end /\ pc = "exit"
    BY DEF Exit, Return, kernelVars, lostVars, mmapVars
<1> QED
    BY <1>1, QuietForeseen

\* perf_mmap_event_init(), up to perf_mmap__read_init().
LEMMA InitMmapForeseen == ASSUME DeliveryInv, ForeseenInv, InitMmap PROVE ForeseenInv'
<1>1. /\ pc = "init" /\ Head(todo) \in Maps /\ lost' = NoLost /\ heap' = heap /\ log' = log
      /\ dropped' = dropped /\ tail' = tail /\ maybe_lost_end' = maybe_lost_end
      /\ todo # <<>>
    BY DEF InitMmap, kernelVars, lostVars
<1>2. CASE MmapEmpty(Head(todo))
    <2>1. pc' = pc /\ start' = start /\ end' = end
        BY <1>2 DEF InitMmap
    <2> QED
        BY <1>1, <2>1, QuietForeseen
<1>3. CASE ~MmapEmpty(Head(todo))
    <2>1. pc' = "initread" /\ ReadInit(Head(todo))
        BY <1>3 DEF InitMmap
    <2>2. todo \in Seq(Sources) /\ \A i \in 1 .. Len(todo) : todo[i] \notin heap
        BY <1>1, RingFacts DEF DeliveryInv, PlaceInv
    <2>3. 1 \in 1 .. Len(todo) /\ Head(todo) = todo[1]
        BY <1>1, <2>2, SMT
    <2>4. Head(todo) \notin heap
        BY <2>2, <2>3
    <2>5. \A n \in Maps : Phase(n)' = Phase(n)
        BY <1>1, <2>1 DEF Phase
    <2>6. \A n \in Maps : RingState(n)'
        BY <1>1, <2>1, <2>4, <2>5, ReadInitForeseen DEF DeliveryInv
    <2> QED
        BY <1>1, <2>6 DEF ForeseenInv
<1> QED
    BY <1>2, <1>3

\* perf_mmap_event_init(), from perf_mmap__read_event() on: the LOST branch is not taken.
LEMMA InitReadForeseen ==
    ASSUME Roomy, DeliveryInv, ForeseenInv, InitRead
    PROVE  ForeseenInv' /\ lost' = NoLost /\ reports' = reports
<1>1. /\ pc = "initread" /\ ReadEvent(cur) /\ cur \in Maps /\ cur \notin heap /\ lost = NoLost
      /\ log' = log /\ dropped' = dropped /\ maybe_lost_end' = maybe_lost_end /\ cur' = cur
    BY TodoFacts DEF InitRead, kernelVars, lostVars, ForeseenInv
<1> DEFINE m == cur
<1>2. /\ log[m] \in Seq(Records) /\ dropped[m] \in Nat /\ tail[m] \in Nat /\ start[m] \in Nat
      /\ end[m] \in Nat /\ maybe_lost_end[m] \in Int
    BY <1>1, RingParts DEF DeliveryInv
<1>3. Phase(m) = "away"
    BY <1>1 DEF Phase
<1>4. RingOK(log[m], dropped[m], tail[m], start[m], end[m], maybe_lost_end[m], "away")
    BY <1>1, <1>3 DEF ForeseenInv, RingState
<1>5. /\ \A n \in Maps \ {m} : start'[n] = start[n]
      /\ start[m] = DataHead(m) => start'[m] = start[m]
      /\ start[m] < DataHead(m) => start'[m] = start[m] + 1
      /\ start[m] = DataHead(m) \/ start[m] < DataHead(m)
      /\ DataHead(m) = Len(log[m])
    BY <1>1, ReadMoves DEF DeliveryInv
<1>6. end'[m] = Len(log[m]) /\ \A n \in Maps \ {m} : end'[n] = end[n]
    <2>1. end \in [Maps -> Nat]
        BY DEF DeliveryInv, Inv, TypeOK, RingTypeOK
    <2> QED
        BY <1>1, <2>1 DEF ReadEvent, DataHead
<1>7. CASE start[m] = DataHead(m)
    <2>1. /\ pc' = "init" /\ lost' = NoLost /\ tail' = tail /\ heap' = heap /\ reports' = reports
        <3>1. ~(start[m] < DataHead(m))
            BY <1>2, <1>5, <1>7, SMT
        <3> QED
            BY <1>7, <3>1 DEF InitRead, outVars
    <2>2. \A n \in Maps : Phase(n)' = Phase(n)
        BY <1>1, <2>1 DEF Phase
    <2>3. RingOK(log[m], dropped[m], tail[m], start[m], Len(log[m]), maybe_lost_end[m], "away")
        BY <1>2, <1>4, AwayInit
    <2>4. RingState(m)'
        BY <1>1, <1>3, <1>5, <1>6, <1>7, <2>1, <2>2, <2>3 DEF RingState
    <2>5. \A n \in Maps : RingState(n)'
        BY <1>1, <1>5, <1>6, <2>1, <2>2, <2>4, OneRingMoves
    <2> QED
        BY <2>1, <2>5 DEF ForeseenInv
<1>8. CASE start[m] < DataHead(m)
    <2>1. /\ log[m][start[m] + 1].type = "SAMPLE"
          /\ RingOK(log[m], dropped[m], tail[m], start[m] + 1, Len(log[m]), maybe_lost_end[m], "pending")
        BY <1>2, <1>4, <1>5, <1>8, AwayRead
    <2>2. start'[m] = start[m] + 1 /\ start[m] # DataHead(m) /\ ~(lost.n > 0)
        BY <1>1, <1>2, <1>5, <1>8, SMT DEF NoLost
    <2>3. log[m][start'[m]].type = "SAMPLE" /\ "SAMPLE" # "LOST"
        BY <2>1, <2>2
    <2>4. /\ pc' = "init" /\ lost' = NoLost /\ tail' = tail /\ heap' = heap \cup {m}
          /\ reports' = reports
        BY <2>2, <2>3 DEF InitRead
    <2>5. Phase(m)' = "pending" /\ \A n \in Maps \ {m} : Phase(n)' = Phase(n)
        BY <1>1, <2>4 DEF Phase
    <2>6. RingState(m)'
        BY <1>1, <1>6, <2>1, <2>2, <2>4, <2>5 DEF RingState
    <2>7. \A n \in Maps : RingState(n)'
        BY <1>1, <1>5, <1>6, <2>4, <2>5, <2>6, OneRingMoves
    <2> QED
        BY <2>4, <2>7 DEF ForeseenInv
<1> QED
    BY <1>5, <1>7, <1>8

\* stream_event_init().
LEMMA InitStreamForeseen == ASSUME ForeseenInv, NEW s \in Streams, InitStream(s) PROVE ForeseenInv'
<1>1. s \notin Maps
    BY OrderAssumption, SMT DEF OrderAssumption, Streams, Maps
<1>2. /\ log' = log /\ dropped' = dropped /\ tail' = tail /\ start' = start /\ end' = end
      /\ maybe_lost_end' = maybe_lost_end /\ pc = "init" /\ pc' \in {"init", "exit"}
      /\ heap' = heap \/ heap' = heap \cup {s}
    BY DEF InitStream, StreamStop, kernelVars, mmapVars, lostVars
<1> QED
    BY <1>1, <1>2, QuietForeseen

\* The end of order_heap_init().
LEMMA InitDoneForeseen == ASSUME ForeseenInv, InitDone PROVE ForeseenInv'
<1>1. /\ log' = log /\ dropped' = dropped /\ tail' = tail /\ start' = start /\ end' = end
      /\ maybe_lost_end' = maybe_lost_end /\ pc = "init" /\ pc' = "loop" /\ heap' = heap
    BY DEF InitDone, kernelVars, mmapVars, lostVars
<1> QED
    BY <1>1, QuietForeseen

\* A break of the loop.
LEMMA LoopBreakForeseen ==
    ASSUME ForeseenInv, pc = "loop", NEW reason, LoopBreak(reason), maybe_lost_end' = maybe_lost_end
    PROVE  ForeseenInv'
<1>1. /\ log' = log /\ dropped' = dropped /\ tail' = tail /\ start' = start /\ end' = end
      /\ pc' = "exit" /\ heap' = heap
    BY DEF LoopBreak, kernelVars, mmapVars
<1> QED
    BY <1>1, QuietForeseen

\* stream_event_process().
LEMMA LoopStreamForeseen == ASSUME ForeseenInv, NEW s \in Streams, LoopStream(s) PROVE ForeseenInv'
<1>1. s \notin Maps
    BY OrderAssumption, SMT DEF OrderAssumption, Streams, Maps
<1>2. /\ log' = log /\ dropped' = dropped /\ tail' = tail /\ start' = start /\ end' = end
      /\ maybe_lost_end' = maybe_lost_end /\ pc = "loop" /\ pc' \in {"loop", "exit"}
      /\ heap' = heap \/ heap' = heap \ {s}
    BY DEF LoopStream, StreamStop, kernelVars, mmapVars, lostVars
<1> QED
    BY <1>1, <1>2, QuietForeseen

\* One pass of the loop: the prediction and the event.
LEMMA LoopProcessForeseen ==
    ASSUME Roomy, HasLost, DeliveryInv, ForeseenInv, NEW m \in Maps, LoopProcess(m)
    PROVE  ForeseenInv'
<1>1. /\ pc = "loop" /\ pc' = "consume" /\ cur' = m /\ m \in heap /\ heap' = heap /\ log' = log
      /\ dropped' = dropped /\ tail' = tail /\ start' = start /\ end' = end
    BY DEF LoopProcess, Top, kernelVars, mmapVars
<1>2. /\ log[m] \in Seq(Records) /\ dropped[m] \in Nat /\ tail[m] \in Nat /\ start[m] \in Nat
      /\ end[m] \in Nat /\ maybe_lost_end[m] \in Int
      /\ maybe_lost_end \in [Maps -> Int]
    BY RingParts DEF DeliveryInv, Inv, TypeOK, RingTypeOK
<1>3. /\ Phase(m) = "pending" /\ Phase(m)' = "consume"
      /\ \A n \in Maps \ {m} : Phase(n)' = Phase(n)
    BY <1>1 DEF Phase
<1>4. RingOK(log[m], dropped[m], tail[m], start[m], end[m], maybe_lost_end[m], "pending")
    BY <1>3 DEF ForeseenInv, RingState
<1>5. MaybeLost(m) = ~(Room - Between(log[m], start[m], end[m]) >= Watermark + SampleSize)
    BY DEF MaybeLost, HasSpace, Room, Between, Off, OffIn
<1>6. MmapEmpty(m) = (Len(log[m]) = start[m])
    BY RingFacts DEF MmapEmpty, DataHead, DeliveryInv
<1>7. /\ \A n \in Maps \ {m} : maybe_lost_end'[n] = maybe_lost_end[n]
      /\ \/ /\ end[m] # maybe_lost_end[m]
            /\ maybe_lost_end'[m] =
                IF ~(Room - Between(log[m], start[m], end[m]) >= Watermark + SampleSize)
                THEN end[m] ELSE end[m] - 1
         \/ /\ end[m] = maybe_lost_end[m] /\ start[m] # Len(log[m])
            /\ maybe_lost_end'[m] = maybe_lost_end[m]
    BY <1>2, <1>5, <1>6 DEF LoopProcess
<1>8. maybe_lost_end'[m] \in Int
    BY <1>2, <1>7, SMT
<1>9. RingOK(log[m], dropped[m], tail[m], start[m], end[m], maybe_lost_end'[m], "consume")
    BY <1>2, <1>4, <1>7, <1>8, ProcessKeeps
<1>10. RingState(m)'
    BY <1>1, <1>3, <1>9 DEF RingState
<1>11. \A n \in Maps : RingState(n)'
    BY <1>1, <1>3, <1>7, <1>10, OneRingMoves
<1> QED
    BY <1>1, <1>11 DEF ForeseenInv

\* consume.
LEMMA LoopConsumeForeseen ==
    ASSUME Roomy, DeliveryInv, ForeseenInv, LoopConsume PROVE ForeseenInv'
<1>1. /\ pc = "consume" /\ pc' = "read" /\ cur' = cur /\ heap' = heap /\ log' = log
      /\ dropped' = dropped /\ start' = start /\ end' = end /\ maybe_lost_end' = maybe_lost_end
      /\ cur \in heap /\ cur \in Maps
    BY DEF LoopConsume, kernelVars, lostVars, DeliveryInv, PlaceInv, Inv, OrderInv, ControlInv
<1> DEFINE m == cur
<1>2. /\ log[m] \in Seq(Records) /\ dropped[m] \in Nat /\ tail[m] \in Nat /\ start[m] \in Nat
      /\ end[m] \in Nat /\ maybe_lost_end[m] \in Int /\ tail \in [Maps -> Nat] /\ prev = start
    BY <1>1, RingParts, RingFacts DEF DeliveryInv
<1>3. /\ Phase(m) = "consume" /\ Phase(m)' = "read"
      /\ \A n \in Maps \ {m} : Phase(n)' = Phase(n)
    BY <1>1 DEF Phase
<1>4. RingOK(log[m], dropped[m], tail[m], start[m], end[m], maybe_lost_end[m], "consume")
    BY <1>1, <1>3 DEF ForeseenInv, RingState
<1>5. HasSpace(m, Watermark \div 2)
        = (Room - Between(log[m], start[m], end[m]) >= Watermark \div 2)
    BY DEF HasSpace, Room, Between, Off, OffIn
<1>6. /\ \A n \in Maps \ {m} : tail'[n] = tail[n]
      /\ \/ tail'[m] = start[m]
         \/ /\ tail'[m] = tail[m]
            /\ ~(Room - Between(log[m], start[m], end[m]) >= Watermark \div 2)
    BY <1>1, <1>2, <1>5 DEF LoopConsume, ConsumeTo
<1>7. RingOK(log[m], dropped[m], tail'[m], start[m], end[m], maybe_lost_end[m], "read")
    BY <1>2, <1>4, <1>6, ConsumeKeeps
<1>8. RingState(m)'
    BY <1>1, <1>3, <1>7 DEF RingState
<1>9. \A n \in Maps : RingState(n)'
    BY <1>1, <1>3, <1>6, <1>8, OneRingMoves
<1> QED
    BY <1>1, <1>9 DEF ForeseenInv

\* perf_mmap__read_event() after the consume.
LEMMA LoopReadForeseen ==
    ASSUME Roomy, HasLost, DeliveryInv, ForeseenInv, LoopRead PROVE ForeseenInv'
<1>1. /\ pc = "read" /\ ReadEvent(cur) /\ cur \in Maps /\ cur \in heap /\ tail' = tail
      /\ log' = log /\ dropped' = dropped /\ maybe_lost_end' = maybe_lost_end /\ cur' = cur
    BY DEF LoopRead, kernelVars, lostVars, DeliveryInv, PlaceInv, Inv, OrderInv, ControlInv
<1> DEFINE m == cur
<1>2. /\ log[m] \in Seq(Records) /\ dropped[m] \in Nat /\ tail[m] \in Nat /\ start[m] \in Nat
      /\ end[m] \in Nat /\ maybe_lost_end[m] \in Int
    BY <1>1, RingParts DEF DeliveryInv
<1>3. Phase(m) = "read"
    BY <1>1 DEF Phase
<1>4. RingOK(log[m], dropped[m], tail[m], start[m], end[m], maybe_lost_end[m], "read")
    BY <1>1, <1>3 DEF ForeseenInv, RingState
<1>5. /\ \A n \in Maps \ {m} : start'[n] = start[n]
      /\ start[m] = DataHead(m) => start'[m] = start[m]
      /\ start[m] < DataHead(m) => start'[m] = start[m] + 1
      /\ start[m] = DataHead(m) \/ start[m] < DataHead(m)
      /\ DataHead(m) = Len(log[m])
    BY <1>1, ReadMoves DEF DeliveryInv
<1>6. end'[m] = Len(log[m]) /\ \A n \in Maps \ {m} : end'[n] = end[n]
    <2>1. end \in [Maps -> Nat]
        BY DEF DeliveryInv, Inv, TypeOK, RingTypeOK
    <2> QED
        BY <1>1, <2>1 DEF ReadEvent, DataHead
<1>7. ASSUME NEW ph, RingOK(log[m], dropped[m], tail[m], start'[m], Len(log[m]), maybe_lost_end[m], ph),
             Phase(m)' = ph, pc' # "initread", heap' \in {heap, heap \ {m}}, heap' = heap \/ ph = "away"
      PROVE  ForeseenInv'
    <2>1. \A n \in Maps \ {m} : Phase(n)' = Phase(n)
        BY <1>1, <1>7 DEF Phase
    <2>2. RingState(m)'
        BY <1>1, <1>6, <1>7 DEF RingState
    <2>3. \A n \in Maps : RingState(n)'
        BY <1>1, <1>5, <1>6, <2>1, <2>2, OneRingMoves
    <2> QED
        BY <1>7, <2>3 DEF ForeseenInv
<1>8. CASE start[m] = DataHead(m)
    <2>1. heap' = heap \ {m} /\ pc' \in {"exit", "loop"}
        <3>1. ~(start[m] < DataHead(m))
            BY <1>2, <1>5, <1>8, SMT
        <3> QED
            BY <1>8, <3>1 DEF LoopRead
    <2>2. Phase(m)' = "away"
        BY <1>1, <2>1 DEF Phase
    <2>3. RingOK(log[m], dropped[m], tail[m], start'[m], Len(log[m]), maybe_lost_end[m], "away")
        BY <1>2, <1>4, <1>5, <1>8, ReadEmpties
    <2> QED
        BY <1>7, <2>1, <2>2, <2>3
<1>9. CASE start[m] < DataHead(m)
    <2>1. /\ log[m][start[m] + 1].type \in {"SAMPLE", "LOST"}
          /\ log[m][start[m] + 1].type = "SAMPLE" =>
               RingOK(log[m], dropped[m], tail[m], start[m] + 1, Len(log[m]), maybe_lost_end[m], "pending")
          /\ log[m][start[m] + 1].type = "LOST" =>
               RingOK(log[m], dropped[m], tail[m], start[m] + 1, Len(log[m]), maybe_lost_end[m], "consume")
        BY <1>2, <1>4, <1>5, <1>9, ReadKeepsRing
    <2>2. start'[m] = start[m] + 1 /\ start[m] # DataHead(m) /\ "SAMPLE" # "LOST"
        BY <1>2, <1>5, <1>9, SMT
    <2>3. CASE log[m][start'[m]].type = "SAMPLE"
        <3>1. heap' = heap /\ pc' \in {"exit", "loop"}
            BY <2>2, <2>3 DEF LoopRead
        <3>2. Phase(m)' = "pending"
            BY <1>1, <3>1 DEF Phase
        <3> QED
            BY <1>7, <2>1, <2>2, <2>3, <3>1, <3>2
    <2>4. CASE log[m][start'[m]].type = "LOST"
        <3>1. heap' = heap /\ pc' = "consume"
            BY <2>2, <2>4 DEF LoopRead
        <3>2. Phase(m)' = "consume"
            BY <1>1, <3>1 DEF Phase
        <3> QED
            BY <1>7, <2>1, <2>2, <2>4, <3>1, <3>2
    <2> QED
        BY <2>1, <2>2, <2>3, <2>4
<1> QED
    BY <1>5, <1>8, <1>9

\* stream_stop: an event that was not processed goes back to its ring.
LEMMA ExitPutForeseen ==
    ASSUME Roomy, DeliveryInv, ForeseenInv, NEW h \in Sources, ExitPut(h) PROVE ForeseenInv'
<1>1. /\ pc = "exit" /\ pc' = pc /\ h \in heap /\ heap' = heap \ {h} /\ log' = log /\ end' = end
      /\ dropped' = dropped /\ maybe_lost_end' = maybe_lost_end
    BY DEF ExitPut, kernelVars, lostVars
<1>2. CASE h \notin Maps
    <2>1. start' = start /\ tail' = tail
        BY <1>2 DEF ExitPut
    <2> QED
        BY <1>1, <1>2, <2>1, QuietForeseen
<1>3. CASE h \in Maps
    <2>1. /\ log[h] \in Seq(Records) /\ dropped[h] \in Nat /\ tail[h] \in Nat /\ start[h] \in Nat
          /\ end[h] \in Nat /\ maybe_lost_end[h] \in Int
          /\ tail \in [Maps -> Nat] /\ start \in [Maps -> Nat]
        BY <1>3, RingParts, RingFacts DEF DeliveryInv
    <2>2. /\ start'[h] = start[h] - 1 /\ tail'[h] = start[h] - 1
          /\ \A n \in Maps \ {h} : start'[n] = start[n] /\ tail'[n] = tail[n]
        BY <1>3, <2>1 DEF ExitPut, UnreadTo
    <2>3. /\ Phase(h) = "pending" /\ Phase(h)' = "away"
          /\ \A n \in Maps \ {h} : Phase(n)' = Phase(n)
        BY <1>1 DEF Phase
    <2>4. RingOK(log[h], dropped[h], start[h] - 1, start[h] - 1, end[h], maybe_lost_end[h], "away")
        BY <1>3, <2>1, <2>3, PutBackKeeps DEF ForeseenInv, RingState
    <2>5. RingState(h)'
        BY <1>1, <2>2, <2>3, <2>4 DEF RingState
    <2>6. \A n \in Maps : RingState(n)'
        BY <1>1, <1>3, <2>2, <2>3, <2>5, OneRingMoves
    <2> QED
        BY <1>1, <2>6 DEF ForeseenInv
<1> QED
    BY <1>2, <1>3

\* Every step keeps the rings in one of the states of the invariant.
LEMMA NextForeseen ==
    ASSUME Roomy, Sideband = {}, HasLost, DeliveryInv, ForeseenInv, Next PROVE ForeseenInv'
<1>1. CASE Kernel
    BY <1>1, KernelForeseen DEF DeliveryInv
<1>2. CASE Call
    <2>1. ASSUME NEW m \in Maps, OrderMmap(m) PROVE ForeseenInv'
        BY <2>1, OrderMmapForeseen
    <2>2. ASSUME NEW t, OrderTo(t) PROVE ForeseenInv'
        <3>1. Begin /\ pc \in {"idle", "target"} /\ UNCHANGED <<start, end>>
            BY <2>2 DEF OrderTo
        <3> QED
            BY <3>1, BeginForeseen
    <2> QED
        BY <1>2, <2>1, <2>2 DEF Call, OrderStream
<1>3. CASE Step
    <2>1. CASE TargetCheck
        BY <2>1, TargetCheckForeseen
    <2>2. CASE InitMmap
        BY <2>2, InitMmapForeseen
    <2>3. CASE InitRead
        BY <2>3, InitReadForeseen
    <2>4. CASE \E s \in Streams : InitStream(s)
        BY <2>4, InitStreamForeseen
    <2>5. CASE InitDone
        BY <2>5, InitDoneForeseen
    <2>6. CASE LoopEmpty
        <3>1. pc = "loop" /\ LoopBreak("EMPTY") /\ maybe_lost_end' = maybe_lost_end
            BY <2>6 DEF LoopEmpty, lostVars
        <3> QED
            BY <3>1, LoopBreakForeseen
    <2>7. ASSUME NEW s \in Streams, LoopStream(s) PROVE ForeseenInv'
        BY <2>7, LoopStreamForeseen
    <2>8. ASSUME NEW m \in Maps, LoopTargetTime(m) PROVE ForeseenInv'
        <3>1. pc = "loop" /\ LoopBreak("TARGET_TIME") /\ maybe_lost_end' = maybe_lost_end
            BY <2>8 DEF LoopTargetTime, lostVars
        <3> QED
            BY <3>1, LoopBreakForeseen
    <2>9. ASSUME NEW m \in Maps, LoopLostWait(m) PROVE ForeseenInv'
        <3>1. /\ pc = "loop" /\ maybe_lost_end' = maybe_lost_end
              /\ LoopBreak(IF lost_pause[m] = 1 THEN break_reason ELSE "LOST_WAIT")
            BY <2>9 DEF LoopLostWait
        <3> QED
            BY <3>1, LoopBreakForeseen
    <2>10. ASSUME NEW m \in Maps, LoopProcess(m) PROVE ForeseenInv'
        BY <2>10, LoopProcessForeseen
    <2>11. CASE LoopConsume
        BY <2>11, LoopConsumeForeseen
    <2>12. CASE LoopRead
        BY <2>12, LoopReadForeseen
    <2>13. ASSUME NEW h \in Sources, ExitPut(h) PROVE ForeseenInv'
        BY <2>13, ExitPutForeseen
    <2>14. CASE Exit
        BY <2>14, ExitForeseen
    <2> QED
        BY <1>3, <2>1, <2>2, <2>3, <2>4, <2>5, <2>6, <2>7, <2>8, <2>9, <2>10, <2>11, <2>12, <2>13,
           <2>14 DEF Step
<1> QED
    BY <1>1, <1>2, <1>3 DEF Next

-----------------------------------------------------------------------------
(* Losses are reported in time. *)

\* A program without a lost() handler keeps no loss and reports none.
LEMMA NoHandler ==
    ASSUME ~HasLost, lost = NoLost, Next PROVE lost' = NoLost /\ reports' = reports
<1>1. ~(lost.n > 0)
    BY SMT DEF NoLost
<1>2. CASE InitRead
    BY <1>1, <1>2 DEF InitRead, outVars
<1>3. CASE LoopRead
    BY <1>1, <1>3 DEF LoopRead, outVars
<1> QED
    BY <1>2, <1>3, OthersReport DEF Reading

\* In the loop, a loss is reported right behind the last event that was processed.
LEMMA LoopReadSafe == ASSUME Inv, NoUnsafeLost, LoopRead PROVE NoUnsafeLost'
<1>1. event_mono_time[cur] = heap_popped_time /\ heap_popped_time \in Nat
    BY RingFacts DEF LoopRead, Inv, OrderInv, RingTimeInv
<1>2. heap_popped_time <= event_mono_time[cur]
    BY <1>1, SMT
<1>3. reports' = reports \/ \E t : reports' = reports \cup {Report(cur, lost, t)}
    BY DEF LoopRead, outVars
<1>4. ASSUME NEW t PROVE Report(cur, lost, t).popped <= Report(cur, lost, t).start
    BY <1>2 DEF Report
<1> QED
    BY <1>3, <1>4 DEF NoUnsafeLost

\* The invariant behind NoUnsafeLost.
SafeInv == (HasLost => ForeseenInv) /\ (~HasLost => lost = NoLost) /\ NoUnsafeLost

\* Initially the rings are empty.
LEMMA ForeseenInit == ASSUME Init PROVE SafeInv
<1>1. heap = {} /\ pc = "idle" /\ lost = NoLost /\ reports = {}
    BY DEF Init
<1>2. ASSUME NEW m \in Maps PROVE RingState(m)
    <2>1. /\ log[m] = <<>> /\ dropped[m] = 0 /\ tail[m] = 0 /\ start[m] = 0 /\ end[m] = 0
          /\ maybe_lost_end[m] = 0 /\ Phase(m) = "away"
        BY <1>1, <1>2 DEF Init, Phase
    <2>2. LogOK(<<>>) /\ Len(<<>>) = 0
        BY SMT DEF LogOK, OffIn
    <2>3. AwayOK(<<>>, 0, 0, 0, 0, 0)
        BY <2>2, SMT DEF AwayOK
    <2>4. RingOK(<<>>, 0, 0, 0, 0, 0, "away")
        BY <2>2, <2>3, SMT DEF RingOK
    <2> QED
        BY <2>1, <2>4 DEF RingState
<1> QED
    BY <1>1, <1>2 DEF SafeInv, ForeseenInv, NoUnsafeLost

\* Every step keeps it.
LEMMA SafeStep ==
    ASSUME Roomy, Sideband = {}, DeliveryInv, SafeInv, [Next]_vars PROVE SafeInv'
<1>1. CASE UNCHANGED vars
    <2>1. \A m \in Maps : RingState(m)' = RingState(m)
        BY <1>1 DEF vars, RingState, Phase, kernelVars, mmapVars, lostVars
    <2>2. pc' = pc /\ lost' = lost /\ reports' = reports
        BY <1>1 DEF vars, outVars
    <2> QED
        BY <2>1, <2>2 DEF SafeInv, ForeseenInv, NoUnsafeLost
<1>2. CASE Next
    <2>1. HasLost => ForeseenInv'
        BY <1>2, NextForeseen DEF SafeInv
    <2>2. ~HasLost => lost' = NoLost
        BY <1>2, NoHandler DEF SafeInv
    <2>3. NoUnsafeLost'
        <3>1. CASE LoopRead
            BY <3>1, LoopReadSafe DEF SafeInv, DeliveryInv
        <3>2. CASE ~LoopRead
            <4>1. reports' = reports
                BY <1>2, <3>2, NoHandler, InitReadForeseen, OthersReport DEF SafeInv, Reading
            <4> QED
                BY <4>1 DEF SafeInv, NoUnsafeLost
        <3> QED
            BY <3>1, <3>2
    <2> QED
        BY <2>1, <2>2, <2>3 DEF SafeInv
<1> QED
    BY <1>1, <1>2

\* With a watermark that covers two samples and a LOST record (by default it is half or a
\* third of the ring) and no side-band records, order_process() stops in front of every
\* loss: when it reports one, no event of another ring behind it was processed, for any
\* number of rings and streams and any sizes.
THEOREM LossesForeseen == ASSUME Roomy, Sideband = {} PROVE Spec => []NoUnsafeLost
<1>1. Init => SafeInv
    BY ForeseenInit
<1>2. DeliveryInv /\ SafeInv /\ [Next]_vars => SafeInv'
    BY SafeStep
<1>3. SafeInv => NoUnsafeLost
    BY DEF SafeInv
<1> QED
    BY <1>1, <1>2, <1>3, DeliveryInvHolds, PTL DEF Spec
===============================================================================
