--------------------------- MODULE EventSpreadProofs ---------------------------
(***************************************************************************)
(* The channel between two perf-prof processes, for any sizes of the       *)
(* buffers, of the pipe and of the events: indices stay in their ranges,   *)
(* EPOLLOUT is asked for while something waits, every event arrives whole. *)
(***************************************************************************)
EXTENDS EventSpread, TLAPS

-----------------------------------------------------------------------------
(* The inductive invariant. *)

\* A cell of an event.
Cell == {c \in Message \X Nat : 1 <= c[2] /\ c[2] <= c[1].size}

\* The n cells from t on of the circular buffer b.
Cut(b, t, n) == [i \in 1 .. n |-> b[(t + i - 1) % BUF_LEN]]

\* What the sender keeps.
Kept == Cut(buf, tail, Cnt(head, tail))

\* Events one behind the other: around each cell stands its event, from its first cell on.
\* Only the last event may be cut off.
Whole(s) ==
    \A i \in 1 .. Len(s) :
        /\ s[i][2] <= i
        /\ \A j \in 1 .. s[i][1].size : i - s[i][2] + j <= Len(s) =>
               s[i - s[i][2] + j] = <<s[i][1], j>>

\* The last event is not cut off either.
Closed(s) == s # <<>> => s[Len(s)][2] = s[Len(s)][1].size

\* What is on its way, the event that a sorting reader works on included.
Stream == (rbuf \o pipe) \o IF conn = "up" THEN Kept ELSE <<>>

\* Types that TypeOK leaves open.
CellInv ==
    /\ buf \in [0 .. BUF_LEN - 1 -> Cell \cup {None}]
    /\ Kept \in Seq(Cell)
    /\ pipe \in Seq(Cell) /\ rbuf \in Seq(Cell)

\* Where the sender is: msg waits for room only while some is made; buf_send() knows how much
\* there is to send; only the character device flushes.
SenderInv ==
    /\ pc \in {"idle", "flush"} => msg = None
    /\ pc = "store" => msg # None
    /\ pc # "idle" => connected
    /\ pc = "send" => len = Cnt(head, tail) /\ mode.sender = "tcp"
    /\ pc = "flush" => mode.sender = "cdev"
    /\ back = "flush" => mode.sender = "cdev"
    /\ lost + (IF msg = None THEN 0 ELSE 1) <= nr

\* EPOLLOUT is asked for while there is something to send.
ArmedInv ==
    /\ connected /\ Cnt(head, tail) > 0 => armed
    /\ pc = "send" => armed

\* Who is connected to whom: without a peer nothing is kept for it, and a reader that was told
\* of a hang-up has nothing left to read.
ConnInv ==
    /\ conn = "up" /\ ~connected => head = tail
    /\ conn # "up" => mode.breaks # {}
    /\ block = "hungup" => conn # "up" /\ rbuf = <<>> /\ pipe = <<>> /\ ~mode.order

SpreadInv == TypeOK /\ CellInv /\ SenderInv /\ ArmedInv /\ ConnInv

\* The cells are those of whole events, up to the place where a connection broke.
StreamInv == Whole(Stream) /\ (conn = "up" => Closed(Stream)) /\ ArrivesWhole

-----------------------------------------------------------------------------
(* Events and the circular buffer. *)

\* Two rows of cells, one behind the other.
LEMMA CatFacts ==
    ASSUME NEW a \in Seq(Cell), NEW b \in Seq(Cell)
    PROVE  /\ Len(a) \in Nat /\ Len(b) \in Nat
           /\ a \o b \in Seq(Cell) /\ Len(a \o b) = Len(a) + Len(b)
           /\ \A i \in 1 .. Len(a) : (a \o b)[i] = a[i]
           /\ \A k \in 1 .. Len(b) : (a \o b)[Len(a) + k] = b[k]
<1>1. /\ Len(a) \in Nat /\ Len(b) \in Nat
      /\ a \o b \in Seq(Cell) /\ Len(a \o b) = Len(a) + Len(b)
  OBVIOUS
<1>2. \A i \in 1 .. Len(a) : (a \o b)[i] = a[i]
  OBVIOUS
<1>3. \A k \in 1 .. Len(b) : (a \o b)[Len(a) + k] = b[k]
  OBVIOUS
<1> QED BY <1>1, <1>2, <1>3, Zenon

\* A row is determined by its length and its cells.
LEMMA RowIs ==
    ASSUME NEW a \in Seq(Cell)
    PROVE  a = [i \in 1 .. Len(a) |-> a[i]]
OBVIOUS

\* A place in the first row or in the second.
LEMMA InCat ==
    ASSUME NEW k \in Nat, NEW l \in Nat, NEW i \in 1 .. k + l
    PROVE  i \in 1 .. k \/ \E j \in 1 .. l : i = k + j
<1>1. CASE ~(i <= k)
  <2>1. i - k \in 1 .. l /\ i = k + (i - k)
    BY <1>1
  <2> QED BY <2>1, Zenon
<1> QED BY <1>1

\* A row of cells is another one followed by a third.
LEMMA IsCat ==
    ASSUME NEW a \in Seq(Cell), NEW b \in Seq(Cell), NEW S, NEW c \in [1 .. Len(a) + Len(b) -> S],
           \A i \in 1 .. Len(a) : c[i] = a[i],
           \A k \in 1 .. Len(b) : c[Len(a) + k] = b[k]
    PROVE  c = a \o b
<1>1. ASSUME NEW i \in 1 .. Len(a) + Len(b) PROVE c[i] = (a \o b)[i]
  <2>1. i \in 1 .. Len(a) \/ \E k \in 1 .. Len(b) : i = Len(a) + k
    <3>1. Len(a) \in Nat /\ Len(b) \in Nat
      BY CatFacts, Zenon
    <3> QED BY <3>1, InCat, Zenon
  <2>2. CASE i \in 1 .. Len(a)
    <3>1. (a \o b)[i] = a[i]
      BY <2>2, CatFacts, Zenon
    <3> QED BY <2>2, <3>1, Zenon
  <2>3. ASSUME NEW k \in 1 .. Len(b), i = Len(a) + k
        PROVE  c[i] = (a \o b)[i]
    <3>1. (a \o b)[Len(a) + k] = b[k]
      BY CatFacts, Zenon
    <3> QED BY <2>3, <3>1, Zenon
  <2> QED BY <2>1, <2>2, <2>3, Zenon
<1>2. a \o b = [i \in 1 .. Len(a) + Len(b) |-> (a \o b)[i]]
  <2>1. a \o b \in Seq(Cell) /\ Len(a \o b) = Len(a) + Len(b)
    BY CatFacts, Zenon
  <2>2. a \o b = [i \in 1 .. Len(a \o b) |-> (a \o b)[i]]
    BY <2>1, RowIs, Zenon
  <2> QED BY <2>1, <2>2, Zenon
<1>3. c = [i \in 1 .. Len(a) + Len(b) |-> c[i]]
  BY Zenon
<1> QED BY <1>1, <1>2, <1>3, Zenon

\* Every event is longer than its header and fits into the buffer.
LEMMA MessageSize ==
    ASSUME NEW m \in Message
    PROVE  m.size \in Nat /\ 1 < m.size /\ m.size < BUF_LEN
BY EventSpreadAssumption DEF Message, TP, Event, Lost

\* The cells of an event.
LEMMA CellsFacts ==
    ASSUME NEW m \in Message
    PROVE  /\ Cells(m) \in Seq(Cell) /\ Len(Cells(m)) = m.size
           /\ \A k \in 1 .. m.size : Cells(m)[k] = <<m, k>>
<1>1. m.size \in Nat
  BY MessageSize
<1>2. \A k \in 1 .. m.size : <<m, k>> \in Cell
  BY <1>1 DEF Cell
<1> QED BY <1>1, <1>2 DEF Cells

\* A cell and its event.
LEMMA CellFacts ==
    ASSUME NEW c \in Cell
    PROVE  /\ c = <<c[1], c[2]>> /\ c[1] \in Message
           /\ c[2] \in Nat /\ 1 <= c[2] /\ c[2] <= c[1].size
           /\ c[1].size \in Nat /\ 1 < c[1].size
BY MessageSize DEF Cell

\* The smaller of two lengths.
LEMMA MinFacts ==
    ASSUME NEW a \in Int, NEW b \in Int
    PROVE  Min({a, b}) = IF a <= b THEN a ELSE b
<1>1. \E x \in {a, b} : \A y \in {a, b} : x <= y
  BY SMT
<1>2. Min({a, b}) \in {a, b} /\ \A y \in {a, b} : Min({a, b}) <= y
  BY <1>1, Zenon DEF Min
<1> QED BY <1>2

\* The buffer has a length.
LEMMA LenFact == BUF_LEN \in Nat /\ 1 < BUF_LEN
BY EventSpreadAssumption

\* One turn around the buffer, forwards or backwards.
LEMMA Turn ==
    ASSUME NEW x \in Int
    PROVE  /\ 0 <= x /\ x < BUF_LEN => x % BUF_LEN = x
           /\ BUF_LEN <= x /\ x < BUF_LEN + BUF_LEN => x % BUF_LEN = x - BUF_LEN
           /\ 0 <= x + BUF_LEN /\ x < 0 => x % BUF_LEN = x + BUF_LEN
<1>1. 0 <= x /\ x < BUF_LEN => x % BUF_LEN = x
  BY LenFact
<1>2. BUF_LEN <= x /\ x < BUF_LEN + BUF_LEN => x % BUF_LEN = x - BUF_LEN
  BY LenFact
<1>3. 0 <= x + BUF_LEN /\ x < 0 => x % BUF_LEN = x + BUF_LEN
  BY LenFact
<1> QED BY <1>1, <1>2, <1>3

\* What is in the buffer and what is free make up its length, less one.
LEMMA CntFacts ==
    ASSUME NEW h \in 0 .. BUF_LEN - 1, NEW t \in 0 .. BUF_LEN - 1
    PROVE  /\ Cnt(h, t) = IF t <= h THEN h - t ELSE h - t + BUF_LEN
           /\ Cnt(h, t) \in 0 .. BUF_LEN - 1
           /\ Cnt(h, t) = 0 <=> h = t
           /\ Space(h, t) = BUF_LEN - 1 - Cnt(h, t)
<1>1. Cnt(h, t) = IF t <= h THEN h - t ELSE h - t + BUF_LEN
  <2>1. h - t \in Int
    BY LenFact
  <2> QED BY <2>1, LenFact, Turn DEF Cnt
<1>2. Space(h, t) = IF h < t THEN t - h - 1 ELSE t - h - 1 + BUF_LEN
  <2>1. t - (h + 1) \in Int
    BY LenFact
  <2> QED BY <2>1, LenFact, Turn DEF Cnt, Space
<1> QED BY <1>1, <1>2, LenFact

\* The tail moves by what was written.
LEMMA CntDrop ==
    ASSUME NEW h \in 0 .. BUF_LEN - 1, NEW t \in 0 .. BUF_LEN - 1, NEW k \in 0 .. Cnt(h, t)
    PROVE  /\ (t + k) % BUF_LEN \in 0 .. BUF_LEN - 1
           /\ Cnt(h, (t + k) % BUF_LEN) = Cnt(h, t) - k
<1>1. Cnt(h, t) = (IF t <= h THEN h - t ELSE h - t + BUF_LEN) /\ Cnt(h, t) \in 0 .. BUF_LEN - 1
  BY CntFacts
<1>2. t + k \in Int /\ k \in 0 .. BUF_LEN - 1 /\ k <= Cnt(h, t)
  BY <1>1, LenFact
<1>3. (t + k) % BUF_LEN = IF t + k < BUF_LEN THEN t + k ELSE t + k - BUF_LEN
  BY <1>2, LenFact, Turn
<1>4. PICK u : u = (t + k) % BUF_LEN
  OBVIOUS
<1>5. u \in 0 .. BUF_LEN - 1
  BY <1>2, <1>3, <1>4, LenFact
<1>6. Cnt(h, u) = IF u <= h THEN h - u ELSE h - u + BUF_LEN
  BY <1>5, CntFacts
<1>7. Cnt(h, u) = Cnt(h, t) - k
  BY <1>1, <1>2, <1>3, <1>4, <1>6, LenFact
<1> QED BY <1>4, <1>5, <1>7

\* The head moves by what is stored.
LEMMA CntAdd ==
    ASSUME NEW h \in 0 .. BUF_LEN - 1, NEW t \in 0 .. BUF_LEN - 1,
           NEW k \in Nat, k <= Space(h, t)
    PROVE  /\ (h + k) % BUF_LEN \in 0 .. BUF_LEN - 1
           /\ Cnt((h + k) % BUF_LEN, t) = Cnt(h, t) + k
<1>1. /\ Cnt(h, t) = IF t <= h THEN h - t ELSE h - t + BUF_LEN
      /\ Cnt(h, t) \in 0 .. BUF_LEN - 1
      /\ Cnt(h, t) + k <= BUF_LEN - 1
  BY CntFacts, LenFact
<1>2. h + k \in Int /\ k \in 0 .. BUF_LEN - 1
  BY <1>1, LenFact
<1>3. (h + k) % BUF_LEN = IF h + k < BUF_LEN THEN h + k ELSE h + k - BUF_LEN
  BY <1>2, LenFact, Turn
<1>4. PICK u : u = (h + k) % BUF_LEN
  OBVIOUS
<1>5. u \in 0 .. BUF_LEN - 1
  BY <1>2, <1>3, <1>4, LenFact
<1>6. Cnt(u, t) = IF t <= u THEN u - t ELSE u - t + BUF_LEN
  BY <1>5, CntFacts
<1>7. Cnt(u, t) = Cnt(h, t) + k
  BY <1>1, <1>2, <1>3, <1>4, <1>6, LenFact
<1> QED BY <1>4, <1>5, <1>7

\* The place i cells behind t, reached in two goes.
LEMMA Twice ==
    ASSUME NEW t \in 0 .. BUF_LEN - 1, NEW k \in Nat, NEW i \in Nat, k + i < BUF_LEN
    PROVE  (((t + k) % BUF_LEN) + i) % BUF_LEN = (t + k + i) % BUF_LEN
<1>1. PICK u : u = (t + k) % BUF_LEN
  OBVIOUS
<1>2. u = IF t + k < BUF_LEN THEN t + k ELSE t + k - BUF_LEN
  BY <1>1, LenFact, Turn
<1>3. u + i \in Int /\ t + k + i \in Int
  BY <1>2, LenFact
<1>4. (t + k + i) % BUF_LEN = IF t + k + i < BUF_LEN THEN t + k + i ELSE t + k + i - BUF_LEN
  BY <1>3, LenFact, Turn
<1>5. (u + i) % BUF_LEN = IF u + i < BUF_LEN THEN u + i ELSE u + i - BUF_LEN
  BY <1>2, <1>3, LenFact, Turn
<1> QED BY <1>1, <1>2, <1>4, <1>5, LenFact

\* What is kept is what is sent first and what is kept after that.
LEMMA CutSplit ==
    ASSUME NEW b, NEW t \in 0 .. BUF_LEN - 1, NEW n \in 0 .. BUF_LEN - 1, NEW k \in 0 .. n,
           Cut(b, t, n) \in Seq(Cell)
    PROVE  /\ Cut(b, t, k) \in Seq(Cell) /\ Len(Cut(b, t, k)) = k
           /\ Cut(b, (t + k) % BUF_LEN, n - k) \in Seq(Cell)
           /\ Cut(b, t, n) = Cut(b, t, k) \o Cut(b, (t + k) % BUF_LEN, n - k)
<1>1. ASSUME NEW i \in 1 .. n - k
      PROVE  (((t + k) % BUF_LEN) + i - 1) % BUF_LEN = (t + (k + i) - 1) % BUF_LEN
  <2>1. i - 1 \in Nat /\ k \in Nat /\ k + (i - 1) < BUF_LEN
    BY LenFact
  <2>2. PICK u : u = (t + k) % BUF_LEN
    OBVIOUS
  <2>3. u \in Int
    BY <2>2, LenFact
  <2>4. (u + (i - 1)) % BUF_LEN = (t + k + (i - 1)) % BUF_LEN
    BY <2>1, <2>2, Twice, Zenon
  <2>5. u + (i - 1) = u + i - 1 /\ t + k + (i - 1) = t + (k + i) - 1
    BY <2>1, <2>3
  <2> QED BY <2>2, <2>4, <2>5
<1>2. Cut(b, (t + k) % BUF_LEN, n - k) = [i \in 1 .. n - k |-> Cut(b, t, n)[k + i]]
  <2>1. \A i \in 1 .. n - k : k + i \in 1 .. n
    BY LenFact
  <2>2. \A i \in 1 .. n - k : Cut(b, t, n)[k + i] = b[(t + (k + i) - 1) % BUF_LEN]
    BY <2>1, Zenon DEF Cut
  <2> QED BY <1>1, <2>2, Zenon DEF Cut
<1>3. Cut(b, t, k) = [i \in 1 .. k |-> Cut(b, t, n)[i]]
  <2>1. \A i \in 1 .. k : i \in 1 .. n
    BY LenFact
  <2> QED BY <2>1, Zenon DEF Cut
<1>4. Len(Cut(b, t, n)) = n
  BY LenFact DEF Cut
<1>5. PICK q : q = Cut(b, t, n)
  OBVIOUS
<1>6. /\ [i \in 1 .. k |-> q[i]] \in Seq(Cell) /\ Len([i \in 1 .. k |-> q[i]]) = k
      /\ [i \in 1 .. n - k |-> q[k + i]] \in Seq(Cell)
      /\ q = [i \in 1 .. k |-> q[i]] \o [i \in 1 .. n - k |-> q[k + i]]
  BY <1>4, <1>5, LenFact
<1> QED BY <1>2, <1>3, <1>5, <1>6, Zenon

\* How far the i-th cell from the tail is from the head.
LEMMA Distance ==
    ASSUME NEW h \in 0 .. BUF_LEN - 1, NEW t \in 0 .. BUF_LEN - 1, NEW i \in 0 .. BUF_LEN - 1
    PROVE  /\ (t + i) % BUF_LEN \in 0 .. BUF_LEN - 1
           /\ Cnt((t + i) % BUF_LEN, h) = IF Cnt(h, t) <= i THEN i - Cnt(h, t) ELSE i - Cnt(h, t) + BUF_LEN
<1>1. Cnt(h, t) = (IF t <= h THEN h - t ELSE h - t + BUF_LEN) /\ Cnt(h, t) \in 0 .. BUF_LEN - 1
  BY CntFacts
<1>2. PICK u : u = (t + i) % BUF_LEN
  OBVIOUS
<1>3. t + i \in Int
  BY LenFact
<1>4. u = IF t + i < BUF_LEN THEN t + i ELSE t + i - BUF_LEN
  BY <1>2, <1>3, LenFact, Turn
<1>5. u \in 0 .. BUF_LEN - 1
  BY <1>4, LenFact
<1>6. Cnt(u, h) = IF h <= u THEN u - h ELSE u - h + BUF_LEN
  BY <1>5, CntFacts
<1>7. Cnt(u, h) = IF Cnt(h, t) <= i THEN i - Cnt(h, t) ELSE i - Cnt(h, t) + BUF_LEN
  BY <1>1, <1>4, <1>6, LenFact
<1> QED BY <1>2, <1>5, <1>7, Zenon

\* buf_write(): the event stands behind what was kept; nothing that was kept is overwritten.
LEMMA WriteFacts ==
    ASSUME buf \in [0 .. BUF_LEN - 1 -> Cell \cup {None}], head \in 0 .. BUF_LEN - 1,
           NEW t \in 0 .. BUF_LEN - 1, Cut(buf, t, Cnt(head, t)) \in Seq(Cell),
           NEW m \in Message, m.size <= Space(head, t), Write(m)
    PROVE  /\ buf' \in [0 .. BUF_LEN - 1 -> Cell \cup {None}]
           /\ head' \in 0 .. BUF_LEN - 1
           /\ Cnt(head', t) = Cnt(head, t) + m.size
           /\ Cut(buf', t, Cnt(head', t)) = Cut(buf, t, Cnt(head, t)) \o Cells(m)
           /\ Cut(buf', t, Cnt(head', t)) \in Seq(Cell)
<1>1. /\ m.size \in Nat /\ Cells(m) \in Seq(Cell) /\ Len(Cells(m)) = m.size
      /\ \A k \in 1 .. m.size : Cells(m)[k] \in Cell
  BY MessageSize, CellsFacts
<1>2. PICK n : n = Cnt(head, t)
  OBVIOUS
<1>3. n \in 0 .. BUF_LEN - 1 /\ n + m.size <= BUF_LEN - 1
  <2>1. Cnt(head, t) \in 0 .. BUF_LEN - 1 /\ Space(head, t) = BUF_LEN - 1 - Cnt(head, t)
    BY CntFacts, Zenon
  <2> QED BY <1>1, <1>2, <2>1, LenFact
<1>4. head' \in 0 .. BUF_LEN - 1 /\ Cnt(head', t) = n + m.size
  BY <1>1, <1>2, CntAdd DEF Write
<1>5. \A i \in 0 .. BUF_LEN - 1 :
         /\ Cnt(i, head) \in 0 .. BUF_LEN - 1
         /\ buf'[i] = IF Cnt(i, head) < m.size THEN Cells(m)[Cnt(i, head) + 1] ELSE buf[i]
  BY CntFacts, Zenon DEF Write
<1>6. buf' \in [0 .. BUF_LEN - 1 -> Cell \cup {None}]
  <2>1. \A i \in 0 .. BUF_LEN - 1 : Cnt(i, head) < m.size => Cnt(i, head) + 1 \in 1 .. m.size
    <3>1. ASSUME NEW i \in 0 .. BUF_LEN - 1, NEW c \in 0 .. BUF_LEN - 1, c < m.size
          PROVE  c + 1 \in 1 .. m.size
      BY <1>1, <3>1, LenFact
    <3> QED BY <1>5, <3>1, Zenon
  <2>2. \A i \in 0 .. BUF_LEN - 1 : buf'[i] \in Cell \cup {None}
    BY <1>1, <1>5, <2>1, Zenon
  <2>3. buf' = [i \in 0 .. BUF_LEN - 1 |-> buf'[i]]
    BY Zenon DEF Write
  <2> QED BY <2>2, <2>3
<1>7. ASSUME NEW i \in 1 .. n
      PROVE  buf'[(t + i - 1) % BUF_LEN] = buf[(t + i - 1) % BUF_LEN]
  <2>1. i - 1 \in 0 .. BUF_LEN - 1 /\ t + (i - 1) = t + i - 1 /\ ~(n <= i - 1)
    BY <1>3, LenFact
  <2>2. PICK u : u = (t + i - 1) % BUF_LEN
    BY Zenon
  <2>3. u \in 0 .. BUF_LEN - 1 /\ Cnt(u, head) = i - 1 - n + BUF_LEN
    BY <1>2, <2>1, <2>2, Distance, Zenon
  <2>4. ~(i - 1 - n + BUF_LEN < m.size)
    BY <1>1, <1>3, LenFact
  <2> QED BY <1>5, <2>2, <2>3, <2>4, Zenon
<1>8. ASSUME NEW k \in 1 .. m.size
       PROVE  buf'[(t + (n + k) - 1) % BUF_LEN] = Cells(m)[k]
  <2>1. PICK i : i \in 0 .. BUF_LEN - 1 /\ t + i = t + (n + k) - 1 /\ n <= i /\ i = n + k - 1
    <3>1. n + k - 1 \in 0 .. BUF_LEN - 1 /\ t + (n + k - 1) = t + (n + k) - 1 /\ n <= n + k - 1
      BY <1>1, <1>3, LenFact
    <3> QED BY <3>1, Zenon
  <2>2. PICK u : u = (t + i) % BUF_LEN /\ u = (t + (n + k) - 1) % BUF_LEN
    BY <2>1, Zenon
  <2>3. u \in 0 .. BUF_LEN - 1 /\ Cnt(u, head) = i - n
    <3>1. /\ (t + i) % BUF_LEN \in 0 .. BUF_LEN - 1
          /\ Cnt((t + i) % BUF_LEN, head) = IF n <= i THEN i - n ELSE i - n + BUF_LEN
      BY <1>2, <2>1, Distance, Zenon
    <3> QED BY <2>1, <2>2, <3>1, Zenon
  <2>4. i - n < m.size /\ i - n + 1 = k
    BY <1>1, <1>3, <2>1, LenFact
  <2> QED BY <1>5, <2>2, <2>3, <2>4, Zenon
<1>9. PICK q, z : q = Cut(buf, t, n) /\ z = Cut(buf', t, n + m.size)
  BY Zenon
<1>10. q \in Seq(Cell) /\ Len(q) = n
  <2>1. Len(Cut(buf, t, n)) = n
    BY <1>3, LenFact DEF Cut
  <2> QED BY <1>2, <1>9, <2>1, Zenon
<1>11. \A i \in 1 .. n : z[i] = q[i]
  <2>1. \A i \in 1 .. n : i \in 1 .. n + m.size
    BY <1>1, <1>3, LenFact
  <2>2. \A i \in 1 .. n : z[i] = buf'[(t + i - 1) % BUF_LEN]
    BY <1>9, <2>1, Zenon DEF Cut
  <2>3. \A i \in 1 .. n : q[i] = buf[(t + i - 1) % BUF_LEN]
    BY <1>9, Zenon DEF Cut
  <2> QED BY <1>7, <2>2, <2>3, Zenon
<1>12. \A k \in 1 .. m.size : z[n + k] = Cells(m)[k]
  <2>1. \A k \in 1 .. m.size : n + k \in 1 .. n + m.size
    BY <1>1, <1>3, LenFact
  <2>2. \A k \in 1 .. m.size : z[n + k] = buf'[(t + (n + k) - 1) % BUF_LEN]
    BY <1>9, <2>1, Zenon DEF Cut
  <2> QED BY <1>8, <2>2, Zenon
<1>13. z = q \o Cells(m)
  <2>1. \A i \in 1 .. n + m.size : buf'[(t + i - 1) % BUF_LEN] \in Cell \cup {None}
    <3>1. \A i \in 1 .. n + m.size : (t + i - 1) % BUF_LEN \in 0 .. BUF_LEN - 1
      BY LenFact
    <3> QED BY <1>6, <3>1, Zenon
  <2>2. z \in [1 .. Len(q) + Len(Cells(m)) -> Cell \cup {None}]
    BY <1>1, <1>9, <1>10, <2>1, Zenon DEF Cut
  <2>3. \A i \in 1 .. Len(q) : z[i] = q[i]
    BY <1>10, <1>11, Zenon
  <2>4. \A k \in 1 .. Len(Cells(m)) : z[Len(q) + k] = Cells(m)[k]
    BY <1>1, <1>10, <1>12, Zenon
  <2>5. q \in Seq(Cell) /\ Cells(m) \in Seq(Cell)
    BY <1>1, <1>10, Zenon
  <2> QED BY <2>2, <2>3, <2>4, <2>5, IsCat, Zenon
<1>14. q \o Cells(m) \in Seq(Cell)
  BY <1>1, <1>10, CatFacts, Zenon
<1> QED BY <1>2, <1>4, <1>6, <1>9, <1>13, <1>14, Zenon

-----------------------------------------------------------------------------
(* Streams of cells. *)

\* An event behind whole ones.
LEMMA AppendWhole ==
    ASSUME NEW s \in Seq(Cell), Whole(s), Closed(s), NEW m \in Message
    PROVE  Whole(s \o Cells(m)) /\ Closed(s \o Cells(m))
<1>1. /\ m.size \in Nat /\ 1 < m.size
      /\ Cells(m) \in Seq(Cell) /\ Len(Cells(m)) = m.size
      /\ \A k \in 1 .. m.size : Cells(m)[k] = <<m, k>>
  BY MessageSize, CellsFacts
<1>2. PICK r : r = s \o Cells(m)
  BY Zenon
<1>3. /\ Len(s) \in Nat /\ Len(r) = Len(s) + m.size
      /\ \A i \in 1 .. Len(s) : r[i] = s[i]
      /\ \A k \in 1 .. m.size : r[Len(s) + k] = <<m, k>>
  <2>1. /\ Len(s) \in Nat /\ Len(s \o Cells(m)) = Len(s) + Len(Cells(m))
        /\ \A i \in 1 .. Len(s) : (s \o Cells(m))[i] = s[i]
        /\ \A k \in 1 .. Len(Cells(m)) : (s \o Cells(m))[Len(s) + k] = Cells(m)[k]
    BY <1>1, CatFacts, Zenon
  <2> QED BY <1>1, <1>2, <2>1, Zenon
<1>4. Closed(r)
  <2>1. Len(r) = Len(s) + m.size /\ m.size \in 1 .. m.size
    BY <1>1, <1>3
  <2>2. r[Len(r)] = <<m, m.size>>
    BY <1>3, <2>1, Zenon
  <2> QED BY <2>2 DEF Closed
<1>5. ASSUME NEW i \in 1 .. Len(s)
      PROVE  /\ r[i][2] <= i
             /\ \A j \in 1 .. r[i][1].size : i - r[i][2] + j <= Len(r) =>
                    r[i - r[i][2] + j] = <<r[i][1], j>>
  <2>1. PICK e, k : e = s[i][1] /\ k = s[i][2]
    BY Zenon
  <2>2. s[i] \in Cell
    OBVIOUS
  <2>3. k \in Nat /\ 1 <= k /\ k <= e.size /\ e.size \in Nat /\ k <= i
    BY <2>1, <2>2, CellFacts DEF Whole
  <2>4. \A j \in 1 .. e.size : i - k + j <= Len(s) => s[i - k + j] = <<e, j>>
    BY <2>1, Zenon DEF Whole
  <2>5. i - k + e.size <= Len(s)
    <3>1. SUFFICES ASSUME Len(s) < i - k + e.size PROVE FALSE
      BY <1>3, <2>3
    <3>2. PICK j : j = Len(s) - i + k
      OBVIOUS
    <3>3. j \in 1 .. e.size /\ i - k + j = Len(s) /\ j # e.size
      BY <1>3, <2>3, <3>1, <3>2
    <3>4. s[Len(s)] = <<e, j>>
      BY <1>3, <2>4, <3>3
    <3>5. s # <<>>
      BY <1>3
    <3> QED BY <3>3, <3>4, <3>5 DEF Closed
  <2>6. \A j \in 1 .. e.size : i - k + j \in 1 .. Len(s) /\ i - k + j <= Len(s)
    BY <1>3, <2>3, <2>5
  <2>7. \A j \in 1 .. e.size : r[i - k + j] = <<e, j>>
    BY <1>3, <2>4, <2>6, Zenon
  <2> QED BY <1>3, <2>1, <2>3, <2>7, Zenon
<1>6. ASSUME NEW i \in 1 .. Len(r), ~(i <= Len(s))
      PROVE  /\ r[i][2] <= i
             /\ \A j \in 1 .. r[i][1].size : i - r[i][2] + j <= Len(r) =>
                    r[i - r[i][2] + j] = <<r[i][1], j>>
  <2>1. PICK k : k = i - Len(s)
    OBVIOUS
  <2>2. k \in 1 .. m.size /\ Len(s) + k = i
    BY <1>1, <1>3, <1>6, <2>1
  <2>3. r[i] = <<m, k>>
    BY <1>3, <2>2, Zenon
  <2>4. r[i][1] = m /\ r[i][2] = k
    BY <2>3
  <2>5. \A j \in 1 .. m.size : i - k + j = Len(s) + j
    BY <1>1, <1>3, <2>1, <2>2
  <2>6. k <= i
    BY <1>1, <1>3, <2>2
  <2> QED BY <1>3, <2>4, <2>5, <2>6, Zenon
<1>7. Whole(r)
  <2>1. \A i \in 1 .. Len(r) : i <= Len(s) => i \in 1 .. Len(s)
    BY <1>1, <1>3
  <2> QED BY <1>5, <1>6, <2>1, Zenon DEF Whole
<1> QED BY <1>2, <1>4, <1>7, Zenon

\* A part of a row is read.
LEMMA Reading ==
    ASSUME NEW a \in Seq(Cell), NEW n \in 0 .. Len(a)
    PROVE  /\ SubSeq(a, 1, n) \in Seq(Cell) /\ Len(SubSeq(a, 1, n)) = n
           /\ SubSeq(a, 1, n) = [i \in 1 .. n |-> a[i]]
           /\ SubSeq(a, n + 1, Len(a)) \in Seq(Cell) /\ Len(SubSeq(a, n + 1, Len(a))) = Len(a) - n
           /\ \A i \in 1 .. Len(a) - n : SubSeq(a, n + 1, Len(a))[i] = a[n + i]
           /\ a = SubSeq(a, 1, n) \o SubSeq(a, n + 1, Len(a))
<1>1. Len(a) \in Nat /\ n \in Nat /\ n <= Len(a)
  OBVIOUS
<1>2. PICK b, c : b = SubSeq(a, 1, n) /\ c = SubSeq(a, n + 1, Len(a))
  BY Zenon
<1>3. b \in Seq(Cell) /\ Len(b) = n
  BY <1>1, <1>2
<1>4. b = [i \in 1 .. n |-> a[i]]
  BY <1>1, <1>2
<1>5. c \in Seq(Cell) /\ Len(c) = Len(a) - n
  BY <1>1, <1>2
<1>6. \A i \in 1 .. Len(a) - n : c[i] = a[n + i]
  <2>1. ASSUME NEW i \in 1 .. Len(a) - n PROVE c[i] = a[i + (n + 1) - 1]
    BY <1>1, <1>2
  <2>2. \A i \in 1 .. Len(a) - n : i + (n + 1) - 1 = n + i
    BY <1>1
  <2> QED BY <2>1, <2>2, Zenon
<1>7. a = b \o c
  <2>1. a \in [1 .. Len(b) + Len(c) -> Cell]
    <3>1. Len(b) + Len(c) = Len(a)
      BY <1>1, <1>3, <1>5
    <3>2. a \in [1 .. Len(a) -> Cell]
      OBVIOUS
    <3> QED BY <3>1, <3>2, Zenon
  <2>2. \A i \in 1 .. Len(b) : a[i] = b[i]
    BY <1>3, <1>4, Zenon
  <2>3. \A k \in 1 .. Len(c) : a[Len(b) + k] = c[k]
    BY <1>3, <1>5, <1>6, Zenon
  <2> QED BY <1>3, <1>5, <2>1, <2>2, <2>3, IsCat, Zenon
<1> QED BY <1>2, <1>3, <1>4, <1>5, <1>6, <1>7, Zenon

\* The empty row.
LEMMA CatEmpty == <<>> \in Seq(Cell) /\ \A a \in Seq(Cell) : a \o <<>> = a /\ <<>> \o a = a
OBVIOUS

\* A row in front of another one, as an operator of its own.
Cat(a, b) == a \o b

\* It is a row, and three rows can be put together in either order.
LEMMA Regroup ==
    /\ \A a, b \in Seq(Cell) : Cat(a, b) \in Seq(Cell)
    /\ \A a, b, c \in Seq(Cell) : Cat(Cat(a, b), c) = Cat(a, Cat(b, c))
<1>1. \A a, b \in Seq(Cell) : a \o b \in Seq(Cell)
  OBVIOUS
<1>2. \A a, b, c \in Seq(Cell) : (a \o b) \o c = a \o (b \o c)
  OBVIOUS
<1> QED BY <1>1, <1>2, Zenon DEF Cat

\* Its length.
LEMMA CatLen == \A a, b \in Seq(Cell) : Len(Cat(a, b)) = Len(a) + Len(b)
BY DEF Cat

\* Five rows: the one in the middle is handed from one side to the other.
LEMMA FiveRows ==
    ASSUME NEW a \in Seq(Cell), NEW b \in Seq(Cell), NEW x \in Seq(Cell), NEW y \in Seq(Cell),
           NEW z \in Seq(Cell)
    PROVE  /\ Cat(Cat(a, b), Cat(x, z)) \in Seq(Cell)
           /\ Cat(Cat(a, Cat(b, x)), Cat(z, y)) = Cat(Cat(Cat(a, b), Cat(x, z)), y)
<1>1. PICK c, d, e : c = Cat(a, b) /\ d = Cat(c, x) /\ e = Cat(x, z)
  BY Zenon
<1>2. c \in Seq(Cell) /\ d \in Seq(Cell) /\ e \in Seq(Cell) /\ Cat(c, e) \in Seq(Cell)
  BY <1>1, Regroup
<1>3. d = Cat(a, Cat(b, x))
  BY <1>1, Regroup
<1>4. Cat(d, Cat(z, y)) = Cat(Cat(d, z), y)
  BY <1>2, Regroup
<1>5. Cat(d, z) = Cat(c, e)
  BY <1>1, <1>2, Regroup
<1> QED BY <1>1, <1>2, <1>3, <1>4, <1>5, Zenon

\* What is in front of a break.
LEMMA PrefixWhole ==
    ASSUME NEW a \in Seq(Cell), NEW b \in Seq(Cell), Whole(a \o b)
    PROVE  Whole(a)
<1>1. PICK r : r = a \o b
  BY Zenon
<1>2. /\ Len(a) \in Nat /\ Len(b) \in Nat /\ Len(r) = Len(a) + Len(b)
      /\ \A i \in 1 .. Len(a) : r[i] = a[i]
  BY <1>1, CatFacts, Zenon
<1>3. ASSUME NEW i \in 1 .. Len(a)
      PROVE  /\ a[i][2] <= i
             /\ \A j \in 1 .. a[i][1].size : i - a[i][2] + j <= Len(a) =>
                    a[i - a[i][2] + j] = <<a[i][1], j>>
  <2>1. PICK e, k : e = a[i][1] /\ k = a[i][2]
    BY Zenon
  <2>2. a[i] \in Cell
    BY <1>2
  <2>3. k \in Nat /\ e.size \in Nat
    BY <2>1, <2>2, CellFacts, Zenon
  <2>4. i \in 1 .. Len(r) /\ r[i] = a[i]
    <3>1. i \in 1 .. Len(a) + Len(b)
      BY <1>2
    <3> QED BY <1>2, <3>1, Zenon
  <2>5. k <= i /\ \A j \in 1 .. e.size : i - k + j <= Len(r) => r[i - k + j] = <<e, j>>
    BY <1>1, <2>1, <2>4, Zenon DEF Whole
  <2>6. \A j \in 1 .. e.size : i - k + j <= Len(a) =>
           i - k + j <= Len(a) + Len(b) /\ i - k + j \in 1 .. Len(a)
    BY <1>2, <2>3, <2>5
  <2> QED BY <1>2, <2>1, <2>5, <2>6, Zenon
<1> QED BY <1>3, Zenon DEF Whole

\* An event that is complete.
Ready(s) == s # <<>> /\ s[1][1].size <= Len(s)

\* What is cut off in front is the event, and what is left is whole again.
LEMMA TakeWhole ==
    ASSUME NEW s \in Seq(Cell), Whole(s), Ready(s)
    PROVE  /\ s[1][1] \in Message /\ First(s) = Cells(s[1][1])
           /\ Rest(s) \in Seq(Cell) /\ Whole(Rest(s))
           /\ Closed(s) => Closed(Rest(s))
<1>1. PICK m, n : m = s[1][1] /\ n = m.size
  BY Zenon
<1>2. Len(s) \in Nat /\ 1 \in 1 .. Len(s) /\ s[1] \in Cell
  BY DEF Ready
<1>3. m \in Message /\ n \in Nat /\ 1 < n /\ n <= Len(s)
  BY <1>1, <1>2, CellFacts, Zenon DEF Ready
<1>4. \A j \in 1 .. n : s[j] = <<m, j>>
  <2>1. PICK k : k = s[1][2]
    BY Zenon
  <2>2. k \in Nat /\ 1 <= k
    BY <1>2, <2>1, CellFacts, Zenon
  <2>3. k <= 1 /\ \A j \in 1 .. n : 1 - k + j <= Len(s) => s[1 - k + j] = <<m, j>>
    BY <1>1, <1>2, <2>1, Zenon DEF Whole
  <2>4. \A j \in 1 .. n : 1 - k + j = j /\ j <= Len(s)
    BY <1>2, <1>3, <2>2, <2>3
  <2> QED BY <2>3, <2>4, Zenon
<1>5. First(s) = Cells(m)
  <2>1. First(s) = [j \in 1 .. n |-> s[j]]
    <3>1. n \in 0 .. Len(s) /\ First(s) = SubSeq(s, 1, n)
      BY <1>1, <1>2, <1>3 DEF First
    <3> QED BY <3>1, Reading, Zenon
  <2> QED BY <1>1, <1>4, <2>1, Zenon DEF Cells
<1>6. PICK r : r = Rest(s)
  BY Zenon
<1>7. /\ r \in Seq(Cell) /\ Len(r) = Len(s) - n
      /\ \A i \in 1 .. Len(r) : r[i] = s[n + i]
  <2>1. n \in 0 .. Len(s) /\ r = SubSeq(s, n + 1, Len(s))
    BY <1>1, <1>2, <1>3, <1>6 DEF Rest
  <2> QED BY <2>1, Reading, Zenon
<1>8. ASSUME NEW i \in 1 .. Len(r)
      PROVE  /\ r[i][2] <= i
             /\ \A j \in 1 .. r[i][1].size : i - r[i][2] + j <= Len(r) =>
                    r[i - r[i][2] + j] = <<r[i][1], j>>
  <2>1. PICK x, e, k : x = n + i /\ e = s[x][1] /\ k = s[x][2]
    BY Zenon
  <2>2. x \in 1 .. Len(s) /\ s[x] \in Cell /\ r[i] = s[x]
    BY <1>2, <1>3, <1>7, <2>1
  <2>3. k \in Nat /\ 1 <= k /\ k <= e.size /\ e.size \in Nat
    BY <2>1, <2>2, CellFacts, Zenon
  <2>4. k <= x /\ \A j \in 1 .. e.size : x - k + j <= Len(s) => s[x - k + j] = <<e, j>>
    BY <2>1, <2>2, Zenon DEF Whole
  <2>5. /\ Len(s) \in Nat /\ n \in Nat /\ n <= Len(s) /\ Len(r) = Len(s) - n
        /\ i \in Nat /\ 1 <= i /\ i <= Len(r) /\ x = n + i /\ k <= x
    BY <1>2, <1>3, <1>7, <2>1, <2>4
  <2>6. k <= i
    <3>1. SUFFICES ASSUME i < k PROVE FALSE
      BY <2>3, <2>5
    <3>2. PICK j : j = x - k + 1
      BY Zenon
    <3>3. j \in 1 .. n /\ j <= Len(s) /\ 1 \in 1 .. e.size
      BY <2>3, <2>5, <3>1, <3>2
    <3>4. s[j] = <<m, j>> /\ s[j] = <<e, 1>>
      BY <1>4, <2>4, <3>2, <3>3, Zenon
    <3>5. e = m /\ j = 1
      BY <3>4
    <3>6. k <= n /\ x - k + 1 = 1
      BY <1>1, <2>3, <3>2, <3>5, Zenon
    <3> QED BY <2>3, <2>5, <3>6
  <2>7. \A j \in 1 .. e.size : i - k + j <= Len(r) =>
           /\ x - k + j <= Len(s) /\ i - k + j \in 1 .. Len(r)
           /\ n + (i - k + j) = x - k + j
    BY <2>3, <2>6, <2>5
  <2>8. \A j \in 1 .. e.size : i - k + j <= Len(r) => r[i - k + j] = <<e, j>>
    BY <1>7, <2>4, <2>7, Zenon
  <2> QED BY <2>1, <2>2, <2>6, <2>8, Zenon
<1>9. Whole(r)
  BY <1>8, Zenon DEF Whole
<1>10. Closed(s) => Closed(r)
  <2>1. r # <<>> => Len(r) \in 1 .. Len(r) /\ n + Len(r) = Len(s)
    BY <1>2, <1>3, <1>7
  <2>2. r # <<>> => r[Len(r)] = s[Len(s)]
    BY <1>7, <2>1, Zenon
  <2>3. s # <<>>
    BY Zenon DEF Ready
  <2> QED BY <2>2, <2>3, Zenon DEF Closed
<1> QED BY <1>1, <1>3, <1>5, <1>6, <1>7, <1>9, <1>10, Zenon

\* The first event is cut off, whatever stands behind the row it is in.
LEMMA TakeCat ==
    ASSUME NEW a \in Seq(Cell), NEW b \in Seq(Cell), Ready(a)
    PROVE  /\ Ready(a \o b) /\ First(a \o b) = First(a) /\ Rest(a) \in Seq(Cell)
           /\ Rest(a \o b) = Rest(a) \o b
           /\ Len(Rest(a)) \in Nat /\ Len(Rest(a)) < Len(a)
<1>1. PICK n, r : n = a[1][1].size /\ r = a \o b
  BY Zenon
<1>2. Len(a) \in Nat /\ 1 \in 1 .. Len(a) /\ a[1] \in Cell
  BY DEF Ready
<1>3. n \in Nat /\ 1 < n /\ n <= Len(a)
  BY <1>1, <1>2, CellFacts, Zenon DEF Ready
<1>4. /\ Len(b) \in Nat /\ r \in Seq(Cell) /\ Len(r) = Len(a) + Len(b)
      /\ \A i \in 1 .. Len(a) : r[i] = a[i]
      /\ \A k \in 1 .. Len(b) : r[Len(a) + k] = b[k]
  BY <1>1, CatFacts, Zenon
<1>5. r[1] = a[1] /\ r # <<>> /\ n <= Len(r)
  BY <1>2, <1>3, <1>4
<1>6. SubSeq(r, 1, n) = SubSeq(a, 1, n)
  <2>1. n \in 0 .. Len(a) /\ n \in 0 .. Len(r) /\ \A i \in 1 .. n : i \in 1 .. Len(a)
    BY <1>2, <1>3, <1>4
  <2>2. SubSeq(r, 1, n) = [i \in 1 .. n |-> r[i]] /\ SubSeq(a, 1, n) = [i \in 1 .. n |-> a[i]]
    BY <1>4, <2>1, Reading, Zenon
  <2> QED BY <1>4, <2>1, <2>2, Zenon
<1>7. PICK c, d : c = SubSeq(a, n + 1, Len(a)) /\ d = SubSeq(r, n + 1, Len(r))
  BY Zenon
<1>8. /\ c \in Seq(Cell) /\ Len(c) = Len(a) - n
      /\ \A i \in 1 .. Len(c) : c[i] = a[n + i]
  <2>1. n \in 0 .. Len(a)
    BY <1>2, <1>3
  <2> QED BY <1>7, <2>1, Reading, Zenon
<1>9. /\ d \in [1 .. Len(r) - n -> Cell]
      /\ \A i \in 1 .. Len(r) - n : d[i] = r[n + i]
  <2>1. n \in 0 .. Len(r)
    BY <1>2, <1>3, <1>4
  <2>2. d \in Seq(Cell) /\ Len(d) = Len(r) - n /\ \A i \in 1 .. Len(r) - n : d[i] = r[n + i]
    BY <1>4, <1>7, <2>1, Reading, Zenon
  <2>3. d \in [1 .. Len(d) -> Cell]
    BY <2>2
  <2> QED BY <2>2, <2>3, Zenon
<1>10. d = c \o b
  <2>1. Len(r) - n = Len(c) + Len(b)
    BY <1>2, <1>3, <1>4, <1>8
  <2>2. \A i \in 1 .. Len(c) : i \in 1 .. Len(r) - n /\ n + i \in 1 .. Len(a)
    BY <1>2, <1>3, <1>4, <1>8
  <2>3. \A i \in 1 .. Len(c) : d[i] = c[i]
    BY <1>4, <1>8, <1>9, <2>2, Zenon
  <2>4. \A k \in 1 .. Len(b) : Len(c) + k \in 1 .. Len(r) - n /\ n + (Len(c) + k) = Len(a) + k
    <3>1. \A k \in 1 .. Len(b) : Len(c) + k \in 1 .. Len(r) - n
      BY <1>2, <1>3, <1>4, <1>8
    <3>2. \A k \in 1 .. Len(b) : n + (Len(c) + k) = Len(a) + k
      BY <1>2, <1>3, <1>8
    <3> QED BY <3>1, <3>2, Zenon
  <2>5. \A k \in 1 .. Len(b) : d[Len(c) + k] = b[k]
    BY <1>4, <1>9, <2>4, Zenon
  <2>6. d \in [1 .. Len(c) + Len(b) -> Cell]
    BY <1>9, <2>1, Zenon
  <2> QED BY <1>8, <2>3, <2>5, <2>6, IsCat, Zenon
<1>11. Len(c) \in Nat /\ Len(c) < Len(a)
  BY <1>2, <1>3, <1>8
<1>12. /\ First(a) = SubSeq(a, 1, n) /\ Rest(a) = c
       /\ First(r) = SubSeq(r, 1, n) /\ Rest(r) = d
  BY <1>1, <1>5, <1>7, Zenon DEF First, Rest
<1>13. Ready(r)
  BY <1>1, <1>5, Zenon DEF Ready
<1> QED BY <1>1, <1>6, <1>8, <1>10, <1>11, <1>12, <1>13, Zenon

-----------------------------------------------------------------------------
(* The sender. *)

\* The settings are those of the two kinds of ends.
LEMMA ModeFacts ==
    ASSUME mode \in Modes
    PROVE  /\ mode.sender \in {"cdev", "tcp"} /\ mode.reader \in {"cdev", "tcp"}
           /\ mode.order \in BOOLEAN
BY EventSpreadAssumption

\* What the invariants say of the indices and the counters.
LEMMA Indices ==
    ASSUME TypeOK
    PROVE  /\ head \in 0 .. BUF_LEN - 1 /\ tail \in 0 .. BUF_LEN - 1 /\ len \in 0 .. BUF_LEN - 1
           /\ Cnt(head, tail) \in 0 .. BUF_LEN - 1
           /\ Space(head, tail) = BUF_LEN - 1 - Cnt(head, tail)
           /\ Cnt(head, tail) = 0 <=> head = tail
           /\ lost \in Nat /\ nr \in Nat /\ nr <= MaxEvents /\ lost <= MaxEvents /\ MaxEvents \in Nat
<1>1. head \in 0 .. BUF_LEN - 1 /\ tail \in 0 .. BUF_LEN - 1 /\ len \in 0 .. BUF_LEN - 1
  BY Zenon DEF TypeOK
<1>2. lost \in Nat /\ nr \in Nat /\ nr <= MaxEvents /\ lost <= MaxEvents /\ MaxEvents \in Nat
  <2>1. lost \in 0 .. MaxEvents /\ nr \in 0 .. MaxEvents
    BY Zenon DEF TypeOK
  <2> QED BY <2>1, EventSpreadAssumption
<1> QED BY <1>1, <1>2, CntFacts, Zenon

\* What can be written into the connection is no more than what it has room for.
LEMMA RoomFacts ==
    ASSUME TypeOK, CellInv
    PROVE  /\ Room \in Nat /\ Len(pipe) \in Nat /\ PipeLen \in Nat
           /\ conn # "up" => Room = 0
           /\ Len(pipe) + Room <= PipeLen \/ Room = 0
           /\ Len(pipe) <= PipeLen
<1>1. pipe \in Seq(Cell) /\ Len(pipe) <= PipeLen
  BY Zenon DEF TypeOK, CellInv
<1>2. Len(pipe) \in Nat
  BY <1>1
<1>3. PipeLen \in Nat
  BY EventSpreadAssumption
<1>4. Room = IF conn = "up" THEN PipeLen - Len(pipe) ELSE 0
  BY Zenon DEF Room
<1> QED BY <1>1, <1>2, <1>3, <1>4

\* The tail moves on: what it passes was in front of what is kept.
LEMMA AdvanceFacts ==
    ASSUME TypeOK, CellInv, NEW k \in 0 .. Cnt(head, tail), NEW t, t = (tail + k) % BUF_LEN
    PROVE  /\ t \in 0 .. BUF_LEN - 1 /\ Cnt(head, t) = Cnt(head, tail) - k
           /\ Queued(k) \in Seq(Cell) /\ Len(Queued(k)) = k
           /\ Cut(buf, t, Cnt(head, t)) \in Seq(Cell)
           /\ Kept = Queued(k) \o Cut(buf, t, Cnt(head, t))
<1>1. t \in 0 .. BUF_LEN - 1 /\ Cnt(head, t) = Cnt(head, tail) - k
  BY Indices, CntDrop, Zenon
<1>2. Queued(k) = Cut(buf, tail, k)
  BY Zenon DEF Queued, Cut
<1>3. PICK n : n = Cnt(head, tail)
  BY Zenon
<1>4. n \in 0 .. BUF_LEN - 1 /\ Cut(buf, tail, n) \in Seq(Cell) /\ tail \in 0 .. BUF_LEN - 1 /\ k \in 0 .. n
  BY <1>3, Indices, Zenon DEF CellInv, Kept
<1>5. /\ Cut(buf, tail, k) \in Seq(Cell) /\ Len(Cut(buf, tail, k)) = k
      /\ Cut(buf, t, n - k) \in Seq(Cell)
      /\ Cut(buf, tail, n) = Cut(buf, tail, k) \o Cut(buf, t, n - k)
  BY <1>4, CutSplit, Zenon
<1> QED BY <1>1, <1>2, <1>3, <1>5, Zenon DEF Kept

\* A step of the sender: the first of the cells it keeps go into the pipe, an event is added.
Pushes ==
    \E x, y, z \in Seq(Cell) :
        /\ y = <<>> \/ \E m \in Message : y = Cells(m)
        /\ Kept = x \o z /\ Kept' = z \o y
        /\ pipe' = pipe \o x
        /\ conn = "up" \/ x = <<>>

\* Nothing moves.
LEMMA PushesNothing ==
    ASSUME CellInv, UNCHANGED <<buf, head, tail, pipe>>
    PROVE  Pushes
<1>1. Kept' = Kept
  BY DEF Kept, Cut, Cnt
<1>2. Kept \in Seq(Cell) /\ pipe \in Seq(Cell)
  BY Zenon DEF CellInv
<1>3. PICK x : x = <<>> /\ x \in Seq(Cell)
  BY CatEmpty, <1>2, Zenon
<1>4. Kept = x \o Kept /\ Kept' = Kept \o x /\ pipe' = pipe \o x
  BY <1>1, <1>2, <1>3, CatEmpty, Zenon
<1> QED BY <1>2, <1>3, <1>4, Zenon DEF Pushes

\* An event is written behind what is kept, or nothing is.
LEMMA PushesEvent ==
    ASSUME TypeOK, CellInv, NEW m \in Message, m.size <= Space(head, tail), Write(m),
           UNCHANGED <<tail, pipe>>
    PROVE  /\ Pushes /\ head' \in 0 .. BUF_LEN - 1
           /\ buf' \in [0 .. BUF_LEN - 1 -> Cell \cup {None}]
<1>1. /\ buf \in [0 .. BUF_LEN - 1 -> Cell \cup {None}] /\ Cut(buf, tail, Cnt(head, tail)) \in Seq(Cell)
      /\ pipe \in Seq(Cell)
  BY Zenon DEF CellInv, Kept
<1>2. /\ buf' \in [0 .. BUF_LEN - 1 -> Cell \cup {None}] /\ head' \in 0 .. BUF_LEN - 1
      /\ Cut(buf', tail, Cnt(head', tail)) = Cut(buf, tail, Cnt(head, tail)) \o Cells(m)
  BY <1>1, Indices, WriteFacts, Zenon
<1>3. Kept \in Seq(Cell) /\ Cells(m) \in Seq(Cell) /\ Kept' = Kept \o Cells(m)
  BY <1>1, <1>2, CellsFacts, Zenon DEF Kept
<1>4. PICK x : x = <<>> /\ x \in Seq(Cell)
  BY CatEmpty, <1>1, Zenon
<1>5. Kept = x \o Kept /\ pipe' = pipe \o x
  BY <1>1, <1>3, <1>4, CatEmpty, Zenon
<1> QED BY <1>2, <1>3, <1>4, <1>5, Zenon DEF Pushes

\* The first n cells are sent, and perhaps an event is written behind the others.
LEMMA PushesCells ==
    ASSUME TypeOK, CellInv, NEW n \in 0 .. Cnt(head, tail), n <= Room,
           tail' = (tail + n) % BUF_LEN, pipe' = pipe \o Queued(n),
           \/ UNCHANGED <<buf, head>>
           \/ \E m \in Message : m.size <= Space(head, tail') /\ Write(m)
    PROVE  /\ Pushes /\ head' \in 0 .. BUF_LEN - 1 /\ tail' \in 0 .. BUF_LEN - 1
           /\ buf' \in [0 .. BUF_LEN - 1 -> Cell \cup {None}]
           /\ Len(pipe') <= PipeLen
           /\ Cnt(head, tail') = Cnt(head, tail) - n
<1>1. PICK t, x, z : t = tail' /\ x = Queued(n) /\ z = Cut(buf, t, Cnt(head, t))
  BY Zenon
<1>2. /\ t \in 0 .. BUF_LEN - 1 /\ Cnt(head, t) = Cnt(head, tail) - n
      /\ x \in Seq(Cell) /\ Len(x) = n /\ z \in Seq(Cell) /\ Kept = x \o z
  BY <1>1, AdvanceFacts, Zenon
<1>3. /\ buf \in [0 .. BUF_LEN - 1 -> Cell \cup {None}] /\ pipe \in Seq(Cell)
      /\ head \in 0 .. BUF_LEN - 1
  BY Indices, Zenon DEF CellInv
<1>4. n \in Nat
  <2>1. PICK c : c = Cnt(head, tail)
    BY Zenon
  <2>2. c \in Nat /\ n \in 0 .. c
    BY <2>1, Indices
  <2> QED BY <2>2
<1>5. conn = "up" \/ x = <<>>
  <2>1. conn # "up" => n = 0
    BY <1>4, RoomFacts
  <2>2. n = 0 => x = <<>>
    BY <1>2
  <2> QED BY <2>1, <2>2, Zenon
<1>6. Len(pipe') <= PipeLen
  <2>1. Len(pipe') = Len(pipe) + n
    <3>1. Len(Cat(pipe, x)) = Len(pipe) + Len(x)
      BY <1>2, <1>3, CatLen, Zenon
    <3> QED BY <1>1, <1>2, <3>1, Zenon DEF Cat
  <2> QED BY <1>4, <2>1, RoomFacts
<1>7. CASE UNCHANGED <<buf, head>>
  <2>1. PICK y : y = <<>> /\ y \in Seq(Cell)
    BY <1>3, CatEmpty, Zenon
  <2>2. Kept' = z
    BY <1>1, <1>7, Zenon DEF Kept
  <2>3. Kept' = z \o y
    BY <1>2, <2>1, <2>2, CatEmpty, Zenon
  <2>4. Pushes
    BY <1>1, <1>2, <1>5, <2>1, <2>3, Zenon DEF Pushes
  <2> QED BY <1>1, <1>2, <1>3, <1>6, <1>7, <2>4, Zenon
<1>8. ASSUME NEW m \in Message, m.size <= Space(head, t), Write(m)
      PROVE  /\ Pushes /\ head' \in 0 .. BUF_LEN - 1
             /\ buf' \in [0 .. BUF_LEN - 1 -> Cell \cup {None}]
  <2>1. /\ buf' \in [0 .. BUF_LEN - 1 -> Cell \cup {None}] /\ head' \in 0 .. BUF_LEN - 1
        /\ Cut(buf', t, Cnt(head', t)) = z \o Cells(m)
    BY <1>1, <1>2, <1>3, <1>8, WriteFacts, Zenon
  <2>2. Kept' = z \o Cells(m) /\ Cells(m) \in Seq(Cell)
    BY <1>1, <2>1, CellsFacts, Zenon DEF Kept
  <2>3. Pushes
    BY <1>1, <1>2, <1>5, <2>2, Zenon DEF Pushes
  <2> QED BY <2>1, <2>3, Zenon
<1> QED BY <1>1, <1>2, <1>6, <1>7, <1>8, Zenon

\* Rows of cells stay rows of cells.
LEMMA PushesKeep ==
    ASSUME CellInv, Pushes, UNCHANGED rbuf, buf' \in [0 .. BUF_LEN - 1 -> Cell \cup {None}]
    PROVE  CellInv'
<1>1. pipe \in Seq(Cell) /\ rbuf \in Seq(Cell)
  BY Zenon DEF CellInv
<1>2. PICK x, y, z \in Seq(Cell) : Kept' = z \o y /\ pipe' = pipe \o x
  BY Zenon DEF Pushes
<1>3. Kept' \in Seq(Cell) /\ pipe' \in Seq(Cell)
  BY <1>1, <1>2, CatFacts, Zenon
<1> QED BY <1>1, <1>3, Zenon DEF CellInv

\* The stream grows by an event, or stays as it is.
LEMMA PushesStream ==
    ASSUME CellInv, Pushes, UNCHANGED <<rbuf, arrived, conn>>, StreamInv
    PROVE  StreamInv'
<1>1. pipe \in Seq(Cell) /\ rbuf \in Seq(Cell)
  BY Zenon DEF CellInv
<1>2. PICK x, y, z \in Seq(Cell) :
          /\ y = <<>> \/ \E m \in Message : y = Cells(m)
          /\ Kept = x \o z /\ Kept' = z \o y /\ pipe' = pipe \o x
          /\ conn = "up" \/ x = <<>>
  BY Zenon DEF Pushes
<1>3. ArrivesWhole'
  BY Zenon DEF StreamInv, ArrivesWhole
<1>4. CASE conn = "up"
  <2>1. /\ Stream = Cat(Cat(rbuf, pipe), Cat(x, z))
        /\ Stream' = Cat(Cat(rbuf, Cat(pipe, x)), Cat(z, y))
    BY <1>2, <1>4, Zenon DEF Stream, Cat
  <2>2. Stream \in Seq(Cell) /\ Stream' = Stream \o y
    <3>1. /\ Cat(Cat(rbuf, pipe), Cat(x, z)) \in Seq(Cell)
          /\ Cat(Cat(rbuf, Cat(pipe, x)), Cat(z, y)) = Cat(Cat(Cat(rbuf, pipe), Cat(x, z)), y)
      BY <1>1, FiveRows
    <3>2. Cat(Cat(Cat(rbuf, pipe), Cat(x, z)), y) = Cat(Cat(rbuf, pipe), Cat(x, z)) \o y
      BY Zenon DEF Cat
    <3> QED BY <2>1, <3>1, <3>2, Zenon
  <2>3. Whole(Stream) /\ Closed(Stream)
    BY <1>4, Zenon DEF StreamInv
  <2>4. CASE y = <<>>
    <3>1. Stream' = Stream
      BY <2>2, <2>4, CatEmpty, Zenon
    <3> QED BY <1>3, <1>4, <2>3, <3>1, Zenon DEF StreamInv
  <2>5. ASSUME NEW m \in Message, y = Cells(m)
        PROVE  Whole(Stream') /\ Closed(Stream')
    BY <2>2, <2>3, <2>5, AppendWhole, Zenon
  <2> QED BY <1>2, <1>3, <2>4, <2>5, Zenon DEF StreamInv
<1>5. CASE conn # "up"
  <2>1. pipe' = pipe
    BY <1>1, <1>2, <1>5, CatEmpty, Zenon
  <2>2. Stream' = Stream /\ conn' # "up"
    BY <1>5, <2>1, Zenon DEF Stream
  <2> QED BY <1>3, <1>5, <2>2, Zenon DEF StreamInv
<1> QED BY <1>4, <1>5, Zenon

\* An event is stored or counted as lost.
LEMMA StoreFacts ==
    ASSUME TypeOK, CellInv, ArmedInv, NEW m \in Message, Store(m), UNCHANGED <<pipe, rbuf>>
    PROVE  /\ Pushes /\ CellInv' /\ UNCHANGED <<tail, connected>>
           /\ head' \in 0 .. BUF_LEN - 1
           /\ lost' = lost \/ lost' = lost + 1
           /\ m.size <= Space(head, tail) => lost' = lost
           /\ armed' \in BOOLEAN
           /\ connected' /\ Cnt(head', tail') > 0 => armed'
<1>1. CASE Space(head, tail) >= m.size
  <2>1. Write(m) /\ Arm(tail) /\ UNCHANGED <<tail, lost, connected>>
    BY <1>1, Zenon DEF Store
  <2>2. m.size <= Space(head, tail)
    <3>1. PICK a, b : a = m.size /\ b = Space(head, tail)
      BY Zenon
    <3>2. a \in Int /\ b \in Int /\ b >= a
      BY <1>1, <3>1, Indices, LenFact, MessageSize
    <3> QED BY <3>1, <3>2
  <2>3. /\ Pushes /\ head' \in 0 .. BUF_LEN - 1
        /\ buf' \in [0 .. BUF_LEN - 1 -> Cell \cup {None}]
    BY <2>1, <2>2, PushesEvent, Zenon
  <2>4. CellInv'
    BY <2>3, PushesKeep, Zenon
  <2>5. armed' \in BOOLEAN /\ (connected => armed')
    <3>1. connected /\ Cnt(head, tail) # 0 => armed
      BY Indices DEF ArmedInv
    <3>2. armed' = (armed \/ Cnt(head, tail) = 0)
      BY <2>1, Zenon DEF Arm
    <3> QED BY <3>1, <3>2, Zenon
  <2> QED BY <2>1, <2>3, <2>4, <2>5, Zenon
<1>2. CASE ~(Space(head, tail) >= m.size)
  <2>1. lost' = lost + 1 /\ UNCHANGED <<buf, head, tail, armed, connected>>
    BY <1>2, Zenon DEF Store
  <2>2. Pushes
    BY <2>1, PushesNothing, Zenon
  <2>3. CellInv'
    <3>1. buf' \in [0 .. BUF_LEN - 1 -> Cell \cup {None}]
      BY <2>1, Zenon DEF CellInv
    <3> QED BY <2>2, <3>1, PushesKeep, Zenon
  <2>4. ~(m.size <= Space(head, tail))
    <3>1. PICK a, b : a = m.size /\ b = Space(head, tail)
      BY Zenon
    <3>2. a \in Int /\ b \in Int /\ ~(b >= a)
      BY <1>2, <3>1, Indices, LenFact, MessageSize
    <3> QED BY <3>1, <3>2
  <2>5. head \in 0 .. BUF_LEN - 1 /\ armed \in BOOLEAN
    BY Indices, Zenon DEF TypeOK
  <2>6. connected' /\ Cnt(head', tail') > 0 => armed'
    BY <2>1, Zenon DEF ArmedInv
  <2> QED BY <2>1, <2>2, <2>3, <2>4, <2>5, <2>6, Zenon
<1> QED BY <1>1, <1>2, Zenon

\* What a step of the sender keeps, besides the cells and the stream.
SenderKeeps == TypeOK' /\ SenderInv' /\ ArmedInv' /\ ConnInv' /\ CellInv' /\ Pushes

\* Events of any size and number.
LEMMA EventFacts ==
    ASSUME NEW n \in 1 .. MaxEvents, NEW s \in Sizes
    PROVE  Event(n, s) \in Message /\ Event(n, s).size = s
BY DEF Message, Event

\* The event that tells of a loss.
LEMMA LostFacts ==
    ASSUME NEW n \in 1 .. MaxEvents
    PROVE  Lost(n) \in Message /\ Lost(n).size = LostLen
BY DEF Message, Lost

\* The header.
LEMMA TPFacts == TP \in Message /\ TP.size = TpLen
BY DEF Message, TP

\* block_broadcast() and tcp_server_broadcast().
LEMMA BroadcastKeeps ==
    ASSUME SpreadInv, NEW s \in Sizes, Broadcast(s)
    PROVE  SenderKeeps
<1>1. TypeOK /\ CellInv /\ SenderInv /\ ArmedInv /\ ConnInv
  BY Zenon DEF SpreadInv
<1>2. /\ pc \in {"idle", "flush"} /\ connected /\ nr < MaxEvents /\ nr' = nr + 1
      /\ UNCHANGED <<mode, conn, breaks, pipe, rbuf, arrived, block>>
  BY Zenon DEF Broadcast, reader
<1>3. nr + 1 \in 1 .. MaxEvents /\ nr' \in 0 .. MaxEvents
  BY <1>1, <1>2, Indices
<1>4. Event(nr + 1, s) \in Message /\ Event(nr + 1, s).size = s
  BY <1>3, EventFacts, Zenon
<1>5. mode.sender \in {"cdev", "tcp"}
  BY <1>1, ModeFacts, Zenon DEF TypeOK
<1>6. CASE Space(head, tail) < s
  <2>1. /\ pc' = (IF mode.sender = "cdev" THEN "write" ELSE "send") /\ back' = pc
        /\ msg' = Event(nr + 1, s) /\ len' = Cnt(head, tail)
        /\ UNCHANGED <<connected, buf, head, tail, lost, armed>>
    BY <1>6, Zenon DEF Broadcast, send
  <2>2. armed
    <3>1. s \in Nat /\ s < BUF_LEN
      BY EventSpreadAssumption
    <3>2. Cnt(head, tail) > 0
      BY <1>1, <1>6, <3>1, Indices, LenFact
    <3> QED BY <1>1, <1>2, <3>2, Zenon DEF ArmedInv
  <2>3. TypeOK'
    BY <1>1, <1>2, <1>3, <1>4, <2>1, Indices DEF TypeOK
  <2>4. SenderInv'
    BY <1>1, <1>2, <1>4, <1>5, <2>1, Indices DEF SenderInv
  <2>5. ArmedInv' /\ ConnInv'
    BY <1>1, <1>2, <2>1, <2>2, Zenon DEF ArmedInv, ConnInv
  <2>6. Pushes
    BY <1>1, <1>2, <2>1, PushesNothing, Zenon
  <2>7. CellInv'
    <3>1. buf' \in [0 .. BUF_LEN - 1 -> Cell \cup {None}]
      BY <1>1, <2>1, Zenon DEF CellInv
    <3> QED BY <1>1, <1>2, <2>6, <3>1, PushesKeep, Zenon
  <2> QED BY <2>3, <2>4, <2>5, <2>6, <2>7, Zenon DEF SenderKeeps
<1>7. CASE ~(Space(head, tail) < s)
  <2>1. Store(Event(nr + 1, s)) /\ UNCHANGED <<pc, back, msg, len>>
    BY <1>7, Zenon DEF Broadcast
  <2>2. s <= Space(head, tail)
    <3>1. PICK b : b = Space(head, tail)
      BY Zenon
    <3>2. s \in Int /\ b \in Int /\ ~(b < s)
      BY <1>1, <1>7, <3>1, Indices, LenFact, EventSpreadAssumption
    <3> QED BY <3>1, <3>2
  <2>3. /\ Pushes /\ CellInv' /\ UNCHANGED <<tail, connected>>
        /\ head' \in 0 .. BUF_LEN - 1 /\ lost' = lost /\ armed' \in BOOLEAN
        /\ connected' /\ Cnt(head', tail') > 0 => armed'
    BY <1>1, <1>2, <1>4, <2>1, <2>2, StoreFacts, Zenon
  <2>4. TypeOK'
    BY <1>1, <1>2, <1>3, <2>1, <2>3, Indices DEF TypeOK
  <2>5. SenderInv'
    BY <1>1, <1>2, <2>1, <2>3, Indices DEF SenderInv
  <2>6. ArmedInv' /\ ConnInv'
    BY <1>1, <1>2, <2>1, <2>3, Zenon DEF ArmedInv, ConnInv
  <2> QED BY <2>3, <2>4, <2>5, <2>6, Zenon DEF SenderKeeps
<1> QED BY <1>6, <1>7, Zenon

\* The second half of block_broadcast() and of tcp_send().
LEMMA StoredKeeps ==
    ASSUME SpreadInv, Stored
    PROVE  SenderKeeps
<1>1. TypeOK /\ CellInv /\ SenderInv /\ ArmedInv /\ ConnInv
  BY Zenon DEF SpreadInv
<1>2. /\ pc = "store" /\ Store(msg) /\ pc' = back /\ msg' = None
      /\ UNCHANGED <<mode, conn, breaks, back, len, nr, pipe, rbuf, arrived, block>>
  BY Zenon DEF Stored, reader
<1>3. msg \in Message /\ msg # None
  BY <1>1, <1>2, Zenon DEF TypeOK, SenderInv
<1>4. /\ Pushes /\ CellInv' /\ UNCHANGED <<tail, connected>>
      /\ head' \in 0 .. BUF_LEN - 1 /\ (lost' = lost \/ lost' = lost + 1) /\ armed' \in BOOLEAN
      /\ connected' /\ Cnt(head', tail') > 0 => armed'
  BY <1>1, <1>2, <1>3, StoreFacts, Zenon
<1>5. lost' \in Nat /\ lost' <= nr /\ nr <= MaxEvents /\ MaxEvents \in Nat
  BY <1>1, <1>3, <1>4, Indices DEF SenderInv
<1>6. pc' \in {"idle", "flush"} /\ connected
  BY <1>1, <1>2, Zenon DEF TypeOK, SenderInv
<1>7. TypeOK'
  BY <1>1, <1>2, <1>4, <1>5, <1>6 DEF TypeOK
<1>8. SenderInv'
  BY <1>1, <1>2, <1>4, <1>5, <1>6, Indices DEF SenderInv
<1>9. ArmedInv' /\ ConnInv'
  <2>1. pc' # "send"
    BY <1>6
  <2> QED BY <1>1, <1>2, <1>4, <1>6, <2>1, Zenon DEF ArmedInv, ConnInv
<1> QED BY <1>4, <1>7, <1>8, <1>9, Zenon DEF SenderKeeps

\* A peer is there: the header is the first event.
LEMMA ConnectKeeps ==
    ASSUME SpreadInv, Connect
    PROVE  SenderKeeps
<1>1. TypeOK /\ CellInv /\ SenderInv /\ ArmedInv /\ ConnInv
  BY Zenon DEF SpreadInv
<1>2. /\ pc = "idle" /\ conn = "up" /\ ~connected /\ connected' = TRUE /\ Write(TP) /\ Arm(tail)
      /\ pc' = (IF mode.sender = "cdev" THEN "flush" ELSE "idle")
      /\ UNCHANGED <<mode, conn, breaks, tail, lost, back, msg, len, nr, pipe, rbuf, arrived, block>>
  BY Zenon DEF Connect, reader
<1>3. Cnt(head, tail) = 0 /\ TP.size <= Space(head, tail)
  <2>1. head = tail
    BY <1>1, <1>2, Zenon DEF ConnInv
  <2>2. TpLen \in Nat /\ TpLen < BUF_LEN
    BY EventSpreadAssumption
  <2> QED BY <1>1, <2>1, <2>2, Indices, LenFact, TPFacts
<1>4. /\ Pushes /\ head' \in 0 .. BUF_LEN - 1
      /\ buf' \in [0 .. BUF_LEN - 1 -> Cell \cup {None}]
  BY <1>1, <1>2, <1>3, TPFacts, PushesEvent, Zenon
<1>5. CellInv'
  BY <1>1, <1>2, <1>4, PushesKeep, Zenon
<1>6. armed' = TRUE
  BY <1>2, <1>3, Zenon DEF Arm
<1>7. TypeOK'
  BY <1>1, <1>2, <1>4, <1>6 DEF TypeOK
<1>8. SenderInv'
  BY <1>1, <1>2, <1>4, Indices DEF SenderInv
<1>9. ArmedInv' /\ ConnInv'
  BY <1>1, <1>2, <1>6, Zenon DEF ArmedInv, ConnInv
<1> QED BY <1>4, <1>5, <1>7, <1>8, <1>9, Zenon DEF SenderKeeps

\* The sender's buffer is left alone.
LEMMA Untouched ==
    ASSUME CellInv, UNCHANGED <<buf, head, tail, pipe, rbuf>>
    PROVE  Pushes /\ CellInv'
<1>1. Pushes
  BY PushesNothing, Zenon
<1>2. buf' \in [0 .. BUF_LEN - 1 -> Cell \cup {None}]
  BY Zenon DEF CellInv
<1> QED BY <1>1, <1>2, PushesKeep, Zenon

\* prof_dev_flush() of cdev_write_header() is over, or EPOLLOUT is reported.
LEMMA PollKeeps ==
    ASSUME SpreadInv, Flushed \/ PollOut
    PROVE  SenderKeeps
<1>1. TypeOK /\ CellInv /\ SenderInv /\ ArmedInv /\ ConnInv
  BY Zenon DEF SpreadInv
<1>2. /\ back' = "idle" /\ pc \in {"idle", "flush"} /\ connected
      /\ UNCHANGED <<mode, conn, breaks, connected, buf, head, tail, lost, armed, msg, nr, pipe>>
      /\ UNCHANGED <<rbuf, arrived, block>>
      /\ \/ pc' = "write" /\ UNCHANGED len
         \/ /\ pc' = (IF mode.sender = "cdev" THEN "write" ELSE "send") /\ armed
            /\ len' = Cnt(head, tail)
  BY <1>1 DEF Flushed, PollOut, send, reader, SenderInv
<1>3. Pushes /\ CellInv'
  BY <1>1, <1>2, Untouched, Zenon
<1>4. mode.sender \in {"cdev", "tcp"}
  BY <1>1, ModeFacts, Zenon DEF TypeOK
<1>5. TypeOK'
  BY <1>1, <1>2, <1>4, Indices DEF TypeOK
<1>6. SenderInv'
  BY <1>1, <1>2, <1>4, Indices DEF SenderInv
<1>7. ArmedInv' /\ ConnInv'
  BY <1>1, <1>2 DEF ArmedInv, ConnInv
<1> QED BY <1>3, <1>5, <1>6, <1>7, Zenon DEF SenderKeeps

\* The attempt to make room is over: back to the event that waits, or to what was done before.
LEMMA ReturnFacts ==
    ASSUME TypeOK, SenderInv, Return
    PROVE  /\ pc' \in {"idle", "flush", "store"}
           /\ pc' \in {"idle", "flush"} => msg = None
           /\ pc' = "store" => msg # None
           /\ pc' = "flush" => mode.sender = "cdev"
BY DEF TypeOK, SenderInv, Return

\* Nothing but the place of the sender, and perhaps EPOLLOUT, changes.
LEMMA ReturnKeeps ==
    ASSUME SpreadInv, pc # "idle", Return, armed' \in BOOLEAN, Cnt(head, tail) > 0 => armed' = armed,
           UNCHANGED <<mode, conn, breaks, connected, buf, head, tail, lost, back, msg, len, nr, pipe>>,
           UNCHANGED <<rbuf, arrived, block>>
    PROVE  SenderKeeps
<1>1. TypeOK /\ CellInv /\ SenderInv /\ ArmedInv /\ ConnInv
  BY Zenon DEF SpreadInv
<1>2. /\ pc' \in {"idle", "flush", "store"} /\ (pc' \in {"idle", "flush"} => msg = None)
      /\ (pc' = "store" => msg # None) /\ (pc' = "flush" => mode.sender = "cdev")
      /\ connected
  BY <1>1, ReturnFacts, Zenon DEF SenderInv
<1>3. Pushes /\ CellInv'
  BY <1>1, Untouched, Zenon
<1>4. TypeOK'
  BY <1>1, <1>2 DEF TypeOK
<1>5. SenderInv'
  BY <1>1, <1>2 DEF SenderInv
<1>6. ArmedInv' /\ ConnInv'
  BY <1>1, <1>2 DEF ArmedInv, ConnInv
<1> QED BY <1>3, <1>4, <1>5, <1>6, Zenon DEF SenderKeeps

\* A write() of handle_cdev_event().
LEMMA CdevWriteKeeps ==
    ASSUME SpreadInv, CdevWrite
    PROVE  SenderKeeps
<1>1. TypeOK /\ CellInv /\ SenderInv /\ ArmedInv /\ ConnInv
  BY Zenon DEF SpreadInv
<1>2. PICK cnt, wr, t : cnt = CntToEnd(head, tail) /\ wr = Min({cnt, Room}) /\ t = (tail + wr) % BUF_LEN
  BY Zenon
<1>3. /\ pc = "write"
      /\ UNCHANGED <<mode, conn, breaks, back, msg, len, nr, rbuf, arrived, block>>
      /\ \/ /\ cnt = 0 /\ armed' = FALSE /\ Return
            /\ UNCHANGED <<buf, head, tail, lost, connected, pipe>>
         \/ cnt > 0 /\ wr = 0 /\ Return /\ UNCHANGED <<send, pipe>>
         \/ /\ wr > 0 /\ pipe' = pipe \o Queued(wr) /\ tail' = t
            /\ IF lost > 0 /\ wr >= LostLen
               THEN Write(Lost(lost)) /\ Arm(t) /\ lost' = 0
               ELSE UNCHANGED <<buf, head, armed, lost>>
            /\ UNCHANGED <<connected, pc>>
  BY <1>2, Zenon DEF CdevWrite, reader
<1>4. /\ cnt \in Nat /\ cnt <= Cnt(head, tail) /\ (cnt = 0 => Cnt(head, tail) = 0)
      /\ wr \in Nat /\ wr <= cnt /\ wr <= Room
  <2>1. cnt = IF Cnt(head, tail) <= BUF_LEN - tail THEN Cnt(head, tail) ELSE BUF_LEN - tail
    <3>1. Cnt(head, tail) \in Int /\ BUF_LEN - tail \in Int
      BY <1>1, Indices, LenFact
    <3> QED BY <1>2, <3>1, MinFacts, Zenon DEF CntToEnd
  <2>2. cnt \in Nat /\ cnt <= Cnt(head, tail) /\ (cnt = 0 => Cnt(head, tail) = 0)
    BY <1>1, <2>1, Indices, LenFact
  <2>3. Room \in Nat
    BY <1>1, RoomFacts, Zenon
  <2>4. wr = IF cnt <= Room THEN cnt ELSE Room
    BY <1>2, <2>2, <2>3, MinFacts
  <2> QED BY <2>2, <2>3, <2>4
<1>5. CASE /\ cnt = 0 /\ armed' = FALSE /\ Return
           /\ UNCHANGED <<buf, head, tail, lost, connected, pipe>>
  <2>1. ~(Cnt(head, tail) > 0)
    BY <1>1, <1>4, <1>5, Indices
  <2> QED BY <1>3, <1>5, <2>1, ReturnKeeps, Zenon
<1>6. CASE cnt > 0 /\ wr = 0 /\ Return /\ UNCHANGED <<send, pipe>>
  <2>1. UNCHANGED <<connected, buf, head, tail, lost, armed>> /\ armed \in BOOLEAN
    BY <1>1, <1>6, Zenon DEF send, TypeOK
  <2>2. armed' \in BOOLEAN /\ armed' = armed /\ pc # "idle"
    BY <1>3, <2>1
  <2> QED BY <1>3, <1>6, <2>1, <2>2, ReturnKeeps, Zenon
<1>7. CASE /\ wr > 0 /\ pipe' = pipe \o Queued(wr) /\ tail' = t
           /\ IF lost > 0 /\ wr >= LostLen
              THEN Write(Lost(lost)) /\ Arm(t) /\ lost' = 0
              ELSE UNCHANGED <<buf, head, armed, lost>>
           /\ UNCHANGED <<connected, pc>>
  <2>1. wr \in 0 .. Cnt(head, tail) /\ Cnt(head, tail) > 0
    BY <1>1, <1>4, <1>7, Indices
  <2>2. connected /\ armed
    BY <1>1, <1>3, <2>1 DEF SenderInv, ArmedInv
  <2>3. armed' = TRUE
    <3>1. armed = TRUE
      BY <1>1, <2>2, Zenon DEF TypeOK
    <3>2. armed' = armed \/ armed' = (armed \/ Cnt(head, t) = 0)
      BY <1>7, Zenon DEF Arm
    <3> QED BY <3>1, <3>2, Zenon
  <2>4. lost' \in Nat /\ lost' <= lost
    BY <1>1, <1>7, Indices
  <2>5. \/ UNCHANGED <<buf, head>>
        \/ \E m \in Message : m.size <= Space(head, tail') /\ Write(m)
    <3>1. CASE lost > 0 /\ wr >= LostLen
      <4>1. Write(Lost(lost))
        BY <1>7, <3>1, Zenon
      <4>2. lost \in 1 .. MaxEvents
        BY <1>1, <3>1, Indices
      <4>3. Lost(lost) \in Message /\ Lost(lost).size = LostLen
        BY <4>2, LostFacts, Zenon
      <4>4. t \in 0 .. BUF_LEN - 1 /\ Cnt(head, t) = Cnt(head, tail) - wr
        BY <1>1, <1>2, <2>1, AdvanceFacts, Zenon
      <4>5. Space(head, t) = BUF_LEN - 1 - Cnt(head, t)
        BY <1>1, <4>4, Indices, CntFacts, Zenon
      <4>6. LostLen \in Nat
        BY EventSpreadAssumption
      <4>7. LostLen <= Space(head, t)
        BY <1>1, <1>4, <3>1, <4>4, <4>5, <4>6, Indices, LenFact
      <4> QED BY <1>7, <4>1, <4>3, <4>7, Zenon
    <3> QED BY <1>7, <3>1, Zenon
  <2>6. /\ Pushes /\ head' \in 0 .. BUF_LEN - 1 /\ tail' \in 0 .. BUF_LEN - 1
        /\ buf' \in [0 .. BUF_LEN - 1 -> Cell \cup {None}] /\ Len(pipe') <= PipeLen
    BY <1>1, <1>2, <1>4, <1>7, <2>1, <2>5, PushesCells, Zenon
  <2>7. CellInv'
    BY <1>1, <1>3, <2>6, PushesKeep, Zenon
  <2>8. TypeOK'
    BY <1>1, <1>3, <1>7, <2>3, <2>4, <2>6, Indices DEF TypeOK
  <2>9. SenderInv'
    <3>1. /\ lost \in Nat /\ nr \in Nat /\ lost' \in Nat /\ lost' <= lost
          /\ pc = "write" /\ pc' = "write"
      BY <1>1, <1>3, <1>7, <2>4, Indices, Zenon
    <3>2. UNCHANGED <<mode, back, msg, nr, connected>>
      BY <1>3, <1>7, Zenon
    <3>3. PICK d : d = IF msg = None THEN 0 ELSE 1
      BY Zenon
    <3>4. lost' + d <= nr
      <4>1. lost + d <= nr /\ d \in Nat
        BY <1>1, <3>3 DEF SenderInv
      <4>2. \A a, b \in Nat : a <= b /\ b + d <= nr => a + d <= nr
        BY <3>1, <4>1
      <4> QED BY <3>1, <4>1, <4>2, Zenon
    <3>5. connected /\ pc' \notin {"idle", "flush", "store", "send"}
      BY <1>1, <3>1 DEF SenderInv
    <3>6. pc' # "store" /\ pc' # "send" /\ pc' # "flush"
      BY <3>5
    <3> QED BY <1>1, <3>1, <3>2, <3>3, <3>4, <3>5, <3>6, Zenon DEF SenderInv
  <2>10. ArmedInv' /\ ConnInv'
    <3>1. conn = "up"
      <4>1. Room # 0
        <5>1. wr \in Nat /\ wr > 0 /\ wr <= Room
          BY <1>4, <1>7, Zenon
        <5> QED BY <5>1
      <4> QED BY <1>1, <4>1, RoomFacts, Zenon
    <3> QED BY <1>1, <1>3, <1>7, <2>2, <2>3, <3>1 DEF ArmedInv, ConnInv
  <2> QED BY <2>6, <2>7, <2>8, <2>9, <2>10, Zenon DEF SenderKeeps
<1> QED BY <1>3, <1>5, <1>6, <1>7, Zenon

\* What both send() of buf_send() have in common: they send up to n of the cells.
LEMMA SendFacts ==
    ASSUME SpreadInv, pc = "send", conn = "up", NEW n \in 0 .. len, NEW ret, ret = Min({n, Room}),
           tail' = (tail + ret) % BUF_LEN, pipe' = pipe \o Queued(ret),
           \/ UNCHANGED <<buf, head>>
           \/ \E m \in Message : m.size <= Space(head, tail') /\ Write(m)
    PROVE  /\ connected /\ armed = TRUE /\ mode.sender = "tcp" /\ block # "hungup"
           /\ ret \in 0 .. len /\ len \in 0 .. BUF_LEN - 1
           /\ Pushes /\ head' \in 0 .. BUF_LEN - 1 /\ tail' \in 0 .. BUF_LEN - 1
           /\ buf' \in [0 .. BUF_LEN - 1 -> Cell \cup {None}]
           /\ Len(pipe') <= PipeLen
           /\ Cnt(head, tail') = len - ret
<1>1. TypeOK /\ CellInv /\ SenderInv /\ ArmedInv /\ ConnInv
  BY Zenon DEF SpreadInv
<1>2. connected /\ mode.sender = "tcp" /\ len = Cnt(head, tail)
  <2>1. pc # "idle"
    OBVIOUS
  <2> QED BY <1>1, <2>1, Zenon DEF SenderInv
<1>3. armed = TRUE /\ block # "hungup"
  BY <1>1, Zenon DEF ArmedInv, ConnInv, TypeOK
<1>4. ret \in 0 .. len /\ ret <= Room
  <2>1. n \in Int /\ Room \in Nat /\ len \in Nat
    BY <1>1, Indices, RoomFacts
  <2>2. ret = IF n <= Room THEN n ELSE Room
    BY <2>1, MinFacts
  <2> QED BY <2>1, <2>2
<1>5. ret \in 0 .. Cnt(head, tail) /\ len \in 0 .. BUF_LEN - 1
  BY <1>1, <1>2, <1>4, Indices, Zenon
<1>6. /\ Pushes /\ head' \in 0 .. BUF_LEN - 1 /\ tail' \in 0 .. BUF_LEN - 1
      /\ buf' \in [0 .. BUF_LEN - 1 -> Cell \cup {None}]
      /\ Len(pipe') <= PipeLen /\ Cnt(head, tail') = Cnt(head, tail) - ret
  BY <1>1, <1>4, <1>5, PushesCells, Zenon
<1> QED BY <1>2, <1>3, <1>4, <1>5, <1>6, Zenon

\* The first send() of buf_send().
LEMMA SendToEndKeeps ==
    ASSUME SpreadInv, SendToEnd
    PROVE  SenderKeeps
<1>1. TypeOK /\ CellInv /\ SenderInv /\ ArmedInv /\ ConnInv
  BY Zenon DEF SpreadInv
<1>2. PICK n, ret : n = BUF_LEN - tail /\ ret = Min({n, Room})
  BY Zenon
<1>3. /\ pc = "send" /\ conn = "up" /\ tail + len >= BUF_LEN
      /\ tail' = (tail + ret) % BUF_LEN /\ pipe' = pipe \o Queued(ret) /\ len' = len - ret
      /\ (UNCHANGED pc \/ Return)
      /\ UNCHANGED <<mode, conn, breaks, connected, buf, head, lost, armed, back, msg, nr>>
      /\ UNCHANGED <<rbuf, arrived, block>>
  BY <1>2, Zenon DEF SendToEnd, reader
<1>4. n \in 0 .. len
  <2>1. tail \in 0 .. BUF_LEN - 1 /\ len \in 0 .. BUF_LEN - 1 /\ n = BUF_LEN - tail /\ tail + len >= BUF_LEN
    BY <1>1, <1>2, <1>3, Indices, Zenon
  <2> QED BY <2>1, LenFact
<1>5. /\ connected /\ armed = TRUE /\ mode.sender = "tcp" /\ block # "hungup"
      /\ ret \in 0 .. len /\ len \in 0 .. BUF_LEN - 1
      /\ Pushes /\ head' \in 0 .. BUF_LEN - 1 /\ tail' \in 0 .. BUF_LEN - 1
      /\ buf' \in [0 .. BUF_LEN - 1 -> Cell \cup {None}]
      /\ Len(pipe') <= PipeLen
      /\ Cnt(head, tail') = len - ret
  BY <1>2, <1>3, <1>4, SendFacts, Zenon
<1>6. CellInv'
  BY <1>1, <1>3, <1>5, PushesKeep, Zenon
<1>7. /\ pc' \in {"idle", "flush", "store", "send"}
      /\ (pc' \in {"idle", "flush"} => msg = None) /\ (pc' = "store" => msg # None)
      /\ pc' = "flush" => mode.sender = "cdev"
  BY <1>1, <1>3, ReturnFacts
<1>8. len' \in 0 .. BUF_LEN - 1
  BY <1>3, <1>5, LenFact
<1>9. TypeOK'
  BY <1>1, <1>3, <1>5, <1>7, <1>8 DEF TypeOK
<1>10. SenderInv'
  BY <1>1, <1>3, <1>5, <1>7 DEF SenderInv
<1>11. ArmedInv' /\ ConnInv'
  BY <1>3, <1>5 DEF ArmedInv, ConnInv
<1> QED BY <1>5, <1>6, <1>9, <1>10, <1>11, Zenon DEF SenderKeeps

\* The second one, and the event that tells of a loss.
LEMMA SendRestKeeps ==
    ASSUME SpreadInv, SendRest
    PROVE  SenderKeeps
<1>1. TypeOK /\ CellInv /\ SenderInv /\ ArmedInv /\ ConnInv
  BY Zenon DEF SpreadInv
<1>2. PICK ret : ret = Min({len, Room})
  BY Zenon
<1>3. /\ pc = "send" /\ conn = "up" /\ Return
      /\ tail' = (tail + ret) % BUF_LEN /\ pipe' = pipe \o Queued(ret)
      /\ \/ TellLoss(tail') /\ Write(Lost(lost)) /\ lost' = 0
         \/ UNCHANGED <<buf, head, lost>>
      /\ armed' = (armed /\ (msg # None \/ Cnt(head', tail') # 0))
      /\ UNCHANGED <<mode, conn, breaks, connected, back, msg, len, nr, rbuf, arrived, block>>
  BY <1>2, Zenon DEF SendRest, reader
<1>4. len \in 0 .. len /\ len \in 0 .. BUF_LEN - 1
  BY <1>1, Indices
<1>5. \/ UNCHANGED <<buf, head>>
      \/ \E m \in Message : m.size <= Space(head, tail') /\ Write(m)
  <2>1. CASE TellLoss(tail') /\ Write(Lost(lost))
    <3>1. lost > 0 /\ Space(head, tail') > LostLen
      BY <2>1, Zenon DEF TellLoss
    <3>2. lost \in 1 .. MaxEvents
      BY <1>1, <3>1, Indices
    <3>3. Lost(lost) \in Message /\ Lost(lost).size = LostLen
      BY <3>2, LostFacts, Zenon
    <3>4. LostLen <= Space(head, tail')
      <4>1. PICK a : a = Space(head, tail')
        BY Zenon
      <4>2. a \in Int /\ LostLen \in Int
        BY <4>1, LenFact, EventSpreadAssumption DEF Space, Cnt
      <4> QED BY <3>1, <4>1, <4>2
    <3> QED BY <2>1, <3>3, <3>4, Zenon
  <2> QED BY <1>3, <2>1, Zenon
<1>6. /\ connected /\ armed = TRUE /\ mode.sender = "tcp" /\ block # "hungup"
      /\ Pushes /\ head' \in 0 .. BUF_LEN - 1 /\ tail' \in 0 .. BUF_LEN - 1
      /\ buf' \in [0 .. BUF_LEN - 1 -> Cell \cup {None}]
      /\ Len(pipe') <= PipeLen
  BY <1>2, <1>3, <1>4, <1>5, SendFacts, Zenon
<1>7. CellInv'
  BY <1>1, <1>3, <1>6, PushesKeep, Zenon
<1>8. /\ pc' \in {"idle", "flush", "store"}
      /\ (pc' \in {"idle", "flush"} => msg = None) /\ (pc' = "store" => msg # None)
      /\ pc' = "flush" => mode.sender = "cdev"
  BY <1>1, <1>3, ReturnFacts, Zenon
<1>9. lost' \in Nat /\ lost' <= lost /\ armed' \in BOOLEAN
  BY <1>1, <1>3, Indices
<1>10. TypeOK'
  BY <1>1, <1>3, <1>4, <1>6, <1>8, <1>9, Indices DEF TypeOK
<1>11. SenderInv'
  BY <1>1, <1>3, <1>6, <1>8, <1>9, Indices DEF SenderInv
<1>12. ArmedInv' /\ ConnInv'
  <2>1. Cnt(head', tail') > 0 => armed'
    <3>1. Cnt(head', tail') > 0 => Cnt(head', tail') # 0
      OBVIOUS
    <3> QED BY <1>3, <1>6, <3>1, Zenon
  <2>2. pc' # "send"
    BY <1>8
  <2> QED BY <1>3, <1>6, <2>1, <2>2, Zenon DEF ArmedInv, ConnInv
<1> QED BY <1>6, <1>7, <1>10, <1>11, <1>12, Zenon DEF SenderKeeps

\* The peer is gone.
LEMMA SendFailsKeeps ==
    ASSUME SpreadInv, SendFails
    PROVE  SenderKeeps
<1>1. TypeOK /\ CellInv /\ SenderInv /\ ArmedInv /\ ConnInv
  BY Zenon DEF SpreadInv
<1>2. /\ pc = "send" /\ conn # "up" /\ connected' = FALSE /\ pc' = back /\ msg' = None
      /\ UNCHANGED <<mode, conn, breaks, buf, head, tail, lost, armed, back, len, nr, pipe>>
      /\ UNCHANGED <<rbuf, arrived, block>>
  BY Zenon DEF SendFails, reader
<1>3. Pushes /\ CellInv'
  BY <1>1, <1>2, Untouched, Zenon
<1>4. pc' = "idle"
  BY <1>1, <1>2 DEF SenderInv, TypeOK
<1>5. TypeOK'
  BY <1>1, <1>2, <1>4, Zenon DEF TypeOK
<1>6. SenderInv'
  BY <1>1, <1>2, <1>4, Indices DEF SenderInv
<1>7. ArmedInv' /\ ConnInv'
  BY <1>1, <1>2, <1>4 DEF ArmedInv, ConnInv
<1> QED BY <1>3, <1>5, <1>6, <1>7, Zenon DEF SenderKeeps

-----------------------------------------------------------------------------
(* The reader. *)

\* A step of the reader or of the connection leaves the sender alone.
LEMMA SenderSame ==
    ASSUME UNCHANGED sender
    PROVE  /\ UNCHANGED <<connected, buf, head, tail, lost, armed, pc, back, msg, len, nr>>
           /\ Kept' = Kept
<1>1. UNCHANGED <<connected, buf, head, tail, lost, armed, pc, back, msg, len, nr>>
  BY Zenon DEF sender, send
<1> QED BY <1>1, Zenon DEF Kept

\* What that keeps of the invariants.
LEMMA ReaderKeeps ==
    ASSUME SpreadInv, UNCHANGED <<mode, sender>>, conn' \in {"up", "shut", "reset"},
           breaks' \in 0 .. MaxBreaks, block' \in {"open", "hungup", "closed", "dangling"},
           pipe' \in Seq(Cell), rbuf' \in Seq(Cell), Len(pipe') <= PipeLen, Len(rbuf') <= BUF_LEN,
           ConnInv'
    PROVE  SpreadInv'
<1>1. TypeOK /\ CellInv /\ SenderInv /\ ArmedInv /\ ConnInv
  BY Zenon DEF SpreadInv
<1>2. /\ UNCHANGED <<connected, buf, head, tail, lost, armed, pc, back, msg, len, nr>>
      /\ Kept' = Kept
  BY SenderSame, Zenon
<1>3. TypeOK'
  BY <1>1, <1>2, Zenon DEF TypeOK
<1>4. CellInv'
  BY <1>1, <1>2, Zenon DEF CellInv
<1>5. SenderInv' /\ ArmedInv'
  BY <1>1, <1>2, Zenon DEF SenderInv, ArmedInv
<1> QED BY <1>3, <1>4, <1>5, Zenon DEF SpreadInv

\* What the sender has not written yet.
Behind == IF conn = "up" THEN Kept ELSE <<>>

\* The pieces of the stream.
LEMMA StreamFacts ==
    ASSUME CellInv
    PROVE  /\ rbuf \in Seq(Cell) /\ pipe \in Seq(Cell) /\ Behind \in Seq(Cell)
           /\ Stream = Cat(Cat(rbuf, pipe), Behind) /\ Stream = Cat(rbuf, Cat(pipe, Behind))
           /\ Cat(pipe, Behind) \in Seq(Cell) /\ Stream \in Seq(Cell)
<1>1. rbuf \in Seq(Cell) /\ pipe \in Seq(Cell) /\ Behind \in Seq(Cell)
  BY CatEmpty, Zenon DEF CellInv, Behind
<1>2. Stream = Cat(Cat(rbuf, pipe), Behind)
  BY Zenon DEF Stream, Behind, Cat
<1> QED BY <1>1, <1>2, Regroup

\* And in the next state.
LEMMA StreamFactsNext ==
    ASSUME CellInv'
    PROVE  /\ rbuf' \in Seq(Cell) /\ Cat(pipe', Behind') \in Seq(Cell)
           /\ Stream' = Cat(rbuf', Cat(pipe', Behind'))
<1>1. rbuf' \in Seq(Cell) /\ pipe' \in Seq(Cell) /\ Behind' \in Seq(Cell)
  BY CatEmpty, Zenon DEF CellInv, Behind
<1>2. Stream' = Cat(Cat(rbuf', pipe'), Behind')
  BY Zenon DEF Stream, Behind, Cat
<1> QED BY <1>1, <1>2, Regroup

\* n cells of the pipe are read behind u, which is what is left of the reader's buffer.
LEMMA ReadCells ==
    ASSUME CellInv, NEW u \in Seq(Cell), NEW n \in 0 .. Len(pipe), UNCHANGED <<conn, sender>>,
           rbuf' = u \o SubSeq(pipe, 1, n), pipe' = SubSeq(pipe, n + 1, Len(pipe))
    PROVE  /\ rbuf' \in Seq(Cell) /\ pipe' \in Seq(Cell)
           /\ Len(rbuf') = Len(u) + n /\ Len(pipe') = Len(pipe) - n
           /\ Behind' = Behind
           /\ Stream' = Cat(u, Cat(pipe, Behind))
<1>1. PICK x, z : x = SubSeq(pipe, 1, n) /\ z = SubSeq(pipe, n + 1, Len(pipe))
  BY Zenon
<1>2. pipe \in Seq(Cell) /\ Behind \in Seq(Cell)
  BY StreamFacts, Zenon
<1>3. x \in Seq(Cell) /\ z \in Seq(Cell) /\ Len(x) = n /\ Len(z) = Len(pipe) - n /\ pipe = Cat(x, z)
  BY <1>1, <1>2, Reading, Zenon DEF Cat
<1>4. rbuf' = Cat(u, x) /\ pipe' = z
  BY <1>1, Zenon DEF Cat
<1>5. Behind' = Behind
  BY SenderSame, Zenon DEF Behind
<1>6. rbuf' \in Seq(Cell) /\ Len(rbuf') = Len(u) + n
  <2>1. Cat(u, x) \in Seq(Cell) /\ Len(Cat(u, x)) = Len(u) + Len(x)
    BY <1>3, Regroup, CatLen, Zenon
  <2> QED BY <1>3, <1>4, <2>1, Zenon
<1>7. Stream' = Cat(Cat(Cat(u, x), z), Behind)
  BY <1>4, <1>5, Zenon DEF Stream, Behind, Cat
<1>8. Cat(Cat(u, x), z) = Cat(u, pipe)
  BY <1>3, Regroup
<1>9. Cat(Cat(u, pipe), Behind) = Cat(u, Cat(pipe, Behind))
  BY <1>2, Regroup
<1> QED BY <1>3, <1>4, <1>5, <1>6, <1>7, <1>8, <1>9, Zenon

\* read() returns no more than there is and than there is room for.
LEMMA ReadableFacts ==
    ASSUME CellInv, NEW k \in Int, NEW n \in Readable(k)
    PROVE  n \in 0 .. Len(pipe) /\ 1 <= n /\ n <= k
<1>1. Len(pipe) \in Nat
  <2>1. pipe \in Seq(Cell)
    BY Zenon DEF CellInv
  <2> QED BY <2>1
<1>2. Min({k, Len(pipe)}) = IF k <= Len(pipe) THEN k ELSE Len(pipe)
  BY <1>1, MinFacts
<1> QED BY <1>1, <1>2 DEF Readable

\* An event that is there can be cut off.
LEMMA CompleteReady ==
    ASSUME NEW r \in Seq(Cell), Complete(r)
    PROVE  Ready(r)
<1>1. Len(r) > HdrLen /\ Len(r) >= r[1][1].size
  BY Zenon DEF Complete
<1>2. HdrLen \in Nat
  BY EventSpreadAssumption
<1>3. Len(r) \in Nat /\ (r = <<>> => Len(r) = 0)
  OBVIOUS
<1>4. r # <<>> /\ r[1] \in Cell
  BY <1>1, <1>2, <1>3
<1>5. r[1][1].size \in Nat
  BY <1>4, CellFacts, Zenon
<1>6. r[1][1].size <= Len(r)
  BY <1>1, <1>3, <1>5
<1> QED BY <1>4, <1>6, Zenon DEF Ready

\* What is cut off in front of whole events is an event.
LEMMA FirstWhole ==
    ASSUME NEW r \in Seq(Cell), NEW q \in Seq(Cell), Whole(Cat(r, q)), Complete(r)
    PROVE  /\ First(r) = Cells(First(r)[1][1])
           /\ Rest(r) \in Seq(Cell) /\ Len(Rest(r)) <= Len(r)
           /\ Whole(Cat(Rest(r), q))
           /\ Closed(Cat(r, q)) => Closed(Cat(Rest(r), q))
<1>1. PICK s : s = Cat(r, q)
  BY Zenon
<1>2. s \in Seq(Cell) /\ s = r \o q /\ Whole(s)
  <2>1. s \in Seq(Cell)
    BY <1>1, Regroup
  <2> QED BY <1>1, <2>1, Zenon DEF Cat
<1>3. Ready(r)
  BY CompleteReady, Zenon
<1>4. /\ Ready(s) /\ First(s) = First(r) /\ Rest(r) \in Seq(Cell) /\ Rest(s) = Rest(r) \o q
      /\ Len(Rest(r)) \in Nat /\ Len(Rest(r)) < Len(r)
  BY <1>2, <1>3, TakeCat, Zenon
<1>5. /\ s[1][1] \in Message /\ First(s) = Cells(s[1][1])
      /\ Whole(Rest(s)) /\ (Closed(s) => Closed(Rest(s)))
  BY <1>2, <1>4, TakeWhole, Zenon
<1>6. First(r)[1][1] = s[1][1]
  <2>1. PICK m : m = s[1][1]
    BY Zenon
  <2>2. m \in Message /\ First(r) = Cells(m)
    BY <1>4, <1>5, <2>1, Zenon
  <2>3. 1 \in 1 .. m.size
    BY <2>2, MessageSize
  <2>4. Cells(m)[1] = <<m, 1>>
    BY <2>2, <2>3, CellsFacts, Zenon
  <2> QED BY <2>1, <2>2, <2>4
<1>7. Len(Rest(r)) <= Len(r)
  <2>1. Len(r) \in Nat
    OBVIOUS
  <2> QED BY <1>4, <2>1
<1> QED BY <1>1, <1>4, <1>5, <1>6, <1>7, Zenon DEF Cat

\* The event that block_read_event() returned last is behind the reader.
LEMMA UnconsumedFacts ==
    ASSUME CellInv
    PROVE  /\ Unconsumed \in Seq(Cell) /\ Len(Unconsumed) <= Len(rbuf)
           /\ Whole(Stream) => /\ Whole(Cat(Unconsumed, Cat(pipe, Behind)))
                               /\ Closed(Stream) => Closed(Cat(Unconsumed, Cat(pipe, Behind)))
<1>1. PICK q : q = Cat(pipe, Behind)
  BY Zenon
<1>2. rbuf \in Seq(Cell) /\ q \in Seq(Cell) /\ Stream = Cat(rbuf, q)
  BY <1>1, StreamFacts, Zenon
<1>3. CASE Complete(rbuf)
  <2>1. Unconsumed = Rest(rbuf)
    BY <1>3, Zenon DEF Unconsumed
  <2>2. Ready(rbuf)
    BY <1>2, <1>3, CompleteReady, Zenon
  <2>3. Rest(rbuf) \in Seq(Cell) /\ Len(Rest(rbuf)) \in Nat /\ Len(Rest(rbuf)) < Len(rbuf)
    BY <1>2, <2>2, TakeCat, Zenon
  <2>4. Len(Rest(rbuf)) <= Len(rbuf)
    <3>1. Len(rbuf) \in Nat
      BY <1>2
    <3> QED BY <2>3, <3>1
  <2>5. Whole(Stream) => /\ Whole(Cat(Rest(rbuf), q))
                         /\ Closed(Stream) => Closed(Cat(Rest(rbuf), q))
    BY <1>2, <1>3, FirstWhole, Zenon
  <2> QED BY <1>1, <2>1, <2>3, <2>4, <2>5, Zenon
<1>4. CASE ~Complete(rbuf)
  <2>1. Unconsumed = rbuf
    BY <1>4, Zenon DEF Unconsumed
  <2>2. Len(rbuf) <= Len(rbuf)
    BY <1>2
  <2> QED BY <1>1, <1>2, <2>1, <2>2, Zenon
<1> QED BY <1>3, <1>4, Zenon

\* read() of a reader that does not sort.
LEMMA ReadKeeps ==
    ASSUME SpreadInv, Read
    PROVE  SpreadInv' /\ (StreamInv => StreamInv')
<1>1. TypeOK /\ CellInv /\ ConnInv
  BY Zenon DEF SpreadInv
<1>2. PICK n \in Readable(BUF_LEN - Len(rbuf)) :
          /\ rbuf' = rbuf \o SubSeq(pipe, 1, n) /\ pipe' = SubSeq(pipe, n + 1, Len(pipe))
  BY Zenon DEF Read
<1>3. block = "open" /\ UNCHANGED <<mode, conn, breaks, sender, arrived, block>>
  BY Zenon DEF Read
<1>4. rbuf \in Seq(Cell) /\ Stream = Cat(rbuf, Cat(pipe, Behind)) /\ pipe \in Seq(Cell)
  BY <1>1, StreamFacts, Zenon
<1>5. Len(rbuf) \in Nat /\ BUF_LEN - Len(rbuf) \in Int
  BY <1>4, LenFact
<1>6. n \in 0 .. Len(pipe) /\ 1 <= n /\ n <= BUF_LEN - Len(rbuf)
  BY <1>1, <1>5, ReadableFacts, Zenon
<1>7. /\ rbuf' \in Seq(Cell) /\ pipe' \in Seq(Cell)
      /\ Len(rbuf') = Len(rbuf) + n /\ Len(pipe') = Len(pipe) - n
      /\ Stream' = Cat(rbuf, Cat(pipe, Behind))
  BY <1>1, <1>2, <1>3, <1>4, <1>6, ReadCells, Zenon
<1>8. Len(rbuf') <= BUF_LEN /\ Len(pipe') <= PipeLen
  BY <1>1, <1>5, <1>6, <1>7, RoomFacts, LenFact
<1>9. ConnInv'
  <2>1. UNCHANGED <<connected, head, tail>> /\ block' # "hungup"
    BY <1>3, SenderSame
  <2> QED BY <1>1, <1>3, <2>1, Zenon DEF ConnInv
<1>10. SpreadInv'
  <2>1. /\ conn' \in {"up", "shut", "reset"} /\ breaks' \in 0 .. MaxBreaks
        /\ block' \in {"open", "hungup", "closed", "dangling"}
    BY <1>1, <1>3, Zenon DEF TypeOK
  <2> QED BY <1>3, <1>7, <1>8, <1>9, <2>1, ReaderKeeps, Zenon
<1>11. StreamInv => StreamInv'
  <2>1. Stream' = Stream
    BY <1>4, <1>7, Zenon
  <2> QED BY <1>3, <2>1, Zenon DEF StreamInv, ArrivesWhole
<1> QED BY <1>10, <1>11, Zenon

\* block_process_event().
LEMMA ProcessKeeps ==
    ASSUME SpreadInv, Process
    PROVE  SpreadInv' /\ (StreamInv => StreamInv')
<1>1. TypeOK /\ CellInv /\ ConnInv
  BY Zenon DEF SpreadInv
<1>2. /\ block = "open" /\ Complete(rbuf) /\ arrived' = First(rbuf) /\ rbuf' = Rest(rbuf)
      /\ UNCHANGED <<mode, conn, breaks, sender, pipe, block>>
  BY Zenon DEF Process
<1>3. PICK q : q = Cat(pipe, Behind)
  BY Zenon
<1>4. /\ rbuf \in Seq(Cell) /\ q \in Seq(Cell) /\ Stream = Cat(rbuf, q) /\ pipe \in Seq(Cell)
      /\ Behind \in Seq(Cell)
  BY <1>1, <1>3, StreamFacts, Zenon
<1>5. rbuf' = Unconsumed /\ rbuf' \in Seq(Cell) /\ Len(rbuf') <= Len(rbuf)
  BY <1>1, <1>2, UnconsumedFacts, Zenon DEF Unconsumed
<1>6. Len(rbuf') <= BUF_LEN /\ Len(pipe') <= PipeLen
  <2>1. Len(rbuf) \in Nat /\ Len(rbuf') \in Nat
    BY <1>4, <1>5
  <2>2. Len(rbuf) <= BUF_LEN /\ Len(pipe) <= PipeLen
    BY <1>1, Zenon DEF TypeOK
  <2> QED BY <1>2, <1>5, <2>1, <2>2, LenFact
<1>7. ConnInv'
  <2>1. UNCHANGED <<connected, head, tail>> /\ block' # "hungup"
    BY <1>2, SenderSame
  <2> QED BY <1>1, <1>2, <2>1, Zenon DEF ConnInv
<1>8. SpreadInv'
  <2>1. /\ conn' \in {"up", "shut", "reset"} /\ breaks' \in 0 .. MaxBreaks
        /\ block' \in {"open", "hungup", "closed", "dangling"} /\ pipe' \in Seq(Cell)
    BY <1>1, <1>2, <1>4, Zenon DEF TypeOK
  <2> QED BY <1>2, <1>5, <1>6, <1>7, <2>1, ReaderKeeps, Zenon
<1>9. ASSUME StreamInv PROVE StreamInv'
  <2>1. Whole(Cat(rbuf, q)) /\ (conn = "up" => Closed(Cat(rbuf, q)))
    BY <1>4, <1>9, Zenon DEF StreamInv
  <2>2. /\ arrived' = Cells(arrived'[1][1]) /\ Whole(Cat(rbuf', q))
        /\ Closed(Cat(rbuf, q)) => Closed(Cat(rbuf', q))
    BY <1>2, <1>4, <2>1, FirstWhole, Zenon
  <2>3. Stream' = Cat(rbuf', q)
    <3>1. Behind' = Behind
      BY <1>2, SenderSame, Zenon DEF Behind
    <3>2. Stream' = Cat(Cat(rbuf', pipe), Behind)
      BY <1>2, <3>1, Zenon DEF Stream, Behind, Cat
    <3> QED BY <1>3, <1>4, <1>5, <3>2, Regroup
  <2> QED BY <1>2, <2>1, <2>2, <2>3, Zenon DEF StreamInv, ArrivesWhole
<1> QED BY <1>8, <1>9, Zenon

\* block_read_event().
LEMMA ReadEventKeeps ==
    ASSUME SpreadInv, NEW init \in BOOLEAN, ReadEvent(init)
    PROVE  SpreadInv' /\ (StreamInv => StreamInv')
<1>1. TypeOK /\ CellInv /\ ConnInv
  BY Zenon DEF SpreadInv
<1>2. PICK n \in Readable(BUF_LEN - Len(Unconsumed)) \cup {0} :
          /\ rbuf' = Unconsumed \o SubSeq(pipe, 1, n) /\ pipe' = SubSeq(pipe, n + 1, Len(pipe))
          /\ arrived' = IF Complete(rbuf') THEN First(rbuf') ELSE arrived
  BY Zenon DEF ReadEvent
<1>3. block = "open" /\ UNCHANGED <<mode, conn, breaks, sender, block>>
  BY Zenon DEF ReadEvent
<1>4. PICK u : u = Unconsumed
  BY Zenon
<1>5. /\ u \in Seq(Cell) /\ Len(u) <= Len(rbuf) /\ pipe \in Seq(Cell) /\ Behind \in Seq(Cell)
      /\ rbuf \in Seq(Cell)
  BY <1>1, <1>4, StreamFacts, UnconsumedFacts, Zenon
<1>6. Len(u) \in Nat /\ BUF_LEN - Len(u) \in Int /\ Len(u) <= BUF_LEN /\ Len(pipe) \in Nat
  <2>1. Len(u) \in Nat /\ Len(rbuf) \in Nat /\ Len(pipe) \in Nat
    BY <1>5
  <2>2. Len(rbuf) <= BUF_LEN
    BY <1>1, Zenon DEF TypeOK
  <2> QED BY <1>5, <2>1, <2>2, LenFact
<1>7. n \in 0 .. Len(pipe) /\ n <= BUF_LEN - Len(u)
  <2>1. CASE n = 0
    BY <1>6, <2>1, LenFact
  <2>2. CASE n \in Readable(BUF_LEN - Len(u))
    BY <1>1, <1>6, <2>2, ReadableFacts, Zenon
  <2> QED BY <1>2, <1>4, <2>1, <2>2, Zenon
<1>8. /\ rbuf' \in Seq(Cell) /\ pipe' \in Seq(Cell)
      /\ Len(rbuf') = Len(u) + n /\ Len(pipe') = Len(pipe) - n
      /\ Stream' = Cat(u, Cat(pipe, Behind))
  BY <1>1, <1>2, <1>3, <1>4, <1>5, <1>7, ReadCells, Zenon
<1>9. Len(rbuf') <= BUF_LEN /\ Len(pipe') <= PipeLen
  <2>1. Len(pipe) <= PipeLen /\ PipeLen \in Nat
    BY <1>1, RoomFacts, Zenon
  <2> QED BY <1>6, <1>7, <1>8, <2>1, LenFact
<1>10. ConnInv'
  <2>1. UNCHANGED <<connected, head, tail>> /\ block' # "hungup"
    BY <1>3, SenderSame
  <2> QED BY <1>1, <1>3, <2>1, Zenon DEF ConnInv
<1>11. SpreadInv'
  <2>1. /\ conn' \in {"up", "shut", "reset"} /\ breaks' \in 0 .. MaxBreaks
        /\ block' \in {"open", "hungup", "closed", "dangling"}
    BY <1>1, <1>3, Zenon DEF TypeOK
  <2> QED BY <1>3, <1>8, <1>9, <1>10, <2>1, ReaderKeeps, Zenon
<1>12. ASSUME StreamInv PROVE StreamInv'
  <2>1. Whole(Stream') /\ (conn' = "up" => Closed(Stream'))
    BY <1>1, <1>3, <1>4, <1>8, <1>12, UnconsumedFacts, Zenon DEF StreamInv
  <2>2. CASE ~Complete(rbuf')
    BY <1>2, <1>12, <2>1, <2>2, Zenon DEF StreamInv, ArrivesWhole
  <2>3. CASE Complete(rbuf')
    <3>1. PICK r, q : r = rbuf' /\ q = Cat(pipe', Behind')
      BY Zenon
    <3>2. r \in Seq(Cell) /\ q \in Seq(Cell) /\ Stream' = Cat(r, q)
      <4>1. CellInv'
        BY <1>11, Zenon DEF SpreadInv
      <4> QED BY <3>1, <4>1, StreamFactsNext, Zenon
    <3>3. arrived' = First(r) /\ Complete(r) /\ Whole(Cat(r, q))
      BY <1>2, <2>1, <2>3, <3>1, <3>2, Zenon
    <3>4. arrived' = Cells(arrived'[1][1])
      BY <3>2, <3>3, FirstWhole, Zenon
    <3> QED BY <2>1, <3>4, Zenon DEF StreamInv, ArrivesWhole
  <2> QED BY <2>2, <2>3, Zenon
<1> QED BY <1>11, <1>12, Zenon

-----------------------------------------------------------------------------
(* Hanging up. *)

\* Nothing is on its way any more.
LEMMA NothingLeft ==
    ASSUME StreamInv, UNCHANGED arrived, rbuf' = <<>>, pipe' = <<>>, conn' = "up" => Kept' = <<>>
    PROVE  StreamInv'
<1>1. Stream' = <<>>
  <2>1. Behind' = <<>>
    BY Zenon DEF Behind
  <2>2. Stream' = (<<>> \o <<>>) \o <<>>
    BY <2>1, Zenon DEF Stream, Behind
  <2>3. (<<>> \o <<>>) \o <<>> = <<>>
    BY CatEmpty, Zenon
  <2> QED BY <2>2, <2>3, Zenon
<1>2. PICK s : s = Stream'
  BY Zenon
<1>3. Len(s) = 0
  BY <1>1, <1>2
<1>4. Whole(s) /\ Closed(s)
  <2>1. 1 .. Len(s) = {}
    BY <1>3
  <2> QED BY <1>1, <1>2, <2>1, Zenon DEF Whole, Closed
<1> QED BY <1>2, <1>4, Zenon DEF StreamInv, ArrivesWhole

\* The connection breaks.
LEMMA HangupKeeps ==
    ASSUME SpreadInv, NEW how \in {"shut", "reset"}, Hangup(how)
    PROVE  SpreadInv' /\ (StreamInv => StreamInv')
<1>1. TypeOK /\ CellInv /\ ConnInv
  BY Zenon DEF SpreadInv
<1>2. /\ how \in mode.breaks /\ conn = "up" /\ breaks < MaxBreaks /\ breaks' = breaks + 1 /\ conn' = how
      /\ UNCHANGED <<mode, sender, pipe, rbuf, arrived, block>>
  BY Zenon DEF Hangup, reader
<1>3. conn' \in {"shut", "reset"} /\ conn' # "up" /\ breaks' \in 0 .. MaxBreaks
  <2>1. breaks \in 0 .. MaxBreaks /\ MaxBreaks \in Nat
    BY <1>1, EventSpreadAssumption DEF TypeOK
  <2> QED BY <1>2, <2>1
<1>4. ConnInv'
  <2>1. mode.breaks # {} /\ block # "hungup"
    BY <1>1, <1>2, Zenon DEF ConnInv
  <2> QED BY <1>2, <1>3, <2>1, Zenon DEF ConnInv
<1>5. SpreadInv'
  <2>1. /\ conn' \in {"up", "shut", "reset"} /\ block' \in {"open", "hungup", "closed", "dangling"}
        /\ pipe' \in Seq(Cell) /\ rbuf' \in Seq(Cell) /\ Len(pipe') <= PipeLen /\ Len(rbuf') <= BUF_LEN
    BY <1>1, <1>2, <1>3, Zenon DEF TypeOK, CellInv
  <2> QED BY <1>2, <1>3, <1>4, <2>1, ReaderKeeps, Zenon
<1>6. ASSUME StreamInv PROVE StreamInv'
  <2>1. PICK a, b : a = Cat(rbuf, pipe) /\ b = Behind
    BY Zenon
  <2>2. a \in Seq(Cell) /\ b \in Seq(Cell) /\ Stream = a \o b
    <3>1. a \in Seq(Cell)
      BY <1>1, <2>1, StreamFacts, Regroup
    <3> QED BY <1>1, <2>1, <3>1, StreamFacts, Zenon DEF Cat
  <2>3. Whole(a)
    BY <1>6, <2>2, PrefixWhole, Zenon DEF StreamInv
  <2>4. Stream' = a
    <3>1. Stream' = a \o <<>>
      BY <1>2, <1>3, <2>1, Zenon DEF Stream, Cat
    <3> QED BY <2>2, <3>1, CatEmpty, Zenon
  <2> QED BY <1>2, <1>3, <1>6, <2>3, <2>4, Zenon DEF StreamInv, ArrivesWhole
<1> QED BY <1>5, <1>6, Zenon

\* The sender is told: it forgets what it kept.
LEMMA SenderHupKeeps ==
    ASSUME SpreadInv, SenderHup
    PROVE  SpreadInv' /\ (StreamInv => StreamInv')
<1>1. TypeOK /\ CellInv /\ SenderInv /\ ConnInv
  BY Zenon DEF SpreadInv
<1>2. /\ pc = "idle" /\ conn # "up" /\ head' = 0 /\ tail' = 0 /\ lost' = 0 /\ connected' = FALSE /\ armed' = FALSE
      /\ UNCHANGED <<mode, conn, breaks, buf, pc, back, msg, len, nr, pipe, rbuf, arrived, block>>
  BY Zenon DEF SenderHup, reader
<1>3. Kept' = <<>> /\ 0 \in 0 .. BUF_LEN - 1
  <2>1. 0 \in 0 .. BUF_LEN - 1
    BY LenFact
  <2>2. Cnt(0, 0) = 0
    BY <2>1, CntFacts, Zenon
  <2>3. Kept' = Cut(buf, 0, 0)
    BY <1>2, <2>2, Zenon DEF Kept
  <2>4. Cut(buf, 0, 0) = <<>>
    BY DEF Cut
  <2> QED BY <2>1, <2>3, <2>4, Zenon
<1>4. CellInv'
  BY <1>1, <1>2, <1>3, CatEmpty, Zenon DEF CellInv
<1>5. TypeOK'
  <2>1. 0 \in 0 .. MaxEvents
    BY EventSpreadAssumption
  <2> QED BY <1>1, <1>2, <1>3, <2>1, Zenon DEF TypeOK
<1>6. SenderInv' /\ ArmedInv' /\ ConnInv'
  <2>1. SenderInv'
    BY <1>1, <1>2, Indices DEF SenderInv
  <2>2. ArmedInv'
    BY <1>2 DEF ArmedInv
  <2>3. ConnInv'
    BY <1>1, <1>2, Zenon DEF ConnInv
  <2> QED BY <2>1, <2>2, <2>3, Zenon
<1>7. StreamInv => StreamInv'
  <2>1. Stream' = Stream
    BY <1>2, Zenon DEF Stream
  <2> QED BY <1>2, <2>1, Zenon DEF StreamInv, ArrivesWhole
<1> QED BY <1>4, <1>5, <1>6, <1>7, Zenon DEF SpreadInv

\* The reader is told, or finds out.
LEMMA ReaderHupKeeps ==
    ASSUME SpreadInv, CdevHup \/ TcpHup \/ RecvNothing
    PROVE  SpreadInv' /\ (StreamInv => StreamInv')
<1>1. TypeOK /\ CellInv /\ ConnInv
  BY Zenon DEF SpreadInv
<1>2. /\ conn # "up" /\ rbuf' = <<>> /\ pipe' = <<>> /\ UNCHANGED <<mode, conn, breaks, sender, arrived>>
      /\ block' \in {"hungup", "closed", "dangling"} /\ (block' = "hungup" => ~mode.order)
  BY DEF CdevHup, TcpHup, RecvNothing
<1>3. ConnInv'
  <2>1. UNCHANGED <<connected, head, tail>>
    BY <1>2, SenderSame, Zenon
  <2> QED BY <1>1, <1>2, <2>1, Zenon DEF ConnInv
<1>4. SpreadInv'
  <2>1. <<>> \in Seq(Cell) /\ Len(<<>>) = 0 /\ 0 <= PipeLen /\ 0 <= BUF_LEN
    BY LenFact, EventSpreadAssumption
  <2>2. conn' \in {"up", "shut", "reset"} /\ breaks' \in 0 .. MaxBreaks
    BY <1>1, <1>2, Zenon DEF TypeOK
  <2>3. block' \in {"open", "hungup", "closed", "dangling"}
    BY <1>2
  <2>4. /\ rbuf' \in Seq(Cell) /\ pipe' \in Seq(Cell) /\ Len(pipe') <= PipeLen /\ Len(rbuf') <= BUF_LEN
    BY <1>2, <2>1
  <2> QED BY <1>2, <1>3, <2>2, <2>3, <2>4, ReaderKeeps, Zenon
<1>5. StreamInv => StreamInv'
  BY <1>2, NothingLeft, Zenon
<1> QED BY <1>4, <1>5, Zenon

\* A sorting reader of a character device sees no connection break: it would not be told of it.
NoSortedBreak == \A m \in Modes : m.reader = "cdev" /\ m.order => m.breaks = {}

\* There is a peer again.
LEMMA ReconnectKeeps ==
    ASSUME SpreadInv, Reconnect
    PROVE  SpreadInv' /\ (NoSortedBreak /\ StreamInv => StreamInv')
<1>1. TypeOK /\ CellInv /\ ConnInv
  BY Zenon DEF SpreadInv
<1>2. /\ mode.reader = "cdev" /\ conn # "up" /\ head = tail /\ (mode.order \/ block = "hungup")
      /\ conn' = "up" /\ block' = "open" /\ UNCHANGED <<mode, breaks, sender, pipe, rbuf, arrived>>
  BY Zenon DEF Reconnect
<1>3. UNCHANGED <<connected, head, tail>> /\ Kept' = Kept
  BY <1>2, SenderSame, Zenon
<1>4. ConnInv'
  BY <1>2, <1>3 DEF ConnInv
<1>5. SpreadInv'
  <2>1. /\ breaks' \in 0 .. MaxBreaks /\ pipe' \in Seq(Cell) /\ rbuf' \in Seq(Cell)
        /\ Len(pipe') <= PipeLen /\ Len(rbuf') <= BUF_LEN
    BY <1>1, <1>2, Zenon DEF TypeOK, CellInv
  <2>2. conn' \in {"up", "shut", "reset"} /\ block' \in {"open", "hungup", "closed", "dangling"}
    BY <1>2
  <2> QED BY <1>2, <1>4, <2>1, <2>2, ReaderKeeps, Zenon
<1>6. ASSUME NoSortedBreak, StreamInv PROVE StreamInv'
  <2>1. rbuf = <<>> /\ pipe = <<>>
    BY <1>1, <1>2, <1>6, Zenon DEF NoSortedBreak, ConnInv, TypeOK
  <2>2. Kept = <<>>
    <3>1. Cnt(head, tail) = 0
      BY <1>1, <1>2, Indices, Zenon
    <3>2. Kept = Cut(buf, tail, 0)
      BY <3>1, Zenon DEF Kept
    <3> QED BY <3>2 DEF Cut
  <2> QED BY <1>2, <1>3, <1>6, <2>1, <2>2, NothingLeft, Zenon
<1> QED BY <1>5, <1>6, Zenon

-----------------------------------------------------------------------------
(* The theorems. *)

\* Nobody is connected, nothing is kept.
LEMMA SpreadInit ==
    ASSUME Init
    PROVE  SpreadInv /\ StreamInv
<1>1. /\ mode \in Modes /\ conn = "up" /\ breaks = 0 /\ connected = FALSE
      /\ buf = [i \in 0 .. BUF_LEN - 1 |-> None] /\ head = 0 /\ tail = 0 /\ lost = 0 /\ armed = FALSE
      /\ pc = "idle" /\ back = "idle" /\ msg = None /\ len = 0 /\ nr = 0 /\ pipe = <<>>
      /\ rbuf = <<>> /\ arrived = None /\ block = "open"
  BY Zenon DEF Init
<1>2. 0 \in 0 .. BUF_LEN - 1 /\ 0 \in 0 .. MaxEvents /\ 0 \in 0 .. MaxBreaks /\ PipeLen \in Nat
  BY LenFact, EventSpreadAssumption
<1>3. Cnt(head, tail) = 0
  BY <1>1, <1>2, CntFacts, Zenon
<1>4. Kept = <<>>
  <2>1. Kept = Cut(buf, tail, 0)
    BY <1>3, Zenon DEF Kept
  <2> QED BY <2>1 DEF Cut
<1>5. TypeOK
  <2>1. Len(pipe) <= PipeLen /\ Len(rbuf) <= BUF_LEN
    BY <1>1, <1>2, LenFact
  <2> QED BY <1>1, <1>2, <2>1, Zenon DEF TypeOK
<1>6. CellInv
  BY <1>1, <1>4, CatEmpty, Zenon DEF CellInv
<1>7. SenderInv /\ ArmedInv /\ ConnInv
  BY <1>1, <1>3 DEF SenderInv, ArmedInv, ConnInv
<1>8. StreamInv
  <2>1. Stream = <<>>
    <3>1. Stream = (<<>> \o <<>>) \o <<>>
      BY <1>1, <1>4, Zenon DEF Stream
    <3> QED BY <3>1, CatEmpty, Zenon
  <2>2. Whole(<<>>) /\ Closed(<<>>)
    <3>1. 1 .. Len(<<>>) = {}
      OBVIOUS
    <3> QED BY <3>1, Zenon DEF Whole, Closed
  <2> QED BY <1>1, <2>1, <2>2, Zenon DEF StreamInv, ArrivesWhole
<1> QED BY <1>5, <1>6, <1>7, <1>8, Zenon DEF SpreadInv

\* Each step of the sender.
LEMMA SenderStepKeeps ==
    ASSUME SpreadInv, (\E s \in Sizes : Broadcast(s)) \/ SenderStep
    PROVE  SpreadInv' /\ (StreamInv => StreamInv')
<1>1. SenderKeeps
  BY BroadcastKeeps, StoredKeeps, ConnectKeeps, PollKeeps, CdevWriteKeeps, SendToEndKeeps,
     SendRestKeeps, SendFailsKeeps, Zenon DEF SenderStep
<1>2. UNCHANGED <<rbuf, arrived, conn>>
  BY Zenon DEF SenderStep, Broadcast, Stored, Connect, Flushed, PollOut, CdevWrite, SendToEnd,
     SendRest, SendFails, reader
<1>3. SpreadInv' /\ CellInv /\ Pushes
  BY <1>1, Zenon DEF SenderKeeps, SpreadInv
<1> QED BY <1>2, <1>3, PushesStream, Zenon

\* Every step keeps the inductive invariant.
LEMMA SpreadNext ==
    ASSUME SpreadInv, [Next]_vars
    PROVE  SpreadInv' /\ (NoSortedBreak /\ StreamInv => StreamInv')
<1>1. CASE UNCHANGED vars
  <2>1. /\ UNCHANGED <<mode, conn, breaks, connected, buf, head, tail, lost, armed, pc, back, msg, len>>
        /\ UNCHANGED <<nr, pipe, rbuf, arrived, block>>
    BY <1>1, Zenon DEF vars, sender, send, reader
  <2>2. Kept' = Kept
    BY <2>1, Zenon DEF Kept
  <2>3. Stream' = Stream
    BY <2>1, <2>2, Zenon DEF Stream
  <2>4. TypeOK' /\ CellInv'
    <3>1. TypeOK'
      BY <2>1, Zenon DEF SpreadInv, TypeOK
    <3>2. CellInv'
      BY <2>1, <2>2, Zenon DEF SpreadInv, CellInv
    <3> QED BY <3>1, <3>2, Zenon
  <2>5. SenderInv' /\ ArmedInv' /\ ConnInv'
    BY <2>1, Zenon DEF SpreadInv, SenderInv, ArmedInv, ConnInv
  <2>6. StreamInv => StreamInv'
    BY <2>1, <2>3, Zenon DEF StreamInv, ArrivesWhole
  <2> QED BY <2>4, <2>5, <2>6, Zenon DEF SpreadInv
<1>2. CASE (\E s \in Sizes : Broadcast(s)) \/ SenderStep
  BY <1>2, SenderStepKeeps, Zenon
<1>3. CASE Read \/ Process \/ \E init \in BOOLEAN : ReadEvent(init)
  BY <1>3, ReadKeeps, ProcessKeeps, ReadEventKeeps, Zenon
<1>4. CASE (\E how \in {"shut", "reset"} : Hangup(how)) \/ SenderHup
  BY <1>4, HangupKeeps, SenderHupKeeps, Zenon
<1>5. CASE CdevHup \/ TcpHup \/ RecvNothing \/ Reconnect
  BY <1>5, ReaderHupKeeps, ReconnectKeeps, Zenon
<1>6. CASE Done
  BY <1>1, <1>6, Zenon DEF Done
<1> QED BY <1>1, <1>2, <1>3, <1>4, <1>5, <1>6, Zenon DEF Next

\* The indices of the circular buffer, the counters and the buffers of both ends stay in their
\* ranges, whatever the sizes are, however reads, writes and hang-ups are interleaved.
THEOREM SpreadTypes == Spec => []TypeOK
<1>1. Init => SpreadInv
  BY SpreadInit
<1>2. SpreadInv /\ [Next]_vars => SpreadInv'
  BY SpreadNext
<1>3. SpreadInv => TypeOK
  BY Zenon DEF SpreadInv
<1> QED BY <1>1, <1>2, <1>3, PTL DEF Spec

\* While something waits for room EPOLLOUT is asked for: nobody who waits is forgotten by
\* block_broadcast(), tcp_send(), handle_cdev_event() and handle_inout().
THEOREM NoWaiterForgotten == Spec => []NobodyForgotten
<1>1. Init => SpreadInv
  BY SpreadInit
<1>2. SpreadInv /\ [Next]_vars => SpreadInv'
  BY SpreadNext
<1>3. SpreadInv => NobodyForgotten
  BY Zenon DEF SpreadInv, ArmedInv, NobodyForgotten
<1> QED BY <1>1, <1>2, <1>3, PTL DEF Spec

\* What the reader cuts out of its buffer is an event as the sender wrote it: the wrap of the
\* circular buffer, short writes, short reads and hang-ups never glue two events together.
THEOREM EventsWhole ==
    ASSUME NoSortedBreak
    PROVE  Spec => []ArrivesWhole
<1>1. Init => SpreadInv /\ StreamInv
  BY SpreadInit
<1>2. SpreadInv /\ StreamInv /\ [Next]_vars => (SpreadInv /\ StreamInv)'
  BY SpreadNext
<1>3. StreamInv => ArrivesWhole
  BY Zenon DEF StreamInv
<1> QED BY <1>1, <1>2, <1>3, PTL DEF Spec

================================================================================
