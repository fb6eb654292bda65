----------------------------- MODULE QemuProofs -----------------------------
(***************************************************************************)
(* Proofs about the shared-memory bridge, for rings of every size, indices *)
(* of every width that is a multiple of it, and messages of any length.    *)
(*                                                                         *)
(* The rings first: what a frame that is written at the head does to the   *)
(* bytes before it, and that a ring of whole frames (Whole) gains a        *)
(* message when its head moves over a written frame and loses its oldest   *)
(* one when its tail moves.  Then the bridge: the inductive invariant      *)
(* BridgeInv says that both rings are whole, how old the bridge's copies   *)
(* of the indices may be, and what is written but not yet published.  From *)
(* it, every step of bridge and guest is a step of QemuLink or none, and   *)
(* the answers a guest gets follow from the queues (OneAnswer).            *)
(***************************************************************************)
EXTENDS QemuBridge, WellFoundedInduction, TLAPS

\* ---- Remainders ----
LEMMA DivMod ==
    ASSUME NEW a \in Int, NEW b \in Nat \ {0}
    PROVE  a % b \in 0 .. b - 1 /\ a \div b \in Int /\ a = b * (a \div b) + (a % b)
OBVIOUS

LEMMA ModUnique ==
    ASSUME NEW a \in Int, NEW b \in Nat \ {0}, NEW q \in Int, NEW r \in 0 .. b - 1,
           a = b * q + r
    PROVE  a % b = r
OBVIOUS

LEMMA ModShift ==
    ASSUME NEW a \in Int, NEW b \in Nat \ {0}, NEW q \in Int
    PROVE  (a + b * q) % b = a % b
<1> DEFINE d == a \div b
           r == a % b
<1>1. d \in Int /\ r \in 0 .. b - 1 /\ a = b * d + r BY DivMod
<1> HIDE DEF d, r
<1>2. a + b * q = b * (d + q) + r BY <1>1
<1>3. a + b * q \in Int /\ d + q \in Int BY <1>1
<1>4. (a + b * q) % b = r BY <1>1, <1>2, <1>3, ModUnique
<1> QED BY <1>4 DEF r

LEMMA ModSmall ==
    ASSUME NEW b \in Nat \ {0}, NEW a \in 0 .. b - 1 PROVE a % b = a
OBVIOUS

\* Two numbers with the same remainder differ by a multiple.
LEMMA ModDiff ==
    ASSUME NEW a \in Int, NEW c \in Int, NEW b \in Nat \ {0}, a % b = c % b
    PROVE  \E q \in Int : a = c + b * q
<1> DEFINE d == a \div b
           e == c \div b
           r == a % b
<1>1. d \in Int /\ r \in Int /\ a = b * d + r BY DivMod
<1>2. e \in Int /\ c = b * e + r BY DivMod
<1> HIDE DEF d, e, r
<1>3. a = c + b * (d - e) /\ d - e \in Int BY <1>1, <1>2
<1> QED BY <1>3

LEMMA ModMod ==
    ASSUME NEW a \in Int, NEW b \in Nat \ {0} PROVE (a % b) % b = a % b
BY DivMod, ModSmall

\* The index of a message is masked after it has wrapped: the cell is the same.
LEMMA ModIndex ==
    ASSUME NEW a \in Int PROVE (a % IndexMod) % RingSize = a % RingSize
<1>1. /\ RingSize \in Nat \ {0} /\ IndexMod \in Nat \ {0} /\ IndexMod % RingSize = 0
  BY RingAssumption
<1> DEFINE k == IndexMod \div RingSize
           d == a \div IndexMod
           r == a % IndexMod
<1>2. k \in Int /\ IndexMod = RingSize * k + 0 BY <1>1, DivMod
<1>3. d \in Int /\ r \in Int /\ a = IndexMod * d + r BY <1>1, DivMod
<1> HIDE DEF k, d, r
<1>4. k * d \in Int /\ a = r + RingSize * (k * d) BY <1>1, <1>2, <1>3
<1>5. (r + RingSize * (k * d)) % RingSize = r % RingSize BY <1>1, <1>3, <1>4, ModShift
<1> QED BY <1>4, <1>5 DEF r

\* ---- Indices ----
LEMMA Sizes == RingSize \in Nat \ {0} /\ IndexMod \in Nat \ {0} /\ ByteMod \in Nat \ {0}
BY RingAssumption

LEMMA CellAdd ==
    ASSUME NEW a \in Int, NEW c \in Int, NEW j \in Int, a % RingSize = c % RingSize
    PROVE  (a + j) % RingSize = (c + j) % RingSize
<1>1. PICK q \in Int : a = c + RingSize * q BY Sizes, ModDiff
<1>2. c + j \in Int BY <1>1
<1>3. (c + j + RingSize * q) % RingSize = (c + j) % RingSize BY <1>2, Sizes, ModShift
<1>4. a + j = c + j + RingSize * q BY <1>1, Sizes
<1> QED BY <1>3, <1>4

LEMMA AdvanceType == ASSUME NEW i \in Int, NEW n \in Int PROVE Advance(i, n) \in Index
<1>1. i + n \in Int OBVIOUS
<1>2. (i + n) % IndexMod \in 0 .. IndexMod - 1 BY <1>1, Sizes, DivMod
<1> QED BY <1>2 DEF Advance, Index

LEMMA IndexInt == \A i \in Index : i \in Int
BY Sizes DEF Index

\* Moving an index on moves every cell counted from it.
LEMMA AdvanceCell ==
    ASSUME NEW i \in Int, NEW n \in Int, NEW j \in Int
    PROVE  (Advance(i, n) + j) % RingSize = (i + n + j) % RingSize
<1> DEFINE a == Advance(i, n)
           c == i + n
<1>1. c \in Int /\ a \in Int BY AdvanceType, IndexInt
<1>2. a % RingSize = c % RingSize BY <1>1, ModIndex DEF Advance
<1> HIDE DEF a, c
<1>3. (a + j) % RingSize = (c + j) % RingSize BY <1>1, <1>2, CellAdd
<1> QED BY <1>3 DEF a, c

LEMMA ReadableMod ==
    ASSUME NEW h \in Int, NEW t \in Int
    PROVE  /\ ring_readable(h, t) = (h - t) % RingSize
           /\ ring_readable(h, t) \in 0 .. RingSize - 1
<1>1. h - t \in Int OBVIOUS
<1>2. ring_readable(h, t) = (h - t) % RingSize BY <1>1, ModIndex DEF ring_readable
<1> QED BY <1>1, <1>2, Sizes, DivMod

LEMMA ReadableNat == ASSUME NEW h \in Int, NEW t \in Int PROVE ring_readable(h, t) \in Nat
<1>1. ring_readable(h, t) \in 0 .. RingSize - 1 BY ReadableMod
<1> QED BY <1>1, Sizes

\* Counted from the tail, the head is as far away as there are bytes to read.
LEMMA HeadCell ==
    ASSUME NEW h \in Int, NEW t \in Int, NEW j \in Int
    PROVE  (h + j) % RingSize = (t + ring_readable(h, t) + j) % RingSize
<1> DEFINE n == ring_readable(h, t)
<1>1. n = (h - t) % RingSize /\ n \in 0 .. RingSize - 1 /\ h - t \in Int BY ReadableMod
<1>2. n \in Int /\ n % RingSize = n BY <1>1, Sizes, ModSmall
<1> HIDE DEF n
<1> DEFINE a == h - t
           d == t + j
<1>3. a \in Int /\ d \in Int /\ a % RingSize = n % RingSize BY <1>1, <1>2
<1>4. a + d = h + j /\ n + d = t + n + j BY <1>2
<1> HIDE DEF a, d
<1>5. (a + d) % RingSize = (n + d) % RingSize BY <1>2, <1>3, CellAdd
<1>6. (h + j) % RingSize = (t + n + j) % RingSize BY <1>4, <1>5
<1> QED BY <1>6 DEF n

LEMMA ReadableFrom ==
    ASSUME NEW h \in Int, NEW t \in Int, NEW n \in 0 .. RingSize - 1,
           h % RingSize = (t + n) % RingSize
    PROVE  ring_readable(h, t) = n
<1> DEFINE a == t + n
           d == -t
<1>1. n \in Int /\ n % RingSize = n /\ a \in Int /\ d \in Int BY Sizes, ModSmall
<1>2. h % RingSize = a % RingSize OBVIOUS
<1>3. h + d = h - t /\ a + d = n BY <1>1
<1> HIDE DEF a, d
<1>4. (h + d) % RingSize = (a + d) % RingSize BY <1>1, <1>2, CellAdd
<1>5. (h - t) % RingSize = n BY <1>1, <1>3, <1>4
<1> QED BY <1>5, ReadableMod

\* Publishing n bytes that fit makes n more readable.
LEMMA HeadMoves ==
    ASSUME NEW h \in Int, NEW t \in Int, NEW n \in Nat, ring_readable(h, t) + n < RingSize
    PROVE  ring_readable(Advance(h, n), t) = ring_readable(h, t) + n
<1> DEFINE L == ring_readable(h, t)
<1>1. L \in Int /\ L >= 0 BY ReadableMod, Sizes
<1>2. L + n \in 0 .. RingSize - 1 BY <1>1, Sizes
<1>3. Advance(h, n) \in Int BY AdvanceType, IndexInt
<1>4. (Advance(h, n) + 0) % RingSize = (h + n + 0) % RingSize BY AdvanceCell
<1>5. (h + n) % RingSize = (t + L + n) % RingSize BY HeadCell
<1> HIDE DEF L
<1>6. Advance(h, n) % RingSize = (t + (L + n)) % RingSize
  <2>1. Advance(h, n) + 0 = Advance(h, n) /\ h + n + 0 = h + n /\ t + L + n = t + (L + n)
    BY <1>1, <1>3
  <2> QED BY <1>4, <1>5, <2>1
<1>7. ring_readable(Advance(h, n), t) = L + n BY <1>2, <1>3, <1>6, ReadableFrom
<1> QED BY <1>7 DEF L

\* Taking n of the readable bytes leaves the others.
LEMMA TailMoves ==
    ASSUME NEW h \in Int, NEW t \in Int, NEW n \in Nat, n <= ring_readable(h, t)
    PROVE  ring_readable(h, Advance(t, n)) = ring_readable(h, t) - n
<1> DEFINE L == ring_readable(h, t)
<1>1. L \in 0 .. RingSize - 1 /\ L \in Int BY ReadableMod, Sizes
<1>2. L - n \in 0 .. RingSize - 1 /\ L - n \in Int BY <1>1, Sizes
<1>3. Advance(t, n) \in Int BY AdvanceType, IndexInt
<1>4. (Advance(t, n) + (L - n)) % RingSize = (t + n + (L - n)) % RingSize BY <1>2, AdvanceCell
<1>5. (h + 0) % RingSize = (t + L + 0) % RingSize BY HeadCell
<1> HIDE DEF L
<1>6. h % RingSize = (Advance(t, n) + (L - n)) % RingSize
  <2>1. h + 0 = h /\ t + L + 0 = t + L /\ t + n + (L - n) = t + L BY <1>1
  <2> QED BY <1>4, <1>5, <2>1
<1>7. ring_readable(h, Advance(t, n)) = L - n BY <1>2, <1>3, <1>6, ReadableFrom
<1> QED BY <1>7 DEF L

\* ---- Frames ----
LEMMA FrameFacts ==
    ASSUME NEW m \in Seq(Nat)
    PROVE  /\ Frame(m) \in Seq(Nat) /\ Len(Frame(m)) = Len(m) + 2
           /\ Frame(m)[1] + ByteMod * Frame(m)[2] = Len(m)
           /\ \A i \in 1 .. Len(m) : Frame(m)[i + 2] = m[i]
<1> DEFINE lo == Len(m) % ByteMod
           hi == Len(m) \div ByteMod
<1>1. Len(m) \in Nat OBVIOUS
<1>2. lo \in 0 .. ByteMod - 1 /\ hi \in Int /\ Len(m) = ByteMod * hi + lo
  BY <1>1, Sizes, DivMod
<1>3. hi \in Nat /\ lo \in Nat BY <1>1, <1>2, Sizes
<1> HIDE DEF lo, hi
<1>4. Frame(m) = <<lo, hi>> \o m BY DEF Frame, lo, hi
<1>5. <<lo, hi>> \in Seq(Nat) /\ Len(<<lo, hi>>) = 2 BY <1>3
<1>6. Frame(m) \in Seq(Nat) /\ Len(Frame(m)) = Len(m) + 2 BY <1>4, <1>5
<1>7. Frame(m)[1] = lo /\ Frame(m)[2] = hi BY <1>1, <1>4, <1>5
<1>8. \A i \in 1 .. Len(m) : Frame(m)[i + 2] = m[i] BY <1>1, <1>4, <1>5
<1>9. lo + ByteMod * hi = Len(m) BY <1>2, <1>3, Sizes
<1> QED BY <1>6, <1>7, <1>8, <1>9

\* ---- Bytes of a ring ----
Ring == [Cells -> Nat]

LEMMA CellType == ASSUME NEW i \in Int PROVE i % RingSize \in Cells
BY Sizes, DivMod DEF Cells

LEMMA ByteType == ASSUME NEW r \in Ring, NEW i \in Int PROVE Byte(r, i) \in Nat
BY CellType DEF Ring, Byte

\* Byte i after the head holds byte i of a frame that was written there.
LEMMA WriteAt ==
    ASSUME NEW r \in Ring, NEW h \in Int, NEW m \in Seq(Nat), NEW i \in 0 .. RingSize - 1
    PROVE  Byte(ring_write(r, h, m), h + i)
             = IF i < Len(Frame(m)) THEN Frame(m)[i + 1] ELSE Byte(r, h + i)
<1> DEFINE c == (h + i) % RingSize
           d == -h
           s == h + i
<1>1. i \in Int /\ s \in Int /\ d \in Int /\ c = s % RingSize BY Sizes
<1>2. c \in Cells BY <1>1, CellType
<1>3. c \in Int /\ c % RingSize = s % RingSize
  <2>1. (s % RingSize) % RingSize = s % RingSize BY <1>1, Sizes, ModMod
  <2>2. c \in Int BY <1>2, Sizes DEF Cells
  <2> QED BY <1>1, <2>1, <2>2
<1>4. c + d = c - h /\ s + d = i BY <1>1, <1>3
<1> HIDE DEF c, d, s
<1>5. (c + d) % RingSize = (s + d) % RingSize BY <1>1, <1>3, CellAdd
<1>6. (c - h) % RingSize = i BY <1>4, <1>5, Sizes, ModSmall
<1>7. ring_write(r, h, m)[c] = IF i < Len(Frame(m)) THEN Frame(m)[i + 1] ELSE r[c]
  BY <1>2, <1>6 DEF ring_write
<1> QED BY <1>7 DEF Byte, c

LEMMA WriteType ==
    ASSUME NEW r \in Ring, NEW h \in Int, NEW m \in Seq(Nat)
    PROVE  ring_write(r, h, m) \in Ring
<1>1. ASSUME NEW c \in Cells
      PROVE  (LET i == (c - h) % RingSize
              IN IF i < Len(Frame(m)) THEN Frame(m)[i + 1] ELSE r[c]) \in Nat
  <2> DEFINE i == (c - h) % RingSize
  <2>1. c - h \in Int BY Sizes DEF Cells
  <2>2. i \in Nat BY <2>1, Sizes, DivMod
  <2> HIDE DEF i
  <2>3. CASE i < Len(Frame(m))
    <3>1. i + 1 \in 1 .. Len(Frame(m)) BY <2>2, <2>3, FrameFacts
    <3>2. Frame(m) \in Seq(Nat) BY FrameFacts
    <3>3. Frame(m)[i + 1] \in Nat BY <3>1, <3>2
    <3> QED BY <2>3, <3>3 DEF i
  <2>4. CASE ~(i < Len(Frame(m))) BY <2>4 DEF i, Ring
  <2> QED BY <2>3, <2>4
<1> QED BY <1>1 DEF ring_write, Ring

\* A byte before the head is some way after it, all round the ring.
LEMMA BeforeHead ==
    ASSUME NEW h \in Int, NEW n \in Int
    PROVE  (h - n) % RingSize = (h + (RingSize - n)) % RingSize
<1>1. h - n \in Int /\ RingSize \in Int /\ 1 \in Int BY Sizes
<1>2. (h - n + RingSize * 1) % RingSize = (h - n) % RingSize BY <1>1, Sizes, ModShift
<1>3. h - n + RingSize * 1 = h + (RingSize - n) BY <1>1
<1> QED BY <1>2, <1>3

\* A frame that fits leaves the readable bytes, the last n before the head,
\* as they are.
LEMMA WriteKeeps ==
    ASSUME NEW r \in Ring, NEW h \in Int, NEW m \in Seq(Nat),
           NEW n \in 1 .. RingSize - 1, Len(Frame(m)) + n < RingSize
    PROVE  Byte(ring_write(r, h, m), h - n) = Byte(r, h - n)
<1>1. n \in Int /\ RingSize - n \in 0 .. RingSize - 1 /\ Len(Frame(m)) \in Nat
  BY Sizes, FrameFacts
<1>2. ~(RingSize - n < Len(Frame(m))) BY <1>1, Sizes
<1>3. Byte(ring_write(r, h, m), h + (RingSize - n)) = Byte(r, h + (RingSize - n))
  BY <1>1, <1>2, WriteAt
<1>4. (h - n) % RingSize = (h + (RingSize - n)) % RingSize BY <1>1, BeforeHead
<1> QED BY <1>3, <1>4 DEF Byte

\* ---- Decoding ----
LEMMA LeastNat ==
    ASSUME NEW S \in SUBSET Nat, S # {} PROVE \E i \in S : \A j \in S : i <= j
<1>1. PICK i \in S : \A j \in S : ~(<<j, i>> \in OpToRel(<, Nat))
  BY NatLessThanWellFounded, WFMin
<1>2. \A j \in S : ~(j < i) BY <1>1 DEF OpToRel
<1> QED BY <1>2

LEMMA FrameLenType ==
    ASSUME NEW r \in Ring, NEW i \in Int PROVE FrameLen(r, i) \in Nat /\ FrameLen(r, i) >= 2
<1>1. i + 1 \in Int OBVIOUS
<1>2. Byte(r, i) \in Nat /\ Byte(r, i + 1) \in Nat BY <1>1, ByteType
<1>3. ByteMod * Byte(r, i + 1) \in Nat
  <2>1. \A x \in Nat, y \in Nat : x * y \in Nat OBVIOUS
  <2> QED BY <1>2, <2>1, Sizes
<1> QED BY <1>2, <1>3 DEF FrameLen

LEMMA PayloadType ==
    ASSUME NEW r \in Ring, NEW i \in Int
    PROVE  ReadPayload(r, i) \in Seq(Nat) /\ Len(ReadPayload(r, i)) = FrameLen(r, i) - 2
<1>1. FrameLen(r, i) - 2 \in Nat BY FrameLenType
<1>2. \A j \in 1 .. FrameLen(r, i) - 2 : i + 1 + j \in Int BY <1>1
<1>3. \A j \in 1 .. FrameLen(r, i) - 2 : Byte(r, i + 1 + j) \in Nat BY <1>2, ByteType
<1> QED BY <1>1, <1>3 DEF ReadPayload

\* The messages in the last n bytes before the head, as Unread computes them.
Entry(r, h, f, n) ==
    IF n < 2 \/ FrameLen(r, h - n) > n THEN <<>>
    ELSE <<ReadPayload(r, h - n)>> \o f[n - FrameLen(r, h - n)]
Decoded(r, h) == CHOOSE f : f = [n \in Cells |-> Entry(r, h, f, n)]

LEMMA UnreadDecoded ==
    ASSUME NEW r, NEW h, NEW t
    PROVE  Unread(r, h, t) = Decoded(r, h)[ring_readable(h, t)]
BY Zenon DEF Unread, Decoded, Entry

\* The recursion goes down, so it defines a function.
LEMMA DecodedExists ==
    ASSUME NEW r \in Ring, NEW h \in Int, NEW k \in Nat
    PROVE  \E g : g = [n \in 0 .. k |-> Entry(r, h, g, n)]
<1> DEFINE Bad == {i \in Nat : ~\E g : g = [n \in 0 .. i |-> Entry(r, h, g, n)]}
<1>1. SUFFICES Bad = {} OBVIOUS
<1>2. SUFFICES ASSUME Bad # {} PROVE FALSE OBVIOUS
<1>3. PICK i \in Bad : \A j \in Bad : i <= j BY <1>2, LeastNat
<1>4. i \in Nat /\ ~\E g : g = [n \in 0 .. i |-> Entry(r, h, g, n)] BY <1>3
<1>5. CASE i = 0
  <2> DEFINE g == [n \in 0 .. i |-> <<>>]
  <2>1. \A n \in 0 .. i : Entry(r, h, g, n) = <<>> BY <1>5 DEF Entry
  <2>2. g = [n \in 0 .. i |-> Entry(r, h, g, n)] BY <2>1
  <2> QED BY <1>4, <2>2
<1>6. CASE i # 0
  <2>1. i - 1 \in Nat /\ i - 1 \notin Bad BY <1>3, <1>4, <1>6
  <2>2. PICK g : g = [n \in 0 .. i - 1 |-> Entry(r, h, g, n)] BY <2>1
  <2> DEFINE f == [n \in 0 .. i |-> IF n = i THEN Entry(r, h, g, i) ELSE g[n]]
  <2>3. ASSUME NEW n \in 0 .. i PROVE Entry(r, h, f, n) = Entry(r, h, g, n)
    <3>1. h - n \in Int /\ n \in Nat BY <1>4
    <3>2. FrameLen(r, h - n) \in Nat /\ FrameLen(r, h - n) >= 2 BY <3>1, FrameLenType
    <3> DEFINE l == FrameLen(r, h - n)
    <3> HIDE DEF l
    <3>3. l \in Nat /\ l >= 2 BY <3>2 DEF l
    <3>4. l <= n => n - l \in 0 .. i /\ n - l # i /\ n - l \in 0 .. i - 1 BY <3>1, <3>3, <1>4
    <3>5. l <= n => f[n - l] = g[n - l] BY <3>4
    <3>6. ~(l > n) => l <= n BY <3>1, <3>3
    <3> HIDE DEF f
    <3> QED BY <3>5, <3>6 DEF Entry, l
  <2>4. ASSUME NEW n \in 0 .. i PROVE f[n] = Entry(r, h, g, n)
    <3>1. CASE n = i BY <3>1
    <3>2. CASE n # i
      <4>1. n \in 0 .. i - 1 /\ f[n] = g[n] BY <3>2, <1>4
      <4>2. g[n] = Entry(r, h, g, n) BY <2>2, <4>1
      <4> QED BY <4>1, <4>2
    <3> QED BY <3>1, <3>2
  <2>5. \A n \in 0 .. i : f[n] = Entry(r, h, f, n) BY <2>3, <2>4
  <2>6. f = [n \in 0 .. i |-> f[n]] OBVIOUS
  <2> HIDE DEF f
  <2>7. f = [n \in 0 .. i |-> Entry(r, h, f, n)] BY <2>5, <2>6
  <2> QED BY <1>4, <2>7
<1> QED BY <1>5, <1>6

LEMMA DecodedAt ==
    ASSUME NEW r \in Ring, NEW h \in Int, NEW n \in Cells
    PROVE  Decoded(r, h)[n] = Entry(r, h, Decoded(r, h), n)
<1>1. RingSize - 1 \in Nat BY Sizes
<1>2. \E f : f = [c \in Cells |-> Entry(r, h, f, c)] BY <1>1, DecodedExists DEF Cells
<1>3. Decoded(r, h) = [c \in Cells |-> Entry(r, h, Decoded(r, h), c)]
  BY <1>2, Zenon DEF Decoded
<1> DEFINE f == Decoded(r, h)
<1> HIDE DEF f
<1>4. f = [c \in Cells |-> Entry(r, h, f, c)] BY <1>3 DEF f
<1>5. f[n] = Entry(r, h, f, n) BY <1>4
<1> QED BY <1>5 DEF f

\* The messages in n bytes: none, or one and those in the bytes after it.
LEMMA DecodedNone ==
    ASSUME NEW r \in Ring, NEW h \in Int, NEW n \in Cells, n < 2
    PROVE  Decoded(r, h)[n] = <<>>
BY DecodedAt DEF Entry

LEMMA DecodedOne ==
    ASSUME NEW r \in Ring, NEW h \in Int, NEW n \in Cells, n >= 2, FrameLen(r, h - n) <= n
    PROVE  /\ n - FrameLen(r, h - n) \in Cells /\ n - FrameLen(r, h - n) < n
           /\ Decoded(r, h)[n]
                = <<ReadPayload(r, h - n)>> \o Decoded(r, h)[n - FrameLen(r, h - n)]
<1>1. n \in Nat /\ h - n \in Int BY Sizes DEF Cells
<1>2. FrameLen(r, h - n) \in Nat /\ FrameLen(r, h - n) >= 2 BY <1>1, FrameLenType
<1>3. n - FrameLen(r, h - n) \in Cells /\ n - FrameLen(r, h - n) < n
  BY <1>1, <1>2, Sizes DEF Cells
<1>4. ~(n < 2 \/ FrameLen(r, h - n) > n) BY <1>1, <1>2
<1>5. Decoded(r, h)[n] = Entry(r, h, Decoded(r, h), n) BY DecodedAt
<1>6. Decoded(r, h)[n]
        = <<ReadPayload(r, h - n)>> \o Decoded(r, h)[n - FrameLen(r, h - n)]
  BY <1>4, <1>5, Zenon DEF Entry
<1> QED BY <1>3, <1>6

LEMMA DecodedType ==
    ASSUME NEW r \in Ring, NEW h \in Int, NEW n \in Cells
    PROVE  Decoded(r, h)[n] \in Seq(Seq(Nat))
<1> DEFINE Bad == {i \in Cells : Decoded(r, h)[i] \notin Seq(Seq(Nat))}
<1>1. SUFFICES ASSUME Bad # {} PROVE FALSE OBVIOUS
<1>2. Bad \in SUBSET Nat BY Sizes DEF Cells
<1>3. PICK i \in Bad : \A j \in Bad : i <= j BY <1>1, <1>2, LeastNat
<1>4. i \in Cells /\ i \in Nat /\ h - i \in Int BY <1>3, Sizes DEF Cells
<1>5. CASE i < 2 \/ FrameLen(r, h - i) > i
  <2>1. Decoded(r, h)[i] = <<>> BY <1>4, <1>5, DecodedAt DEF Entry
  <2>2. <<>> \in Seq(Seq(Nat)) OBVIOUS
  <2>3. Decoded(r, h)[i] \notin Seq(Seq(Nat)) BY <1>3
  <2> QED BY <2>1, <2>2, <2>3, Zenon
<1>6. CASE ~(i < 2 \/ FrameLen(r, h - i) > i)
  <2> DEFINE k == i - FrameLen(r, h - i)
             p == ReadPayload(r, h - i)
             d == Decoded(r, h)
  <2>1. i >= 2 /\ FrameLen(r, h - i) <= i BY <1>4, <1>6, FrameLenType
  <2>2. k \in Cells /\ k < i /\ d[i] = <<p>> \o d[k] BY <1>4, <2>1, DecodedOne
  <2>3. p \in Seq(Nat) BY <1>4, PayloadType
  <2> HIDE DEF k, p
  <2>4. k \in Nat BY <2>2, Sizes DEF Cells
  <2>5. k \notin Bad BY <1>3, <1>4, <2>2, <2>4
  <2>6. d[k] \in Seq(Seq(Nat)) BY <2>2, <2>5
  <2> HIDE DEF d
  <2>7. <<p>> \in Seq(Seq(Nat)) BY <2>3
  <2>8. d[i] \in Seq(Seq(Nat)) BY <2>2, <2>6, <2>7
  <2> QED BY <1>3, <2>8 DEF d
<1> QED BY <1>5, <1>6

\* A frame is read from cells, whatever index names them.
LEMMA SameFrame ==
    ASSUME NEW r, NEW i \in Int, NEW k \in Int, i % RingSize = k % RingSize
    PROVE  FrameLen(r, i) = FrameLen(r, k) /\ ReadPayload(r, i) = ReadPayload(r, k)
<1>1. ASSUME NEW j \in Int PROVE Byte(r, i + j) = Byte(r, k + j)
  <2>1. (i + j) % RingSize = (k + j) % RingSize BY CellAdd
  <2> QED BY <2>1 DEF Byte
<1>2. Byte(r, i) = Byte(r, k) BY DEF Byte
<1>3. Byte(r, i + 1) = Byte(r, k + 1) BY <1>1
<1>4. FrameLen(r, i) = FrameLen(r, k) BY <1>2, <1>3 DEF FrameLen
<1>5. ASSUME NEW j \in 1 .. FrameLen(r, k) - 2 PROVE Byte(r, i + 1 + j) = Byte(r, k + 1 + j)
  <2>1. j \in Int /\ 1 + j \in Int OBVIOUS
  <2>2. i + (1 + j) = i + 1 + j /\ k + (1 + j) = k + 1 + j BY <2>1
  <2>3. Byte(r, i + (1 + j)) = Byte(r, k + (1 + j)) BY <1>1, <2>1
  <2> QED BY <2>2, <2>3
<1> QED BY <1>4, <1>5 DEF ReadPayload

\* What is decoded from n bytes depends on these n bytes alone.
LEMMA SameBytes ==
    ASSUME NEW r \in Ring, NEW s \in Ring, NEW h \in Int, NEW n \in Cells, n >= 2,
           \A i \in 1 .. n : Byte(r, h - i) = Byte(s, h - i)
    PROVE  /\ FrameLen(r, h - n) = FrameLen(s, h - n)
           /\ FrameLen(r, h - n) <= n => ReadPayload(r, h - n) = ReadPayload(s, h - n)
<1>1. n \in Nat /\ h - n \in Int BY Sizes DEF Cells
<1>2. ASSUME NEW j \in 0 .. n - 1 PROVE Byte(r, h - n + j) = Byte(s, h - n + j)
  <2>1. n - j \in 1 .. n /\ h - (n - j) = h - n + j BY <1>1
  <2> QED BY <2>1
<1>3. Byte(r, h - n) = Byte(s, h - n) BY <1>1
<1>4. 1 \in 0 .. n - 1 BY <1>1
<1>5. Byte(r, h - n + 1) = Byte(s, h - n + 1) BY <1>2, <1>4
<1>6. FrameLen(r, h - n) = FrameLen(s, h - n) BY <1>3, <1>5 DEF FrameLen
<1>7. ASSUME FrameLen(r, h - n) <= n, NEW j \in 1 .. FrameLen(r, h - n) - 2
      PROVE  Byte(r, h - n + 1 + j) = Byte(s, h - n + 1 + j)
  <2>1. FrameLen(r, h - n) \in Nat BY <1>1, FrameLenType
  <2>2. 1 + j \in 0 .. n - 1 /\ h - n + (1 + j) = h - n + 1 + j BY <1>1, <1>7, <2>1
  <2>3. Byte(r, h - n + (1 + j)) = Byte(s, h - n + (1 + j)) BY <1>2, <2>2
  <2> QED BY <2>2, <2>3
<1> QED BY <1>6, <1>7 DEF ReadPayload

\* ---- Rings that hold whole messages ----
\* B are the places, counted back from the head, where a frame begins, and 0.
Bounds(r, h, n, B) ==
    /\ n \in B /\ B \subseteq 0 .. n
    /\ \A i \in B : i = 0 \/ (/\ i >= 2 /\ FrameLen(r, h - i) <= i
                              /\ i - FrameLen(r, h - i) \in B)
Whole(r, h, t) == \E B \in SUBSET Nat : Bounds(r, h, ring_readable(h, t), B)

\* An empty ring holds nothing.
LEMMA WholeEmpty ==
    ASSUME NEW r \in Ring, NEW i \in Int
    PROVE  Whole(r, i, i) /\ Unread(r, i, i) = <<>>
<1>1. ring_readable(i, i) = 0
  <2>1. 0 \in 0 .. RingSize - 1 /\ i + 0 = i BY Sizes
  <2>2. i % RingSize = (i + 0) % RingSize BY <2>1
  <2> QED BY <2>1, <2>2, ReadableFrom
<1>2. Bounds(r, i, 0, {0}) BY DEF Bounds
<1>3. 0 \in Cells BY Sizes DEF Cells
<1>4. Decoded(r, i)[0] = <<>> BY <1>3, DecodedNone
<1> QED BY <1>1, <1>2, <1>4, UnreadDecoded DEF Whole

LEMMA UnreadType ==
    ASSUME NEW r \in Ring, NEW h \in Int, NEW t \in Int PROVE Unread(r, h, t) \in Seq(Seq(Nat))
<1>1. ring_readable(h, t) \in Cells BY ReadableMod DEF Cells
<1> QED BY <1>1, DecodedType, UnreadDecoded

\* Bytes that are not readable do not matter.
LEMMA WholeSame ==
    ASSUME NEW r \in Ring, NEW s \in Ring, NEW h \in Int, NEW t \in Int, Whole(r, h, t),
           \A i \in 1 .. ring_readable(h, t) : Byte(r, h - i) = Byte(s, h - i)
    PROVE  Whole(s, h, t) /\ Unread(s, h, t) = Unread(r, h, t)
<1> DEFINE L == ring_readable(h, t)
<1>1. L \in Cells /\ L \in Nat /\ L <= RingSize - 1 BY ReadableMod, Sizes DEF Cells
<1>2. PICK B \in SUBSET Nat : Bounds(r, h, L, B) BY DEF Whole
<1> HIDE DEF L
<1>3. ASSUME NEW i \in B, i # 0
      PROVE  /\ i \in Cells /\ i >= 2 /\ FrameLen(r, h - i) <= i
             /\ i - FrameLen(r, h - i) \in B
             /\ FrameLen(s, h - i) = FrameLen(r, h - i)
             /\ ReadPayload(s, h - i) = ReadPayload(r, h - i)
  <2>1. /\ i \in 0 .. L /\ i >= 2 /\ FrameLen(r, h - i) <= i
        /\ i - FrameLen(r, h - i) \in B BY <1>2, <1>3 DEF Bounds
  <2>2. i \in Cells BY <1>1, <2>1, Sizes DEF Cells
  <2>3. \A j \in 1 .. i : Byte(r, h - j) = Byte(s, h - j)
    <3>1. \A j \in 1 .. i : j \in 1 .. L BY <1>1, <2>1
    <3> QED BY <3>1 DEF L
  <2> QED BY <2>1, <2>2, <2>3, SameBytes
<1>4. Bounds(s, h, L, B) BY <1>2, <1>3 DEF Bounds
<1> DEFINE Bad == {i \in B : Decoded(s, h)[i] # Decoded(r, h)[i]}
<1>5. Bad = {}
  <2>1. SUFFICES ASSUME Bad # {} PROVE FALSE OBVIOUS
  <2>2. PICK i \in Bad : \A j \in Bad : i <= j BY <2>1, LeastNat
  <2>3. i \in B /\ i \in Nat /\ Decoded(s, h)[i] # Decoded(r, h)[i] BY <2>2
  <2>4. CASE i = 0
    <3>1. i \in Cells /\ i < 2 BY <2>4, Sizes DEF Cells
    <3> QED BY <2>3, <3>1, DecodedNone
  <2>5. CASE i # 0
    <3> DEFINE k == i - FrameLen(r, h - i)
    <3>1. /\ i \in Cells /\ i >= 2 /\ FrameLen(r, h - i) <= i /\ k \in B
          /\ FrameLen(s, h - i) = FrameLen(r, h - i)
          /\ ReadPayload(s, h - i) = ReadPayload(r, h - i) BY <1>3, <2>3, <2>5
    <3>2. k < i /\ Decoded(r, h)[i] = <<ReadPayload(r, h - i)>> \o Decoded(r, h)[k]
      BY <3>1, DecodedOne
    <3>3. Decoded(s, h)[i] = <<ReadPayload(r, h - i)>> \o Decoded(s, h)[k]
      BY <3>1, DecodedOne
    <3> HIDE DEF k
    <3>4. k \in Nat /\ ~(i <= k) BY <2>3, <3>1, <3>2
    <3>5. k \notin Bad BY <2>2, <3>4
    <3>6. Decoded(s, h)[k] = Decoded(r, h)[k] BY <3>1, <3>5
    <3> QED BY <2>3, <3>2, <3>3, <3>6
  <2> QED BY <2>4, <2>5
<1>6. Decoded(s, h)[L] = Decoded(r, h)[L] BY <1>2, <1>5 DEF Bounds
<1> QED BY <1>4, <1>6, UnreadDecoded DEF Whole, L

\* A frame that fits is written behind the messages that wait.
LEMMA WriteWhole ==
    ASSUME NEW r \in Ring, NEW h \in Int, NEW t \in Int, NEW m \in Seq(Nat),
           Whole(r, h, t), FitsRing(h, t, m)
    PROVE  /\ Whole(ring_write(r, h, m), h, t)
           /\ Unread(ring_write(r, h, m), h, t) = Unread(r, h, t)
           /\ \A j \in 1 .. Len(Frame(m)) : Byte(ring_write(r, h, m), h + j - 1) = Frame(m)[j]
<1> DEFINE L == ring_readable(h, t)
           F == Len(Frame(m))
           s == ring_write(r, h, m)
<1>1. L \in 0 .. RingSize - 1 /\ F \in Nat /\ s \in Ring
  <2>1. L \in 0 .. RingSize - 1 BY ReadableMod
  <2>2. F \in Nat BY FrameFacts
  <2>3. s \in Ring BY WriteType
  <2> QED BY <2>1, <2>2, <2>3
<1>2. F + L < RingSize BY <1>1, Sizes DEF FitsRing, ring_writable
<1>3. ASSUME NEW i \in 1 .. L PROVE Byte(r, h - i) = Byte(s, h - i)
  <2>1. i \in 1 .. RingSize - 1 /\ F + i < RingSize BY <1>1, <1>2, Sizes
  <2> QED BY <2>1, WriteKeeps
<1>4. ASSUME NEW j \in 1 .. F PROVE Byte(s, h + j - 1) = Frame(m)[j]
  <2>1. j - 1 \in 0 .. RingSize - 1 /\ j - 1 < F /\ h + (j - 1) = h + j - 1 /\ j - 1 + 1 = j
    BY <1>1, <1>2, Sizes
  <2> DEFINE i == j - 1
  <2>2. i \in 0 .. RingSize - 1 /\ i < F /\ h + i = h + j - 1 /\ i + 1 = j BY <2>1
  <2> HIDE DEF i
  <2>3. Byte(s, h + i) = Frame(m)[i + 1] BY <2>2, WriteAt
  <2> QED BY <2>2, <2>3
<1>5. Whole(s, h, t) /\ Unread(s, h, t) = Unread(r, h, t) BY <1>1, <1>3, WholeSame
<1> QED BY <1>4, <1>5

\* What a reader finds at the tail is the oldest message.
LEMMA TakeFirst ==
    ASSUME NEW r \in Ring, NEW h \in Int, NEW t \in Int, Whole(r, h, t),
           ring_readable(h, t) # 0
    PROVE  /\ NewTail(r, t) \in Index
           /\ Whole(r, h, NewTail(r, t))
           /\ ring_readable(h, NewTail(r, t)) <= ring_readable(h, t)
           /\ Unread(r, h, t) = <<ReadPayload(r, t)>> \o Unread(r, h, NewTail(r, t))
<1> DEFINE L == ring_readable(h, t)
           l == FrameLen(r, t)
           u == NewTail(r, t)
           d == Decoded(r, h)
<1>1. L \in Cells /\ L \in Nat /\ L \in Int BY ReadableMod, Sizes DEF Cells
<1>2. l \in Nat /\ l >= 2 BY FrameLenType
<1>3. u \in Index /\ u \in Int /\ u = Advance(t, l) BY <1>2, AdvanceType, IndexInt DEF NewTail
<1>4. (h - L) % RingSize = t % RingSize
  <2> DEFINE k == -L
  <2>1. k \in Int BY <1>1
  <2>2. (h + k) % RingSize = (t + L + k) % RingSize BY <2>1, HeadCell
  <2> HIDE DEF L
  <2>3. h + k = h - L /\ t + L + k = t BY <1>1
  <2> QED BY <2>2, <2>3
<1>5. FrameLen(r, h - L) = l /\ ReadPayload(r, h - L) = ReadPayload(r, t)
  <2>1. h - L \in Int BY <1>1
  <2> QED BY <1>4, <2>1, SameFrame
<1>6. PICK B \in SUBSET Nat : Bounds(r, h, L, B) BY DEF Whole
<1>7. L >= 2 /\ l <= L /\ L - l \in B BY <1>5, <1>6 DEF Bounds
<1>8. ring_readable(h, u) = L - l BY <1>2, <1>3, <1>7, TailMoves
<1>9. Bounds(r, h, L - l, B \cap 0 .. L - l)
  <2>1. L - l \in Nat BY <1>1, <1>2, <1>7
  <2>2. ASSUME NEW i \in B \cap 0 .. L - l, i # 0
        PROVE  /\ i >= 2 /\ FrameLen(r, h - i) <= i
               /\ i - FrameLen(r, h - i) \in B \cap 0 .. L - l
    <3>1. i >= 2 /\ FrameLen(r, h - i) <= i /\ i - FrameLen(r, h - i) \in B
      BY <1>6, <2>2 DEF Bounds
    <3>2. FrameLen(r, h - i) \in Nat
      <4>1. h - i \in Int BY <2>1
      <4> QED BY <4>1, FrameLenType
    <3> HIDE DEF L, l
    <3>3. i - FrameLen(r, h - i) \in 0 .. L - l BY <2>1, <3>1, <3>2
    <3> QED BY <3>1, <3>3
  <2> QED BY <1>7, <2>1, <2>2 DEF Bounds
<1>10. d[L] = <<ReadPayload(r, t)>> \o d[L - l] BY <1>1, <1>5, <1>7, DecodedOne
<1>11. Unread(r, h, t) = d[L] /\ Unread(r, h, u) = d[L - l] BY <1>8, UnreadDecoded
<1>12. L - l <= L BY <1>1, <1>2
<1> HIDE DEF L, l, d, u
<1>13. Whole(r, h, u) BY <1>8, <1>9 DEF Whole
<1> QED BY <1>3, <1>8, <1>10, <1>11, <1>12, <1>13 DEF L, u

\* What is read where a frame was written.
LEMMA FrameRead ==
    ASSUME NEW r \in Ring, NEW h \in Int, NEW m \in Seq(Nat),
           \A j \in 1 .. Len(Frame(m)) : Byte(r, h + j - 1) = Frame(m)[j]
    PROVE  FrameLen(r, h) = Len(Frame(m)) /\ ReadPayload(r, h) = m
<1> DEFINE f == Frame(m)
<1>1. /\ f \in Seq(Nat) /\ Len(f) = Len(m) + 2 /\ f[1] + ByteMod * f[2] = Len(m)
      /\ \A i \in 1 .. Len(m) : f[i + 2] = m[i] BY FrameFacts
<1>2. Len(m) \in Nat /\ 1 \in 1 .. Len(f) /\ 2 \in 1 .. Len(f) BY <1>1
<1>3. h + 1 - 1 = h /\ h + 2 - 1 = h + 1 OBVIOUS
<1> HIDE DEF f
<1>4. \A j \in 1 .. Len(f) : Byte(r, h + j - 1) = f[j] BY DEF f
<1>5. Byte(r, h + 1 - 1) = f[1] /\ Byte(r, h + 2 - 1) = f[2] BY <1>2, <1>4
<1>6. Byte(r, h) = f[1] /\ Byte(r, h + 1) = f[2] BY <1>3, <1>5
<1>7. f[1] \in Nat /\ f[2] \in Nat BY <1>1, <1>2
<1>8. FrameLen(r, h) = Len(f)
  <2>1. FrameLen(r, h) = 2 + f[1] + ByteMod * f[2] BY <1>6 DEF FrameLen
  <2> DEFINE y == ByteMod * f[2]
  <2>2. y \in Int BY <1>7, Sizes
  <2> HIDE DEF y
  <2>3. 2 + f[1] + y = 2 + (f[1] + y) BY <1>7, <2>2
  <2> QED BY <1>1, <1>2, <2>1, <2>3 DEF y
<1>9. ASSUME NEW i \in 1 .. Len(m) PROVE Byte(r, h + 1 + i) = m[i]
  <2>1. i + 2 \in 1 .. Len(f) /\ h + (i + 2) - 1 = h + 1 + i BY <1>1, <1>2
  <2>2. Byte(r, h + (i + 2) - 1) = f[i + 2] BY <1>4, <2>1
  <2> QED BY <1>1, <2>1, <2>2
<1>10. FrameLen(r, h) - 2 = Len(m) BY <1>1, <1>2, <1>8
<1>11. ReadPayload(r, h) = [i \in 1 .. Len(m) |-> m[i]] BY <1>9, <1>10 DEF ReadPayload
<1>12. m = [i \in 1 .. Len(m) |-> m[i]] OBVIOUS
<1> QED BY <1>8, <1>11, <1>12 DEF f

LEMMA AppendLater ==
    ASSUME NEW S, NEW p \in S, NEW m \in S, NEW q \in Seq(S)
    PROVE  <<p>> \o Append(q, m) = Append(<<p>> \o q, m)
<1> DEFINE a == <<p>> \o Append(q, m)
           b == Append(<<p>> \o q, m)
<1>1. <<p>> \in Seq(S) /\ Append(q, m) \in Seq(S) /\ <<p>> \o q \in Seq(S) OBVIOUS
<1>2. a \in Seq(S) /\ b \in Seq(S) BY <1>1
<1>3. Len(a) = Len(q) + 2 /\ Len(b) = Len(q) + 2 BY <1>1
<1>4. ASSUME NEW i \in 1 .. Len(q) + 2 PROVE a[i] = b[i]
  <2>1. CASE i = 1 BY <1>1, <2>1
  <2>2. CASE i \in 2 .. Len(q) + 1 BY <1>1, <2>2
  <2>3. CASE i = Len(q) + 2 BY <1>1, <2>3
  <2> QED BY <2>1, <2>2, <2>3
<1> QED BY <1>2, <1>3, <1>4

\* Moving the head over a written frame appends its message.
LEMMA PublishOne ==
    ASSUME NEW r \in Ring, NEW h \in Int, NEW t \in Int, NEW m \in Seq(Nat),
           Whole(r, h, t), FitsRing(h, t, m),
           \A j \in 1 .. Len(Frame(m)) : Byte(r, h + j - 1) = Frame(m)[j]
    PROVE  /\ Whole(r, Advance(h, Len(Frame(m))), t)
           /\ ring_readable(h, t) <= ring_readable(Advance(h, Len(Frame(m))), t)
           /\ Unread(r, Advance(h, Len(Frame(m))), t) = Append(Unread(r, h, t), m)
<1> DEFINE L == ring_readable(h, t)
           F == Len(Frame(m))
           g == Advance(h, F)
           old == Decoded(r, h)
           new == Decoded(r, g)
<1>1. L \in 0 .. RingSize - 1 /\ L \in Nat BY ReadableMod, Sizes
<1>2. F \in Nat /\ F >= 2
  <2>1. F = Len(m) + 2 /\ Len(m) \in Nat BY FrameFacts
  <2> QED BY <2>1
<1>3. F + L < RingSize BY <1>1, <1>2, Sizes DEF FitsRing, ring_writable
<1>4. g \in Index /\ g \in Int BY <1>2, AdvanceType, IndexInt
<1>5. ring_readable(g, t) = L + F BY <1>1, <1>2, <1>3, HeadMoves
<1>6. FrameLen(r, h) = F /\ ReadPayload(r, h) = m BY FrameRead
<1>7. PICK B \in SUBSET Nat : Bounds(r, h, L, B) BY DEF Whole
\* Frames are where they were, F bytes further from the new head.
<1>8. ASSUME NEW i \in Nat
      PROVE  /\ FrameLen(r, g - (i + F)) = FrameLen(r, h - i)
             /\ ReadPayload(r, g - (i + F)) = ReadPayload(r, h - i)
  <2> DEFINE k == -(i + F)
  <2>1. k \in Int /\ h - i \in Int /\ g - (i + F) \in Int BY <1>2, <1>4
  <2>2. (Advance(h, F) + k) % RingSize = (h + F + k) % RingSize BY <1>2, <2>1, AdvanceCell
  <2>3. g + k = g - (i + F) /\ h + F + k = h - i BY <1>2, <1>4
  <2> HIDE DEF F, k
  <2>4. (g - (i + F)) % RingSize = (h - i) % RingSize BY <2>2, <2>3
  <2> QED BY <2>1, <2>4, SameFrame
<1> DEFINE C == {0} \cup {i + F : i \in B}
<1>9. \A i \in B : i \in 0 .. L /\ i \in Nat BY <1>7 DEF Bounds
<1> HIDE DEF L, F, g
<1>10. Bounds(r, g, L + F, C)
  <2>1. L + F \in C /\ C \subseteq 0 .. L + F BY <1>1, <1>2, <1>7, <1>9 DEF Bounds
  <2>2. ASSUME NEW i \in B
        PROVE  /\ i + F >= 2 /\ FrameLen(r, g - (i + F)) <= i + F
               /\ (i + F) - FrameLen(r, g - (i + F)) \in C
    <3>1. i \in Nat BY <1>9
    <3>2. CASE i = 0
      <4>1. h - i = h /\ i + F = F /\ F - F = 0 BY <1>2, <3>2
      <4>2. FrameLen(r, g - (i + F)) = F BY <1>6, <1>8, <3>1, <4>1 DEF F
      <4> QED BY <1>2, <4>1, <4>2
    <3>3. CASE i # 0
      <4> DEFINE l == FrameLen(r, h - i)
      <4>1. i >= 2 /\ l <= i /\ i - l \in B BY <1>7, <3>3 DEF Bounds
      <4>2. h - i \in Int BY <3>1
      <4>3. l \in Nat BY <4>2, FrameLenType
      <4>4. FrameLen(r, g - (i + F)) = l BY <1>8, <3>1
      <4> HIDE DEF l
      <4>5. (i + F) - l = (i - l) + F BY <1>2, <3>1, <4>3
      <4>6. (i - l) + F \in C BY <4>1
      <4> QED BY <1>2, <3>1, <4>1, <4>3, <4>4, <4>5, <4>6
    <3> QED BY <3>2, <3>3
  <2> QED BY <2>1, <2>2 DEF Bounds
<1> DEFINE Bad == {i \in B : new[i + F] # Append(old[i], m)}
<1>11. Bad = {}
  <2>1. SUFFICES ASSUME Bad # {} PROVE FALSE OBVIOUS
  <2>2. PICK i \in Bad : \A j \in Bad : i <= j BY <2>1, LeastNat
  <2>3. i \in B /\ i \in 0 .. L /\ i \in Nat /\ new[i + F] # Append(old[i], m) BY <1>9, <2>2
  <2>4. i \in Cells /\ i + F \in Cells /\ i + F >= 2 BY <1>1, <1>2, <1>3, <2>3, Sizes DEF Cells
  <2> DEFINE e == i + F
  <2>5. FrameLen(r, g - e) = FrameLen(r, h - i) /\ ReadPayload(r, g - e) = ReadPayload(r, h - i)
    BY <1>8, <2>3
  <2>6. CASE i = 0
    <3>1. h - i = h /\ e = F /\ F - F = 0 BY <1>2, <2>6
    <3>2. FrameLen(r, g - e) = F /\ ReadPayload(r, g - e) = m BY <1>6, <2>5, <3>1 DEF F
    <3> HIDE DEF e
    <3>3. F <= F BY <1>2
    <3>4. new[e] = <<m>> \o new[0]
      <4>1. e \in Cells /\ e >= 2 /\ FrameLen(r, g - e) <= e BY <2>4, <3>1, <3>2, <3>3 DEF e
      <4>2. new[e] = <<ReadPayload(r, g - e)>> \o new[e - FrameLen(r, g - e)]
        BY <1>4, <4>1, DecodedOne
      <4> QED BY <3>1, <3>2, <4>2
    <3>5. new[0] = <<>> /\ old[0] = <<>> BY <1>4, <2>4, <2>6, DecodedNone
    <3> HIDE DEF new, old
    <3>6. <<m>> \o <<>> = Append(<<>>, m)
      <4>1. <<>> \in Seq(Seq(Nat)) /\ <<m>> \in Seq(Seq(Nat)) OBVIOUS
      <4>2. <<m>> \o <<>> = <<m>> BY <4>1
      <4>3. Append(<<>>, m) = <<m>> BY <4>1
      <4> QED BY <4>2, <4>3
    <3>7. new[e] = Append(old[i], m) BY <2>6, <3>4, <3>5, <3>6
    <3> QED BY <2>3, <3>7 DEF e
  <2>7. CASE i # 0
    <3> DEFINE l == FrameLen(r, h - i)
               p == ReadPayload(r, h - i)
    <3>1. i >= 2 /\ l <= i /\ i - l \in B BY <1>7, <2>3, <2>7 DEF Bounds
    <3>2. i - l \in Cells /\ i - l < i /\ old[i] = <<p>> \o old[i - l]
      BY <2>4, <3>1, DecodedOne
    <3>3. h - i \in Int BY <2>3
    <3>4. l \in Nat /\ p \in Seq(Nat) BY <3>3, FrameLenType, PayloadType
    <3>5. old[i - l] \in Seq(Seq(Nat)) BY <3>2, DecodedType
    <3>6. FrameLen(r, g - e) = l /\ ReadPayload(r, g - e) = p BY <2>5
    <3> HIDE DEF l, p
    <3>7. l <= e /\ e - l = (i - l) + F BY <1>2, <2>3, <3>1, <3>4
    <3>8. e \in Cells /\ e >= 2 BY <2>4
    <3> HIDE DEF e
    <3>9. new[e] = <<p>> \o new[e - l] BY <1>4, <3>6, <3>7, <3>8, DecodedOne
    <3>10. i - l \in Nat /\ ~(i <= i - l) BY <2>3, <3>1, <3>2, <3>4
    <3>11. i - l \notin Bad BY <2>2, <3>10
    <3>12. new[(i - l) + F] = Append(old[i - l], m) BY <3>1, <3>11
    <3> DEFINE q == old[i - l]
    <3>13. q \in Seq(Seq(Nat)) /\ old[i] = <<p>> \o q BY <3>2, <3>5
    <3>14. new[e] = <<p>> \o Append(q, m) BY <3>7, <3>9, <3>12
    <3> HIDE DEF q, new, old
    <3>15. <<p>> \o Append(q, m) = Append(<<p>> \o q, m) BY <3>4, <3>13, AppendLater
    <3>16. new[e] = Append(old[i], m) BY <3>13, <3>14, <3>15
    <3> QED BY <2>3, <3>16 DEF e
  <2> QED BY <2>6, <2>7
<1>12. new[L + F] = Append(old[L], m) BY <1>7, <1>11 DEF Bounds
<1>13. C \in SUBSET Nat BY <1>2, <1>9
<1>14. Whole(r, g, t) BY <1>5, <1>10, <1>13 DEF Whole
<1>15. Unread(r, g, t) = Append(Unread(r, h, t), m) BY <1>5, <1>12, UnreadDecoded DEF L
<1>16. L <= L + F BY <1>1, <1>2
<1> QED BY <1>5, <1>14, <1>15, <1>16 DEF L, F, g

\* Taking from the tail leaves room for what was going to be written.
LEMMA StillFits ==
    ASSUME NEW h \in Int, NEW t \in Int, NEW u \in Int, NEW m \in Seq(Nat), FitsRing(h, t, m),
           ring_readable(h, u) <= ring_readable(h, t)
    PROVE  FitsRing(h, u, m)
<1>1. ring_readable(h, t) \in Int /\ ring_readable(h, u) \in Int BY ReadableMod, Sizes
<1>2. Len(Frame(m)) \in Nat BY FrameFacts
<1> QED BY <1>1, <1>2, Sizes DEF FitsRing, ring_writable

\* ---- The bridge and its guest ----
\* A frame is in place at the head.
Written(r, h, m) == \A j \in 1 .. Len(Frame(m)) : Byte(r, h + j - 1) = Frame(m)[j]
Cmds == Unread(cmd_ring, hdr.cmd_head, hdr.cmd_tail)
Rsps == Unread(rsp_ring, hdr.rsp_head, hdr.rsp_tail)

BridgeTypes ==
    /\ hdr \in Indices /\ bridge \in Indices /\ cmd_ring \in Ring /\ rsp_ring \in Ring
    /\ pc \in {"idle", "read", "answer", "write", "publish"}
    /\ power \in {"off", "ready"} /\ guest_power \in {"off", "ready"}
    /\ window \in Windows /\ (staged = None \/ staged \in Messages[window])
    /\ (rsp = None \/ rsp \in Seq(Nat)) /\ (rsp = None <=> pc \in {"idle", "read"})
\* The bridge's copy of cmd_head may be old, and then shows less than there is.
CmdPart ==
    /\ bridge.cmd_tail = hdr.cmd_tail
    /\ Whole(cmd_ring, hdr.cmd_head, hdr.cmd_tail)
    /\ pc = "read" => ring_readable(bridge.cmd_head, hdr.cmd_tail)
                        <= ring_readable(hdr.cmd_head, hdr.cmd_tail)
    /\ staged # None => /\ Written(cmd_ring, hdr.cmd_head, staged)
                        /\ FitsRing(hdr.cmd_head, hdr.cmd_tail, staged)
\* Its copy of rsp_tail may be old too, and then shows less room than there is.
RspPart ==
    /\ bridge.rsp_head = hdr.rsp_head
    /\ Whole(rsp_ring, hdr.rsp_head, hdr.rsp_tail)
    /\ pc = "write" => ring_readable(hdr.rsp_head, hdr.rsp_tail)
                         <= ring_readable(hdr.rsp_head, bridge.rsp_tail)
    /\ pc = "publish" => /\ Written(rsp_ring, hdr.rsp_head, rsp)
                         /\ FitsRing(hdr.rsp_head, hdr.rsp_tail, rsp)
BridgeInv == BridgeTypes /\ CmdPart /\ RspPart

LEMMA HdrTypes ==
    ASSUME BridgeTypes
    PROVE  /\ hdr.cmd_head \in Int /\ hdr.cmd_tail \in Int /\ hdr.rsp_head \in Int
           /\ hdr.rsp_tail \in Int /\ bridge.cmd_head \in Int /\ bridge.rsp_tail \in Int
           /\ staged # None => staged \in Seq(Nat)
<1>1. hdr \in Indices /\ bridge \in Indices BY DEF BridgeTypes
<1>2. staged # None => staged \in Seq(Nat) BY MessagesAssumption DEF BridgeTypes
<1> QED BY <1>1, <1>2, IndexInt DEF Indices

LEMMA QueueTypes ==
    ASSUME BridgeTypes PROVE Cmds \in Seq(Seq(Nat)) /\ Rsps \in Seq(Seq(Nat))
<1>1. cmd_ring \in Ring /\ rsp_ring \in Ring BY DEF BridgeTypes
<1> QED BY <1>1, HdrTypes, UnreadType DEF Cmds, Rsps

LEMMA ResponseType ==
    ASSUME NEW p, NEW m \in Seq(Nat)
    PROVE  Response(p, m) = None \/ Response(p, m) \in Seq(Nat)
<1>1. FALLBACK_APDU_RSP \in Seq(Nat) BY DEF FALLBACK_APDU_RSP, Apdu
<1>2. m # <<>> => Process(p, m) = None \/ Process(p, m) \in Seq(Nat)
  <2>1. m # <<>> => Tail(m) \in Seq(Nat) OBVIOUS
  <2>2. <<0>> \in Seq(Nat) OBVIOUS
  <2> QED BY <2>1, <2>2 DEF Process
<1>3. ASSUME NEW x \in Seq(Nat)
      PROVE  <<IF m[1] = Apdu THEN Apdu ELSE Atr>> \o x \in Seq(Nat)
  <2>1. (IF m[1] = Apdu THEN Apdu ELSE Atr) \in Nat BY DEF Apdu, Atr
  <2> QED BY <2>1
<1> QED BY <1>1, <1>2, <1>3 DEF Response

LEMMA BridgeInit == Init => BridgeInv /\ Cmds = <<>> /\ Rsps = <<>>
<1> SUFFICES ASSUME Init PROVE BridgeInv /\ Cmds = <<>> /\ Rsps = <<>> OBVIOUS
<1>1. PICK i \in {0, IndexMod - 3} :
         hdr = [cmd_head |-> i, cmd_tail |-> i, rsp_head |-> i, rsp_tail |-> i]
  BY DEF Init
<1>2. i \in Index /\ i \in Int BY RingAssumption DEF Index
<1>3. hdr \in Indices /\ bridge = hdr BY <1>1, <1>2 DEF Init, Indices
<1>4. cmd_ring \in Ring /\ rsp_ring \in Ring BY DEF Init, Ring
<1>5. BridgeTypes BY <1>3, <1>4 DEF Init, BridgeTypes
<1>6. Whole(cmd_ring, i, i) /\ Whole(rsp_ring, i, i) /\ Unread(cmd_ring, i, i) = <<>>
      /\ Unread(rsp_ring, i, i) = <<>>
  BY <1>2, <1>4, WholeEmpty
<1>7. pc = "idle" /\ staged = None BY DEF Init
<1>8. CmdPart /\ RspPart BY <1>1, <1>3, <1>6, <1>7 DEF CmdPart, RspPart
<1> QED BY <1>1, <1>5, <1>6, <1>8 DEF BridgeInv, Cmds, Rsps

\* ---- What each step does to the queues ----
Quiet == Cmds' = Cmds /\ Rsps' = Rsps /\ rsp' = rsp /\ power' = power

\* The steps of the bridge that only refresh a copy, or find nothing.
LEMMA StepRefresh == BridgeInv /\ (step_refresh \/ rsp_refresh \/ step_empty) => BridgeInv' /\ Quiet
<1> SUFFICES ASSUME BridgeInv, step_refresh \/ rsp_refresh \/ step_empty
             PROVE  BridgeInv' /\ Quiet
  OBVIOUS
<1>1. BridgeTypes /\ CmdPart /\ RspPart BY DEF BridgeInv
<1>2. hdr \in Indices /\ bridge \in Indices BY <1>1 DEF BridgeTypes
<1>3. UNCHANGED <<hdr, cmd_ring, rsp_ring, rsp, power, guestVars>>
  BY DEF step_refresh, rsp_refresh, step_empty
<1>4. UNCHANGED <<staged, owed, guest_power, window>> BY <1>3 DEF guestVars
<1>5. Quiet BY <1>3 DEF Quiet, Cmds, Rsps
<1>6. CASE step_refresh
  <2>1. bridge' = [bridge EXCEPT !.cmd_head = hdr.cmd_head] /\ pc = "idle" /\ pc' = "read"
    BY <1>6 DEF step_refresh
  <2>2. /\ bridge' \in Indices /\ bridge'.cmd_head = hdr.cmd_head
        /\ bridge'.cmd_tail = bridge.cmd_tail /\ bridge'.rsp_head = bridge.rsp_head
    BY <1>2, <2>1 DEF Indices
  <2>3. BridgeTypes' BY <1>1, <1>3, <1>4, <2>1, <2>2 DEF BridgeTypes
  <2>4. ring_readable(hdr.cmd_head, hdr.cmd_tail) <= ring_readable(hdr.cmd_head, hdr.cmd_tail)
    <3>1. ring_readable(hdr.cmd_head, hdr.cmd_tail) \in Nat BY <1>1, HdrTypes, ReadableNat
    <3> QED BY <3>1
  <2>5. CmdPart' BY <1>1, <1>3, <1>4, <2>1, <2>2, <2>4 DEF CmdPart
  <2>6. RspPart' BY <1>1, <1>3, <2>1, <2>2 DEF RspPart
  <2> QED BY <1>5, <2>3, <2>5, <2>6 DEF BridgeInv
<1>7. CASE rsp_refresh
  <2>1. bridge' = [bridge EXCEPT !.rsp_tail = hdr.rsp_tail] /\ pc = "answer" /\ pc' = "write"
    BY <1>7 DEF rsp_refresh
  <2>2. /\ bridge' \in Indices /\ bridge'.rsp_tail = hdr.rsp_tail
        /\ bridge'.cmd_tail = bridge.cmd_tail /\ bridge'.rsp_head = bridge.rsp_head
    BY <1>2, <2>1 DEF Indices
  <2>3. BridgeTypes' BY <1>1, <1>3, <1>4, <2>1, <2>2 DEF BridgeTypes
  <2>4. ring_readable(hdr.rsp_head, hdr.rsp_tail) <= ring_readable(hdr.rsp_head, hdr.rsp_tail)
    <3>1. ring_readable(hdr.rsp_head, hdr.rsp_tail) \in Nat BY <1>1, HdrTypes, ReadableNat
    <3> QED BY <3>1
  <2>5. CmdPart' BY <1>1, <1>3, <1>4, <2>1, <2>2 DEF CmdPart
  <2>6. RspPart' BY <1>1, <1>3, <2>1, <2>2, <2>4 DEF RspPart
  <2> QED BY <1>5, <2>3, <2>5, <2>6 DEF BridgeInv
<1>8. CASE step_empty
  <2>1. bridge' = bridge /\ pc = "read" /\ pc' = "idle" BY <1>8 DEF step_empty
  <2>2. BridgeTypes' BY <1>1, <1>3, <1>4, <2>1 DEF BridgeTypes
  <2>3. CmdPart' BY <1>1, <1>3, <1>4, <2>1 DEF CmdPart
  <2>4. RspPart' BY <1>1, <1>3, <2>1 DEF RspPart
  <2> QED BY <1>5, <2>2, <2>3, <2>4 DEF BridgeInv
<1> QED BY <1>6, <1>7, <1>8

LEMMA StepStutter == BridgeInv /\ UNCHANGED vars => BridgeInv' /\ Quiet
<1> SUFFICES ASSUME BridgeInv, UNCHANGED vars PROVE BridgeInv' /\ Quiet OBVIOUS
<1>1. /\ UNCHANGED <<hdr, cmd_ring, rsp_ring, bridge, pc, rsp, power>>
      /\ UNCHANGED <<staged, owed, guest_power, window>>
  BY DEF vars, guestVars
<1> QED BY <1>1 DEF BridgeInv, BridgeTypes, CmdPart, RspPart, Quiet, Cmds, Rsps

\* The bridge takes the oldest command.
LEMMA StepTake ==
    BridgeInv /\ step_take
      => /\ BridgeInv'
         /\ Cmds # <<>> /\ rsp = None
         /\ Cmds' = Tail(Cmds) /\ Rsps' = Rsps
         /\ rsp' = Response(power, Head(Cmds)) /\ power' = PowerAfter(power, Head(Cmds))
<1> SUFFICES ASSUME BridgeInv, step_take
             PROVE  /\ BridgeInv'
                    /\ Cmds # <<>> /\ rsp = None
                    /\ Cmds' = Tail(Cmds) /\ Rsps' = Rsps
                    /\ rsp' = Response(power, Head(Cmds))
                    /\ power' = PowerAfter(power, Head(Cmds))
  OBVIOUS
<1> DEFINE h == hdr.cmd_head
           t == hdr.cmd_tail
           u == NewTail(cmd_ring, t)
           m == ReadPayload(cmd_ring, t)
<1>1. BridgeTypes /\ CmdPart /\ RspPart BY DEF BridgeInv
<1>2. hdr \in Indices /\ bridge \in Indices /\ bridge.cmd_tail = t
  BY <1>1 DEF BridgeTypes, CmdPart
<1>3. h \in Int /\ t \in Int /\ bridge.cmd_head \in Int /\ cmd_ring \in Ring /\ rsp_ring \in Ring
  BY <1>1, HdrTypes DEF BridgeTypes
<1>4. /\ pc = "read" /\ CanRead(cmd_ring, bridge.cmd_head, t)
      /\ bridge' = [bridge EXCEPT !.cmd_tail = u] /\ hdr' = [hdr EXCEPT !.cmd_tail = u]
      /\ power' = PowerAfter(power, m) /\ rsp' = Response(power, m)
      /\ pc' = (IF rsp' = None THEN "idle" ELSE "answer")
      /\ UNCHANGED <<cmd_ring, rsp_ring>> /\ UNCHANGED <<staged, owed, guest_power, window>>
  BY <1>2 DEF step_take, guestVars
<1>5. ring_readable(h, t) # 0
  <2>1. ring_readable(bridge.cmd_head, t) >= 2 BY <1>4 DEF CanRead
  <2>2. ring_readable(bridge.cmd_head, t) <= ring_readable(h, t) BY <1>1, <1>4 DEF CmdPart
  <2>3. ring_readable(bridge.cmd_head, t) \in Nat /\ ring_readable(h, t) \in Nat
    BY <1>3, ReadableNat
  <2> QED BY <2>1, <2>2, <2>3
<1>6. Whole(cmd_ring, h, t) BY <1>1 DEF CmdPart
<1>7. /\ u \in Index /\ Whole(cmd_ring, h, u) /\ ring_readable(h, u) <= ring_readable(h, t)
      /\ Unread(cmd_ring, h, t) = <<m>> \o Unread(cmd_ring, h, u)
  BY <1>3, <1>5, <1>6, TakeFirst
<1>8. m \in Seq(Nat) BY <1>3, PayloadType
<1>9. u \in Int BY <1>7, IndexInt
<1>10. Unread(cmd_ring, h, u) \in Seq(Seq(Nat)) BY <1>3, <1>9, UnreadType
<1> HIDE DEF u, m
<1>11. /\ hdr' \in Indices /\ hdr'.cmd_head = h /\ hdr'.cmd_tail = u
       /\ hdr'.rsp_head = hdr.rsp_head /\ hdr'.rsp_tail = hdr.rsp_tail
  BY <1>2, <1>4, <1>7 DEF Indices
<1>12. /\ bridge' \in Indices /\ bridge'.cmd_tail = u
       /\ bridge'.rsp_head = bridge.rsp_head /\ bridge'.rsp_tail = bridge.rsp_tail
  BY <1>2, <1>4, <1>7 DEF Indices
<1>13. Cmds = <<m>> \o Unread(cmd_ring, h, u) /\ Cmds' = Unread(cmd_ring, h, u)
  BY <1>4, <1>7, <1>11 DEF Cmds
<1>14. Rsps' = Rsps BY <1>4, <1>11 DEF Rsps
<1>15. Cmds # <<>> /\ Head(Cmds) = m /\ Tail(Cmds) = Cmds' BY <1>8, <1>10, <1>13
<1>16. rsp = None BY <1>1, <1>4 DEF BridgeTypes
<1>17. BridgeTypes'
  <2>1. rsp' = None \/ rsp' \in Seq(Nat) BY <1>4, <1>8, ResponseType
  <2>2. power' \in {"off", "ready"} BY <1>1, <1>4 DEF BridgeTypes, PowerAfter
  <2>3. pc' \in {"idle", "answer"} /\ (rsp' = None <=> pc' \in {"idle", "read"}) BY <1>4
  <2> QED BY <1>1, <1>4, <1>11, <1>12, <2>1, <2>2, <2>3 DEF BridgeTypes
<1>18. CmdPart'
  <2>1. pc' # "read" BY <1>4
  <2>2. ASSUME staged # None
        PROVE  Written(cmd_ring, h, staged) /\ FitsRing(h, u, staged)
    <3>1. staged \in Seq(Nat) BY <1>1, <2>2, HdrTypes
    <3>2. Written(cmd_ring, h, staged) /\ FitsRing(h, t, staged) BY <1>1, <2>2 DEF CmdPart
    <3> QED BY <1>3, <1>7, <1>9, <3>1, <3>2, StillFits
  <2> QED BY <1>4, <1>7, <1>11, <1>12, <2>1, <2>2 DEF CmdPart
<1>19. RspPart'
  <2>1. pc' \notin {"write", "publish"} BY <1>4
  <2> QED BY <1>1, <1>4, <1>11, <1>12, <2>1 DEF RspPart
<1> QED BY <1>4, <1>14, <1>15, <1>16, <1>17, <1>18, <1>19 DEF BridgeInv

\* The bridge writes its answer where the guest does not look yet.
LEMMA StepWrite == BridgeInv /\ rsp_write => BridgeInv' /\ Quiet
<1> SUFFICES ASSUME BridgeInv, rsp_write PROVE BridgeInv' /\ Quiet OBVIOUS
<1> DEFINE h == hdr.rsp_head
           t == hdr.rsp_tail
           s == ring_write(rsp_ring, h, rsp)
<1>1. BridgeTypes /\ CmdPart /\ RspPart BY DEF BridgeInv
<1>2. h \in Int /\ t \in Int /\ bridge.rsp_tail \in Int /\ rsp_ring \in Ring
  BY <1>1, HdrTypes DEF BridgeTypes
<1>3. /\ pc = "write" /\ FitsRing(h, bridge.rsp_tail, rsp) /\ rsp_ring' = s /\ pc' = "publish"
      /\ UNCHANGED <<hdr, cmd_ring, bridge, rsp, power>>
      /\ UNCHANGED <<staged, owed, guest_power, window>>
  BY <1>1 DEF rsp_write, guestVars, RspPart
<1>4. rsp # None /\ rsp \in Seq(Nat) BY <1>1, <1>3 DEF BridgeTypes
<1>5. FitsRing(h, t, rsp)
  <2>1. ring_readable(h, t) <= ring_readable(h, bridge.rsp_tail) BY <1>1, <1>3 DEF RspPart
  <2> QED BY <1>2, <1>3, <1>4, <2>1, StillFits
<1>6. Whole(rsp_ring, h, t) BY <1>1 DEF RspPart
<1>7. /\ Whole(s, h, t) /\ Unread(s, h, t) = Unread(rsp_ring, h, t) /\ s \in Ring
      /\ \A j \in 1 .. Len(Frame(rsp)) : Byte(s, h + j - 1) = Frame(rsp)[j]
  BY <1>2, <1>4, <1>5, <1>6, WriteWhole, WriteType
<1> HIDE DEF s
<1>8. Quiet BY <1>3, <1>7 DEF Quiet, Cmds, Rsps
<1>9. BridgeTypes' BY <1>1, <1>3, <1>4, <1>7 DEF BridgeTypes
<1>10. CmdPart' BY <1>1, <1>3 DEF CmdPart
<1>11. RspPart' BY <1>1, <1>3, <1>5, <1>7 DEF RspPart, Written
<1> QED BY <1>8, <1>9, <1>10, <1>11 DEF BridgeInv

\* Or it drops the answer.
LEMMA StepFull ==
    BridgeInv /\ rsp_full
      => BridgeInv' /\ rsp # None /\ rsp' = None /\ power' = power /\ Cmds' = Cmds /\ Rsps' = Rsps
<1> SUFFICES ASSUME BridgeInv, rsp_full
             PROVE  /\ BridgeInv' /\ rsp # None /\ rsp' = None /\ power' = power
                    /\ Cmds' = Cmds /\ Rsps' = Rsps
  OBVIOUS
<1>1. BridgeTypes /\ CmdPart /\ RspPart BY DEF BridgeInv
<1>2. /\ pc = "write" /\ rsp' = None /\ pc' = "idle"
      /\ UNCHANGED <<hdr, cmd_ring, rsp_ring, bridge, power>>
      /\ UNCHANGED <<staged, owed, guest_power, window>>
  BY DEF rsp_full, guestVars
<1>3. rsp # None BY <1>1, <1>2 DEF BridgeTypes
<1>4. BridgeTypes' BY <1>1, <1>2 DEF BridgeTypes
<1>5. CmdPart' BY <1>1, <1>2 DEF CmdPart
<1>6. RspPart' BY <1>1, <1>2 DEF RspPart
<1> QED BY <1>2, <1>3, <1>4, <1>5, <1>6 DEF BridgeInv, Cmds, Rsps

\* Publishing the head appends the answer.
LEMMA StepPublish ==
    BridgeInv /\ rsp_publish
      => /\ BridgeInv' /\ rsp # None /\ rsp' = None /\ power' = power
         /\ Cmds' = Cmds /\ Rsps' = Append(Rsps, rsp)
<1> SUFFICES ASSUME BridgeInv, rsp_publish
             PROVE  /\ BridgeInv' /\ rsp # None /\ rsp' = None /\ power' = power
                    /\ Cmds' = Cmds /\ Rsps' = Append(Rsps, rsp)
  OBVIOUS
<1> DEFINE h == hdr.rsp_head
           t == hdr.rsp_tail
           g == Advance(h, Len(Frame(rsp)))
<1>1. BridgeTypes /\ CmdPart /\ RspPart BY DEF BridgeInv
<1>2. h \in Int /\ t \in Int /\ rsp_ring \in Ring /\ hdr \in Indices /\ bridge \in Indices
  BY <1>1, HdrTypes DEF BridgeTypes
<1>3. /\ pc = "publish" /\ bridge' = [bridge EXCEPT !.rsp_head = g]
      /\ hdr' = [hdr EXCEPT !.rsp_head = g] /\ rsp' = None /\ pc' = "idle"
      /\ UNCHANGED <<cmd_ring, rsp_ring, power>>
      /\ UNCHANGED <<staged, owed, guest_power, window>>
  BY <1>1 DEF rsp_publish, guestVars, RspPart
<1>4. rsp # None /\ rsp \in Seq(Nat) BY <1>1, <1>3 DEF BridgeTypes
<1>5. /\ Whole(rsp_ring, h, t) /\ FitsRing(h, t, rsp)
      /\ \A j \in 1 .. Len(Frame(rsp)) : Byte(rsp_ring, h + j - 1) = Frame(rsp)[j]
  BY <1>1, <1>3 DEF RspPart, Written
<1>6. Whole(rsp_ring, g, t) /\ Unread(rsp_ring, g, t) = Append(Unread(rsp_ring, h, t), rsp)
  BY <1>2, <1>4, <1>5, PublishOne
<1>7. g \in Index
  <2>1. Len(Frame(rsp)) \in Nat BY <1>4, FrameFacts
  <2> QED BY <1>2, <2>1, AdvanceType
<1> HIDE DEF g
<1>8. /\ hdr' \in Indices /\ hdr'.rsp_head = g /\ hdr'.rsp_tail = t
      /\ hdr'.cmd_head = hdr.cmd_head /\ hdr'.cmd_tail = hdr.cmd_tail
      /\ bridge' \in Indices /\ bridge'.rsp_head = g /\ bridge'.cmd_tail = bridge.cmd_tail
  BY <1>2, <1>3, <1>7 DEF Indices
<1>9. BridgeTypes' BY <1>1, <1>3, <1>8 DEF BridgeTypes
<1>10. CmdPart' BY <1>1, <1>3, <1>8 DEF CmdPart
<1>11. RspPart' BY <1>3, <1>6, <1>8 DEF RspPart
<1>12. Cmds' = Cmds /\ Rsps' = Append(Rsps, rsp) BY <1>3, <1>6, <1>8 DEF Cmds, Rsps
<1> QED BY <1>3, <1>4, <1>9, <1>10, <1>11, <1>12 DEF BridgeInv

\* The guest writes a command where the bridge does not look yet.
LEMMA GuestWrite ==
    BridgeInv /\ (\E m \in Messages[window] : guest_write(m))
      => BridgeInv' /\ Quiet /\ Len(owed) < window /\ UNCHANGED <<owed, guest_power, window>>
<1> SUFFICES ASSUME BridgeInv, NEW m \in Messages[window], guest_write(m)
             PROVE  /\ BridgeInv' /\ Quiet /\ Len(owed) < window
                    /\ UNCHANGED <<owed, guest_power, window>>
  OBVIOUS
<1> DEFINE h == hdr.cmd_head
           t == hdr.cmd_tail
           s == ring_write(cmd_ring, h, m)
<1>1. BridgeTypes /\ CmdPart /\ RspPart BY DEF BridgeInv
<1>2. h \in Int /\ t \in Int /\ cmd_ring \in Ring /\ m \in Seq(Nat)
  BY <1>1, HdrTypes, MessagesAssumption DEF BridgeTypes
<1>3. /\ Len(owed) < window /\ FitsRing(h, t, m) /\ cmd_ring' = s /\ staged' = m
      /\ UNCHANGED <<hdr, rsp_ring, bridge, pc, rsp, power, owed, guest_power, window>>
  BY DEF guest_write
<1>4. Whole(cmd_ring, h, t) BY <1>1 DEF CmdPart
<1>5. /\ Whole(s, h, t) /\ Unread(s, h, t) = Unread(cmd_ring, h, t) /\ s \in Ring
      /\ \A j \in 1 .. Len(Frame(m)) : Byte(s, h + j - 1) = Frame(m)[j]
  BY <1>2, <1>3, <1>4, WriteWhole, WriteType
<1> HIDE DEF s
<1>6. Quiet BY <1>3, <1>5 DEF Quiet, Cmds, Rsps
<1>7. BridgeTypes' BY <1>1, <1>3, <1>5 DEF BridgeTypes
<1>8. CmdPart' BY <1>1, <1>3, <1>5 DEF CmdPart, Written
<1>9. RspPart' BY <1>1, <1>3 DEF RspPart
<1> QED BY <1>3, <1>6, <1>7, <1>8, <1>9 DEF BridgeInv

\* Publishing the head submits the command.
LEMMA GuestPublish ==
    BridgeInv /\ guest_publish
      => /\ BridgeInv' /\ staged # None /\ staged \in Messages[window]
         /\ Cmds' = Append(Cmds, staged) /\ Rsps' = Rsps /\ rsp' = rsp /\ power' = power
<1> SUFFICES ASSUME BridgeInv, guest_publish
             PROVE  /\ BridgeInv' /\ staged # None /\ staged \in Messages[window]
                    /\ Cmds' = Append(Cmds, staged)
                    /\ Rsps' = Rsps /\ rsp' = rsp /\ power' = power
  OBVIOUS
<1> DEFINE h == hdr.cmd_head
           t == hdr.cmd_tail
           g == Advance(h, Len(Frame(staged)))
<1>1. BridgeTypes /\ CmdPart /\ RspPart BY DEF BridgeInv
<1>2. /\ h \in Int /\ t \in Int /\ bridge.cmd_head \in Int
      /\ cmd_ring \in Ring /\ hdr \in Indices
  BY <1>1, HdrTypes DEF BridgeTypes
<1>3. /\ staged # None /\ hdr' = [hdr EXCEPT !.cmd_head = g]
      /\ guest_power' = PowerAfter(guest_power, staged) /\ staged' = None
      /\ UNCHANGED <<cmd_ring, rsp_ring, bridge, pc, rsp, power, window>>
  BY DEF guest_publish
<1>4. staged \in Seq(Nat) /\ staged \in Messages[window] BY <1>1, <1>3, HdrTypes DEF BridgeTypes
<1>5. /\ Whole(cmd_ring, h, t) /\ FitsRing(h, t, staged)
      /\ \A j \in 1 .. Len(Frame(staged)) : Byte(cmd_ring, h + j - 1) = Frame(staged)[j]
  BY <1>1, <1>3 DEF CmdPart, Written
<1>6. /\ Whole(cmd_ring, g, t) /\ ring_readable(h, t) <= ring_readable(g, t)
      /\ Unread(cmd_ring, g, t) = Append(Unread(cmd_ring, h, t), staged)
  BY <1>2, <1>4, <1>5, PublishOne
<1>7. g \in Index /\ g \in Int
  <2>1. Len(Frame(staged)) \in Nat BY <1>4, FrameFacts
  <2>2. g \in Index BY <1>2, <2>1, AdvanceType
  <2> QED BY <2>2, IndexInt
<1> HIDE DEF g
<1>8. /\ hdr' \in Indices /\ hdr'.cmd_head = g /\ hdr'.cmd_tail = t
      /\ hdr'.rsp_head = hdr.rsp_head /\ hdr'.rsp_tail = hdr.rsp_tail
  BY <1>2, <1>3, <1>7 DEF Indices
<1>9. guest_power' \in {"off", "ready"} BY <1>1, <1>3 DEF BridgeTypes, PowerAfter
<1>10. BridgeTypes' BY <1>1, <1>3, <1>8, <1>9 DEF BridgeTypes
<1>11. CmdPart'
  <2>1. ASSUME pc = "read"
        PROVE  ring_readable(bridge.cmd_head, t) <= ring_readable(g, t)
    <3>1. ring_readable(bridge.cmd_head, t) <= ring_readable(h, t) BY <1>1, <2>1 DEF CmdPart
    <3>2. /\ ring_readable(bridge.cmd_head, t) \in Nat /\ ring_readable(h, t) \in Nat
          /\ ring_readable(g, t) \in Nat
      BY <1>2, <1>7, ReadableNat
    <3> QED BY <1>6, <3>1, <3>2
  <2> QED BY <1>1, <1>3, <1>6, <1>8, <2>1 DEF CmdPart
<1>12. RspPart' BY <1>1, <1>3, <1>8 DEF RspPart
<1>13. Cmds' = Append(Cmds, staged) /\ Rsps' = Rsps BY <1>3, <1>6, <1>8 DEF Cmds, Rsps
<1> QED BY <1>3, <1>4, <1>10, <1>11, <1>12, <1>13 DEF BridgeInv

\* The guest collects the oldest answer.
LEMMA GuestCollect ==
    BridgeInv /\ guest_collect
      => /\ BridgeInv' /\ Rsps # <<>> /\ ReadPayload(rsp_ring, hdr.rsp_tail) = Head(Rsps)
         /\ Rsps' = Tail(Rsps) /\ Cmds' = Cmds /\ rsp' = rsp /\ power' = power
<1> SUFFICES ASSUME BridgeInv, guest_collect
             PROVE  /\ BridgeInv' /\ Rsps # <<>>
                    /\ ReadPayload(rsp_ring, hdr.rsp_tail) = Head(Rsps)
                    /\ Rsps' = Tail(Rsps) /\ Cmds' = Cmds /\ rsp' = rsp /\ power' = power
  OBVIOUS
<1> DEFINE h == hdr.rsp_head
           t == hdr.rsp_tail
           u == NewTail(rsp_ring, t)
           m == ReadPayload(rsp_ring, t)
<1>1. BridgeTypes /\ CmdPart /\ RspPart BY DEF BridgeInv
<1>2. /\ h \in Int /\ t \in Int /\ bridge.rsp_tail \in Int
      /\ rsp_ring \in Ring /\ hdr \in Indices
  BY <1>1, HdrTypes DEF BridgeTypes
<1>3. /\ CanRead(rsp_ring, h, t) /\ hdr' = [hdr EXCEPT !.rsp_tail = u]
      /\ UNCHANGED <<cmd_ring, rsp_ring, bridge, pc, rsp, power, staged, guest_power, window>>
  BY DEF guest_collect
<1>4. ring_readable(h, t) # 0
  <2>1. ring_readable(h, t) >= 2 BY <1>3 DEF CanRead
  <2>2. ring_readable(h, t) \in Nat BY <1>2, ReadableNat
  <2> QED BY <2>1, <2>2
<1>5. Whole(rsp_ring, h, t) BY <1>1 DEF RspPart
<1>6. /\ u \in Index /\ Whole(rsp_ring, h, u) /\ ring_readable(h, u) <= ring_readable(h, t)
      /\ Unread(rsp_ring, h, t) = <<m>> \o Unread(rsp_ring, h, u)
  BY <1>2, <1>4, <1>5, TakeFirst
<1>7. m \in Seq(Nat) BY <1>2, PayloadType
<1>8. u \in Int BY <1>6, IndexInt
<1>9. Unread(rsp_ring, h, u) \in Seq(Seq(Nat)) BY <1>2, <1>8, UnreadType
<1> HIDE DEF u, m
<1>10. /\ hdr' \in Indices /\ hdr'.rsp_head = h /\ hdr'.rsp_tail = u
       /\ hdr'.cmd_head = hdr.cmd_head /\ hdr'.cmd_tail = hdr.cmd_tail
  BY <1>2, <1>3, <1>6 DEF Indices
<1>11. Rsps = <<m>> \o Unread(rsp_ring, h, u) /\ Rsps' = Unread(rsp_ring, h, u) /\ Cmds' = Cmds
  BY <1>3, <1>6, <1>10 DEF Cmds, Rsps
<1>12. Rsps # <<>> /\ Head(Rsps) = m /\ Tail(Rsps) = Rsps' BY <1>7, <1>9, <1>11
<1>13. BridgeTypes' BY <1>1, <1>3, <1>10 DEF BridgeTypes
<1>14. CmdPart' BY <1>1, <1>3, <1>10 DEF CmdPart
<1>15. RspPart'
  <2>1. ASSUME pc = "write"
        PROVE  ring_readable(h, u) <= ring_readable(h, bridge.rsp_tail)
    <3>1. ring_readable(h, t) <= ring_readable(h, bridge.rsp_tail) BY <1>1, <2>1 DEF RspPart
    <3>2. /\ ring_readable(h, u) \in Nat /\ ring_readable(h, t) \in Nat
          /\ ring_readable(h, bridge.rsp_tail) \in Nat
      BY <1>2, <1>8, ReadableNat
    <3> QED BY <1>6, <3>1, <3>2
  <2>2. ASSUME pc = "publish" PROVE FitsRing(h, u, rsp)
    <3>1. rsp \in Seq(Nat) BY <1>1, <2>2 DEF BridgeTypes
    <3>2. FitsRing(h, t, rsp) BY <1>1, <2>2 DEF RspPart
    <3> QED BY <1>2, <1>6, <1>8, <3>1, <3>2, StillFits
  <2> QED BY <1>1, <1>3, <1>6, <1>10, <2>1, <2>2 DEF RspPart
<1> QED BY <1>3, <1>11, <1>12, <1>13, <1>14, <1>15 DEF BridgeInv, m

\* ---- The theorems ----
LEMMA BridgeStep == BridgeInv /\ [Next]_vars => BridgeInv'
BY StepRefresh, StepStutter, StepTake, StepWrite, StepFull, StepPublish,
   GuestWrite, GuestPublish, GuestCollect DEF Next, Step

LEMMA BridgeAlways == Spec => []BridgeInv
<1>1. Init => BridgeInv BY BridgeInit
<1> QED BY <1>1, BridgeStep, PTL DEF Spec

\* ---- Bytes ----
\* BridgeInv knows the cells as numbers.  That they are bytes follows from the
\* room a frame needs: two digits suffice for the length of what fits.
ByteRing == [Cells -> Bytes]
Octets ==
    /\ cmd_ring \in ByteRing /\ rsp_ring \in ByteRing
    /\ rsp = None \/ rsp \in Seq(Bytes)

LEMMA LengthDigits ==
    ASSUME NEW n \in Nat
    PROVE  /\ n % ByteMod \in 0 .. ByteMod - 1 /\ n \div ByteMod \in Int
           /\ n = ByteMod * (n \div ByteMod) + (n % ByteMod)
BY Sizes, DivMod

LEMMA FrameBytes ==
    ASSUME NEW m \in Seq(Nat), m \in Seq(Bytes), Len(m) < RingSize
    PROVE  Frame(m) \in Seq(Bytes)
<1> DEFINE lo == Len(m) % ByteMod
           hi == Len(m) \div ByteMod
<1>0. Len(m) \in Nat OBVIOUS
<1>1. Len(m) \in Nat /\ RingSize <= ByteMod * ByteMod BY <1>0, RingAssumption
<1>2. lo \in 0 .. ByteMod - 1 /\ hi \in Int /\ Len(m) = ByteMod * hi + lo
  BY <1>0, LengthDigits
<1> HIDE DEF lo, hi
<1>3. hi \in 0 .. ByteMod - 1
  <2>1. hi >= 0 BY <1>1, <1>2, Sizes
  <2>2. ByteMod * hi < ByteMod * ByteMod
    <3>1. PICK x \in Int, y \in Int : x = ByteMod * hi /\ y = ByteMod * ByteMod BY <1>2, Sizes
    <3>2. Len(m) = x + lo /\ RingSize <= y /\ lo >= 0 /\ RingSize \in Int /\ lo \in Int
      BY <1>1, <1>2, <3>1, Sizes
    <3>3. x < y BY <1>1, <3>2
    <3> QED BY <3>1, <3>3
  <2>3. hi < ByteMod
    <3>1. \A b \in Nat, x \in Int : x >= b => b * x >= b * b OBVIOUS
    <3>2. hi >= ByteMod => ByteMod * hi >= ByteMod * ByteMod BY <1>2, <3>1, Sizes
    <3>3. ByteMod * hi \in Int /\ ByteMod * ByteMod \in Int BY <1>2, Sizes
    <3> QED BY <1>2, <2>2, <3>2, <3>3, Sizes
  <2> QED BY <1>2, <2>1, <2>3, Sizes
<1>4. lo \in Bytes /\ hi \in Bytes BY <1>2, <1>3, BytesAssumption
<1>5. <<lo, hi>> \in Seq(Bytes) BY <1>4
<1>6. Frame(m) = <<lo, hi>> \o m BY DEF Frame, lo, hi
<1> QED BY <1>5, <1>6

LEMMA WriteBytes ==
    ASSUME NEW r \in ByteRing, NEW h \in Int, NEW t \in Int, NEW m \in Seq(Nat),
           m \in Seq(Bytes), FitsRing(h, t, m)
    PROVE  ring_write(r, h, m) \in ByteRing
<1>1. Len(m) \in Nat /\ Len(Frame(m)) = Len(m) + 2 BY FrameFacts
<1>2. Len(m) < RingSize
  <2>1. ring_readable(h, t) \in Nat BY ReadableNat
  <2>2. Len(Frame(m)) <= RingSize - 1 - ring_readable(h, t) BY DEF FitsRing, ring_writable
  <2> QED BY <1>1, <2>1, <2>2, Sizes
<1>3. Frame(m) \in Seq(Bytes) BY <1>2, FrameBytes
<1>4. ASSUME NEW c \in Cells
      PROVE  (LET i == (c - h) % RingSize
              IN IF i < Len(Frame(m)) THEN Frame(m)[i + 1] ELSE r[c]) \in Bytes
  <2> DEFINE i == (c - h) % RingSize
  <2>1. c - h \in Int BY Sizes DEF Cells
  <2>2. i \in Nat BY <2>1, Sizes, DivMod
  <2> HIDE DEF i
  <2>3. CASE i < Len(Frame(m))
    <3>1. i + 1 \in 1 .. Len(Frame(m)) BY <1>1, <2>2, <2>3
    <3>2. Frame(m)[i + 1] \in Bytes BY <1>3, <3>1
    <3> QED BY <2>3, <3>2 DEF i
  <2>4. CASE ~(i < Len(Frame(m))) BY <2>4 DEF i, ByteRing
  <2> QED BY <2>3, <2>4
<1> QED BY <1>4 DEF ring_write, ByteRing

LEMMA PayloadBytes ==
    ASSUME NEW r \in Ring, r \in ByteRing, NEW i \in Int
    PROVE  ReadPayload(r, i) \in Seq(Bytes)
<1>1. FrameLen(r, i) - 2 \in Nat BY FrameLenType
<1>2. \A j \in 1 .. FrameLen(r, i) - 2 : i + 1 + j \in Int BY <1>1
<1>3. \A j \in 1 .. FrameLen(r, i) - 2 : Byte(r, i + 1 + j) \in Bytes
  BY <1>2, CellType DEF Byte, ByteRing
<1> QED BY <1>1, <1>3 DEF ReadPayload

LEMMA ResponseBytes ==
    ASSUME NEW p, NEW m \in Seq(Bytes)
    PROVE  Response(p, m) = None \/ Response(p, m) \in Seq(Bytes)
<1>1. 0 \in Bytes /\ 1 \in Bytes /\ 5 \in Bytes BY BytesAssumption
<1>2. FALLBACK_APDU_RSP \in Seq(Bytes) BY <1>1 DEF FALLBACK_APDU_RSP, Apdu
<1>3. m # <<>> => Process(p, m) = None \/ Process(p, m) \in Seq(Bytes)
  <2>1. m # <<>> => Tail(m) \in Seq(Bytes) OBVIOUS
  <2>2. <<0>> \in Seq(Bytes) BY <1>1
  <2> QED BY <2>1, <2>2 DEF Process
<1>4. ASSUME NEW x \in Seq(Bytes)
      PROVE  <<IF m[1] = Apdu THEN Apdu ELSE Atr>> \o x \in Seq(Bytes)
  <2>1. (IF m[1] = Apdu THEN Apdu ELSE Atr) \in Bytes BY <1>1 DEF Apdu, Atr
  <2> QED BY <2>1
<1> QED BY <1>2, <1>3, <1>4 DEF Response

LEMMA OctetsStep == BridgeInv /\ Octets /\ [Next]_vars => Octets'
<1> SUFFICES ASSUME BridgeInv, Octets, [Next]_vars PROVE Octets' OBVIOUS
<1>0. BridgeTypes BY DEF BridgeInv
<1>1. CASE step_take
  <2>1. /\ rsp' = Response(power, ReadPayload(cmd_ring, bridge.cmd_tail))
        /\ UNCHANGED <<cmd_ring, rsp_ring>>
    BY <1>1 DEF step_take
  <2>2. bridge.cmd_tail \in Int /\ cmd_ring \in Ring
    BY <1>0, IndexInt DEF BridgeTypes, Indices
  <2>3. ReadPayload(cmd_ring, bridge.cmd_tail) \in Seq(Bytes) BY <2>2, PayloadBytes DEF Octets
  <2> QED BY <2>1, <2>3, ResponseBytes DEF Octets
<1>2. CASE rsp_write
  <2>1. /\ rsp_ring' = ring_write(rsp_ring, bridge.rsp_head, rsp)
        /\ FitsRing(bridge.rsp_head, bridge.rsp_tail, rsp)
        /\ pc = "write" /\ UNCHANGED <<cmd_ring, rsp>>
    BY <1>2 DEF rsp_write
  <2>2. bridge.rsp_head \in Int /\ bridge.rsp_tail \in Int
    BY <1>0, IndexInt DEF BridgeTypes, Indices
  <2>3. rsp \in Seq(Nat) /\ rsp \in Seq(Bytes) BY <1>0, <2>1 DEF BridgeTypes, Octets
  <2> QED BY <2>1, <2>2, <2>3, WriteBytes DEF Octets
<1>3. CASE \E m \in Messages[window] : guest_write(m)
  <2>1. PICK m \in Messages[window] : guest_write(m) BY <1>3
  <2>2. /\ cmd_ring' = ring_write(cmd_ring, hdr.cmd_head, m)
        /\ FitsRing(hdr.cmd_head, hdr.cmd_tail, m) /\ UNCHANGED <<rsp_ring, rsp>>
    BY <2>1 DEF guest_write
  <2>3. window \in Windows BY <1>0 DEF BridgeTypes
  <2>4. m \in Seq(Nat) /\ m \in Seq(Bytes) BY <2>1, <2>3, MessagesAssumption, BytesAssumption
  <2>5. hdr.cmd_head \in Int /\ hdr.cmd_tail \in Int BY <1>0, HdrTypes
  <2> QED BY <2>2, <2>4, <2>5, WriteBytes DEF Octets
<1>4. CASE /\ UNCHANGED <<cmd_ring, rsp_ring>>
           /\ rsp' = None \/ rsp' = rsp
  BY <1>4 DEF Octets
<1> QED BY <1>1, <1>2, <1>3, <1>4 DEF Next, Step, step_refresh, step_empty, rsp_refresh, rsp_full,
           rsp_publish, guest_publish, guest_collect, vars

\* Whatever the order of the steps of bridge and guest, indices stay u32
\* values, also as they wrap, and the cells hold bytes: no length of a frame
\* that ring_write accepts needs more than the two digits of its prefix.
THEOREM QemuTypeCorrect == Spec => []TypeOK
<1>1. Init => Octets BY BytesAssumption DEF Init, Octets, ByteRing
<1>2. BridgeInv /\ Octets => TypeOK BY DEF BridgeInv, BridgeTypes, TypeOK, Octets, ByteRing
<1> QED BY <1>1, <1>2, OctetsStep, BridgeAlways, PTL DEF Spec

\* A step of the byte rings is a step of the two message queues, or none.
LEMMA LinkStep == BridgeInv /\ [Next]_vars => [Link!Next]_(Link!linkVars)
<1> SUFFICES ASSUME BridgeInv, [Next]_vars PROVE [Link!Next]_(Link!linkVars) OBVIOUS
<1>1. Quiet => [Link!Next]_(Link!linkVars) BY DEF Quiet, Cmds, Rsps, Link!linkVars
<1>2. CASE step_take
  <2>1. power \in {"off", "ready"} BY DEF BridgeInv, BridgeTypes
  <2>2. Response(power, Head(Cmds)) \in AnswersOf(Head(Cmds)) BY <2>1 DEF AnswersOf
  <2>3. Link!Take BY <1>2, <2>2, StepTake DEF Link!Take, Cmds, Rsps
  <2> QED BY <2>3 DEF Link!Next
<1>3. CASE rsp_full
  <2>1. Link!GiveUp BY <1>3, StepFull DEF Link!GiveUp, Cmds, Rsps
  <2> QED BY <2>1 DEF Link!Next
<1>4. CASE rsp_publish
  <2>1. Link!Reply BY <1>4, StepPublish DEF Link!Reply, Cmds, Rsps
  <2> QED BY <2>1 DEF Link!Next
<1>5. CASE guest_publish
  <2>1. staged \in UNION {Messages[w] : w \in Windows}
    BY <1>5, GuestPublish DEF BridgeInv, BridgeTypes
  <2>2. Link!Submit(staged) BY <1>5, GuestPublish DEF Link!Submit, Cmds, Rsps
  <2> QED BY <2>1, <2>2 DEF Link!Next
<1>6. CASE guest_collect
  <2>1. Link!Collect BY <1>6, GuestCollect DEF Link!Collect, Cmds, Rsps
  <2> QED BY <2>1 DEF Link!Next
<1> QED BY <1>1, <1>2, <1>3, <1>4, <1>5, <1>6, StepRefresh, StepStutter, StepWrite, GuestWrite
        DEF Next, Step

\* The rings carry whole messages, each once, unaltered and in order, for every
\* ring size and message length: the bridge implements the two queues.
THEOREM ImplementsLinkCorrect == Spec => ImplementsLink
<1>1. Init => Link!Init
  <2>1. Init => rsp = None BY DEF Init
  <2> QED BY <2>1, BridgeInit DEF Link!Init, Cmds, Rsps
<1> QED BY <1>1, BridgeAlways, LinkStep, PTL DEF Spec, ImplementsLink, Link!Spec

\* ---- A guest that waits for each answer ----
\* p[i] is the state of the card once it has processed i more commands.
Leads(p, c) ==
    /\ p \in [0 .. Len(c) -> {"off", "ready"}]
    /\ p[0] = power /\ p[Len(c)] = guest_power
    /\ \A i \in 1 .. Len(c) : p[i] = PowerAfter(p[i - 1], c[i])
Silent(p, c, n) == \A i \in 1 .. n : Expected(p[i - 1], c[i]) = None
\* At most one answer is due.  It is lost (the response ring was too small for
\* it) or waiting, or being written, or that of the last command.
Due(p, c, q) ==
    \/ owed = <<>> /\ rsp = None /\ q = <<>> /\ Silent(p, c, Len(c))
    \/ /\ staged = None /\ Len(owed) = 1
       /\ \/ rsp = None /\ q \in {<<>>, owed} /\ Silent(p, c, Len(c))
          \/ rsp = owed[1] /\ q = <<>> /\ Silent(p, c, Len(c))
          \/ /\ rsp = None /\ q = <<>> /\ c # <<>> /\ Silent(p, c, Len(c) - 1)
             /\ Expected(p[Len(c) - 1], c[Len(c)]) = owed[1]
OneAnswer ==
    /\ owed \in Seq(Seq(Nat))
    /\ window = 1 => \E p : Leads(p, Cmds) /\ Due(p, Cmds, Rsps)

\* What the guest counts on is what the bridge sends.
LEMMA ResponseExpected ==
    ASSUME NEW p, NEW m \in Seq(Nat)
    PROVE  Response(p, m) = Expected(p, m)
<1>1. <<0>> # None /\ (m # <<>> => Tail(m) # None)
  <2>1. <<0>> \in Seq(Nat) /\ (m # <<>> => Tail(m) \in Seq(Nat)) OBVIOUS
  <2> QED BY <2>1, MessagesAssumption
<1>2. CASE m = <<>> BY <1>2 DEF Response, Expected
<1>3. CASE m # <<>> /\ m[1] \in {PowerOn, WarmReset}
  <2>1. Process(p, m) = <<0>> /\ m[1] # Apdu BY <1>3 DEF Process, PowerOn, WarmReset, Apdu
  <2>2. Response(p, m) = <<Atr>> \o <<0>> BY <1>1, <1>3, <2>1 DEF Response
  <2>3. <<Atr>> \o <<0>> = <<Atr, 0>>
    <3>1. ASSUME NEW a \in Nat, NEW b \in Nat PROVE <<a>> \o <<b>> = <<a, b>>
      <4>1. <<a>> \in Seq(Nat) /\ <<b>> \in Seq(Nat) /\ <<a, b>> \in Seq(Nat) OBVIOUS
      <4>2. <<a>> \o <<b>> \in Seq(Nat) /\ Len(<<a>> \o <<b>>) = 2 BY <4>1
      <4>3. (<<a>> \o <<b>>)[1] = a /\ (<<a>> \o <<b>>)[2] = b BY <4>1
      <4> DEFINE x == <<a>> \o <<b>>
                 y == <<a, b>>
      <4>4. x[1] = y[1] /\ x[2] = y[2] /\ Len(y) = 2 BY <4>3
      <4>5. \A i \in 1 .. 2 : x[i] = y[i]
        <5>1. \A i \in 1 .. 2 : i = 1 \/ i = 2 OBVIOUS
        <5> HIDE DEF x, y
        <5> QED BY <4>4, <5>1
      <4> HIDE DEF x, y
      <4>6. x \in Seq(Nat) /\ y \in Seq(Nat) /\ Len(x) = 2 BY <4>1, <4>2 DEF x, y
      <4>7. x = [i \in 1 .. Len(x) |-> x[i]] /\ y = [i \in 1 .. Len(y) |-> y[i]] BY <4>6
      <4>8. x = y BY <4>4, <4>5, <4>6, <4>7
      <4> QED BY <4>8 DEF x, y
    <3>2. Atr \in Nat /\ 0 \in Nat BY DEF Atr
    <3> QED BY <3>1, <3>2
  <2>4. Expected(p, m) = <<Atr, 0>> BY <1>3, <2>1 DEF Expected
  <2> QED BY <2>2, <2>3, <2>4
<1>4. CASE m # <<>> /\ m[1] = Apdu
  <2>1. m[1] \notin {PowerOn, WarmReset} BY <1>4 DEF PowerOn, WarmReset, Apdu
  <2>2. CASE p = "ready" /\ Len(m) > 1
    <3>1. Process(p, m) = Tail(m) BY <1>4, <2>1, <2>2 DEF Process
    <3>2. Response(p, m) = <<Apdu>> \o Tail(m) BY <1>1, <1>4, <3>1 DEF Response
    <3>3. <<m[1]>> \o Tail(m) = m BY <1>4
    <3>4. Expected(p, m) = m BY <1>4, <2>1, <2>2 DEF Expected
    <3> QED BY <1>4, <3>2, <3>3, <3>4
  <2>3. CASE ~(p = "ready" /\ Len(m) > 1)
    <3>1. Process(p, m) = None BY <1>4, <2>1, <2>3 DEF Process
    <3>2. Expected(p, m) = FALLBACK_APDU_RSP BY <1>4, <2>1, <2>3 DEF Expected
    <3> QED BY <1>4, <3>1, <3>2 DEF Response
  <2> QED BY <2>2, <2>3
<1>5. CASE m # <<>> /\ m[1] \notin {PowerOn, WarmReset, Apdu}
  <2>1. m[1] \notin {PowerOn, WarmReset} /\ m[1] # Apdu BY <1>5
  <2>2. Process(p, m) = None BY <2>1 DEF Process
  <2>3. Expected(p, m) = None BY <2>1 DEF Expected
  <2> QED BY <1>5, <2>1, <2>2, <2>3 DEF Response
<1> QED BY <1>2, <1>3, <1>4, <1>5

\* The states the card goes through, less the first, for the commands left.
LEMMA LeadsTake ==
    ASSUME BridgeInv, step_take, NEW p, Leads(p, Cmds), UNCHANGED guest_power,
           NEW f, f = [i \in 0 .. Len(Cmds) - 1 |-> p[i + 1]]
    PROVE  /\ Leads(f, Cmds)'
           /\ Len(Cmds') = Len(Cmds) - 1 /\ Len(Cmds) \in Nat \ {0}
           /\ \A i \in 1 .. Len(Cmds) - 1 : Cmds'[i] = Cmds[i + 1]
           /\ rsp' = Expected(p[0], Cmds[1])
<1> DEFINE c == Cmds
           d == Tail(Cmds)
<1>1. BridgeTypes BY DEF BridgeInv
<1>2. c \in Seq(Seq(Nat)) BY <1>1, QueueTypes
<1>3. /\ c # <<>> /\ Cmds' = d
      /\ rsp' = Response(power, Head(c)) /\ power' = PowerAfter(power, Head(c))
  BY StepTake
<1> HIDE DEF c
<1>4. Head(c) = c[1] /\ c[1] \in Seq(Nat) /\ Len(c) \in Nat \ {0} BY <1>2, <1>3
<1>5. Len(d) = Len(c) - 1 /\ \A i \in 1 .. Len(c) - 1 : d[i] = c[i + 1] BY <1>2, <1>3 DEF c
<1>6. /\ p \in [0 .. Len(c) -> {"off", "ready"}] /\ p[0] = power /\ p[Len(c)] = guest_power
      /\ \A i \in 1 .. Len(c) : p[i] = PowerAfter(p[i - 1], c[i])
  BY DEF Leads, c
<1>7. f \in [0 .. Len(c) - 1 -> {"off", "ready"}]
  <2>1. \A i \in 0 .. Len(c) - 1 : i + 1 \in 0 .. Len(c) BY <1>4
  <2> QED BY <1>6, <2>1 DEF c
<1>8. f[0] = power' /\ f[Len(c) - 1] = guest_power
  <2>1. 1 \in 1 .. Len(c) /\ 1 - 1 = 0 /\ 0 \in 0 .. Len(c) - 1 /\ 0 + 1 = 1 BY <1>4
  <2>2. p[1] = PowerAfter(p[0], c[1])
    <3>1. p[1] = PowerAfter(p[1 - 1], c[1]) BY <1>6, <2>1
    <3> QED BY <2>1, <3>1
  <2>3. f[0] = p[1] BY <2>1 DEF c
  <2>4. Len(c) - 1 \in 0 .. Len(c) - 1 /\ (Len(c) - 1) + 1 = Len(c) BY <1>4
  <2>5. f[Len(c) - 1] = p[Len(c)] BY <2>4 DEF c
  <2> QED BY <1>3, <1>4, <1>6, <2>2, <2>3, <2>5
<1>9. ASSUME NEW i \in 1 .. Len(c) - 1 PROVE f[i] = PowerAfter(f[i - 1], d[i])
  <2>1. i + 1 \in 1 .. Len(c) /\ (i + 1) - 1 = i /\ i \in 0 .. Len(c) - 1
        /\ i - 1 \in 0 .. Len(c) - 1 /\ (i - 1) + 1 = i
    BY <1>4
  <2>2. f[i] = p[i + 1] /\ f[i - 1] = p[i] BY <2>1 DEF c
  <2>3. p[i + 1] = PowerAfter(p[(i + 1) - 1], c[i + 1]) BY <1>6, <2>1
  <2> QED BY <1>5, <2>1, <2>2, <2>3
<1>10. Leads(f, Cmds)' BY <1>3, <1>5, <1>7, <1>8, <1>9 DEF Leads
<1>11. rsp' = Expected(p[0], c[1]) BY <1>3, <1>4, <1>6, ResponseExpected
<1> QED BY <1>3, <1>4, <1>5, <1>10, <1>11 DEF c

\* One command more.
LEMMA LeadsPublish ==
    ASSUME BridgeInv, guest_publish, NEW p, Leads(p, Cmds),
           NEW f, f = [i \in 0 .. Len(Cmds) + 1 |-> IF i = Len(Cmds) + 1 THEN guest_power' ELSE p[i]]
    PROVE  /\ Leads(f, Cmds)'
           /\ Len(Cmds') = Len(Cmds) + 1 /\ Len(Cmds) \in Nat
           /\ \A i \in 1 .. Len(Cmds) : Cmds'[i] = Cmds[i]
           /\ Cmds'[Len(Cmds) + 1] = staged /\ f[Len(Cmds)] = guest_power
<1> DEFINE c == Cmds
           d == Append(Cmds, staged)
           n == Len(Cmds) + 1
<1>1. BridgeTypes /\ BridgeTypes' BY GuestPublish DEF BridgeInv
<1>2. c \in Seq(Seq(Nat)) /\ staged \in Seq(Nat) /\ Len(c) \in Nat
  <2>1. c \in Seq(Seq(Nat)) BY <1>1, QueueTypes
  <2>2. staged \in Seq(Nat) BY <1>1, GuestPublish, HdrTypes
  <2> QED BY <2>1, <2>2
<1>3. Cmds' = d /\ power' = power BY GuestPublish
<1>4. guest_power' = PowerAfter(guest_power, staged) BY DEF guest_publish
<1>5. guest_power' \in {"off", "ready"} BY <1>1 DEF BridgeTypes
<1> HIDE DEF c
<1>6. Len(d) = n /\ d[n] = staged /\ \A i \in 1 .. Len(c) : d[i] = c[i] BY <1>2 DEF c
<1>7. /\ p \in [0 .. Len(c) -> {"off", "ready"}] /\ p[0] = power /\ p[Len(c)] = guest_power
      /\ \A i \in 1 .. Len(c) : p[i] = PowerAfter(p[i - 1], c[i])
  BY DEF Leads, c
<1>8. n = Len(c) + 1 BY DEF c
<1>9. f = [i \in 0 .. n |-> IF i = n THEN guest_power' ELSE p[i]] OBVIOUS
<1> HIDE DEF n, d
<1>10. n \in 0 .. n /\ f[n] = guest_power' /\ \A i \in 0 .. Len(c) : f[i] = p[i]
  BY <1>2, <1>8, <1>9
<1>11. f \in [0 .. n -> {"off", "ready"}]
  <2>1. \A i \in 0 .. n : i = n \/ i \in 0 .. Len(c) BY <1>2, <1>8
  <2> QED BY <1>5, <1>7, <1>9, <2>1
<1>12. f[0] = power /\ f[Len(c)] = guest_power
  <2>1. 0 \in 0 .. Len(c) /\ Len(c) \in 0 .. Len(c) BY <1>2
  <2>2. f[0] = p[0] /\ f[Len(c)] = p[Len(c)] BY <1>10, <2>1
  <2> QED BY <1>7, <2>2
<1>13. ASSUME NEW i \in 1 .. n PROVE f[i] = PowerAfter(f[i - 1], d[i])
  <2>1. CASE i = n
    <3>1. i - 1 = Len(c) BY <1>2, <1>8, <2>1
    <3> QED BY <1>4, <1>6, <1>10, <1>12, <2>1, <3>1
  <2>2. CASE i # n
    <3>1. i \in 1 .. Len(c) /\ i \in 0 .. Len(c) /\ i - 1 \in 0 .. Len(c) BY <1>2, <1>8, <2>2
    <3> QED BY <1>6, <1>7, <1>10, <3>1
  <2> QED BY <2>1, <2>2
<1>14. Leads(f, Cmds)' BY <1>3, <1>6, <1>10, <1>11, <1>12, <1>13 DEF Leads
<1> QED BY <1>2, <1>3, <1>6, <1>8, <1>12, <1>14 DEF c

LEMMA OwedType == BridgeInv /\ OneAnswer /\ [Next]_vars => (owed \in Seq(Seq(Nat)))'
<1> SUFFICES ASSUME BridgeInv, OneAnswer, [Next]_vars PROVE owed' \in Seq(Seq(Nat)) OBVIOUS
<1>1. owed \in Seq(Seq(Nat)) BY DEF OneAnswer
<1>2. CASE guest_publish
  <2> DEFINE a == Expected(guest_power, staged)
  <2>1. staged \in Seq(Nat) BY <1>2, GuestPublish, HdrTypes DEF BridgeInv
  <2>2. a = None \/ a \in Seq(Nat) BY <2>1, ResponseType, ResponseExpected
  <2>3. owed' = IF a = None THEN owed ELSE Append(owed, a) BY <1>2 DEF guest_publish
  <2> HIDE DEF a
  <2> QED BY <1>1, <2>2, <2>3
<1>3. CASE guest_collect
  <2>1. owed' = IF owed = <<>> THEN owed ELSE Tail(owed) BY <1>3 DEF guest_collect
  <2> QED BY <1>1, <2>1
<1>4. CASE UNCHANGED owed BY <1>1, <1>4
<1>5. Step \/ (\E m \in Messages[window] : guest_write(m)) \/ UNCHANGED vars => UNCHANGED owed
  BY DEF Step, step_refresh, step_take, step_empty, rsp_refresh, rsp_write, rsp_full,
         rsp_publish, guest_write, vars, guestVars
<1> QED BY <1>2, <1>3, <1>4, <1>5 DEF Next

LEMMA QuietAnswer ==
    ASSUME BridgeInv, OneAnswer, window' = 1, UNCHANGED <<owed, guest_power, window>>, Quiet,
           UNCHANGED staged \/ Len(owed) < window
    PROVE  \E p : Leads(p, Cmds)' /\ Due(p, Cmds, Rsps)'
<1>1. PICK p : Leads(p, Cmds) /\ Due(p, Cmds, Rsps) BY DEF OneAnswer
<1>2. Leads(p, Cmds)' BY <1>1 DEF Leads, Quiet
<1>3. window = 1 /\ (UNCHANGED staged \/ ~(Len(owed) = 1)) OBVIOUS
<1>4. Due(p, Cmds, Rsps)' BY <1>1, <1>3 DEF Due, Silent, Quiet
<1> QED BY <1>2, <1>4

LEMMA TakeAnswer ==
    ASSUME BridgeInv, OneAnswer, window = 1, step_take
    PROVE  \E p : Leads(p, Cmds)' /\ Due(p, Cmds, Rsps)'
<1>1. PICK p : Leads(p, Cmds) /\ Due(p, Cmds, Rsps) BY DEF OneAnswer
<1> DEFINE c == Cmds
           n == Len(Cmds)
<1>f. PICK f : f = [i \in 0 .. Len(Cmds) - 1 |-> p[i + 1]] OBVIOUS
<1>2. UNCHANGED <<staged, owed, guest_power, window>> BY DEF step_take, guestVars
<1>3. /\ Leads(f, Cmds)' /\ Len(Cmds') = n - 1 /\ n \in Nat \ {0}
      /\ \A i \in 1 .. n - 1 : Cmds'[i] = c[i + 1]
      /\ rsp' = Expected(p[0], c[1])
  BY <1>1, <1>2, <1>f, LeadsTake
<1>4. rsp = None /\ Rsps' = Rsps BY StepTake
<1>5. \A i \in 1 .. n - 1 : f[i - 1] = p[i]
  <2>1. \A i \in 1 .. n - 1 : i - 1 \in 0 .. n - 1 /\ (i - 1) + 1 = i BY <1>3
  <2> QED BY <1>f, <2>1
<1>6. Len(owed) = 1 => owed[1] # None
  <2>1. owed \in Seq(Seq(Nat)) BY DEF OneAnswer
  <2>2. Len(owed) = 1 => owed[1] \in Seq(Nat) BY <2>1
  <2> QED BY <2>2, MessagesAssumption
<1> HIDE DEF c, n
<1>7. ASSUME NEW k \in Nat, k < n, Silent(p, c, k + 1)
      PROVE  Silent(f, Cmds', k) /\ rsp' = None
  <2>1. \A i \in 1 .. k : i \in 1 .. n - 1 /\ i + 1 \in 1 .. k + 1 /\ (i + 1) - 1 = i
    BY <1>3, <1>7
  <2>2. ASSUME NEW i \in 1 .. k PROVE Expected(f[i - 1], Cmds'[i]) = None
    <3>1. f[i - 1] = p[i] /\ Cmds'[i] = c[i + 1] BY <1>3, <1>5, <2>1
    <3>2. Expected(p[(i + 1) - 1], c[i + 1]) = None BY <1>7, <2>1 DEF Silent
    <3> QED BY <2>1, <3>1, <3>2
  <2>3. 1 \in 1 .. k + 1 /\ 1 - 1 = 0 OBVIOUS
  <2>4. Expected(p[1 - 1], c[1]) = None BY <1>7, <2>3 DEF Silent
  <2> QED BY <1>3, <2>2, <2>3, <2>4 DEF Silent
<1>8. n - 1 \in Nat /\ n - 1 < n /\ (n - 1) + 1 = n BY <1>3
<1>9. CASE Silent(p, c, n)
  <2>1. Silent(f, Cmds', Len(Cmds')) /\ rsp' = None BY <1>3, <1>7, <1>8, <1>9
  <2>2. CASE owed = <<>> /\ Rsps = <<>> BY <1>2, <1>3, <1>4, <2>1, <2>2 DEF Due
  <2>3. CASE staged = None /\ Len(owed) = 1 /\ Rsps \in {<<>>, owed}
    BY <1>2, <1>3, <1>4, <2>1, <2>3 DEF Due
  <2> QED BY <1>1, <1>4, <1>6, <2>2, <2>3 DEF Due
<1>10. CASE /\ staged = None /\ Len(owed) = 1 /\ Rsps = <<>> /\ Silent(p, c, n - 1)
            /\ Expected(p[n - 1], c[n]) = owed[1]
  <2>1. CASE n = 1
    <3>1. rsp' = owed[1] /\ Len(Cmds') = 0
      <4>1. n - 1 = 0 BY <2>1
      <4> QED BY <1>3, <1>10, <2>1, <4>1
    <3>2. Silent(f, Cmds', 0) BY DEF Silent
    <3> QED BY <1>2, <1>3, <1>4, <1>10, <3>1, <3>2 DEF Due
  <2>2. CASE n # 1
    <3>1. n - 2 \in Nat /\ n - 2 < n /\ (n - 2) + 1 = n - 1 /\ (n - 1) - 1 = n - 2
          /\ n - 1 \in 1 .. n - 1
      BY <1>3, <2>2
    <3>2. Silent(f, Cmds', n - 2) /\ rsp' = None BY <1>7, <1>10, <3>1
    <3>3. Silent(f, Cmds', Len(Cmds') - 1) BY <1>3, <3>1, <3>2
    <3>4. f[n - 2] = p[n - 1] /\ Cmds'[n - 1] = c[n]
      <4>1. f[(n - 1) - 1] = p[n - 1] /\ Cmds'[n - 1] = c[(n - 1) + 1] BY <1>3, <1>5, <3>1
      <4> QED BY <1>8, <3>1, <4>1
    <3>5. Len(Cmds') - 1 = n - 2 BY <1>3, <3>1
    <3>6. Expected(f[Len(Cmds') - 1], Cmds'[Len(Cmds')]) = owed[1]
      BY <1>3, <1>10, <3>4, <3>5
    <3>7. Cmds' # <<>> BY <1>3, <3>1
    <3> QED BY <1>2, <1>3, <1>4, <1>10, <3>2, <3>3, <3>6, <3>7 DEF Due
  <2> QED BY <2>1, <2>2
<1> QED BY <1>1, <1>4, <1>6, <1>9, <1>10 DEF Due, c, n

LEMMA PublishAnswer ==
    ASSUME BridgeInv, OneAnswer, window = 1, guest_publish
    PROVE  \E p : Leads(p, Cmds)' /\ Due(p, Cmds, Rsps)'
<1>1. PICK p : Leads(p, Cmds) /\ Due(p, Cmds, Rsps) BY DEF OneAnswer
<1> DEFINE c == Cmds
           n == Len(Cmds)
           a == Expected(guest_power, staged)
<1>f. PICK f : f = [i \in 0 .. Len(Cmds) + 1 |-> IF i = Len(Cmds) + 1 THEN guest_power' ELSE p[i]]
  OBVIOUS
<1>2. /\ Leads(f, Cmds)' /\ Len(Cmds') = n + 1 /\ n \in Nat
      /\ \A i \in 1 .. n : Cmds'[i] = c[i]
      /\ Cmds'[n + 1] = staged /\ f[n] = guest_power
  BY <1>1, <1>f, LeadsPublish
<1>3. staged # None /\ Rsps' = Rsps /\ rsp' = rsp BY GuestPublish
<1>4. owed = <<>> /\ rsp = None /\ Rsps = <<>> /\ Silent(p, c, n) BY <1>1, <1>3 DEF Due
<1>5. staged' = None /\ owed' = (IF a = None THEN owed ELSE Append(owed, a)) BY DEF guest_publish
<1>6. Silent(f, Cmds', n)
  <2>1. \A i \in 1 .. n : i - 1 \in 0 .. n + 1 /\ i - 1 # n + 1 BY <1>2
  <2>2. \A i \in 1 .. n : f[i - 1] = p[i - 1] BY <1>f, <2>1
  <2> QED BY <1>2, <1>4, <2>2 DEF Silent
<1> HIDE DEF c, n, a
<1>7. CASE a = None
  <2>1. ASSUME NEW i \in 1 .. n + 1 PROVE Expected(f[i - 1], Cmds'[i]) = None
    <3>1. CASE i = n + 1
      <4>1. i - 1 = n BY <1>2, <3>1
      <4> QED BY <1>2, <1>7, <3>1, <4>1 DEF a
    <3>2. CASE i # n + 1
      <4>1. i \in 1 .. n BY <1>2, <3>2
      <4> QED BY <1>6, <4>1 DEF Silent
    <3> QED BY <3>1, <3>2
  <2>2. Silent(f, Cmds', Len(Cmds')) BY <1>2, <2>1 DEF Silent
  <2> QED BY <1>2, <1>3, <1>4, <1>5, <1>7, <2>2 DEF Due
<1>8. CASE a # None
  <2>1. a \in Seq(Nat)
    <3>1. staged \in Seq(Nat) BY <1>3, HdrTypes DEF BridgeInv
    <3> QED BY <1>8, <3>1, ResponseType, ResponseExpected DEF a
  <2>2. owed' = Append(<<>>, a) BY <1>4, <1>5, <1>8
  <2>3. Len(owed') = 1 /\ owed'[1] = a BY <2>1, <2>2
  <2>4. Len(Cmds') - 1 = n /\ Cmds' # <<>> BY <1>2
  <2>5. Expected(f[n], Cmds'[n + 1]) = a BY <1>2 DEF a
  <2> QED BY <1>2, <1>3, <1>4, <1>5, <1>6, <2>3, <2>4, <2>5 DEF Due
<1> QED BY <1>7, <1>8

\* An answer that is collected, written or given up leaves none behind.
LEMMA CollectAnswer ==
    ASSUME BridgeInv, OneAnswer, window = 1, guest_collect
    PROVE  /\ owed # <<>> /\ ReadPayload(rsp_ring, hdr.rsp_tail) = owed[1]
           /\ \E p : Leads(p, Cmds)' /\ Due(p, Cmds, Rsps)'
<1>1. PICK p : Leads(p, Cmds) /\ Due(p, Cmds, Rsps) BY DEF OneAnswer
<1>2. /\ Rsps # <<>> /\ ReadPayload(rsp_ring, hdr.rsp_tail) = Head(Rsps)
      /\ Rsps' = Tail(Rsps) /\ Cmds' = Cmds /\ rsp' = rsp /\ power' = power
  BY GuestCollect
<1>3. staged = None /\ Len(owed) = 1 /\ rsp = None /\ Rsps = owed /\ Silent(p, Cmds, Len(Cmds))
  BY <1>1, <1>2 DEF Due
<1>4. owed \in Seq(Seq(Nat)) BY DEF OneAnswer
<1>5. owed # <<>> /\ Head(owed) = owed[1] /\ Tail(owed) = <<>>
  <2>1. owed # <<>> /\ Head(owed) = owed[1] BY <1>3, <1>4
  <2>2. Tail(owed) \in Seq(Seq(Nat)) /\ Len(Tail(owed)) = 0 BY <1>3, <1>4, <2>1
  <2>3. \A x \in Seq(Seq(Nat)) : Len(x) = 0 => x = <<>> OBVIOUS
  <2> QED BY <2>1, <2>2, <2>3
<1>6. owed' = Tail(owed) /\ UNCHANGED guest_power BY <1>5 DEF guest_collect
<1>7. Leads(p, Cmds)' BY <1>1, <1>2, <1>6 DEF Leads
<1>8. owed' = <<>> /\ Rsps' = <<>> BY <1>2, <1>3, <1>5, <1>6
<1>9. Due(p, Cmds, Rsps)' BY <1>2, <1>3, <1>8 DEF Due, Silent
<1> QED BY <1>2, <1>3, <1>5, <1>7, <1>9

LEMMA SentAnswer ==
    ASSUME BridgeInv, OneAnswer, window = 1, rsp_full \/ rsp_publish
    PROVE  \E p : Leads(p, Cmds)' /\ Due(p, Cmds, Rsps)'
<1>1. PICK p : Leads(p, Cmds) /\ Due(p, Cmds, Rsps) BY DEF OneAnswer
<1>2. UNCHANGED <<staged, owed, guest_power, window>> BY DEF rsp_full, rsp_publish, guestVars
<1>3. rsp # None /\ rsp' = None /\ power' = power /\ Cmds' = Cmds
      /\ (Rsps' = Rsps \/ Rsps' = Append(Rsps, rsp))
  BY StepFull, StepPublish
<1>4. /\ staged = None /\ Len(owed) = 1 /\ rsp = owed[1] /\ Rsps = <<>>
      /\ Silent(p, Cmds, Len(Cmds))
  BY <1>1, <1>3 DEF Due
<1>5. Leads(p, Cmds)' BY <1>1, <1>2, <1>3 DEF Leads
<1>6. owed \in Seq(Seq(Nat)) BY DEF OneAnswer
<1>7. Append(<<>>, owed[1]) = owed
  <2>1. owed[1] \in Seq(Nat) BY <1>4, <1>6
  <2> DEFINE x == Append(<<>>, owed[1])
  <2>2. x \in Seq(Seq(Nat)) /\ Len(x) = 1 /\ x[1] = owed[1] BY <2>1
  <2> HIDE DEF x
  <2>3. x = [i \in 1 .. Len(x) |-> x[i]] /\ owed = [i \in 1 .. Len(owed) |-> owed[i]]
    BY <1>6, <2>2
  <2>4. \A i \in 1 .. 1 : x[i] = owed[i] BY <2>2
  <2>5. x = owed BY <1>4, <2>2, <2>3, <2>4
  <2> QED BY <2>5 DEF x
<1>8. Rsps' \in {<<>>, owed} BY <1>3, <1>4, <1>7
<1>9. Due(p, Cmds, Rsps)' BY <1>2, <1>3, <1>4, <1>8 DEF Due, Silent
<1> QED BY <1>5, <1>9

LEMMA AnswerStep == BridgeInv /\ OneAnswer /\ [Next]_vars => OneAnswer'
<1> SUFFICES ASSUME BridgeInv, OneAnswer, [Next]_vars, window' = 1
             PROVE  \E p : Leads(p, Cmds)' /\ Due(p, Cmds, Rsps)'
  BY OwedType DEF OneAnswer
<1>1. UNCHANGED window
  BY DEF Next, Step, step_refresh, step_take, step_empty, rsp_refresh, rsp_write, rsp_full,
         rsp_publish, guest_write, guest_publish, guest_collect, vars, guestVars
<1>2. CASE step_refresh \/ step_empty \/ rsp_refresh \/ rsp_write \/ UNCHANGED vars
  <2>1. UNCHANGED <<staged, owed, guest_power, window>>
    BY <1>2 DEF step_refresh, step_empty, rsp_refresh, rsp_write, vars, guestVars
  <2>2. Quiet BY <1>2, StepRefresh, StepWrite, StepStutter
  <2> QED BY <2>1, <2>2, QuietAnswer
<1>3. CASE \E m \in Messages[window] : guest_write(m) BY <1>1, <1>3, GuestWrite, QuietAnswer
<1>4. CASE step_take BY <1>1, <1>4, TakeAnswer
<1>5. CASE rsp_full \/ rsp_publish BY <1>1, <1>5, SentAnswer
<1>6. CASE guest_publish BY <1>1, <1>6, PublishAnswer
<1>7. CASE guest_collect BY <1>1, <1>7, CollectAnswer
<1> QED BY <1>2, <1>3, <1>4, <1>5, <1>6, <1>7 DEF Next, Step

\* Whatever the order of the steps of bridge and guest, a guest that waits for
\* each answer before the next command collects the answer to that command.
THEOREM AnswerMatchesCorrect == Spec => AnswerMatches
<1>1. Init => OneAnswer
  <2> SUFFICES ASSUME Init PROVE OneAnswer OBVIOUS
  <2>1. Cmds = <<>> /\ Rsps = <<>> BY BridgeInit
  <2>2. owed = <<>> /\ rsp = None /\ power = "off" /\ guest_power = "off" BY DEF Init
  <2> DEFINE p == [i \in 0 .. 0 |-> "off"]
  <2>3. Leads(p, Cmds) BY <2>1, <2>2 DEF Leads
  <2>4. Due(p, Cmds, Rsps) BY <2>1, <2>2 DEF Due, Silent
  <2>5. owed \in Seq(Seq(Nat)) BY <2>2
  <2> QED BY <2>3, <2>4, <2>5 DEF OneAnswer
<1>2. BridgeInv /\ OneAnswer /\ [Next]_vars
        => (window = 1 /\ guest_collect
              => /\ owed # <<>>
                 /\ ReadPayload(rsp_ring, hdr.rsp_tail) = owed[1])
  BY CollectAnswer
<1> QED BY <1>1, <1>2, BridgeAlways, AnswerStep, PTL DEF Spec, AnswerMatches
=============================================================================
