-------------------------- MODULE BitStreamProofs --------------------------
(***************************************************************************)
(* Proofs about BitStream, for every width of eight bits or more, number   *)
(* of fields in a block, number of blocks, and whatever is written over    *)
(* whatever was in the buffer.                                             *)
(***************************************************************************)
EXTENDS BitStream, SequenceTheorems, TLAPS

Streams(n) == [data : [0..(n - 1) -> SUBSET Byte], byte_pos : Nat, bit_pos : Byte]
Pos(s)     == s.byte_pos * 8 + s.bit_pos

-----------------------------------------------------------------------------
\* One field.  Start, whole bytes and tail by case of the bit position.

LEMMA Repositioned ==
    ASSUME NEW D, NEW s \in [data : D, byte_pos : Nat, bit_pos : Byte], NEW a \in Nat, NEW c \in Byte
    PROVE  LET r == [s EXCEPT !.byte_pos = a, !.bit_pos = c] IN
           /\ r \in [data : D, byte_pos : Nat, bit_pos : Byte]
           /\ r.data = s.data /\ r.byte_pos = a /\ r.bit_pos = c
OBVIOUS

LEMMA InShl == \A x \in SUBSET Nat, k \in Nat, j \in Int : j \in Shl(x, k) <=> j - k \in x
BY DEF Shl

LEMMA InShr == \A x \in SUBSET Nat, k \in Nat, j \in Nat : j \in Shr(x, k) <=> j + k \in x
BY DEF Shr

LEMMA ShlRange == \A x \in SUBSET (0..7), k \in Nat : \A e \in Shl(x, k) : e \in k..(k + 7)
BY DEF Shl

LEMMA ShrRange == \A x \in SUBSET (0..7), k \in 0..7 : \A e \in Shr(x, k) : e \in 0..(7 - k)
BY DEF Shr

\* How a field of W bits falls on the bytes.
Splits(s, W, bp, bt, st, hd, whole, tl, pos) ==
    /\ bp = s.byte_pos /\ bt = s.bit_pos /\ pos = Pos(s)
    /\ st = Start(s) /\ hd = HeadBits(s)
    /\ whole = Start(s) + WholeBytes(s, W) /\ tl = TailBits(s, W)
    /\ pos = bp * 8 + bt /\ pos + hd = 8 * st /\ st <= whole
    /\ hd + 8 * (whole - st) + tl = W
    /\ IF bt = 0 THEN st = bp ELSE st = bp + 1

LEMMA Parts ==
    ASSUME NEW n \in Nat, NEW s \in Streams(n), NEW W \in Nat, W >= 8
    PROVE  \E bp \in Nat, bt \in 0..7, st \in Nat, hd \in 0..7, whole \in Nat, tl \in 0..7, pos \in Nat :
               Splits(s, W, bp, bt, st, hd, whole, tl, pos)
<1>1. PICK bp \in Nat, bt \in 0..7 : bp = s.byte_pos /\ bt = s.bit_pos
  BY DEF Streams, Byte
<1>2. PICK hd \in 0..7 : hd = HeadBits(s) /\ hd = IF bt = 0 THEN 0 ELSE 8 - bt
  <2>1. HeadBits(s) = (8 - bt) % 8
    BY <1>1 DEF HeadBits
  <2>2. (8 - bt) % 8 = IF bt = 0 THEN 0 ELSE 8 - bt
    OBVIOUS
  <2> QED
    BY <2>1, <2>2
<1>3. PICK st \in Nat : st = Start(s) /\ st = IF bt = 0 THEN bp ELSE bp + 1
  BY <1>1 DEF Start
<1>4. PICK wb \in Nat : wb = WholeBytes(s, W) /\ 8 * wb <= W - hd /\ W - hd < 8 * wb + 8
  <2>1. WholeBytes(s, W) = (W - hd) \div 8
    BY <1>2 DEF WholeBytes
  <2>2. \A x \in Nat : x \div 8 \in Nat /\ 8 * (x \div 8) <= x /\ x < 8 * (x \div 8) + 8
    OBVIOUS
  <2>3. W - hd \in Nat
    OBVIOUS
  <2> QED
    BY <2>1, <2>2, <2>3
<1>5. PICK tl \in 0..7 : tl = TailBits(s, W) /\ tl = W - hd - 8 * wb
  <2>1. TailBits(s, W) = W - hd - 8 * wb
    BY <1>2, <1>4 DEF TailBits
  <2>2. W - hd - 8 * wb \in 0..7
    BY <1>4
  <2> QED
    BY <2>1, <2>2
<1>6. PICK pos \in Nat : pos = Pos(s) /\ pos = bp * 8 + bt
  BY <1>1 DEF Pos
<1>7. PICK whole \in Nat : whole = Start(s) + WholeBytes(s, W) /\ whole = st + wb
  BY <1>3, <1>4
<1>8. /\ pos + hd = 8 * st /\ st <= whole
      /\ hd + 8 * (whole - st) + tl = W
      /\ IF bt = 0 THEN st = bp ELSE st = bp + 1
  <2>1. pos + hd = 8 * st
    <3>1. CASE bt = 0
      BY <1>2, <1>3, <1>6, <3>1
    <3>2. CASE bt # 0
      <4>1. hd = 8 - bt /\ st = bp + 1
        BY <1>2, <1>3, <3>2
      <4> QED
        BY <1>6, <4>1
    <3> QED
      BY <3>1, <3>2
  <2>2. st <= whole /\ whole - st = wb
    BY <1>7
  <2>3. hd + 8 * (whole - st) + tl = W
    BY <1>5, <2>2
  <2> QED
    BY <1>3, <2>1, <2>2, <2>3
<1>9. Splits(s, W, bp, bt, st, hd, whole, tl, pos)
  BY <1>1, <1>2, <1>3, <1>5, <1>6, <1>7, <1>8 DEF Splits
<1> WITNESS bp \in Nat, bt \in 0..7, st \in Nat, hd \in 0..7, whole \in Nat, tl \in 0..7, pos \in Nat
<1> QED
  BY <1>9

\* What bs_write makes of a byte, and of the bits before the new position: they
\* are what they were up to the byte at hand, and those of the field.
LEMMA WrittenBits ==
    ASSUME NEW n \in Nat, NEW s \in Streams(n), NEW W \in Nat, W >= 8, NEW v \in SUBSET (0..(W - 1)),
           NEW bp \in Nat, NEW bt \in 0..7, NEW st \in Nat, NEW hd \in 0..7,
           NEW whole \in Nat, NEW tl \in 0..7, NEW pos \in Nat,
           Splits(s, W, bp, bt, st, hd, whole, tl, pos),
           NEW b \in 0..(n - 1), NEW j \in Byte
    PROVE  /\ ByteWritten(s, v, W, b) \in SUBSET Byte
           /\ 8 * b < 8 * whole + tl =>
                  (j \in ByteWritten(s, v, W, b) <=>
                      (b < st /\ j \in s.data[b]) \/ 8 * b + j - pos \in v)
<1> DEFINE new == ByteWritten(s, v, W, b)
<1>1. s.data[b] \in SUBSET Byte /\ v \in SUBSET Nat /\ b \in Nat /\ j \in 0..7
  BY DEF Streams, Byte
<1>2. /\ pos = bp * 8 + bt /\ pos + hd = 8 * st /\ st <= whole
      /\ hd + 8 * (whole - st) + tl = W
      /\ IF bt = 0 THEN st = bp ELSE st = bp + 1
  BY DEF Splits
<1>3. new = IF b < st THEN IF b = bp THEN s.data[b] \cup (Shl(v, bt) \cap Byte)
                           ELSE s.data[b]
            ELSE IF b < whole THEN Shr(v, hd + 8 * (b - st)) \cap Byte
            ELSE IF b = whole /\ tl > 0 THEN Shr(v, W - tl) \cap Byte
            ELSE s.data[b]
  BY DEF ByteWritten, Splits
<1> HIDE DEF new
<1> DEFINE Goal == /\ new \in SUBSET Byte
                   /\ 8 * b < 8 * whole + tl =>
                          (j \in new <=> (b < st /\ j \in s.data[b]) \/ 8 * b + j - pos \in v)
<1>4. PICK o \in Int : o = 8 * b + j - pos
  BY <1>1
<1>5. ASSUME b < bp PROVE Goal
  <2>1. new = s.data[b] /\ b < st
    BY <1>1, <1>2, <1>3, <1>5
  <2>2. o < 0
    BY <1>1, <1>2, <1>4, <1>5
  <2> QED
    BY <1>1, <1>4, <2>1, <2>2
<1>6. ASSUME b = bp /\ b < st PROVE Goal
  <2>1. new = s.data[b] \cup (Shl(v, bt) \cap Byte)
    BY <1>3, <1>6
  <2>2. j \in Shl(v, bt) <=> j - bt \in v
    BY <1>1, InShl
  <2>3. o = j - bt
    BY <1>1, <1>2, <1>4, <1>6
  <2> QED
    BY <1>1, <1>4, <1>6, <2>1, <2>2, <2>3
<1>7. ASSUME b >= st /\ (b < whole \/ (b = whole /\ tl > 0)) PROVE Goal
  <2>1. PICK k \in Nat : k = hd + 8 * (b - st)
    BY <1>1, <1>7
  <2>2. o = j + k /\ ~(b < st)
    BY <1>1, <1>2, <1>4, <1>7, <2>1
  <2>3. b = whole => k = W - tl
    BY <1>1, <1>2, <1>7, <2>1
  <2>4. new = Shr(v, k) \cap Byte
    BY <1>1, <1>3, <1>7, <2>1, <2>3
  <2>5. j \in Shr(v, k) <=> j + k \in v
    BY <1>1, InShr
  <2> QED
    BY <1>4, <2>2, <2>4, <2>5
<1>8. ASSUME b >= st /\ ~(b < whole \/ (b = whole /\ tl > 0)) PROVE Goal
  <2>1. new = s.data[b]
    BY <1>1, <1>3, <1>8
  <2>2. ~(8 * b < 8 * whole + tl)
    BY <1>1, <1>8
  <2> QED
    BY <1>1, <2>1, <2>2
<1> QED
  <2>1. Goal
    BY <1>1, <1>2, <1>5, <1>6, <1>7, <1>8
  <2> QED
    BY <2>1, Zenon DEF new

\* A field that fits is written from the position on, and moves it on.
LEMMA WriteBits ==
    ASSUME NEW n \in Nat, NEW s \in Streams(n), NEW W \in Nat, W >= 8,
           NEW v \in SUBSET (0..(W - 1)), ~Exceeds(s, W)
    PROVE  LET r == bs_write(s, v, W) IN
           /\ r \in Streams(n)
           /\ Pos(r) = Pos(s) + W
           /\ \A b \in 0..(n - 1), j \in Byte :
                  b < Start(r) =>
                      (j \in r.data[b] <=> (b < Start(s) /\ j \in s.data[b]) \/ 8 * b + j - Pos(s) \in v)
<1> DEFINE data == [b \in 0..(n - 1) |-> ByteWritten(s, v, W, b)]
           r    == bs_write(s, v, W)
<1>1. PICK bp \in Nat, bt \in 0..7, st \in Nat, hd \in 0..7, whole \in Nat, tl \in 0..7, pos \in Nat :
               Splits(s, W, bp, bt, st, hd, whole, tl, pos)
  BY Parts
<1> USE DEF Splits
<1>2. r = [data |-> data, byte_pos |-> whole, bit_pos |-> tl]
  <2>1. ~(s.bit_pos + W < 8)
    <3>1. s.bit_pos \in 0..7
      BY DEF Streams, Byte
    <3> QED
      BY <3>1
  <2>2. DOMAIN s.data = 0..(n - 1)
    BY DEF Streams
  <2> QED
    BY <1>1, <2>1, <2>2 DEF bs_write
<1>3. data \in [0..(n - 1) -> SUBSET Byte]
  <2>1. \A b \in 0..(n - 1) : ByteWritten(s, v, W, b) \in SUBSET Byte
    <3> HIDE DEF Splits
    <3> TAKE b \in 0..(n - 1)
    <3>1. 0 \in Byte
      BY DEF Byte
    <3> QED
      BY <1>1, <3>1, WrittenBits
  <2> QED
    BY <2>1
<1> HIDE DEF r
<1>4. r.data = data /\ r.byte_pos = whole /\ r.bit_pos = tl
  BY <1>2
<1>5. r \in Streams(n)
  BY <1>2, <1>3 DEF Streams, Byte
<1>6. Pos(r) = 8 * whole + tl /\ Start(r) = (IF tl > 0 THEN whole + 1 ELSE whole)
  BY <1>4 DEF Pos, Start
<1>7. ASSUME NEW b \in 0..(n - 1), NEW j \in Byte, b < Start(r)
      PROVE  j \in r.data[b] <=> (b < Start(s) /\ j \in s.data[b]) \/ 8 * b + j - Pos(s) \in v
  <2>1. 8 * b < 8 * whole + tl
    BY <1>6, <1>7
  <2>2. r.data[b] = ByteWritten(s, v, W, b)
    BY <1>4
  <2> HIDE DEF Splits
  <2>3. j \in ByteWritten(s, v, W, b) <=> (b < st /\ j \in s.data[b]) \/ 8 * b + j - pos \in v
    BY <1>1, <2>1, WrittenBits
  <2>4. st = Start(s) /\ pos = Pos(s)
    BY <1>1 DEF Splits
  <2> QED
    BY <2>2, <2>3, <2>4
<1>8. Pos(r) = Pos(s) + W
  <2>1. 8 * whole + tl = pos + W
    BY <1>1
  <2> QED
    BY <1>1, <1>6, <2>1
<1> QED
  BY <1>5, <1>7, <1>8 DEF r

\* A field that is read is in three parts.
ReadHead(s, bp, bt)        == IF bt > 0 THEN Shr(s.data[bp], bt) ELSE {}
ReadWhole(s, st, hd, k)    == Shl(s.data[st + k], hd + 8 * k)
ReadTail(s, W, whole, tl)  == IF tl > 0 THEN Shl(s.data[whole] \cap 0..(tl - 1), W - tl) ELSE {}

LEMMA ReadParts ==
    ASSUME NEW n \in Nat, NEW s \in Streams(n), NEW W \in Nat,
           NEW bp \in Nat, NEW bt \in 0..7, NEW st \in Nat, NEW hd \in 0..7,
           NEW whole \in Nat, NEW tl \in 0..7, NEW pos \in Nat,
           Splits(s, W, bp, bt, st, hd, whole, tl, pos), NEW c
    PROVE  c \in FieldAt(s, W) <=>
               \/ c \in ReadHead(s, bp, bt)
               \/ \E k \in 0..(whole - st - 1) : c \in ReadWhole(s, st, hd, k)
               \/ c \in ReadTail(s, W, whole, tl)
<1> DEFINE head == IF s.bit_pos > 0 THEN Shr(s.data[s.byte_pos], s.bit_pos) ELSE {}
           mid  == UNION {Shl(s.data[Start(s) + k], HeadBits(s) + 8 * k) : k \in 0..(WholeBytes(s, W) - 1)}
           last == IF TailBits(s, W) > 0
                   THEN Shl(s.data[Start(s) + WholeBytes(s, W)] \cap 0..(TailBits(s, W) - 1), W - TailBits(s, W))
                   ELSE {}
<1>1. FieldAt(s, W) = head \cup mid \cup last
  BY DEF FieldAt
<1>2. /\ bt = s.bit_pos /\ bp = s.byte_pos /\ st = Start(s) /\ hd = HeadBits(s) /\ tl = TailBits(s, W)
      /\ whole = Start(s) + WholeBytes(s, W)
  BY DEF Splits
<1>3. WholeBytes(s, W) = whole - st
  <2>1. PICK wb \in Int : wb = WholeBytes(s, W)
    <3>1. HeadBits(s) \in Int
      BY <1>2
    <3> QED
      BY <3>1 DEF WholeBytes
  <2> QED
    BY <1>2, <2>1
<1>4. head = ReadHead(s, bp, bt)
  BY <1>2, Zenon DEF ReadHead
<1>5. c \in mid <=> \E k \in 0..(whole - st - 1) : c \in ReadWhole(s, st, hd, k)
  <2>1. c \in mid <=> \E k \in 0..(WholeBytes(s, W) - 1) : c \in Shl(s.data[Start(s) + k], HeadBits(s) + 8 * k)
    OBVIOUS
  <2> HIDE DEF mid
  <2> QED
    BY <1>2, <1>3, <2>1 DEF ReadWhole
<1>6. last = ReadTail(s, W, whole, tl)
  BY <1>2, Zenon DEF ReadTail
<1> HIDE DEF head, mid, last
<1> QED
  BY <1>1, <1>4, <1>5, <1>6

\* And they lie one after the other.
InOrder(s, W, bp, bt, st, hd, whole, tl, c) ==
    /\ c \in ReadHead(s, bp, bt) => c \in 0..(hd - 1)
    /\ \A k \in 0..(whole - st - 1) :
           c \in ReadWhole(s, st, hd, k) => c \in (hd + 8 * k)..(hd + 8 * k + 7)
    /\ c \in ReadTail(s, W, whole, tl) => c \in (W - tl)..(W - 1)
    /\ c \in 0..(hd - 1) => (c \in ReadHead(s, bp, bt) <=> c + bt \in s.data[bp])
    /\ \A k \in 0..(whole - st - 1) :
           c \in Int => (c \in ReadWhole(s, st, hd, k) <=> c - (hd + 8 * k) \in s.data[st + k])
    /\ c \in (W - tl)..(W - 1) => (c \in ReadTail(s, W, whole, tl) <=> c - (W - tl) \in s.data[whole])

LEMMA PartsInOrder ==
    ASSUME NEW n \in Nat, NEW s \in Streams(n), NEW W \in Nat,
           NEW bp \in Nat, NEW bt \in 0..7, NEW st \in Nat, NEW hd \in 0..7,
           NEW whole \in Nat, NEW tl \in 0..7, NEW pos \in Nat,
           Splits(s, W, bp, bt, st, hd, whole, tl, pos), pos + W <= 8 * n, NEW c
    PROVE  InOrder(s, W, bp, bt, st, hd, whole, tl, c)
<1>1. /\ pos = bp * 8 + bt /\ pos + hd = 8 * st /\ st <= whole
      /\ hd + 8 * (whole - st) + tl = W
      /\ IF bt = 0 THEN st = bp ELSE st = bp + 1
  BY DEF Splits
<1>2. \A b \in 0..(n - 1) : s.data[b] \in SUBSET (0..7)
  BY DEF Streams, Byte
<1>3. /\ c \in ReadHead(s, bp, bt) => c \in 0..(hd - 1)
      /\ c \in 0..(hd - 1) => (c \in ReadHead(s, bp, bt) <=> c + bt \in s.data[bp])
  <2>1. CASE bt = 0
    <3>1. hd = 0
      BY <1>1, <2>1
    <3>2. ReadHead(s, bp, bt) = {}
      BY <2>1 DEF ReadHead
    <3> QED
      BY <3>1, <3>2
  <2>2. CASE bt > 0
    <3>1. bp \in 0..(n - 1) /\ hd = 8 - bt
      BY <1>1, <2>2
    <3>2. PICK x \in SUBSET (0..7) : x = s.data[bp]
      BY <1>2, <3>1
    <3>3. ReadHead(s, bp, bt) = Shr(x, bt)
      BY <2>2, <3>2 DEF ReadHead
    <3>4. c \in Shr(x, bt) => c \in 0..(7 - bt)
      BY ShrRange
    <3>5. c \in Nat => (c \in Shr(x, bt) <=> c + bt \in x)
      BY InShr
    <3> QED
      BY <3>1, <3>2, <3>3, <3>4, <3>5
  <2> QED
    BY <2>1, <2>2
<1>4. ASSUME NEW k \in 0..(whole - st - 1)
      PROVE  /\ c \in ReadWhole(s, st, hd, k) => c \in (hd + 8 * k)..(hd + 8 * k + 7)
             /\ c \in Int => (c \in ReadWhole(s, st, hd, k) <=> c - (hd + 8 * k) \in s.data[st + k])
  <2>1. st + k \in 0..(n - 1)
    BY <1>1
  <2>2. PICK x \in SUBSET (0..7) : x = s.data[st + k]
    BY <1>2, <2>1
  <2>3. PICK e \in Nat : e = hd + 8 * k
    OBVIOUS
  <2>4. ReadWhole(s, st, hd, k) = Shl(x, e)
    BY <2>2, <2>3 DEF ReadWhole
  <2>5. c \in Shl(x, e) => c \in e..(e + 7)
    BY ShlRange
  <2>6. c \in Int => (c \in Shl(x, e) <=> c - e \in x)
    BY InShl
  <2> QED
    BY <2>2, <2>3, <2>4, <2>5, <2>6
<1>5. /\ c \in ReadTail(s, W, whole, tl) => c \in (W - tl)..(W - 1)
      /\ c \in (W - tl)..(W - 1) => (c \in ReadTail(s, W, whole, tl) <=> c - (W - tl) \in s.data[whole])
  <2>1. CASE tl = 0
    <3>1. ReadTail(s, W, whole, tl) = {}
      BY <2>1 DEF ReadTail
    <3> QED
      BY <2>1, <3>1
  <2>2. CASE tl > 0
    <3>1. whole \in 0..(n - 1)
      BY <1>1, <2>2
    <3>2. PICK x \in SUBSET (0..7) : x = s.data[whole]
      BY <1>2, <3>1
    <3>3. PICK e \in Nat : e = W - tl
      BY <1>1
    <3>4. ReadTail(s, W, whole, tl) = Shl(x \cap 0..(tl - 1), e)
      BY <2>2, <3>2, <3>3 DEF ReadTail
    <3>5. c \in Shl(x \cap 0..(tl - 1), e) => c \in e..(e + 7)
      BY ShlRange
    <3>6. c \in Int => (c \in Shl(x \cap 0..(tl - 1), e) <=> c - e \in x \cap 0..(tl - 1))
      BY InShl
    <3> QED
      BY <3>2, <3>3, <3>4, <3>5, <3>6
  <2> QED
    BY <2>1, <2>2
<1> QED
  BY <1>3, <1>4, <1>5 DEF InOrder

\* A read that fits takes exactly the bits from the position on, and moves it on.
LEMMA ReadBits ==
    ASSUME NEW n \in Nat, n = buf_len, NEW s \in Streams(n), NEW W \in Nat, W >= 8, ~Exceeds(s, W)
    PROVE  LET r == bs_read(s, W) IN
           /\ r.bs \in Streams(n) /\ r.bs.data = s.data
           /\ Pos(r.bs) = Pos(s) + W
           /\ r.ret \in SUBSET (0..(W - 1))
           /\ \A c \in 0..(W - 1), b \in 0..(n - 1), j \in Byte :
                  8 * b + j = Pos(s) + c => (c \in r.ret <=> j \in s.data[b])
<1> DEFINE r == bs_read(s, W)
<1>1. PICK bp \in Nat, bt \in 0..7, st \in Nat, hd \in 0..7, whole \in Nat, tl \in 0..7, pos \in Nat :
               Splits(s, W, bp, bt, st, hd, whole, tl, pos)
  BY Parts
<1>2. /\ pos = bp * 8 + bt /\ pos + hd = 8 * st /\ st <= whole
      /\ hd + 8 * (whole - st) + tl = W /\ pos = Pos(s)
      /\ IF bt = 0 THEN st = bp ELSE st = bp + 1
  BY <1>1 DEF Splits
<1>3. \A b \in 0..(n - 1) : s.data[b] \in SUBSET (0..7)
  BY DEF Streams, Byte
<1>4. pos + W <= 8 * n
  <2>1. bp = s.byte_pos /\ bt = s.bit_pos
    BY <1>1 DEF Splits
  <2>2. ~(bp * 8 + bt + W > n * 8)
    BY <2>1 DEF Exceeds
  <2> QED
    BY <1>2, <2>2
<1>5. r = [ret |-> FieldAt(s, W), bs |-> [s EXCEPT !.byte_pos = whole, !.bit_pos = tl]]
  <2>1. whole = Start(s) + WholeBytes(s, W) /\ tl = TailBits(s, W) /\ bt = s.bit_pos
    BY <1>1 DEF Splits
  <2>2. ~(bt + W < 8)
    OBVIOUS
  <2> QED
    BY <2>1, <2>2 DEF bs_read
<1>6. r.ret = FieldAt(s, W) /\ r.bs.data = s.data /\ r.bs.byte_pos = whole /\ r.bs.bit_pos = tl
      /\ r.bs \in Streams(n)
  <2> DEFINE moved == [s EXCEPT !.byte_pos = whole, !.bit_pos = tl]
  <2>1. moved \in Streams(n) /\ moved.data = s.data /\ moved.byte_pos = whole /\ moved.bit_pos = tl
    <3>1. tl \in Byte
      BY DEF Byte
    <3> QED
      BY <3>1, Repositioned DEF Streams
  <2> HIDE DEF moved
  <2>2. r = [ret |-> FieldAt(s, W), bs |-> moved]
    BY <1>5 DEF moved
  <2> HIDE DEF r
  <2> QED
    BY <2>1, <2>2
<1>7. r.bs \in Streams(n)
  BY <1>6
<1>8. Pos(r.bs) = Pos(s) + W
  <2>1. Pos(r.bs) = whole * 8 + tl
    BY <1>6 DEF Pos
  <2> QED
    BY <1>2, <2>1
<1> HIDE DEF r
<1>9. ASSUME NEW c PROVE InOrder(s, W, bp, bt, st, hd, whole, tl, c)
  BY <1>1, <1>4, PartsInOrder
<1>10. r.ret \in SUBSET (0..(W - 1))
  <2> SUFFICES ASSUME NEW c \in r.ret PROVE c \in 0..(W - 1)
    OBVIOUS
  <2>1. \/ c \in ReadHead(s, bp, bt)
        \/ \E k \in 0..(whole - st - 1) : c \in ReadWhole(s, st, hd, k)
        \/ c \in ReadTail(s, W, whole, tl)
    <3>1. c \in FieldAt(s, W)
      BY <1>6
    <3> QED
      BY <1>1, <3>1, ReadParts
  <2>2. CASE c \in ReadHead(s, bp, bt)
    <3>1. c \in 0..(hd - 1)
      BY <1>9, <2>2 DEF InOrder
    <3> QED
      BY <1>2, <3>1
  <2>3. CASE \E k \in 0..(whole - st - 1) : c \in ReadWhole(s, st, hd, k)
    <3>1. PICK k \in 0..(whole - st - 1) : c \in ReadWhole(s, st, hd, k)
      BY <2>3
    <3>2. c \in (hd + 8 * k)..(hd + 8 * k + 7)
      BY <1>9, <3>1 DEF InOrder
    <3> QED
      BY <1>2, <3>2
  <2>4. CASE c \in ReadTail(s, W, whole, tl)
    <3>1. c \in (W - tl)..(W - 1)
      BY <1>9, <2>4 DEF InOrder
    <3> QED
      BY <1>2, <3>1
  <2> QED
    BY <2>1, <2>2, <2>3, <2>4
<1>11. ASSUME NEW c \in 0..(W - 1), NEW b \in 0..(n - 1), NEW j \in Byte, 8 * b + j = Pos(s) + c
       PROVE  c \in r.ret <=> j \in s.data[b]
  <2> DEFINE h == c \in ReadHead(s, bp, bt)
             w(k) == c \in ReadWhole(s, st, hd, k)
             m == \E k \in 0..(whole - st - 1) : w(k)
             l == c \in ReadTail(s, W, whole, tl)
  <2>1. c \in r.ret <=> h \/ m \/ l
    <3>1. c \in FieldAt(s, W) <=> h \/ m \/ l
      BY <1>1, ReadParts
    <3> QED
      BY <1>6, <3>1
  <2>2. 8 * b + j = pos + c /\ j \in 0..7
    BY <1>2, <1>11 DEF Byte
  <2>3. /\ h => c \in 0..(hd - 1)
        /\ \A k \in 0..(whole - st - 1) : w(k) => c \in (hd + 8 * k)..(hd + 8 * k + 7)
        /\ l => c \in (W - tl)..(W - 1)
        /\ c \in 0..(hd - 1) => (h <=> c + bt \in s.data[bp])
        /\ \A k \in 0..(whole - st - 1) : w(k) <=> c - (hd + 8 * k) \in s.data[st + k]
        /\ c \in (W - tl)..(W - 1) => (l <=> c - (W - tl) \in s.data[whole])
    BY <1>9 DEF InOrder
  <2> HIDE DEF h, w, l
  <2>4. CASE c < hd
    <3>1. bt > 0 /\ b = bp /\ j = c + bt
      BY <1>2, <2>2, <2>4
    <3>2. h <=> j \in s.data[b]
      BY <2>3, <2>4, <3>1
    <3>3. ~m /\ ~l
      BY <1>2, <2>3, <2>4
    <3> QED
      BY <2>1, <3>2, <3>3
  <2>5. CASE hd <= c /\ c < W - tl
    <3>1. PICK k \in 0..(whole - st - 1) : b = st + k /\ j = c - (hd + 8 * k)
      <4>1. b - st \in 0..(whole - st - 1) /\ j = c - (hd + 8 * (b - st)) /\ b = st + (b - st)
        BY <1>2, <2>2, <2>5
      <4> QED
        BY <4>1
    <3>2. w(k) <=> j \in s.data[b]
      BY <2>3, <3>1
    <3>3. ~h /\ ~l
      BY <1>2, <2>3, <2>5
    <3>4. \A i \in 0..(whole - st - 1) : w(i) => i = k
      <4> TAKE i \in 0..(whole - st - 1)
      <4> HAVE w(i)
      <4>1. c \in (hd + 8 * i)..(hd + 8 * i + 7)
        BY <2>3
      <4>2. c \in (hd + 8 * k)..(hd + 8 * k + 7)
        BY <2>2, <3>1
      <4> QED
        BY <4>1, <4>2
    <3> QED
      BY <2>1, <3>2, <3>3, <3>4
  <2>6. CASE c >= W - tl
    <3>1. b = whole /\ j = c - (W - tl) /\ c \in (W - tl)..(W - 1)
      BY <1>2, <2>2, <2>6
    <3>2. l <=> j \in s.data[b]
      BY <2>3, <3>1
    <3>3. ~h /\ ~m
      BY <1>2, <2>3, <2>6
    <3> QED
      BY <2>1, <3>2, <3>3
  <2> QED
    BY <2>4, <2>5, <2>6
<1> QED
  BY <1>6, <1>7, <1>8, <1>10, <1>11 DEF r

-----------------------------------------------------------------------------
\* Addresses: fields lie one after the other, and inside the block.

LEMMA Products == \A a, b, c \in Nat : /\ a * c \in Nat /\ (a + 1) * c = a * c + c
                                      /\ a <= b => a * c <= b * c
<1> TAKE a, b, c \in Nat
<1>1. a * c \in Nat /\ (a + 1) * c = a * c + c
  OBVIOUS
<1>2. ASSUME a <= b PROVE a * c <= b * c
  <2>1. PICK d \in Nat : b = a + d
    <3>1. b - a \in Nat /\ b = a + (b - a)
      BY <1>2
    <3> QED
      BY <3>1
  <2>2. d * c \in Nat /\ (a + d) * c = a * c + d * c
    OBVIOUS
  <2> QED
    BY <1>1, <2>1, <2>2
<1> QED
  BY <1>1, <1>2

LEMMA Sizes ==
    ASSUME shape \in Shapes
    PROVE  /\ shape.bits \in Nat /\ shape.bits >= 8
           /\ shape.fields \in Nat \ {0} /\ shape.blocks \in Nat \ {0}
           /\ Values(shape) \in SUBSET SUBSET (0..(shape.bits - 1))
           /\ shape.fields * shape.bits \in Nat /\ Block \in Nat /\ Block >= 1
           /\ shape.fields * shape.bits <= 8 * Block /\ 8 * Block < shape.fields * shape.bits + 8
           /\ buf_len \in Nat
<1>1. PICK W \in Nat, F \in Nat, Q \in Nat :
          W = shape.bits /\ F = shape.fields /\ Q = shape.blocks /\ W >= 8 /\ F >= 1 /\ Q >= 1
  BY BitStreamAssumption
<1>2. PICK x \in Nat : x = F * W /\ x >= W
  <2>1. 1 * W <= F * W /\ F * W \in Nat
    BY <1>1, Products
  <2> QED
    BY <2>1
<1>3. Block = (x + 7) \div 8
  BY <1>1, <1>2 DEF Block, CEILING
<1>4. PICK B \in Nat : B = Block /\ x <= 8 * B /\ 8 * B < x + 8
  <2>1. (x + 7) \div 8 \in Nat /\ x <= 8 * ((x + 7) \div 8) /\ 8 * ((x + 7) \div 8) < x + 8
    OBVIOUS
  <2> QED
    BY <1>3, <2>1
<1>5. B >= 1
  BY <1>1, <1>2, <1>4
<1>6. buf_len \in Nat
  <2>1. buf_len = Q * B
    BY <1>1, <1>4 DEF buf_len
  <2> QED
    BY <2>1, Products
<1>7. Values(shape) \in SUBSET SUBSET (0..(shape.bits - 1))
  BY BitStreamAssumption
<1> QED
  BY <1>1, <1>2, <1>4, <1>5, <1>6, <1>7

LEMMA Inside ==
    ASSUME shape \in Shapes, NEW q \in 0..(shape.blocks - 1), NEW f \in 0..(shape.fields - 1)
    PROVE  /\ At(q, f) \in Nat /\ At(q, f + 1) = At(q, f) + shape.bits
           /\ q * Block * 8 <= At(q, f)
           /\ At(q, f) + shape.bits <= (q + 1) * Block * 8
           /\ (q + 1) * Block <= buf_len /\ (q + 1) * Block \in Nat
<1>1. PICK W \in Nat, F \in Nat, Q \in Nat, B \in Nat, x \in Nat :
          /\ W = shape.bits /\ F = shape.fields /\ Q = shape.blocks /\ B = Block /\ x = F * W
          /\ x <= 8 * B
  BY Sizes
<1>2. q \in Nat /\ f \in Nat /\ q + 1 <= Q /\ f + 1 <= F
  BY <1>1
<1>3. PICK u \in Nat : u = q * B
  BY <1>2, Products
<1>4. PICK y \in Nat : y = f * W
  BY <1>2, Products
<1>5. (f + 1) * W = y + W /\ y + W <= x
  <2>1. (f + 1) * W <= F * W
    BY <1>2, Products
  <2>2. (f + 1) * W = f * W + W
    BY <1>2, Products
  <2> QED
    BY <1>1, <1>4, <2>1, <2>2
<1>6. At(q, f) = u * 8 + y /\ At(q, f + 1) = u * 8 + (y + W)
  BY <1>1, <1>3, <1>4, <1>5 DEF At
<1>7. (q + 1) * B = u + B
  BY <1>2, <1>3, Products
<1>8. (q + 1) * B <= Q * B /\ Q * B = buf_len
  <2>1. q + 1 \in Nat
    BY <1>2
  <2> QED
    BY <1>1, <1>2, <2>1, Products DEF buf_len
<1>9. (q + 1) * Block = u + B /\ q * Block = u
  BY <1>1, <1>3, <1>7
<1>10. u + B <= buf_len
  BY <1>7, <1>8
<1>11. /\ At(q, f) = u * 8 + y /\ At(q, f + 1) = u * 8 + (y + W)
       /\ q * Block * 8 = u * 8 /\ (q + 1) * Block * 8 = (u + B) * 8
  BY <1>6, <1>9
<1>12. u * 8 + y + W <= (u + B) * 8
  BY <1>1, <1>5
<1>13. /\ At(q, f) \in Nat /\ At(q, f + 1) = At(q, f) + W
       /\ u * 8 <= At(q, f) /\ At(q, f) + W <= (u + B) * 8
  <2> HIDE DEF At
  <2> QED
    BY <1>6, <1>12
<1>14. At(q, f + 1) = At(q, f) + shape.bits /\ At(q, f) + shape.bits <= (q + 1) * Block * 8
  BY <1>1, <1>11, <1>13, Zenon
<1>15. (q + 1) * Block <= buf_len /\ (q + 1) * Block \in Nat
  <2>1. u + B \in Nat
    OBVIOUS
  <2> QED
    BY <1>9, <1>10, <2>1, Zenon
<1>16. q * Block * 8 <= At(q, f) /\ At(q, f) \in Nat
  BY <1>11, <1>13, Zenon
<1> QED
  BY <1>14, <1>15, <1>16, Zenon

\* The number of a field says where it lies.
LEMMA Order ==
    ASSUME shape \in Shapes,
           NEW q \in 0..(shape.blocks - 1), NEW f \in 0..(shape.fields - 1),
           NEW p \in 0..(shape.blocks - 1), NEW g \in 0..(shape.fields - 1)
    PROVE  /\ Nth(q, f) \in 1..All
           /\ Nth(q, f) < Nth(p, g) => At(q, f) + shape.bits <= At(p, g)
           /\ Nth(q, f) = Nth(p, g) => q = p /\ f = g
<1>1. PICK F \in Nat, Q \in Nat, B \in Nat :
          F = shape.fields /\ Q = shape.blocks /\ B = Block /\ F >= 1
  BY Sizes
<1>2. q \in Nat /\ f \in Nat /\ p \in Nat /\ g \in Nat /\ q + 1 <= Q /\ f + 1 <= F /\ p + 1 <= Q /\ g + 1 <= F
  BY <1>1
<1>3. PICK u \in Nat, w \in Nat : u = q * F /\ w = p * F
  BY <1>1, <1>2, Products
<1>4. (q + 1) * F = u + F /\ (p + 1) * F = w + F
  BY <1>2, <1>3, Products
<1>5. Nth(q, f) = u + f + 1 /\ Nth(p, g) = w + g + 1
  BY <1>1, <1>3 DEF Nth
<1>6. Nth(q, f) \in 1..All
  <2>1. (q + 1) * F <= Q * F
    <3>1. q + 1 \in Nat
      BY <1>2
    <3> QED
      BY <1>2, <3>1, Products
  <2>2. PICK a \in Nat : a = All /\ a = Q * F
    BY <1>1, Products DEF All
  <2> QED
    BY <1>2, <1>4, <1>5, <2>1, <2>2
<1>7. q < p => u + F <= w
  <2>1. q < p => (q + 1) * F <= p * F
    <3>1. q + 1 \in Nat /\ (q < p => q + 1 <= p)
      BY <1>2
    <3> QED
      BY <1>2, <3>1, Products
  <2> QED
    BY <1>3, <1>4, <2>1
<1>8. p < q => w + F <= u
  <2>1. p < q => (p + 1) * F <= q * F
    <3>1. p + 1 \in Nat /\ (p < q => p + 1 <= q)
      BY <1>2
    <3> QED
      BY <1>2, <3>1, Products
  <2> QED
    BY <1>3, <1>4, <2>1
<1>9. Nth(q, f) = Nth(p, g) => q = p /\ f = g
  <2>1. q < p \/ p < q \/ q = p
    BY <1>2
  <2>2. q = p => u = w
    BY <1>3
  <2> QED
    BY <1>2, <1>5, <1>7, <1>8, <2>1, <2>2
<1>10. ASSUME Nth(q, f) < Nth(p, g) PROVE At(q, f) + shape.bits <= At(p, g)
  <2>1. q < p \/ (q = p /\ f < g)
    <3>1. q < p \/ p < q \/ q = p
      BY <1>2
    <3>2. q = p => u = w
      BY <1>3
    <3> QED
      BY <1>2, <1>5, <1>8, <1>10, <3>1, <3>2
  <2>2. CASE q < p
    <3>1. (q + 1) * B <= p * B /\ p * B \in Nat /\ (q + 1) * B \in Nat
      <4>1. q + 1 \in Nat /\ q + 1 <= p
        BY <1>2, <2>2
      <4> QED
        BY <1>2, <4>1, Products
    <3>2. At(q, f) + shape.bits <= (q + 1) * B * 8 /\ p * B * 8 <= At(p, g)
      BY <1>1, Inside
    <3>3. At(q, f) + shape.bits \in Nat /\ At(p, g) \in Nat
      BY Inside, Sizes
    <3> QED
      BY <3>1, <3>2, <3>3
  <2>3. CASE q = p /\ f < g
    <3>1. PICK W \in Nat : W = shape.bits
      BY Sizes
    <3>2. (f + 1) * W <= g * W /\ (f + 1) * W = f * W + W /\ f * W \in Nat /\ g * W \in Nat
      <4>1. f + 1 \in Nat /\ f + 1 <= g
        BY <1>2, <2>3
      <4> QED
        BY <1>2, <4>1, Products
    <3>3. q * B \in Nat
      BY <1>2, Products
    <3>4. At(q, f) = q * B * 8 + f * W /\ At(p, g) = q * B * 8 + g * W
      BY <1>1, <2>3, <3>1 DEF At
    <3> QED
      BY <3>1, <3>2, <3>3, <3>4
  <2> QED
    BY <2>1, <2>2, <2>3
<1> QED
  BY <1>6, <1>9, <1>10

-----------------------------------------------------------------------------
\* The bits that a list of fields stands for.

Field == SUBSET (0..(shape.bits - 1))

BitIn(ws, o) ==
    \E q \in 0..(shape.blocks - 1), f \in 0..(shape.fields - 1) :
        /\ Nth(q, f) <= Len(ws)
        /\ At(q, f) <= o /\ o < At(q, f) + shape.bits
        /\ o - At(q, f) \in ws[Nth(q, f)]

\* One more field adds its bits, behind all the others.
LEMMA BitAppend ==
    ASSUME shape \in Shapes, NEW ws \in Seq(Field), NEW v \in Field, NEW o \in Int,
           NEW q \in 0..(shape.blocks - 1), NEW f \in 0..(shape.fields - 1), Len(ws) + 1 = Nth(q, f)
    PROVE  /\ BitIn(Append(ws, v), o) <=> BitIn(ws, o) \/ o - At(q, f) \in v
           /\ BitIn(ws, o) => o < At(q, f)
<1> DEFINE more == Append(ws, v)
<1>1. /\ Len(more) = Len(ws) + 1 /\ Len(ws) \in Nat /\ more[Len(ws) + 1] = v
      /\ \A k \in 1..Len(ws) : more[k] = ws[k]
  <2>1. ws \in Seq(Field) /\ v \in Field
    OBVIOUS
  <2> QED
    BY ONLY <2>1, AppendProperties, LenProperties
<1> HIDE DEF more
<1> DEFINE Has(s, p, g) == /\ Nth(p, g) <= Len(s)
                          /\ At(p, g) <= o /\ o < At(p, g) + shape.bits
                          /\ o - At(p, g) \in s[Nth(p, g)]
<1>2. PICK W \in Nat : W = shape.bits
  BY Sizes
<1>3. At(q, f) \in Nat
  BY Inside
<1>4. ASSUME NEW p \in 0..(shape.blocks - 1), NEW g \in 0..(shape.fields - 1), Nth(p, g) <= Len(ws)
      PROVE  (Has(more, p, g) <=> Has(ws, p, g)) /\ At(p, g) + shape.bits <= At(q, f)
  <2>1. Nth(p, g) \in 1..All /\ Nth(p, g) < Nth(q, f)
    <3>1. Nth(p, g) \in 1..All
      BY Order
    <3>2. Nth(p, g) \in Int
      BY <3>1
    <3> QED
      BY <1>1, <1>4, <3>1, <3>2
  <2>2. At(p, g) + shape.bits <= At(q, f)
    BY <2>1, Order
  <2>3. more[Nth(p, g)] = ws[Nth(p, g)]
    <3>1. Nth(p, g) \in 1..Len(ws)
      BY <1>1, <1>4, <2>1
    <3> QED
      BY <1>1, <3>1
  <2>4. Nth(p, g) <= Len(more)
    BY <1>1, <1>4, <2>1
  <2> QED
    BY <1>4, <2>2, <2>3, <2>4
<1>5. Has(more, q, f) <=> o - At(q, f) \in v
  <2>1. Nth(q, f) <= Len(more) /\ more[Nth(q, f)] = v
    BY <1>1
  <2>2. o - At(q, f) \in v => At(q, f) <= o /\ o < At(q, f) + W
    <3>1. v \in SUBSET (0..(W - 1))
      BY <1>2 DEF Field
    <3> QED
      BY <1>3, <3>1
  <2> QED
    BY <1>2, <2>1, <2>2
<1>6. ASSUME NEW p \in 0..(shape.blocks - 1), NEW g \in 0..(shape.fields - 1), Has(more, p, g)
      PROVE  Nth(p, g) <= Len(ws) \/ (p = q /\ g = f)
  <2>1. Nth(p, g) \in 1..All /\ (Nth(p, g) = Nth(q, f) => p = q /\ g = f)
    BY Order
  <2>2. Nth(p, g) <= Len(ws) + 1
    BY <1>1, <1>6
  <2> QED
    BY <1>1, <2>1, <2>2
<1>7. BitIn(ws, o) => o < At(q, f)
  <2>1. ASSUME NEW p \in 0..(shape.blocks - 1), NEW g \in 0..(shape.fields - 1), Has(ws, p, g)
        PROVE  o < At(q, f)
    <3>1. At(p, g) + W <= At(q, f) /\ o < At(p, g) + W /\ At(p, g) \in Nat
      BY <1>2, <1>4, <2>1, Inside
    <3> QED
      BY <1>3, <3>1
  <2> QED
    BY <2>1 DEF BitIn
<1>8. BitIn(ws, o) => BitIn(more, o)
  BY <1>4 DEF BitIn
<1>9. o - At(q, f) \in v => BitIn(more, o)
  BY <1>5 DEF BitIn
<1>10. BitIn(more, o) => BitIn(ws, o) \/ o - At(q, f) \in v
  BY <1>4, <1>5, <1>6 DEF BitIn
<1> QED
  BY <1>7, <1>8, <1>9, <1>10 DEF more

\* The bits at the address of a field are its own.
LEMMA BitAt ==
    ASSUME shape \in Shapes, NEW ws \in Seq(Field), NEW c \in 0..(shape.bits - 1),
           NEW q \in 0..(shape.blocks - 1), NEW f \in 0..(shape.fields - 1), Nth(q, f) <= Len(ws)
    PROVE  BitIn(ws, At(q, f) + c) <=> c \in ws[Nth(q, f)]
<1>1. PICK W \in Nat : W = shape.bits
  BY Sizes
<1>2. PICK a \in Nat : a = At(q, f)
  BY Inside
<1>3. PICK o \in Nat : o = a + c /\ o - a = c
  BY <1>1
<1>4. c \in ws[Nth(q, f)] => BitIn(ws, o)
  <2>1. a <= o /\ o < a + W
    BY <1>1, <1>3
  <2> QED
    BY <1>1, <1>2, <1>3, <2>1 DEF BitIn
<1>5. ASSUME NEW p \in 0..(shape.blocks - 1), NEW g \in 0..(shape.fields - 1),
             At(p, g) <= o, o < At(p, g) + shape.bits
      PROVE  p = q /\ g = f
  <2>1. PICK e \in Nat : e = At(p, g)
    BY Inside
  <2>2. PICK i \in Nat, k \in Nat : i = Nth(q, f) /\ k = Nth(p, g)
    <3>1. Nth(q, f) \in 1..All /\ Nth(p, g) \in 1..All
      BY Order
    <3> QED
      BY <3>1
  <2>3. e <= o /\ o < e + W
    BY <1>1, <1>5, <2>1
  <2>4. ~(i < k)
    <3>1. i < k => a + W <= e
      BY <1>1, <1>2, <2>1, <2>2, Order
    <3> QED
      BY <1>1, <1>3, <2>3, <3>1
  <2>5. ~(k < i)
    <3>1. k < i => e + W <= a
      BY <1>1, <1>2, <2>1, <2>2, Order
    <3> QED
      BY <1>1, <1>3, <2>3, <3>1
  <2>6. i = k
    BY <2>4, <2>5
  <2>7. Nth(q, f) = Nth(p, g)
    BY <2>2, <2>6
  <2>8. q = p /\ f = g
    BY <2>7, Order
  <2> QED
    BY <2>8
<1>6. BitIn(ws, o) => c \in ws[Nth(q, f)]
  BY <1>2, <1>3, <1>5 DEF BitIn
<1> QED
  BY <1>2, <1>3, <1>4, <1>6

LEMMA Starts ==
    ASSUME NEW n \in Nat, NEW s \in Streams(n)
    PROVE  /\ Start(s) \in Nat /\ Pos(s) \in Nat /\ Pos(s) <= 8 * Start(s) /\ 8 * Start(s) < Pos(s) + 8
           /\ Pos(s) <= 8 * n => Start(s) <= n
<1>1. PICK a \in Nat, c \in 0..7 : a = s.byte_pos /\ c = s.bit_pos
  BY DEF Streams, Byte
<1>2. Start(s) = (IF c > 0 THEN a + 1 ELSE a) /\ Pos(s) = a * 8 + c
  BY <1>1 DEF Start, Pos
<1> QED
  BY <1>2

-----------------------------------------------------------------------------
\* The invariant.

Typed ==
    /\ shape \in Shapes
    /\ pc \in {"write", "read"} /\ field \in 0..(shape.fields + 1)
    /\ bs \in Streams(buf_len)
    /\ wrote \in Seq(Field) /\ got \in Seq(Field)

\* What the position has to do with the fields done.
Place ==
    \/ /\ field = shape.fields + 1 /\ Len(Processed) = All
       /\ bs.byte_pos = buf_len /\ bs.bit_pos = 0
    \/ /\ field <= shape.fields
       /\ \E q \in 0..(shape.blocks - 1) :
              Len(Processed) = q * shape.fields + field /\ Pos(bs) = At(q, field)

Phase ==
    /\ ~refused
    /\ pc = "write" => got = <<>>
    /\ pc = "read" => Len(wrote) = All

Same == Len(got) <= Len(wrote) /\ \A k \in 1..Len(got) : got[k] = wrote[k]

StreamInv == Typed /\ Place /\ Phase /\ Packed /\ Same

\* A field that is left in a block has room, at its address.
LEMMA Room ==
    ASSUME StreamInv, field < shape.fields
    PROVE  /\ field \in 0..(shape.fields - 1) /\ ~Exceeds(bs, shape.bits)
           /\ \E q \in 0..(shape.blocks - 1) :
                  /\ Len(Processed) = q * shape.fields + field /\ Len(Processed) + 1 = Nth(q, field)
                  /\ Pos(bs) = At(q, field) /\ At(q, field) + shape.bits <= 8 * buf_len
<1>1. PICK F \in Nat, W \in Nat, n \in Nat : F = shape.fields /\ W = shape.bits /\ n = buf_len
  BY Sizes DEF StreamInv, Typed
<1>2. field \in 0..(F - 1)
  BY <1>1 DEF StreamInv, Typed
<1>3. PICK q \in 0..(shape.blocks - 1) : Len(Processed) = q * F + field /\ Pos(bs) = At(q, field)
  BY <1>1, <1>2 DEF StreamInv, Place
<1>4. q * F + field + 1 = Nth(q, field)
  BY <1>1 DEF Nth
<1>5. PICK a \in Nat, e \in Nat : a = At(q, field) /\ a + W <= e * 8 /\ e <= n
  BY <1>1, <1>2, Inside DEF StreamInv, Typed
<1>6. a + W <= 8 * n
  BY <1>5
<1>7. ~Exceeds(bs, W)
  <2>1. bs.byte_pos * 8 + bs.bit_pos = a
    BY <1>3, <1>5 DEF Pos
  <2> QED
    BY <1>1, <1>6, <2>1 DEF Exceeds
<1>8. Len(Processed) + 1 = Nth(q, field) /\ At(q, field) + shape.bits <= 8 * buf_len
  <2>1. At(q, field) + W <= 8 * n
    BY <1>5, <1>6
  <2> QED
    BY <1>1, <1>3, <1>4, <2>1
<1> QED
  BY <1>1, <1>2, <1>3, <1>7, <1>8

LEMMA Frozen ==
    ASSUME shape' = shape
    PROVE  /\ Block' = Block /\ buf_len' = buf_len /\ All' = All /\ Field' = Field
           /\ \A q, f : At(q, f)' = At(q, f) /\ Nth(q, f)' = Nth(q, f)
           /\ \A o : BitOf(o)' <=> BitIn(wrote', o)
<1>1. /\ Block' = Block /\ buf_len' = buf_len /\ All' = All /\ Field' = Field
      /\ \A q, f : At(q, f)' = At(q, f) /\ Nth(q, f)' = Nth(q, f)
  BY DEF Block, buf_len, All, Field, At, Nth
<1>2. ASSUME NEW o PROVE BitOf(o)' <=> BitIn(wrote', o)
  BY <1>1 DEF BitOf, BitIn
<1> QED
  BY <1>1, <1>2

\* What Packed asks of the bits, before and after a step.
Upto == IF pc = "read" THEN buf_len ELSE Start(bs)

LEMMA Unpacked ==
    ASSUME Packed
    PROVE  \A b \in 0..(Upto - 1), j \in Byte : j \in bs.data[b] <=> BitIn(wrote, 8 * b + j)
<1> TAKE b \in 0..(Upto - 1), j \in Byte
<1>1. bs.data[b] = Encoded(b)
  BY DEF Packed, Upto
<1>2. j \in Encoded(b) <=> BitOf(8 * b + j)
  BY DEF Encoded
<1>3. BitOf(8 * b + j) <=> BitIn(wrote, 8 * b + j)
  BY DEF BitOf, BitIn
<1> QED
  BY <1>1, <1>2, <1>3

LEMMA Repacked ==
    ASSUME shape' = shape, NEW n \in Nat, n = Upto',
           \A b \in 0..(n - 1) : bs'.data[b] \in SUBSET Byte,
           \A b \in 0..(n - 1), j \in Byte : j \in bs'.data[b] <=> BitIn(wrote', 8 * b + j)
    PROVE  Packed'
<1>1. ASSUME NEW b \in 0..(n - 1) PROVE bs'.data[b] = Encoded(b)'
  <2>1. Encoded(b)' = {j \in Byte : BitOf(8 * b + j)'}
    BY DEF Encoded
  <2>2. \A j \in Byte : BitOf(8 * b + j)' <=> BitIn(wrote', 8 * b + j)
    BY Frozen
  <2>3. bs'.data[b] \in SUBSET Byte /\ \A j \in Byte : j \in bs'.data[b] <=> BitIn(wrote', 8 * b + j)
    OBVIOUS
  <2> QED
    BY <2>1, <2>2, <2>3
<1> QED
  BY <1>1 DEF Packed, Upto

-----------------------------------------------------------------------------
\* The steps.

LEMMA StreamInit == Init => StreamInv
<1> SUFFICES ASSUME Init PROVE StreamInv
  OBVIOUS
<1>1. PICK fill \in Fills : bs = bs_init([b \in 0..(buf_len - 1) |-> fill])
  BY DEF Init
<1>2. /\ shape \in Shapes /\ pc = "write" /\ field = 0 /\ refused = FALSE /\ wrote = <<>> /\ got = <<>>
      /\ bs.data = [b \in 0..(buf_len - 1) |-> fill] /\ bs.byte_pos = 0 /\ bs.bit_pos = 0
      /\ bs = [data |-> [b \in 0..(buf_len - 1) |-> fill], byte_pos |-> 0, bit_pos |-> 0]
  BY <1>1 DEF Init, bs_init
<1>3. PICK F \in Nat, Q \in Nat, B \in Nat : F = shape.fields /\ Q = shape.blocks /\ B = Block /\ F >= 1 /\ Q >= 1
  BY <1>2, Sizes
<1>4. Typed
  <2>1. fill \in SUBSET Byte
    BY BitStreamAssumption
  <2>2. bs \in Streams(buf_len)
    BY <1>2, <2>1 DEF Streams, Byte
  <2>3. <<>> \in Seq(Field)
    OBVIOUS
  <2>4. field \in 0..(shape.fields + 1)
    BY <1>2, <1>3
  <2> QED
    BY <1>2, <2>2, <2>3, <2>4 DEF Typed
<1>5. Place
  <2>1. Len(Processed) = 0
    BY <1>2 DEF Processed
  <2>2. Pos(bs) = 0
    BY <1>2 DEF Pos
  <2>3. 0 * B = 0 /\ 0 * shape.bits = 0 /\ 0 * F = 0
    BY <1>2, Sizes
  <2>4. At(0, 0) = 0
    BY <1>3, <2>3 DEF At
  <2>5. 0 \in 0..(shape.blocks - 1) /\ 0 <= shape.fields
    BY <1>3
  <2>6. Len(Processed) = 0 * shape.fields + field
    BY <1>2, <1>3, <2>1, <2>3
  <2> QED
    BY <1>2, <2>2, <2>4, <2>5, <2>6 DEF Place
<1>6. Phase
  BY <1>2 DEF Phase
<1>7. Packed
  <2>1. Start(bs) = 0
    BY <1>2 DEF Start
  <2> QED
    BY <1>2, <2>1 DEF Packed
<1>8. Same
  BY <1>2 DEF Same
<1> QED
  BY <1>4, <1>5, <1>6, <1>7, <1>8 DEF StreamInv

LEMMA WriteStep == StreamInv /\ Write => StreamInv'
<1> SUFFICES ASSUME StreamInv, Write PROVE StreamInv'
  OBVIOUS
<1>1. /\ shape' = shape /\ pc = "write" /\ pc' = "write" /\ got' = got /\ field' = field + 1
      /\ field < shape.fields /\ (refused' = (refused \/ Exceeds(bs, shape.bits)))
  BY DEF Write
<1>2. PICK v \in Values(shape) : bs' = bs_write(bs, v, shape.bits) /\ wrote' = Append(wrote, v)
  BY DEF Write
<1>3. /\ shape \in Shapes /\ field \in 0..(shape.fields + 1) /\ bs \in Streams(buf_len)
      /\ wrote \in Seq(Field) /\ got \in Seq(Field)
  BY DEF StreamInv, Typed
<1>4. PICK W \in Nat, F \in Nat, n \in Nat : W = shape.bits /\ F = shape.fields /\ n = buf_len /\ W >= 8
  BY <1>3, Sizes
<1>5. v \in Field
  BY <1>3, Sizes DEF Field
<1>6. ~Exceeds(bs, W) /\ field \in 0..(F - 1)
  BY <1>1, <1>4, Room
<1>7. PICK q \in 0..(shape.blocks - 1) :
          /\ Len(wrote) = q * F + field /\ Len(wrote) + 1 = Nth(q, field)
          /\ Pos(bs) = At(q, field) /\ At(q, field) + W <= 8 * n
  BY <1>1, <1>4, Room DEF Processed
<1>8. PICK a \in Nat : a = At(q, field) /\ At(q, field + 1) = a + W
  BY <1>3, <1>4, <1>6, Inside
<1>9. /\ bs' \in Streams(n) /\ Pos(bs') = a + W
      /\ \A b \in 0..(n - 1), j \in Byte :
             b < Start(bs') => (j \in bs'.data[b] <=> (b < Start(bs) /\ j \in bs.data[b]) \/ 8 * b + j - a \in v)
  <2>1. v \in SUBSET (0..(W - 1)) /\ bs \in Streams(n)
    BY <1>3, <1>4, <1>5 DEF Field
  <2> DEFINE r == bs_write(bs, v, W)
  <2>2. /\ r \in Streams(n) /\ Pos(r) = Pos(bs) + W
        /\ \A b \in 0..(n - 1), j \in Byte :
              b < Start(r) => (j \in r.data[b] <=> (b < Start(bs) /\ j \in bs.data[b]) \/ 8 * b + j - Pos(bs) \in v)
    BY <1>4, <1>6, <2>1, WriteBits
  <2>3. bs' = r /\ Pos(bs) = a
    BY <1>2, <1>4, <1>7, <1>8
  <2> HIDE DEF r
  <2> QED
    BY <2>2, <2>3
<1>10. wrote' \in Seq(Field) /\ Len(wrote') = Len(wrote) + 1 /\ Len(wrote) \in Nat
  <2>1. wrote \in Seq(Field) /\ v \in Field /\ wrote' = Append(wrote, v)
    BY <1>2, <1>3, <1>5
  <2> QED
    BY ONLY <2>1, AppendProperties, LenProperties
<1>11. Typed'
  <2>1. field' \in 0..(shape'.fields + 1)
    BY <1>1, <1>4, <1>6
  <2>2. bs' \in Streams(buf_len')
    BY <1>1, <1>4, <1>9, Frozen
  <2>3. wrote' \in Seq(Field') /\ got' \in Seq(Field')
    BY <1>1, <1>3, <1>10, Frozen
  <2> QED
    BY <1>1, <1>3, <2>1, <2>2, <2>3 DEF Typed, Streams
<1>12. Place'
  <2>1. Len(wrote') = q * F + field'
    <3>1. q \in Nat
      BY <1>3, Sizes
    <3>2. PICK u \in Nat : u = q * F
      BY <3>1, Products
    <3> QED
      BY <1>1, <1>6, <1>7, <1>10, <3>2
  <2>2. Pos(bs') = At(q, field + 1)
    BY <1>8, <1>9
  <2>3. At(q, field)' = At(q, field + 1)
    BY <1>1 DEF At, Block
  <2>4. field' <= F
    BY <1>1, <1>6
  <2> QED
    BY <1>1, <1>4, <2>1, <2>2, <2>3, <2>4 DEF Place, Processed, Pos
<1>13. Phase'
  BY <1>1, <1>4, <1>6 DEF StreamInv, Phase
<1>14. Packed'
  <2>1. PICK m \in Nat : m = Start(bs') /\ m <= n
    BY <1>7, <1>8, <1>9, Starts
  <2>2. PICK k \in Nat : k = Start(bs) /\ a <= 8 * k
    BY <1>3, <1>4, <1>7, <1>8, Starts
  <2>3. \A b \in 0..(k - 1), j \in Byte : j \in bs.data[b] <=> BitIn(wrote, 8 * b + j)
    BY <1>1, <2>2, Unpacked DEF StreamInv, Upto
  <2>4. ASSUME NEW b \in 0..(m - 1), NEW j \in Byte
        PROVE  j \in bs'.data[b] <=> BitIn(wrote', 8 * b + j)
    <3>1. PICK o \in Nat : o = 8 * b + j
      BY DEF Byte
    <3>2. BitIn(wrote', o) <=> BitIn(wrote, o) \/ o - a \in v
      <4>1. Len(wrote) + 1 = Nth(q, field) /\ At(q, field) = a /\ field \in 0..(shape.fields - 1)
        BY <1>4, <1>6, <1>7, <1>8
      <4> QED
        BY <1>2, <1>3, <1>5, <4>1, BitAppend
    <3>3. BitIn(wrote, o) => o < a
      <4>1. Len(wrote) + 1 = Nth(q, field) /\ At(q, field) = a /\ field \in 0..(shape.fields - 1)
        BY <1>4, <1>6, <1>7, <1>8
      <4> QED
        BY <1>3, <1>5, <4>1, BitAppend
    <3>4. j \in bs'.data[b] <=> (b < k /\ j \in bs.data[b]) \/ o - a \in v
      <4>1. b \in 0..(n - 1) /\ b < Start(bs')
        BY <2>1
      <4>2. 8 * b + j - a = o - a
        BY <3>1 DEF Byte
      <4> QED
        BY <1>9, <2>2, <4>1, <4>2
    <3>5. CASE b < k
      <4>1. j \in bs.data[b] <=> BitIn(wrote, o)
        BY <2>3, <3>1, <3>5
      <4> QED
        BY <3>1, <3>2, <3>4, <3>5, <4>1
    <3>6. CASE ~(b < k)
      <4>1. ~(o < a)
        BY <2>2, <3>1, <3>6 DEF Byte
      <4> QED
        BY <3>1, <3>2, <3>3, <3>4, <3>6, <4>1
    <3> QED
      BY <3>5, <3>6
  <2>5. \A b \in 0..(m - 1) : bs'.data[b] \in SUBSET Byte
    BY <1>9, <2>1 DEF Streams
  <2>6. Upto' = m
    BY <1>1, <2>1 DEF Upto, Start
  <2> QED
    BY <1>1, <2>4, <2>5, <2>6, Repacked
<1>15. Same'
  <2>1. got' = <<>>
    BY <1>1 DEF StreamInv, Phase
  <2> QED
    BY <1>10, <2>1 DEF Same
<1> QED
  BY <1>11, <1>12, <1>13, <1>14, <1>15 DEF StreamInv

LEMMA ReadStep == StreamInv /\ Read => StreamInv'
<1> SUFFICES ASSUME StreamInv, Read PROVE StreamInv'
  OBVIOUS
<1> DEFINE ret == bs_read(bs, shape.bits).ret
<1>1. /\ shape' = shape /\ pc = "read" /\ pc' = "read" /\ wrote' = wrote /\ field' = field + 1
      /\ field < shape.fields /\ (refused' = (refused \/ Exceeds(bs, shape.bits)))
      /\ bs' = bs_read(bs, shape.bits).bs /\ got' = Append(got, ret)
  BY DEF Read
<1>2. /\ shape \in Shapes /\ field \in 0..(shape.fields + 1) /\ bs \in Streams(buf_len)
      /\ wrote \in Seq(Field) /\ got \in Seq(Field)
  BY DEF StreamInv, Typed
<1>3. PICK W \in Nat, F \in Nat, n \in Nat : W = shape.bits /\ F = shape.fields /\ n = buf_len /\ W >= 8
  BY <1>2, Sizes
<1>4. ~Exceeds(bs, W) /\ field \in 0..(F - 1)
  BY <1>1, <1>3, Room
<1>5. PICK q \in 0..(shape.blocks - 1) :
          /\ Len(got) = q * F + field /\ Len(got) + 1 = Nth(q, field)
          /\ Pos(bs) = At(q, field) /\ At(q, field) + W <= 8 * n
  BY <1>1, <1>3, Room DEF Processed
<1>6. PICK a \in Nat : a = At(q, field) /\ At(q, field + 1) = a + W
  BY <1>2, <1>3, <1>4, Inside
<1>7. /\ bs' \in Streams(n) /\ bs'.data = bs.data /\ Pos(bs') = a + W
      /\ ret \in SUBSET (0..(W - 1))
      /\ \A c \in 0..(W - 1), b \in 0..(n - 1), j \in Byte :
             8 * b + j = a + c => (c \in ret <=> j \in bs.data[b])
  <2> DEFINE r == bs_read(bs, W)
  <2>1. bs \in Streams(n)
    BY <1>2, <1>3
  <2>2. /\ r.bs \in Streams(n) /\ r.bs.data = bs.data /\ Pos(r.bs) = Pos(bs) + W
        /\ r.ret \in SUBSET (0..(W - 1))
        /\ \A c \in 0..(W - 1), b \in 0..(n - 1), j \in Byte :
               8 * b + j = Pos(bs) + c => (c \in r.ret <=> j \in bs.data[b])
    BY <1>3, <1>4, <2>1, ReadBits
  <2>3. bs' = r.bs /\ ret = r.ret /\ Pos(bs) = a
    BY <1>1, <1>3, <1>5, <1>6
  <2> HIDE DEF r, ret
  <2> QED
    BY <2>2, <2>3
<1> HIDE DEF ret
<1>8. ret \in Field
  BY <1>3, <1>7 DEF Field
<1>9. /\ got' \in Seq(Field) /\ Len(got') = Len(got) + 1 /\ Len(got) \in Nat
      /\ got'[Len(got) + 1] = ret /\ \A k \in 1..Len(got) : got'[k] = got[k]
  <2>1. got \in Seq(Field) /\ ret \in Field /\ got' = Append(got, ret)
    BY <1>1, <1>2, <1>8
  <2> QED
    BY ONLY <2>1, AppendProperties, LenProperties
<1>10. Typed'
  <2>1. field' \in 0..(shape'.fields + 1)
    BY <1>1, <1>3, <1>4
  <2>2. bs' \in Streams(buf_len')
    BY <1>1, <1>3, <1>7, Frozen
  <2>3. wrote' \in Seq(Field') /\ got' \in Seq(Field')
    BY <1>1, <1>2, <1>9, Frozen
  <2> QED
    BY <1>1, <1>2, <2>1, <2>2, <2>3 DEF Typed, Streams
<1>11. Place'
  <2>1. Len(got') = q * F + field'
    <3>1. q \in Nat
      BY <1>2, Sizes
    <3>2. PICK u \in Nat : u = q * F
      BY <3>1, Products
    <3> QED
      BY <1>1, <1>4, <1>5, <1>9, <3>2
  <2>2. Pos(bs') = At(q, field + 1)
    BY <1>6, <1>7
  <2>3. At(q, field)' = At(q, field + 1)
    BY <1>1 DEF At, Block
  <2>4. field' <= F
    BY <1>1, <1>4
  <2> QED
    BY <1>1, <1>3, <2>1, <2>2, <2>3, <2>4 DEF Place, Processed, Pos
<1>12. Phase'
  <2>1. All' = All
    BY <1>1, Frozen
  <2> QED
    BY <1>1, <1>3, <1>4, <2>1 DEF StreamInv, Phase
<1>13. \A b \in 0..(n - 1), j \in Byte : j \in bs.data[b] <=> BitIn(wrote, 8 * b + j)
  BY <1>1, <1>3, Unpacked DEF StreamInv, Upto
<1>14. Packed'
  <2>1. Upto' = n
    BY <1>1, <1>3, Frozen DEF Upto
  <2>2. \A b \in 0..(n - 1) : bs'.data[b] \in SUBSET Byte
    BY <1>7 DEF Streams
  <2>3. \A b \in 0..(n - 1), j \in Byte : j \in bs'.data[b] <=> BitIn(wrote', 8 * b + j)
    BY <1>1, <1>7, <1>13
  <2> QED
    BY <1>1, <2>1, <2>2, <2>3, Repacked
<1>15. Len(got) + 1 <= Len(wrote) /\ ret = wrote[Len(got) + 1]
  <2>1. Nth(q, field) \in 1..Len(wrote)
    <3>1. Nth(q, field) \in 1..All
      BY <1>2, <1>3, <1>4, Order
    <3>2. Len(wrote) = All
      BY <1>1 DEF StreamInv, Phase
    <3> QED
      BY <3>1, <3>2
  <2>2. Nth(q, field) <= Len(wrote) /\ wrote[Nth(q, field)] \in SUBSET (0..(W - 1))
    <3>1. wrote[Nth(q, field)] \in Field
      BY <1>2, <2>1
    <3>2. Nth(q, field) <= Len(wrote)
      BY <2>1
    <3> QED
      BY <1>3, <3>1, <3>2 DEF Field
  <2>3. ASSUME NEW c \in 0..(W - 1) PROVE c \in ret <=> c \in wrote[Nth(q, field)]
    <3>1. PICK o \in Nat : o = a + c /\ o < 8 * n
      BY <1>5, <1>6
    <3>2. PICK b \in 0..(n - 1), j \in 0..7 : o = 8 * b + j
      <4>1. \A y \in Nat : y \div 8 \in Nat /\ 8 * (y \div 8) <= y /\ y < 8 * (y \div 8) + 8
        OBVIOUS
      <4>2. PICK b \in Nat, j \in 0..7 : o = 8 * b + j
        <5>1. PICK b \in Nat : 8 * b <= o /\ o < 8 * b + 8
          BY <4>1
        <5>2. o - 8 * b \in 0..7 /\ o = 8 * b + (o - 8 * b)
          BY <5>1
        <5> QED
          BY <5>2
      <4>3. b \in 0..(n - 1)
        BY <3>1, <4>2
      <4> QED
        BY <4>2, <4>3
    <3>3. c \in ret <=> j \in bs.data[b]
      BY <1>7, <3>1, <3>2 DEF Byte
    <3>4. j \in bs.data[b] <=> BitIn(wrote, o)
      BY <1>13, <3>2 DEF Byte
    <3>5. BitIn(wrote, o) <=> c \in wrote[Nth(q, field)]
      <4>1. c \in 0..(shape.bits - 1) /\ field \in 0..(shape.fields - 1) /\ o = At(q, field) + c
        BY <1>3, <1>4, <1>6, <3>1
      <4> QED
        BY <1>2, <2>2, <4>1, BitAt
    <3> QED
      BY <3>3, <3>4, <3>5
  <2>4. ret = wrote[Nth(q, field)]
    BY <1>7, <2>2, <2>3
  <2> QED
    BY <1>5, <2>2, <2>4
<1>16. Same'
  <2>1. Len(got') <= Len(wrote')
    BY <1>1, <1>9, <1>15
  <2>2. ASSUME NEW k \in 1..Len(got') PROVE got'[k] = wrote'[k]
    <3>1. k \in 1..Len(got) \/ k = Len(got) + 1
      BY <1>9
    <3> QED
      BY <1>1, <1>9, <1>15, <3>1 DEF StreamInv, Same
  <2> QED
    BY <2>1, <2>2 DEF Same
<1> QED
  BY <1>10, <1>11, <1>12, <1>14, <1>16 DEF StreamInv

\* The last field of a block ends in its last byte.
LEMMA EndBlockStep == StreamInv /\ EndBlock => StreamInv'
<1> SUFFICES ASSUME StreamInv, EndBlock PROVE StreamInv'
  OBVIOUS
<1>1. /\ shape' = shape /\ pc' = pc /\ wrote' = wrote /\ got' = got /\ refused' = refused
      /\ field = shape.fields /\ bs' = bs_finalize(bs)
      /\ field' = IF Len(Processed) < All THEN 0 ELSE field + 1
  BY DEF EndBlock
<1>2. /\ shape \in Shapes /\ pc \in {"write", "read"} /\ bs \in Streams(buf_len)
      /\ wrote \in Seq(Field) /\ got \in Seq(Field)
  BY DEF StreamInv, Typed
<1>3. PICK W \in Nat, F \in Nat, Q \in Nat :
          W = shape.bits /\ F = shape.fields /\ Q = shape.blocks /\ F >= 1 /\ Q >= 1
  <2>1. shape.bits \in Nat /\ shape.fields \in Nat \ {0} /\ shape.blocks \in Nat \ {0}
    BY <1>2, Sizes
  <2> QED
    BY <2>1
<1>4. PICK B \in Nat, n \in Nat :
          /\ W = shape.bits /\ F = shape.fields /\ Q = shape.blocks /\ B = Block /\ n = buf_len
          /\ F >= 1 /\ Q >= 1
  BY <1>2, <1>3, Sizes
<1>5. PICK x \in Nat : x = F * W /\ x <= 8 * B /\ 8 * B < x + 8
  <2>1. F * W \in Nat
    BY Products
  <2> QED
    BY <1>2, <1>4, <2>1, Sizes
<1>6. x <= 8 * B /\ 8 * B < x + 8
  BY <1>5
<1>7. PICK q \in 0..(Q - 1) : Len(Processed) = q * F + F /\ Pos(bs) = At(q, F)
  BY <1>1, <1>4 DEF StreamInv, Place
<1>8. PICK u \in Nat, e \in Nat : u = q * F /\ e = q * B
  BY Products
<1>9. Pos(bs) = 8 * e + x
  <2>1. At(q, F) = e * 8 + x
    BY <1>4, <1>8, <1>5 DEF At
  <2> QED
    BY <1>7, <2>1
<1>10. Start(bs) = e + B /\ Start(bs) \in Nat
  <2>1. PICK k \in Nat : k = Start(bs) /\ Pos(bs) <= 8 * k /\ 8 * k < Pos(bs) + 8
    BY <1>2, <1>4, Starts
  <2>2. 8 * e + x <= 8 * k /\ 8 * k < 8 * e + x + 8
    BY <1>9, <2>1
  <2>3. k = e + B
    BY <1>6, <2>2
  <2> QED
    BY <2>1, <2>3
<1>11. /\ bs' \in Streams(n) /\ bs'.data = bs.data /\ bs'.byte_pos = e + B /\ bs'.bit_pos = 0
  <2>1. 0 \in Byte /\ e + B \in Nat
    BY DEF Byte
  <2>2. bs.byte_pos + (IF bs.bit_pos > 0 THEN 1 ELSE 0) = e + B
    BY <1>10 DEF Start
  <2>3. bs' = [bs EXCEPT !.byte_pos = e + B, !.bit_pos = 0]
    BY <1>1, <2>2 DEF bs_finalize
  <2>4. bs \in [data : [0..(n - 1) -> SUBSET Byte], byte_pos : Nat, bit_pos : Byte]
    BY <1>2, <1>4 DEF Streams
  <2> QED
    BY <2>1, <2>3, <2>4, Repositioned DEF Streams
<1>12. Start(bs') = e + B /\ Pos(bs') = 8 * (e + B)
  BY <1>11 DEF Start, Pos
<1>13. PICK len \in Nat : len = Len(Processed) /\ len = u + F /\ len = (q + 1) * F /\ Len(Processed)' = len
  <2>1. (q + 1) * F = u + F
    BY <1>8, Products
  <2>2. Len(Processed)' = Len(Processed)
    BY <1>1 DEF Processed
  <2> QED
    BY <1>7, <1>8, <2>1, <2>2
<1>14. All = Q * F /\ All' = All
  BY <1>1, <1>4, Frozen DEF All
<1>15. Place'
  <2>1. CASE len < All
    <3>1. q + 1 < Q
      <4>1. q + 1 >= Q => (q + 1) * F >= Q * F
        BY <1>4, Products
      <4>2. q + 1 = Q => (q + 1) * F = Q * F
        OBVIOUS
      <4> QED
        BY <1>13, <1>14, <2>1, <4>2
    <3>2. field' = 0
      BY <1>1, <1>13, <2>1
    <3>3. (q + 1) * B = e + B /\ 0 * W = 0
      BY <1>8, Products
    <3>4. At(q + 1, 0)' = At(q + 1, 0) /\ At(q + 1, 0) = 8 * (e + B)
      <4>1. At(q + 1, 0) = (q + 1) * B * 8 + 0 * W
        BY <1>4 DEF At
      <4> QED
        BY <1>1, <3>3, <4>1, Frozen
    <3>5. Len(Processed)' = (q + 1) * F + 0
      BY <1>13
    <3>6. At(q + 1, field)' = Pos(bs')
      <4>1. At(q + 1, field)' = (q + 1) * B * 8 + 0 * W
        BY <1>1, <1>4, <3>2, Frozen DEF At
      <4> QED
        BY <1>12, <3>3, <4>1
    <3>7. q + 1 \in 0..(shape'.blocks - 1) /\ field' <= shape'.fields
      BY <1>1, <1>4, <3>1, <3>2
    <3> QED
      BY <1>1, <1>4, <3>2, <3>5, <3>6, <3>7 DEF Place, Pos
  <2>2. CASE ~(len < All)
    <3>1. q + 1 = Q
      <4>1. PICK k \in Nat : k = q + 1
        OBVIOUS
      <4>2. PICK y \in Nat, z \in Nat : y = k * F /\ z = Q * F /\ (k + 1) * F = y + F
        BY Products
      <4>3. k < Q => y + F <= z
        <5>1. k + 1 \in Nat /\ (k < Q => k + 1 <= Q)
          OBVIOUS
        <5>2. k + 1 <= Q => (k + 1) * F <= Q * F
          BY <5>1, Products
        <5> QED
          BY <4>2, <5>1, <5>2
      <4>4. ~(y < z)
        BY <1>13, <1>14, <2>2, <4>1, <4>2
      <4> QED
        BY <1>4, <4>1, <4>3, <4>4
    <3>2. len = All /\ e + B = n
      <4>1. (q + 1) * B = e + B
        BY <1>8, Products
      <4>2. n = Q * B
        BY <1>4 DEF buf_len
      <4> QED
        BY <1>13, <1>14, <3>1, <4>1, <4>2
    <3>3. field' = shape'.fields + 1
      BY <1>1, <1>13, <2>2
    <3>4. Len(Processed)' = All' /\ bs'.byte_pos = buf_len' /\ bs'.bit_pos = 0
      BY <1>1, <1>4, <1>11, <1>13, <1>14, <3>2, Frozen
    <3> QED
      BY <3>3, <3>4 DEF Place
  <2> QED
    BY <2>1, <2>2
<1>16. Typed'
  <2>1. field' \in 0..(shape'.fields + 1)
    BY <1>1, <1>4
  <2>2. bs' \in Streams(buf_len')
    BY <1>1, <1>4, <1>11, Frozen
  <2>3. wrote' \in Seq(Field') /\ got' \in Seq(Field')
    BY <1>1, <1>2, Frozen
  <2> QED
    BY <1>1, <1>2, <2>1, <2>2, <2>3 DEF Typed, Streams
<1>17. Phase'
  BY <1>1, <1>14 DEF StreamInv, Phase
<1>18. Packed'
  <2>1. Upto' = Upto /\ Upto \in Nat
    <3>1. Start(bs)' = Start(bs)
      BY <1>10, <1>12 DEF Start
    <3> QED
      BY <1>1, <1>4, <1>10, <3>1, Frozen DEF Upto
  <2>2. Upto <= n
    <3>1. (q + 1) * B <= Q * B
      BY Products
    <3>2. (q + 1) * B = e + B
      BY <1>8, Products
    <3>3. n = Q * B
      BY <1>4 DEF buf_len
    <3> QED
      BY <1>4, <1>10, <3>1, <3>2, <3>3 DEF Upto
  <2>3. PICK m \in Nat : m = Upto /\ m = Upto' /\ m <= n
    BY <2>1, <2>2
  <2>4. \A b \in 0..(m - 1) : bs'.data[b] \in SUBSET Byte
    <3>1. \A b \in 0..(n - 1) : bs'.data[b] \in SUBSET Byte
      BY <1>11 DEF Streams
    <3> TAKE b \in 0..(m - 1)
    <3>2. b \in 0..(n - 1)
      <4>1. m <= n
        BY <2>3
      <4> QED
        BY <4>1
    <3> QED
      BY <3>1, <3>2
  <2>5. \A b \in 0..(m - 1), j \in Byte : j \in bs'.data[b] <=> BitIn(wrote', 8 * b + j)
    <3>1. \A b \in 0..(m - 1), j \in Byte : j \in bs.data[b] <=> BitIn(wrote, 8 * b + j)
      BY <2>3, Unpacked DEF StreamInv
    <3> QED
      BY <1>1, <1>11, <3>1
  <2> QED
    BY <1>1, <2>3, <2>4, <2>5, Repacked
<1>19. Same'
  BY <1>1 DEF StreamInv, Same
<1> QED
  BY <1>15, <1>16, <1>17, <1>18, <1>19 DEF StreamInv

LEMMA ReopenStep == StreamInv /\ Reopen => StreamInv'
<1> SUFFICES ASSUME StreamInv, Reopen PROVE StreamInv'
  OBVIOUS
<1>1. /\ shape' = shape /\ pc = "write" /\ pc' = "read" /\ wrote' = wrote /\ got' = got /\ refused' = refused
      /\ field = shape.fields + 1 /\ field' = 0 /\ bs' = bs_init(bs.data)
  BY DEF Reopen
<1>2. /\ shape \in Shapes /\ bs \in Streams(buf_len) /\ wrote \in Seq(Field) /\ got \in Seq(Field)
  BY DEF StreamInv, Typed
<1>3. PICK F \in Nat, Q \in Nat : F = shape.fields /\ Q = shape.blocks /\ F >= 1 /\ Q >= 1
  <2>1. shape.fields \in Nat \ {0} /\ shape.blocks \in Nat \ {0}
    BY <1>2, Sizes
  <2> QED
    BY <2>1
<1>4. PICK B \in Nat, n \in Nat : B = Block /\ n = buf_len
  BY <1>2, Sizes
<1>5. Len(wrote) = All /\ bs.byte_pos = n /\ bs.bit_pos = 0
  BY <1>1, <1>3, <1>4 DEF StreamInv, Place, Processed
<1>6. got = <<>> /\ got' = <<>>
  BY <1>1 DEF StreamInv, Phase
<1>7. bs' = [data |-> bs.data, byte_pos |-> 0, bit_pos |-> 0]
  BY <1>1 DEF bs_init
<1>8. bs'.data = bs.data /\ bs'.byte_pos = 0 /\ bs'.bit_pos = 0 /\ bs' \in Streams(n)
  <2>1. bs.data \in [0..(n - 1) -> SUBSET Byte]
    BY <1>2, <1>4 DEF Streams
  <2> QED
    BY <1>7, <2>1 DEF Streams, Byte
<1>9. Typed'
  <2>1. field' \in 0..(shape'.fields + 1)
    BY <1>1, <1>3
  <2>2. bs' \in Streams(buf_len')
    BY <1>1, <1>4, <1>8, Frozen
  <2>3. wrote' \in Seq(Field') /\ got' \in Seq(Field')
    BY <1>1, <1>2, Frozen
  <2> QED
    BY <1>1, <1>2, <2>1, <2>2, <2>3 DEF Typed, Streams
<1>10. Place'
  <2>1. Pos(bs') = 0 /\ Len(got') = 0
    BY <1>6, <1>8 DEF Pos
  <2>2. 0 * B = 0 /\ 0 * shape.bits = 0 /\ 0 * F = 0
    BY <1>2, Sizes
  <2>3. At(0, field)' = 0
    BY <1>1, <1>4, <2>2, Frozen DEF At
  <2>4. 0 \in 0..(shape'.blocks - 1) /\ field' <= shape'.fields
    BY <1>1, <1>3
  <2>5. Len(got') = 0 * shape'.fields + field'
    BY <1>1, <1>3, <2>1, <2>2
  <2> QED
    BY <1>1, <2>1, <2>3, <2>4, <2>5 DEF Place, Processed, Pos
<1>11. Phase'
  <2>1. All' = All
    BY <1>1, Frozen
  <2> QED
    BY <1>1, <1>5, <1>6, <2>1 DEF StreamInv, Phase
<1>12. Packed'
  <2>1. Upto' = n
    BY <1>1, <1>4, Frozen DEF Upto
  <2>2. Upto = n
    BY <1>1, <1>5 DEF Upto, Start
  <2>3. \A b \in 0..(n - 1) : bs'.data[b] \in SUBSET Byte
    BY <1>8 DEF Streams
  <2>4. \A b \in 0..(n - 1), j \in Byte : j \in bs'.data[b] <=> BitIn(wrote', 8 * b + j)
    BY <1>1, <1>8, <2>2, Unpacked DEF StreamInv
  <2> QED
    BY <1>1, <2>1, <2>3, <2>4, Repacked
<1>13. Same'
  BY <1>1, <1>2, <1>6 DEF Same
<1> QED
  BY <1>9, <1>10, <1>11, <1>12, <1>13 DEF StreamInv

LEMMA Stays == StreamInv /\ UNCHANGED vars => StreamInv'
<1> SUFFICES ASSUME StreamInv, UNCHANGED vars PROVE StreamInv'
  OBVIOUS
<1>1. /\ shape' = shape /\ pc' = pc /\ bs' = bs /\ field' = field /\ refused' = refused
      /\ wrote' = wrote /\ got' = got
  BY DEF vars
<1>2. Typed' /\ Place' /\ Phase' /\ Same'
  BY <1>1, Frozen DEF StreamInv, Typed, Place, Phase, Same, Processed, Streams, Pos
<1>3. Packed'
  <2>1. /\ buf_len' = buf_len
        /\ \A b : Encoded(b)' = Encoded(b)
    BY <1>1, Frozen DEF Encoded, BitOf, BitIn
  <2> QED
    BY <1>1, <2>1 DEF StreamInv, Packed, Start
<1> QED
  BY <1>2, <1>3 DEF StreamInv

\* StreamInv is inductive.
LEMMA StreamStep == StreamInv /\ [Next]_vars => StreamInv'
<1> SUFFICES ASSUME StreamInv, [Next]_vars PROVE StreamInv'
  OBVIOUS
<1>1. CASE Write
  BY <1>1, WriteStep
<1>2. CASE Read
  BY <1>2, ReadStep
<1>3. CASE EndBlock
  BY <1>3, EndBlockStep
<1>4. CASE Reopen
  BY <1>4, ReopenStep
<1>5. CASE Done \/ UNCHANGED vars
  BY <1>5, Stays DEF Done
<1> QED
  BY <1>1, <1>2, <1>3, <1>4, <1>5 DEF Next

LEMMA StreamInvariant == Spec => []StreamInv
BY StreamInit, StreamStep, PTL DEF Spec

-----------------------------------------------------------------------------
\* The position never leaves the buffer.
LEMMA PosInBuffer == ASSUME StreamInv PROVE bs.byte_pos \in 0..buf_len
<1>1. shape \in Shapes /\ bs \in Streams(buf_len) /\ field \in 0..(shape.fields + 1)
  BY DEF StreamInv, Typed
<1>2. PICK F \in Nat, W \in Nat : F = shape.fields /\ W = shape.bits /\ F >= 1
  BY <1>1, Sizes
<1>3. PICK n \in Nat : n = buf_len
  BY <1>1, Sizes
<1>4. PICK p \in Nat, t \in 0..7 : p = bs.byte_pos /\ t = bs.bit_pos
  BY <1>1 DEF Streams, Byte
<1>5. CASE field = F + 1
  BY <1>2, <1>3, <1>5 DEF StreamInv, Place
<1>6. CASE field <= F
  <2>1. PICK q \in 0..(shape.blocks - 1) : Pos(bs) = At(q, field)
    BY <1>2, <1>6 DEF StreamInv, Place
  <2>2. At(q, field) <= 8 * n
    <3>1. PICK f \in 0..(F - 1) : field = f \/ field = f + 1
      <4>1. field = 0 \/ field - 1 \in 0..(F - 1)
        BY <1>1, <1>2, <1>6
      <4>2. 0 \in 0..(F - 1) /\ field \in Int
        BY <1>1, <1>2
      <4> QED
        BY <4>1, <4>2
    <3>2. PICK a \in Nat, e \in Nat : a = At(q, f) /\ At(q, f + 1) = a + W /\ a + W <= e * 8 /\ e <= n
      BY <1>1, <1>2, <1>3, Inside
    <3> QED
      BY <3>1, <3>2
  <2>3. p * 8 + t <= 8 * n
    BY <1>4, <2>1, <2>2 DEF Pos
  <2> QED
    BY <1>3, <1>4, <2>3
<1> QED
  BY <1>1, <1>2, <1>5, <1>6

\* Type correctness of ref/bitstream.c: the position stays in the buffer, and
\* the bytes that bs_write stores without a mask are bytes.
THEOREM StreamTypeCorrect == Spec => []TypeOK
<1>1. StreamInv => TypeOK
  BY PosInBuffer DEF StreamInv, Typed, Streams, Field, TypeOK
<1> QED
  BY <1>1, StreamInvariant, PTL

\* The buffers that crypto_sign_keypair, crypto_sign and crypto_sign_open lay
\* out, of CEILING(fields * bits, 8) bytes for every block, are never too
\* short: bs_write and bs_read never return the -1 that nobody looks at, and
\* the last block ends with the buffer.
THEOREM StreamFits == Spec => []Fits
<1>1. StreamInv => Fits
  <2> SUFFICES ASSUME StreamInv PROVE Fits
    OBVIOUS
  <2>1. ~refused
    BY DEF StreamInv, Phase
  <2>2. field = shape.fields + 1 => bs.byte_pos = buf_len /\ bs.bit_pos = 0
    <3>1. PICK F \in Nat : F = shape.fields
      BY Sizes DEF StreamInv, Typed
    <3> QED
      BY <3>1 DEF StreamInv, Place
  <2> QED
    BY <2>1, <2>2 DEF Fits
<1> QED
  BY <1>1, StreamInvariant, PTL

\* What bs_write and bs_finalize leave in the buffer is the encoding of the
\* fields and nothing else, whatever the buffer held: the digests of signer and
\* opener are over the same bytes.
THEOREM StreamPacked == Spec => []Packed
<1>1. StreamInv => Packed
  BY DEF StreamInv
<1> QED
  BY <1>1, StreamInvariant, PTL

\* bs_read returns what bs_write was given, field by field, across bytes and
\* blocks.
THEOREM StreamRoundTrip == Spec => []RoundTrip
<1>1. StreamInv => RoundTrip
  <2> SUFFICES ASSUME StreamInv PROVE RoundTrip
    OBVIOUS
  <2>1. got \in Seq(Field) /\ wrote \in Seq(Field)
    BY DEF StreamInv, Typed
  <2>2. PICK n \in Nat, m \in Nat : n = Len(got) /\ m = Len(wrote) /\ n <= m
    BY <2>1, LenProperties DEF StreamInv, Same
  <2>3. \A k \in 1..n : got[k] = wrote[k] /\ wrote[k] \in Field
    BY <2>1, <2>2 DEF StreamInv, Same
  <2> DEFINE u == SubSeq(wrote, 1, n)
  <2>4. u \in Seq(Field) /\ Len(u) = n /\ \A k \in 1..n : u[k] = wrote[k]
    <3>1. n \in Int /\ 1 \in Int /\ \A k \in 1..n : wrote[k] \in Field
      BY <2>3
    <3>2. /\ u \in Seq(Field) /\ Len(u) = IF 1 <= n THEN n - 1 + 1 ELSE 0
          /\ \A k \in 1..(n - 1 + 1) : u[k] = wrote[1 + k - 1]
      BY ONLY <3>1, SubSeqProperties
    <3> HIDE DEF u
    <3> QED
      BY <3>2
  <2> HIDE DEF u
  <2>5. got = u
    <3>1. got \in Seq(Field) /\ u \in Seq(Field) /\ Len(got) = Len(u) /\ \A k \in 1..Len(got) : got[k] = u[k]
      BY <2>1, <2>2, <2>3, <2>4
    <3> QED
      BY ONLY <3>1, SeqEqual
  <2> QED
    BY <2>2, <2>5 DEF u, RoundTrip
<1> QED
  BY <1>1, StreamInvariant, PTL
=============================================================================
