-------------------------- MODULE KatDriverProofs --------------------------
(***************************************************************************)
(* The main loops of the test programs keep in step, in both versions and  *)
(* for every number of test vectors, and the .rsp file gets the records of *)
(* the reference.                                                          *)
(***************************************************************************)
EXTENDS KatDriver, SequenceTheorems, TLAPS

-----------------------------------------------------------------------------
\* What comes about when the queues of SerialLink are written to, and what the
\* two sides get when they read them.

LEMMA TwoItems ==
    ASSUME NEW x, NEW y
    PROVE  <<x>> \o <<y>> = <<x, y>>
<1> DEFINE Both == {x, y}
           s == <<x>>
           t == <<y>>
           u == <<x, y>>
<1>1. /\ s \in Seq(Both) /\ Len(s) = 1 /\ s[1] = x
      /\ t \in Seq(Both) /\ Len(t) = 1 /\ t[1] = y
      /\ u \in Seq(Both) /\ Len(u) = 2 /\ u[1] = x /\ u[2] = y
  OBVIOUS
<1> HIDE DEF s, t, u, Both
<1>2. s \o t \in Seq(Both) /\ Len(s \o t) = 2
  BY <1>1, ConcatProperties
<1>3. (s \o t)[1] = x /\ (s \o t)[2] = y
  <2>1. \A p \in 1..(Len(s) + Len(t)) :
            (s \o t)[p] = IF p <= Len(s) THEN s[p] ELSE t[p - Len(s)]
    BY <1>1, ConcatProperties
  <2>2. /\ Len(s) + Len(t) = 2 /\ 1 \in 1..2 /\ 2 \in 1..2
        /\ 1 <= Len(s) /\ ~(2 <= Len(s)) /\ 2 - Len(s) = 1
    BY <1>1
  <2>3. (s \o t)[1] = s[1]
    BY <2>1, <2>2
  <2>4. (s \o t)[2] = t[2 - Len(s)]
    BY <2>1, <2>2
  <2>5. QED
    BY <1>1, <2>2, <2>3, <2>4
<1>4. s \o t = u
  BY <1>1, <1>2, <1>3
<1>5. QED
  BY <1>4 DEF s, t, u

LEMMA Sent ==
    /\ \A x : <<>> \o <<x>> = <<x>>
    /\ \A x, y : <<>> \o <<x, y>> = <<x, y>> /\ <<x>> \o <<y>> = <<x, y>>
<1>1. \A x, y : <<x>> \o <<y>> = <<x, y>>
  BY TwoItems
<1>2. /\ \A x : <<>> \o <<x>> = <<x>>
      /\ \A x, y : <<>> \o <<x, y>> = <<x, y>>
  OBVIOUS
<1>3. QED
  BY <1>1, <1>2

LEMMA LineAlone ==
    ASSUME NEW l, l.kind = "line"
    PROVE  /\ CanReadLine(<<l>>)
           /\ LineRead(<<l>>) = l
           /\ AfterReadLine(<<l>>) = <<>>
<1> DEFINE q == <<l>>
<1>1. LineAt(q, 1) /\ 1 \in 1..Len(q)
  BY DEF LineAt
<1>2. \A p \in 1..Len(q) : LineAt(q, p) => p = 1
  OBVIOUS
<1>3. LineEnd(q) = 1
  BY <1>1, <1>2 DEF LineEnd
<1>4. AfterReadLine(q) = <<>>
  BY <1>3 DEF AfterReadLine
<1>5. QED
  BY <1>1, <1>3, <1>4 DEF CanReadLine, LineRead, LineAt

LEMMA Puts ==
    /\ <<>> \o <<Ready>> = <<Ready>> /\ <<>> \o <<Ack>> = <<Ack>> /\ <<>> \o <<Code>> = <<Code>>
    /\ \A ms : <<>> \o <<Line(ms)>> = <<Line(ms)>>
    /\ \A ms : <<>> \o <<Ready, Line(ms)>> = <<Ready, Line(ms)>>
    /\ \A ms : <<>> \o <<Burst(ms)>> = <<Burst(ms)>>
    /\ \A ms : <<>> \o (<<Burst(ms)>> \o <<>>) = <<Burst(ms)>>
    /\ \A ms : <<>> \o (<<Burst(ms)>> \o <<Ack>>) = <<Burst(ms), Ack>>
<1>1. \A x : <<>> \o (<<x>> \o <<>>) = <<x>>
  OBVIOUS
<1>2. QED
  BY <1>1, Sent

LEMMA DevGets ==
    /\ \A k : ~CanRecv(<<>>, k)
    /\ CanRecv(<<Code>>, "code") /\ Tail(<<Code>>) = <<>>
    /\ CanRecv(<<Ack>>, "ack") /\ ~CanRecv(<<Ack>>, "burst") /\ Tail(<<Ack>>) = <<>>
    /\ \A ms : /\ CanRecv(<<Burst(ms)>>, "burst") /\ ~CanRecv(<<Burst(ms)>>, "ack")
               /\ Head(<<Burst(ms)>>).data = ms /\ Tail(<<Burst(ms)>>) = <<>>
    /\ \A ms : /\ CanRecv(<<Burst(ms), Ack>>, "burst") /\ ~CanRecv(<<Burst(ms), Ack>>, "ack")
               /\ Head(<<Burst(ms), Ack>>).data = ms /\ Tail(<<Burst(ms), Ack>>) = <<Ack>>
  BY DEF CanRecv, Code, Ack, Burst

LEMMA HostGets ==
    /\ ~CanReadByte(<<>>) /\ ~CanReadLine(<<>>)
    /\ CanReadByte(<<Ready>>) /\ ~CanReadLine(<<Ready>>) /\ AfterReadByte(<<Ready>>) = <<>>
    /\ \A ms : /\ CanReadByte(<<Ready, Line(ms)>>)
               /\ AfterReadByte(<<Ready, Line(ms)>>) = <<Line(ms)>>
    /\ \A ms : /\ CanReadLine(<<Line(ms)>>) /\ LineRead(<<Line(ms)>>).data = ms
               /\ AfterReadLine(<<Line(ms)>>) = <<>>
<1>1. ~CanReadByte(<<>>) /\ ~CanReadLine(<<>>)
  BY DEF CanReadByte, CanReadLine
<1>2. CanReadByte(<<Ready>>) /\ ~CanReadLine(<<Ready>>) /\ AfterReadByte(<<Ready>>) = <<>>
  BY DEF CanReadByte, CanReadLine, AfterReadByte, Ready
<1>3. ASSUME NEW ms
      PROVE  /\ CanReadByte(<<Ready, Line(ms)>>)
             /\ AfterReadByte(<<Ready, Line(ms)>>) = <<Line(ms)>>
  BY DEF CanReadByte, AfterReadByte, Ready
<1>4. ASSUME NEW ms
      PROVE  /\ CanReadLine(<<Line(ms)>>) /\ LineRead(<<Line(ms)>>).data = ms
             /\ AfterReadLine(<<Line(ms)>>) = <<>>
  <2>1. Line(ms).kind = "line" /\ Line(ms).data = ms
    BY DEF Line
  <2>2. QED
    BY <2>1, LineAlone
<1>5. QED
  BY <1>1, <1>2, <1>3, <1>4

LEMMA Fronts ==
    /\ Head(<<Ack>>).kind = "ack" /\ Head(<<Code>>).kind = "code" /\ Head(<<Ready>>).kind = "ready"
    /\ \A ms : /\ Head(<<Burst(ms)>>).kind = "burst" /\ Head(<<Burst(ms), Ack>>).kind = "burst"
               /\ Head(<<Line(ms)>>).kind = "line" /\ Head(<<Ready, Line(ms)>>).kind = "ready"
  BY DEF Ack, Code, Ready, Burst, Line


-----------------------------------------------------------------------------
\* Positions in what the host sends for one test vector.

LEMMA Positions ==
    \/ /\ Streams /\ MsgCodeAt = 9 /\ MsgAt = 10 /\ PkAt = 14 /\ SkAt = 18 /\ SmlAt = 22
       /\ SigAt = 23 /\ SmAt = 27
    \/ /\ ~Streams /\ MsgCodeAt = 6 /\ MsgAt = 7 /\ PkAt = 11 /\ SkAt = 15 /\ SmlAt = 19
       /\ SigAt = 19 /\ SmAt = 23
  BY DEF MsgCodeAt, MsgAt, PkAt, SkAt, SmlAt, SigAt, SmAt

LEMMA SameVersion ==
    ASSUME version' = version
    PROVE  /\ Streams' = Streams
           /\ MsgCodeAt' = MsgCodeAt /\ MsgAt' = MsgAt /\ PkAt' = PkAt /\ SkAt' = SkAt
           /\ SmlAt' = SmlAt /\ SigAt' = SigAt /\ SmAt' = SmAt
           /\ \A k, p : Item(k, p)' = Item(k, p)
           /\ \A k, p, n : Items(k, p, n)' = Items(k, p, n)
<1>1. Streams' = Streams
  BY DEF Streams
<1>2. /\ MsgCodeAt' = MsgCodeAt /\ MsgAt' = MsgAt /\ PkAt' = PkAt /\ SkAt' = SkAt
      /\ SmlAt' = SmlAt /\ SigAt' = SigAt /\ SmAt' = SmAt
  BY <1>1 DEF MsgCodeAt, MsgAt, PkAt, SkAt, SmlAt, SigAt, SmAt
<1>3. \A k, p : Item(k, p)' = Item(k, p)
  BY <1>1, <1>2 DEF Item, CodeAt
<1>4. \A k, p, n : Items(k, p, n)' = Items(k, p, n)
  BY <1>3 DEF Items
<1>5. QED
  BY <1>1, <1>2, <1>3, <1>4

LEMMA PutAt ==
    /\ hpc = "lines" => Put = 0
    /\ hpc = "msgLine" => Put = 5
    /\ hpc = "msgReady" => Put = MsgCodeAt
    /\ hpc = "pkLine" => Put = MsgAt
    /\ hpc \in {"keygen", "pkDone"} => Put = PkAt
    /\ hpc = "skDone" => Put = SkAt
    /\ hpc = "skReady" => Put = SmlAt
    /\ hpc \in {"sign", "smlDone"} => Put = SigAt
    /\ hpc = "smDone" => Put = SmAt
    /\ hpc \in {"stopDone", "finished"} => Put = 4
  BY DEF Put

LEMMA PutNext ==
    /\ hpc' = "lines" => Put' = 0
    /\ hpc' = "msgLine" => Put' = 5
    /\ hpc' = "msgReady" => Put' = MsgCodeAt'
    /\ hpc' = "pkLine" => Put' = MsgAt'
    /\ hpc' \in {"keygen", "pkDone"} => Put' = PkAt'
    /\ hpc' = "skDone" => Put' = SkAt'
    /\ hpc' = "skReady" => Put' = SmlAt'
    /\ hpc' \in {"sign", "smlDone"} => Put' = SigAt'
    /\ hpc' = "smDone" => Put' = SmAt'
    /\ hpc' \in {"stopDone", "finished"} => Put' = 4
  BY DEF Put

\* The item at each position.
LEMMA ItemAt ==
    ASSUME NEW k \in 0..Counts, NEW p \in Nat
    PROVE  \/ /\ k < Counts /\ p = 5 /\ Item(k, p) = Burst(<<SeedOf(k)>>)
           \/ /\ k < Counts /\ p = MsgAt /\ Item(k, p) = Burst(<<MsgOf(k)>>)
           \/ /\ k < Counts /\ Streams /\ p = SigAt /\ Item(k, p) = Burst(<<KeyFrom(k)>>)
           \/ /\ k < Counts => p \notin {5, MsgAt} /\ ~(Streams /\ p = SigAt)
              /\ Item(k, p) = Byte(IF k = Counts THEN IF p = 4 THEN StopCode ELSE 0
                                   ELSE CodeAt(p))
  BY DriverAssumption DEF Item

LEMMA Payload ==
    ASSUME NEW k \in 0..Counts, k < Counts
    PROVE  /\ Item(k, 5) = Burst(<<SeedOf(k)>>)
           /\ Item(k, MsgAt) = Burst(<<MsgOf(k)>>)
           /\ Streams => Item(k, SigAt) = Burst(<<KeyFrom(k)>>)
<1>1. k # Counts
  BY DriverAssumption
<1>2. QED
  BY <1>1, Positions DEF Item

\* Which commands the bytes are.
LEMMA CodeIs ==
    ASSUME NEW k \in 0..Counts, NEW p \in Nat, NEW c,
           Item(k, p).kind = "byte", Item(k, p).data = c
    PROVE  /\ c = SeedCode => k < Counts /\ p = 4
           /\ c = MsgCode => k < Counts /\ p = MsgCodeAt
           /\ c = PkCode => k < Counts /\ p = PkAt
           /\ c = SkCode => k < Counts /\ p = SkAt
           /\ c = SmlCode => k < Counts /\ p = SmlAt
           /\ c = SmCode => k < Counts /\ p = SmAt
           /\ c = StopCode => k = Counts /\ p = 4
           /\ c \notin Codes /\ k < Counts =>
                 p \notin {4, 5, MsgCodeAt, MsgAt, PkAt, SkAt, SmlAt, SmAt, SigAt}
           /\ c \notin Codes /\ k = Counts => p # 4
<1> DEFINE it == Item(k, p)
<1>1. /\ it = Byte(IF k = Counts THEN IF p = 4 THEN StopCode ELSE 0 ELSE CodeAt(p))
      /\ k < Counts => p \notin {5, MsgAt} /\ ~(Streams /\ p = SigAt)
  BY ItemAt DEF Burst
<1>2. it.data = IF k = Counts THEN IF p = 4 THEN StopCode ELSE 0 ELSE CodeAt(p)
  BY <1>1 DEF Byte
<1> HIDE DEF it
<1>3. ~Streams => SigAt = SmlAt
  BY Positions
<1> QED
  BY <1>1, <1>2, <1>3, DriverAssumption, Positions
     DEF it, CodeAt, Codes, SeedCode, MsgCode, PkCode, SkCode, SmlCode, SmCode, StopCode

-----------------------------------------------------------------------------
\* Sequences of items and of lines.

ItemsOf(k) == {Item(k, r) : r \in Nat}

LEMMA ItemsIs ==
    ASSUME NEW k, NEW p \in Nat, NEW q \in Nat, p <= q
    PROVE  /\ Items(k, p, q) \in Seq(ItemsOf(k))
           /\ Len(Items(k, p, q)) = q - p
           /\ \A r \in 1..(q - p) : Items(k, p, q)[r] = Item(k, p + r)
           /\ p = q => Items(k, p, q) = <<>>
<1> DEFINE T == ItemsOf(k)
           n == q - p
<1>1. \A r \in 1..n : Item(k, p + r) \in T
  BY DEF ItemsOf
<1>2. n \in Nat
  OBVIOUS
<1> HIDE DEF T
<1>3. [r \in 1..n |-> Item(k, p + r)] \in Seq(T) /\ Len([r \in 1..n |-> Item(k, p + r)]) = n
  <2> HIDE DEF n
  <2> QED
    BY <1>1, <1>2
<1>4. Items(k, p, q) \in Seq(T) /\ Len(Items(k, p, q)) = n
  BY <1>3 DEF Items
<1>5. p = q => Items(k, p, q) = <<>>
  BY <1>4, EmptySeq
<1>6. \A r \in 1..n : Items(k, p, q)[r] = Item(k, p + r)
  BY DEF Items
<1>7. QED
  BY <1>4, <1>5, <1>6 DEF T

\* Two sequences of items, end to end.
LEMMA ItemsJoin ==
    ASSUME NEW k, NEW p \in Nat, NEW q \in Nat, NEW n \in Nat, p <= q, q <= n
    PROVE  Items(k, p, q) \o Items(k, q, n) = Items(k, p, n)
<1> DEFINE T == ItemsOf(k)
           s == Items(k, p, q)
           t == Items(k, q, n)
           u == Items(k, p, n)
<1>1. s \in Seq(T) /\ Len(s) = q - p /\ \A r \in 1..(q - p) : s[r] = Item(k, p + r)
  BY ItemsIs
<1>2. t \in Seq(T) /\ Len(t) = n - q /\ \A r \in 1..(n - q) : t[r] = Item(k, q + r)
  BY ItemsIs
<1>3. u \in Seq(T) /\ Len(u) = n - p /\ \A r \in 1..(n - p) : u[r] = Item(k, p + r)
  <2>1. p <= n
    OBVIOUS
  <2>2. QED
    BY <2>1, ItemsIs
<1> HIDE DEF T, s, t, u
<1>4. /\ s \o t \in Seq(T) /\ Len(s \o t) = n - p
      /\ \A r \in 1..(n - p) : (s \o t)[r] = IF r <= q - p THEN s[r] ELSE t[r - (q - p)]
  <2>1. /\ s \o t \in Seq(T) /\ Len(s \o t) = Len(s) + Len(t)
        /\ \A r \in 1..(Len(s) + Len(t)) :
               (s \o t)[r] = IF r <= Len(s) THEN s[r] ELSE t[r - Len(s)]
    BY <1>1, <1>2, ConcatProperties
  <2>2. Len(s) = q - p /\ Len(s) + Len(t) = n - p
    BY <1>1, <1>2
  <2>3. QED
    BY <2>1, <2>2
<1>5. ASSUME NEW r \in 1..(n - p) PROVE (s \o t)[r] = u[r]
  <2>1. CASE r <= q - p
    BY <1>1, <1>3, <1>4, <2>1
  <2>2. CASE ~(r <= q - p)
    <3>1. r - (q - p) \in 1..(n - q) /\ q + (r - (q - p)) = p + r
      BY <2>2
    <3>2. QED
      BY <1>2, <1>3, <1>4, <2>2, <3>1
  <2>3. QED
    BY <2>1, <2>2
<1>6. s \o t = u
  BY <1>3, <1>4, <1>5, SeqEqual
<1>7. QED
  BY <1>6 DEF s, t, u

\* The first of a sequence of items, and the others.
LEMMA ItemsTake ==
    ASSUME NEW k, NEW p \in Nat, NEW q \in Nat, p <= q, Items(k, p, q) # <<>>
    PROVE  /\ p < q
           /\ Head(Items(k, p, q)) = Item(k, p + 1)
           /\ Tail(Items(k, p, q)) = Items(k, p + 1, q)
           /\ Len(Tail(Items(k, p, q))) = q - (p + 1)
<1> DEFINE T == ItemsOf(k)
           s == Items(k, p, q)
           t == Items(k, p + 1, q)
<1>1. p < q
  <2>1. p = q => Items(k, p, q) = <<>>
    BY ItemsIs
  <2>2. QED
    BY <2>1
<1>2. s \in Seq(T) /\ Len(s) = q - p /\ \A r \in 1..(q - p) : s[r] = Item(k, p + r)
  BY ItemsIs
<1>3. /\ t \in Seq(T) /\ Len(t) = q - (p + 1)
      /\ \A r \in 1..(q - (p + 1)) : t[r] = Item(k, p + 1 + r)
  <2>1. p + 1 \in Nat /\ p + 1 <= q
    BY <1>1
  <2>2. QED
    BY <2>1, ItemsIs
<1>4. s # <<>>
  OBVIOUS
<1> HIDE DEF T, s, t
<1>5. /\ Tail(s) \in Seq(T) /\ Len(Tail(s)) = q - (p + 1)
      /\ \A r \in 1..(q - (p + 1)) : Tail(s)[r] = s[r + 1]
  BY <1>2, <1>4, HeadTailProperties
<1>6. Head(s) = s[1]
  OBVIOUS
<1>7. ASSUME NEW r \in 1..(q - (p + 1)) PROVE Tail(s)[r] = t[r]
  <2>1. r + 1 \in 1..(q - p) /\ p + (r + 1) = p + 1 + r
    OBVIOUS
  <2>2. s[r + 1] = Item(k, p + 1 + r)
    BY <1>2, <2>1
  <2>3. QED
    BY <1>3, <1>5, <2>2
<1>8. Tail(s) = t
  BY <1>1, <1>3, <1>5, <1>7, SeqEqual
<1>9. s[1] = Item(k, p + 1)
  BY <1>1, <1>2
<1>10. QED
  BY <1>1, <1>5, <1>6, <1>8, <1>9 DEF s, t

\* A line in front is read as it is.
LEMMA LineInFront ==
    ASSUME NEW T, NEW q \in Seq(T), q # <<>>, q[1].kind = "line"
    PROVE  /\ CanReadLine(q) /\ LineRead(q) = q[1] /\ AfterReadLine(q) = Tail(q)
<1>1. Len(q) \in Nat \ {0}
  BY EmptySeq
<1>2. 1 \in 1..Len(q) /\ LineAt(q, 1)
  BY <1>1 DEF LineAt
<1>3. \A p \in 1..Len(q) : LineAt(q, p) => p = 1
  BY <1>1 DEF LineAt
<1>4. LineEnd(q) = 1
  BY <1>2, <1>3 DEF LineEnd
<1>5. CanReadLine(q)
  BY <1>2 DEF CanReadLine
<1>6. Tail(q) = SubSeq(q, 2, Len(q))
  BY TailIsSubSeq
<1>7. QED
  BY <1>4, <1>5, <1>6 DEF LineRead, AfterReadLine
-----------------------------------------------------------------------------
\* Taking from the line and putting on it.

\* Where the programs are, as numbers.
LEMMA Where ==
    ASSUME DriverInv, Serving
    PROVE  /\ Counts \in Nat /\ at \in Nat /\ at <= Counts
           /\ MsgCodeAt \in Nat /\ SigAt \in Nat /\ SmAt \in Nat
           /\ Put \in Nat /\ Got \in Nat /\ Got <= Put /\ Len(toDev) = Put - Got
           /\ toDev = Items(at, Got, Put)
           /\ at = Counts => Put <= 4
<1>1. MsgCodeAt \in Nat /\ SigAt \in Nat /\ SmAt \in Nat
  BY Positions
<1>2. Put \in Nat
  <2>1. hpc \in ByteReads \cup LineReads \cup {"start", "lines", "msgLine", "pkLine", "finished"}
    BY DEF DriverInv, TypeOK
  <2>2. QED
    BY <1>1, <2>1, PutAt, Positions DEF Serving, Preparing, ByteReads, LineReads
<1>3. Counts \in Nat /\ at \in 0..Counts
  BY DriverAssumption DEF DriverInv, TypeOK
<1>4. Len(toDev) \in 0..Put /\ toDev = Items(at, Got, Put)
  BY DEF DriverInv, QueueInv, OnTheWay
<1>5. Got \in 0..Put /\ Len(toDev) = Put - Got
  BY <1>2, <1>4 DEF Got
<1>6. at = Counts => Put <= 4
  BY PutAt, DriverAssumption DEF DriverInv, FileInv, Serving
<1>7. QED
  BY <1>1, <1>2, <1>3, <1>4, <1>5, <1>6

\* The device takes an item.
LEMMA TakeItem ==
    ASSUME DriverInv, Serving, toDev # <<>>, toDev' = Tail(toDev), UNCHANGED <<version, host>>
    PROVE  /\ Got < Put /\ Put' = Put /\ Got' = Got + 1
           /\ Head(toDev) = Item(at, Got + 1)
           /\ OnTheWay'
<1>1. Put' = Put /\ at' = at
  BY SameVersion DEF Put, host
<1>2. Put \in Nat /\ Got \in Nat /\ Got <= Put /\ toDev = Items(at, Got, Put)
  BY Where
<1>3. /\ Got < Put /\ Head(toDev) = Item(at, Got + 1)
      /\ toDev' = Items(at, Got + 1, Put) /\ Len(toDev') = Put - (Got + 1)
  BY <1>2, ItemsTake
<1>4. Got' = Got + 1
  BY <1>1, <1>2, <1>3 DEF Got
<1>5. Len(toDev') \in 0..Put' /\ toDev' = Items(at', Got', Put')
  BY <1>1, <1>2, <1>3, <1>4
<1>6. OnTheWay'
  BY <1>5, SameVersion DEF OnTheWay
<1>7. QED
  BY <1>1, <1>3, <1>4, <1>6

\* The device takes nothing.
LEMMA TakeNothing ==
    ASSUME DriverInv, Serving, UNCHANGED <<version, host, toDev>>
    PROVE  Put' = Put /\ Got' = Got /\ OnTheWay'
<1>1. Put' = Put /\ Got' = Got
  BY SameVersion DEF Put, Got, host
<1>2. OnTheWay
  BY DEF DriverInv, QueueInv
<1>3. OnTheWay'
  BY <1>1, <1>2, SameVersion DEF OnTheWay, host
<1>4. QED
  BY <1>1, <1>3

\* The host puts the next items on the line.
LEMMA PutItems ==
    ASSUME DriverInv, Serving, UNCHANGED <<version, at>>, NEW n \in Nat, Put' = n, Put <= n,
           toDev' = toDev \o Items(at, Put, n)
    PROVE  Got' = Got /\ OnTheWay'
<1>1. Put \in Nat /\ Got \in Nat /\ Got <= Put /\ toDev = Items(at, Got, Put)
  BY Where
<1>2. toDev' = Items(at, Got, n)
  BY <1>1, ItemsJoin
<1>3. Got <= n /\ n - Got \in 0..n
  BY <1>1
<1>4. Len(toDev') = n - Got
  BY <1>1, <1>2, <1>3, ItemsIs
<1>5. Got' = Got
  BY <1>1, <1>4 DEF Got
<1>6. Len(toDev') \in 0..Put' /\ toDev' = Items(at', Got', Put')
  BY <1>2, <1>3, <1>4, <1>5
<1>7. OnTheWay'
  BY <1>6, SameVersion DEF OnTheWay
<1>8. QED
  BY <1>5, <1>7

-----------------------------------------------------------------------------
\* The device's steps while it serves.

\* What no step of the device touches.
LEMMA DevFrame ==
    ASSUME DriverInv, Serving, UNCHANGED <<version, host>>
    PROVE  /\ Preparing' = Preparing /\ ~Preparing
           /\ Streams' = Streams /\ Put' = Put
           /\ MsgCodeAt' = MsgCodeAt /\ MsgAt' = MsgAt /\ PkAt' = PkAt /\ SkAt' = SkAt
           /\ SmlAt' = SmlAt /\ SigAt' = SigAt /\ SmAt' = SmAt
           /\ at' = at /\ hpc' = hpc /\ version' \in Versions
           /\ PrepareInv' /\ FileInv'
<1>1. Preparing' = Preparing /\ ~Preparing
  BY DEF Preparing, Serving, host
<1>2. Put' = Put /\ Streams' = Streams
  BY SameVersion DEF Put, host
<1>3. PrepareInv'
  BY <1>1 DEF PrepareInv
<1>4. FileInv'
  BY <1>1, <1>2 DEF DriverInv, FileInv, host
<1>5. version' \in Versions /\ at' = at /\ hpc' = hpc
  BY DEF DriverInv, host
<1>6. QED
  BY <1>1, <1>2, <1>3, <1>4, <1>5, SameVersion

LEMMA TakeCode ==
    ASSUME DriverInv, Serving, NEW c \in Codes, Command(c), UNCHANGED <<version, host>>
    PROVE  /\ dpc = "loop" /\ OnTheWay' /\ at \in Nat
           /\ c # StopCode => at < Counts /\ at # Counts
           /\ c = SeedCode => Got = 3 /\ Got' = 4
           /\ c = MsgCode => Got = MsgCodeAt - 1 /\ Got' = MsgCodeAt
           /\ c = PkCode => Got = PkAt - 1 /\ Got' = PkAt
           /\ c = SkCode => Got = SkAt - 1 /\ Got' = SkAt
           /\ c = SmlCode => Got = SmlAt - 1 /\ Got' = SmlAt
           /\ c = SmCode => Got = SmAt - 1 /\ Got' = SmAt
           /\ c = StopCode => at = Counts /\ Got = 3 /\ Got' = 4
<1>1. /\ dpc = "loop" /\ toDev # <<>> /\ toDev' = Tail(toDev)
      /\ Head(toDev).kind = "byte" /\ Head(toDev).data = c
  BY DEF Command, DevRecv, CanRecv
<1>2. Got' = Got + 1 /\ Head(toDev) = Item(at, Got + 1) /\ OnTheWay'
  BY <1>1, TakeItem
<1>3. /\ at \in 0..Counts /\ at \in Nat /\ Got \in Nat /\ Got + 1 \in Nat
      /\ at < Counts => at # Counts
  BY Where
<1>4. /\ c = SeedCode => at < Counts /\ Got + 1 = 4
      /\ c = MsgCode => at < Counts /\ Got + 1 = MsgCodeAt
      /\ c = PkCode => at < Counts /\ Got + 1 = PkAt
      /\ c = SkCode => at < Counts /\ Got + 1 = SkAt
      /\ c = SmlCode => at < Counts /\ Got + 1 = SmlAt
      /\ c = SmCode => at < Counts /\ Got + 1 = SmAt
      /\ c = StopCode => at = Counts /\ Got + 1 = 4
  BY <1>1, <1>2, <1>3, CodeIs
<1>5. c \in {SeedCode, MsgCode, PkCode, SkCode, SmlCode, SmCode, StopCode}
  BY DEF Codes, SeedCode, MsgCode, PkCode, SkCode, SmlCode, SmCode, StopCode
<1>6. c # StopCode => at < Counts /\ at # Counts
  BY <1>3, <1>4, <1>5
<1>7. QED
  BY <1>1, <1>2, <1>3, <1>4, <1>6

LEMMA DevNext ==
    ASSUME DriverInv, Serving, UNCHANGED <<version, host>>, dpc' # "fault",
           TypeOK', QueueInv', BufferInv', WaitInv'
    PROVE  DriverInv'
  BY DevFrame DEF DriverInv, FaultInv

\* A step that sends nothing and brings the device past nothing the host waits
\* for.
LEMMA Quiet ==
    ASSUME DriverInv, Serving, UNCHANGED <<version, host, toHost>>, dpc' # "fault",
           Got' = Got + 1,
           at = Counts => Got + 1 < 4,
           Inited' <=> Inited, KeyDone' <=> KeyDone, Signed' <=> Signed,
           Got + 1 \notin {SkAt, SmAt} /\ (Streams => Got + 1 # SmlAt)
    PROVE  WaitInv'
<1>1. WaitInv /\ FileInv
  BY DEF DriverInv
<1>2. hpc \in {"stopDone", "finished"} => at = Counts
  BY <1>1, DevFrame DEF FileInv
<1>3. Got \in Nat
  BY Where
<1>4. hpc = "skReady" => Streams
  BY <1>1 DEF FileInv
<1>5. QED
  BY <1>1, <1>2, <1>3, <1>4, DevFrame, Positions DEF WaitInv

LEMMA StepDrain ==
    ASSUME DriverInv, Serving, DevDrain, UNCHANGED <<version, host>>
    PROVE  DriverInv'
<1> USE DEF DevDrain, DevRecv, CanRecv
<1>1. QueueInv /\ BufferInv
  BY DEF DriverInv
<1>2. at = 0 /\ Got = 0 /\ Got' = 1 /\ OnTheWay'
  BY <1>1, TakeItem DEF QueueInv
<1>3. ~Inited /\ ~KeyDone /\ ~Signed /\ ~Inited' /\ ~KeyDone' /\ ~Signed'
  BY <1>2, DevFrame, Positions DEF Inited, KeyDone, Signed
<1>4. QueueInv'
  BY <1>2, DevFrame, Positions DEF QueueInv
<1>5. BufferInv'
  BY <1>1, <1>2, <1>3, DevFrame, Positions DEF BufferInv
<1>6. WaitInv'
  BY <1>2, <1>3, Quiet, Positions
<1>7. TypeOK'
  BY DEF DriverInv, TypeOK, DevRecvs, host
<1>8. QED
  BY <1>4, <1>5, <1>6, <1>7, DevNext

LEMMA StepOther ==
    ASSUME DriverInv, Serving, DevOther, UNCHANGED <<version, host>>
    PROVE  DriverInv'
<1> USE DEF DevOther, DevRecv, CanRecv
<1>1. QueueInv /\ BufferInv
  BY DEF DriverInv
<1>2. /\ dpc = "loop" /\ Got < Put /\ Got' = Got + 1 /\ OnTheWay'
      /\ Item(at, Got + 1).kind = "byte" /\ Item(at, Got + 1).data \notin Codes
  BY TakeItem
<1>3. /\ at \in 0..Counts /\ Got + 1 \in Nat /\ Got \in Nat
      /\ at = Counts => Got < 4
  BY <1>2, Where
<1>4. \/ /\ at < Counts /\ at # Counts
         /\ Got + 1 \notin {4, 5, MsgCodeAt, MsgAt, PkAt, SkAt, SmlAt, SmAt, SigAt}
      \/ at = Counts /\ Got + 1 < 4
  <2>1. CASE at < Counts
    BY <1>2, <1>3, <2>1, CodeIs
  <2>2. CASE at = Counts
    BY <1>2, <1>3, <2>2, CodeIs
  <2>3. QED
    BY <1>3, <2>1, <2>2, DriverAssumption
<1>5. UNCHANGED <<dpc, drbg, seed, countPk, m, sk, sm>>
  BY DEF dev
<1>6. Got # MsgCodeAt /\ Got # 4 /\ ~(Streams /\ Got = SmlAt)
  BY <1>1, <1>2, <1>3, <1>4 DEF QueueInv
<1>7. (Inited' <=> Inited) /\ (KeyDone' <=> KeyDone) /\ (Signed' <=> Signed)
  BY <1>2, <1>3, <1>4, <1>5, <1>6, DevFrame, Positions DEF Inited, KeyDone, Signed
<1>8. QueueInv'
  BY <1>1, <1>2, <1>3, <1>4, <1>5, DevFrame, Positions DEF QueueInv
<1>9. BufferInv'
  BY <1>1, <1>2, <1>3, <1>4, <1>5, <1>6, <1>7, DevFrame, Positions DEF BufferInv
<1>10. WaitInv'
  BY <1>2, <1>3, <1>4, <1>5, <1>7, Quiet, Positions
<1>11. TypeOK'
  BY <1>5 DEF DriverInv, TypeOK, host
<1>12. QED
  BY <1>2, <1>5, <1>8, <1>9, <1>10, <1>11, DevNext

LEMMA StepSeedCmd ==
    ASSUME DriverInv, Serving, DevSeedCmd, UNCHANGED <<version, host>>
    PROVE  DriverInv'
<1> USE DEF DevSeedCmd
<1>1. QueueInv /\ BufferInv
  BY DEF DriverInv
<1>2. dpc = "loop" /\ at < Counts /\ at # Counts /\ Got = 3 /\ Got' = 4 /\ OnTheWay'
  BY TakeCode DEF Codes, SeedCode, StopCode
<1>3. ~Inited /\ ~KeyDone /\ ~Signed /\ ~Inited' /\ ~KeyDone' /\ ~Signed'
  BY <1>2, DevFrame, Positions DEF Inited, KeyDone, Signed
<1>4. QueueInv'
  BY <1>2, DevFrame, Positions DEF QueueInv
<1>5. BufferInv'
  BY <1>1, <1>2, <1>3, DevFrame, Positions DEF BufferInv
<1>6. WaitInv'
  BY <1>2, <1>3, Quiet, Positions
<1>7. TypeOK'
  BY DEF DriverInv, TypeOK, DevRecvs, host
<1>8. QED
  BY <1>4, <1>5, <1>6, <1>7, DevNext

LEMMA StepSeed ==
    ASSUME DriverInv, Serving, DevSeed, UNCHANGED <<version, host>>
    PROVE  DriverInv'
<1> USE DEF DevSeed, DevRecvBytes, DevRecv, CanRecv
<1>1. QueueInv /\ BufferInv
  BY DEF DriverInv
<1>2. at < Counts /\ at # Counts /\ Got = 4 /\ Got' = 5 /\ OnTheWay' /\ Head(toDev) = Item(at, 5)
  BY <1>1, TakeItem, Where DEF QueueInv
<1>3. seed' = SeedOf(at)
  <2>1. at \in 0..Counts
    BY Where
  <2>2. Item(at, 5) = Burst(<<SeedOf(at)>>)
    BY <1>2, <2>1, Payload
  <2>3. QED
    BY <1>2, <2>2 DEF Burst
<1>4. ~Inited /\ ~KeyDone /\ ~Signed /\ ~Inited' /\ ~KeyDone' /\ ~Signed'
  BY <1>2, DevFrame, Positions DEF Inited, KeyDone, Signed
<1>5. QueueInv'
  BY <1>2, DevFrame, Positions DEF QueueInv
<1>6. BufferInv'
  BY <1>1, <1>2, <1>3, <1>4, DevFrame, Positions DEF BufferInv
<1>7. WaitInv'
  BY <1>2, <1>4, Quiet, Positions
<1>8. TypeOK'
  <2>1. at \in Keys
    BY <1>2, Where DEF Keys
  <2>2. QED
    BY <1>3, <2>1 DEF DriverInv, TypeOK, DevRecvs, host
<1>9. QED
  BY <1>5, <1>6, <1>7, <1>8, DevNext

\* The labels of the host while the device serves.
LEMMA HostAt ==
    ASSUME DriverInv, Serving
    PROVE  hpc \in {"lines", "msgLine", "msgReady", "pkLine", "keygen", "pkDone", "skDone",
                    "skReady", "sign", "smlDone", "smDone", "stopDone", "finished"}
<1>1. hpc \in ByteReads \cup LineReads \cup {"start", "lines", "msgLine", "pkLine", "finished"}
  BY DEF DriverInv, TypeOK
<1>2. hpc \notin {"start", "banner", "req"}
  BY DEF Serving, Preparing
<1>3. QED
  BY <1>1, <1>2 DEF ByteReads, LineReads

LEMMA StepMsgCmd ==
    ASSUME DriverInv, Serving, DevMsgCmd, UNCHANGED <<version, host>>
    PROVE  DriverInv'
<1> USE DEF DevMsgCmd
<1>1. QueueInv /\ BufferInv
  BY DEF DriverInv
<1>2. /\ dpc = "loop" /\ at \in Nat /\ at < Counts /\ at # Counts
      /\ Got = MsgCodeAt - 1 /\ Got' = MsgCodeAt /\ OnTheWay'
  BY TakeCode DEF Codes, SeedCode, MsgCode, StopCode
<1>3. ~Inited /\ ~KeyDone /\ ~Signed /\ ~Inited' /\ ~KeyDone' /\ ~Signed'
  BY <1>2, DevFrame, Positions DEF Inited, KeyDone, Signed
<1>4. QueueInv'
  BY <1>2, DevFrame, Positions DEF QueueInv
<1>5. BufferInv'
  BY <1>1, <1>2, <1>3, DevFrame, Positions DEF BufferInv
<1>6. WaitInv'
  BY <1>2, <1>3, Quiet, Positions
<1>7. countPk' \in 0..Counts
  BY <1>1, <1>2, Positions, DriverAssumption DEF BufferInv
<1>8. TypeOK'
  BY <1>7 DEF DriverInv, TypeOK, DevRecvs, DevBusy, host
<1>9. QED
  BY <1>4, <1>5, <1>6, <1>8, DevNext

LEMMA StepInit ==
    ASSUME DriverInv, Serving, DevInit, UNCHANGED <<version, host>>
    PROVE  DriverInv'
<1> USE DEF DevInit, SendHost
<1>1. QueueInv /\ BufferInv /\ WaitInv /\ FileInv
  BY DEF DriverInv
<1>2. Got = MsgCodeAt /\ Got' = MsgCodeAt /\ Put' = Put /\ OnTheWay' /\ Got <= Put
  BY <1>1, TakeNothing, Where DEF QueueInv
<1>3. /\ ~Inited /\ ~KeyDone /\ ~Signed /\ Inited' /\ ~KeyDone' /\ ~Signed'
      /\ seed = SeedOf(at) /\ at # Counts
  BY <1>1, <1>2, DevFrame, Positions, Where DEF Inited, KeyDone, Signed, BufferInv
<1>4. /\ hpc \in {"msgReady", "pkLine", "keygen"} /\ toHost = <<>>
      /\ Streams <=> hpc = "msgReady"
  BY <1>1, <1>2, <1>3, HostAt, PutAt, Positions DEF WaitInv, FileInv
<1>5. toHost' = IF Streams THEN <<Ready>> ELSE <<>>
  BY <1>4, Puts
<1>6. QueueInv'
  BY <1>1, <1>2, DevFrame, Positions DEF QueueInv
<1>7. BufferInv'
  BY <1>1, <1>2, <1>3, DevFrame, Positions DEF BufferInv
<1>8. WaitInv'
  BY <1>2, <1>3, <1>4, <1>5, DevFrame, Positions DEF WaitInv
<1>9. TypeOK'
  BY DEF DriverInv, TypeOK, DevRecvs, host
<1>10. QED
  BY <1>6, <1>7, <1>8, <1>9, DevNext

LEMMA StepMsg ==
    ASSUME DriverInv, Serving, DevMsg, UNCHANGED <<version, host>>
    PROVE  DriverInv'
<1> USE DEF DevMsg, DevRecvBytes, DevRecv, CanRecv
<1>1. QueueInv /\ BufferInv
  BY DEF DriverInv
<1>2. /\ Got = MsgCodeAt /\ Got' = MsgAt /\ OnTheWay' /\ Head(toDev) = Item(at, MsgAt)
      /\ at \in 0..Counts /\ at < Counts /\ at # Counts
  <2>1. Got = MsgCodeAt /\ Got < Put /\ Got' = Got + 1 /\ OnTheWay'
        /\ Head(toDev) = Item(at, Got + 1)
    BY <1>1, TakeItem DEF QueueInv
  <2>2. at \in 0..Counts /\ at # Counts
    BY <2>1, Where, Positions
  <2>3. MsgAt = MsgCodeAt + 1
    BY Positions
  <2>4. QED
    BY <2>1, <2>2, <2>3, DriverAssumption
<1>3. m' = MsgOf(at)
  BY <1>2, Payload DEF Burst
<1>4. Inited /\ ~KeyDone /\ ~Signed /\ Inited' /\ ~KeyDone' /\ ~Signed'
  BY <1>2, DevFrame, Positions DEF Inited, KeyDone, Signed
<1>5. QueueInv'
  BY <1>2, DevFrame, Positions DEF QueueInv
<1>6. BufferInv'
  BY <1>1, <1>2, <1>3, <1>4, DevFrame, Positions DEF BufferInv
<1>7. WaitInv'
  BY <1>2, <1>4, Quiet, Positions
<1>8. TypeOK'
  <2>1. at \in Keys
    BY <1>2, DriverAssumption DEF Keys
  <2>2. QED
    BY <1>3, <2>1 DEF DriverInv, TypeOK, DevRecvs, host
<1>9. QED
  BY <1>5, <1>6, <1>7, <1>8, DevNext

LEMMA StepPkCmd ==
    ASSUME DriverInv, Serving, DevPkCmd, UNCHANGED <<version, host>>
    PROVE  DriverInv'
<1> USE DEF DevPkCmd
<1>1. QueueInv /\ BufferInv
  BY DEF DriverInv
<1>2. /\ dpc = "loop" /\ at < Counts /\ at # Counts
      /\ Got = PkAt - 1 /\ Got' = PkAt /\ OnTheWay'
  BY TakeCode DEF Codes, SeedCode, PkCode, StopCode
<1>3. Inited /\ ~KeyDone /\ ~Signed /\ Inited' /\ ~KeyDone' /\ ~Signed'
  BY <1>2, DevFrame, Positions DEF Inited, KeyDone, Signed
<1>4. QueueInv'
  BY <1>2, DevFrame, Positions DEF QueueInv
<1>5. BufferInv'
  BY <1>1, <1>2, <1>3, DevFrame, Positions DEF BufferInv
<1>6. WaitInv'
  BY <1>2, <1>3, Quiet, Positions
<1>7. TypeOK'
  BY DEF DriverInv, TypeOK, DevRecvs, DevBusy, host
<1>8. QED
  BY <1>4, <1>5, <1>6, <1>7, DevNext

LEMMA StepKeygen ==
    ASSUME DriverInv, Serving, DevKeygen, UNCHANGED <<version, host>>
    PROVE  DriverInv'
<1> USE DEF DevKeygen, SendHost
<1>1. QueueInv /\ BufferInv /\ WaitInv /\ FileInv
  BY DEF DriverInv
<1>2. Got = PkAt /\ Got' = PkAt /\ Put' = Put /\ OnTheWay' /\ Got <= Put
  BY <1>1, TakeNothing, Where DEF QueueInv
<1>3. /\ Inited /\ ~KeyDone /\ ~Signed /\ Inited' /\ KeyDone' /\ ~Signed'
      /\ drbg = KeyFrom(at) /\ at # Counts
  <2>1. Inited /\ ~KeyDone /\ ~Signed /\ Inited' /\ KeyDone' /\ ~Signed'
    BY <1>2, DevFrame, Positions DEF Inited, KeyDone, Signed
  <2>2. drbg = KeyFrom(at)
    BY <1>1, <2>1 DEF BufferInv, KeyFrom
  <2>3. at # Counts
    BY <1>2, Where, Positions
  <2>4. QED
    BY <2>1, <2>2, <2>3
<1>4. hpc = "keygen" /\ toHost = <<>>
  BY <1>1, <1>2, <1>3, HostAt, PutAt, Positions DEF WaitInv
<1>5. /\ toHost' = IF Streams THEN <<Line(<<KeyFrom(at)>>), Line(<<>>)>>
                   ELSE <<Line(<<KeyFrom(at)>>)>>
      /\ ~Streams => sk' = KeyFrom(at)
  BY <1>3, <1>4, Sent
<1>6. QueueInv'
  BY <1>1, <1>2, DevFrame, Positions DEF QueueInv
<1>7. BufferInv'
  BY <1>1, <1>2, <1>3, <1>5, DevFrame, Positions DEF BufferInv, NextDraw, KeyFrom
<1>8. WaitInv'
  BY <1>2, <1>3, <1>4, <1>5, DevFrame, Positions DEF WaitInv
<1>9. TypeOK'
  BY DEF DriverInv, TypeOK, DevRecvs, host
<1>10. QED
  BY <1>6, <1>7, <1>8, <1>9, DevNext

LEMMA StepSkCmd ==
    ASSUME DriverInv, Serving, DevSkCmd, UNCHANGED <<version, host>>
    PROVE  DriverInv'
<1> USE DEF DevSkCmd, SendHost
<1>1. QueueInv /\ BufferInv /\ WaitInv /\ FileInv
  BY DEF DriverInv
<1>2. /\ dpc = "loop" /\ at < Counts /\ at # Counts
      /\ Got = SkAt - 1 /\ Got' = SkAt /\ OnTheWay'
  BY TakeCode DEF Codes, SeedCode, SkCode, StopCode
<1>3. UNCHANGED <<dpc, drbg, seed, countPk, m, sk, sm>>
  BY DEF dev
<1>4. Inited /\ KeyDone /\ ~Signed /\ Inited' /\ KeyDone' /\ ~Signed'
  BY <1>2, <1>3, DevFrame, Positions DEF Inited, KeyDone, Signed
<1>5. hpc = "skDone" /\ toHost = <<>>
  <2>1. Got < Put
    BY <1>2, TakeItem DEF Command, DevRecv, CanRecv
  <2>2. QED
    BY <1>1, <1>2, <1>4, <2>1, HostAt, PutAt, Positions DEF WaitInv
<1>6. toHost' = <<Line(IF Streams THEN <<>> ELSE <<KeyFrom(at)>>)>>
  BY <1>1, <1>2, <1>4, <1>5, Puts, Positions DEF BufferInv
<1>7. QueueInv'
  BY <1>1, <1>2, <1>3, DevFrame, Positions DEF QueueInv
<1>8. BufferInv'
  BY <1>1, <1>2, <1>3, <1>4, DevFrame, Positions DEF BufferInv
<1>9. WaitInv'
  BY <1>2, <1>4, <1>5, <1>6, DevFrame, Positions DEF WaitInv
<1>10. TypeOK'
  BY <1>3 DEF DriverInv, TypeOK, host
<1>11. QED
  BY <1>2, <1>3, <1>7, <1>8, <1>9, <1>10, DevNext

LEMMA StepSmlCmd ==
    ASSUME DriverInv, Serving, DevSmlCmd, UNCHANGED <<version, host>>
    PROVE  DriverInv'
<1> USE DEF DevSmlCmd, SendHost
<1>1. QueueInv /\ BufferInv /\ WaitInv /\ FileInv
  BY DEF DriverInv
<1>2. /\ dpc = "loop" /\ at < Counts /\ at # Counts
      /\ Got = SmlAt - 1 /\ Got' = SmlAt /\ OnTheWay'
  BY TakeCode DEF Codes, SeedCode, SmlCode, StopCode
<1>3. dpc' = IF Streams THEN "sk" ELSE "sign"
  OBVIOUS
<1>4. Inited /\ KeyDone /\ ~Signed /\ Inited' /\ KeyDone' /\ ~Signed'
  BY <1>2, <1>3, DevFrame, Positions DEF Inited, KeyDone, Signed
<1>5. hpc = (IF Streams THEN "skReady" ELSE "smlDone") /\ toHost = <<>>
  <2>1. Got < Put
    BY <1>2, TakeItem DEF Command, DevRecv, CanRecv
  <2>2. QED
    BY <1>1, <1>2, <1>4, <2>1, HostAt, PutAt, Positions DEF WaitInv, FileInv
<1>6. toHost' = IF Streams THEN <<Ready>> ELSE <<>>
  BY <1>5, Puts
<1>7. QueueInv'
  BY <1>1, <1>2, <1>3, DevFrame, Positions DEF QueueInv
<1>8. BufferInv'
  BY <1>1, <1>2, <1>4, DevFrame, Positions DEF BufferInv
<1>9. WaitInv'
  BY <1>2, <1>4, <1>5, <1>6, DevFrame, Positions DEF WaitInv
<1>10. TypeOK'
  BY <1>3 DEF DriverInv, TypeOK, DevRecvs, DevBusy, host
<1>11. QED
  BY <1>3, <1>7, <1>8, <1>9, <1>10, DevNext

LEMMA StepReadSk ==
    ASSUME DriverInv, Serving, DevReadSk, UNCHANGED <<version, host>>
    PROVE  DriverInv'
<1> USE DEF DevReadSk, DevRecv, CanRecv
<1>1. QueueInv /\ BufferInv
  BY DEF DriverInv
<1>2. /\ Streams /\ Got = SmlAt /\ Got' = SigAt /\ OnTheWay' /\ Head(toDev) = Item(at, SigAt)
      /\ at \in 0..Counts /\ at < Counts /\ at # Counts
  <2>1. /\ Streams /\ Got = SmlAt /\ Got < Put /\ Got' = Got + 1 /\ OnTheWay'
        /\ Head(toDev) = Item(at, Got + 1)
    BY <1>1, TakeItem DEF QueueInv
  <2>2. at \in 0..Counts /\ at # Counts
    BY <2>1, Where, Positions
  <2>3. SigAt = SmlAt + 1
    BY <2>1, Positions
  <2>4. QED
    BY <2>1, <2>2, <2>3, DriverAssumption
<1>3. sk' = KeyFrom(at)
  BY <1>2, Payload DEF Burst
<1>4. Inited /\ KeyDone /\ ~Signed /\ Inited' /\ KeyDone' /\ ~Signed'
  BY <1>2, DevFrame, Positions DEF Inited, KeyDone, Signed
<1>5. QueueInv'
  BY <1>2, DevFrame, Positions DEF QueueInv
<1>6. BufferInv'
  BY <1>1, <1>2, <1>3, <1>4, DevFrame, Positions DEF BufferInv
<1>7. WaitInv'
  BY <1>2, <1>4, Quiet, Positions
<1>8. TypeOK'
  BY DEF DriverInv, TypeOK, DevRecvs, DevBusy, host
<1>9. QED
  BY <1>5, <1>6, <1>7, <1>8, DevNext

LEMMA StepSign ==
    ASSUME DriverInv, Serving, DevSign, UNCHANGED <<version, host>>
    PROVE  DriverInv'
<1> USE DEF DevSign, SendHost
<1>1. QueueInv /\ BufferInv /\ WaitInv /\ FileInv
  BY DEF DriverInv
<1>2. Got = SigAt /\ Got' = SigAt /\ Put' = Put /\ OnTheWay' /\ Got <= Put
  BY <1>1, TakeNothing, Where DEF QueueInv
<1>3. /\ Inited /\ KeyDone /\ ~Signed /\ Inited' /\ KeyDone' /\ Signed'
  BY <1>2, DevFrame, Positions DEF Inited, KeyDone, Signed
<1>4. /\ sk = KeyFrom(at) /\ m = MsgOf(at) /\ drbg = [seed |-> SeedOf(at), n |-> 1]
      /\ at # Counts
  <2>1. sk = KeyFrom(at) /\ m = MsgOf(at)
    BY <1>1, <1>2, <1>3, Positions DEF BufferInv
  <2>2. drbg = [seed |-> SeedOf(at), n |-> 1]
    BY <1>1, <1>3 DEF BufferInv
  <2>3. at # Counts
    BY <1>2, Where, Positions
  <2>4. QED
    BY <2>1, <2>2, <2>3
<1>5. Signature(sk, m, drbg) = SigOf(at)
  BY <1>4 DEF SigOf, RefRecord
<1>6. hpc = (IF Streams THEN "sign" ELSE "smlDone") /\ toHost = <<>>
  BY <1>1, <1>2, <1>3, HostAt, PutAt, Positions DEF WaitInv, FileInv
<1>7. /\ toHost' = IF Streams THEN <<Line(<<SigOf(at)>>), Line(<<>>)>> ELSE <<Line(<<>>)>>
      /\ ~Streams => sm' = SigOf(at)
  BY <1>5, <1>6, Sent
<1>8. QueueInv'
  BY <1>1, <1>2, DevFrame, Positions DEF QueueInv
<1>9. drbg' = [seed |-> SeedOf(at), n |-> 2]
  BY <1>4 DEF NextDraw
<1>10. BufferInv'
  BY <1>1, <1>2, <1>3, <1>7, <1>9, DevFrame, Positions DEF BufferInv
<1>11. WaitInv'
  BY <1>2, <1>3, <1>6, <1>7, DevFrame, Positions DEF WaitInv
<1>12. TypeOK'
  BY DEF DriverInv, TypeOK, DevRecvs, host
<1>13. QED
  BY <1>8, <1>10, <1>11, <1>12, DevNext

LEMMA StepSmCmd ==
    ASSUME DriverInv, Serving, DevSmCmd, UNCHANGED <<version, host>>
    PROVE  DriverInv'
<1> USE DEF DevSmCmd, SendHost
<1>1. QueueInv /\ BufferInv /\ WaitInv /\ FileInv
  BY DEF DriverInv
<1>2. /\ dpc = "loop" /\ at < Counts /\ at # Counts
      /\ Got = SmAt - 1 /\ Got' = SmAt /\ OnTheWay'
  BY TakeCode DEF Codes, SeedCode, SmCode, StopCode
<1>3. Inited /\ KeyDone /\ Signed
  BY <1>2, Positions DEF Inited, KeyDone, Signed
<1>4. hpc = "smDone" /\ toHost = <<>>
  <2>1. Got < Put
    BY <1>2, TakeItem DEF Command, DevRecv, CanRecv
  <2>2. QED
    BY <1>1, <1>2, <1>3, <2>1, HostAt, PutAt, Positions DEF WaitInv
<1>5. toHost' = <<Line(IF Streams THEN <<>> ELSE <<SigOf(at)>>)>>
  BY <1>1, <1>3, <1>4, Puts DEF BufferInv
<1>6. dpc' \in {"loop", "fault"} /\ (dpc' = "fault" => Streams)
  BY DriverAssumption
<1>7. TypeOK'
  BY <1>6 DEF DriverInv, TypeOK, DevRecvs, host
<1>8. CASE dpc' = "loop"
  <2>1. Inited' /\ KeyDone' /\ Signed'
    BY <1>2, DevFrame, Positions DEF Inited, KeyDone, Signed
  <2>2. QueueInv'
    BY <1>2, <1>8, DevFrame, Positions DEF QueueInv
  <2>3. BufferInv'
    BY <1>1, <1>2, <1>3, <2>1, DevFrame, Positions DEF BufferInv
  <2>4. WaitInv'
    BY <1>2, <1>4, <1>5, <2>1, DevFrame, Positions DEF WaitInv
  <2>5. QED
    BY <1>7, <1>8, <2>2, <2>3, <2>4, DevNext
<1>9. CASE dpc' = "fault"
  <2>1. ~Serving'
    BY <1>9 DEF Serving
  <2>2. QueueInv' /\ BufferInv' /\ WaitInv'
    BY <2>1 DEF QueueInv, BufferInv, WaitInv
  <2>3. FaultInv'
    BY <1>4, <1>5, <1>6, <1>9, DevFrame DEF FaultInv
  <2>4. QED
    BY <1>7, <2>2, <2>3, DevFrame DEF DriverInv
<1>10. QED
  BY <1>6, <1>8, <1>9

LEMMA StepStopCmd ==
    ASSUME DriverInv, Serving, DevStopCmd, UNCHANGED <<version, host>>
    PROVE  DriverInv'
<1> USE DEF DevStopCmd, SendHost
<1>1. QueueInv /\ BufferInv /\ WaitInv /\ FileInv
  BY DEF DriverInv
<1>2. dpc = "loop" /\ at = Counts /\ Got = 3 /\ Got' = 4 /\ OnTheWay'
  BY TakeCode DEF Codes, SeedCode, StopCode
<1>3. UNCHANGED <<dpc, drbg, seed, countPk, m, sk, sm>>
  BY DEF dev
<1>4. ~Inited /\ ~KeyDone /\ ~Signed /\ ~Inited' /\ ~KeyDone' /\ ~Signed'
  BY <1>2, DevFrame, Positions DEF Inited, KeyDone, Signed
<1>5. hpc = "stopDone" /\ toHost = <<>>
  <2>1. Got < Put /\ Put <= 4
    BY <1>2, TakeItem, Where DEF Command, DevRecv, CanRecv
  <2>2. QED
    BY <1>1, <1>2, <1>4, <2>1, HostAt, PutAt, Positions DEF WaitInv
<1>6. toHost' = <<Line(<<>>)>>
  BY <1>5, Puts
<1>7. QueueInv'
  BY <1>1, <1>2, <1>3, DevFrame, Positions, Where DEF QueueInv
<1>8. BufferInv'
  BY <1>1, <1>2, <1>3, <1>4, DevFrame, Positions DEF BufferInv
<1>9. WaitInv'
  BY <1>2, <1>4, <1>5, <1>6, DevFrame, Positions DEF WaitInv
<1>10. TypeOK'
  BY <1>3 DEF DriverInv, TypeOK, host
<1>11. QED
  BY <1>2, <1>3, <1>7, <1>8, <1>9, <1>10, DevNext

-----------------------------------------------------------------------------
\* The lines of the request file.

LinesOf == {Line(ReqLine(r)) : r \in Nat}

LEMMA LinesIs ==
    ASSUME NEW p \in Nat, NEW n \in Nat
    PROVE  /\ ReqLines(p, n) \in Seq(LinesOf) /\ Len(ReqLines(p, n)) = n
           /\ \A r \in 1..n : ReqLines(p, n)[r] = Line(ReqLine(p + r))
           /\ n = 0 => ReqLines(p, n) = <<>>
<1> DEFINE T == LinesOf
<1>1. \A r \in 1..n : Line(ReqLine(p + r)) \in T
  BY DEF LinesOf
<1> HIDE DEF T
<1>2. /\ [r \in 1..n |-> Line(ReqLine(p + r))] \in Seq(T)
      /\ Len([r \in 1..n |-> Line(ReqLine(p + r))]) = n
  BY <1>1
<1>3. ReqLines(p, n) \in Seq(T) /\ Len(ReqLines(p, n)) = n
  BY <1>2 DEF ReqLines
<1>4. n = 0 => ReqLines(p, n) = <<>>
  BY <1>3, EmptySeq
<1>5. \A r \in 1..n : ReqLines(p, n)[r] = Line(ReqLine(p + r))
  BY DEF ReqLines
<1>6. QED
  BY <1>3, <1>4, <1>5 DEF T

\* One line is read, the others stay.
LEMMA LinesTake ==
    ASSUME NEW p \in Nat, NEW n \in Nat, n > 0
    PROVE  /\ LineRead(ReqLines(p, n)).data = ReqLine(p + 1)
           /\ AfterReadLine(ReqLines(p, n)) = ReqLines(p + 1, n - 1)
<1> DEFINE T == LinesOf
           s == ReqLines(p, n)
           t == ReqLines(p + 1, n - 1)
<1>1. s \in Seq(T) /\ Len(s) = n /\ \A r \in 1..n : s[r] = Line(ReqLine(p + r))
  BY LinesIs
<1>2. /\ t \in Seq(T) /\ Len(t) = n - 1
      /\ \A r \in 1..(n - 1) : t[r] = Line(ReqLine(p + 1 + r))
  <2>1. p + 1 \in Nat /\ n - 1 \in Nat
    OBVIOUS
  <2>2. QED
    BY <2>1, LinesIs
<1> HIDE DEF T, s, t
<1>3. s # <<>> /\ s[1] = Line(ReqLine(p + 1)) /\ s[1].kind = "line"
  BY <1>1 DEF Line
<1>4. LineRead(s) = s[1] /\ AfterReadLine(s) = Tail(s)
  BY <1>1, <1>3, LineInFront
<1>5. /\ Tail(s) \in Seq(T) /\ Len(Tail(s)) = n - 1
      /\ \A r \in 1..(n - 1) : Tail(s)[r] = s[r + 1]
  BY <1>1, <1>3, HeadTailProperties
<1>6. ASSUME NEW r \in 1..(n - 1) PROVE Tail(s)[r] = t[r]
  <2>1. r + 1 \in 1..n /\ p + (r + 1) = p + 1 + r
    OBVIOUS
  <2>2. s[r + 1] = Line(ReqLine(p + 1 + r))
    BY <1>1, <2>1
  <2>3. QED
    BY <1>2, <1>5, <2>2
<1>7. Tail(s) = t
  BY <1>2, <1>5, <1>6, SeqEqual
<1>8. QED
  BY <1>3, <1>4, <1>7 DEF s, t, Line

\* A line before a sequence of lines.
LEMMA LineBefore ==
    ASSUME NEW T, NEW l \in T, l.kind = "line", NEW s \in Seq(T)
    PROVE  /\ CanReadLine(<<l>> \o s) /\ LineRead(<<l>> \o s) = l
           /\ AfterReadLine(<<l>> \o s) = s
<1> DEFINE u == <<l>>
           q == u \o s
<1>1. u \in Seq(T) /\ Len(u) = 1 /\ u[1] = l
  OBVIOUS
<1> HIDE DEF u
<1>2. /\ q \in Seq(T) /\ Len(q) = 1 + Len(s) /\ Len(s) \in Nat
      /\ \A r \in 1..(1 + Len(s)) : q[r] = IF r <= 1 THEN u[r] ELSE s[r - 1]
  <2>1. /\ q \in Seq(T) /\ Len(q) = Len(u) + Len(s)
        /\ \A r \in 1..(Len(u) + Len(s)) : q[r] = IF r <= Len(u) THEN u[r] ELSE s[r - Len(u)]
    BY <1>1, ConcatProperties
  <2>2. Len(s) \in Nat
    BY LenProperties
  <2>3. QED
    BY <1>1, <2>1, <2>2
<1> HIDE DEF q
<1>3. q # <<>> /\ q[1] = l
  BY <1>1, <1>2
<1>4. CanReadLine(q) /\ LineRead(q) = l /\ AfterReadLine(q) = Tail(q)
  BY <1>2, <1>3, LineInFront
<1>5. /\ Tail(q) \in Seq(T) /\ Len(Tail(q)) = Len(s)
      /\ \A r \in 1..Len(s) : Tail(q)[r] = q[r + 1]
  BY <1>2, <1>3, HeadTailProperties
<1>6. ASSUME NEW r \in 1..Len(s) PROVE Tail(q)[r] = s[r]
  <2>1. r + 1 \in 1..(1 + Len(s)) /\ ~(r + 1 <= 1) /\ (r + 1) - 1 = r
    BY <1>2
  <2>2. QED
    BY <1>2, <1>5, <2>1
<1>7. Tail(q) = s
  BY <1>5, <1>6, SeqEqual
<1>8. QED
  BY <1>4, <1>7 DEF q, u

LEMMA LinesGrow ==
    ASSUME NEW n \in Nat
    PROVE  ReqLines(0, n) \o <<Line(ReqLine(n + 1))>> = ReqLines(0, n + 1)
<1> DEFINE T == LinesOf
           R == ReqLines(0, n)
           F == <<Line(ReqLine(n + 1))>>
           U == ReqLines(0, n + 1)
<1>1. 0 \in Nat /\ n + 1 \in Nat
  OBVIOUS
<1>2. R \in Seq(T) /\ Len(R) = n /\ \A r \in 1..n : R[r] = Line(ReqLine(r))
  <2>1. R \in Seq(T) /\ Len(R) = n /\ \A r \in 1..n : R[r] = Line(ReqLine(0 + r))
    BY <1>1, LinesIs
  <2>2. \A r \in 1..n : 0 + r = r
    OBVIOUS
  <2>3. QED
    BY <2>1, <2>2
<1>3. U \in Seq(T) /\ Len(U) = n + 1 /\ \A r \in 1..(n + 1) : U[r] = Line(ReqLine(r))
  <2>1. /\ U \in Seq(T) /\ Len(U) = n + 1
        /\ \A r \in 1..(n + 1) : U[r] = Line(ReqLine(0 + r))
    BY <1>1, LinesIs
  <2>2. \A r \in 1..(n + 1) : 0 + r = r
    OBVIOUS
  <2>3. QED
    BY <2>1, <2>2
<1>4. F \in Seq(T) /\ Len(F) = 1 /\ F[1] = Line(ReqLine(n + 1))
  <2>1. Line(ReqLine(n + 1)) \in T
    BY <1>1 DEF LinesOf
  <2> HIDE DEF T
  <2>2. QED
    BY <2>1
<1> HIDE DEF T, R, F, U
<1>5. /\ R \o F \in Seq(T) /\ Len(R \o F) = n + 1
      /\ \A r \in 1..(n + 1) : (R \o F)[r] = IF r <= n THEN R[r] ELSE F[r - n]
  <2>1. /\ R \o F \in Seq(T) /\ Len(R \o F) = Len(R) + Len(F)
        /\ \A r \in 1..(Len(R) + Len(F)) :
               (R \o F)[r] = IF r <= Len(R) THEN R[r] ELSE F[r - Len(R)]
    BY <1>2, <1>4, ConcatProperties
  <2>2. Len(R) = n /\ Len(F) = 1
    BY <1>2, <1>4
  <2>3. QED
    BY <2>1, <2>2
<1>6. ASSUME NEW r \in 1..(n + 1) PROVE (R \o F)[r] = U[r]
  <2>1. CASE r <= n
    BY <1>2, <1>3, <1>5, <2>1
  <2>2. CASE r = n + 1
    <3>1. ~(r <= n) /\ r - n = 1
      BY <2>2
    <3>2. (R \o F)[r] = F[1]
      BY <1>5, <3>1
    <3>3. QED
      BY <1>3, <1>4, <2>2, <3>2
  <2>3. r <= n \/ r = n + 1
    OBVIOUS
  <2>4. QED
    BY <2>1, <2>2, <2>3
<1>7. R \o F = U
  BY <1>3, <1>5, <1>6, SeqEqual
<1>8. QED
  BY <1>7 DEF R, F, U

\* What do_seedgen prints.
LEMMA SeedgenPrints ==
    <<Line(<<>>)>> \o [k \in 1..Counts |-> Line(<<SeedOf(k - 1), MsgOf(k - 1)>>)]
            \o <<Line(<<Finished>>)>>
        = <<Line(<<>>)>> \o ReqLines(0, Counts + 1)
<1> DEFINE T == LinesOf \cup {Line(<<>>)}
           R == [k \in 1..Counts |-> Line(<<SeedOf(k - 1), MsgOf(k - 1)>>)]
           F == <<Line(<<Finished>>)>>
           L == <<Line(<<>>)>>
<1>1. Counts \in Nat /\ Counts + 1 \in Nat /\ 0 \in Nat /\ ~(Counts + 1 <= Counts)
  BY DriverAssumption
<1>2. \A k \in 1..Counts : Line(<<SeedOf(k - 1), MsgOf(k - 1)>>) = Line(ReqLine(0 + k))
  BY <1>1 DEF ReqLine
<1>3. R = ReqLines(0, Counts)
  BY <1>2 DEF ReqLines
<1>4. Line(<<Finished>>) = Line(ReqLine(Counts + 1))
  BY <1>1 DEF ReqLine
<1>5. R \in Seq(LinesOf)
  BY <1>1, <1>3, LinesIs
<1>6. Line(<<Finished>>) \in T
  BY <1>1, <1>4 DEF LinesOf
<1>7. R \in Seq(T)
  BY <1>5, SeqMonotonic
<1>8. L \in Seq(T) /\ F \in Seq(T)
  <2>1. Line(<<>>) \in T
    OBVIOUS
  <2> HIDE DEF T
  <2>2. QED
    BY <1>6, <2>1
<1>9. R \o F = ReqLines(0, Counts + 1)
  BY <1>1, <1>3, <1>4, LinesGrow
<1> HIDE DEF T, R, F, L
<1>10. (L \o R) \o F = L \o (R \o F)
  BY <1>7, <1>8, ConcatAssociative
<1>11. (L \o R) \o F = L \o ReqLines(0, Counts + 1)
  BY <1>9, <1>10
<1>12. QED
  BY <1>11 DEF L, R, F

\* The files grow record by record.
LEMMA FilesGrow ==
    ASSUME NEW n \in Nat
    PROVE  /\ Len(ReqFile(n)) = n /\ Len(RspFile(n)) = n
           /\ Append(ReqFile(n), ReqLine(n + 1)) = ReqFile(n + 1)
           /\ Append(RspFile(n), RefRecord(n)) = RspFile(n + 1)
           /\ \A p \in 1..n : ReqFile(n)[p] = ReqLine(p)
           /\ ReqFile(0) = <<>> /\ RspFile(0) = <<>>
<1>1. Len(ReqFile(n)) = n /\ \A p \in 1..n : ReqFile(n)[p] = ReqLine(p)
  BY DEF ReqFile
<1>2. Len(RspFile(n)) = n
  BY DEF RspFile
<1>3. Append(ReqFile(n), ReqLine(n + 1)) = ReqFile(n + 1)
  BY DEF ReqFile
<1>4. Append(RspFile(n), RefRecord(n)) = RspFile(n + 1)
  <2>1. (n + 1) - 1 = n
    OBVIOUS
  <2>2. QED
    BY <2>1 DEF RspFile
<1>5. ReqFile(0) = <<>> /\ RspFile(0) = <<>>
  BY DEF ReqFile, RspFile
<1>6. QED
  BY <1>1, <1>2, <1>3, <1>4, <1>5

-----------------------------------------------------------------------------
\* Until the request file is complete.

\* Which steps of the device are taken then, and which while it serves.
LEMMA WhileDevSteps ==
    ASSUME DriverInv, DevStep
    PROVE  \/ Preparing /\ (DevBoot \/ DevSeedgen)
           \/ /\ Serving
              /\ \/ DevDrain \/ DevOther \/ DevSeedCmd \/ DevSeed \/ DevMsgCmd \/ DevInit
                 \/ DevMsg \/ DevPkCmd \/ DevKeygen \/ DevSkCmd \/ DevSmlCmd \/ DevReadSk
                 \/ DevSign \/ DevSmCmd \/ DevStopCmd
<1>1. PrepareInv /\ QueueInv
  BY DEF DriverInv
<1>2. Preparing => dpc \in {"boot", "seedgen", "drain"} /\ (dpc = "drain" => toDev = <<>>)
  BY <1>1 DEF PrepareInv, Preparing
<1>3. Serving => dpc \notin {"boot", "seedgen"}
  BY <1>1 DEF QueueInv
<1>4. dpc # "fault"
  BY DEF DevStep, DevBoot, DevSeedgen, DevDrain, DevOther, DevSeedCmd, DevSeed, DevMsgCmd,
         DevInit, DevMsg, DevPkCmd, DevKeygen, DevSkCmd, DevSmlCmd, DevReadSk, DevSign,
         DevSmCmd, DevStopCmd, DevRecv, DevRecvBytes, Command
<1>5. Preparing \/ Serving
  BY <1>4 DEF Serving
<1>6. CASE Preparing
  BY <1>2, <1>6
     DEF DevStep, DevBoot, DevSeedgen, DevDrain, DevOther, DevSeedCmd, DevSeed, DevMsgCmd,
         DevInit, DevMsg, DevPkCmd, DevKeygen, DevSkCmd, DevSmlCmd, DevReadSk, DevSign,
         DevSmCmd, DevStopCmd, DevRecv, DevRecvBytes, Command, CanRecv
<1>7. CASE Serving
  BY <1>3, <1>7 DEF DevStep, DevBoot, DevSeedgen, DevRecv
<1>8. QED
  BY <1>5, <1>6, <1>7

\* A step after which the request file is still not complete.
LEMMA PrepareNext ==
    ASSUME DriverInv, Preparing, Preparing', version' = version, dpc' # "fault",
           TypeOK', PrepareInv', FileInv'
    PROVE  DriverInv'
<1>1. ~Serving'
  BY DEF Serving
<1>2. QueueInv' /\ BufferInv' /\ WaitInv'
  BY <1>1 DEF QueueInv, BufferInv, WaitInv
<1>3. FaultInv' /\ version' \in Versions
  BY DEF FaultInv, DriverInv
<1>4. QED
  BY <1>2, <1>3 DEF DriverInv

\* What no step of the device touches.
LEMMA PrepareDev ==
    ASSUME DriverInv, Preparing, UNCHANGED <<version, host>>
    PROVE  Preparing' /\ FileInv' /\ (Streams' <=> Streams)
<1>1. Preparing' <=> Preparing
  BY DEF Preparing, host
<1>2. Streams' <=> Streams
  BY DEF Streams
<1>3. FileInv
  BY DEF DriverInv
<1>4. FileInv'
  BY <1>1, <1>2, <1>3 DEF FileInv, host
<1>5. QED
  BY <1>1, <1>2, <1>4

LEMMA StepBoot ==
    ASSUME DriverInv, Preparing, DevBoot, UNCHANGED <<version, host>>
    PROVE  DriverInv'
<1> USE DEF DevBoot, DevRecv, CanRecv
<1>1. PrepareInv /\ TypeOK
  BY DEF DriverInv
<1>2. hpc = "banner" /\ toDev = <<Ack>> /\ toHost = <<>>
  BY <1>1 DEF PrepareInv, Preparing
<1>3. toDev' = <<>>
  BY <1>2, DevGets
<1>4. PrepareInv'
  BY <1>1, <1>2, <1>3, PrepareDev DEF PrepareInv, host
<1>5. TypeOK'
  BY <1>1 DEF TypeOK, DevBusy, host
<1>6. QED
  BY <1>4, <1>5, PrepareDev, PrepareNext

LEMMA StepSeedgen ==
    ASSUME DriverInv, Preparing, DevSeedgen, UNCHANGED <<version, host>>
    PROVE  DriverInv'
<1> USE DEF DevSeedgen, SendHost
<1>1. PrepareInv /\ TypeOK
  BY DEF DriverInv
<1>2. hpc = "banner" /\ toDev = <<>> /\ toHost = <<>>
  BY <1>1 DEF PrepareInv, Preparing
<1>3. toHost' = <<Line(<<>>)>> \o ReqLines(0, Counts + 1)
  <2>1. <<Line(<<>>)>> \o ReqLines(0, Counts + 1) \in Seq(LinesOf \cup {Line(<<>>)})
    <3>1. /\ ReqLines(0, Counts + 1) \in Seq(LinesOf)
      BY LinesIs, DriverAssumption
    <3>2. ReqLines(0, Counts + 1) \in Seq(LinesOf \cup {Line(<<>>)})
      BY <3>1, SeqMonotonic
    <3> DEFINE T == LinesOf \cup {Line(<<>>)}
    <3>3. Line(<<>>) \in T
      OBVIOUS
    <3> HIDE DEF T
    <3>4. <<Line(<<>>)>> \in Seq(T)
      BY <3>3
    <3>5. QED
      BY <3>2, <3>4, ConcatProperties DEF T
  <2>2. QED
    BY <1>2, <2>1, SeedgenPrints, ConcatEmptySeq
<1>4. PrepareInv'
  BY <1>1, <1>2, <1>3, PrepareDev DEF PrepareInv, host
<1>5. TypeOK'
  BY <1>1 DEF TypeOK, DevRecvs, host
<1>6. QED
  BY <1>4, <1>5, PrepareDev, PrepareNext

LEMMA StepStart ==
    ASSUME DriverInv, HostStart, UNCHANGED <<version, dev>>
    PROVE  DriverInv'
<1> USE DEF HostStart, SendDev, dev
<1>1. PrepareInv /\ TypeOK /\ FileInv
  BY DEF DriverInv
<1>2. Preparing /\ Preparing' /\ (Streams' <=> Streams)
  BY DEF Preparing, Streams
<1>3. Streams /\ dpc = "boot" /\ toDev' = <<Ack>> /\ toHost' = <<>>
  BY <1>1, <1>2, Puts DEF PrepareInv
<1>4. PrepareInv'
  BY <1>1, <1>2, <1>3 DEF PrepareInv
<1>5. FileInv'
  BY <1>1, <1>2 DEF FileInv
<1>6. TypeOK'
  BY <1>1 DEF TypeOK, LineReads
<1>7. QED
  BY <1>2, <1>3, <1>4, <1>5, <1>6, PrepareNext

LEMMA StepBanner ==
    ASSUME DriverInv, HostBanner, UNCHANGED <<version, dev>>
    PROVE  DriverInv'
<1> USE DEF HostBanner, HostReadLine, dev
<1>1. PrepareInv /\ TypeOK /\ FileInv
  BY DEF DriverInv
<1>2. Preparing /\ Preparing' /\ (Streams' <=> Streams)
  BY DEF Preparing, Streams
<1>3. /\ dpc = "drain" /\ toDev = <<>> /\ req = <<>>
      /\ toHost = <<Line(<<>>)>> \o ReqLines(0, Counts + 1)
  BY <1>1, <1>2, HostGets DEF PrepareInv
<1>4. toHost' = ReqLines(0, Counts + 1)
  <2> DEFINE T == LinesOf \cup {Line(<<>>)}
             l == Line(<<>>)
             s == ReqLines(0, Counts + 1)
  <2>1. s \in Seq(LinesOf)
    BY LinesIs, DriverAssumption
  <2>2. s \in Seq(T) /\ l \in T /\ l.kind = "line"
    BY <2>1, SeqMonotonic DEF Line
  <2> HIDE DEF T, l, s
  <2>3. AfterReadLine(<<l>> \o s) = s
    BY <2>2, LineBefore
  <2>4. QED
    BY <1>3, <2>3 DEF l, s
<1>5. Len(req) = 0 /\ (Counts + 1) - Len(req) = Counts + 1
  BY <1>3, DriverAssumption
<1>6. PrepareInv'
  BY <1>1, <1>2, <1>3, <1>4, <1>5 DEF PrepareInv
<1>7. FileInv'
  BY <1>1, <1>2 DEF FileInv
<1>8. TypeOK'
  BY <1>1 DEF TypeOK, LineReads
<1>9. QED
  BY <1>2, <1>3, <1>6, <1>7, <1>8, PrepareNext

LEMMA StepReq ==
    ASSUME DriverInv, HostReq, UNCHANGED <<version, dev>>
    PROVE  DriverInv'
<1> USE DEF HostReq, HostReadLine, dev
<1>1. PrepareInv /\ TypeOK /\ FileInv
  BY DEF DriverInv
<1>2. Preparing /\ (Streams' <=> Streams)
  BY DEF Preparing, Streams
<1> DEFINE n == Len(req)
<1>3. /\ dpc = "drain" /\ toDev = <<>> /\ countPk = 0 /\ at = 0 /\ rsp = <<>>
      /\ toHost = ReqLines(n, Counts + 1 - n)
      /\ n \in Nat /\ n <= Counts /\ Counts \in Nat /\ req = ReqFile(n)
  BY <1>1, <1>2, DriverAssumption DEF PrepareInv, FileInv
<1> HIDE DEF n
<1>4. /\ LineRead(toHost).data = ReqLine(n + 1)
      /\ toHost' = ReqLines(n + 1, Counts - n)
  <2>1. Counts + 1 - n \in Nat /\ Counts + 1 - n > 0 /\ (Counts + 1 - n) - 1 = Counts - n
    BY <1>3
  <2>2. QED
    BY <1>3, <2>1, LinesTake
<1>5. CASE n < Counts
  <2>1. n + 1 <= Counts /\ ReqLine(n + 1) = <<SeedOf((n + 1) - 1), MsgOf((n + 1) - 1)>>
    BY <1>3, <1>5 DEF ReqLine
  <2>2. ReqLine(n + 1) # <<Finished>>
    <3> DEFINE f == <<Finished>>
    <3>1. Len(ReqLine(n + 1)) = 2
      BY <2>1
    <3>2. Len(f) = 1
      OBVIOUS
    <3> HIDE DEF f
    <3>3. ReqLine(n + 1) # f
      BY <3>1, <3>2
    <3>4. QED
      BY <3>3 DEF f
  <2>3. req' = Append(ReqFile(n), ReqLine(n + 1)) /\ hpc' = "req"
    BY <1>3, <1>4, <2>2
  <2>4. req' = ReqFile(n + 1) /\ Len(req') = n + 1
    <3>1. n + 1 \in Nat
      BY <1>3
    <3>2. QED
      BY <1>3, <2>3, <3>1, FilesGrow
  <2>5. Preparing'
    BY <2>3 DEF Preparing
  <2>6. Counts + 1 - (n + 1) = Counts - n
    BY <1>3
  <2>7. PrepareInv'
    BY <1>1, <1>2, <1>3, <1>4, <2>3, <2>4, <2>6 DEF PrepareInv, n
  <2>8. FileInv'
    BY <1>1, <1>2, <1>3, <2>1, <2>3, <2>4, <2>5 DEF FileInv
  <2>9. TypeOK'
    BY <1>1, <2>1, <2>3, <2>4 DEF TypeOK
  <2>10. QED
    BY <1>2, <1>3, <2>5, <2>7, <2>8, <2>9, PrepareNext
<1>6. CASE n = Counts
  <2>1. ReqLine(n + 1) = <<Finished>>
    <3>1. ~(n + 1 <= Counts)
      BY <1>3, <1>6
    <3>2. QED
      BY <3>1 DEF ReqLine
  <2>2. req' = req /\ hpc' = "lines"
    BY <1>4, <2>1
  <2>3. toHost' = <<>>
    <3>1. n + 1 \in Nat /\ 0 \in Nat /\ Counts - n = 0
      BY <1>3, <1>6
    <3>2. ReqLines(n + 1, 0) = <<>>
      BY <3>1, LinesIs
    <3>3. QED
      BY <1>4, <3>1, <3>2
  <2>4. ~Preparing' /\ Serving' /\ version' \in Versions
    BY <1>3, <2>2 DEF Preparing, Serving, DriverInv
  <2>5. Put' = 0 /\ Got' = 0
    <3>1. Put' = 0
      BY <2>2, PutNext
    <3>2. toDev' = <<>> /\ Len(toDev') = 0
      BY <1>3
    <3>3. Got' = Put' - Len(toDev')
      BY DEF Got
    <3>4. QED
      BY <3>1, <3>2, <3>3
  <2>6. OnTheWay'
    <3>1. Items(0, 0, 0) = <<>>
      <4>1. 0 \in Nat /\ 0 <= 0
        OBVIOUS
      <4>2. QED
        BY <4>1, ItemsIs
    <3>2. Len(toDev') \in 0..Put' /\ toDev' = Items(at', Got', Put')
      BY <1>3, <2>5, <3>1
    <3>3. QED
      BY <3>2, SameVersion DEF OnTheWay
  <2>7. ~Inited' /\ ~KeyDone' /\ ~Signed'
    BY <2>5, Positions, SameVersion DEF Inited, KeyDone, Signed
  <2>8. QueueInv'
    BY <1>3, <2>5, <2>6, Positions, SameVersion DEF QueueInv
  <2>9. BufferInv'
    BY <1>3, <2>5, <2>7, Positions, SameVersion DEF BufferInv
  <2>10. WaitInv'
    BY <2>2, <2>3 DEF WaitInv
  <2>11. PrepareInv' /\ FaultInv'
    BY <1>3, <2>4 DEF PrepareInv, FaultInv
  <2>12. FileInv'
    BY <1>1, <1>2, <1>3, <1>6, <2>2, <2>4 DEF FileInv
  <2>13. TypeOK'
    BY <1>1, <2>2 DEF TypeOK
  <2>14. QED
    BY <2>4, <2>8, <2>9, <2>10, <2>11, <2>12, <2>13 DEF DriverInv
<1>7. QED
  BY <1>3, <1>5, <1>6

-----------------------------------------------------------------------------
\* The host's steps.

\* The items of one command code, and single items.
LEMMA CodeItems ==
    ASSUME NEW k, NEW p \in Nat, NEW c,
           Item(k, p + 1) = Byte(0), Item(k, p + 2) = Byte(0), Item(k, p + 3) = Byte(0),
           Item(k, p + 4) = Byte(c)
    PROVE  CodeBytes(c) = Items(k, p, p + 4)
<1>1. (p + 4) - p = 4
  OBVIOUS
<1>2. Items(k, p, p + 4) = [r \in 1..4 |-> Item(k, p + r)]
  BY <1>1 DEF Items
<1>3. [r \in 1..4 |-> Item(k, p + r)] = <<Byte(0), Byte(0), Byte(0), Byte(c)>>
  OBVIOUS
<1>4. QED
  BY <1>2, <1>3 DEF CodeBytes

LEMMA OneItem ==
    ASSUME NEW k, NEW p \in Nat
    PROVE  Items(k, p, p + 1) = <<Item(k, p + 1)>>
<1>1. (p + 1) - p = 1
  OBVIOUS
<1>2. Items(k, p, p + 1) = [r \in 1..1 |-> Item(k, p + r)]
  BY <1>1 DEF Items
<1>3. QED
  BY <1>2

\* What the host writes in each of its steps.
LEMMA Writes ==
    ASSUME NEW k \in 0..Counts, k < Counts
    PROVE  /\ CodeBytes(SeedCode) \o <<Burst(<<SeedOf(k)>>)>> = Items(k, 0, 5)
           /\ Streams => CodeBytes(MsgCode) = Items(k, 5, MsgCodeAt)
           /\ ~Streams => <<Byte(MsgCode), Burst(<<MsgOf(k)>>)>> = Items(k, 5, MsgAt)
           /\ Streams => <<Burst(<<MsgOf(k)>>)>> = Items(k, MsgCodeAt, MsgAt)
           /\ CodeBytes(PkCode) = Items(k, MsgAt, PkAt)
           /\ CodeBytes(SkCode) = Items(k, PkAt, SkAt)
           /\ CodeBytes(SmlCode) = Items(k, SkAt, SmlAt)
           /\ Streams => <<Burst(<<KeyFrom(k)>>)>> = Items(k, SmlAt, SigAt)
           /\ CodeBytes(SmCode) = Items(k, SigAt, SmAt)
<1>1. k # Counts
  BY DriverAssumption
<1>2. CodeBytes(SeedCode) \o <<Burst(<<SeedOf(k)>>)>> = Items(k, 0, 5)
  <2>1. /\ Item(k, 0 + 1) = Byte(0) /\ Item(k, 0 + 2) = Byte(0) /\ Item(k, 0 + 3) = Byte(0)
        /\ Item(k, 0 + 4) = Byte(SeedCode)
    BY <1>1, Positions DEF Item, CodeAt
  <2>2. CodeBytes(SeedCode) = Items(k, 0, 0 + 4)
    BY <2>1, CodeItems
  <2>3. 0 + 4 = 4 /\ 4 + 1 = 5 /\ 0 \in Nat /\ 4 \in Nat /\ 5 \in Nat /\ 0 <= 4 /\ 4 <= 5
    OBVIOUS
  <2>4. <<Burst(<<SeedOf(k)>>)>> = Items(k, 4, 4 + 1)
    <3>1. Items(k, 4, 4 + 1) = <<Item(k, 4 + 1)>>
      BY <2>3, OneItem
    <3>2. QED
      BY <2>3, <3>1, Payload
  <2>5. Items(k, 0, 4) \o Items(k, 4, 5) = Items(k, 0, 5)
    BY <2>3, ItemsJoin
  <2>6. QED
    BY <2>2, <2>3, <2>4, <2>5
<1>3. ASSUME Streams PROVE CodeBytes(MsgCode) = Items(k, 5, MsgCodeAt)
  <2>1. MsgCodeAt = 5 + 4
    BY <1>3, Positions
  <2>2. /\ Item(k, 5 + 1) = Byte(0) /\ Item(k, 5 + 2) = Byte(0) /\ Item(k, 5 + 3) = Byte(0)
        /\ Item(k, 5 + 4) = Byte(MsgCode)
    BY <1>1, <1>3, Positions DEF Item, CodeAt
  <2>3. QED
    BY <2>1, <2>2, CodeItems
<1>4. ASSUME ~Streams
      PROVE  <<Byte(MsgCode), Burst(<<MsgOf(k)>>)>> = Items(k, 5, MsgAt)
  <2>1. MsgCodeAt = 6 /\ MsgAt = 7
    BY <1>4, Positions
  <2>2. Item(k, 6) = Byte(MsgCode) /\ Item(k, 7) = Burst(<<MsgOf(k)>>)
    BY <1>1, <1>4, <2>1, Positions DEF Item, CodeAt
  <2>3. 5 + 1 = 6 /\ 6 + 1 = 7 /\ 5 \in Nat /\ 6 \in Nat /\ 7 \in Nat /\ 5 <= 6 /\ 6 <= 7
    OBVIOUS
  <2>4. Items(k, 5, 6) = <<Byte(MsgCode)>> /\ Items(k, 6, 7) = <<Burst(<<MsgOf(k)>>)>>
    BY <2>2, <2>3, OneItem
  <2>5. Items(k, 5, 6) \o Items(k, 6, 7) = Items(k, 5, 7)
    BY <2>3, ItemsJoin
  <2>6. QED
    BY <2>1, <2>4, <2>5, TwoItems
<1>5. ASSUME Streams PROVE <<Burst(<<MsgOf(k)>>)>> = Items(k, MsgCodeAt, MsgAt)
  <2>1. MsgCodeAt \in Nat /\ MsgAt = MsgCodeAt + 1
    BY Positions
  <2>2. QED
    BY <2>1, OneItem, Payload
<1>6. CodeBytes(PkCode) = Items(k, MsgAt, PkAt)
  <2>1. MsgAt \in Nat /\ PkAt = MsgAt + 4
    BY Positions
  <2>2. /\ Item(k, MsgAt + 1) = Byte(0) /\ Item(k, MsgAt + 2) = Byte(0)
        /\ Item(k, MsgAt + 3) = Byte(0) /\ Item(k, MsgAt + 4) = Byte(PkCode)
    BY <1>1, Positions DEF Item, CodeAt
  <2>3. QED
    BY <2>1, <2>2, CodeItems
<1>7. CodeBytes(SkCode) = Items(k, PkAt, SkAt)
  <2>1. PkAt \in Nat /\ SkAt = PkAt + 4
    BY Positions
  <2>2. /\ Item(k, PkAt + 1) = Byte(0) /\ Item(k, PkAt + 2) = Byte(0)
        /\ Item(k, PkAt + 3) = Byte(0) /\ Item(k, PkAt + 4) = Byte(SkCode)
    BY <1>1, Positions DEF Item, CodeAt
  <2>3. QED
    BY <2>1, <2>2, CodeItems
<1>8. CodeBytes(SmlCode) = Items(k, SkAt, SmlAt)
  <2>1. SkAt \in Nat /\ SmlAt = SkAt + 4
    BY Positions
  <2>2. /\ Item(k, SkAt + 1) = Byte(0) /\ Item(k, SkAt + 2) = Byte(0)
        /\ Item(k, SkAt + 3) = Byte(0) /\ Item(k, SkAt + 4) = Byte(SmlCode)
    BY <1>1, Positions DEF Item, CodeAt
  <2>3. QED
    BY <2>1, <2>2, CodeItems
<1>9. ASSUME Streams PROVE <<Burst(<<KeyFrom(k)>>)>> = Items(k, SmlAt, SigAt)
  <2>1. SmlAt \in Nat /\ SigAt = SmlAt + 1
    BY <1>9, Positions
  <2>2. QED
    BY <1>9, <2>1, OneItem, Payload
<1>10. CodeBytes(SmCode) = Items(k, SigAt, SmAt)
  <2>1. SigAt \in Nat /\ SmAt = SigAt + 4
    BY Positions
  <2>2. /\ Item(k, SigAt + 1) = Byte(0) /\ Item(k, SigAt + 2) = Byte(0)
        /\ Item(k, SigAt + 3) = Byte(0) /\ Item(k, SigAt + 4) = Byte(SmCode)
    BY <1>1, Positions DEF Item, CodeAt
  <2>3. QED
    BY <2>1, <2>2, CodeItems
<1>11. QED
  BY <1>2, <1>3, <1>4, <1>5, <1>6, <1>7, <1>8, <1>9, <1>10

LEMMA WritesStop == CodeBytes(StopCode) = Items(Counts, 0, 4)
<1>1. /\ Item(Counts, 0 + 1) = Byte(0) /\ Item(Counts, 0 + 2) = Byte(0)
      /\ Item(Counts, 0 + 3) = Byte(0) /\ Item(Counts, 0 + 4) = Byte(StopCode)
  BY DEF Item
<1>2. 0 + 4 = 4
  OBVIOUS
<1>3. QED
  BY <1>1, <1>2, CodeItems

\* What no step of the host touches once it has the request file.
LEMMA HostFrame ==
    ASSUME DriverInv, UNCHANGED <<version, dev>>, ~Preparing, ~Preparing'
    PROVE  /\ Streams' = Streams /\ version' \in Versions
           /\ MsgCodeAt' = MsgCodeAt /\ MsgAt' = MsgAt /\ PkAt' = PkAt /\ SkAt' = SkAt
           /\ SmlAt' = SmlAt /\ SigAt' = SigAt /\ SmAt' = SmAt
           /\ (Serving' <=> Serving) /\ dpc' = dpc /\ PrepareInv'
           /\ Len(req) = Counts /\ req = ReqFile(Counts) /\ Counts \in Nat
<1>1. dpc' = dpc /\ version' \in Versions
  BY DEF dev, DriverInv
<1>2. Serving' <=> Serving
  BY <1>1 DEF Serving
<1>3. PrepareInv'
  BY DEF PrepareInv
<1>4. Counts \in Nat
  BY DriverAssumption
<1>5. req = ReqFile(Counts)
  BY DEF DriverInv, FileInv
<1>6. Len(req) = Counts
  BY <1>4, <1>5, FilesGrow
<1>7. QED
  BY <1>1, <1>2, <1>3, <1>4, <1>5, <1>6, SameVersion

\* A step in the service of one test vector.
LEMMA HostNext ==
    ASSUME DriverInv, Serving, UNCHANGED <<version, dev, at>>, ~Preparing',
           Got' = Got, OnTheWay', TypeOK', FileInv', WaitInv'
    PROVE  DriverInv'
<1>1. ~Preparing /\ QueueInv /\ BufferInv /\ dpc # "fault"
  BY DEF Serving, DriverInv
<1>2. UNCHANGED <<dpc, drbg, seed, countPk, m, sk, sm>>
  BY DEF dev
<1>3. (Inited' <=> Inited) /\ (KeyDone' <=> KeyDone) /\ (Signed' <=> Signed)
  BY <1>1, <1>2, HostFrame DEF Inited, KeyDone, Signed
<1>4. QueueInv'
  BY <1>1, <1>2, HostFrame DEF QueueInv
<1>5. BufferInv'
  BY <1>1, <1>2, <1>3, HostFrame DEF BufferInv
<1>6. FaultInv'
  BY <1>1, <1>2 DEF FaultInv
<1>7. QED
  BY <1>1, <1>4, <1>5, <1>6, HostFrame DEF DriverInv

\* A step after free(sm) has faulted.
LEMMA FaultNext ==
    ASSUME DriverInv, dpc = "fault", UNCHANGED <<version, dev>>, ~Preparing, ~Preparing',
           TypeOK', FileInv', FaultInv'
    PROVE  DriverInv'
<1>1. ~Serving'
  BY HostFrame DEF Serving
<1>2. QueueInv' /\ BufferInv' /\ WaitInv'
  BY <1>1 DEF QueueInv, BufferInv, WaitInv
<1>3. QED
  BY <1>2, HostFrame DEF DriverInv

\* The flags do not change with the host.
LEMMA SameFlags ==
    ASSUME DriverInv, UNCHANGED <<version, dev>>, ~Preparing, ~Preparing', Got' = Got
    PROVE  (Inited' <=> Inited) /\ (KeyDone' <=> KeyDone) /\ (Signed' <=> Signed)
  BY HostFrame DEF Inited, KeyDone, Signed

\* Nothing is written.
LEMMA PutNothing ==
    ASSUME DriverInv, Serving, UNCHANGED <<version, at, toDev>>, Put' = Put
    PROVE  Got' = Got /\ OnTheWay'
<1>1. Got' = Got
  BY DEF Got
<1>2. OnTheWay
  BY DEF DriverInv, QueueInv
<1>3. QED
  BY <1>1, <1>2, SameVersion DEF OnTheWay

\* A step changes the label, at most, of what TypeOK is about.
LEMMA HostType ==
    ASSUME DriverInv, UNCHANGED <<version, dev, at, req>>,
           hpc' \in {"lines", "msgLine", "msgReady", "pkLine", "keygen", "pkDone", "skDone",
                     "skReady", "sign", "smlDone", "smDone", "stopDone", "finished"}
    PROVE  TypeOK' /\ ~Preparing'
<1>1. UNCHANGED <<dpc, seed, countPk, m>>
  BY DEF dev
<1>2. TypeOK
  BY DEF DriverInv
<1>3. QED
  BY <1>1, <1>2 DEF TypeOK, ByteReads, LineReads, Preparing

\* The test vector the host is in.
LEMMA Entry ==
    ASSUME DriverInv, ~Preparing, at # Counts
    PROVE  /\ at \in 0..Counts /\ at \in Nat /\ at < Counts /\ Counts \in Nat
           /\ req[at + 1] = <<SeedOf(at), MsgOf(at)>>
           /\ req[at + 1][1] = SeedOf(at) /\ req[at + 1][2] = MsgOf(at)
<1>1. at \in 0..Counts /\ at \in Nat /\ at < Counts /\ Counts \in Nat
  BY DriverAssumption DEF DriverInv, TypeOK
<1>2. req = ReqFile(Counts)
  BY DEF DriverInv, FileInv
<1>3. at + 1 \in 1..Counts /\ at + 1 <= Counts /\ (at + 1) - 1 = at
  BY <1>1
<1>4. req[at + 1] = ReqLine(at + 1)
  BY <1>1, <1>2, <1>3, FilesGrow
<1>5. req[at + 1] = <<SeedOf(at), MsgOf(at)>>
  BY <1>3, <1>4 DEF ReqLine
<1>6. req[at + 1][1] = SeedOf(at) /\ req[at + 1][2] = MsgOf(at)
  BY <1>5
<1>7. QED
  BY <1>1, <1>5, <1>6

LEMMA StepHostSeed ==
    ASSUME DriverInv, HostSeed, UNCHANGED <<version, dev>>
    PROVE  DriverInv'
<1> USE DEF HostSeed, SendDev
<1>1. ~Preparing /\ ~Preparing' /\ TypeOK' /\ FileInv
  BY HostType DEF Preparing, DriverInv
<1>2. Len(req) = Counts /\ Counts \in Nat /\ at \in 0..Counts
  BY <1>1, HostFrame DEF DriverInv, TypeOK
<1>3. at # Counts /\ at < Counts
  BY <1>2
<1>4. FileInv'
  BY <1>1, <1>3, HostFrame DEF FileInv
<1>5. CASE Serving
  <2>1. Put = 0 /\ Put' = 5 /\ toHost = <<>> /\ 5 \in Nat /\ Put <= 5
    BY <1>5, PutAt, PutNext DEF DriverInv, WaitInv
  <2>2. toDev' = toDev \o Items(at, Put, 5)
    <3>1. toDev' = toDev \o (CodeBytes(SeedCode) \o <<Burst(<<SeedOf(at)>>)>>)
      BY <1>1, <1>3, Entry
    <3>2. CodeBytes(SeedCode) \o <<Burst(<<SeedOf(at)>>)>> = Items(at, 0, 5)
      BY <1>2, <1>3, Writes
    <3>3. QED
      BY <2>1, <3>1, <3>2
  <2>3. Got' = Got /\ OnTheWay'
    BY <1>5, <2>1, <2>2, PutItems
  <2>4. WaitInv'
    BY <1>1, <1>2, <2>1, HostFrame DEF WaitInv
  <2>5. QED
    BY <1>1, <1>4, <1>5, <2>3, <2>4, HostNext
<1>6. CASE dpc = "fault"
  <2>1. FaultInv'
    BY <1>1, <1>6, HostFrame DEF FaultInv, DriverInv
  <2>2. QED
    BY <1>1, <1>4, <1>6, <2>1, FaultNext
<1>7. QED
  BY <1>1, <1>5, <1>6 DEF Serving

LEMMA StepMsgCode ==
    ASSUME DriverInv, HostMsgCode, UNCHANGED <<version, dev>>
    PROVE  DriverInv'
<1> USE DEF HostMsgCode, SendDev
<1>1. ~Preparing /\ ~Preparing' /\ TypeOK' /\ FileInv
  BY HostType DEF Preparing, DriverInv
<1>2. at # Counts
  BY <1>1 DEF FileInv
<1>3. hpc' = IF Streams THEN "msgReady" ELSE "pkLine"
  OBVIOUS
<1>4. FileInv'
  BY <1>1, <1>2, <1>3, HostFrame DEF FileInv
<1>5. CASE Serving
  <2> DEFINE n == IF Streams THEN MsgCodeAt ELSE MsgAt
  <2>1. Put = 5 /\ Put' = n /\ toHost = <<>> /\ n \in Nat /\ Put <= n
    BY <1>1, <1>3, <1>5, HostFrame, PutAt, PutNext, Positions DEF DriverInv, WaitInv
  <2>2. toDev' = toDev \o Items(at, Put, n)
    BY <1>1, <1>2, <2>1, Entry, Writes
  <2> HIDE DEF n
  <2>3. Got' = Got /\ OnTheWay' /\ Got <= 5 /\ Got \in Nat
    BY <1>5, <2>1, <2>2, PutItems, Where
  <2>4. ~Inited /\ ~Inited'
    BY <1>1, <2>3, SameFlags, Positions DEF Inited
  <2>5. WaitInv'
    BY <1>1, <1>3, <2>1, <2>4, HostFrame DEF WaitInv
  <2>6. QED
    BY <1>1, <1>4, <1>5, <2>3, <2>5, HostNext
<1>6. CASE dpc = "fault"
  <2>1. FaultInv'
    BY <1>1, <1>3, <1>6, HostFrame DEF FaultInv, DriverInv
  <2>2. QED
    BY <1>1, <1>4, <1>6, <2>1, FaultNext
<1>7. QED
  BY <1>1, <1>5, <1>6 DEF Serving

LEMMA StepHostMsg ==
    ASSUME DriverInv, HostMsg, UNCHANGED <<version, dev>>
    PROVE  DriverInv'
<1> USE DEF HostMsg, HostReadByte, SendDev
<1>1. ~Preparing /\ ~Preparing' /\ TypeOK' /\ FileInv /\ Serving
  <2>1. dpc # "fault"
    BY HostGets DEF DriverInv, FaultInv
  <2>2. QED
    BY <2>1, HostType DEF Preparing, Serving, DriverInv
<1>2. at # Counts
  BY <1>1 DEF FileInv
<1>3. Streams /\ Inited /\ toHost' = <<>>
  BY <1>1, HostGets DEF DriverInv, WaitInv, FileInv
<1>4. FileInv'
  BY <1>1, <1>2, HostFrame DEF FileInv
<1>5. Put = MsgCodeAt /\ Put' = MsgAt /\ MsgAt \in Nat /\ Put <= MsgAt
  BY <1>1, HostFrame, PutAt, PutNext, Positions
<1>6. toDev' = toDev \o Items(at, Put, MsgAt)
  BY <1>1, <1>2, <1>3, <1>5, Entry, Writes
<1>7. Got' = Got /\ OnTheWay'
  BY <1>1, <1>5, <1>6, PutItems
<1>8. WaitInv'
  BY <1>1, <1>3, <1>7, HostFrame, SameFlags DEF WaitInv
<1>9. QED
  BY <1>1, <1>4, <1>7, <1>8, HostNext

LEMMA StepPkCode ==
    ASSUME DriverInv, HostPkCode, UNCHANGED <<version, dev>>
    PROVE  DriverInv'
<1> USE DEF HostPkCode, SendDev
<1>1. ~Preparing /\ ~Preparing' /\ TypeOK' /\ FileInv /\ Serving
  BY HostType DEF Preparing, Serving, DriverInv, FaultInv
<1>2. at \in 0..Counts /\ at < Counts
  BY <1>1, DriverAssumption DEF DriverInv, TypeOK, FileInv, Preparing
<1>3. toHost = <<>> /\ (Streams => Inited)
  BY <1>1 DEF DriverInv, WaitInv
<1>4. FileInv'
  BY <1>1, <1>2, HostFrame DEF FileInv
<1>5. Put = MsgAt /\ Put' = PkAt /\ PkAt \in Nat /\ Put <= PkAt
  BY <1>1, HostFrame, PutAt, PutNext, Positions
<1>6. toDev' = toDev \o Items(at, Put, PkAt)
  BY <1>2, <1>5, Writes
<1>7. Got' = Got /\ OnTheWay' /\ Got <= MsgAt /\ Got \in Nat
  BY <1>1, <1>5, <1>6, PutItems, Where
<1>8. ~KeyDone
  BY <1>7, Positions DEF KeyDone
<1>9. WaitInv'
  BY <1>1, <1>3, <1>7, <1>8, HostFrame, SameFlags DEF WaitInv
<1>10. QED
  BY <1>1, <1>4, <1>7, <1>9, HostNext

\* The first of two lines is read.
LEMMA TwoLines ==
    \A x, y : LET q == <<Line(x), Line(y)>>
              IN CanReadLine(q) /\ LineRead(q).data = x /\ AfterReadLine(q) = <<Line(y)>>
<1>1. ASSUME NEW x, NEW y
      PROVE  /\ CanReadLine(<<Line(x), Line(y)>>)
             /\ LineRead(<<Line(x), Line(y)>>).data = x
             /\ AfterReadLine(<<Line(x), Line(y)>>) = <<Line(y)>>
  <2> DEFINE a == Line(x)
             b == Line(y)
             T == {a, b}
             t == <<b>>
  <2>1. a \in T /\ a.kind = "line" /\ a.data = x
    BY DEF Line
  <2>2. t \in Seq(T)
    OBVIOUS
  <2>3. <<a>> \o t = <<a, b>>
    BY TwoItems
  <2> HIDE DEF T, t, a, b
  <2>4. CanReadLine(<<a>> \o t) /\ LineRead(<<a>> \o t) = a /\ AfterReadLine(<<a>> \o t) = t
    BY <2>1, <2>2, LineBefore
  <2>5. QED
    BY <2>1, <2>3, <2>4 DEF t, a, b
<1>2. QED
  BY <1>1

LEMMA StepHostKeygen ==
    ASSUME DriverInv, HostKeygen, UNCHANGED <<version, dev>>
    PROVE  DriverInv'
<1> USE DEF HostKeygen, HostReadLine
<1>1. ~Preparing /\ ~Preparing' /\ TypeOK' /\ FileInv /\ Serving
  BY HostType DEF Preparing, Serving, DriverInv, FaultInv
<1>2. at # Counts
  BY <1>1 DEF FileInv
<1>3. KeyDone /\ toHost = <<Line(<<KeyFrom(at)>>), Line(<<>>)>>
  BY <1>1, HostGets DEF DriverInv, WaitInv
<1>4. hkey' = KeyPair(KeyFrom(at), KeyFrom(at)) /\ toHost' = <<Line(<<>>)>>
  BY <1>3, TwoLines
<1>5. FileInv'
  BY <1>1, <1>2, <1>4, HostFrame DEF FileInv
<1>6. Put' = Put
  BY <1>1, HostFrame, PutAt, PutNext
<1>7. Got' = Got /\ OnTheWay'
  BY <1>1, <1>6, PutNothing
<1>8. WaitInv'
  BY <1>1, <1>3, <1>4, <1>7, HostFrame, SameFlags DEF WaitInv
<1>9. QED
  BY <1>1, <1>5, <1>7, <1>8, HostNext

LEMMA StepHostPk ==
    ASSUME DriverInv, HostPk, UNCHANGED <<version, dev>>
    PROVE  DriverInv'
<1> USE DEF HostPk, HostReadLine, SendDev
<1>1. ~Preparing /\ ~Preparing' /\ TypeOK' /\ FileInv /\ Serving
  BY HostType DEF Preparing, Serving, DriverInv, FaultInv
<1>2. at # Counts
  BY <1>1 DEF FileInv
<1>3. KeyDone /\ toHost = <<Line(<<KeyFrom(at)>>)>>
  BY <1>1, HostGets DEF DriverInv, WaitInv
<1>4. hkey' = KeyPair(KeyFrom(at), Unset) /\ toHost' = <<>>
  BY <1>3, HostGets
<1>5. FileInv'
  BY <1>1, <1>2, <1>4, HostFrame DEF FileInv
<1>6. Put = PkAt /\ Put' = SkAt /\ SkAt \in Nat /\ Put <= SkAt
  BY <1>1, HostFrame, PutAt, PutNext, Positions
<1>7. toDev' = toDev \o Items(at, Put, SkAt)
  BY <1>1, <1>2, <1>6, Entry, Writes
<1>8. Got' = Got /\ OnTheWay' /\ Got <= PkAt /\ Got \in Nat
  BY <1>1, <1>6, <1>7, PutItems, Where
<1>9. Got' < SkAt'
  BY <1>1, <1>8, HostFrame, Positions
<1>10. WaitInv'
  BY <1>1, <1>3, <1>4, <1>8, <1>9, HostFrame, SameFlags DEF WaitInv
<1>11. QED
  BY <1>1, <1>5, <1>8, <1>10, HostNext

LEMMA StepSkCode ==
    ASSUME DriverInv, HostSkCode, UNCHANGED <<version, dev>>
    PROVE  DriverInv'
<1> USE DEF HostSkCode, HostReadLine, SendDev
<1>1. ~Preparing /\ ~Preparing' /\ TypeOK' /\ FileInv /\ Serving
  BY HostType DEF Preparing, Serving, DriverInv, FaultInv
<1>2. at # Counts /\ Streams
  BY <1>1 DEF FileInv
<1>3. KeyDone /\ toHost = <<Line(<<>>)>>
  BY <1>1, HostGets DEF DriverInv, WaitInv
<1>4. toHost' = <<>>
  BY <1>3, HostGets
<1>5. FileInv'
  BY <1>1, <1>2, HostFrame DEF FileInv
<1>6. Put = PkAt /\ Put' = SkAt /\ SkAt \in Nat /\ Put <= SkAt
  BY <1>1, HostFrame, PutAt, PutNext, Positions
<1>7. toDev' = toDev \o Items(at, Put, SkAt)
  BY <1>1, <1>2, <1>6, Entry, Writes
<1>8. Got' = Got /\ OnTheWay' /\ Got <= PkAt /\ Got \in Nat
  BY <1>1, <1>6, <1>7, PutItems, Where
<1>9. Got' < SkAt'
  BY <1>1, <1>8, HostFrame, Positions
<1>10. WaitInv'
  BY <1>1, <1>3, <1>4, <1>8, <1>9, HostFrame, SameFlags DEF WaitInv
<1>11. QED
  BY <1>1, <1>5, <1>8, <1>10, HostNext

LEMMA StepSmlCode ==
    ASSUME DriverInv, HostSmlCode, UNCHANGED <<version, dev>>
    PROVE  DriverInv'
<1> USE DEF HostSmlCode, HostReadLine, SendDev
<1>1. ~Preparing /\ ~Preparing' /\ TypeOK' /\ FileInv /\ Serving
  BY HostType DEF Preparing, Serving, DriverInv, FaultInv
<1>2. at # Counts
  BY <1>1 DEF FileInv
<1>3. /\ ~(Got < SkAt) /\ KeyDone
      /\ toHost = <<Line(IF Streams THEN <<>> ELSE <<KeyFrom(at)>>)>>
  BY <1>1, HostGets DEF DriverInv, WaitInv
<1>4. toHost' = <<>> /\ hkey' = KeyPair(KeyFrom(at), KeyFrom(at))
  <2>1. toHost' = <<>>
    BY <1>3, HostGets
  <2>2. CASE Streams
    <3>1. hkey' = hkey /\ hpc = "skDone"
      BY <2>2
    <3>2. hkey = KeyPair(KeyFrom(at), KeyFrom(at))
      BY <1>1, <2>2, <3>1 DEF FileInv
    <3>3. QED
      BY <2>1, <3>1, <3>2
  <2>3. CASE ~Streams
    <3>1. hkey = KeyPair(KeyFrom(at), Unset)
      BY <1>1, <2>3 DEF FileInv
    <3>2. LineRead(toHost).data[1] = KeyFrom(at)
      BY <1>3, <2>3, HostGets
    <3>3. hkey' = [hkey EXCEPT !.sk = KeyFrom(at)]
      BY <2>3, <3>2
    <3>4. hkey' = KeyPair(KeyFrom(at), KeyFrom(at))
      BY <3>1, <3>3 DEF KeyPair
    <3>5. QED
      BY <2>1, <3>4
  <2>4. QED
    BY <2>1, <2>2, <2>3
<1>5. hpc' = IF Streams THEN "skReady" ELSE "smlDone"
  OBVIOUS
<1>6. FileInv'
  BY <1>1, <1>2, <1>4, <1>5, HostFrame DEF FileInv
<1>7. Put = SkAt /\ Put' = SmlAt /\ SmlAt \in Nat /\ Put <= SmlAt
  BY <1>1, <1>5, HostFrame, PutAt, PutNext, Positions
<1>8. toDev' = toDev \o Items(at, Put, SmlAt)
  BY <1>1, <1>2, <1>7, Entry, Writes
<1>9. Got' = Got /\ OnTheWay' /\ Got <= SkAt /\ Got \in Nat
  BY <1>1, <1>7, <1>8, PutItems, Where
<1>10. Got' < SmlAt' /\ Got' >= SkAt' /\ ~Signed
  BY <1>1, <1>3, <1>9, HostFrame, Positions DEF Signed
<1>11. WaitInv'
  BY <1>1, <1>3, <1>4, <1>5, <1>9, <1>10, HostFrame, SameFlags DEF WaitInv
<1>12. QED
  BY <1>1, <1>6, <1>9, <1>11, HostNext

LEMMA StepSendSk ==
    ASSUME DriverInv, HostSendSk, UNCHANGED <<version, dev>>
    PROVE  DriverInv'
<1> USE DEF HostSendSk, HostReadByte, SendDev
<1>1. ~Preparing /\ ~Preparing' /\ TypeOK' /\ FileInv /\ Serving
  BY HostType DEF Preparing, Serving, DriverInv, FaultInv
<1>2. at # Counts /\ Streams /\ hkey.sk = KeyFrom(at)
  BY <1>1 DEF FileInv, KeyPair
<1>3. ~(Got < SmlAt) /\ toHost = <<Ready>>
  BY <1>1, HostGets DEF DriverInv, WaitInv
<1>4. toHost' = <<>>
  BY <1>3, HostGets
<1>5. FileInv'
  BY <1>1, <1>2, HostFrame DEF FileInv
<1>6. Put = SmlAt /\ Put' = SigAt /\ SigAt \in Nat /\ Put <= SigAt
  BY <1>1, HostFrame, PutAt, PutNext, Positions
<1>7. toDev' = toDev \o Items(at, Put, SigAt)
  BY <1>1, <1>2, <1>6, Entry, Writes
<1>8. Got' = Got /\ OnTheWay' /\ Got <= SmlAt /\ Got \in Nat
  BY <1>1, <1>6, <1>7, PutItems, Where
<1>9. Got' >= SmlAt' /\ ~Signed
  BY <1>1, <1>2, <1>3, <1>8, HostFrame, Positions DEF Signed
<1>10. WaitInv'
  BY <1>1, <1>4, <1>8, <1>9, HostFrame, SameFlags DEF WaitInv
<1>11. QED
  BY <1>1, <1>5, <1>8, <1>10, HostNext

LEMMA StepHostSign ==
    ASSUME DriverInv, HostSign, UNCHANGED <<version, dev>>
    PROVE  DriverInv'
<1> USE DEF HostSign, HostReadLine
<1>1. ~Preparing /\ ~Preparing' /\ TypeOK' /\ FileInv /\ Serving
  BY HostType DEF Preparing, Serving, DriverInv, FaultInv
<1>2. at # Counts /\ Streams
  BY <1>1 DEF FileInv
<1>3. Signed /\ toHost = <<Line(<<SigOf(at)>>), Line(<<>>)>>
  BY <1>1, HostGets DEF DriverInv, WaitInv
<1>4. hsig' = SigOf(at) /\ toHost' = <<Line(<<>>)>>
  BY <1>3, TwoLines
<1>5. FileInv'
  BY <1>1, <1>2, <1>4, HostFrame DEF FileInv
<1>6. Put' = Put
  BY <1>1, HostFrame, PutAt, PutNext
<1>7. Got' = Got /\ OnTheWay'
  BY <1>1, <1>6, PutNothing
<1>8. WaitInv'
  BY <1>1, <1>2, <1>3, <1>4, <1>7, HostFrame, SameFlags DEF WaitInv
<1>9. QED
  BY <1>1, <1>5, <1>7, <1>8, HostNext

LEMMA StepSmCode ==
    ASSUME DriverInv, HostSmCode, UNCHANGED <<version, dev>>
    PROVE  DriverInv'
<1> USE DEF HostSmCode, HostReadLine, SendDev
<1>1. ~Preparing /\ ~Preparing' /\ TypeOK' /\ FileInv /\ Serving
  BY HostType DEF Preparing, Serving, DriverInv, FaultInv
<1>2. at # Counts
  BY <1>1 DEF FileInv
<1>3. Signed /\ toHost = <<Line(<<>>)>>
  BY <1>1, HostGets DEF DriverInv, WaitInv
<1>4. toHost' = <<>>
  BY <1>3, HostGets
<1>5. FileInv'
  BY <1>1, <1>2, HostFrame DEF FileInv
<1>6. Put = SigAt /\ Put' = SmAt /\ SmAt \in Nat /\ Put <= SmAt
  BY <1>1, HostFrame, PutAt, PutNext, Positions
<1>7. toDev' = toDev \o Items(at, Put, SmAt)
  BY <1>1, <1>2, <1>6, Entry, Writes
<1>8. Got' = Got /\ OnTheWay' /\ Got <= SigAt /\ Got \in Nat
  BY <1>1, <1>6, <1>7, PutItems, Where
<1>9. Got' < SmAt'
  BY <1>1, <1>8, HostFrame, Positions
<1>10. WaitInv'
  BY <1>1, <1>3, <1>4, <1>8, <1>9, HostFrame, SameFlags DEF WaitInv
<1>11. QED
  BY <1>1, <1>5, <1>8, <1>10, HostNext

\* The record of the test vector is the reference's.
LEMMA Records ==
    ASSUME DriverInv, ~Preparing, at # Counts, hkey = KeyPair(KeyFrom(at), KeyFrom(at)),
           NEW sig, sig = SigOf(at)
    PROVE  /\ Record(req[at + 1], hkey, sig) = RefRecord(at)
           /\ Append(rsp, Record(req[at + 1], hkey, sig)) = RspFile(at + 1)
           /\ at + 1 \in 0..Counts
<1>1. /\ at \in Nat /\ at < Counts /\ Counts \in Nat
      /\ req[at + 1][1] = SeedOf(at) /\ req[at + 1][2] = MsgOf(at)
  BY Entry
<1>2. sig = Signature(KeyFrom(at), MsgOf(at), [seed |-> SeedOf(at), n |-> 1])
  BY DEF SigOf, RefRecord
<1>3. Record(req[at + 1], hkey, sig) = RefRecord(at)
  BY <1>1, <1>2 DEF Record, RefRecord
<1>4. rsp = RspFile(at)
  BY DEF DriverInv, FileInv
<1>5. Append(RspFile(at), RefRecord(at)) = RspFile(at + 1)
  BY <1>1, FilesGrow
<1>6. at + 1 \in 0..Counts
  BY <1>1
<1>7. QED
  BY <1>3, <1>4, <1>5, <1>6

\* What the host finds when it waits for the line of the signature.
LEMMA BeforeSmDone ==
    ASSUME DriverInv, HostSmDone, UNCHANGED <<version, dev>>
    PROVE  /\ ~Preparing /\ ~Preparing' /\ at # Counts /\ TypeOK' /\ FileInv'
           /\ toHost' = <<>> /\ toDev' = toDev /\ hpc' = "lines" /\ at' = at + 1
           /\ rsp' = Append(rsp, RefRecord(at)) /\ at \in 0..Counts
           /\ Serving => Got = SmAt
<1> USE DEF HostSmDone, HostReadLine
<1>1. ~Preparing /\ ~Preparing' /\ FileInv /\ TypeOK
  BY DEF Preparing, DriverInv
<1>2. at # Counts /\ hkey = KeyPair(KeyFrom(at), KeyFrom(at)) /\ (Streams => hsig = SigOf(at))
  BY <1>1 DEF FileInv
<1>3. Serving => Got = SmAt /\ toHost = <<Line(IF Streams THEN <<>> ELSE <<SigOf(at)>>)>>
  <2>1. ASSUME Serving PROVE WaitInv /\ Got \in Nat /\ SmAt \in Nat /\ Got <= SmAt
    BY <2>1, Where, PutAt DEF DriverInv
  <2>2. ASSUME Serving PROVE ~(Got < SmAt)
    BY <2>1, <2>2, HostGets DEF WaitInv
  <2>3. QED
    BY <2>1, <2>2 DEF WaitInv
<1>4. ~Serving => Streams /\ toHost = <<Line(<<>>)>>
  BY <1>1 DEF Serving, FaultInv, DriverInv
<1>5. toHost' = <<>> /\ hsig' = SigOf(at)
  BY <1>2, <1>3, <1>4, HostGets
<1>6. /\ Record(req[at + 1], hkey, hsig') = RefRecord(at) /\ rsp' = RspFile(at + 1)
      /\ at' \in 0..Counts
  <2> DEFINE sig == hsig'
  <2>1. sig = SigOf(at)
    BY <1>5
  <2>2. rsp' = Append(rsp, Record(req[at + 1], hkey, sig)) /\ at' = at + 1
    OBVIOUS
  <2> HIDE DEF sig
  <2>3. /\ Record(req[at + 1], hkey, sig) = RefRecord(at)
        /\ Append(rsp, Record(req[at + 1], hkey, sig)) = RspFile(at + 1)
        /\ at + 1 \in 0..Counts
    BY <1>1, <1>2, <2>1, Records
  <2>4. QED
    BY <2>2, <2>3 DEF sig
<1>7. FileInv'
  BY <1>1, <1>6, HostFrame DEF FileInv
<1>8. TypeOK'
  BY <1>1, <1>6 DEF TypeOK, dev
<1>9. at \in 0..Counts
  BY <1>1 DEF TypeOK
<1>10. QED
  BY <1>1, <1>2, <1>3, <1>5, <1>6, <1>7, <1>8, <1>9

LEMMA StepSmDone ==
    ASSUME DriverInv, HostSmDone, UNCHANGED <<version, dev>>
    PROVE  DriverInv'
<1>1. /\ ~Preparing /\ ~Preparing' /\ at # Counts /\ TypeOK' /\ FileInv' /\ at \in 0..Counts
      /\ toHost' = <<>> /\ toDev' = toDev /\ hpc' = "lines" /\ at' = at + 1 /\ hpc = "smDone"
  BY BeforeSmDone DEF HostSmDone, HostReadLine
<1>2. CASE Serving
  <2>1. Got = SmAt /\ Put = SmAt /\ SmAt \in Nat
    BY <1>1, <1>2, BeforeSmDone, PutAt, Positions
  <2>2. Len(toDev) = 0 /\ toDev = <<>>
    <3>1. Len(toDev) = Put - Got /\ toDev = Items(at, Got, Put)
      BY <1>2, Where
    <3>2. Items(at, SmAt, SmAt) = <<>>
      <4>1. SmAt <= SmAt
        BY <2>1
      <4>2. QED
        BY <2>1, <4>1, ItemsIs
    <3>3. QED
      BY <2>1, <3>1, <3>2
  <2>3. Put' = 0 /\ Got' = 0
    <3>1. Put' = 0
      BY <1>1, PutNext
    <3>2. Got' = Put' - Len(toDev')
      BY DEF Got
    <3>3. Len(toDev') = 0
      BY <1>1, <2>2
    <3>4. QED
      BY <3>1, <3>2, <3>3
  <2>4. OnTheWay'
    <3>1. 0 \in Nat /\ 0 <= 0
      OBVIOUS
    <3>2. Items(at', 0, 0) = <<>>
      BY <3>1, ItemsIs
    <3>3. Len(toDev') \in 0..Put' /\ toDev' = Items(at', Got', Put')
      BY <1>1, <2>2, <2>3, <3>2
    <3>4. QED
      BY <3>3, SameVersion DEF OnTheWay
  <2>5. ~Inited' /\ ~KeyDone' /\ ~Signed'
    BY <2>3, Positions, SameVersion DEF Inited, KeyDone, Signed
  <2>6. dpc = "loop" /\ countPk = at + 1
    BY <1>1, <1>2, <2>1, Positions DEF DriverInv, QueueInv, BufferInv
  <2>7. dpc' = "loop" /\ countPk' = at' /\ at' \in Nat /\ at' # 0
    BY <1>1, <2>6 DEF dev
  <2>8. QueueInv'
    BY <2>3, <2>4, <2>7, Positions, SameVersion DEF QueueInv
  <2>9. BufferInv'
    <3>1. \/ MsgCodeAt' = 9 /\ MsgAt' = 10 /\ SigAt' = 23 /\ SmAt' = 27
          \/ MsgCodeAt' = 6 /\ MsgAt' = 7 /\ SigAt' = 19 /\ SmAt' = 23
      BY Positions, SameVersion
    <3>2. Got' < MsgCodeAt'
      BY <2>3, <3>1
    <3>3. ~(Got' >= 5) /\ Got' \notin MsgAt'..(SmAt' - 1) /\ ~(Got' >= SigAt')
      BY <2>3, <3>1
    <3>4. QED
      BY <2>5, <2>7, <3>2, <3>3 DEF BufferInv
  <2>10. WaitInv'
    BY <1>1 DEF WaitInv
  <2>11. FaultInv'
    BY <2>7 DEF FaultInv
  <2>12. QED
    BY <1>1, <2>8, <2>9, <2>10, <2>11, HostFrame DEF DriverInv
<1>3. CASE dpc = "fault"
  <2>1. FaultInv'
    BY <1>1, <1>3, HostFrame DEF FaultInv, DriverInv
  <2>2. QED
    BY <1>1, <1>3, <2>1, FaultNext
<1>4. QED
  BY <1>1, <1>2, <1>3 DEF Serving

\* The line "finished" of the request file, after the last test vector.
LEMMA StepStopCode ==
    ASSUME DriverInv, HostStopCode, UNCHANGED <<version, dev>>
    PROVE  DriverInv'
<1> USE DEF HostStopCode, SendDev
<1>1. ~Preparing /\ ~Preparing' /\ TypeOK' /\ FileInv
  BY HostType DEF Preparing, DriverInv
<1>2. at = Counts
  BY <1>1, HostFrame
<1>3. FileInv'
  BY <1>1, <1>2, HostFrame DEF FileInv
<1>4. CASE Serving
  <2>1. Put = 0 /\ Put' = 4 /\ toHost = <<>> /\ 4 \in Nat /\ Put <= 4
    BY <1>4, PutAt, PutNext DEF DriverInv, WaitInv
  <2>2. toDev' = toDev \o Items(at, Put, 4)
    BY <1>2, <2>1, WritesStop
  <2>3. Got' = Got /\ OnTheWay' /\ Got \in Nat /\ Got <= 0
    BY <1>4, <2>1, <2>2, PutItems, Where
  <2>4. WaitInv'
    BY <2>1, <2>3 DEF WaitInv
  <2>5. QED
    BY <1>1, <1>3, <1>4, <2>3, <2>4, HostNext
<1>5. CASE dpc = "fault"
  <2>1. FaultInv'
    BY <1>1, <1>5, HostFrame DEF FaultInv, DriverInv
  <2>2. QED
    BY <1>1, <1>3, <1>5, <2>1, FaultNext
<1>6. QED
  BY <1>1, <1>4, <1>5 DEF Serving

LEMMA StepStopDone ==
    ASSUME DriverInv, HostStopDone, UNCHANGED <<version, dev>>
    PROVE  DriverInv'
<1> USE DEF HostStopDone, HostReadLine
<1>1. ~Preparing /\ ~Preparing' /\ TypeOK' /\ FileInv
  BY HostType DEF Preparing, DriverInv
<1>2. at = Counts
  BY <1>1 DEF FileInv
<1>3. FileInv'
  BY <1>1, <1>2, HostFrame DEF FileInv
<1>4. Serving
  BY <1>1, HostGets DEF Serving, DriverInv, FaultInv
<1>5. Put' = Put /\ Put = 4
  BY PutAt, PutNext
<1>6. Got' = Got /\ OnTheWay'
  BY <1>4, <1>5, PutNothing
<1>7. Got \in Nat /\ Got <= 4
  BY <1>4, <1>5, Where
<1>8. Got = 4 /\ toHost = <<Line(<<>>)>>
  BY <1>4, <1>7, HostGets DEF DriverInv, WaitInv
<1>9. toHost' = <<>>
  BY <1>8, HostGets
<1>10. WaitInv'
  BY <1>6, <1>8, <1>9 DEF WaitInv
<1>11. QED
  BY <1>1, <1>3, <1>4, <1>6, <1>10, HostNext

-----------------------------------------------------------------------------
\* The invariant.

LEMMA InitInv == Init => DriverInv
<1> SUFFICES ASSUME Init PROVE DriverInv
  OBVIOUS
<1> USE DEF Init
<1>1. Counts \in Nat /\ Len(req) = 0 /\ Preparing /\ dpc = "boot"
  BY DriverAssumption DEF Preparing
<1>2. ~Serving
  BY <1>1 DEF Serving
<1>3. TypeOK
  BY <1>1 DEF TypeOK, DevRecvs, LineReads
<1>4. PrepareInv
  <2>1. CASE Streams
    BY <2>1 DEF PrepareInv
  <2>2. CASE ~Streams
    <3>1. hpc = "banner"
      BY <2>2
    <3>2. PICK typed \in Typed : toDev = IF typed THEN <<Ack>> ELSE <<>>
      BY <2>2
    <3>3. typed \in BOOLEAN
      BY <3>2, DriverAssumption
    <3>4. \/ toDev = <<Ack>> /\ TRUE \in Typed
          \/ toDev = <<>> /\ FALSE \in Typed
      BY <3>2, <3>3
    <3>5. QED
      BY <2>2, <3>1, <3>4 DEF PrepareInv
  <2>3. QED
    BY <2>1, <2>2
<1>5. QueueInv /\ BufferInv /\ WaitInv /\ FaultInv
  BY <1>1, <1>2 DEF QueueInv, BufferInv, WaitInv, FaultInv
<1>6. FileInv
  <2>1. 0 \in Nat
    OBVIOUS
  <2>2. ReqFile(0) = <<>> /\ RspFile(0) = <<>>
    BY <2>1, FilesGrow
  <2>3. QED
    BY <1>1, <2>2 DEF FileInv
<1>7. QED
  BY <1>3, <1>4, <1>5, <1>6 DEF DriverInv

\* Every step of the device.
LEMMA DeviceInv ==
    ASSUME DriverInv, Device
    PROVE  DriverInv'
<1>1. DevStep /\ UNCHANGED <<version, host>>
  BY DEF Device
<1>2. CASE Preparing /\ DevBoot
  BY <1>1, <1>2, StepBoot
<1>3. CASE Preparing /\ DevSeedgen
  BY <1>1, <1>3, StepSeedgen
<1>4. CASE Serving
  <2>1. CASE DevDrain
    BY <1>1, <1>4, <2>1, StepDrain
  <2>2. CASE DevOther
    BY <1>1, <1>4, <2>2, StepOther
  <2>3. CASE DevSeedCmd
    BY <1>1, <1>4, <2>3, StepSeedCmd
  <2>4. CASE DevSeed
    BY <1>1, <1>4, <2>4, StepSeed
  <2>5. CASE DevMsgCmd
    BY <1>1, <1>4, <2>5, StepMsgCmd
  <2>6. CASE DevInit
    BY <1>1, <1>4, <2>6, StepInit
  <2>7. CASE DevMsg
    BY <1>1, <1>4, <2>7, StepMsg
  <2>8. CASE DevPkCmd
    BY <1>1, <1>4, <2>8, StepPkCmd
  <2>9. CASE DevKeygen
    BY <1>1, <1>4, <2>9, StepKeygen
  <2>10. CASE DevSkCmd
    BY <1>1, <1>4, <2>10, StepSkCmd
  <2>11. CASE DevSmlCmd
    BY <1>1, <1>4, <2>11, StepSmlCmd
  <2>12. CASE DevReadSk
    BY <1>1, <1>4, <2>12, StepReadSk
  <2>13. CASE DevSign
    BY <1>1, <1>4, <2>13, StepSign
  <2>14. CASE DevSmCmd
    BY <1>1, <1>4, <2>14, StepSmCmd
  <2>15. CASE DevStopCmd
    BY <1>1, <1>4, <2>15, StepStopCmd
  <2>16. QED
    BY <1>1, <1>4, <2>1, <2>2, <2>3, <2>4, <2>5, <2>6, <2>7, <2>8, <2>9, <2>10, <2>11,
       <2>12, <2>13, <2>14, <2>15, WhileDevSteps DEF Serving
<1>5. QED
  BY <1>1, <1>2, <1>3, <1>4, WhileDevSteps

\* Every step of the host.
LEMMA HostInv ==
    ASSUME DriverInv, Host
    PROVE  DriverInv'
<1>1. HostStep /\ UNCHANGED <<version, dev>>
  BY DEF Host
<1>2. CASE HostStart \/ HostBanner \/ HostReq
  BY <1>1, <1>2, StepStart, StepBanner, StepReq
<1>3. CASE HostSeed \/ HostMsgCode \/ HostMsg
  BY <1>1, <1>3, StepHostSeed, StepMsgCode, StepHostMsg
<1>4. CASE HostPkCode \/ HostKeygen \/ HostPk \/ HostSkCode
  BY <1>1, <1>4, StepPkCode, StepHostKeygen, StepHostPk, StepSkCode
<1>5. CASE HostSmlCode \/ HostSendSk \/ HostSign \/ HostSmCode \/ HostSmDone
  BY <1>1, <1>5, StepSmlCode, StepSendSk, StepHostSign, StepSmCode, StepSmDone
<1>6. CASE HostStopCode \/ HostStopDone
  BY <1>1, <1>6, StepStopCode, StepStopDone
<1>7. QED
  BY <1>1, <1>2, <1>3, <1>4, <1>5, <1>6 DEF HostStep

\* A step in which nothing happens.
LEMMA StutterInv ==
    ASSUME DriverInv, UNCHANGED vars
    PROVE  DriverInv'
<1> USE DEF vars, dev, line, host
<1>1. Streams' = Streams /\ Put' = Put /\ Got' = Got /\ Preparing' = Preparing
      /\ Serving' = Serving
  BY SameVersion DEF Put, Got, Preparing, Serving
<1>2. Inited' = Inited /\ KeyDone' = KeyDone /\ Signed' = Signed
  BY <1>1, SameVersion DEF Inited, KeyDone, Signed
<1>3. TypeOK' /\ version' \in Versions /\ FaultInv' /\ FileInv' /\ PrepareInv'
  <2>1. TypeOK' /\ version' \in Versions
    BY DEF DriverInv, TypeOK
  <2>2. FaultInv' /\ FileInv'
    BY <1>1 DEF DriverInv, FaultInv, FileInv
  <2>3. PrepareInv'
    BY <1>1 DEF DriverInv, PrepareInv
  <2>4. QED
    BY <2>1, <2>2, <2>3
<1>4. QueueInv'
  BY <1>1, SameVersion DEF DriverInv, QueueInv, OnTheWay
<1>5. BufferInv'
  BY <1>1, <1>2, SameVersion DEF DriverInv, BufferInv
<1>6. WaitInv'
  BY <1>1, <1>2, SameVersion DEF DriverInv, WaitInv
<1>7. QED
  BY <1>3, <1>4, <1>5, <1>6 DEF DriverInv

LEMMA NextInv == DriverInv /\ [Next]_vars => DriverInv'
<1>1. ASSUME DriverInv, Next PROVE DriverInv'
  <2>1. CASE Device
    BY <1>1, <2>1, DeviceInv
  <2>2. CASE Host
    BY <1>1, <2>2, HostInv
  <2>3. CASE Stop
    BY <1>1, <2>3, StutterInv DEF Stop
  <2>4. QED
    BY <1>1, <2>1, <2>2, <2>3 DEF Next
<1>2. ASSUME DriverInv, UNCHANGED vars PROVE DriverInv'
  BY <1>2, StutterInv
<1>3. QED
  BY <1>1, <1>2

-----------------------------------------------------------------------------
\* What follows from the invariant.

LEMMA InvOverrun == DriverInv => NoOverrun
<1> SUFFICES ASSUME DriverInv, Streams, dpc \in DevBusy PROVE toDev = <<>>
  BY DEF NoOverrun
<1>1. TypeOK /\ PrepareInv /\ QueueInv /\ WaitInv
  BY DEF DriverInv
<1>2. CASE Preparing
  BY <1>1, <1>2 DEF PrepareInv, Preparing, DevBusy
<1>3. CASE Serving
  <2>1. /\ Put \in Nat /\ Got \in Nat /\ Got <= Put /\ toDev = Items(at, Got, Put)
    BY <1>3, Where
  <2>2. Put = Got
    <3>1. CASE dpc = "init"
      <4>1. Got = 9 /\ ~Inited /\ ~KeyDone /\ ~Signed
        BY <1>1, <1>3, <3>1, Positions DEF QueueInv, Inited, KeyDone, Signed
      <4>2. hpc \in {"lines", "msgLine", "msgReady", "stopDone", "finished"}
        BY <1>1, <1>3, <4>1, HostAt, Positions DEF WaitInv
      <4>3. QED
        BY <2>1, <4>1, <4>2, PutAt, Positions
    <3>2. CASE dpc = "keygen"
      <4>1. Got = 14 /\ ~KeyDone /\ ~Signed
        BY <1>1, <1>3, <3>2, Positions DEF QueueInv, KeyDone, Signed
      <4>2. hpc \in {"lines", "msgLine", "msgReady", "pkLine", "keygen", "stopDone", "finished"}
        BY <1>1, <1>3, <4>1, HostAt, Positions DEF WaitInv
      <4>3. QED
        BY <2>1, <4>1, <4>2, PutAt, Positions
    <3>3. CASE dpc = "sign"
      <4>1. Got = 23 /\ ~Signed
        BY <1>1, <1>3, <3>3, Positions DEF QueueInv, Signed
      <4>2. hpc \notin {"smlDone", "smDone"}
        BY <1>1, <1>3, <4>1 DEF WaitInv
      <4>3. QED
        BY <1>3, <2>1, <4>1, <4>2, HostAt, PutAt, Positions
    <3>4. dpc # "seedgen"
      BY <1>1, <1>3 DEF QueueInv
    <3>5. QED
      BY <3>1, <3>2, <3>3, <3>4 DEF DevBusy
  <2>3. QED
    BY <2>1, <2>2, ItemsIs
<1>4. QED
  BY <1>2, <1>3 DEF Serving, DevBusy

\* The first of the items on the way is of the kind, and the length, that the
\* device reads next.
LEMMA FrontItem ==
    ASSUME DriverInv, Serving, dpc \in DOMAIN DevRecvs, toDev # <<>>
    PROVE  /\ Head(toDev).kind = DevRecvs[dpc]
           /\ dpc \in {"seed", "msg"} => Head(toDev).data[1].len = Expected
<1>1. QueueInv /\ BufferInv
  BY DEF DriverInv
<1>2. /\ Put \in Nat /\ Got \in Nat /\ Got <= Put /\ toDev = Items(at, Got, Put)
      /\ at \in Nat /\ at <= Counts /\ Counts \in Nat /\ at \in 0..Counts
      /\ at = Counts => Put <= 4
  BY Where
<1>3. Got < Put /\ Head(toDev) = Item(at, Got + 1) /\ Got + 1 \in Nat
  BY <1>2, ItemsTake
<1>4. CASE dpc \in {"drain", "loop"}
  <2>1. at < Counts => Got + 1 \notin {5, MsgAt} /\ ~(Streams /\ Got + 1 = SigAt)
    BY <1>1, <1>2, <1>4, Positions, DriverAssumption DEF QueueInv
  <2>2. Item(at, Got + 1).kind = "byte"
    <3>1. CASE at = Counts
      BY <3>1 DEF Item, Byte
    <3>2. CASE at # Counts
      <4>1. at < Counts
        BY <1>2, <3>2
      <4>2. QED
        BY <2>1, <3>2, <4>1 DEF Item, Byte
    <3>3. QED
      BY <3>1, <3>2
  <2>3. DevRecvs[dpc] = "byte"
    BY <1>4 DEF DevRecvs
  <2>4. QED
    BY <1>3, <1>4, <2>2, <2>3
<1>5. CASE dpc = "seed"
  <2>1. at < Counts /\ Got + 1 = 5
    BY <1>1, <1>5 DEF QueueInv
  <2>2. Head(toDev) = Burst(<<SeedOf(at)>>)
    BY <1>2, <1>3, <2>1, Payload
  <2>3. Head(toDev).kind = "burst" /\ Head(toDev).data[1] = SeedOf(at)
    BY <2>2 DEF Burst
  <2>4. SeedOf(at).len = SeedLen
    BY DEF SeedOf, Draw
  <2>5. QED
    BY <1>5, <2>3, <2>4 DEF DevRecvs, Expected
<1>6. CASE dpc = "msg"
  <2>1. Got = MsgCodeAt /\ Got + 1 = MsgAt
    BY <1>1, <1>6 DEF QueueInv, MsgAt
  <2>2. at < Counts
    BY <1>2, <1>3, <2>1, Positions
  <2>3. countPk = at + 1
    BY <1>1, <1>2, <2>1, Positions DEF BufferInv
  <2>4. Head(toDev) = Burst(<<MsgOf(at)>>)
    BY <1>2, <1>3, <2>1, <2>2, Payload
  <2>5. Head(toDev).kind = "burst" /\ Head(toDev).data[1] = MsgOf(at)
    BY <2>4 DEF Burst
  <2>6. MsgOf(at).len = MsgStep * (at + 1)
    BY DEF MsgOf, Draw
  <2>7. QED
    BY <1>6, <2>3, <2>5, <2>6 DEF DevRecvs, Expected
<1>7. CASE dpc = "sk"
  <2>1. Streams /\ Got + 1 = SigAt /\ Got > 4
    BY <1>1, <1>7, Positions DEF QueueInv
  <2>2. at < Counts
    BY <1>2, <1>3, <2>1
  <2>3. Head(toDev) = Burst(<<KeyFrom(at)>>)
    BY <1>2, <1>3, <2>1, <2>2, Payload
  <2>4. QED
    BY <1>7, <2>3 DEF DevRecvs, Burst
<1>8. QED
  BY <1>1, <1>4, <1>5, <1>6, <1>7 DEF QueueInv, DevRecvs

\* Lines of the request file in front of the host.
LEMMA LinesCome ==
    ASSUME NEW p \in Nat, NEW n \in Nat, n > 0
    PROVE  /\ CanReadLine(ReqLines(p, n)) /\ Head(ReqLines(p, n)).kind = "line"
           /\ CanReadLine(<<Line(<<>>)>> \o ReqLines(0, n))
           /\ Head(<<Line(<<>>)>> \o ReqLines(0, n)).kind = "line"
<1>1. /\ ReqLines(p, n) \in Seq(LinesOf) /\ Len(ReqLines(p, n)) = n
      /\ ReqLines(p, n)[1] = Line(ReqLine(p + 1))
  BY LinesIs
<1> DEFINE s == ReqLines(p, n)
           l == Line(<<>>)
           T == LinesOf \cup {l}
           u == ReqLines(0, n)
<1>2. s # <<>> /\ s[1].kind = "line"
  BY <1>1 DEF Line
<1>3. CanReadLine(s)
  <2> HIDE DEF s
  <2> QED
    BY <1>1, <1>2, LineInFront DEF s
<1>4. u \in Seq(T) /\ l \in T /\ l.kind = "line"
  <2>1. u \in Seq(LinesOf)
    BY LinesIs
  <2>2. QED
    BY <2>1, SeqMonotonic DEF Line
<1> HIDE DEF l, T, u
<1>5. CanReadLine(<<l>> \o u)
  BY <1>4, LineBefore
<1>6. Head(<<l>> \o u) = l
  <2>1. <<l>> \in Seq(T) /\ Len(<<l>>) = 1 /\ <<l>>[1] = l
    BY <1>4
  <2>2. (<<l>> \o u)[1] = l /\ <<l>> \o u \in Seq(T) /\ <<l>> \o u # <<>>
    BY <1>4, <2>1, ConcatProperties
  <2>3. QED
    BY <2>2
<1>7. QED
  BY <1>2, <1>3, <1>4, <1>5, <1>6 DEF l, u

LEMMA InvAligned == DriverInv => Aligned
<1> SUFFICES ASSUME DriverInv PROVE Aligned
  OBVIOUS
<1>1. TypeOK /\ PrepareInv /\ WaitInv /\ FaultInv
  BY DEF DriverInv
<1>2. CASE Preparing
  <2>1. dpc \in DOMAIN DevRecvs /\ toDev # <<>> => Head(toDev).kind = DevRecvs[dpc]
    <3>1. dpc \in DOMAIN DevRecvs /\ toDev # <<>> => dpc = "boot" /\ toDev = <<Ack>>
      BY <1>1, <1>2 DEF PrepareInv, Preparing, DevRecvs
    <3>2. DevRecvs["boot"] = "ack"
      BY DEF DevRecvs
    <3>3. QED
      BY <3>1, <3>2, Fronts
  <2>2. dpc \notin {"seed", "msg"}
    BY <1>1, <1>2 DEF PrepareInv, Preparing
  <2>3. hpc = "banner" /\ toHost # <<>> => Head(toHost).kind = "line"
    <3>1. Counts + 1 \in Nat /\ Counts + 1 > 0 /\ 0 \in Nat
      BY DriverAssumption
    <3>2. hpc = "banner" /\ toHost # <<>> => toHost = <<Line(<<>>)>> \o ReqLines(0, Counts + 1)
      BY <1>1, <1>2 DEF PrepareInv
    <3>3. QED
      BY <3>1, <3>2, LinesCome
  <2>4. hpc = "req" => Head(toHost).kind = "line"
    <3>1. Len(req) \in Nat /\ Counts + 1 - Len(req) \in Nat /\ Counts + 1 - Len(req) > 0
      BY DriverAssumption DEF DriverInv, FileInv
    <3>2. hpc = "req" => toHost = ReqLines(Len(req), Counts + 1 - Len(req))
      BY <1>1, <1>2 DEF PrepareInv
    <3>3. QED
      BY <3>1, <3>2, LinesCome
  <2>5. QED
    BY <1>2, <2>1, <2>2, <2>3, <2>4 DEF Aligned, Preparing, ByteReads, LineReads
<1>3. CASE Serving
  <2>1. /\ dpc \in DOMAIN DevRecvs /\ toDev # <<>> => Head(toDev).kind = DevRecvs[dpc]
        /\ dpc \in {"seed", "msg"} /\ toDev # <<>> => Head(toDev).data[1].len = Expected
    BY <1>3, FrontItem DEF DevRecvs
  <2>2. hpc \in ByteReads /\ toHost # <<>> => Head(toHost).kind = "ready"
    BY <1>1, <1>3, Fronts DEF WaitInv, ByteReads
  <2>3. hpc \in LineReads /\ toHost # <<>> => Head(toHost).kind = "line"
    <3>1. \A x, y : Head(<<Line(x), Line(y)>>).kind = "line"
      BY DEF Line
    <3>2. hpc \in {"keygen", "sign"} /\ toHost # <<>> => Head(toHost).kind = "line"
      BY <1>1, <1>3, <3>1, Fronts DEF WaitInv
    <3>3. hpc \in {"pkDone", "skDone", "smlDone", "smDone", "stopDone"} /\ toHost # <<>>
              => Head(toHost).kind = "line"
      BY <1>1, <1>3, Fronts DEF WaitInv
    <3>4. QED
      BY <1>3, <3>2, <3>3 DEF LineReads, Serving, Preparing
  <2>4. hpc \in {"lines", "msgLine", "msgReady", "pkLine"} => toHost = <<>> \/ toHost = <<Ready>>
    BY <1>1, <1>3 DEF WaitInv
  <2>5. hpc \in {"lines", "msgLine", "msgReady", "pkLine"}
            => \A p \in 1..Len(toHost) : toHost[p] = Ready
    BY <2>4
  <2>6. QED
    BY <2>1, <2>2, <2>3, <2>5 DEF Aligned
<1>4. CASE ~Preparing /\ dpc = "fault"
  <2>1. dpc \notin DOMAIN DevRecvs
    BY <1>4 DEF DevRecvs
  <2>2. toHost = IF hpc = "smDone" THEN <<Line(<<>>)>> ELSE <<>>
    BY <1>1, <1>4 DEF FaultInv
  <2>3. hpc = "smDone" => Head(toHost).kind = "line"
    BY <2>2, Fronts
  <2>4. hpc # "smDone" => toHost = <<>> /\ \A p \in 1..Len(toHost) : toHost[p] = Ready
    BY <2>2
  <2>5. QED
    BY <1>4, <2>1, <2>3, <2>4 DEF Aligned, ByteReads
<1>5. QED
  BY <1>2, <1>3, <1>4 DEF Serving

\* If version 1.0 only runs with a character on the line, it comes to a point
\* where each waits for the other just as little as 1.1.
LEMMA InvMutualWait ==
    ASSUME "1.0" \in Versions => Typed = {TRUE}
    PROVE  DriverInv => NoMutualWait
<1> SUFFICES ASSUME DriverInv, DevBlocked, HostBlocked PROVE FALSE
  BY DEF NoMutualWait
<1>1. TypeOK /\ PrepareInv /\ QueueInv /\ WaitInv /\ FileInv
  BY DEF DriverInv
<1>2. dpc \in DOMAIN DevRecvs /\ dpc \notin DevBusy /\ dpc # "fault"
  BY DEF DevBlocked, DevRecvs, DevBusy
<1>3. CASE Preparing
  <2>1. hpc \in {"banner", "req"}
    BY <1>3 DEF Preparing, HostBlocked, ByteReads, LineReads
  <2>2. Streams \/ Typed = {TRUE}
    BY DriverAssumption DEF DriverInv, Streams
  <2>3. dpc # "boot"
    <3>1. CanRecv(<<Ack>>, "ack")
      BY DEF CanRecv, Ack
    <3>2. ASSUME dpc = "boot" PROVE toDev = <<Ack>>
      BY <1>1, <1>3, <2>1, <2>2, <3>2 DEF PrepareInv
    <3>3. QED
      BY <3>1, <3>2 DEF DevBlocked, DevRecvs
  <2>4. ~CanReadLine(toHost)
    BY <2>1 DEF HostBlocked, ByteReads
  <2>5. hpc # "banner"
    <3>1. Counts + 1 \in Nat /\ Counts + 1 > 0 /\ 0 \in Nat
      BY DriverAssumption
    <3>2. hpc = "banner" => toHost = <<Line(<<>>)>> \o ReqLines(0, Counts + 1)
      BY <1>1, <1>2, <1>3, <2>3 DEF PrepareInv, DevBusy
    <3>3. QED
      BY <2>4, <3>1, <3>2, LinesCome
  <2>6. hpc # "req"
    <3>1. Len(req) \in Nat /\ Counts + 1 - Len(req) \in Nat /\ Counts + 1 - Len(req) > 0
      BY DriverAssumption DEF DriverInv, FileInv
    <3>2. hpc = "req" => toHost = ReqLines(Len(req), Counts + 1 - Len(req))
      BY <1>1, <1>3 DEF PrepareInv
    <3>3. QED
      BY <2>4, <3>1, <3>2, LinesCome
  <2>7. QED
    BY <2>1, <2>5, <2>6
<1>4. CASE Serving
  <2>1. toDev = <<>>
    BY <1>2, <1>4, FrontItem DEF DevBlocked, CanRecv
  <2>2. Put = Got /\ Got \in Nat
    <3>1. Len(toDev) = Put - Got /\ Put \in Nat /\ Got \in Nat
      BY <1>4, Where
    <3>2. Len(toDev) = 0
      BY <2>1
    <3>3. QED
      BY <3>1, <3>2
  <2>3. dpc \notin {"init", "keygen", "sign"}
    BY <1>2 DEF DevBusy
  <2>4. hpc = "msgReady" => Inited
    BY <1>1, <1>4, <2>2, <2>3, PutAt DEF QueueInv, Inited
  <2>5. Got = PkAt => KeyDone
    BY <1>1, <1>4, <2>3, Positions DEF QueueInv, KeyDone
  <2>6. Got = SigAt => Signed
    BY <1>1, <1>4, <2>3, Positions DEF QueueInv, Signed
  <2>7. \A x, y : CanReadLine(<<Line(x), Line(y)>>) /\ CanReadLine(<<Line(x)>>)
    BY TwoLines, HostGets
  <2>8. ~(hpc \in ByteReads)
    <3>1. hpc \in ByteReads => toHost = <<Ready>>
      BY <1>1, <1>4, <2>2, <2>4, PutAt, Positions DEF WaitInv, ByteReads
    <3>2. QED
      BY <3>1, HostGets DEF HostBlocked, ByteReads, LineReads
  <2>9. hpc \in LineReads => CanReadLine(toHost)
    <3>1. hpc = "keygen" => CanReadLine(toHost)
      BY <1>1, <1>4, <2>2, <2>5, <2>7, PutAt DEF WaitInv
    <3>2. hpc = "pkDone" => CanReadLine(toHost)
      BY <1>1, <1>4, <2>7 DEF WaitInv
    <3>3. hpc = "skDone" => CanReadLine(toHost)
      <4>1. hpc = "skDone" => Got = SkAt /\ ~(SkAt < SkAt)
        BY <2>2, PutAt, Positions
      <4>2. QED
        BY <1>1, <1>4, <2>7, <4>1 DEF WaitInv
    <3>4. hpc \in {"sign", "smlDone"} => CanReadLine(toHost)
      <4>1. hpc \in {"sign", "smlDone"} => Signed
        BY <2>2, <2>6, PutAt
      <4>2. hpc = "sign" => toHost = <<Line(<<SigOf(at)>>), Line(<<>>)>>
        BY <1>1, <1>4, <4>1 DEF WaitInv
      <4>3. hpc = "smlDone" => toHost = <<Line(<<>>)>>
        BY <1>1, <1>4, <4>1 DEF WaitInv
      <4>4. QED
        BY <2>7, <4>2, <4>3
    <3>5. hpc = "smDone" => CanReadLine(toHost)
      <4>1. hpc = "smDone" => Got = SmAt /\ ~(SmAt < SmAt)
        BY <2>2, PutAt, Positions
      <4>2. QED
        BY <1>1, <1>4, <2>7, <4>1 DEF WaitInv
    <3>6. hpc = "stopDone" => CanReadLine(toHost)
      <4>1. hpc = "stopDone" => toHost = <<Line(<<>>)>>
        BY <1>1, <1>4, <2>2, PutAt DEF WaitInv
      <4>2. QED
        BY <2>7, <4>1
    <3>7. QED
      BY <1>4, <3>1, <3>2, <3>3, <3>4, <3>5, <3>6 DEF LineReads, Serving, Preparing
  <2>10. QED
    BY <2>8, <2>9 DEF HostBlocked
<1>5. QED
  BY <1>2, <1>3, <1>4 DEF Serving

\* The .rsp file only grows, by the reference's record of the test vector.
LEMMA AnswerStep ==
    ASSUME DriverInv, [Next]_vars
    PROVE  [KS!Answer]_<<[k \in Keys |-> RefRecord(k)], rsp>>
<1>1. CASE Host /\ HostSmDone
  <2>1. at # Counts /\ at \in 0..Counts /\ rsp' = Append(rsp, RefRecord(at))
    BY <1>1, BeforeSmDone DEF Host
  <2>2. at \in Keys /\ at < Counts /\ at \in Nat
    BY <2>1, DriverAssumption DEF Keys
  <2>3. Len(rsp) = at
    BY <2>2, FilesGrow DEF DriverInv, FileInv
  <2>4. [k \in Keys |-> RefRecord(k)][at] = RefRecord(at)
    BY <2>2
  <2>5. QED
    BY <2>1, <2>2, <2>3, <2>4 DEF KS!Answer
<1>2. CASE ~(Host /\ HostSmDone)
  <2>1. UNCHANGED rsp
    BY <1>2
    DEF Next, Device, Host, Stop, HostStep, HostStart, HostBanner, HostReq, HostSeed,
        HostMsgCode, HostMsg, HostPkCode, HostKeygen, HostPk, HostSkCode, HostSmlCode,
        HostSendSk, HostSign, HostSmCode, HostStopCode, HostStopDone, host, vars
  <2>2. QED
    BY <2>1
<1>3. QED
  BY <1>1, <1>2

-----------------------------------------------------------------------------
\* The theorems.

\* For any number of test vectors, and either version: what the device has taken
\* and what the host has sent agree with where both are, with the buffers, the
\* line and the files; also when free() has faulted.
THEOREM DriverLockstep == Spec => []DriverInv
<1>1. DriverInv /\ [Next]_vars => DriverInv'
  BY NextInv
<1>2. QED
  BY InitInv, <1>1, PTL DEF Spec

\* Type correctness of both programs, in both versions.
THEOREM DriverTypeCorrect == Spec => []TypeOK
<1>1. DriverInv => TypeOK
  BY DEF DriverInv
<1>2. QED
  BY DriverLockstep, <1>1, PTL

\* While the device of 1.1 generates test vectors, initialises the generator,
\* makes a key or signs, the host sends nothing.
THEOREM DriverNoOverrun == Spec => []NoOverrun
  BY DriverLockstep, InvOverrun, PTL

\* Every read of either program, in both versions, is for what comes next on the
\* line, to the length.
THEOREM DriverAligned == Spec => []Aligned
  BY DriverLockstep, InvAligned, PTL

\* Device and host never wait for one another, as long as version 1.0 is only
\* started with a character on the line: without one both wait at once.
THEOREM DriverNoMutualWait ==
    ASSUME "1.0" \in Versions => Typed = {TRUE}
    PROVE  Spec => []NoMutualWait
  BY DriverLockstep, InvMutualWait, PTL

\* The two programs together write the reference's record of one test vector
\* after the other, and do nothing else to the .rsp file.
THEOREM DriverImplementsService == Spec => KS!Safety
<1>1. Init => KS!Init
  BY DEF Init, KS!Init, Keys
<1>2. DriverInv /\ [Next]_vars => [KS!Answer]_<<[k \in Keys |-> RefRecord(k)], rsp>>
  BY AnswerStep
<1>3. QED
  BY DriverLockstep, <1>1, <1>2, PTL DEF Spec, KS!Safety
=============================================================================
