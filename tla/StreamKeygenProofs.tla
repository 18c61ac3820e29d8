------------------------- MODULE StreamKeygenProofs -------------------------
(***************************************************************************)
(* Streamed key generation keeps in step, for every parameter set: for any *)
(* number of matrices and test vectors, device and host never lose a byte, *)
(* never wait for one another and never misread the line, as long as no    *)
(* attempt fails after the device has announced it.  And the keys it makes *)
(* are the reference's, if a build without room for G0 needs no retry.     *)
(***************************************************************************)
EXTENDS StreamKeygen, SequenceTheorems, FiniteSetTheorems, TLAPS

-----------------------------------------------------------------------------
\* Short sequences.

LEMMA TwoItems ==
    ASSUME NEW x, NEW y
    PROVE  <<x>> \o <<y>> = <<x, y>>
<1> DEFINE T == {x, y}
           s == <<x>>
           t == <<y>>
           u == <<x, y>>
<1>1. /\ s \in Seq(T) /\ Len(s) = 1 /\ s[1] = x
      /\ t \in Seq(T) /\ Len(t) = 1 /\ t[1] = y
      /\ u \in Seq(T) /\ Len(u) = 2 /\ u[1] = x /\ u[2] = y
  OBVIOUS
<1> HIDE DEF s, t, u, T
<1>2. s \o t \in Seq(T) /\ Len(s \o t) = 2
  BY <1>1, ConcatProperties
<1>3. (s \o t)[1] = x /\ (s \o t)[2] = y
  <2>1. \A p \in 1..(Len(s) + Len(t)) :
            (s \o t)[p] = IF p <= Len(s) THEN s[p] ELSE t[p - Len(s)]
    BY <1>1, ConcatProperties
  <2>2. /\ Len(s) + Len(t) = 2 /\ 1 \in 1..2 /\ 2 \in 1..2
        /\ 1 <= Len(s) /\ ~(2 <= Len(s)) /\ 2 - Len(s) = 1
    BY <1>1
  <2>3. (s \o t)[1] = s[1]
    BY <2>1, <2>2
  <2>4. (s \o t)[2] = t[2 - Len(s)]
    BY <2>1, <2>2
  <2>5. QED
    BY <1>1, <2>2, <2>3, <2>4
<1>4. s \o t = u
  BY <1>1, <1>2, <1>3
<1>5. QED
  BY <1>4 DEF s, t, u

LEMMA ShortSeq ==
    ASSUME NEW T
    PROVE  /\ <<>> \in Seq(T)
           /\ \A x \in T : <<x>> \in Seq(T)
           /\ \A x, y \in T : <<x, y>> \in Seq(T)
  OBVIOUS

-----------------------------------------------------------------------------
\* Writing.

LEMMA Payloads ==
    ASSUME NEW P
    PROVE  /\ \A m \in P : <<m>> \in Texts(P, 1) /\ Burst(<<m>>) \in Bursts(P, 1)
           /\ \A a, b \in P : <<a, b>> \in Texts(P, 2)
           /\ \A a, b, c \in P : <<a, b, c>> \in Texts(P, 3)
           /\ \A n : \A ms \in Texts(P, n) : /\ Line(ms) \in Lines(P, n)
                                             /\ Burst(ms) \in Bursts(P, n)
           /\ \A n : Texts(P, n) \subseteq Seq(P)
           /\ Seq(P) \subseteq Texts(P, 0)
           /\ \A s, t \in Seq(P) : s \o t \in Seq(P) /\ Line(s \o t) \in Lines(P, 0)
  BY DEF Texts, Bursts, Lines, Burst, Line

LEMMA Sent ==
    /\ \A x : <<>> \o <<x>> = <<x>>
    /\ \A x, y : <<>> \o <<x, y>> = <<x, y>> /\ <<x>> \o <<y>> = <<x, y>>
    /\ \A P, n : \A b \in Bursts(P, n) : IsBurst(<<b>>, P, n) /\ IsBurstAck(<<b, Ack>>, P, n)
    /\ \A P, n : \A l \in Lines(P, n) : IsLine(<<l>>, P, n) /\ IsReadyLine(<<Ready, l>>, P, n)
<1>1. \A x : <<>> \o <<x>> = <<x>>
  OBVIOUS
<1>2. \A x, y : <<>> \o <<x, y>> = <<x, y>> /\ <<x>> \o <<y>> = <<x, y>>
  <2>1. \A x, y : <<>> \o <<x, y>> = <<x, y>>
    OBVIOUS
  <2>2. QED
    BY <2>1, TwoItems
<1>3. \A P, n : \A b \in Bursts(P, n) : IsBurst(<<b>>, P, n)
  BY DEF IsBurst
<1>4. \A P, n : \A b \in Bursts(P, n) : IsBurstAck(<<b, Ack>>, P, n)
  BY DEF IsBurstAck
<1>5. \A P, n : \A l \in Lines(P, n) : IsLine(<<l>>, P, n)
  BY DEF IsLine
<1>6. \A P, n : \A l \in Lines(P, n) : IsReadyLine(<<Ready, l>>, P, n)
  BY DEF IsReadyLine
<1>7. QED
  BY <1>1, <1>2, <1>3, <1>4, <1>5, <1>6

\* The queue to the device after the host has sent matrices, a '1', or both.
LEMMA SentToDevice ==
    ASSUME NEW q, IsEmpty(q)
    PROVE  /\ IsAck(q \o (<<>> \o <<Ack>>))
           /\ IsAck(q \o <<Ack>>)
           /\ \A P, n : \A ms \in Texts(P, n) :
                 /\ IsBurst(q \o (<<Burst(ms)>> \o <<>>), P, n)
                 /\ IsBurst(q \o <<Burst(ms)>>, P, n)
                 /\ IsBurstAck(q \o (<<Burst(ms)>> \o <<Ack>>), P, n)
                 /\ IsBurstAck(q \o <<Burst(ms), Ack>>, P, n)
<1>1. q = <<>> /\ <<>> \o <<Ack>> = <<Ack>>
  BY DEF IsEmpty
<1>2. IsAck(q \o (<<>> \o <<Ack>>)) /\ IsAck(q \o <<Ack>>)
  BY <1>1, Sent DEF IsAck
<1>3. ASSUME NEW P, NEW n, NEW ms \in Texts(P, n)
      PROVE  /\ IsBurst(q \o (<<Burst(ms)>> \o <<>>), P, n)
             /\ IsBurst(q \o <<Burst(ms)>>, P, n)
             /\ IsBurstAck(q \o (<<Burst(ms)>> \o <<Ack>>), P, n)
             /\ IsBurstAck(q \o <<Burst(ms), Ack>>, P, n)
  <2> DEFINE b == Burst(ms)
  <2>1. b \in Bursts(P, n)
    BY <1>3, Payloads
  <2>2. <<b>> \o <<>> = <<b>>
    OBVIOUS
  <2> HIDE DEF b
  <2>3. <<b>> \o <<Ack>> = <<b, Ack>> /\ <<>> \o <<b, Ack>> = <<b, Ack>>
    BY Sent
  <2>4. IsBurst(q \o (<<b>> \o <<>>), P, n) /\ IsBurst(q \o <<b>>, P, n)
    BY <1>1, <2>1, <2>2, Sent
  <2>5. IsBurstAck(q \o (<<b>> \o <<Ack>>), P, n) /\ IsBurstAck(q \o <<b, Ack>>, P, n)
    BY <1>1, <2>1, <2>3, Sent
  <2>6. QED
    BY <2>4, <2>5 DEF b
<1>4. QED
  BY <1>2, <1>3

\* The queue to the host after the device has sent a line, a 0x00, or both.
LEMMA SentToHost ==
    ASSUME NEW q
    PROVE  /\ IsEmpty(q) => IsReady(q \o <<Ready>>)
           /\ \A P, n : \A ms \in Texts(P, n) :
                 /\ IsEmpty(q) => IsLine(q \o <<Line(ms)>>, P, n)
                 /\ IsEmpty(q) => IsReadyLine(q \o <<Ready, Line(ms)>>, P, n)
                 /\ IsReady(q) => IsReadyLine(q \o <<Line(ms)>>, P, n)
<1>1. IsEmpty(q) => IsReady(q \o <<Ready>>)
  BY Sent DEF IsEmpty, IsReady
<1>2. ASSUME NEW P, NEW n, NEW ms \in Texts(P, n)
      PROVE  /\ IsEmpty(q) => IsLine(q \o <<Line(ms)>>, P, n)
             /\ IsEmpty(q) => IsReadyLine(q \o <<Ready, Line(ms)>>, P, n)
             /\ IsReady(q) => IsReadyLine(q \o <<Line(ms)>>, P, n)
  <2> DEFINE l == Line(ms)
  <2>1. l \in Lines(P, n)
    BY <1>2, Payloads
  <2> HIDE DEF l
  <2>2. IsEmpty(q) => IsLine(q \o <<l>>, P, n) /\ IsReadyLine(q \o <<Ready, l>>, P, n)
    BY <2>1, Sent DEF IsEmpty
  <2>3. IsReady(q) => IsReadyLine(q \o <<l>>, P, n)
    <3>1. <<Ready>> \o <<l>> = <<Ready, l>>
      BY Sent
    <3>2. IsReadyLine(<<Ready, l>>, P, n)
      BY <2>1, Sent
    <3>3. QED
      BY <3>1, <3>2 DEF IsReady
  <2>4. QED
    BY <2>2, <2>3 DEF l
<1>3. QED
  BY <1>1, <1>2

-----------------------------------------------------------------------------
\* Reading.

LEMMA LineAlone ==
    ASSUME NEW l, l.kind = "line"
    PROVE  /\ CanReadLine(<<l>>)
           /\ LineRead(<<l>>) = l
           /\ AfterReadLine(<<l>>) = <<>>
<1> DEFINE q == <<l>>
<1>1. LineAt(q, 1) /\ 1 \in 1..Len(q)
  BY DEF LineAt
<1>2. \A p \in 1..Len(q) : LineAt(q, p) => p = 1
  OBVIOUS
<1>3. LineEnd(q) = 1
  BY <1>1, <1>2 DEF LineEnd
<1>4. AfterReadLine(q) = <<>>
  BY <1>3 DEF AfterReadLine
<1>5. QED
  BY <1>1, <1>3, <1>4 DEF CanReadLine, LineRead, LineAt

\* What the device gets.
LEMMA Received ==
    ASSUME NEW q
    PROVE  /\ IsAck(q) => CanRecv(q, "ack") /\ ~CanRecv(q, "burst") /\ Tail(q) = <<>>
           /\ \A P, n : IsBurst(q, P, n) =>
                 /\ CanRecv(q, "burst") /\ ~CanRecv(q, "ack") /\ Tail(q) = <<>>
                 /\ Head(q).data \in Texts(P, n) /\ (n = 1 => Head(q).data[1] \in P)
           /\ \A P, n : IsBurstAck(q, P, n) =>
                 /\ CanRecv(q, "burst") /\ ~CanRecv(q, "ack") /\ IsAck(Tail(q))
                 /\ Head(q).data \in Texts(P, n) /\ (n = 1 => Head(q).data[1] \in P)
           /\ q = <<Code>> => CanRecv(q, "code") /\ Tail(q) = <<>>
           /\ IsEmpty(q) => \A k : ~CanRecv(q, k)
<1>1. \A P, n : \A b \in Bursts(P, n) :
          b.kind = "burst" /\ b.data \in Texts(P, n) /\ (n = 1 => b.data[1] \in P)
  BY DEF Bursts, Texts
<1>2. IsAck(q) => CanRecv(q, "ack") /\ ~CanRecv(q, "burst") /\ Tail(q) = <<>>
  BY DEF IsAck, CanRecv, Ack
<1>3. ASSUME NEW P, NEW n, IsBurst(q, P, n)
      PROVE  /\ CanRecv(q, "burst") /\ ~CanRecv(q, "ack") /\ Tail(q) = <<>>
             /\ Head(q).data \in Texts(P, n) /\ (n = 1 => Head(q).data[1] \in P)
  <2>1. PICK b \in Bursts(P, n) : q = <<b>>
    BY <1>3 DEF IsBurst
  <2>2. Head(q) = b /\ q # <<>> /\ Tail(q) = <<>>
    BY <2>1
  <2>3. QED
    BY <1>1, <2>2 DEF CanRecv
<1>4. ASSUME NEW P, NEW n, IsBurstAck(q, P, n)
      PROVE  /\ CanRecv(q, "burst") /\ ~CanRecv(q, "ack") /\ IsAck(Tail(q))
             /\ Head(q).data \in Texts(P, n) /\ (n = 1 => Head(q).data[1] \in P)
  <2>1. PICK b \in Bursts(P, n) : q = <<b, Ack>>
    BY <1>4 DEF IsBurstAck
  <2>2. Head(q) = b /\ q # <<>> /\ Tail(q) = <<Ack>>
    BY <2>1
  <2>3. QED
    BY <1>1, <2>2 DEF CanRecv, IsAck
<1>5. q = <<Code>> => CanRecv(q, "code") /\ Tail(q) = <<>>
  BY DEF CanRecv, Code
<1>6. IsEmpty(q) => \A k : ~CanRecv(q, k)
  BY DEF IsEmpty, CanRecv
<1>7. QED
  BY <1>2, <1>3, <1>4, <1>5, <1>6

\* What the host gets.
LEMMA HostReceived ==
    ASSUME NEW q
    PROVE  /\ IsReady(q) => CanReadByte(q) /\ AfterReadByte(q) = <<>> /\ ~CanReadLine(q)
           /\ \A P, n : IsReadyLine(q, P, n) => CanReadByte(q) /\ IsLine(AfterReadByte(q), P, n)
           /\ \A P, n : IsLine(q, P, n) =>
                 /\ CanReadLine(q) /\ AfterReadLine(q) = <<>>
                 /\ LineRead(q).data \in Texts(P, n)
           /\ q = <<Line(<<>>)>> => CanReadLine(q) /\ AfterReadLine(q) = <<>>
           /\ IsEmpty(q) => ~CanReadByte(q) /\ ~CanReadLine(q)
<1>1. \A P, n : \A l \in Lines(P, n) : l.kind = "line" /\ l.data \in Texts(P, n)
  BY DEF Lines
<1>2. IsReady(q) => CanReadByte(q) /\ AfterReadByte(q) = <<>> /\ ~CanReadLine(q)
  BY DEF IsReady, CanReadByte, AfterReadByte, CanReadLine, Ready
<1>3. ASSUME NEW P, NEW n, IsReadyLine(q, P, n)
      PROVE  CanReadByte(q) /\ IsLine(AfterReadByte(q), P, n)
  <2>1. PICK l \in Lines(P, n) : q = <<Ready, l>>
    BY <1>3 DEF IsReadyLine
  <2>2. CanReadByte(q) /\ AfterReadByte(q) = <<l>>
    BY <2>1 DEF CanReadByte, AfterReadByte, Ready
  <2>3. QED
    BY <2>2, Sent
<1>4. ASSUME NEW P, NEW n, IsLine(q, P, n)
      PROVE  /\ CanReadLine(q) /\ AfterReadLine(q) = <<>>
             /\ LineRead(q).data \in Texts(P, n)
  <2>1. PICK l \in Lines(P, n) : q = <<l>>
    BY <1>4 DEF IsLine
  <2>2. QED
    BY <1>1, <2>1, LineAlone
<1>5. q = <<Line(<<>>)>> => CanReadLine(q) /\ AfterReadLine(q) = <<>>
  BY LineAlone DEF Line
<1>6. IsEmpty(q) => ~CanReadByte(q) /\ ~CanReadLine(q)
  BY DEF IsEmpty, CanReadByte, CanReadLine
<1>7. QED
  BY <1>2, <1>3, <1>4, <1>5, <1>6

\* What comes first in a queue of each form.
LEMMA Heads ==
    ASSUME NEW q
    PROVE  /\ IsAck(q) => q = <<Ack>> /\ Head(q).kind = "ack"
           /\ \A P, n : IsBurst(q, P, n) => Head(q).kind = "burst"
           /\ \A P, n : IsBurstAck(q, P, n) => Head(q).kind = "burst"
           /\ q = <<Code>> => Head(q).kind = "code"
           /\ IsReady(q) => Head(q).kind = "ready"
           /\ \A P, n : IsReadyLine(q, P, n) => Head(q).kind = "ready"
           /\ \A P, n : IsLine(q, P, n) => Head(q).kind = "line"
           /\ q = <<Line(<<>>)>> => Head(q).kind = "line"
<1>1. \A P, n : IsBurst(q, P, n) \/ IsBurstAck(q, P, n) => Head(q).kind = "burst"
  BY Received DEF CanRecv
<1>2. ASSUME NEW P, NEW n, IsReadyLine(q, P, n) PROVE Head(q).kind = "ready"
  BY <1>2 DEF IsReadyLine, Ready
<1>3. ASSUME NEW P, NEW n, IsLine(q, P, n) PROVE Head(q).kind = "line"
  <2>1. PICK l \in Lines(P, n) : q = <<l>>
    BY <1>3 DEF IsLine
  <2>2. QED
    BY <2>1 DEF Lines
<1>4. QED
  BY <1>1, <1>2, <1>3 DEF IsAck, IsReady, Ack, Code, Ready, Line

-----------------------------------------------------------------------------
\* The same for queues of which the contents are known.

LEMMA Puts ==
    /\ <<>> \o <<Ready>> = <<Ready>> /\ <<>> \o <<Ack>> = <<Ack>> /\ <<>> \o <<Code>> = <<Code>>
    /\ \A ms : <<>> \o <<Line(ms)>> = <<Line(ms)>>
    /\ \A ms : <<>> \o <<Ready, Line(ms)>> = <<Ready, Line(ms)>>
    /\ \A ms : <<>> \o <<Burst(ms)>> = <<Burst(ms)>>
    /\ \A ms : <<>> \o (<<Burst(ms)>> \o <<>>) = <<Burst(ms)>>
    /\ \A ms : <<>> \o (<<Burst(ms)>> \o <<Ack>>) = <<Burst(ms), Ack>>
<1>1. \A x : <<>> \o (<<x>> \o <<>>) = <<x>>
  OBVIOUS
<1>2. QED
  BY <1>1, Sent

LEMMA DevGets ==
    /\ \A k : ~CanRecv(<<>>, k)
    /\ CanRecv(<<Code>>, "code") /\ Tail(<<Code>>) = <<>>
    /\ CanRecv(<<Ack>>, "ack") /\ ~CanRecv(<<Ack>>, "burst") /\ Tail(<<Ack>>) = <<>>
    /\ \A ms : /\ CanRecv(<<Burst(ms)>>, "burst") /\ ~CanRecv(<<Burst(ms)>>, "ack")
               /\ Head(<<Burst(ms)>>).data = ms /\ Tail(<<Burst(ms)>>) = <<>>
    /\ \A ms : /\ CanRecv(<<Burst(ms), Ack>>, "burst") /\ ~CanRecv(<<Burst(ms), Ack>>, "ack")
               /\ Head(<<Burst(ms), Ack>>).data = ms /\ Tail(<<Burst(ms), Ack>>) = <<Ack>>
  BY DEF CanRecv, Code, Ack, Burst


-----------------------------------------------------------------------------
\* The host finds the line it looks for in the keygen file.

LEMMA CountLine ==
    ASSUME NEW n \in Nat, NEW c \in Nat, n <= c
    PROVE  StartsWith(n, c) <=> n = c
  BY DEF StartsWith

LEMMA HeaderAt ==
    ASSUME ProgTypeOK, FileInv, NEW p \in 1..Len(hdr)
    PROVE  hdr[p].at \in Nat
<1> DEFINE T == [n : Keys, at : Nat]
<1>1. hdr \in Seq(T)
  BY DEF ProgTypeOK
<1>2. \A r \in T : r.at \in Nat
  OBVIOUS
<1> HIDE DEF T
<1>3. hdr[p] \in T
  BY <1>1
<1>4. QED
  BY <1>2, <1>3

LEMMA Found ==
    ASSUME ProgTypeOK, FileInv, NEW j \in Index,
           Len(hdr) = cnt + 1, Len(file) = hdr[cnt + 1].at + S - 1
    PROVE  /\ FoundTriple(j) \in Texts(Mat, 3)
           /\ FoundTriple(j) = file[hdr[cnt + 1].at + j]
<1> DEFINE Fits(p) == /\ StartsWith(hdr[p].n, cnt)
                      /\ \A r \in 1..(p - 1) : ~StartsWith(hdr[r].n, cnt)
<1>1. /\ cnt \in Nat /\ S \in Nat
      /\ \A p \in 1..Len(hdr) : hdr[p].n = p - 1
      /\ file \in Seq(Texts(Mat, 3))
  BY KeygenAssumption DEF ProgTypeOK, FileInv, Keys
<1>2. cnt + 1 \in 1..Len(hdr)
  BY <1>1
<1>3. hdr[cnt + 1].at \in Nat
  BY <1>2, HeaderAt
<1>4. \A p \in 1..Len(hdr) : StartsWith(hdr[p].n, cnt) <=> p = cnt + 1
  <2> TAKE p \in 1..Len(hdr)
  <2>1. p - 1 \in Nat /\ p - 1 <= cnt /\ hdr[p].n = p - 1
    BY <1>1
  <2>2. QED
    BY <1>1, <2>1, CountLine
<1>5. \A p \in 1..Len(hdr) : Fits(p) <=> p = cnt + 1
  BY <1>1, <1>2, <1>4
<1>6. (CHOOSE p \in 1..Len(hdr) : Fits(p)) = cnt + 1
  <2> HIDE DEF Fits
  <2> QED BY <1>2, <1>5
<1>7. FoundTriple(j) = file[hdr[cnt + 1].at + j]
  BY <1>6 DEF FoundTriple
<1>8. hdr[cnt + 1].at + j \in 1..Len(file)
  BY <1>1, <1>2, <1>3 DEF Index
<1>9. QED
  BY <1>1, <1>7, <1>8

LEMMA Triples ==
    ASSUME NEW t \in Texts(Mat, 3)
    PROVE  t[1] \in Mat /\ t[2] \in Mat /\ t[3] \in Mat
<1>1. t \in Seq(Mat) /\ Len(t) = 3
  BY DEF Texts
<1>2. \A p \in 1..3 : t[p] \in Mat
  BY <1>1
<1>3. QED
  BY <1>2

-----------------------------------------------------------------------------
\* The device's steps.

\* Where the device is tells which part of Lockstep holds.
LEMMA DevRows ==
    ASSUME Lockstep
    PROVE  /\ dpc = "cmd" => LockCmd
           /\ dpc # "cmd" => dkey = cnt
           /\ dpc = "ackG0" => LockG0
           /\ dpc \in {"try", "rdG0", "pi"} => LockAttempt
           /\ dpc \in {"rdG0again", "ackTriple"} => LockTriple
           /\ dpc \in {"rdA", "ackA"} => LockSend("rdA", "ackA", "sendA", "sendB")
           /\ dpc \in {"rdB", "ackB"} => LockSend("rdB", "ackB", "sendB", "skReady")
           /\ dpc = "ackSk" => LockSk
           /\ dpc \in {"rdG", "ackG"} => LockPk
  BY DEF Lockstep, LockCmd, LockG0, LockAttempt, LockTriple, LockSend, LockSk, LockPk

LEMMA StepStart ==
    ASSUME TurnsInv, DevStart, UNCHANGED <<case, host>>
    PROVE  TurnsInv'
<1> USE KeygenAssumption DEF BIG, case, TurnsInv, DevStart, DevRecv, SendHost, host
<1>1. /\ dkey = cnt - 1 /\ hidx = 1 /\ toDev = <<Code>> /\ toHost = <<>>
      /\ hpc = IF BIG THEN "g0Ready" ELSE "tripleReady"
  BY DevRows, Received DEF LockCmd, At, IsEmpty
<1>2. cnt \in Keys /\ dkey' = cnt /\ toDev' = <<>>
  BY <1>1, Received DEF ProgTypeOK, Keys
<1>3. G0Of(dkey') \in Mat
  BY <1>2 DEF G0Of, Ref, Mat
<1>4. BIG => IsReadyLine(toHost', Mat, 1)
  <2>1. <<G0Of(dkey')>> \in Texts(Mat, 1)
    BY <1>3, Payloads
  <2>2. QED
    BY <1>1, <2>1, SentToHost DEF IsEmpty
<1>5. Lockstep'
  BY <1>1, <1>2, <1>4 DEF Lockstep, LockG0, LockAttempt, At, Level, IsEmpty
<1>6. ProgTypeOK'
  BY <1>1, <1>2, <1>3 DEF ProgTypeOK, DevRecvs, Index
<1>7. FileInv'
  BY <1>1 DEF FileInv
<1>8. QED
  BY <1>5, <1>6, <1>7

LEMMA StepAckG0 ==
    ASSUME TurnsInv, DevAckG0, UNCHANGED <<case, host>>
    PROVE  TurnsInv'
<1> USE KeygenAssumption DEF BIG, case, TurnsInv, DevAckG0, DevRecv, SendHost, host
<1>1. /\ dkey = cnt /\ hpc = "tripleReady" /\ hidx = 1 /\ idx = 1
      /\ IsAck(toDev) /\ toHost = <<>>
  BY DevRows, Received DEF LockG0, At, IsEmpty
<1>2. toDev' = <<>> /\ toHost' = <<>>
  BY <1>1, Received
<1>3. Lockstep'
  BY <1>1, <1>2 DEF Lockstep, LockAttempt, At, Level, IsEmpty
<1>4. ProgTypeOK'
  BY <1>1 DEF ProgTypeOK, DevRecvs
<1>5. FileInv'
  BY <1>1 DEF FileInv
<1>6. QED
  BY <1>3, <1>4, <1>5

LEMMA StepAttempt ==
    ASSUME TurnsInv, DevAttempt, UNCHANGED <<case, host>>
    PROVE  TurnsInv'
<1> USE KeygenAssumption DEF BIG, case, TurnsInv, DevAttempt, DevRecv, SendHost, host
<1>1. /\ dkey = cnt /\ Level /\ hpc = "tripleReady"
      /\ toDev = <<>> /\ toHost = <<>>
  BY DevRows DEF LockAttempt, At, IsEmpty
<1>2. dkey \in Keys /\ att' \in 1..MaxAtt
  BY <1>1 DEF ProgTypeOK
<1> DEFINE good == BIG => gdata = G0Of(dkey)
           new(of) == [of |-> of, key |-> dkey, att |-> att + 1, good |-> good]
<1>3. good \in BOOLEAN
  OBVIOUS
<1>4. new("GT") \in Mat /\ new("Ainv") \in Mat /\ new("Binv") \in Mat
  <2> HIDE DEF good
  <2> QED BY <1>2, <1>3 DEF Mat
<1>5. gdata' \in {new("GT"), gdata}
  OBVIOUS
<1>6. \/ UNCHANGED <<dpc, ainv, binv, toHost>>
      \/ /\ ainv' = new("Ainv") /\ binv' = new("Binv")
         /\ toHost' = <<>> \o <<Ready>>
         /\ dpc' = IF BIG THEN "rdG0" ELSE "pi"
  BY <1>1
<1>7. Lockstep'
  <2>1. CASE UNCHANGED <<dpc, ainv, binv, toHost>>
    BY <1>1, <2>1 DEF Lockstep, LockAttempt, At, Level, IsEmpty
  <2>2. CASE toHost' = <<>> \o <<Ready>> /\ dpc' = IF BIG THEN "rdG0" ELSE "pi"
    <3>1. IsReady(toHost')
      BY <2>2, Sent DEF IsReady
    <3>2. QED
      BY <1>1, <1>2, <2>2, <3>1 DEF Lockstep, LockAttempt, At, Level, IsEmpty
  <2>3. QED
    BY <1>6, <2>1, <2>2
<1>8. ProgTypeOK'
  <2> HIDE DEF new
  <2>1. {gdata', ainv', binv'} \subseteq Mat
    BY <1>4, <1>5, <1>6 DEF ProgTypeOK
  <2>2. dpc' \in DOMAIN DevRecvs \cup {"try", "pi"}
    BY <1>6 DEF DevRecvs
  <2>3. QED
    BY <1>2, <2>1, <2>2 DEF ProgTypeOK
<1>9. FileInv'
  BY <1>1 DEF FileInv
<1>10. QED
  BY <1>7, <1>8, <1>9

LEMMA StepReadG0 ==
    ASSUME TurnsInv, DevReadG0, UNCHANGED <<case, host>>
    PROVE  TurnsInv'
<1> USE KeygenAssumption DEF BIG, case, TurnsInv, DevReadG0, DevRecv, SendHost, host
<1>1. /\ dkey = cnt /\ Level /\ hpc = "triple" /\ IsBurst(toDev, Mat, 1) /\ toHost = <<>>
      /\ BIG /\ att > 0
  BY DevRows, Received DEF LockAttempt, At, IsEmpty
<1>2. toDev' = <<>> /\ toHost' = <<>> /\ gdata' \in Mat
  BY <1>1, Received
<1>3. Lockstep'
  BY <1>1, <1>2 DEF Lockstep, LockAttempt, At, Level, IsEmpty
<1>4. ProgTypeOK'
  BY <1>1, <1>2 DEF ProgTypeOK, DevRecvs
<1>5. FileInv'
  BY <1>1 DEF FileInv
<1>6. QED
  BY <1>3, <1>4, <1>5

LEMMA StepPi ==
    ASSUME "notSyst" \notin Outcomes, TurnsInv, DevPi, UNCHANGED <<case, host>>
    PROVE  TurnsInv'
<1> USE KeygenAssumption DEF BIG, case, TurnsInv, DevPi, DevRecv, SendHost, host
<1>1. /\ dkey = cnt /\ Level /\ IsEmpty(toDev)
      /\ \/ ~BIG /\ hpc = "tripleReady" /\ toHost = <<Ready>>
         \/ hpc = "triple" /\ toHost = <<>>
  BY DevRows DEF LockAttempt, At, IsEmpty, IsReady
<1>2. dkey \in Keys /\ att \in Attempts /\ ainv \in Mat /\ binv \in Mat
  BY <1>1, DevRows DEF ProgTypeOK, LockAttempt, Attempts
<1>3. gdata' \in Mat
  <2> DEFINE good == ainv.good /\ (BIG => gdata = G0Of(dkey))
  <2>1. good \in BOOLEAN
    BY <1>2 DEF Mat
  <2> HIDE DEF good
  <2>2. QED
    BY <1>2, <2>1 DEF Mat, Attempts, good
<1>4. chain[dkey][att] # "notSyst"
  BY <1>2 DEF ProgTypeOK
<1>5. /\ toHost' = toHost \o <<Line(<<ainv, binv, gdata'>>)>>
      /\ dpc' = IF BIG THEN "rdG0again" ELSE "ackTriple"
      /\ UNCHANGED <<dkey, idx, att, ainv, binv, bs, toDev>>
  BY <1>4
<1>6. Line(<<ainv, binv, gdata'>>) \in Lines(Mat, 3)
  BY <1>2, <1>3, Payloads
<1>7. \/ ~BIG /\ hpc = "tripleReady" /\ IsReadyLine(toHost', Mat, 3)
      \/ hpc = "triple" /\ IsLine(toHost', Mat, 3)
  <2> DEFINE l == Line(<<ainv, binv, gdata'>>)
  <2>1. l \in Lines(Mat, 3) /\ toHost' = toHost \o <<l>>
    BY <1>5, <1>6
  <2> HIDE DEF l, DevPi
  <2>2. CASE toHost = <<Ready>>
    BY <1>1, <2>1, <2>2, Sent
  <2>3. CASE toHost = <<>>
    BY <1>1, <2>1, <2>3, Sent
  <2>4. QED
    BY <1>1, <2>2, <2>3
<1>8. LockTriple'
  <2> HIDE DEF DevPi
  <2>1. /\ dpc' = IF BIG THEN "rdG0again" ELSE "ackTriple"
        /\ Level' /\ IsEmpty(toDev') /\ hpc' = hpc
    BY <1>1, <1>5 DEF Level
  <2>2. \/ ~BIG /\ At("tripleReady", IsEmpty(toDev), IsReadyLine(toHost, Mat, 3))'
        \/ At("triple", IsEmpty(toDev), IsLine(toHost, Mat, 3))'
    BY <1>7, <2>1 DEF At
  <2>3. QED
    BY <2>1, <2>2 DEF LockTriple
<1>9. ProgTypeOK'
  BY <1>3, <1>5 DEF ProgTypeOK, DevRecvs
<1>10. FileInv'
  BY DEF FileInv
<1>11. QED
  BY <1>1, <1>5, <1>8, <1>9, <1>10 DEF Lockstep

LEMMA StepReadG0Again ==
    ASSUME TurnsInv, DevReadG0Again, UNCHANGED <<case, host>>
    PROVE  TurnsInv'
<1> USE KeygenAssumption DEF BIG, case, TurnsInv, DevReadG0Again, DevRecv, SendHost, host
<1>1. /\ dkey = cnt /\ BIG /\ IsBurstAck(toDev, Mat, 1) /\ toHost = <<>>
      /\ \/ HostNext /\ hpc = "tripleReady"
         \/ HostWrapped /\ hpc = "sendA"
  BY DevRows, Received DEF LockTriple, At, IsEmpty
<1>2. IsAck(toDev') /\ toHost' = <<>> /\ gdata' \in Mat
  BY <1>1, Received
<1>3. LockTriple'
  BY <1>1, <1>2 DEF LockTriple, At, HostNext, HostWrapped, IsEmpty
<1>4. ProgTypeOK'
  BY <1>1, <1>2 DEF ProgTypeOK, DevRecvs
<1>5. FileInv'
  BY <1>1 DEF FileInv
<1>6. QED
  BY <1>1, <1>3, <1>4, <1>5 DEF Lockstep

LEMMA StepAckTriple ==
    ASSUME TurnsInv, DevAckTriple, UNCHANGED <<case, host>>
    PROVE  TurnsInv'
<1> USE KeygenAssumption DEF BIG, case, TurnsInv, DevAckTriple, DevRecv, SendHost, host
<1>1. /\ dkey = cnt /\ IsAck(toDev) /\ toHost = <<>>
      /\ \/ HostNext /\ hpc = "tripleReady"
         \/ HostWrapped /\ hpc = "sendA"
  BY DevRows, Received DEF LockTriple, At, IsEmpty
<1>2. toDev' = <<>> /\ idx \in Index
  BY <1>1, Received DEF ProgTypeOK
<1>3. CASE idx < DevLast
  <2>1. LockAttempt'
    BY <1>1, <1>2, <1>3
    DEF LockAttempt, At, Level, HostNext, HostWrapped, IsEmpty, DevLast
  <2>2. ProgTypeOK'
    BY <1>2, <1>3 DEF ProgTypeOK, DevRecvs, DevLast, Index
  <2>3. FileInv'
    BY DEF FileInv
  <2>4. QED
    BY <1>1, <1>3, <2>1, <2>2, <2>3 DEF Lockstep
<1>4. CASE ~(idx < DevLast)
  <2>1. IsReady(toHost')
    BY <1>1, <1>4, Sent DEF IsReady
  <2>2. LockSend("rdA", "ackA", "sendA", "sendB")'
    BY <1>1, <1>2, <1>4, <2>1
    DEF LockSend, At, Level, HostNext, HostWrapped, IsEmpty, DevLast
  <2>3. ProgTypeOK'
    BY <1>2, <1>4 DEF ProgTypeOK, DevRecvs, Index
  <2>4. FileInv'
    BY DEF FileInv
  <2>5. QED
    BY <1>1, <1>4, <2>2, <2>3, <2>4 DEF Lockstep
<1>5. QED
  BY <1>3, <1>4

LEMMA StepReadA ==
    ASSUME TurnsInv, DevReadA, UNCHANGED <<case, host>>
    PROVE  TurnsInv'
<1> USE KeygenAssumption DEF BIG, case, TurnsInv, DevReadA, DevRecv, SendHost, host
<1>1. /\ dkey = cnt /\ IsBurstAck(toDev, Mat, 1) /\ toHost = <<>>
      /\ \/ HostNext /\ hpc = "sendA"
         \/ HostWrapped /\ hpc = "sendB"
  BY DevRows, Received DEF LockSend, At, IsEmpty
<1>2. IsAck(toDev') /\ toHost' = <<>> /\ ainv' \in Mat
  BY <1>1, Received
<1>3. LockSend("rdA", "ackA", "sendA", "sendB")'
  BY <1>1, <1>2 DEF LockSend, At, HostNext, HostWrapped, IsEmpty
<1>4. ProgTypeOK'
  <2>1. bs' \in Seq(Mat)
    BY <1>2 DEF ProgTypeOK
  <2>2. QED
    BY <1>2, <2>1 DEF ProgTypeOK, DevRecvs
<1>5. FileInv'
  BY <1>1 DEF FileInv
<1>6. QED
  BY <1>1, <1>3, <1>4, <1>5 DEF Lockstep

LEMMA StepAckA ==
    ASSUME TurnsInv, DevAckA, UNCHANGED <<case, host>>
    PROVE  TurnsInv'
<1> USE KeygenAssumption DEF BIG, case, TurnsInv, DevAckA, DevRecv, SendHost, host
<1>1. /\ dkey = cnt /\ IsAck(toDev) /\ toHost = <<>>
      /\ \/ HostNext /\ hpc = "sendA"
         \/ HostWrapped /\ hpc = "sendB"
  BY DevRows, Received DEF LockSend, At, IsEmpty
<1>2. toDev' = <<>> /\ IsReady(toHost') /\ idx \in Index
  BY <1>1, Received, Sent DEF ProgTypeOK, IsReady
<1>3. \/ LockSend("rdA", "ackA", "sendA", "sendB")'
      \/ LockSend("rdB", "ackB", "sendB", "skReady")'
  BY <1>1, <1>2 DEF LockSend, At, Level, HostNext, HostWrapped, IsEmpty, DevLast
<1>4. ProgTypeOK'
  BY <1>2 DEF ProgTypeOK, DevRecvs, DevLast, Index
<1>5. FileInv'
  BY <1>1 DEF FileInv
<1>6. QED
  BY <1>1, <1>3, <1>4, <1>5 DEF Lockstep

LEMMA StepReadB ==
    ASSUME TurnsInv, DevReadB, UNCHANGED <<case, host>>
    PROVE  TurnsInv'
<1> USE KeygenAssumption DEF BIG, case, TurnsInv, DevReadB, DevRecv, SendHost, host
<1>1. /\ dkey = cnt /\ IsBurstAck(toDev, Mat, 1) /\ toHost = <<>>
      /\ \/ HostNext /\ hpc = "sendB"
         \/ HostWrapped /\ hpc = "skReady"
  BY DevRows, Received DEF LockSend, At, IsEmpty
<1>2. IsAck(toDev') /\ toHost' = <<>> /\ binv' \in Mat
  BY <1>1, Received
<1>3. LockSend("rdB", "ackB", "sendB", "skReady")'
  BY <1>1, <1>2 DEF LockSend, At, HostNext, HostWrapped, IsEmpty
<1>4. ProgTypeOK'
  <2>1. bs' \in Seq(Mat)
    BY <1>2 DEF ProgTypeOK
  <2>2. QED
    BY <1>2, <2>1 DEF ProgTypeOK, DevRecvs
<1>5. FileInv'
  BY <1>1 DEF FileInv
<1>6. QED
  BY <1>1, <1>3, <1>4, <1>5 DEF Lockstep

LEMMA StepAckB ==
    ASSUME TurnsInv, DevAckB, UNCHANGED <<case, host>>
    PROVE  TurnsInv'
<1> USE KeygenAssumption DEF BIG, case, TurnsInv, DevAckB, DevRecv, SendHost, host
<1>1. /\ dkey = cnt /\ IsAck(toDev) /\ toHost = <<>>
      /\ \/ HostNext /\ hpc = "sendB"
         \/ HostWrapped /\ hpc = "skReady"
  BY DevRows, Received DEF LockSend, At, IsEmpty
<1>2. toDev' = <<>> /\ idx \in Index /\ dkey \in Keys /\ bs \in Seq(Mat)
  BY <1>1, Received DEF ProgTypeOK
<1>3. ProgTypeOK'
  <2>1. idx' \in Index /\ dpc' \in {"rdB", "ackSk"}
    BY <1>2 DEF DevLast, Index
  <2>2. UNCHANGED <<build, chain, dkey, att, gdata, ainv, binv, bs>>
    OBVIOUS
  <2> HIDE DEF DevAckB
  <2>3. QED
    BY <2>1, <2>2 DEF ProgTypeOK, DevRecvs
<1>4. FileInv'
  BY <1>1 DEF FileInv
<1>5. CASE idx < DevLast
  <2>1. IsReady(toHost')
    BY <1>1, <1>5, Sent DEF IsReady
  <2>2. LockSend("rdB", "ackB", "sendB", "skReady")'
    BY <1>1, <1>2, <1>5, <2>1
    DEF LockSend, At, Level, HostNext, HostWrapped, IsEmpty, DevLast
  <2>3. QED
    BY <1>1, <1>3, <1>4, <1>5, <2>2 DEF Lockstep
<1>6. CASE ~(idx < DevLast)
  <2> DEFINE l == Line(<<SeedsOf(dkey)>> \o bs)
  <2>1. SeedsOf(dkey) \in Mat
    BY <1>2 DEF SeedsOf, Ref, Mat
  <2>2. l \in Lines(Mat, 0)
    <3>1. <<SeedsOf(dkey)>> \in Seq(Mat)
      BY <2>1
    <3> HIDE DEF DevAckB
    <3>2. QED
      BY <1>2, <3>1, Payloads
  <2>3. toHost' = <<>> \o <<Ready, l>>
    BY <1>1, <1>6
  <2> HIDE DEF l
  <2>4. IsReadyLine(toHost', Mat, 0)
    BY <2>2, <2>3, Sent
  <2>5. LockSk'
    BY <1>1, <1>2, <1>6, <2>4 DEF LockSk, At, HostNext, HostWrapped, IsEmpty, DevLast
  <2>6. QED
    BY <1>1, <1>3, <1>4, <1>6, <2>5 DEF Lockstep
<1>7. QED
  BY <1>5, <1>6

LEMMA StepAckSk ==
    ASSUME TurnsInv, DevAckSk, UNCHANGED <<case, host>>
    PROVE  TurnsInv'
<1> USE KeygenAssumption DEF BIG, case, TurnsInv, DevAckSk, DevRecv, SendHost, host
<1>1. /\ dkey = cnt /\ idx = 1 /\ hidx = 1 /\ hpc = "sendG"
      /\ IsAck(toDev) /\ toHost = <<>>
  BY DevRows, Received DEF LockSk, At, IsEmpty
<1>2. toDev' = <<>> /\ IsReady(toHost')
  BY <1>1, Received, Sent DEF IsReady
<1>3. LockPk'
  BY <1>1, <1>2 DEF LockPk, At, Level, IsEmpty
<1>4. ProgTypeOK'
  BY <1>1 DEF ProgTypeOK, DevRecvs
<1>5. FileInv'
  BY <1>1 DEF FileInv
<1>6. QED
  BY <1>1, <1>3, <1>4, <1>5 DEF Lockstep

LEMMA StepReadG ==
    ASSUME TurnsInv, DevReadG, UNCHANGED <<case, host>>
    PROVE  TurnsInv'
<1> USE KeygenAssumption DEF BIG, case, TurnsInv, DevReadG, DevRecv, SendHost, host
<1>1. /\ dkey = cnt /\ Level /\ hpc = "pk" /\ IsBurst(toDev, Mat, 1) /\ toHost = <<>>
  BY DevRows, Received DEF LockPk, At, IsEmpty
<1>2. toDev' = <<>> /\ gdata' \in Mat /\ dkey \in Keys
  BY <1>1, Received DEF ProgTypeOK
<1> DEFINE seeds == IF idx = 1 THEN <<SeedsOf(dkey)>> ELSE <<>>
           l == Line(seeds \o bs')
<1>3. toHost' = <<>> \o <<l>> /\ bs' = <<gdata'>> /\ dpc' = "ackG"
  BY <1>1
<1>4. bs' \in Seq(Mat)
  BY <1>2, <1>3
<1>5. l \in Lines(Mat, 0)
  <2>1. SeedsOf(dkey) \in Mat
    BY <1>2 DEF SeedsOf, Ref, Mat
  <2>2. seeds \in Seq(Mat)
    BY <2>1
  <2> HIDE DEF seeds, DevReadG
  <2>3. QED
    BY <1>4, <2>2, Payloads
<1> HIDE DEF l
<1>6. IsLine(toHost', Mat, 0)
  BY <1>3, <1>5, Sent
<1>7. LockPk'
  <2>1. Level' /\ IsEmpty(toDev') /\ hpc' = "pk"
    BY <1>1, <1>2 DEF Level, IsEmpty
  <2> HIDE DEF DevReadG
  <2>2. QED
    BY <1>3, <1>6, <2>1 DEF LockPk, At
<1>8. ProgTypeOK'
  BY <1>2, <1>3, <1>4 DEF ProgTypeOK, DevRecvs
<1>9. FileInv'
  BY <1>1 DEF FileInv
<1>10. QED
  BY <1>1, <1>7, <1>8, <1>9 DEF Lockstep

LEMMA StepAckG ==
    ASSUME TurnsInv, DevAckG, UNCHANGED <<case, host>>
    PROVE  TurnsInv'
<1> USE KeygenAssumption DEF BIG, case, TurnsInv, DevAckG, DevRecv, SendHost, host
<1>1. /\ dkey = cnt /\ IsAck(toDev) /\ toHost = <<>>
      /\ \/ HostNext /\ hpc = "sendG"
         \/ HostWrapped /\ hpc = "done"
  BY DevRows, Received DEF LockPk, At, IsEmpty
<1>2. toDev' = <<>> /\ idx \in Index
  BY <1>1, Received DEF ProgTypeOK
<1>3. ProgTypeOK'
  BY <1>2 DEF ProgTypeOK, DevRecvs, DevLast, Index
<1>4. FileInv'
  BY <1>1 DEF FileInv
<1>5. CASE idx < DevLast
  <2>1. IsReady(toHost')
    BY <1>1, <1>5, Sent DEF IsReady
  <2>2. LockPk'
    BY <1>1, <1>2, <1>5, <2>1
    DEF LockPk, At, Level, HostNext, HostWrapped, IsEmpty, DevLast
  <2>3. QED
    BY <1>1, <1>3, <1>4, <1>5, <2>2 DEF Lockstep
<1>6. CASE ~(idx < DevLast)
  <2>1. toHost' = <<Line(<<>>)>>
    BY <1>1, <1>6, Sent
  <2>2. LockCmd'
    BY <1>1, <1>2, <1>6, <2>1 DEF LockCmd, At, HostNext, HostWrapped, IsEmpty, DevLast
  <2>3. QED
    BY <1>3, <1>4, <2>2 DEF Lockstep
<1>7. QED
  BY <1>5, <1>6

-----------------------------------------------------------------------------
\* The host's steps.

\* Where the host is tells where the device can be and what is on the line.
LEMMA HostRows ==
    ASSUME Lockstep
    PROVE  /\ hpc = "start" => dpc = "cmd" /\ dkey = cnt - 1 /\ IsEmpty(toDev) /\ IsEmpty(toHost)
           /\ hpc \in {"g0Ready", "g0"} => BIG
           /\ hpc = "g0Ready" => LockCmd \/ LockG0
           /\ hpc = "g0" => dkey = cnt /\ LockG0
           /\ hpc = "tripleReady" => LockCmd \/ (dkey = cnt /\ (LockG0 \/ LockAttempt \/ LockTriple))
           /\ hpc = "triple" => dkey = cnt /\ (LockAttempt \/ LockTriple)
           /\ hpc = "sendA" => dkey = cnt /\ (LockTriple \/ LockSend("rdA", "ackA", "sendA", "sendB"))
           /\ hpc = "sendB" => dkey = cnt /\ (\/ LockSend("rdA", "ackA", "sendA", "sendB")
                                             \/ LockSend("rdB", "ackB", "sendB", "skReady"))
           /\ hpc = "skReady" => dkey = cnt /\ (LockSend("rdB", "ackB", "sendB", "skReady") \/ LockSk)
           /\ hpc = "sk" => dkey = cnt /\ LockSk
           /\ hpc = "sendG" => dkey = cnt /\ (LockSk \/ LockPk)
           /\ hpc = "pk" => dkey = cnt /\ LockPk
           /\ hpc = "done" => dkey = cnt /\ (LockCmd \/ LockPk)
           /\ hpc # "crashed"
<1>1. CASE LockCmd
  <2>1. CASE dkey = cnt - 1 /\ At("start", IsEmpty(toDev), IsEmpty(toHost))
    BY <1>1, <2>1 DEF LockCmd, At
  <2>2. CASE hpc = IF BIG THEN "g0Ready" ELSE "tripleReady"
    <3>1. \/ BIG /\ hpc = "g0Ready"
          \/ hpc = "tripleReady"
      BY <2>2
    <3>2. QED
      BY <1>1, <3>1
  <2>3. CASE dkey = cnt /\ hpc \in {"done", "finished"}
    BY <1>1, <2>3
  <2>4. QED
    BY <1>1, <2>1, <2>2, <2>3 DEF LockCmd, At
<1>2. CASE dkey = cnt /\ LockG0
  BY <1>2 DEF LockG0, At
<1>3. CASE dkey = cnt /\ LockAttempt
  BY <1>3 DEF LockAttempt, At
<1>4. CASE dkey = cnt /\ LockTriple
  BY <1>4 DEF LockTriple, At
<1>5. CASE dkey = cnt /\ LockSend("rdA", "ackA", "sendA", "sendB")
  BY <1>5 DEF LockSend, At
<1>6. CASE dkey = cnt /\ LockSend("rdB", "ackB", "sendB", "skReady")
  BY <1>6 DEF LockSend, At
<1>7. CASE dkey = cnt /\ LockSk
  BY <1>7 DEF LockSk, At
<1>8. CASE dkey = cnt /\ LockPk
  BY <1>8 DEF LockPk, At
<1>9. QED
  BY <1>1, <1>2, <1>3, <1>4, <1>5, <1>6, <1>7, <1>8 DEF Lockstep

LEMMA HeaderBound ==
    ASSUME ProgTypeOK, FileInv, hpc # "start"
    PROVE  hdr[cnt + 1].at \in Nat /\ cnt \in Nat /\ Len(hdr) = cnt + 1
<1>1. cnt \in Nat /\ Len(hdr) = cnt + 1
  BY KeygenAssumption DEF ProgTypeOK, FileInv, Keys
<1>2. QED
  BY <1>1, HeaderAt

LEMMA Appended ==
    ASSUME NEW T, NEW q \in Seq(T), NEW x \in T
    PROVE  /\ Append(q, x) \in Seq(T) /\ Len(Append(q, x)) = Len(q) + 1
           /\ Append(q, x)[Len(q) + 1] = x
           /\ \A p \in 1..Len(q) : Append(q, x)[p] = q[p]
  OBVIOUS

LEMMA StepHostStart ==
    ASSUME TurnsInv, HostStart, UNCHANGED <<case, dev>>
    PROVE  TurnsInv'
<1> USE KeygenAssumption DEF BIG, case, TurnsInv, HostStart, HostReadByte, HostReadLine, SendDev, dev
<1>1. /\ dpc = "cmd" /\ dkey = cnt - 1 /\ toDev = <<>> /\ toHost = <<>>
      /\ cnt \in Keys /\ Len(hdr) = cnt /\ hpc' \in {"g0Ready", "tripleReady"}
  BY HostRows DEF ProgTypeOK, FileInv, IsEmpty
<1>2. toDev' = <<Code>> /\ hpc' = IF BIG THEN "g0Ready" ELSE "tripleReady"
  BY <1>1, Sent
<1>3. Lockstep'
  BY <1>1, <1>2 DEF Lockstep, LockCmd, At, IsEmpty
<1> DEFINE T == [n : Keys, at : Nat]
           h == [n |-> cnt, at |-> Len(file)]
<1>4. h \in T /\ hdr \in Seq(T) /\ h.n = cnt /\ h.at = Len(file) /\ Len(file) \in Nat
  BY <1>1 DEF ProgTypeOK
<1>5. hdr' = Append(hdr, h) /\ cnt \in Nat
  BY <1>1 DEF Keys
<1> HIDE DEF T, h
<1>6. /\ hdr' \in Seq(T) /\ Len(hdr') = cnt + 1 /\ hdr'[cnt + 1] = h
      /\ \A p \in 1..cnt : hdr'[p] = hdr[p]
  <2> HIDE DEF TurnsInv, HostStart
  <2> QED BY <1>1, <1>4, <1>5, Appended
<1>7. ProgTypeOK'
  BY <1>1, <1>6 DEF ProgTypeOK, ByteReads, Index, T
<1>8. \A p \in 1..Len(hdr') : hdr'[p].n = p - 1
  BY <1>1, <1>4, <1>5, <1>6 DEF FileInv
<1>9. FileInv'
  BY <1>1, <1>4, <1>5, <1>6, <1>8 DEF FileInv
<1>10. QED
  BY <1>3, <1>7, <1>9

LEMMA StepHostG0Ready ==
    ASSUME TurnsInv, HostG0Ready, UNCHANGED <<case, dev>>
    PROVE  TurnsInv'
<1> USE KeygenAssumption DEF BIG, case, TurnsInv, HostG0Ready, HostReadByte, HostReadLine, SendDev, dev
<1>1. /\ dkey = cnt /\ BIG /\ dpc = "ackG0" /\ idx = 1 /\ hidx = 1
      /\ toDev = <<>> /\ IsReadyLine(toHost, Mat, 1)
  BY DevRows, HostRows, HostReceived DEF LockCmd, LockG0, At, IsEmpty
<1>2. IsLine(toHost', Mat, 1)
  BY <1>1, HostReceived
<1>3. Lockstep'
  BY <1>1, <1>2 DEF Lockstep, LockG0, At, IsEmpty
<1>4. ProgTypeOK'
  BY <1>1 DEF ProgTypeOK, LineReads
<1>5. FileInv'
  BY <1>1 DEF FileInv
<1>6. QED
  BY <1>3, <1>4, <1>5

LEMMA StepHostG0 ==
    ASSUME TurnsInv, HostG0, UNCHANGED <<case, dev>>
    PROVE  TurnsInv'
<1> USE KeygenAssumption DEF BIG, case, TurnsInv, HostG0, HostReadByte, HostReadLine, SendDev, dev
<1>1. /\ dkey = cnt /\ BIG /\ dpc = "ackG0" /\ idx = 1 /\ hidx = 1
      /\ toDev = <<>> /\ IsLine(toHost, Mat, 1)
  BY HostRows, HostReceived DEF LockG0, At, IsEmpty
<1>2. toHost' = <<>> /\ LineRead(toHost).data \in Texts(Mat, 1)
  BY <1>1, HostReceived
<1>3. hG0' \in Mat
  BY <1>2 DEF Texts
<1>4. IsAck(toDev')
  BY <1>1, Sent DEF IsAck
<1>5. Lockstep'
  BY <1>1, <1>2, <1>4 DEF Lockstep, LockG0, At, IsEmpty
<1>6. ProgTypeOK'
  BY <1>1, <1>3 DEF ProgTypeOK, ByteReads, MatOrCorrupt
<1>7. FileInv'
  BY <1>1, <1>3 DEF FileInv
<1>8. QED
  BY <1>5, <1>6, <1>7

LEMMA StepHostTripleReady ==
    ASSUME TurnsInv, HostTripleReady, UNCHANGED <<case, dev>>
    PROVE  TurnsInv'
<1> USE KeygenAssumption DEF BIG, case, TurnsInv, HostTripleReady, HostReadByte, HostReadLine, SendDev, dev
<1>1. /\ dkey = cnt /\ IsEmpty(toDev)
      /\ \/ BIG /\ dpc = "rdG0" /\ Level /\ att > 0 /\ IsReady(toHost)
         \/ ~BIG /\ dpc = "pi" /\ Level /\ att > 0 /\ IsReady(toHost)
         \/ ~BIG /\ dpc = "ackTriple" /\ Level /\ IsReadyLine(toHost, Mat, 3)
  BY HostRows, HostReceived DEF LockCmd, LockG0, LockAttempt, LockTriple, At, IsEmpty
<1>2. hG0 \in Mat /\ hG0 # Corrupt
  BY CorruptAssumption DEF FileInv
<1>3. /\ hpc' = "triple"
      /\ toDev' = IF BIG THEN toDev \o (<<Burst(<<hG0>>)>> \o <<>>) ELSE toDev
  BY <1>2 DEF SendMatrix
<1>4. BIG => IsBurst(toDev', Mat, 1)
  <2> DEFINE b == Burst(<<hG0>>)
  <2>1. b \in Bursts(Mat, 1)
    BY <1>2, Payloads
  <2>2. BIG => toDev' = <<>> \o (<<b>> \o <<>>)
    BY <1>1, <1>3 DEF IsEmpty
  <2> HIDE DEF b, HostTripleReady
  <2>3. <<>> \o (<<b>> \o <<>>) = <<b>>
    OBVIOUS
  <2>4. QED
    BY <2>1, <2>2, <2>3, Sent
<1>5. \/ BIG /\ dpc = "rdG0" /\ toHost' = <<>>
      \/ ~BIG /\ dpc = "pi" /\ toHost' = <<>>
      \/ ~BIG /\ dpc = "ackTriple" /\ IsLine(toHost', Mat, 3)
  BY <1>1, HostReceived
<1>6. Level' /\ (dpc' # "ackTriple" => att' > 0)
  BY <1>1 DEF Level
<1>7. Lockstep'
  BY <1>1, <1>3, <1>4, <1>5, <1>6 DEF Lockstep, LockAttempt, LockTriple, At, IsEmpty
<1>8. ProgTypeOK'
  BY <1>3 DEF ProgTypeOK, LineReads
<1>9. FileInv'
  BY <1>3 DEF FileInv
<1>10. QED
  BY <1>7, <1>8, <1>9

LEMMA StepHostTriple ==
    ASSUME TurnsInv, HostTriple, UNCHANGED <<case, dev>>
    PROVE  TurnsInv'
<1> USE KeygenAssumption DEF BIG, case, TurnsInv, HostTriple, HostReadByte, HostReadLine, SendDev, dev
<1>1. /\ dkey = cnt /\ Level /\ IsEmpty(toDev) /\ IsLine(toHost, Mat, 3)
      /\ dpc = IF BIG THEN "rdG0again" ELSE "ackTriple"
  BY HostRows, HostReceived DEF LockAttempt, LockTriple, At, IsEmpty
<1>2. toHost' = <<>> /\ LineRead(toHost).data \in Texts(Mat, 3)
  BY <1>1, HostReceived
<1>3. hG0 \in Mat /\ hidx \in Index
  BY DEF FileInv, ProgTypeOK
<1>4. IF BIG THEN IsBurstAck(toDev', Mat, 1) ELSE IsAck(toDev')
  <2>1. <<hG0>> \in Texts(Mat, 1)
    BY <1>3, Payloads
  <2>2. QED
    BY <1>1, <2>1, SentToDevice
<1>5. \/ HostNext' /\ hpc' = "tripleReady"
      \/ HostWrapped' /\ hpc' = "sendA"
  BY <1>1, <1>3 DEF HostNext, HostWrapped, HostLast, Level, Index
<1>6. Lockstep'
  BY <1>1, <1>2, <1>4, <1>5 DEF Lockstep, LockTriple, At, IsEmpty
<1>7. hidx' \in Index
  BY <1>3 DEF HostLast, Index
<1>8. file' \in Seq(Texts(Mat, 3)) /\ Len(file') = Len(file) + 1
  BY <1>2 DEF FileInv
<1>9. file' \in Seq(Seq(MatOrCorrupt))
  <2>1. Texts(Mat, 3) \subseteq Seq(MatOrCorrupt)
    BY DEF Texts, MatOrCorrupt
  <2>2. QED
    BY <1>2, <2>1 DEF ProgTypeOK
<1>10. ProgTypeOK'
  BY <1>5, <1>7, <1>9 DEF ProgTypeOK, ByteReads
<1>11. FileInv'
  <2>1. hdr[cnt + 1].at \in Nat /\ S \in Nat /\ hidx \in Nat
    BY <1>3, HeaderBound DEF Index
  <2>2. Len(file) = hdr[cnt + 1].at + hidx - 1
    BY DEF FileInv
  <2>3. /\ hpc' = "tripleReady" => Len(file') = hdr'[cnt' + 1].at + hidx' - 1
        /\ hpc' = "sendA" => Len(file') = hdr'[cnt' + 1].at + S - 1
    BY <1>3, <1>8, <2>1, <2>2 DEF HostLast, Index
  <2>4. QED
    BY <1>5, <1>8, <2>3 DEF FileInv
<1>12. QED
  BY <1>6, <1>10, <1>11

LEMMA StepHostSendA ==
    ASSUME TurnsInv, HostSendA, UNCHANGED <<case, dev>>
    PROVE  TurnsInv'
<1> USE KeygenAssumption DEF BIG, case, TurnsInv, HostSendA, HostReadByte, HostReadLine, SendDev, dev
<1>1. /\ dkey = cnt /\ dpc = "rdA" /\ Level /\ IsEmpty(toDev) /\ IsReady(toHost)
  BY HostRows, HostReceived DEF LockTriple, LockSend, At, IsEmpty
<1>2. toHost' = <<>>
  BY <1>1, HostReceived
<1>3. hidx \in Index
  BY DEF ProgTypeOK
<1> DEFINE m == FoundTriple(hidx)[1]
<1>4. m \in Mat /\ m # Corrupt
  <2>1. FoundTriple(hidx) \in Texts(Mat, 3)
    BY <1>3, HeaderBound, Found DEF FileInv
  <2>2. QED
    BY <2>1, Triples, CorruptAssumption
<1>5. /\ hpc' = IF hidx < HostLast THEN "sendA" ELSE "sendB"
      /\ toDev' = toDev \o (<<Burst(<<m>>)>> \o <<Ack>>)
      /\ hidx' = IF hidx < HostLast THEN hidx + 1 ELSE 1
  BY <1>4 DEF SendMatrix
<1> HIDE DEF m
<1>6. IsBurstAck(toDev', Mat, 1)
  <2>1. <<m>> \in Texts(Mat, 1)
    BY <1>4, Payloads
  <2>2. QED
    BY <1>1, <1>5, <2>1, SentToDevice
<1>7. \/ HostNext' /\ hpc' = "sendA"
      \/ HostWrapped' /\ hpc' = "sendB"
  BY <1>1, <1>3, <1>5 DEF HostNext, HostWrapped, HostLast, Level, Index
<1>8. LockSend("rdA", "ackA", "sendA", "sendB")'
  BY <1>1, <1>2, <1>6, <1>7 DEF LockSend, At, IsEmpty
<1>9. ProgTypeOK'
  BY <1>3, <1>5 DEF ProgTypeOK, ByteReads, HostLast, Index
<1>10. FileInv'
  BY <1>7 DEF FileInv
<1>11. QED
  BY <1>1, <1>8, <1>9, <1>10 DEF Lockstep

LEMMA StepHostSendB ==
    ASSUME TurnsInv, HostSendB, UNCHANGED <<case, dev>>
    PROVE  TurnsInv'
<1> USE KeygenAssumption DEF BIG, case, TurnsInv, HostSendB, HostReadByte, HostReadLine, SendDev, dev
<1>1. /\ dkey = cnt /\ dpc = "rdB" /\ Level /\ IsEmpty(toDev) /\ IsReady(toHost)
  BY HostRows, HostReceived DEF LockSend, At, IsEmpty
<1>2. toHost' = <<>>
  BY <1>1, HostReceived
<1>3. hidx \in Index
  BY DEF ProgTypeOK
<1> DEFINE m == FoundTriple(hidx)[2]
<1>4. m \in Mat /\ m # Corrupt
  <2>1. FoundTriple(hidx) \in Texts(Mat, 3)
    BY <1>3, HeaderBound, Found DEF FileInv
  <2>2. QED
    BY <2>1, Triples, CorruptAssumption
<1>5. /\ hpc' = IF hidx < HostLast THEN "sendB" ELSE "skReady"
      /\ toDev' = toDev \o (<<Burst(<<m>>)>> \o <<Ack>>)
      /\ hidx' = IF hidx < HostLast THEN hidx + 1 ELSE 1
  BY <1>4 DEF SendMatrix
<1> HIDE DEF m
<1>6. IsBurstAck(toDev', Mat, 1)
  <2>1. <<m>> \in Texts(Mat, 1)
    BY <1>4, Payloads
  <2>2. QED
    BY <1>1, <1>5, <2>1, SentToDevice
<1>7. \/ HostNext' /\ hpc' = "sendB"
      \/ HostWrapped' /\ hpc' = "skReady"
  BY <1>1, <1>3, <1>5 DEF HostNext, HostWrapped, HostLast, Level, Index
<1>8. LockSend("rdB", "ackB", "sendB", "skReady")'
  BY <1>1, <1>2, <1>6, <1>7 DEF LockSend, At, IsEmpty
<1>9. ProgTypeOK'
  BY <1>3, <1>5 DEF ProgTypeOK, ByteReads, HostLast, Index
<1>10. FileInv'
  BY <1>7 DEF FileInv
<1>11. QED
  BY <1>1, <1>8, <1>9, <1>10 DEF Lockstep

LEMMA StepHostSkReady ==
    ASSUME TurnsInv, HostSkReady, UNCHANGED <<case, dev>>
    PROVE  TurnsInv'
<1> USE KeygenAssumption DEF BIG, case, TurnsInv, HostSkReady, HostReadByte, HostReadLine, SendDev, dev
<1>1. /\ dkey = cnt /\ dpc = "ackSk" /\ idx = 1 /\ hidx = 1
      /\ IsEmpty(toDev) /\ IsReadyLine(toHost, Mat, 0)
  BY HostRows, HostReceived DEF LockSend, LockSk, At, IsEmpty
<1>2. IsLine(toHost', Mat, 0)
  BY <1>1, HostReceived
<1>3. LockSk'
  BY <1>1, <1>2 DEF LockSk, At, IsEmpty
<1>4. ProgTypeOK'
  BY DEF ProgTypeOK, LineReads
<1>5. FileInv'
  BY DEF FileInv
<1>6. QED
  BY <1>1, <1>3, <1>4, <1>5 DEF Lockstep

LEMMA StepHostSk ==
    ASSUME TurnsInv, HostSk, UNCHANGED <<case, dev>>
    PROVE  TurnsInv'
<1> USE KeygenAssumption DEF BIG, case, TurnsInv, HostSk, HostReadByte, HostReadLine, SendDev, dev
<1>1. /\ dkey = cnt /\ dpc = "ackSk" /\ idx = 1 /\ hidx = 1
      /\ IsEmpty(toDev) /\ IsLine(toHost, Mat, 0)
  BY HostRows, HostReceived DEF LockSk, At, IsEmpty
<1>2. toHost' = <<>> /\ LineRead(toHost).data \in Texts(Mat, 0)
  BY <1>1, HostReceived
<1>3. hsk' \in Seq(MatOrCorrupt)
  BY <1>2 DEF Texts, MatOrCorrupt
<1>4. IsAck(toDev')
  BY <1>1, Sent DEF IsAck, IsEmpty
<1>5. LockSk'
  BY <1>1, <1>2, <1>4 DEF LockSk, At, IsEmpty
<1>6. ProgTypeOK'
  BY <1>3 DEF ProgTypeOK, ByteReads
<1>7. FileInv'
  BY DEF FileInv
<1>8. QED
  BY <1>1, <1>5, <1>6, <1>7 DEF Lockstep

LEMMA StepHostSendG ==
    ASSUME TurnsInv, HostSendG, UNCHANGED <<case, dev>>
    PROVE  TurnsInv'
<1> USE KeygenAssumption DEF BIG, case, TurnsInv, HostSendG, HostReadByte, HostReadLine, SendDev, dev
<1>1. /\ dkey = cnt /\ dpc = "rdG" /\ Level /\ IsEmpty(toDev) /\ IsReady(toHost)
  BY HostRows, HostReceived DEF LockSk, LockPk, At, IsEmpty
<1>2. toHost' = <<>>
  BY <1>1, HostReceived
<1> DEFINE m == FoundTriple(hidx)[3]
<1>3. m \in Mat /\ m # Corrupt
  <2>1. hidx \in Index
    BY DEF ProgTypeOK
  <2>2. FoundTriple(hidx) \in Texts(Mat, 3)
    BY <2>1, HeaderBound, Found DEF FileInv
  <2>3. QED
    BY <2>2, Triples, CorruptAssumption
<1>4. hpc' = "pk" /\ toDev' = toDev \o (<<Burst(<<m>>)>> \o <<>>)
  BY <1>3 DEF SendMatrix
<1> HIDE DEF m
<1>5. IsBurst(toDev', Mat, 1)
  <2>1. <<m>> \in Texts(Mat, 1)
    BY <1>3, Payloads
  <2>2. QED
    BY <1>1, <1>4, <2>1, SentToDevice
<1>6. LockPk'
  BY <1>1, <1>2, <1>4, <1>5 DEF LockPk, At, Level, IsEmpty
<1>7. ProgTypeOK'
  BY <1>4 DEF ProgTypeOK, LineReads
<1>8. FileInv'
  BY <1>4 DEF FileInv
<1>9. QED
  BY <1>1, <1>6, <1>7, <1>8 DEF Lockstep

LEMMA StepHostPk ==
    ASSUME TurnsInv, HostPk, UNCHANGED <<case, dev>>
    PROVE  TurnsInv'
<1> USE KeygenAssumption DEF BIG, case, TurnsInv, HostPk, HostReadByte, HostReadLine, SendDev, dev
<1>1. /\ dkey = cnt /\ dpc = "ackG" /\ Level /\ IsEmpty(toDev) /\ IsLine(toHost, Mat, 0)
  BY HostRows, HostReceived DEF LockPk, At, IsEmpty
<1>2. toHost' = <<>> /\ LineRead(toHost).data \in Texts(Mat, 0)
  BY <1>1, HostReceived
<1>3. hidx \in Index /\ hpk \in Seq(MatOrCorrupt)
  BY DEF ProgTypeOK
<1>4. hpk' \in Seq(MatOrCorrupt)
  <2>1. LineRead(toHost).data \in Seq(MatOrCorrupt)
    BY <1>2 DEF Texts, MatOrCorrupt
  <2>2. QED
    BY <1>3, <2>1
<1>5. IsAck(toDev')
  BY <1>1, Sent DEF IsAck, IsEmpty
<1>6. \/ HostNext' /\ hpc' = "sendG"
      \/ HostWrapped' /\ hpc' = "done"
  BY <1>1, <1>3 DEF HostNext, HostWrapped, HostLast, Level, Index
<1>7. LockPk'
  BY <1>1, <1>2, <1>5, <1>6 DEF LockPk, At, IsEmpty
<1>8. ProgTypeOK'
  BY <1>3, <1>4, <1>6 DEF ProgTypeOK, ByteReads, LineReads, HostLast, Index
<1>9. FileInv'
  BY <1>6 DEF FileInv
<1>10. QED
  BY <1>1, <1>7, <1>8, <1>9 DEF Lockstep

LEMMA StepHostDone ==
    ASSUME TurnsInv, HostDone, UNCHANGED <<case, dev>>
    PROVE  TurnsInv'
<1> USE KeygenAssumption DEF BIG, case, TurnsInv, HostDone, HostReadByte, HostReadLine, SendDev, dev
<1>1. dkey = cnt /\ dpc = "cmd" /\ IsEmpty(toDev) /\ toHost = <<Line(<<>>)>>
  BY HostRows, HostReceived DEF LockCmd, LockPk, At, IsEmpty
<1>2. toHost' = <<>>
  BY <1>1, HostReceived
<1>3. /\ cnt \in Keys
      /\ \/ cnt' = cnt + 1 /\ cnt' \in Keys /\ hpc' = "start"
         \/ cnt' = cnt /\ hpc' = "finished"
  BY DEF ProgTypeOK, Keys
<1>4. LockCmd'
  BY <1>1, <1>2, <1>3 DEF LockCmd, At, IsEmpty, Keys
<1>5. rsp' \in Seq([sk : Seq(MatOrCorrupt), pk : Seq(MatOrCorrupt)])
  BY DEF ProgTypeOK
<1>6. ProgTypeOK'
  BY <1>3, <1>5 DEF ProgTypeOK
<1>7. FileInv'
  BY <1>3 DEF FileInv, Keys
<1>8. QED
  BY <1>4, <1>6, <1>7 DEF Lockstep

-----------------------------------------------------------------------------
\* The table of labels and queues is an invariant, and what it says of the line.

LEMMA TurnsInit == Init => TurnsInv
<1> SUFFICES ASSUME Init PROVE TurnsInv
  OBVIOUS
<1> USE KeygenAssumption
<1>1. NoMat \in Mat
  BY DEF NoMat, Mat, Keys
<1>2. build \in Build /\ chain \in [Keys -> [Attempts -> Outcomes]]
  BY CasesAssumption DEF Init, Case
<1>3. ProgTypeOK
  BY <1>1, <1>2 DEF Init, ProgTypeOK, DevRecvs, Index, Keys, MatOrCorrupt
<1>4. Lockstep
  BY DEF Init, Lockstep, LockCmd, At, IsEmpty
<1>5. FileInv
  BY <1>1 DEF Init, FileInv
<1>6. QED
  BY <1>3, <1>4, <1>5 DEF TurnsInv

LEMMA TurnsNext ==
    ASSUME "notSyst" \notin Outcomes, TurnsInv, [Next]_vars
    PROVE  TurnsInv'
<1>1. CASE Device
  BY <1>1, StepStart, StepAckG0, StepAttempt, StepReadG0, StepPi,
     StepReadG0Again, StepAckTriple, StepReadA, StepAckA, StepReadB, StepAckB,
     StepAckSk, StepReadG, StepAckG DEF Device, DevStep
<1>2. CASE Host
  BY <1>2, StepHostStart, StepHostG0Ready, StepHostG0, StepHostTripleReady,
     StepHostTriple, StepHostSendA, StepHostSendB, StepHostSkReady, StepHostSk,
     StepHostSendG, StepHostPk, StepHostDone DEF Host, HostStep
<1>3. CASE UNCHANGED vars
  <2>1. /\ UNCHANGED <<build, chain, dpc, dkey, idx, att, gdata, ainv, binv, bs>>
        /\ UNCHANGED <<toDev, toHost, hpc, hidx, cnt, hG0, hdr, file, hsk, hpk, rsp>>
    BY <1>3 DEF vars, case, dev, line, host
  <2>2. ProgTypeOK'
    BY <2>1 DEF TurnsInv, ProgTypeOK
  <2>3. FileInv'
    BY <2>1 DEF TurnsInv, FileInv
  <2>4. Lockstep'
    BY <2>1 DEF TurnsInv, Lockstep, LockCmd, LockG0, LockAttempt, LockTriple,
       LockSend, LockSk, LockPk, At, Level, HostNext, HostWrapped, BIG
  <2>5. QED
    BY <2>2, <2>3, <2>4 DEF TurnsInv
<1>4. QED
  BY <1>1, <1>2, <1>3 DEF Next, HostStop

\* What the invariant says of the line, whatever the labels.
LEMMA LineForms ==
    ASSUME Lockstep
    PROVE  /\ \/ IsEmpty(toDev) \/ IsAck(toDev) \/ IsBurst(toDev, Mat, 1) \/ IsBurstAck(toDev, Mat, 1)
              \/ toDev = <<Code>>
           /\ \/ IsEmpty(toHost) \/ IsReady(toHost) \/ toHost = <<Line(<<>>)>>
              \/ \E n \in {0, 1, 3} : IsLine(toHost, Mat, n) \/ IsReadyLine(toHost, Mat, n)
<1>1. CASE LockCmd
  BY <1>1 DEF LockCmd, At
<1>2. CASE LockG0
  BY <1>2 DEF LockG0, At
<1>3. CASE LockAttempt
  BY <1>3 DEF LockAttempt, At
<1>4. CASE LockTriple
  BY <1>4 DEF LockTriple, At
<1>5. CASE LockSend("rdA", "ackA", "sendA", "sendB")
  BY <1>5 DEF LockSend, At
<1>6. CASE LockSend("rdB", "ackB", "sendB", "skReady")
  BY <1>6 DEF LockSend, At
<1>7. CASE LockSk
  BY <1>7 DEF LockSk, At
<1>8. CASE LockPk
  BY <1>8 DEF LockPk, At
<1>9. QED
  BY <1>1, <1>2, <1>3, <1>4, <1>5, <1>6, <1>7, <1>8 DEF Lockstep

LEMMA LineTypes ==
    ASSUME Lockstep
    PROVE  LineTypeOK
<1> DEFINE D == ItemOf({"burst", "ack", "code"})
           H == ItemOf({"ready", "line"})
<1>1. \A n : Texts(Mat, n) \subseteq Seq(MatOrCorrupt)
  BY DEF Texts, MatOrCorrupt
<1>2. Bursts(Mat, 1) \subseteq D /\ Ack \in D /\ Code \in D
  BY <1>1 DEF Bursts, ItemOf, Ack, Code
<1>3. /\ \A n : Lines(Mat, n) \subseteq H
      /\ Ready \in H /\ Line(<<>>) \in H
  BY <1>1 DEF Lines, ItemOf, Ready, Line
<1> HIDE DEF D, H
<1>4. toDev \in Seq(D)
  <2>1. CASE IsEmpty(toDev) \/ IsAck(toDev) \/ toDev = <<Code>>
    BY <1>2, <2>1, ShortSeq DEF IsEmpty, IsAck
  <2>2. CASE IsBurst(toDev, Mat, 1) \/ IsBurstAck(toDev, Mat, 1)
    <3>1. PICK b \in Bursts(Mat, 1) : toDev = <<b>> \/ toDev = <<b, Ack>>
      BY <2>2 DEF IsBurst, IsBurstAck
    <3>2. b \in D
      BY <1>2
    <3>3. QED
      BY <1>2, <3>1, <3>2, ShortSeq
  <2>3. QED
    BY <2>1, <2>2, LineForms
<1>5. toHost \in Seq(H)
  <2>1. CASE IsEmpty(toHost) \/ IsReady(toHost) \/ toHost = <<Line(<<>>)>>
    BY <1>3, <2>1, ShortSeq DEF IsEmpty, IsReady
  <2>2. ASSUME NEW n, IsLine(toHost, Mat, n) \/ IsReadyLine(toHost, Mat, n)
        PROVE  toHost \in Seq(H)
    <3>1. PICK l \in Lines(Mat, n) : toHost = <<l>> \/ toHost = <<Ready, l>>
      BY <2>2 DEF IsLine, IsReadyLine
    <3>2. l \in H
      BY <1>3
    <3>3. QED
      BY <1>3, <3>1, <3>2, ShortSeq
  <2>3. QED
    BY <2>1, <2>2, LineForms
<1>6. QED
  BY <1>4, <1>5 DEF LineTypeOK, D, H

LEMMA InvOverrun ==
    ASSUME KeygenInv
    PROVE  NoOverrun
<1> USE DEF KeygenInv, TurnsInv
<1> SUFFICES ASSUME dpc \notin {"cmd", "rdG0", "rdG0again", "rdA", "rdB", "rdG"}
             PROVE  IsEmpty(toDev) \/ IsAck(toDev)
  BY Heads DEF NoOverrun, IsEmpty
<1>1. dpc \in {"ackG0", "try", "pi", "ackTriple", "ackA", "ackB", "ackSk", "ackG"}
  BY DEF ProgTypeOK, DevRecvs
<1>2. QED
  BY <1>1, DevRows
  DEF LockG0, LockAttempt, LockTriple, LockSend, LockSk, LockPk, At

LEMMA InvAligned ==
    ASSUME KeygenInv
    PROVE  Aligned
<1> USE DEF KeygenInv, TurnsInv
<1>1. ASSUME dpc \in DOMAIN DevRecvs, toDev # <<>>
      PROVE  Head(toDev).kind = DevRecvs[dpc]
  <2>1. CASE dpc = "cmd"
    BY <1>1, <2>1, Heads, DevRows DEF LockCmd, At, IsEmpty, DevRecvs
  <2>2. CASE dpc = "ackG0"
    BY <1>1, <2>2, Heads, DevRows DEF LockG0, At, IsEmpty, DevRecvs
  <2>3. CASE dpc = "rdG0"
    BY <1>1, <2>3, Heads, DevRows DEF LockAttempt, At, IsEmpty, DevRecvs
  <2>4. CASE dpc \in {"rdG0again", "ackTriple"}
    BY <1>1, <2>4, Heads, DevRows DEF LockTriple, At, IsEmpty, DevRecvs
  <2>5. CASE dpc \in {"rdA", "ackA", "rdB", "ackB"}
    BY <1>1, <2>5, Heads, DevRows DEF LockSend, At, IsEmpty, DevRecvs
  <2>6. CASE dpc = "ackSk"
    BY <1>1, <2>6, Heads, DevRows DEF LockSk, At, IsEmpty, DevRecvs
  <2>7. CASE dpc \in {"rdG", "ackG"}
    BY <1>1, <2>7, Heads, DevRows DEF LockPk, At, IsEmpty, DevRecvs
  <2>8. QED
    BY <1>1, <2>1, <2>2, <2>3, <2>4, <2>5, <2>6, <2>7 DEF DevRecvs
<1>2. ASSUME hpc \in ByteReads, toHost # <<>>
      PROVE  Head(toHost).kind = "ready"
  <2>1. CASE hpc = "g0Ready"
    BY <1>2, <2>1, Heads, HostRows DEF LockCmd, LockG0, At, IsEmpty
  <2>2. CASE hpc = "tripleReady"
    BY <1>2, <2>2, Heads, HostRows
    DEF LockCmd, LockG0, LockAttempt, LockTriple, At, IsEmpty
  <2>3. CASE hpc \in {"sendA", "sendB"}
    BY <1>2, <2>3, Heads, HostRows DEF LockTriple, LockSend, At, IsEmpty
  <2>4. CASE hpc = "skReady"
    BY <1>2, <2>4, Heads, HostRows DEF LockSend, LockSk, At, IsEmpty
  <2>5. CASE hpc = "sendG"
    BY <1>2, <2>5, Heads, HostRows DEF LockSk, LockPk, At, IsEmpty
  <2>6. QED
    BY <1>2, <2>1, <2>2, <2>3, <2>4, <2>5 DEF ByteReads
<1>3. ASSUME hpc \in LineReads, toHost # <<>>
      PROVE  Head(toHost).kind = "line"
  BY <1>3, Heads, HostRows
  DEF LineReads, LockCmd, LockG0, LockAttempt, LockTriple, LockSk, LockPk, At, IsEmpty
<1>4. QED
  BY <1>1, <1>2, <1>3 DEF Aligned

LEMMA InvMutualWait ==
    ASSUME KeygenInv
    PROVE  NoMutualWait
<1> USE DEF KeygenInv, TurnsInv
<1> SUFFICES ASSUME DevBlocked, HostBlocked PROVE FALSE
  BY DEF NoMutualWait
<1>1. /\ dpc = "cmd" => ~CanRecv(toDev, "code")
      /\ dpc \in {"rdG0", "rdG0again", "rdA", "rdB", "rdG"} => ~CanRecv(toDev, "burst")
      /\ dpc \in {"ackG0", "ackTriple", "ackA", "ackB", "ackSk", "ackG"}
            => ~CanRecv(toDev, "ack")
      /\ dpc \notin {"try", "pi"}
  BY DEF DevBlocked, DevRecvs
<1>2. /\ hpc \in ByteReads => ~CanReadByte(toHost)
      /\ hpc \in LineReads => ~CanReadLine(toHost)
      /\ hpc \in ByteReads \cup LineReads
  BY HostRows DEF HostBlocked, ByteReads, LineReads
<1>3. CASE LockCmd
  BY <1>1, <1>2, <1>3, KeygenAssumption, Received, HostReceived
  DEF LockCmd, At, ByteReads, LineReads
<1>4. CASE LockG0
  BY <1>1, <1>2, <1>4, Received, HostReceived DEF LockG0, At, ByteReads, LineReads
<1>5. CASE LockAttempt
  BY <1>1, <1>2, <1>5, Received, HostReceived DEF LockAttempt, At, ByteReads, LineReads
<1>6. CASE LockTriple
  BY <1>1, <1>2, <1>6, Received, HostReceived DEF LockTriple, At, ByteReads, LineReads
<1>7. CASE \/ LockSend("rdA", "ackA", "sendA", "sendB")
           \/ LockSend("rdB", "ackB", "sendB", "skReady")
  BY <1>1, <1>2, <1>7, Received, HostReceived DEF LockSend, At, ByteReads, LineReads
<1>8. CASE LockSk
  BY <1>1, <1>2, <1>8, Received, HostReceived DEF LockSk, At, ByteReads, LineReads
<1>9. CASE LockPk
  BY <1>1, <1>2, <1>9, Received, HostReceived DEF LockPk, At, ByteReads, LineReads
<1>10. QED
  BY <1>3, <1>4, <1>5, <1>6, <1>7, <1>8, <1>9 DEF Lockstep

-----------------------------------------------------------------------------
\* The steps of the chain.

LEMMA OksType ==
    ASSUME NEW k, NEW a \in Nat
    PROVE  /\ IsFiniteSet({b \in 1..a : chain[k][b] = "ok"})
           /\ Oks(k, a) \in Nat /\ Oks(k, a) <= a
<1>1. IsFiniteSet(1..a) /\ Cardinality(1..a) = a
  BY FS_Interval
<1>2. {b \in 1..a : chain[k][b] = "ok"} \in SUBSET (1..a)
  OBVIOUS
<1>3. QED
  BY <1>1, <1>2, FS_Subset, FS_CardinalityType DEF Oks

LEMMA OksZero ==
    ASSUME NEW k
    PROVE  Oks(k, 0) = 0
<1>1. {b \in 1..0 : chain[k][b] = "ok"} = {}
  OBVIOUS
<1>2. QED
  BY <1>1, FS_EmptySet DEF Oks

LEMMA OksNext ==
    ASSUME NEW k, NEW a \in Nat
    PROVE  Oks(k, a + 1) = IF chain[k][a + 1] = "ok" THEN Oks(k, a) + 1 ELSE Oks(k, a)
<1> DEFINE U(n) == {b \in 1..n : chain[k][b] = "ok"}
<1>1. IsFiniteSet(U(a))
  BY OksType
<1>2. a + 1 \notin U(a)
  OBVIOUS
<1>3. U(a + 1) = IF chain[k][a + 1] = "ok" THEN U(a) \cup {a + 1} ELSE U(a)
  OBVIOUS
<1>4. Oks(k, a) = Cardinality(U(a)) /\ Oks(k, a + 1) = Cardinality(U(a + 1))
  BY DEF Oks
<1> HIDE DEF U
<1>5. Cardinality(U(a) \cup {a + 1}) = Cardinality(U(a)) + 1
  BY <1>1, <1>2, FS_AddElement
<1>6. QED
  BY <1>3, <1>4, <1>5

\* Two successful steps with as many successes up to them are the same step.
LEMMA OksGrow ==
    ASSUME NEW k, NEW a \in Nat, NEW b \in Nat, a < b, chain[k][b] = "ok"
    PROVE  Oks(k, a) < Oks(k, b)
<1> DEFINE U(n) == {c \in 1..n : chain[k][c] = "ok"}
<1>1. IsFiniteSet(U(b)) /\ Oks(k, a) \in Nat /\ Oks(k, b) \in Nat
  BY OksType
<1>2. U(a) \in SUBSET U(b) /\ b \in U(b) /\ b \notin U(a)
  OBVIOUS
<1>3. Oks(k, a) = Cardinality(U(a)) /\ Oks(k, b) = Cardinality(U(b))
  BY DEF Oks
<1> HIDE DEF U
<1>4. Cardinality(U(a)) <= Cardinality(U(b)) /\ Cardinality(U(b)) # Cardinality(U(a))
  BY <1>1, <1>2, FS_Subset
<1>5. QED
  BY <1>1, <1>3, <1>4

LEMMA RefAttIs ==
    ASSUME NEW k, NEW i \in Index, NEW a \in Attempts, chain[k][a] = "ok", Oks(k, a) = i
    PROVE  RefAtt(k)[i] = a
<1> DEFINE Fits(x) == chain[k][x] = "ok" /\ Cardinality({b \in 1..x : chain[k][b] = "ok"}) = i
<1>1. Fits(a)
  BY DEF Oks
<1>2. ASSUME NEW x \in Attempts, Fits(x) PROVE x = a
  <2>1. Oks(k, x) = i /\ x \in Nat /\ a \in Nat
    BY <1>2 DEF Oks, Attempts
  <2>2. ~(x < a) /\ ~(a < x)
    BY <1>2, <2>1, OksGrow, OksType
  <2>3. QED
    BY <2>1, <2>2
<1>3. RefAtt(k)[i] = CHOOSE x \in Attempts : Fits(x)
  BY DEF RefAtt
<1> HIDE DEF Fits
<1>4. QED
  BY <1>1, <1>2, <1>3

-----------------------------------------------------------------------------
\* What the device makes.

LEMMA SameCase ==
    ASSUME UNCHANGED case
    PROVE  /\ BIG' = BIG
           /\ \A of, k, i : Made(of, k, i)' = Made(of, k, i)
           /\ \A k, i : MadeTriple(k, i)' = MadeTriple(k, i)
           /\ \A k, n : SkUpTo(k, n)' = SkUpTo(k, n) /\ PkUpTo(k, n)' = PkUpTo(k, n)
           /\ \A k : MadeSk(k)' = MadeSk(k) /\ MadeKey(k)' = MadeKey(k)
           /\ \A k, a : Oks(k, a)' = Oks(k, a)
<1> USE DEF case
<1>1. BIG' = BIG
  BY DEF BIG
<1>2. \A of, k, i : Made(of, k, i)' = Made(of, k, i)
  BY DEF Made, GoodAt, RefAtt, BIG
<1>3. \A k, i : MadeTriple(k, i)' = MadeTriple(k, i)
  BY <1>2 DEF MadeTriple
<1>4. \A k, n : SkUpTo(k, n)' = SkUpTo(k, n)
  BY <1>2 DEF SkUpTo
<1>5. \A k, n : PkUpTo(k, n)' = PkUpTo(k, n)
  BY <1>2 DEF PkUpTo
<1>6. \A k : MadeSk(k)' = MadeSk(k)
  BY <1>4 DEF MadeSk
<1>7. \A k : MadeKey(k)' = MadeKey(k)
  BY <1>5, <1>6 DEF MadeKey
<1>8. \A k, a : Oks(k, a)' = Oks(k, a)
  BY DEF Oks
<1>9. QED
  BY <1>1, <1>2, <1>3, <1>4, <1>5, <1>6, <1>7, <1>8

LEMMA HostDataStays ==
    ASSUME HostData, UNCHANGED <<case, host>>
    PROVE  HostData'
  BY SameCase DEF HostData, Taken, host

LEMMA DevDataStays ==
    ASSUME DevData, UNCHANGED <<case, dev, cnt>>
    PROVE  DevData'
  BY SameCase DEF DevData, dev, case

\* One more matrix in the bit stream of sk, one more chunk of pk.
LEMMA SkNext ==
    ASSUME NEW k, NEW i \in Index
    PROVE  /\ Append(SkUpTo(k, i - 1), Made("Ainv", k, i)) = SkUpTo(k, i)
           /\ Append(SkUpTo(k, S - 1 + i - 1), Made("Binv", k, i)) = SkUpTo(k, S - 1 + i)
<1>1. i \in Nat /\ S \in Nat /\ i < S /\ i >= 1
  BY KeygenAssumption DEF Index
<1>2. Append(SkUpTo(k, i - 1), Made("Ainv", k, i)) = SkUpTo(k, i)
  BY <1>1 DEF SkUpTo
<1>3. Append(SkUpTo(k, S - 1 + i - 1), Made("Binv", k, i)) = SkUpTo(k, S - 1 + i)
  BY <1>1 DEF SkUpTo
<1>4. QED
  BY <1>2, <1>3

LEMMA PkNext ==
    ASSUME NEW k, NEW i \in Index
    PROVE  PkUpTo(k, IF i = 1 THEN 0 ELSE i)
             \o ((IF i = 1 THEN <<SeedsOf(k)>> ELSE <<>>) \o <<Made("G", k, i)>>)
           = PkUpTo(k, i + 1)
<1> DEFINE x == Made("G", k, i)
<1>1. i \in Nat /\ i >= 1
  BY DEF Index
<1>2. CASE i = 1
  <2>1. <<>> \o (<<SeedsOf(k)>> \o <<x>>) = <<SeedsOf(k), x>>
    <3> HIDE DEF x
    <3> QED BY Sent
  <2>2. PkUpTo(k, 0) = <<>>
    BY DEF PkUpTo
  <2>3. PkUpTo(k, 2) = <<SeedsOf(k), Made("G", k, 1)>>
    <3> DEFINE s == SeedsOf(k)
               y == Made("G", k, 1)
               t == <<s, y>>
               q == PkUpTo(k, 2)
    <3>1. q = [p \in 1..2 |-> IF p = 1 THEN s ELSE Made("G", k, p - 1)]
      BY DEF PkUpTo
    <3>2. q[1] = s /\ q[2] = y
      BY <3>1
    <3> HIDE DEF s, y, q
    <3>3. q = [p \in 1..2 |-> q[p]]
      BY <3>1
    <3>4. q \in Seq({s, y}) /\ Len(q) = 2
      <4>1. \A p \in 1..2 : p = 1 \/ p = 2
        OBVIOUS
      <4>2. \A p \in 1..2 : q[p] \in {s, y}
        BY <3>2, <4>1
      <4>3. QED
        BY <3>3, <4>2
    <3>5. t \in Seq({s, y}) /\ Len(t) = 2 /\ t[1] = s /\ t[2] = y
      OBVIOUS
    <3> HIDE DEF t
    <3>6. q = t
      BY <3>2, <3>4, <3>5
    <3>7. QED
      BY <3>6 DEF s, y, q, t
  <2>4. PkUpTo(k, 0) \o (<<SeedsOf(k)>> \o <<x>>) = PkUpTo(k, 2)
    BY <1>2, <2>1, <2>2, <2>3
  <2>5. (IF i = 1 THEN 0 ELSE i) = 0 /\ i + 1 = 2
    BY <1>2
  <2>6. (IF i = 1 THEN <<SeedsOf(k)>> ELSE <<>>) = <<SeedsOf(k)>>
    BY <1>2
  <2>7. QED
    BY <2>4, <2>5, <2>6
<1>3. CASE i # 1
  <2>1. <<>> \o <<x>> = <<x>>
    OBVIOUS
  <2>2. PkUpTo(k, i) \o <<x>> = PkUpTo(k, i + 1)
    BY <1>1 DEF PkUpTo
  <2>3. QED
    BY <1>3, <2>1, <2>2
<1>4. QED
  BY <1>2, <1>3

-----------------------------------------------------------------------------
\* What passes between the programs: the device's steps.

LEMMA Said ==
    /\ \A ms : <<Line(ms)>>[Len(<<Line(ms)>>)].data = ms
    /\ \A ms : <<Ready, Line(ms)>>[Len(<<Ready, Line(ms)>>)].data = ms
  BY DEF Line

LEMMA DataStart ==
    ASSUME TurnsInv, DataInv, DevStart, UNCHANGED <<case, host>>
    PROVE  DataInv'
<1> USE KeygenAssumption DEF TurnsInv, DataInv
<1>1. dkey = cnt - 1 /\ cnt \in Nat /\ toHost = <<>>
  BY DevRows, Received DEF DevStart, DevRecv, LockCmd, At, IsEmpty, ProgTypeOK, Keys
<1>2. /\ idx' = 1 /\ att' = 0 /\ gdata' = G0Of(cnt) /\ cnt' = cnt
      /\ \/ BIG /\ dpc' = "ackG0" /\ toHost' = <<Ready, Line(<<G0Of(cnt)>>)>>
         \/ ~BIG /\ dpc' = "try" /\ toHost' = <<>>
  <2>1. cnt' = cnt /\ dkey' = cnt
    BY <1>1 DEF DevStart, host
  <2>2. \/ BIG /\ dpc' = "ackG0" /\ toHost' = <<Ready, Line(<<G0Of(cnt)>>)>>
        \/ ~BIG /\ dpc' = "try" /\ toHost' = <<>>
    BY <1>1, <2>1, Puts DEF DevStart, SendHost
  <2>3. QED
    BY <2>1, <2>2 DEF DevStart
<1>3. DevData'
  BY <1>2, OksZero, SameCase DEF DevData
<1>4. LineData'
  BY <1>2, Said DEF LineData, Printed
<1>5. QED
  BY <1>3, <1>4, HostDataStays

LEMMA DataAckG0 ==
    ASSUME TurnsInv, DataInv, DevAckG0, UNCHANGED <<case, host>>
    PROVE  DataInv'
<1> USE DEF TurnsInv, DataInv
<1>1. DevData'
  BY SameCase DEF DevAckG0, DevRecv, DevData, host, case
<1>2. LineData'
  BY DEF DevAckG0, LineData
<1>3. QED
  BY <1>1, <1>2, HostDataStays

\* A turn of the device's loop finds the next matrices or none.
LEMMA DataAttempt ==
    ASSUME "notSyst" \notin Outcomes, TurnsInv, DataInv, DevAttempt, UNCHANGED <<case, host>>
    PROVE  DataInv'
<1> USE KeygenAssumption DEF TurnsInv, DataInv
<1> DEFINE a == att + 1
           good == BIG => gdata = G0Of(cnt)
           new(of) == [of |-> of, key |-> cnt, att |-> a, good |-> good]
<1>1. /\ dpc = "try" /\ dkey = cnt /\ cnt \in Keys /\ idx \in Index
      /\ att \in Nat /\ a \in Attempts
  BY DevRows DEF DevAttempt, ProgTypeOK, Attempts
<1>2. /\ att' = a /\ gdata' = (IF BIG THEN new("GT") ELSE gdata)
      /\ \/ chain[cnt][a] \in {"noSol", "noInvB", "noInvA"} /\ dpc' = "try"
         \/ /\ chain[cnt][a] \notin {"noSol", "noInvB", "noInvA"}
            /\ ainv' = new("Ainv") /\ binv' = new("Binv")
            /\ dpc' = IF BIG THEN "rdG0" ELSE "pi"
  BY <1>1 DEF DevAttempt
<1>3. UNCHANGED <<idx, bs, toDev, cnt>> /\ idx' = idx /\ cnt' = cnt
  BY DEF DevAttempt, host
<1>4. Oks(cnt, att) = idx - 1 /\ (BIG => (gdata = G0Of(cnt) <=> att = 0 \/ chain[cnt][att] = "ok"))
  BY <1>1 DEF DevData
<1>5. good = GoodAt(cnt, a)
  BY <1>1, <1>4 DEF GoodAt
<1>6. chain[cnt][a] \in Outcomes /\ chain[cnt][a] \in Outcome
  BY <1>1 DEF ProgTypeOK
<1>7. new("GT") # G0Of(cnt)
  BY DEF G0Of, Ref
<1>8. chain' = chain /\ BIG' = BIG
  BY SameCase DEF case
<1> HIDE DEF good
<1>9. CASE chain[cnt][a] \in {"noSol", "noInvB", "noInvA"}
  <2>1. dpc' = "try" /\ chain[cnt][a] # "ok"
    BY <1>2, <1>9
  <2>2. Oks(cnt, a) = Oks(cnt, att)
    BY <1>1, <2>1, OksNext
  <2>3. DevData'
    <3> HIDE DEF new
    <3>1. Oks(cnt, att)' = idx' - 1
      BY <1>2, <1>3, <1>4, <2>2, SameCase
    <3>2. BIG => gdata' # G0Of(cnt)
      BY <1>2, <1>7
    <3>3. ~(att' = 0 \/ chain'[cnt'][att'] = "ok")
      BY <1>1, <1>2, <1>3, <1>8, <2>1
    <3>4. QED
      BY <1>3, <1>8, <2>1, <3>1, <3>2, <3>3 DEF DevData
  <2>4. LineData'
    BY <2>1 DEF LineData
  <2>5. QED
    BY <2>3, <2>4, HostDataStays
<1>10. CASE chain[cnt][a] \notin {"noSol", "noInvB", "noInvA"}
  <2>1. chain[cnt][a] = "ok"
    BY <1>6, <1>10 DEF Outcome
  <2>2. Oks(cnt, a) = idx
    BY <1>1, <1>4, <2>1, OksNext DEF Index
  <2>3. RefAtt(cnt)[idx] = a
    BY <1>1, <2>1, <2>2, RefAttIs
  <2>4. ainv' = Made("Ainv", cnt, idx) /\ binv' = Made("Binv", cnt, idx)
    BY <1>2, <1>5, <1>10, <2>3 DEF Made
  <2>5. dpc' \in {"rdG0", "pi"} /\ (dpc' = "pi" => ~BIG) /\ (dpc' = "rdG0" => BIG)
    BY <1>2, <1>10
  <2>6. toDev' = <<>>
    BY <1>1, <1>3, DevRows DEF LockAttempt, At, IsEmpty
  <2>7. DevData'
    <3>1. att' \in Attempts /\ chain'[cnt'][att'] = "ok" /\ Oks(cnt, att)' = idx'
      BY <1>1, <1>2, <1>3, <1>8, <2>1, <2>2, SameCase
    <3>2. ainv' = Made("Ainv", cnt, idx)' /\ binv' = Made("Binv", cnt, idx)'
      BY <1>3, <2>4, SameCase
    <3> HIDE DEF new
    <3>3. QED
      BY <1>8, <2>5, <3>1, <3>2 DEF DevData
  <2>8. LineData'
    BY <2>5, <2>6 DEF LineData, Pushed
  <2>9. QED
    BY <2>7, <2>8, HostDataStays
<1>11. QED
  BY <1>9, <1>10

\* What the device takes from the line is what the host was to send.
LEMMA Taking ==
    ASSUME NEW ms, Pushed(ms), CanRecv(toDev, "burst")
    PROVE  Head(toDev).data = ms
  BY DEF Pushed, CanRecv

LEMMA DataReadG0 ==
    ASSUME TurnsInv, DataInv, DevReadG0, UNCHANGED <<case, host>>
    PROVE  DataInv'
<1> USE DEF TurnsInv, DataInv
<1>1. dpc = "rdG0" /\ dpc' = "pi" /\ gdata' = Head(toDev).data[1] /\ CanRecv(toDev, "burst")
  BY DEF DevReadG0, DevRecv
<1>2. UNCHANGED <<idx, att, ainv, binv, cnt, chain>>
  BY DEF DevReadG0, host, case
<1>3. gdata' = G0Of(cnt)
  BY <1>1, Taking DEF LineData
<1>4. DevData'
  BY <1>1, <1>2, <1>3, SameCase DEF DevData
<1>5. LineData'
  BY <1>1 DEF LineData
<1>6. QED
  BY <1>4, <1>5, HostDataStays

\* The three matrices of this index are printed.
LEMMA DataPi ==
    ASSUME "notSyst" \notin Outcomes, TurnsInv, DataInv, DevPi, UNCHANGED <<case, host>>
    PROVE  DataInv'
<1> USE KeygenAssumption DEF TurnsInv, DataInv
<1>1. /\ dpc = "pi" /\ dkey = cnt /\ cnt \in Keys /\ idx \in Index
      /\ toDev = <<>> /\ (toHost = <<>> \/ toHost = <<Ready>>)
  BY DevRows DEF DevPi, ProgTypeOK, LockAttempt, At, IsEmpty, IsReady
<1>2. /\ att \in Attempts /\ chain[cnt][att] = "ok" /\ Oks(cnt, att) = idx
      /\ ainv = Made("Ainv", cnt, idx) /\ binv = Made("Binv", cnt, idx)
      /\ (BIG => gdata = G0Of(cnt))
  BY <1>1 DEF DevData
<1>3. /\ gdata' = [of |-> "G", key |-> cnt, att |-> att,
                   good |-> ainv.good /\ (BIG => gdata = G0Of(cnt))]
      /\ toHost' = toHost \o <<Line(<<ainv, binv, gdata'>>)>>
      /\ dpc' = (IF BIG THEN "rdG0again" ELSE "ackTriple")
  BY <1>1, <1>2 DEF DevPi, SendHost
<1>4. UNCHANGED <<idx, att, ainv, binv, bs, toDev, cnt, chain, build>>
  BY <1>1, <1>2 DEF DevPi, host, case
<1>5. gdata' = Made("G", cnt, idx)
  <2>1. RefAtt(cnt)[idx] = att
    BY <1>1, <1>2, RefAttIs
  <2> DEFINE good == ainv.good /\ (BIG => gdata = G0Of(cnt))
  <2>2. GoodAt(cnt, att) \in BOOLEAN /\ ainv.good = GoodAt(cnt, att)
    BY <1>2, <2>1 DEF Made, GoodAt
  <2>3. good = GoodAt(cnt, att)
    BY <1>2, <2>2
  <2> HIDE DEF good
  <2>4. QED
    BY <1>3, <2>1, <2>3 DEF Made, good
<1>6. \/ toHost' = <<Line(MadeTriple(cnt, idx))>>
      \/ toHost' = <<Ready, Line(MadeTriple(cnt, idx))>>
  <2>1. <<ainv, binv, gdata'>> = MadeTriple(cnt, idx)
    BY <1>2, <1>5 DEF MadeTriple
  <2>2. toHost' = toHost \o <<Line(MadeTriple(cnt, idx))>>
    BY <1>3, <2>1
  <2>3. QED
    BY <1>1, <2>2, Sent
<1>7. MadeTriple(cnt, idx)' = MadeTriple(cnt, idx)
  BY <1>4, SameCase
<1>8. DevData'
  <2>1. dpc' \in {"rdG0again", "ackTriple"} /\ (dpc' = "ackTriple" => ~BIG) /\ BIG' = BIG
    BY <1>3, SameCase
  <2>2. att' \in Attempts /\ chain'[cnt'][att'] = "ok" /\ Oks(cnt, att)' = idx'
    BY <1>2, <1>4, SameCase
  <2>3. QED
    BY <2>1, <2>2 DEF DevData
<1>9. LineData'
  <2>1. toDev' = <<>> /\ dpc' \in {"rdG0again", "ackTriple"}
    BY <1>1, <1>3, <1>4
  <2>2. toHost'[Len(toHost')].data = MadeTriple(cnt, idx)'
    BY <1>6, <1>7, Said
  <2>3. QED
    BY <2>1, <2>2 DEF LineData, Pushed, Printed
<1>10. QED
  BY <1>8, <1>9, HostDataStays

LEMMA DataReadG0Again ==
    ASSUME TurnsInv, DataInv, DevReadG0Again, UNCHANGED <<case, host>>
    PROVE  DataInv'
<1> USE DEF TurnsInv, DataInv
<1>1. /\ dpc = "rdG0again" /\ dpc' = "ackTriple" /\ gdata' = Head(toDev).data[1]
      /\ CanRecv(toDev, "burst")
  BY DEF DevReadG0Again, DevRecv
<1>2. UNCHANGED <<idx, att, cnt, chain, toHost>>
  BY DEF DevReadG0Again, host, case
<1>3. gdata' = G0Of(cnt)
  BY <1>1, Taking DEF LineData
<1>4. DevData'
  BY <1>1, <1>2, <1>3, SameCase DEF DevData
<1>5. LineData'
  <2>1. Printed(MadeTriple(cnt, idx))
    BY <1>1 DEF LineData
  <2>2. Printed(MadeTriple(cnt, idx))'
    BY <1>2, <2>1, SameCase DEF Printed
  <2>3. QED
    BY <1>1, <2>2 DEF LineData
<1>6. QED
  BY <1>4, <1>5, HostDataStays

LEMMA DataAckTriple ==
    ASSUME TurnsInv, DataInv, DevAckTriple, UNCHANGED <<case, host>>
    PROVE  DataInv'
<1> USE KeygenAssumption DEF TurnsInv, DataInv
<1>1. /\ dpc = "ackTriple" /\ idx \in Index /\ toDev' = <<>>
      /\ \/ idx' = idx + 1 /\ dpc' = "try"
         \/ idx' = 1 /\ dpc' = "rdA" /\ bs' = <<>>
  BY DevRows, Received DEF DevAckTriple, DevRecv, ProgTypeOK, LockTriple, At
<1>2. UNCHANGED <<att, gdata, cnt, chain>>
  BY DEF DevAckTriple, host, case
<1>3. /\ att \in Attempts /\ chain[cnt][att] = "ok" /\ Oks(cnt, att) = idx
      /\ (BIG => gdata = G0Of(cnt))
  BY <1>1 DEF DevData
<1>4. DevData'
  <2>1. SkUpTo(cnt, 0)' = <<>>
    BY DEF SkUpTo
  <2>2. CASE dpc' = "try"
    BY <1>1, <1>2, <1>3, <2>2, SameCase DEF DevData, Index
  <2>3. CASE dpc' = "rdA"
    BY <1>1, <2>1, <2>3 DEF DevData
  <2>4. QED
    BY <1>1, <2>2, <2>3
<1>5. LineData'
  BY <1>1 DEF LineData, Pushed
<1>6. QED
  BY <1>4, <1>5, HostDataStays

LEMMA DataReadA ==
    ASSUME TurnsInv, DataInv, DevReadA, UNCHANGED <<case, host>>
    PROVE  DataInv'
<1> USE DEF TurnsInv, DataInv
<1>1. /\ dpc = "rdA" /\ dpc' = "ackA" /\ ainv' = Head(toDev).data[1]
      /\ bs' = Append(bs, ainv') /\ CanRecv(toDev, "burst")
  BY DEF DevReadA, DevRecv
<1>2. UNCHANGED <<idx, cnt>> /\ idx \in Index
  BY DEF DevReadA, host, ProgTypeOK
<1>3. ainv' = Made("Ainv", cnt, idx) /\ bs = SkUpTo(cnt, idx - 1)
  BY <1>1, Taking DEF LineData, DevData
<1>4. bs' = SkUpTo(cnt, idx)
  BY <1>1, <1>2, <1>3, SkNext
<1>5. DevData'
  BY <1>1, <1>2, <1>4, SameCase DEF DevData
<1>6. LineData'
  BY <1>1 DEF LineData
<1>7. QED
  BY <1>5, <1>6, HostDataStays

LEMMA DataAckA ==
    ASSUME TurnsInv, DataInv, DevAckA, UNCHANGED <<case, host>>
    PROVE  DataInv'
<1> USE KeygenAssumption DEF TurnsInv, DataInv
<1>1. /\ dpc = "ackA" /\ idx \in Index /\ toDev' = <<>>
      /\ \/ idx' = idx + 1 /\ dpc' = "rdA"
         \/ idx = S - 1 /\ idx' = 1 /\ dpc' = "rdB"
  BY DevRows, Received DEF DevAckA, DevRecv, DevLast, ProgTypeOK, LockSend, At, Index
<1>2. UNCHANGED <<bs, cnt>> /\ bs = SkUpTo(cnt, idx)
  BY <1>1 DEF DevAckA, host, DevData
<1>3. DevData'
  <2>1. dpc' = "rdA" => bs' = SkUpTo(cnt, idx' - 1)
    BY <1>1, <1>2 DEF Index
  <2>2. dpc' = "rdB" => bs' = SkUpTo(cnt, S - 1 + idx' - 1)
    BY <1>1, <1>2 DEF Index
  <2>3. QED
    BY <1>1, <1>2, <2>1, <2>2, SameCase DEF DevData
<1>4. LineData'
  BY <1>1 DEF LineData, Pushed
<1>5. QED
  BY <1>3, <1>4, HostDataStays

LEMMA DataReadB ==
    ASSUME TurnsInv, DataInv, DevReadB, UNCHANGED <<case, host>>
    PROVE  DataInv'
<1> USE DEF TurnsInv, DataInv
<1>1. /\ dpc = "rdB" /\ dpc' = "ackB" /\ binv' = Head(toDev).data[1]
      /\ bs' = Append(bs, binv') /\ CanRecv(toDev, "burst")
  BY DEF DevReadB, DevRecv
<1>2. UNCHANGED <<idx, cnt>> /\ idx \in Index
  BY DEF DevReadB, host, ProgTypeOK
<1>3. binv' = Made("Binv", cnt, idx) /\ bs = SkUpTo(cnt, S - 1 + idx - 1)
  BY <1>1, Taking DEF LineData, DevData
<1>4. bs' = SkUpTo(cnt, S - 1 + idx)
  BY <1>1, <1>2, <1>3, SkNext
<1>5. DevData'
  BY <1>1, <1>2, <1>4, SameCase DEF DevData
<1>6. LineData'
  BY <1>1 DEF LineData
<1>7. QED
  BY <1>5, <1>6, HostDataStays

\* After the last B_inv the line of sk is printed.
LEMMA DataAckB ==
    ASSUME TurnsInv, DataInv, DevAckB, UNCHANGED <<case, host>>
    PROVE  DataInv'
<1> USE KeygenAssumption DEF TurnsInv, DataInv
<1>1. /\ dpc = "ackB" /\ dkey = cnt /\ idx \in Index /\ toDev' = <<>> /\ toHost = <<>>
      /\ bs = SkUpTo(cnt, S - 1 + idx)
  BY DevRows, Received
  DEF DevAckB, DevRecv, ProgTypeOK, LockSend, At, IsEmpty, DevData
<1>2. \/ idx' = idx + 1 /\ dpc' = "rdB"
      \/ /\ idx = S - 1 /\ idx' = 1 /\ dpc' = "ackSk"
         /\ toHost' = toHost \o <<Ready, Line(<<SeedsOf(cnt)>> \o bs)>>
  BY <1>1 DEF DevAckB, SendHost, DevLast, Index
<1>3. UNCHANGED <<bs, cnt>>
  BY DEF DevAckB, host
<1>4. CASE dpc' = "rdB"
  <2>1. idx' = idx + 1
    BY <1>2, <1>4
  <2>2. bs' = SkUpTo(cnt, S - 1 + idx' - 1)
    BY <1>1, <1>3, <2>1 DEF Index
  <2>3. DevData'
    BY <1>3, <1>4, <2>2, SameCase DEF DevData
  <2>4. LineData'
    BY <1>1, <1>4 DEF LineData, Pushed
  <2>5. QED
    BY <2>3, <2>4, HostDataStays
<1>5. CASE dpc' = "ackSk"
  <2>1. S - 1 + idx = 2 * (S - 1)
    BY <1>2, <1>5
  <2>2. <<SeedsOf(cnt)>> \o bs = MadeSk(cnt)
    BY <1>1, <2>1 DEF MadeSk
  <2>3. toHost' = <<>> \o <<Ready, Line(MadeSk(cnt))>>
    BY <1>1, <1>2, <1>5, <2>2
  <2>4. toHost' = <<Ready, Line(MadeSk(cnt))>>
    BY <2>3, Puts
  <2>5. LineData'
    BY <1>3, <1>5, <2>4, Said, SameCase DEF LineData, Printed
  <2>6. DevData'
    BY <1>5 DEF DevData
  <2>7. QED
    BY <2>5, <2>6, HostDataStays
<1>6. QED
  BY <1>2, <1>4, <1>5

LEMMA DataAckSk ==
    ASSUME TurnsInv, DataInv, DevAckSk, UNCHANGED <<case, host>>
    PROVE  DataInv'
<1> USE DEF TurnsInv, DataInv
<1>1. dpc = "ackSk" /\ dpc' = "rdG" /\ toDev' = <<>>
  BY DevRows, Received DEF DevAckSk, DevRecv, LockSk, At
<1>2. DevData'
  BY <1>1 DEF DevData
<1>3. LineData'
  BY <1>1 DEF LineData, Pushed
<1>4. QED
  BY <1>2, <1>3, HostDataStays

\* The chunk of pk for this index is printed.
LEMMA DataReadG ==
    ASSUME TurnsInv, DataInv, DevReadG, UNCHANGED <<case, host>>
    PROVE  DataInv'
<1> USE DEF TurnsInv, DataInv
<1>1. /\ dpc = "rdG" /\ dkey = cnt /\ toHost = <<>> /\ CanRecv(toDev, "burst")
  BY DevRows, Received DEF DevReadG, DevRecv, LockPk, At, IsEmpty
<1>2. gdata' = Made("G", cnt, idx)
  BY <1>1, Taking DEF DevReadG, LineData
<1> DEFINE chunk == (IF idx = 1 THEN <<SeedsOf(cnt)>> ELSE <<>>) \o <<Made("G", cnt, idx)>>
<1>3. dpc' = "ackG" /\ toHost' = <<>> \o <<Line(chunk)>>
  BY <1>1, <1>2 DEF DevReadG, SendHost
<1>4. UNCHANGED <<idx, cnt>>
  BY DEF DevReadG, host
<1>5. chunk' = chunk
  BY <1>4, SameCase DEF SeedsOf, Ref
<1>6. toHost'[Len(toHost')].data = chunk
  <2> HIDE DEF chunk
  <2> QED BY <1>3, Puts, Said
<1>7. LineData'
  <2>1. Printed(chunk)'
    <3> HIDE DEF chunk
    <3> QED BY <1>5, <1>6 DEF Printed
  <2>2. QED
    BY <1>3, <2>1 DEF LineData
<1>8. DevData'
  BY <1>3 DEF DevData
<1>9. QED
  BY <1>7, <1>8, HostDataStays

LEMMA DataAckG ==
    ASSUME TurnsInv, DataInv, DevAckG, UNCHANGED <<case, host>>
    PROVE  DataInv'
<1> USE DEF TurnsInv, DataInv
<1>1. dpc = "ackG" /\ dpc' \in {"rdG", "cmd"} /\ toDev' = <<>>
  BY DevRows, Received DEF DevAckG, DevRecv, LockPk, At
<1>2. DevData'
  BY <1>1 DEF DevData
<1>3. LineData'
  BY <1>1 DEF LineData, Pushed
<1>4. QED
  BY <1>2, <1>3, HostDataStays

-----------------------------------------------------------------------------
\* And the host's.

LEMMA Heard ==
    ASSUME NEW q, NEW P, NEW n
    PROVE  /\ IsReadyLine(q, P, n) => /\ q # <<>> /\ AfterReadByte(q) # <<>>
                                      /\ AfterReadByte(q)[Len(AfterReadByte(q))] = q[Len(q)]
           /\ IsLine(q, P, n) => q # <<>> /\ LineRead(q).data = q[Len(q)].data
<1>1. ASSUME IsReadyLine(q, P, n)
      PROVE  /\ q # <<>> /\ AfterReadByte(q) # <<>>
             /\ AfterReadByte(q)[Len(AfterReadByte(q))] = q[Len(q)]
  <2>1. PICK l \in Lines(P, n) : q = <<Ready, l>>
    BY <1>1 DEF IsReadyLine
  <2>2. AfterReadByte(q) = <<l>>
    BY <2>1 DEF AfterReadByte, Ready
  <2>3. Len(q) = 2 /\ q[2] = l /\ q # <<>>
    BY <2>1
  <2>4. Len(<<l>>) = 1 /\ <<l>>[1] = l /\ <<l>> # <<>>
    OBVIOUS
  <2>5. QED
    BY <2>2, <2>3, <2>4
<1>2. ASSUME IsLine(q, P, n)
      PROVE  q # <<>> /\ LineRead(q).data = q[Len(q)].data
  <2>1. PICK l \in Lines(P, n) : q = <<l>>
    BY <1>2 DEF IsLine
  <2>2. LineRead(q) = l
    BY <2>1, LineAlone DEF Lines
  <2>3. QED
    BY <2>1, <2>2
<1>3. QED
  BY <1>1, <1>2

LEMMA TripleParts ==
    ASSUME NEW k, NEW i
    PROVE  /\ MadeTriple(k, i)[1] = Made("Ainv", k, i)
           /\ MadeTriple(k, i)[2] = Made("Binv", k, i)
           /\ MadeTriple(k, i)[3] = Made("G", k, i)
  BY DEF MadeTriple

\* The line found for this index has the matrices made for it.
LEMMA FoundIs ==
    ASSUME TurnsInv, DataInv, hpc \in {"sendA", "sendB", "sendG"}
    PROVE  /\ hidx \in Index
           /\ FoundTriple(hidx) = MadeTriple(cnt, hidx)
           /\ \A p \in 1..3 : FoundTriple(hidx)[p] # Corrupt
<1> USE DEF TurnsInv, DataInv
<1>1. hidx \in Index
  BY DEF ProgTypeOK
<1>2. /\ FoundTriple(hidx) = file[hdr[cnt + 1].at + hidx]
      /\ FoundTriple(hidx) \in Texts(Mat, 3)
  BY <1>1, HeaderBound, Found DEF FileInv
<1>3. Taken(S - 1)
  BY DEF HostData
<1>4. FoundTriple(hidx) = MadeTriple(cnt, hidx)
  BY <1>1, <1>2, <1>3 DEF Taken, Index
<1>5. \A p \in 1..3 : FoundTriple(hidx)[p] # Corrupt
  BY <1>2, CorruptAssumption DEF Texts
<1>6. QED
  BY <1>1, <1>4, <1>5

LEMMA DataHostStart ==
    ASSUME TurnsInv, DataInv, HostStart, UNCHANGED <<case, dev>>
    PROVE  DataInv'
<1> USE KeygenAssumption DEF TurnsInv, DataInv
<1>1. /\ dpc' = "cmd" /\ hpc = "start" /\ hidx' = 1
      /\ hpc' = IF BIG THEN "g0Ready" ELSE "tripleReady"
  BY HostRows DEF HostStart, dev
<1>2. UNCHANGED <<cnt, hpk, rsp>>
  BY DEF HostStart
<1>3. DevData' /\ LineData'
  BY <1>1 DEF DevData, LineData
<1>4. HostData'
  <2>1. Taken(hidx - 1)'
    BY <1>1 DEF Taken
  <2>2. BIG' = BIG /\ \A k : MadeKey(k)' = MadeKey(k)
    BY SameCase
  <2>3. rsp' = [p \in 1..cnt' |-> MadeKey(p - 1)'] /\ hpk' = <<>>
    BY <1>1, <1>2, <2>2 DEF HostData
  <2>4. QED
    BY <1>1, <2>1, <2>2, <2>3 DEF HostData
<1>5. QED
  BY <1>3, <1>4

LEMMA DataHostG0Ready ==
    ASSUME TurnsInv, DataInv, HostG0Ready, UNCHANGED <<case, dev>>
    PROVE  DataInv'
<1> USE DEF TurnsInv, DataInv
<1>1. /\ dpc = "ackG0" /\ IsReadyLine(toHost, Mat, 1) /\ toHost' = AfterReadByte(toHost)
      /\ hpc = "g0Ready" /\ hpc' = "g0"
  BY DevRows, HostRows, HostReceived
  DEF HostG0Ready, HostReadByte, LockCmd, LockG0, At, IsEmpty
<1>2. UNCHANGED <<dpc, hidx, cnt, hG0, hdr, file, hsk, hpk, rsp, toDev>>
  BY DEF HostG0Ready, dev
<1>3. DevData'
  BY <1>2, DevDataStays
<1>4. LineData'
  <2>1. Printed(<<G0Of(cnt)>>)
    BY <1>1 DEF LineData
  <2>2. Printed(<<G0Of(cnt)>>)'
    BY <1>1, <1>2, <2>1, Heard DEF Printed
  <2>3. QED
    BY <1>1, <1>2, <2>2 DEF LineData
<1>5. HostData'
  BY <1>1, <1>2, SameCase DEF HostData
<1>6. QED
  BY <1>3, <1>4, <1>5

LEMMA DataHostG0 ==
    ASSUME TurnsInv, DataInv, HostG0, UNCHANGED <<case, dev>>
    PROVE  DataInv'
<1> USE DEF TurnsInv, DataInv
<1>1. /\ dpc = "ackG0" /\ hidx = 1 /\ IsLine(toHost, Mat, 1)
      /\ hpc = "g0" /\ hpc' = "tripleReady"
  BY HostRows DEF HostG0, HostReadLine, LockG0, At
<1>2. toHost' = <<>> /\ hG0' = LineRead(toHost).data[1]
  BY <1>1, HostReceived DEF HostG0, HostReadLine
<1>3. UNCHANGED <<dpc, hidx, cnt, hdr, file, hsk, hpk, rsp>>
  BY DEF HostG0, dev
<1>4. hG0' = G0Of(cnt)
  BY <1>1, <1>2, Heard DEF LineData, Printed
<1>5. DevData'
  BY <1>3, DevDataStays
<1>6. LineData'
  BY <1>1, <1>2, <1>3 DEF LineData, Printed
<1>7. HostData'
  <2>1. Taken(hidx - 1)'
    BY <1>1, <1>3 DEF Taken
  <2>2. QED
    BY <1>1, <1>3, <1>4, <2>1, SameCase DEF HostData
<1>8. QED
  BY <1>5, <1>6, <1>7

LEMMA DataHostTripleReady ==
    ASSUME TurnsInv, DataInv, HostTripleReady, UNCHANGED <<case, dev>>
    PROVE  DataInv'
<1> USE DEF TurnsInv, DataInv
<1>1. /\ IsEmpty(toDev) /\ toHost' = AfterReadByte(toHost) /\ hpc = "tripleReady"
      /\ \/ BIG /\ dpc = "rdG0" /\ IsReady(toHost)
         \/ ~BIG /\ dpc = "pi" /\ IsReady(toHost)
         \/ ~BIG /\ dpc = "ackTriple" /\ IsReadyLine(toHost, Mat, 3)
  BY HostRows, HostReceived
  DEF HostTripleReady, HostReadByte, LockCmd, LockG0, LockAttempt, LockTriple, At, IsEmpty
<1>2. hG0 \in Mat /\ hG0 # Corrupt
  BY CorruptAssumption DEF FileInv
<1>3. hpc' = "triple" /\ (BIG => toDev' = <<Burst(<<hG0>>)>>)
  BY <1>1, <1>2, Puts DEF HostTripleReady, SendMatrix, SendDev, IsEmpty
<1>4. UNCHANGED <<dpc, idx, hidx, cnt, hG0, hdr, file, hsk, hpk, rsp>>
  BY DEF HostTripleReady, dev
<1>5. BIG => hG0 = G0Of(cnt)
  BY <1>1 DEF HostData
<1>6. DevData'
  BY <1>4, DevDataStays
<1>7. LineData'
  <2>1. CASE dpc = "rdG0"
    BY <1>1, <1>3, <1>4, <1>5, <2>1, DevGets DEF LineData, Pushed
  <2>2. CASE dpc = "pi"
    BY <1>4, <2>2 DEF LineData
  <2>3. CASE dpc = "ackTriple"
    <3>1. Printed(MadeTriple(cnt, idx))
      BY <2>3 DEF LineData
    <3>2. IsReadyLine(toHost, Mat, 3)
      BY <1>1, <2>3
    <3>3. Printed(MadeTriple(cnt, idx))'
      BY <1>1, <1>4, <3>1, <3>2, Heard, SameCase DEF Printed
    <3>4. QED
      BY <1>4, <2>3, <3>3 DEF LineData
  <2>4. QED
    BY <1>1, <2>1, <2>2, <2>3
<1>8. HostData'
  BY <1>1, <1>3, <1>4, SameCase DEF HostData, Taken
<1>9. QED
  BY <1>6, <1>7, <1>8

\* The triple of this index is appended to the keygen file.
LEMMA DataHostTriple ==
    ASSUME TurnsInv, DataInv, HostTriple, UNCHANGED <<case, dev>>
    PROVE  DataInv'
<1> USE KeygenAssumption DEF TurnsInv, DataInv
<1>1. /\ hidx = idx /\ IsEmpty(toDev) /\ IsLine(toHost, Mat, 3) /\ hpc = "triple"
      /\ dpc = IF BIG THEN "rdG0again" ELSE "ackTriple"
  BY HostRows, HostReceived
  DEF HostTriple, HostReadLine, LockAttempt, LockTriple, At, IsEmpty, Level
<1>2. toHost' = <<>> /\ file' = Append(file, MadeTriple(cnt, idx))
  <2>1. LineRead(toHost).data = MadeTriple(cnt, idx)
    BY <1>1, Heard DEF LineData, Printed
  <2>2. QED
    BY <1>1, <2>1, HostReceived DEF HostTriple, HostReadLine
<1>3. UNCHANGED <<dpc, idx, cnt, hG0, hdr, hsk, hpk, rsp>>
  BY DEF HostTriple, dev
<1>4. BIG => toDev' = <<Burst(<<hG0>>), Ack>>
  BY <1>1, Puts, Sent DEF HostTriple, SendDev, IsEmpty
<1>5. hidx \in Index
  BY DEF ProgTypeOK
<1>6. \/ hidx' = hidx + 1 /\ hpc' = "tripleReady"
      \/ hidx = S - 1 /\ hidx' = 1 /\ hpc' = "sendA"
  BY <1>5 DEF HostTriple, HostLast, Index
<1>7. DevData'
  BY <1>3, DevDataStays
<1>8. LineData'
  <2>1. CASE BIG
    <3>1. hG0 = G0Of(cnt)
      BY <1>1, <2>1 DEF HostData
    <3>2. dpc' = "rdG0again" /\ Head(toDev').data = <<G0Of(cnt)>> /\ cnt' = cnt
      BY <1>1, <1>3, <1>4, <2>1, <3>1, DevGets
    <3>3. QED
      BY <1>2, <3>2 DEF LineData, Pushed, Printed
  <2>2. CASE ~BIG
    BY <1>1, <1>2, <1>3, <2>2 DEF LineData, Printed
  <2>3. QED
    BY <2>1, <2>2
<1>9. HostData'
  <2>1. /\ Len(file) = hdr[cnt + 1].at + hidx - 1 /\ hdr[cnt + 1].at \in Nat
        /\ file \in Seq(Texts(Mat, 3))
    BY <1>1, HeaderBound DEF FileInv
  <2>2. \A j \in 1..hidx : file'[hdr[cnt + 1].at + j] = MadeTriple(cnt, j)
    <3> TAKE j \in 1..hidx
    <3>1. CASE j = hidx
      <4>1. hdr[cnt + 1].at + j = Len(file) + 1
        BY <1>5, <2>1, <3>1 DEF Index
      <4>2. QED
        BY <1>1, <1>2, <2>1, <3>1, <4>1
    <3>2. CASE j # hidx
      <4>1. j \in 1..(hidx - 1) /\ hdr[cnt + 1].at + j \in 1..Len(file)
        BY <1>5, <2>1, <3>2 DEF Index
      <4>2. file[hdr[cnt + 1].at + j] = MadeTriple(cnt, j)
        BY <1>1, <4>1 DEF HostData, Taken
      <4>3. QED
        BY <1>2, <2>1, <4>1, <4>2
    <3>3. QED
      BY <3>1, <3>2
  <2>3. \A j \in 1..hidx : file'[hdr'[cnt' + 1].at + j] = MadeTriple(cnt, j)'
    BY <1>3, <2>2, SameCase
  <2>4. hpc' = "tripleReady" => Taken(hidx - 1)'
    BY <1>5, <1>6, <2>3 DEF Taken, Index
  <2>5. hpc' = "sendA" => Taken(S - 1)'
    BY <1>6, <2>3 DEF Taken
  <2>6. BIG' /\ hpc' = "tripleReady" => hG0' = G0Of(cnt)'
    BY <1>1, <1>3, SameCase DEF HostData
  <2>7. hpk' = <<>> /\ rsp' = [p \in 1..cnt' |-> MadeKey(p - 1)']
    BY <1>1, <1>3, SameCase DEF HostData
  <2>8. QED
    BY <1>6, <2>4, <2>5, <2>6, <2>7 DEF HostData
<1>10. QED
  BY <1>7, <1>8, <1>9

\* What is the same for the three loops that send matrices back: m is the one
\* of this index.
LEMMA HostDataKeeps ==
    ASSUME HostData, UNCHANGED <<case, cnt, hdr, file, hsk, hpk, rsp>>,
           \/ hpc = "sendA" /\ hpc' \in {"sendA", "sendB"}
           \/ hpc = "sendB" /\ hpc' \in {"sendB", "skReady"}
           \/ hpc = "skReady" /\ hpc' = "sk"
           \/ hpc = "sendG" /\ hpc' = "pk" /\ hidx' = hidx
    PROVE  HostData'
<1>1. Taken(S - 1)'
  BY SameCase DEF HostData, Taken
<1>2. rsp' = [p \in 1..cnt' |-> MadeKey(p - 1)']
  BY SameCase DEF HostData
<1>3. QED
  BY <1>1, <1>2, SameCase DEF HostData

LEMMA DataHostSendA ==
    ASSUME TurnsInv, DataInv, HostSendA, UNCHANGED <<case, dev>>
    PROVE  DataInv'
<1> USE DEF TurnsInv, DataInv
<1>1. hidx = idx /\ IsEmpty(toDev) /\ dpc = "rdA" /\ hpc = "sendA"
  BY HostRows, HostReceived
  DEF HostSendA, HostReadByte, LockTriple, LockSend, At, IsEmpty, Level
<1> DEFINE m == FoundTriple(hidx)[1]
<1>2. m = Made("Ainv", cnt, idx) /\ m # Corrupt
  BY <1>1, FoundIs, TripleParts
<1>3. /\ hpc' \in {"sendA", "sendB"}
      /\ toDev' = toDev \o (<<Burst(<<m>>)>> \o <<Ack>>)
      /\ UNCHANGED <<cnt, hdr, file, hsk, hpk, rsp>>
  BY <1>2 DEF HostSendA, SendMatrix, SendDev
<1> HIDE DEF m
<1>4. Head(toDev').data = <<m>>
  BY <1>1, <1>3, Puts, DevGets DEF IsEmpty
<1>5. UNCHANGED <<dpc, idx>>
  BY DEF dev
<1>6. DevData'
  BY <1>3, DevDataStays
<1>7. LineData'
  BY <1>1, <1>2, <1>3, <1>4, <1>5, SameCase DEF LineData, Pushed
<1>8. HostData'
  BY <1>1, <1>3, HostDataKeeps
<1>9. QED
  BY <1>6, <1>7, <1>8

LEMMA DataHostSendB ==
    ASSUME TurnsInv, DataInv, HostSendB, UNCHANGED <<case, dev>>
    PROVE  DataInv'
<1> USE DEF TurnsInv, DataInv
<1>1. hidx = idx /\ IsEmpty(toDev) /\ dpc = "rdB" /\ hpc = "sendB"
  BY HostRows, HostReceived
  DEF HostSendB, HostReadByte, LockSend, At, IsEmpty, Level
<1> DEFINE m == FoundTriple(hidx)[2]
<1>2. m = Made("Binv", cnt, idx) /\ m # Corrupt
  BY <1>1, FoundIs, TripleParts
<1>3. /\ hpc' \in {"sendB", "skReady"}
      /\ toDev' = toDev \o (<<Burst(<<m>>)>> \o <<Ack>>)
      /\ UNCHANGED <<cnt, hdr, file, hsk, hpk, rsp>>
  BY <1>2 DEF HostSendB, SendMatrix, SendDev
<1> HIDE DEF m
<1>4. Head(toDev').data = <<m>>
  BY <1>1, <1>3, Puts, DevGets DEF IsEmpty
<1>5. UNCHANGED <<dpc, idx>>
  BY DEF dev
<1>6. DevData'
  BY <1>3, DevDataStays
<1>7. LineData'
  BY <1>1, <1>2, <1>3, <1>4, <1>5, SameCase DEF LineData, Pushed
<1>8. HostData'
  BY <1>1, <1>3, HostDataKeeps
<1>9. QED
  BY <1>6, <1>7, <1>8

LEMMA DataHostSkReady ==
    ASSUME TurnsInv, DataInv, HostSkReady, UNCHANGED <<case, dev>>
    PROVE  DataInv'
<1> USE DEF TurnsInv, DataInv
<1>1. /\ dpc = "ackSk" /\ IsReadyLine(toHost, Mat, 0) /\ toHost' = AfterReadByte(toHost)
      /\ hpc = "skReady" /\ hpc' = "sk"
  BY HostRows, HostReceived
  DEF HostSkReady, HostReadByte, LockSend, LockSk, At, IsEmpty
<1>2. UNCHANGED <<dpc, cnt, hdr, file, hsk, hpk, rsp>>
  BY DEF HostSkReady, dev
<1>3. DevData'
  BY <1>2, DevDataStays
<1>4. LineData'
  <2>1. Printed(MadeSk(cnt))
    BY <1>1 DEF LineData
  <2>2. Printed(MadeSk(cnt))'
    BY <1>1, <1>2, <2>1, Heard, SameCase DEF Printed
  <2>3. QED
    BY <1>1, <1>2, <2>2 DEF LineData
<1>5. HostData'
  BY <1>1, <1>2, HostDataKeeps
<1>6. QED
  BY <1>3, <1>4, <1>5

LEMMA DataHostSk ==
    ASSUME TurnsInv, DataInv, HostSk, UNCHANGED <<case, dev>>
    PROVE  DataInv'
<1> USE DEF TurnsInv, DataInv
<1>1. /\ dpc = "ackSk" /\ hidx = 1 /\ IsLine(toHost, Mat, 0)
      /\ hpc = "sk" /\ hpc' = "sendG"
  BY HostRows DEF HostSk, HostReadLine, LockSk, At
<1>2. toHost' = <<>> /\ hsk' = MadeSk(cnt)
  BY <1>1, Heard, HostReceived DEF HostSk, HostReadLine, LineData, Printed
<1>3. UNCHANGED <<dpc, hidx, cnt, hdr, file, hpk, rsp>>
  BY DEF HostSk, dev
<1>4. DevData'
  BY <1>3, DevDataStays
<1>5. LineData'
  BY <1>1, <1>2, <1>3 DEF LineData, Printed
<1>6. HostData'
  <2>1. Taken(S - 1)'
    BY <1>1, <1>3, SameCase DEF HostData, Taken
  <2>2. hpk = <<>> /\ PkUpTo(cnt, 0)' = <<>>
    BY <1>1 DEF HostData, PkUpTo
  <2>3. hpk' = PkUpTo(cnt, IF hidx = 1 THEN 0 ELSE hidx)'
    BY <1>1, <1>3, <2>2, SameCase
  <2>4. rsp' = [p \in 1..cnt' |-> MadeKey(p - 1)']
    BY <1>1, <1>3, SameCase DEF HostData
  <2>5. hsk' = MadeSk(cnt)'
    BY <1>2, <1>3, SameCase
  <2>6. QED
    BY <1>1, <2>1, <2>3, <2>4, <2>5 DEF HostData
<1>7. QED
  BY <1>4, <1>5, <1>6

LEMMA DataHostSendG ==
    ASSUME TurnsInv, DataInv, HostSendG, UNCHANGED <<case, dev>>
    PROVE  DataInv'
<1> USE DEF TurnsInv, DataInv
<1>1. hidx = idx /\ IsEmpty(toDev) /\ dpc = "rdG" /\ hpc = "sendG"
  BY HostRows, HostReceived
  DEF HostSendG, HostReadByte, LockSk, LockPk, At, IsEmpty, Level
<1> DEFINE m == FoundTriple(hidx)[3]
<1>2. m = Made("G", cnt, idx) /\ m # Corrupt
  BY <1>1, FoundIs, TripleParts
<1>3. /\ hpc' = "pk" /\ toDev' = toDev \o (<<Burst(<<m>>)>> \o <<>>)
      /\ UNCHANGED <<hidx, cnt, hdr, file, hsk, hpk, rsp>>
  BY <1>2 DEF HostSendG, SendMatrix, SendDev
<1> HIDE DEF m
<1>4. Head(toDev').data = <<m>>
  BY <1>1, <1>3, Puts, DevGets DEF IsEmpty
<1>5. UNCHANGED <<dpc, idx>>
  BY DEF dev
<1>6. DevData'
  BY <1>3, DevDataStays
<1>7. LineData'
  BY <1>1, <1>2, <1>3, <1>4, <1>5, SameCase DEF LineData, Pushed
<1>8. HostData'
  BY <1>1, <1>3, HostDataKeeps
<1>9. QED
  BY <1>6, <1>7, <1>8

\* The chunk of this index is added to the pk list.
LEMMA DataHostPk ==
    ASSUME TurnsInv, DataInv, HostPk, UNCHANGED <<case, dev>>
    PROVE  DataInv'
<1> USE KeygenAssumption DEF TurnsInv, DataInv
<1> DEFINE chunk == (IF idx = 1 THEN <<SeedsOf(cnt)>> ELSE <<>>) \o <<Made("G", cnt, idx)>>
<1>1. /\ hidx = idx /\ dpc = "ackG" /\ IsLine(toHost, Mat, 0) /\ hpc = "pk"
      /\ hidx \in Index
  BY HostRows, HostReceived
  DEF HostPk, HostReadLine, LockPk, At, IsEmpty, Level, ProgTypeOK
<1>2. LineRead(toHost).data = chunk
  <2>1. Printed(chunk)
    BY <1>1 DEF LineData
  <2> HIDE DEF chunk
  <2>2. QED
    BY <1>1, <2>1, Heard DEF Printed
<1>3. toHost' = <<>> /\ hpk' = hpk \o chunk
  BY <1>1, <1>2, HostReceived DEF HostPk, HostReadLine
<1>4. UNCHANGED <<dpc, idx, cnt, hdr, file, hsk, rsp>>
  BY DEF HostPk, dev
<1>5. hpk' = PkUpTo(cnt, idx + 1)
  <2>1. hpk = PkUpTo(cnt, IF idx = 1 THEN 0 ELSE idx)
    BY <1>1 DEF HostData
  <2>2. hpk' = PkUpTo(cnt, IF idx = 1 THEN 0 ELSE idx) \o chunk
    BY <1>3, <2>1
  <2>3. QED
    BY <1>1, <2>2, PkNext
<1> HIDE DEF chunk
<1>6. \/ hidx' = hidx + 1 /\ hpc' = "sendG"
      \/ hidx = S - 1 /\ hidx' = 1 /\ hpc' = "done"
  BY <1>1 DEF HostPk, HostLast, Index
<1>7. DevData'
  BY <1>4, DevDataStays
<1>8. LineData'
  BY <1>1, <1>3, <1>4 DEF LineData, Printed
<1>9. HostData'
  <2>1. Taken(S - 1)'
    BY <1>1, <1>4, SameCase DEF HostData, Taken
  <2>2. rsp' = [p \in 1..cnt' |-> MadeKey(p - 1)'] /\ hsk' = MadeSk(cnt)'
    BY <1>1, <1>4, SameCase DEF HostData
  <2>3. CASE hpc' = "sendG"
    <3>1. hidx' = idx + 1 /\ hidx' # 1
      BY <1>1, <1>6, <2>3 DEF Index
    <3>2. hpk' = PkUpTo(cnt, IF hidx = 1 THEN 0 ELSE hidx)'
      BY <1>4, <1>5, <3>1, SameCase
    <3>3. QED
      BY <2>1, <2>2, <2>3, <3>2 DEF HostData
  <2>4. CASE hpc' = "done"
    <3>1. idx + 1 = S
      BY <1>1, <1>6, <2>4
    <3>2. hpk' = PkUpTo(cnt, S)'
      BY <1>4, <1>5, <3>1, SameCase
    <3>3. QED
      BY <2>2, <2>4, <3>2 DEF HostData
  <2>5. QED
    BY <1>6, <2>3, <2>4
<1>10. QED
  BY <1>7, <1>8, <1>9

LEMMA RspNext ==
    ASSUME NEW n \in Nat
    PROVE  Append([p \in 1..n |-> MadeKey(p - 1)], MadeKey(n)) = [p \in 1..(n + 1) |-> MadeKey(p - 1)]
  OBVIOUS

\* The answer to this test vector is written.
LEMMA Answered ==
    ASSUME TurnsInv, DataInv, HostDone
    PROVE  /\ cnt \in Keys /\ cnt \in Nat /\ cnt < Counts /\ dpc = "cmd"
           /\ Len(rsp) = cnt /\ rsp' = Append(rsp, MadeKey(cnt))
<1> USE KeygenAssumption DEF TurnsInv, DataInv
<1>1. dpc = "cmd" /\ hpc = "done"
  BY HostRows, HostReceived
  DEF HostDone, HostReadLine, LockCmd, LockPk, At, IsEmpty
<1>2. cnt \in Keys /\ cnt \in Nat /\ cnt < Counts
  BY DEF ProgTypeOK, Keys
<1>3. hsk = MadeSk(cnt) /\ hpk = PkUpTo(cnt, S) /\ rsp = [p \in 1..cnt |-> MadeKey(p - 1)]
  BY <1>1 DEF HostData
<1>4. [sk |-> hsk, pk |-> hpk] = MadeKey(cnt)
  BY <1>3 DEF MadeKey
<1>5. rsp' = Append(rsp, MadeKey(cnt))
  BY <1>4 DEF HostDone
<1>6. Len(rsp) = cnt
  BY <1>2, <1>3
<1>7. QED
  BY <1>1, <1>2, <1>5, <1>6

LEMMA DataHostDone ==
    ASSUME TurnsInv, DataInv, HostDone, UNCHANGED <<case, dev>>
    PROVE  DataInv'
<1>1. /\ dpc' = "cmd" /\ hpc = "done" /\ cnt \in Nat /\ rsp' = Append(rsp, MadeKey(cnt))
  BY Answered DEF HostDone, HostReadLine, dev
<1>2. /\ hpk' = <<>>
      /\ \/ cnt' = cnt + 1 /\ hpc' = "start"
         \/ cnt + 1 = Counts /\ hpc' = "finished"
  BY Answered, KeygenAssumption DEF HostDone
<1>3. rsp' = [p \in 1..(cnt + 1) |-> MadeKey(p - 1)]
  BY <1>1, RspNext DEF DataInv, HostData
<1>4. rsp' = [p \in 1..(cnt + 1) |-> MadeKey(p - 1)']
  BY <1>3, SameCase
<1>5. DevData' /\ LineData'
  BY <1>1 DEF DevData, LineData
<1>6. HostData'
  BY <1>2, <1>4 DEF HostData
<1>7. QED
  BY <1>5, <1>6 DEF DataInv

-----------------------------------------------------------------------------
\* The invariant, and what it says of the answers.

LEMMA InitInv == Init => KeygenInv
<1> SUFFICES ASSUME Init PROVE DataInv
  BY TurnsInit DEF KeygenInv
<1>1. DevData /\ LineData
  BY DEF Init, DevData, LineData
<1>2. rsp = [p \in 1..0 |-> MadeKey(p - 1)]
  BY DEF Init
<1>3. HostData
  BY <1>2 DEF Init, HostData
<1>4. QED
  BY <1>1, <1>3 DEF DataInv

LEMMA NextInv ==
    ASSUME "notSyst" \notin Outcomes, KeygenInv, [Next]_vars
    PROVE  KeygenInv'
<1> USE DEF KeygenInv
<1>1. TurnsInv'
  BY TurnsNext
<1>2. CASE Device
  BY <1>1, <1>2, DataStart, DataAckG0, DataAttempt, DataReadG0, DataPi,
     DataReadG0Again, DataAckTriple, DataReadA, DataAckA, DataReadB, DataAckB,
     DataAckSk, DataReadG, DataAckG DEF Device, DevStep
<1>3. CASE Host
  BY <1>1, <1>3, DataHostStart, DataHostG0Ready, DataHostG0, DataHostTripleReady,
     DataHostTriple, DataHostSendA, DataHostSendB, DataHostSkReady, DataHostSk,
     DataHostSendG, DataHostPk, DataHostDone DEF Host, HostStep
<1>4. CASE UNCHANGED vars
  <2>1. UNCHANGED <<case, dev, host, cnt, idx, dpc, toDev, toHost>>
    BY <1>4 DEF vars, dev, line, host
  <2>2. LineData'
    BY <2>1, SameCase DEF DataInv, LineData, Pushed, Printed, G0Of, SeedsOf, Ref
  <2>3. QED
    BY <1>1, <2>1, <2>2, DevDataStays, HostDataStays DEF DataInv
<1>5. QED
  BY <1>2, <1>3, <1>4 DEF Next, HostStop

\* For a build without room for G0 beside G_data, the first S - 1 steps of every
\* chain succeed.
FirstTries ==
    \A c \in Cases : c.build = "big" => \A k \in Keys, i \in Index : c.chain[k][i] = "ok"

Straight == BIG => \A k \in Keys, i \in Index : chain[k][i] = "ok"

LEMMA StraightInv ==
    ASSUME FirstTries
    PROVE  /\ Init => Straight
           /\ Straight /\ [Next]_vars => Straight'
<1>1. Init => Straight
  BY DEF Init, FirstTries, Straight, BIG
<1>2. [Next]_vars => UNCHANGED case
  BY DEF Next, Device, Host, HostStop, vars
<1>3. Straight /\ UNCHANGED case => Straight'
  BY DEF Straight, BIG, case
<1>4. QED
  BY <1>1, <1>2, <1>3

\* Then step i of the chain is the one of index i, and finds G0.
LEMMA MadeIsRef ==
    ASSUME Straight, NEW k \in Keys, NEW i \in Index, NEW of
    PROVE  Made(of, k, i) = Ref(of, k, RefAtt(k)[i])
<1>1. CASE ~BIG
  BY <1>1 DEF Made, Ref, GoodAt
<1>2. CASE BIG
  <2>1. i \in Attempts /\ i \in Nat /\ i >= 1 /\ chain[k][i] = "ok"
    BY <1>2, KeygenAssumption DEF Straight, Index, Attempts
  <2>2. \A b \in 1..i : chain[k][b] = "ok"
    BY <1>2, KeygenAssumption DEF Straight, Index
  <2>3. Oks(k, i) = i
    <3> DEFINE U == {b \in 1..i : chain[k][b] = "ok"}
    <3>1. U = 1..i
      BY <2>2
    <3>2. Oks(k, i) = Cardinality(U)
      BY DEF Oks
    <3> HIDE DEF U
    <3>3. Cardinality(1..i) = i
      BY <2>1, FS_Interval
    <3>4. QED
      BY <3>1, <3>2, <3>3
  <2>4. RefAtt(k)[i] = i
    BY <2>1, <2>3, RefAttIs
  <2>5. i = 1 \/ chain[k][i - 1] = "ok"
    BY <2>1, <2>2
  <2>6. GoodAt(k, i) = TRUE
    BY <2>5 DEF GoodAt
  <2>7. QED
    BY <2>4, <2>6 DEF Made, Ref
<1>3. QED
  BY <1>1, <1>2

LEMMA KeyIsRef ==
    ASSUME Straight, NEW k \in Keys
    PROVE  MadeKey(k) = RefKey(k)
<1> DEFINE mats(of) == [i \in Index |-> Ref(of, k, RefAtt(k)[i])]
           s == <<SeedsOf(k)>>
           X == {Ref(of, k, RefAtt(k)[i]) : of \in {"Ainv", "Binv", "G"}, i \in Index} \cup {SeedsOf(k)}
           A == mats("Ainv")
           B == mats("Binv")
           G == mats("G")
<1>1. S \in Nat /\ S > 1 /\ Index = 1..(S - 1)
  BY KeygenAssumption DEF Index
<1>2. \A i \in Index : Made("Ainv", k, i) = A[i] /\ Made("Binv", k, i) = B[i] /\ Made("G", k, i) = G[i]
  BY MadeIsRef
<1>3. /\ A \in Seq(X) /\ Len(A) = S - 1
      /\ B \in Seq(X) /\ Len(B) = S - 1
      /\ G \in Seq(X) /\ Len(G) = S - 1
  <2>1. A \in [1..(S - 1) -> X] /\ B \in [1..(S - 1) -> X] /\ G \in [1..(S - 1) -> X]
    BY <1>1
  <2> HIDE DEF A, B, G, X
  <2>2. QED
    BY <1>1, <2>1
<1>4. s \in Seq(X) /\ Len(s) = 1 /\ s[1] = SeedsOf(k)
  OBVIOUS
<1>5. RefKey(k) = [sk |-> s \o A \o B, pk |-> s \o G]
  BY DEF RefKey
<1> HIDE DEF A, B, G, mats, s, X
<1>6. A \o B = SkUpTo(k, 2 * (S - 1))
  <2> DEFINE n == 2 * (S - 1)
             f == SkUpTo(k, n)
  <2>1. n \in Nat /\ n = (S - 1) + (S - 1)
    BY <1>1
  <2>2. f = [p \in 1..n |-> f[p]]
    BY DEF SkUpTo
  <2>3. /\ A \o B \in Seq(X) /\ Len(A \o B) = n
        /\ \A p \in 1..n : (A \o B)[p] = IF p <= S - 1 THEN A[p] ELSE B[p - (S - 1)]
    <3>1. /\ A \o B \in Seq(X) /\ Len(A \o B) = Len(A) + Len(B)
          /\ \A p \in 1..(Len(A) + Len(B)) :
                (A \o B)[p] = IF p <= Len(A) THEN A[p] ELSE B[p - Len(A)]
      BY <1>3, ConcatProperties
    <3>2. Len(A) = S - 1 /\ Len(A) + Len(B) = n
      BY <1>3, <2>1
    <3> HIDE DEF n
    <3>3. QED
      BY <3>1, <3>2
  <2>4. \A p \in 1..n : f[p] = IF p < S THEN A[p] ELSE B[p - S + 1]
    <3> TAKE p \in 1..n
    <3>1. f[p] = IF p < S THEN Made("Ainv", k, p) ELSE Made("Binv", k, p - S + 1)
      BY DEF SkUpTo
    <3> HIDE DEF f
    <3>2. CASE p < S
      BY <1>1, <1>2, <3>1, <3>2
    <3>3. CASE ~(p < S)
      <4>1. p - S + 1 \in Index
        BY <1>1, <3>3
      <4>2. QED
        BY <1>2, <3>1, <3>3, <4>1
    <3>4. QED
      BY <3>2, <3>3
  <2> HIDE DEF f
  <2>5. \A p \in 1..n : (A \o B)[p] = f[p]
    <3> TAKE p \in 1..n
    <3>1. (p <= S - 1 <=> p < S) /\ p - (S - 1) = p - S + 1
      BY <1>1
    <3>2. QED
      BY <2>3, <2>4, <3>1
  <2> DEFINE q == A \o B
  <2> HIDE DEF n, q
  <2>6. q = f
    <3>1. q \in Seq(X) /\ Len(q) = n /\ \A p \in 1..n : q[p] = f[p]
      BY <2>3, <2>5 DEF q
    <3>2. QED
      BY <2>1, <2>2, <3>1
  <2>7. QED
    BY <2>6 DEF f, n, q
<1>7. s \o G = PkUpTo(k, S)
  <2> DEFINE f == PkUpTo(k, S)
  <2>1. f = [p \in 1..S |-> f[p]]
    BY DEF PkUpTo
  <2>2. /\ s \o G \in Seq(X) /\ Len(s \o G) = S
        /\ \A p \in 1..S : (s \o G)[p] = IF p <= 1 THEN s[p] ELSE G[p - 1]
    <3>1. /\ s \o G \in Seq(X) /\ Len(s \o G) = Len(s) + Len(G)
          /\ \A p \in 1..(Len(s) + Len(G)) :
                (s \o G)[p] = IF p <= Len(s) THEN s[p] ELSE G[p - Len(s)]
      BY <1>3, <1>4, ConcatProperties
    <3>2. Len(s) = 1 /\ Len(s) + Len(G) = S
      BY <1>1, <1>3, <1>4
    <3>3. QED
      BY <3>1, <3>2
  <2>3. \A p \in 1..S : f[p] = IF p = 1 THEN s[1] ELSE G[p - 1]
    <3> TAKE p \in 1..S
    <3>1. f[p] = IF p = 1 THEN SeedsOf(k) ELSE Made("G", k, p - 1)
      BY DEF PkUpTo
    <3>2. p # 1 => p - 1 \in Index
      BY <1>1
    <3> HIDE DEF f
    <3>3. QED
      BY <1>2, <1>4, <3>1, <3>2
  <2> HIDE DEF f
  <2>4. \A p \in 1..S : (s \o G)[p] = f[p]
    BY <1>1, <2>2, <2>3
  <2> DEFINE q == s \o G
  <2> HIDE DEF q
  <2>5. q = f
    <3>1. q \in Seq(X) /\ Len(q) = S /\ \A p \in 1..S : q[p] = f[p]
      BY <2>2, <2>4 DEF q
    <3>2. QED
      BY <1>1, <2>1, <3>1
  <2>6. QED
    BY <2>5 DEF f, q
<1>8. s \o A \o B = s \o SkUpTo(k, 2 * (S - 1))
  <2>1. s \in Seq(X) /\ A \in Seq(X) /\ B \in Seq(X)
    BY <1>3, <1>4
  <2>2. (s \o A) \o B = s \o (A \o B)
    BY ONLY <2>1, ConcatAssociative
  <2>3. QED
    BY <1>6, <2>2
<1>9. QED
  BY <1>5, <1>7, <1>8 DEF MadeKey, MadeSk, s

LEMMA InvReference ==
    ASSUME Straight, KeygenInv
    PROVE  KatKeyIsReference
<1>1. rsp = [p \in 1..(IF hpc = "finished" THEN Counts ELSE cnt) |-> MadeKey(p - 1)]
  BY DEF KeygenInv, DataInv, HostData
<1>2. /\ cnt \in Nat /\ Counts \in Nat /\ cnt < Counts
  BY KeygenAssumption DEF KeygenInv, TurnsInv, ProgTypeOK, Keys
<1>3. ASSUME NEW p \in 1..Len(rsp) PROVE rsp[p] = RefKey(p - 1)
  <2>1. p \in 1..(IF hpc = "finished" THEN Counts ELSE cnt)
    BY <1>1, <1>2
  <2>2. p - 1 \in Keys
    BY <1>2, <2>1 DEF Keys
  <2>3. QED
    BY <1>1, <2>1, <2>2, KeyIsRef
<1>4. QED
  BY <1>3 DEF KatKeyIsReference

\* Each step writes the next answer or leaves the .rsp file alone.
LEMMA AnswerStep ==
    ASSUME Straight, KeygenInv, [Next]_vars
    PROVE  [KS!Answer]_<<[k \in Keys |-> RefKey(k)], rsp>>
<1>1. UNCHANGED case
  BY DEF Next, Device, Host, HostStop, vars
<1>2. UNCHANGED [k \in Keys |-> RefKey(k)]
  BY <1>1 DEF RefKey, RefAtt, case
<1>3. CASE HostDone
  <2>1. /\ cnt \in Keys /\ cnt \in Nat /\ cnt < Counts
        /\ Len(rsp) = cnt /\ rsp' = Append(rsp, MadeKey(cnt))
    BY <1>3, Answered DEF KeygenInv
  <2>2. MadeKey(cnt) = [k \in Keys |-> RefKey(k)][cnt]
    BY <2>1, KeyIsRef
  <2>3. QED
    BY <1>2, <2>1, <2>2 DEF KS!Answer
<1>4. CASE ~HostDone
  <2>1. UNCHANGED rsp
    BY <1>4
    DEF Next, Device, Host, HostStop, HostStep, HostStart, HostG0Ready, HostG0,
        HostTripleReady, HostTriple, HostSendA, HostSendB, HostSkReady, HostSk,
        HostSendG, HostPk, host, vars
  <2>2. QED
    BY <1>2, <2>1
<1>5. QED
  BY <1>3, <1>4

-----------------------------------------------------------------------------
\* The theorems.

\* As long as no attempt fails after it was announced, the table of labels and
\* queues holds for ever, and so does what it says of the matrices, keys and
\* files, also where an attempt is made with the wrong G0.
THEOREM KeygenLockstep ==
    ASSUME "notSyst" \notin Outcomes
    PROVE  Spec => []KeygenInv
<1>1. KeygenInv /\ [Next]_vars => KeygenInv'
  BY NextInv
<1>2. QED
  BY InitInv, <1>1, PTL DEF Spec

\* Type correctness of both programs and the line.
THEOREM KeygenTypeCorrect ==
    ASSUME "notSyst" \notin Outcomes
    PROVE  Spec => []TypeOK
<1>1. KeygenInv => TypeOK
  BY LineTypes DEF KeygenInv, TurnsInv, TypeOK
<1>2. QED
  BY KeygenLockstep, <1>1, PTL

\* The one-byte receive register of the device never overruns.
THEOREM KeygenNoOverrun ==
    ASSUME "notSyst" \notin Outcomes
    PROVE  Spec => []NoOverrun
  BY KeygenLockstep, InvOverrun, PTL

\* Device and host never wait for one another.
THEOREM KeygenNoMutualWait ==
    ASSUME "notSyst" \notin Outcomes
    PROVE  Spec => []NoMutualWait
  BY KeygenLockstep, InvMutualWait, PTL

\* No read starts in the middle of what the other side wrote.
THEOREM KeygenAligned ==
    ASSUME "notSyst" \notin Outcomes
    PROVE  Spec => []Aligned
  BY KeygenLockstep, InvAligned, PTL

\* The host script never dies of a line it cannot decode.
THEOREM KeygenHostSurvives ==
    ASSUME "notSyst" \notin Outcomes
    PROVE  Spec => []HostNeverCrashes
<1>1. KeygenInv => HostNeverCrashes
  BY HostRows DEF KeygenInv, TurnsInv, HostNeverCrashes
<1>2. QED
  BY KeygenLockstep, <1>1, PTL

\* Every key of the .rsp file is the one the reference makes from the same
\* seed; a build without room for G0 must find its matrices at the first try.
THEOREM KeygenIsReference ==
    ASSUME "notSyst" \notin Outcomes, FirstTries
    PROVE  Spec => []KatKeyIsReference
<1>1. /\ Init => Straight
      /\ Straight /\ [Next]_vars => Straight'
  BY StraightInv
<1>2. Straight /\ KeygenInv => KatKeyIsReference
  BY InvReference
<1>3. QED
  BY <1>1, <1>2, KeygenLockstep, PTL DEF Spec

\* Device, line, host and files together answer the test vectors in turn with
\* the reference's keys, and do nothing else to the .rsp file.
THEOREM KeygenImplementsService ==
    ASSUME "notSyst" \notin Outcomes, FirstTries
    PROVE  Spec => KS!Safety
<1>1. Init => KS!Init
  BY DEF Init, KS!Init, Keys
<1>2. /\ Init => Straight
      /\ Straight /\ [Next]_vars => Straight'
  BY StraightInv
<1>3. Straight /\ KeygenInv /\ [Next]_vars => [KS!Answer]_<<[k \in Keys |-> RefKey(k)], rsp>>
  BY AnswerStep
<1>4. QED
  BY <1>1, <1>2, <1>3, KeygenLockstep, PTL DEF Spec, KS!Safety
=============================================================================
