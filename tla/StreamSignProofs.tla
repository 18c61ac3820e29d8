-------------------------- MODULE StreamSignProofs --------------------------
(***************************************************************************)
(* Streamed signing keeps in step and signs what the reference signs, for  *)
(* every number of rounds, of matrices and of test vectors.                *)
(***************************************************************************)
EXTENDS StreamSign, SequenceTheorems, WellFoundedInduction, TLAPS

-----------------------------------------------------------------------------
\* What comes about when the queues of SerialLink are written to, and what the
\* two sides get when they read them.

LEMMA TwoItems ==
    ASSUME NEW x, NEW y
    PROVE  <<x>> \o <<y>> = <<x, y>>
<1> DEFINE Both == {x, y}
           s == <<x>>
           t == <<y>>
           u == <<x, y>>
<1>1. /\ s \in Seq(Both) /\ Len(s) = 1 /\ s[1] = x
      /\ t \in Seq(Both) /\ Len(t) = 1 /\ t[1] = y
      /\ u \in Seq(Both) /\ Len(u) = 2 /\ u[1] = x /\ u[2] = y
  OBVIOUS
<1> HIDE DEF s, t, u, Both
<1>2. s \o t \in Seq(Both) /\ Len(s \o t) = 2
  BY <1>1, ConcatProperties
<1>3. (s \o t)[1] = x /\ (s \o t)[2] = y
  <2>1. \A p \in 1..(Len(s) + Len(t)) :
            (s \o t)[p] = IF p <= Len(s) THEN s[p] ELSE t[p - Len(s)]
    BY <1>1, ConcatProperties
  <2>2. /\ Len(s) + Len(t) = 2 /\ 1 \in 1..2 /\ 2 \in 1..2
        /\ 1 <= Len(s) /\ ~(2 <= Len(s)) /\ 2 - Len(s) = 1
    BY <1>1
  <2>3. (s \o t)[1] = s[1]
    BY <2>1, <2>2
  <2>4. (s \o t)[2] = t[2 - Len(s)]
    BY <2>1, <2>2
  <2>5. QED
    BY <1>1, <2>2, <2>3, <2>4
<1>4. s \o t = u
  BY <1>1, <1>2, <1>3
<1>5. QED
  BY <1>4 DEF s, t, u

LEMMA Sent ==
    /\ \A x : <<>> \o <<x>> = <<x>>
    /\ \A x, y : <<>> \o <<x, y>> = <<x, y>> /\ <<x>> \o <<y>> = <<x, y>>
<1>1. \A x, y : <<x>> \o <<y>> = <<x, y>>
  BY TwoItems
<1>2. /\ \A x : <<>> \o <<x>> = <<x>>
      /\ \A x, y : <<>> \o <<x, y>> = <<x, y>>
  OBVIOUS
<1>3. QED
  BY <1>1, <1>2

LEMMA LineAlone ==
    ASSUME NEW l, l.kind = "line"
    PROVE  /\ CanReadLine(<<l>>)
           /\ LineRead(<<l>>) = l
           /\ AfterReadLine(<<l>>) = <<>>
<1> DEFINE q == <<l>>
<1>1. LineAt(q, 1) /\ 1 \in 1..Len(q)
  BY DEF LineAt
<1>2. \A p \in 1..Len(q) : LineAt(q, p) => p = 1
  OBVIOUS
<1>3. LineEnd(q) = 1
  BY <1>1, <1>2 DEF LineEnd
<1>4. AfterReadLine(q) = <<>>
  BY <1>3 DEF AfterReadLine
<1>5. QED
  BY <1>1, <1>3, <1>4 DEF CanReadLine, LineRead, LineAt

LEMMA Puts ==
    /\ <<>> \o <<Ready>> = <<Ready>> /\ <<>> \o <<Ack>> = <<Ack>> /\ <<>> \o <<Code>> = <<Code>>
    /\ \A ms : <<>> \o <<Line(ms)>> = <<Line(ms)>>
    /\ \A ms : <<>> \o <<Ready, Line(ms)>> = <<Ready, Line(ms)>>
    /\ \A ms : <<>> \o <<Burst(ms)>> = <<Burst(ms)>>
    /\ \A ms : <<>> \o (<<Burst(ms)>> \o <<>>) = <<Burst(ms)>>
    /\ \A ms : <<>> \o (<<Burst(ms)>> \o <<Ack>>) = <<Burst(ms), Ack>>
<1>1. \A x : <<>> \o (<<x>> \o <<>>) = <<x>>
  OBVIOUS
<1>2. QED
  BY <1>1, Sent

LEMMA DevGets ==
    /\ \A k : ~CanRecv(<<>>, k)
    /\ CanRecv(<<Code>>, "code") /\ Tail(<<Code>>) = <<>>
    /\ CanRecv(<<Ack>>, "ack") /\ ~CanRecv(<<Ack>>, "burst") /\ Tail(<<Ack>>) = <<>>
    /\ \A ms : /\ CanRecv(<<Burst(ms)>>, "burst") /\ ~CanRecv(<<Burst(ms)>>, "ack")
               /\ Head(<<Burst(ms)>>).data = ms /\ Tail(<<Burst(ms)>>) = <<>>
    /\ \A ms : /\ CanRecv(<<Burst(ms), Ack>>, "burst") /\ ~CanRecv(<<Burst(ms), Ack>>, "ack")
               /\ Head(<<Burst(ms), Ack>>).data = ms /\ Tail(<<Burst(ms), Ack>>) = <<Ack>>
  BY DEF CanRecv, Code, Ack, Burst

LEMMA HostGets ==
    /\ ~CanReadByte(<<>>) /\ ~CanReadLine(<<>>)
    /\ CanReadByte(<<Ready>>) /\ ~CanReadLine(<<Ready>>) /\ AfterReadByte(<<Ready>>) = <<>>
    /\ \A ms : /\ CanReadByte(<<Ready, Line(ms)>>)
               /\ AfterReadByte(<<Ready, Line(ms)>>) = <<Line(ms)>>
    /\ \A ms : /\ CanReadLine(<<Line(ms)>>) /\ LineRead(<<Line(ms)>>).data = ms
               /\ AfterReadLine(<<Line(ms)>>) = <<>>
<1>1. ~CanReadByte(<<>>) /\ ~CanReadLine(<<>>)
  BY DEF CanReadByte, CanReadLine
<1>2. CanReadByte(<<Ready>>) /\ ~CanReadLine(<<Ready>>) /\ AfterReadByte(<<Ready>>) = <<>>
  BY DEF CanReadByte, CanReadLine, AfterReadByte, Ready
<1>3. ASSUME NEW ms
      PROVE  /\ CanReadByte(<<Ready, Line(ms)>>)
             /\ AfterReadByte(<<Ready, Line(ms)>>) = <<Line(ms)>>
  BY DEF CanReadByte, AfterReadByte, Ready
<1>4. ASSUME NEW ms
      PROVE  /\ CanReadLine(<<Line(ms)>>) /\ LineRead(<<Line(ms)>>).data = ms
             /\ AfterReadLine(<<Line(ms)>>) = <<>>
  <2>1. Line(ms).kind = "line" /\ Line(ms).data = ms
    BY DEF Line
  <2>2. QED
    BY <2>1, LineAlone
<1>5. QED
  BY <1>1, <1>2, <1>3, <1>4

LEMMA Fronts ==
    /\ Head(<<Ack>>).kind = "ack" /\ Head(<<Code>>).kind = "code" /\ Head(<<Ready>>).kind = "ready"
    /\ \A ms : /\ Head(<<Burst(ms)>>).kind = "burst" /\ Head(<<Burst(ms), Ack>>).kind = "burst"
               /\ Head(<<Line(ms)>>).kind = "line" /\ Head(<<Ready, Line(ms)>>).kind = "ready"
  BY DEF Ack, Code, Ready, Burst, Line


-----------------------------------------------------------------------------
\* Induction over the naturals and definition by recursion, first-order: what is
\* proved by induction is a set of numbers, and the step of a recursion is a
\* function.

\* A set of naturals with 0 in it and with n + 1 for every n has them all.
THEOREM Induction ==
    ASSUME NEW All, All \subseteq Nat, 0 \in All, \A n \in All : n + 1 \in All
    PROVE  All = Nat
<1> DEFINE R == OpToRel(<, Nat)
           M == Nat \ All
<1> SUFFICES ASSUME M # {} PROVE FALSE
  OBVIOUS
<1>1. IsWellFoundedOn(R, Nat)
  BY NatLessThanWellFounded
<1>2. \A x, y \in Nat : x < y => <<x, y>> \in R
  BY DEF OpToRel
<1> HIDE DEF R
<1>3. PICK x \in M : \A y \in M : ~(<<y, x>> \in R)
  <2>1. M \subseteq Nat
    OBVIOUS
  <2> HIDE DEF M
  <2>2. QED
    BY <1>1, <2>1, WFMin
<1>4. x - 1 \in Nat /\ x - 1 < x
  OBVIOUS
<1>5. x - 1 \in All
  BY <1>2, <1>3, <1>4
<1>6. QED
  BY <1>3, <1>5

\* f takes c at 0 and goes on by step.
Iterates(f, c, N, step) == f[0] = c /\ \A m \in 1..N : f[m] = step[m][f[m - 1]]

\* A first value and a step have a function on 0 .. N that goes on by them.
THEOREM Recursion ==
    ASSUME NEW V, NEW c \in V, NEW N \in Nat, NEW step \in [1..N -> [V -> V]]
    PROVE  \E f \in [0..N -> V] : Iterates(f, c, N, step)
<1> USE DEF Iterates
<1> DEFINE Upto(f, n) == f[0] = c /\ \A m \in 1..n : f[m] = step[m][f[m - 1]]
           All == {n \in Nat : n <= N => \E f \in [0..n -> V] : Upto(f, n)}
<1>1. 0 \in All
  <2>1. [m \in 0..0 |-> c] \in [0..0 -> V] /\ Upto([m \in 0..0 |-> c], 0)
    OBVIOUS
  <2> HIDE DEF Upto
  <2>2. QED
    BY <2>1
<1>2. ASSUME NEW n \in All PROVE n + 1 \in All
  <2> SUFFICES ASSUME n + 1 <= N PROVE \E f \in [0..(n + 1) -> V] : Upto(f, n + 1)
    OBVIOUS
  <2>1. n \in Nat /\ n + 1 \in 1..N
    OBVIOUS
  <2>2. PICK f \in [0..n -> V] : Upto(f, n)
    BY <1>2, <2>1
  <2> DEFINE last == step[n + 1][f[n]]
             longer == [m \in 0..(n + 1) |-> IF m = n + 1 THEN last ELSE f[m]]
  <2>3. last \in V
    BY <2>1
  <2>4. longer \in [0..(n + 1) -> V]
    BY <2>1, <2>3
  <2>5. longer[n + 1] = last /\ \A m \in 0..n : longer[m] = f[m]
    BY <2>1
  <2> HIDE DEF longer
  <2>6. longer[0] = c
    BY <2>1, <2>2, <2>5
  <2>7. \A m \in 1..(n + 1) : longer[m] = step[m][longer[m - 1]]
    <3> TAKE m \in 1..(n + 1)
    <3>1. CASE m = n + 1
      BY <2>1, <2>5, <3>1
    <3>2. CASE m # n + 1
      <4>1. m \in 1..n /\ m \in 0..n /\ m - 1 \in 0..n
        BY <2>1, <3>2
      <4>2. QED
        BY <2>2, <2>5, <4>1
    <3>3. QED
      BY <3>1, <3>2
  <2>8. QED
    BY <2>4, <2>6, <2>7
<1>3. All = Nat
  <2>1. All \subseteq Nat
    OBVIOUS
  <2> HIDE DEF All
  <2>2. QED
    BY <1>1, <1>2, <2>1, Induction
<1>4. QED
  BY <1>3

-----------------------------------------------------------------------------
LEMMA CaseType ==
    ASSUME TypeOK
    PROVE  /\ build \in Build
           /\ tries \in [Keys -> [Rounds -> 1..MaxTry]]
           /\ ch \in [Keys -> [Rounds -> 0..(S - 1)]]
<1>1. [build |-> build, tries |-> tries, ch |-> ch] \in Cases
  BY DEF TypeOK
<1>2. QED
  BY <1>1, CasesAssumption DEF Case

LEMMA SameCase ==
    ASSUME UNCHANGED case
    PROVE  /\ \A k, i : PairOf(k, i)' = PairOf(k, i) /\ RespOf(k, i)' = RespOf(k, i)
           /\ \A k, n : Absorbed(k, n)' = Absorbed(k, n)
           /\ \A k, n : Resps(k, n)' = Resps(k, n)
           /\ \A k : MadeEnd(k)' = MadeEnd(k) /\ MadeSm(k)' = MadeSm(k)
<1> USE DEF case
<1>1. \A k, i : PairOf(k, i)' = PairOf(k, i) /\ RespOf(k, i)' = RespOf(k, i)
  BY DEF PairOf, RespOf, AtOf, BtOf
<1>2. \A k, n : Absorbed(k, n)' = Absorbed(k, n)
  BY DEF Absorbed, Made, BIG
<1>3. \A k, n : Resps(k, n)' = Resps(k, n)
  BY <1>1 DEF Resps
<1>4. \A k : MadeEnd(k)' = MadeEnd(k)
  BY <1>2 DEF MadeEnd
<1>5. \A k : MadeSm(k)' = MadeSm(k)
  BY <1>3, <1>4 DEF MadeSm
<1>6. QED
  BY <1>1, <1>2, <1>3, <1>4, <1>5

LEMMA HostStays ==
    ASSUME FileInv, HostInv, UNCHANGED <<case, host>>
    PROVE  FileInv' /\ HostInv'
<1> USE SameCase DEF host
<1>1. FileInv'
  BY DEF FileInv, Taken
<1>2. HostInv'
  BY DEF HostInv, BIG, case
<1>3. QED
  BY <1>1, <1>2

LEMMA DevStays ==
    ASSUME DevInv, UNCHANGED <<case, dev>>
    PROVE  DevInv'
  BY SameCase DEF DevInv, BIG, case, dev

\* One more commitment, one more response.
LEMMA AbsorbedNext ==
    ASSUME NEW k, NEW n \in Nat
    PROVE  Append(Absorbed(k, n), Made(k, n)) = Absorbed(k, n + 1)
  BY DEF Absorbed

LEMMA RespsNext ==
    ASSUME NEW k, NEW n \in Nat
    PROVE  Append(Resps(k, n), RespOf(k, n)) = Resps(k, n + 1)
  BY DEF Resps

-----------------------------------------------------------------------------
\* The device's steps.

\* Where the device is tells which part of Lockstep holds.
LEMMA DevRows ==
    ASSUME Lockstep
    PROVE  /\ dpc = "cmd" => LockCmd
           /\ dpc # "cmd" => dkey = cnt
           /\ dpc \in {"rdSk", "ackSk"} => LockSk
           /\ dpc = "ackG0" => LockG0
           /\ dpc \in {"commit", "rdG0", "ackPair"} => LockCommit
           /\ dpc \in {"rdPair", "ackResp"} => LockRespond
           /\ dpc = "ackTail" => LockTail
  BY DEF Lockstep, LockCmd, LockSk, LockG0, LockCommit, LockRespond, LockTail

LEMMA StepStart ==
    ASSUME SignInv, DevStart, UNCHANGED <<case, host>>
    PROVE  SignInv'
<1> USE SignAssumption DEF SignInv, DevStart, DevRecv, SendHost
<1>1. /\ dkey = cnt - 1 /\ hidx = 0 /\ hpc = "skReady" /\ toDev = <<Code>> /\ toHost = <<>>
  BY DevRows, DevGets DEF LockCmd, At
<1>2. cnt \in Keys /\ dkey' = cnt /\ toDev' = <<>> /\ toHost' = <<Ready>>
  BY <1>1, DevGets, Puts DEF TypeOK, Keys
<1>3. TypeOK'
  BY <1>2 DEF TypeOK, DevRecvs, case, host
<1>4. Lockstep'
  BY <1>1, <1>2 DEF Lockstep, LockSk, At, host
<1>5. DevInv'
  BY DEF DevInv
<1>6. QED
  BY <1>3, <1>4, <1>5, HostStays

LEMMA StepReadSk ==
    ASSUME SignInv, DevReadSk, UNCHANGED <<case, host>>
    PROVE  SignInv'
<1> USE SignAssumption DEF SignInv, DevReadSk, DevRecv
<1>1. /\ dkey = cnt /\ hidx = 0 /\ hpc = IF BIG THEN "g0Ready" ELSE "pairReady"
      /\ toDev = <<Burst(<<SkOf(cnt)>>), Ack>> /\ toHost = <<>>
  BY DevRows, DevGets DEF LockSk, At
<1>2. dsk' = SkOf(cnt) /\ toDev' = <<Ack>>
  BY <1>1, DevGets
<1>3. TypeOK'
  BY DEF TypeOK, DevRecvs, case, host
<1>4. Lockstep'
  BY <1>1, <1>2, SameCase DEF Lockstep, LockSk, At, BIG, case, host
<1>5. DevInv'
  BY DEF DevInv
<1>6. QED
  BY <1>3, <1>4, <1>5, HostStays

LEMMA StepAckSk ==
    ASSUME SignInv, DevAckSk, UNCHANGED <<case, host>>
    PROVE  SignInv'
<1> USE SignAssumption DEF SignInv, DevAckSk, DevRecv, SendHost
<1>1. /\ dkey = cnt /\ hidx = 0 /\ hpc = IF BIG THEN "g0Ready" ELSE "pairReady"
      /\ toDev = <<Ack>> /\ toHost = <<>> /\ dsk = SkOf(cnt)
  BY DevRows, DevGets DEF LockSk, At
<1>2. g' = G0Of(cnt) /\ toDev' = <<>>
  BY <1>1, DevGets DEF SkOf, Ref
<1>3. \/ BIG /\ dpc' = "ackG0" /\ toHost' = <<Ready, Line(<<G0Of(cnt)>>)>>
      \/ ~BIG /\ dpc' = "commit" /\ toHost' = <<>>
  BY <1>1, <1>2, Puts
<1>4. TypeOK'
  <2>1. leaf' \in [Rounds -> 0..MaxTry] /\ idx' \in Rounds
    BY DEF FreshLeaves, Rounds
  <2>2. QED
    BY <1>3, <2>1 DEF TypeOK, DevRecvs, case, host
<1>5. Lockstep'
  BY <1>1, <1>2, <1>3 DEF Lockstep, LockG0, LockCommit, At, BIG, case, host
<1>6. DevInv'
  <2>1. \A i \in Rounds : leaf'[i] = 0
    BY DEF FreshLeaves
  <2>2. idx' \in Rounds /\ dkey' \in Keys /\ tries'[dkey'][idx'] \in 1..MaxTry
    BY <1>1, CaseType DEF TypeOK, case, Rounds
  <2>3. hash' = Absorbed(dkey, idx)'
    BY DEF Absorbed
  <2>4. QED
    BY <1>2, <1>3, <2>1, <2>2, <2>3 DEF DevInv, BIG, case
<1>7. QED
  BY <1>4, <1>5, <1>6, HostStays

LEMMA StepAckG0 ==
    ASSUME SignInv, DevAckG0, UNCHANGED <<case, host>>
    PROVE  SignInv'
<1> USE SignAssumption DEF SignInv, DevAckG0, DevRecv
<1>1. /\ dkey = cnt /\ hidx = 0 /\ hpc = "pairReady" /\ idx = 0 /\ BIG
      /\ toDev = <<Ack>> /\ toHost = <<>> /\ g = G0Of(cnt)
  BY DevRows, DevGets DEF LockG0, At
<1>2. toDev' = <<>>
  BY <1>1, DevGets
<1>3. TypeOK'
  BY DEF TypeOK, DevRecvs, case, host
<1>4. Lockstep'
  BY <1>1, <1>2 DEF Lockstep, LockCommit, At, BIG, case, host
<1>5. DevInv'
  <2>1. idx \in Rounds /\ dkey \in Keys /\ tries[dkey][idx] \in 1..MaxTry
    BY <1>1, CaseType DEF TypeOK
  <2>2. QED
    BY <1>1, <2>1, SameCase DEF DevInv, BIG, case
<1>6. QED
  BY <1>3, <1>4, <1>5, HostStays

\* A turn of the commitment loop: without a systematic form the seed is only
\* advanced, with one the commitment is absorbed and the pair is sent.
LEMMA StepCommit ==
    ASSUME SignInv, DevCommit, UNCHANGED <<case, host>>
    PROVE  SignInv'
<1> USE SignAssumption DEF SignInv
<1> DEFINE a == leaf[idx] + 1
<1>1. /\ dpc = "commit" /\ dkey = cnt /\ hidx = idx /\ hpc = "pairReady"
      /\ toDev = <<>> /\ toHost = <<>>
  BY DevRows DEF DevCommit, LockCommit, At
<1>2. idx \in Rounds /\ dkey \in Keys /\ leaf \in [Rounds -> 0..MaxTry]
  BY <1>1 DEF TypeOK
<1>3. tries[dkey][idx] \in 1..MaxTry
  BY <1>2, CaseType DEF TypeOK
<1>4. leaf[idx] \in 0..MaxTry /\ leaf[idx] < tries[dkey][idx]
  BY <1>1, <1>2 DEF DevInv
<1>5. a \in 1..MaxTry /\ a <= tries[dkey][idx]
  BY <1>3, <1>4
<1>6. leaf' = [leaf EXCEPT ![idx] = a] /\ leaf'[idx] = a
  BY <1>2 DEF DevCommit
<1>7. leaf' \in [Rounds -> 0..MaxTry] /\ \A i \in Rounds : i > idx => leaf'[i] = 0
  BY <1>1, <1>2, <1>5, <1>6 DEF DevInv, Rounds
<1>8. /\ atl' = Ref("At", dkey, idx, a, 0) /\ btl' = Ref("Bt", dkey, idx, a, 0)
      /\ g' # G0Of(dkey) /\ UNCHANGED <<dkey, dsk, idx, toDev>>
  BY <1>6 DEF DevCommit, Ref, G0Of
<1>9. CASE a < tries[dkey][idx]
  <2>1. UNCHANGED <<dpc, hash, toHost>>
    BY <1>6, <1>9 DEF DevCommit
  <2>2. TypeOK'
    BY <1>7, <1>8, <2>1 DEF TypeOK, case, host
  <2>3. Lockstep'
    BY <1>1, <1>8, <2>1 DEF Lockstep, LockCommit, At, host
  <2>4. DevInv'
    <3>1. hash' = Absorbed(dkey, idx)'
      BY <1>1, <1>8, <2>1, SameCase DEF DevInv
    <3>2. leaf'[idx'] < tries'[dkey'][idx'] /\ leaf'[idx'] # 0
      BY <1>5, <1>6, <1>8, <1>9 DEF case
    <3>3. g' # G0Of(dkey')
      BY <1>8
    <3>4. QED
      BY <1>1, <1>7, <1>8, <2>1, <3>1, <3>2, <3>3 DEF DevInv
  <2>5. QED
    BY <2>2, <2>3, <2>4, HostStays
<1>10. CASE a = tries[dkey][idx]
  <2> DEFINE c == Commit(dkey, idx, leaf'[idx], BIG => g = G0Of(dkey))
  <2>1. /\ hash' = Append(hash, c)
        /\ dpc' = IF BIG THEN "rdG0" ELSE "ackPair"
        /\ toHost' = toHost \o <<Ready, Line(<<atl', btl'>>)>>
    <3>1. ~(leaf'[idx] < tries[dkey][idx])
      BY <1>3, <1>6, <1>10
    <3>2. QED
      BY <3>1, Zenon DEF DevCommit, SendHost
  <2>2. <<atl', btl'>> = PairOf(cnt, idx)
    BY <1>1, <1>8, <1>10 DEF PairOf, AtOf, BtOf
  <2>3. toHost' = <<Ready, Line(PairOf(cnt, idx))>>
    BY <1>1, <2>1, <2>2, Puts
  <2>4. TypeOK'
    BY <1>7, <1>8, <2>1 DEF TypeOK, DevRecvs, case, host
  <2>5. Lockstep'
    BY <1>1, <1>8, <2>1, <2>3, SameCase DEF Lockstep, LockCommit, At, BIG, case, host
  <2>6. DevInv'
    <3>1. c = Made(dkey, idx)
      <4>1. (BIG => g = G0Of(dkey)) <=> (BIG => tries[dkey][idx] = 1)
        BY <1>1, <1>4, <1>10 DEF DevInv
      <4>2. QED
        BY <1>6, <1>10, <4>1 DEF Made, Commit
    <3>2. hash' = Absorbed(dkey, idx + 1)
      <4>1. hash = Absorbed(dkey, idx) /\ idx \in Nat
        BY <1>1, <1>2 DEF DevInv, Rounds
      <4> HIDE DEF c
      <4>2. QED
        BY <2>1, <3>1, <4>1, AbsorbedNext
    <3>3. hash' = Absorbed(dkey, idx + 1)'
      BY <1>8, <3>2, SameCase
    <3>4. QED
      BY <1>7, <1>8, <2>1, <3>3 DEF DevInv
  <2>7. QED
    BY <2>4, <2>5, <2>6, HostStays
<1>11. QED
  BY <1>3, <1>5, <1>9, <1>10

LEMMA StepReadG0 ==
    ASSUME SignInv, DevReadG0, UNCHANGED <<case, host>>
    PROVE  SignInv'
<1> USE SignAssumption DEF SignInv, DevReadG0, DevRecv
<1>1. /\ dkey = cnt /\ BIG /\ toDev = <<Burst(<<G0Of(cnt)>>), Ack>> /\ toHost = <<>>
      /\ HostOn("pairReady", "respReady")
  BY DevRows, DevGets DEF LockCommit, At
<1>2. g' = G0Of(cnt) /\ toDev' = <<Ack>>
  BY <1>1, DevGets
<1>3. TypeOK'
  BY DEF TypeOK, DevRecvs, case, host
<1>4. Lockstep'
  BY <1>1, <1>2 DEF Lockstep, LockCommit, HostOn, host
<1>5. DevInv'
  BY SameCase DEF DevInv
<1>6. QED
  BY <1>3, <1>4, <1>5, HostStays

\* The round is acknowledged: the next one, or the first pair is asked for.
LEMMA StepAckPair ==
    ASSUME SignInv, DevAckPair, UNCHANGED <<case, host>>
    PROVE  SignInv'
<1> USE SignAssumption DEF SignInv, DevAckPair, DevRecv, SendHost, DevLast
<1>1. /\ dpc = "ackPair" /\ dkey = cnt /\ toDev = <<Ack>> /\ toHost = <<>>
      /\ (BIG => g = G0Of(cnt)) /\ HostOn("pairReady", "respReady")
  BY DevRows, DevGets DEF LockCommit, At
<1>2. toDev' = <<>>
  BY <1>1, DevGets
<1>3. /\ idx \in Rounds /\ dkey \in Keys /\ idx \in Nat
      /\ hash = Absorbed(dkey, idx + 1) /\ \A i \in Rounds : i > idx => leaf[i] = 0
  BY <1>1 DEF TypeOK, DevInv, Rounds
<1>4. CASE idx < T - 1
  <2>1. idx' = idx + 1 /\ dpc' = "commit" /\ toHost' = <<>>
    BY <1>1, <1>4
  <2>2. idx' \in Rounds
    BY <1>3, <1>4, <2>1 DEF Rounds
  <2>3. TypeOK'
    BY <2>1, <2>2 DEF TypeOK, case, host
  <2>4. Lockstep'
    BY <1>1, <1>2, <1>4, <2>1 DEF Lockstep, LockCommit, HostOn, At, host
  <2>5. tries[dkey][idx'] \in 1..MaxTry
    BY <1>3, <2>2, CaseType DEF TypeOK
  <2>6. leaf[idx'] = 0 /\ \A i \in Rounds : i > idx' => leaf[i] = 0
    BY <1>3, <2>1, <2>2 DEF Rounds
  <2>7. hash' = Absorbed(dkey, idx)'
    BY <1>3, <2>1, SameCase
  <2>8. DevInv'
    BY <1>1, <2>1, <2>5, <2>6, <2>7 DEF DevInv, BIG, case
  <2>9. QED
    BY <2>3, <2>4, <2>8, HostStays
<1>5. CASE ~(idx < T - 1)
  <2>1. idx' = 0 /\ dpc' = "rdPair" /\ toHost' = <<Ready>> /\ idx + 1 = T
    BY <1>1, <1>3, <1>5, Puts DEF Rounds
  <2>2. TypeOK'
    BY <2>1 DEF TypeOK, DevRecvs, Rounds, case, host
  <2>3. Lockstep'
    BY <1>1, <1>2, <1>5, <2>1 DEF Lockstep, LockRespond, HostOn, At, host
  <2>4. DevInv'
    <3>1. hash' = Absorbed(dkey, T)'
      BY <1>3, <2>1, SameCase
    <3>2. QED
      BY <2>1, <3>1 DEF DevInv
  <2>5. QED
    BY <2>2, <2>3, <2>4, HostStays
<1>6. QED
  BY <1>4, <1>5

\* The pair that comes back is the one of this round, so is its response.
LEMMA StepReadPair ==
    ASSUME SignInv, DevReadPair, UNCHANGED <<case, host>>
    PROVE  SignInv'
<1> USE SignAssumption DEF SignInv, DevReadPair, DevRecv, SendHost
<1>1. /\ dpc = "rdPair" /\ dkey = cnt /\ hidx = idx /\ hpc = "resp"
      /\ toDev = <<Burst(PairOf(cnt, idx))>> /\ toHost = <<>>
  BY DevRows, DevGets DEF LockRespond, At
<1>2. atl' = AtOf(cnt, idx) /\ btl' = BtOf(cnt, idx) /\ toDev' = <<>>
  BY <1>1, DevGets DEF PairOf
<1>3. Response(atl', btl', ch[dkey][idx]) = RespOf(cnt, idx)
  BY <1>1, <1>2 DEF RespOf
<1>4. toHost' = <<Line(RespOf(cnt, idx))>>
  BY <1>1, <1>3, Puts
<1>5. TypeOK'
  BY DEF TypeOK, DevRecvs, case, host
<1>6. Lockstep'
  BY <1>1, <1>2, <1>4, SameCase DEF Lockstep, LockRespond, At, case, host
<1>7. DevInv'
  BY SameCase DEF DevInv
<1>8. QED
  BY <1>5, <1>6, <1>7, HostStays

LEMMA StepAckResp ==
    ASSUME SignInv, DevAckResp, UNCHANGED <<case, host>>
    PROVE  SignInv'
<1> USE SignAssumption DEF SignInv, DevAckResp, DevRecv, SendHost, DevLast
<1>1. /\ dpc = "ackResp" /\ dkey = cnt /\ toDev = <<Ack>> /\ toHost = <<>>
      /\ HostOn("respReady", "tailReady")
  BY DevRows, DevGets DEF LockRespond, At
<1>2. toDev' = <<>>
  BY <1>1, DevGets
<1>3. idx \in Rounds /\ idx \in Nat /\ hash = Absorbed(dkey, T) /\ hash' = Absorbed(dkey, T)'
  BY <1>1, SameCase DEF TypeOK, DevInv, Rounds
<1>4. CASE idx < T - 1
  <2>1. idx' = idx + 1 /\ dpc' = "rdPair" /\ leaf' = leaf /\ toHost' = <<Ready>>
    BY <1>1, <1>4, Puts
  <2>2. TypeOK'
    BY <1>3, <1>4, <2>1 DEF TypeOK, DevRecvs, Rounds, case, host
  <2>3. Lockstep'
    BY <1>1, <1>2, <1>4, <2>1 DEF Lockstep, LockRespond, HostOn, At, host
  <2>4. DevInv'
    BY <1>3, <2>1 DEF DevInv
  <2>5. QED
    BY <2>2, <2>3, <2>4, HostStays
<1>5. CASE ~(idx < T - 1)
  <2>1. /\ idx' = idx /\ dpc' = "ackTail" /\ leaf' = FreshLeaves
        /\ toHost' = toHost \o <<Ready, Line(<<TailOf(dkey, leaf', ch[dkey], hash)>>)>>
    BY <1>5
  <2>2. <<TailOf(dkey, leaf', ch[dkey], hash)>> = MadeEnd(cnt)
    BY <1>1, <1>3, <2>1 DEF MadeEnd
  <2>3. toHost' = <<Ready, Line(MadeEnd(cnt))>>
    BY <1>1, <2>1, <2>2, Puts
  <2>4. TypeOK'
    <3>1. leaf' \in [Rounds -> 0..MaxTry]
      BY <2>1 DEF FreshLeaves
    <3>2. QED
      BY <2>1, <3>1 DEF TypeOK, DevRecvs, case, host
  <2>5. Lockstep'
    <3>1. hpc = "tailReady"
      BY <1>1, <1>5 DEF HostOn
    <3>2. QED
      BY <1>1, <1>2, <2>1, <2>3, <3>1, SameCase DEF Lockstep, LockTail, At, host
  <2>6. DevInv'
    BY <2>1 DEF DevInv
  <2>7. QED
    BY <2>4, <2>5, <2>6, HostStays
<1>6. QED
  BY <1>4, <1>5

LEMMA StepAckTail ==
    ASSUME SignInv, DevAckTail, UNCHANGED <<case, host>>
    PROVE  SignInv'
<1> USE SignAssumption DEF SignInv, DevAckTail, DevRecv, SendHost
<1>1. dkey = cnt /\ hpc = "done" /\ toDev = <<Ack>> /\ toHost = <<>>
  BY DevRows, DevGets DEF LockTail, At
<1>2. toDev' = <<>> /\ toHost' = <<Line(<<>>)>>
  BY <1>1, DevGets, Puts
<1>3. TypeOK'
  BY DEF TypeOK, DevRecvs, case, host
<1>4. Lockstep'
  BY <1>1, <1>2 DEF Lockstep, LockCmd, At, host
<1>5. DevInv'
  BY DEF DevInv
<1>6. QED
  BY <1>3, <1>4, <1>5, HostStays

-----------------------------------------------------------------------------
\* The host's reads and what they find.

LEMMA HostRows ==
    ASSUME Lockstep
    PROVE  /\ hpc = "start" =>
                  dpc = "cmd" /\ dkey = cnt - 1 /\ toDev = <<>> /\ toHost = <<>>
           /\ hpc # "start" /\ toHost # <<>> => dkey = cnt /\ toDev = <<>>
           /\ hpc = "skReady" /\ toHost # <<>> =>
                  dpc = "rdSk" /\ hidx = 0 /\ toHost = <<Ready>>
           /\ hpc \in {"g0Ready", "g0"} /\ toHost # <<>> =>
                  BIG /\ dpc = "ackG0" /\ idx = 0 /\ hidx = 0 /\ g = G0Of(cnt)
           /\ hpc = "g0Ready" /\ toHost # <<>> => toHost = <<Ready, Line(<<G0Of(cnt)>>)>>
           /\ hpc = "g0" => toHost = <<Line(<<G0Of(cnt)>>)>>
           /\ hpc \in {"pairReady", "pair"} /\ toHost # <<>> =>
                  hidx = idx /\ dpc = IF BIG THEN "rdG0" ELSE "ackPair"
           /\ hpc = "pairReady" /\ toHost # <<>> => toHost = <<Ready, Line(PairOf(cnt, idx))>>
           /\ hpc = "pair" => toHost = <<Line(PairOf(cnt, idx))>>
           /\ hpc = "respReady" /\ toHost # <<>> =>
                  dpc = "rdPair" /\ hidx = idx /\ toHost = <<Ready>>
           /\ hpc = "resp" /\ toHost # <<>> =>
                  dpc = "ackResp" /\ hidx = idx /\ toHost = <<Line(RespOf(cnt, idx))>>
           /\ hpc = "tailReady" /\ toHost # <<>> =>
                  dpc = "ackTail" /\ toHost = <<Ready, Line(MadeEnd(cnt))>>
           /\ hpc = "tail" => dpc = "ackTail" /\ toHost = <<Line(MadeEnd(cnt))>>
           /\ hpc = "done" /\ toHost # <<>> => dpc = "cmd" /\ toHost = <<Line(<<>>)>>
<1>1. CASE LockCmd
  BY <1>1 DEF LockCmd, At
<1>2. CASE dkey = cnt /\ LockSk
  BY <1>2 DEF LockSk, At
<1>3. CASE dkey = cnt /\ LockG0
  BY <1>3 DEF LockG0, At
<1>4. CASE dkey = cnt /\ LockCommit
  BY <1>4 DEF LockCommit, HostOn, At
<1>5. CASE dkey = cnt /\ LockRespond
  BY <1>5 DEF LockRespond, HostOn, At
<1>6. CASE dkey = cnt /\ LockTail
  BY <1>6 DEF LockTail, At
<1>7. QED
  BY <1>1, <1>2, <1>3, <1>4, <1>5, <1>6 DEF Lockstep

\* The count line of n is the first one that starts with n.
LEMMA CountLine ==
    ASSUME NEW n \in Nat, NEW c \in Nat, n <= c
    PROVE  StartsWith(n, c) <=> n = c
  BY DEF StartsWith

LEMMA SkFound ==
    ASSUME cnt \in Nat
    PROVE  FoundSk = SkOf(cnt)
<1> DEFINE Fits(n) == StartsWith(n, cnt) /\ \A r \in 0..(n - 1) : ~StartsWith(r, cnt)
<1>1. \A n \in 0..cnt : StartsWith(n, cnt) <=> n = cnt
  BY CountLine
<1>2. \A n \in 0..cnt : Fits(n) <=> n = cnt
  BY <1>1
<1>3. (CHOOSE n \in 0..cnt : Fits(n)) = cnt
  <2> HIDE DEF Fits
  <2> QED BY <1>2
<1>4. QED
  BY <1>3 DEF FoundSk

LEMMA PairFound ==
    ASSUME cnt \in Nat, T \in Nat, NEW j \in Rounds,
           \A p \in 1..Len(hdr) : hdr[p].n = p - 1, Len(hdr) = cnt + 1, Taken(T)
    PROVE  FoundPair(j) = PairOf(cnt, j)
<1> DEFINE Fits(p) == /\ StartsWith(hdr[p].n, cnt)
                      /\ \A r \in 1..(p - 1) : ~StartsWith(hdr[r].n, cnt)
<1>1. \A p \in 1..Len(hdr) : StartsWith(hdr[p].n, cnt) <=> p = cnt + 1
  <2> TAKE p \in 1..Len(hdr)
  <2>1. p - 1 \in Nat /\ p - 1 <= cnt /\ hdr[p].n = p - 1
    OBVIOUS
  <2>2. QED
    BY <2>1, CountLine
<1>2. cnt + 1 \in 1..Len(hdr) /\ \A p \in 1..Len(hdr) : Fits(p) <=> p = cnt + 1
  BY <1>1
<1>3. (CHOOSE p \in 1..Len(hdr) : Fits(p)) = cnt + 1
  <2> HIDE DEF Fits
  <2> QED BY <1>2
<1>4. FoundPair(j) = file[hdr[cnt + 1].at + j + 1]
  BY <1>3 DEF FoundPair
<1>5. QED
  BY <1>4 DEF Taken, Rounds

\* The matrices that go over the line are matrices.
LEMMA GoodMatrices ==
    ASSUME TypeOK, NEW k \in Keys
    PROVE  /\ SkOf(k) \in Mat /\ G0Of(k) \in Mat
           /\ \A i \in Rounds : AtOf(k, i) \in Mat /\ BtOf(k, i) \in Mat
<1>1. 0 \in Rounds /\ 0 \in 0..MaxTry
  BY SignAssumption DEF Rounds
<1>2. SkOf(k) \in Mat /\ G0Of(k) \in Mat
  BY <1>1 DEF SkOf, G0Of, Ref, Mat
<1>3. ASSUME NEW i \in Rounds PROVE AtOf(k, i) \in Mat /\ BtOf(k, i) \in Mat
  <2>1. tries \in [Keys -> [Rounds -> 1..MaxTry]] /\ MaxTry \in Nat
    BY SignAssumption, CaseType
  <2>2. tries[k][i] \in 1..MaxTry
    BY <2>1
  <2>3. tries[k][i] \in 0..MaxTry
    BY <2>1, <2>2
  <2>4. QED
    BY <2>3 DEF AtOf, BtOf, Ref, Mat
<1>4. QED
  BY <1>2, <1>3

LEMMA HeaderAt ==
    ASSUME TypeOK, NEW p \in 1..Len(hdr)
    PROVE  hdr[p].at \in Nat
<1> DEFINE R == [n : Keys, at : Nat]
<1>1. hdr \in Seq(R)
  BY DEF TypeOK
<1>2. \A r \in R : r.at \in Nat
  OBVIOUS
<1> HIDE DEF R
<1>3. hdr[p] \in R
  BY <1>1
<1>4. QED
  BY <1>2, <1>3

LEMMA Sends ==
    ASSUME NEW ms \in Seq(Mat), NEW rest, NEW next, SendMatrices(ms, rest, next)
    PROVE  hpc' = next /\ SendDev(<<Burst(ms)>> \o rest)
<1>1. \A p \in 1..Len(ms) : ms[p] # Corrupt
  BY CorruptAssumption
<1>2. QED
  BY <1>1, Zenon DEF SendMatrices

\* The count lines, and what stands below them, when the file stays.
LEMMA FileStays ==
    ASSUME TypeOK, FileInv, UNCHANGED <<case, cnt, hdr, file>>, hpc # "start", hpc' # "start",
           \/ Taken(hidx) /\ hpc' \in {"skReady", "g0Ready", "g0", "pairReady", "pair"}
              /\ hidx' = hidx
           \/ Taken(T) /\ hpc' \in {"respReady", "resp"}
           \/ hpc' \in {"tailReady", "tail", "done", "finished", "crashed"}
    PROVE  FileInv'
<1>1. (Taken(hidx) /\ hidx' = hidx => Taken(hidx)') /\ (Taken(T) => Taken(T)')
  BY SameCase DEF Taken
<1>2. QED
  BY <1>1 DEF FileInv

LEMMA StepHostStart ==
    ASSUME SignInv, HostStart, UNCHANGED <<case, dev>>
    PROVE  SignInv'
<1> USE SignAssumption DEF SignInv, HostStart, SendDev
<1>1. /\ dpc = "cmd" /\ dkey = cnt - 1 /\ toDev = <<>> /\ toHost = <<>>
      /\ cnt \in Keys /\ cnt \in Nat /\ Len(hdr) = cnt
  BY HostRows DEF TypeOK, FileInv, Keys
<1>2. Lockstep'
  BY <1>1, Puts DEF Lockstep, LockCmd, At, dev
<1> DEFINE R == [n : Keys, at : Nat]
           h == [n |-> cnt, at |-> Len(file)]
<1>3. h \in R /\ hdr \in Seq(R) /\ h.n = cnt /\ h.at = Len(file) /\ Len(file) \in Nat
  BY <1>1 DEF TypeOK, FileInv
<1>4. hdr' = Append(hdr, h)
  OBVIOUS
<1> HIDE DEF R, h
<1>5. /\ hdr' \in Seq(R) /\ Len(hdr') = cnt + 1 /\ hdr'[cnt + 1] = h
      /\ \A p \in 1..Len(hdr) : hdr'[p] = hdr[p]
  BY <1>1, <1>3, <1>4
<1>6. TypeOK'
  BY <1>5 DEF TypeOK, R, Rounds, ByteReads, case, dev
<1>7. FileInv'
  <2>1. \A p \in 1..Len(hdr') : hdr'[p].n = p - 1
    <3> TAKE p \in 1..Len(hdr')
    <3>1. CASE p = cnt + 1
      BY <1>1, <1>3, <1>5, <3>1
    <3>2. CASE p # cnt + 1
      <4>1. p \in 1..Len(hdr)
        BY <1>1, <1>5, <3>2
      <4>2. QED
        BY <1>5, <4>1 DEF FileInv
    <3>3. QED
      BY <3>1, <3>2
  <2>2. Taken(0)'
    BY <1>3, <1>5 DEF Taken
  <2>3. QED
    BY <1>5, <2>1, <2>2 DEF FileInv
<1>8. HostInv'
  BY SameCase DEF HostInv
<1>9. QED
  BY <1>2, <1>6, <1>7, <1>8, DevStays

LEMMA StepHostSkReady ==
    ASSUME SignInv, HostSkReady, UNCHANGED <<case, dev>>
    PROVE  SignInv'
<1> USE SignAssumption DEF SignInv, HostReadByte, SendDev
<1>1. hpc = "skReady" /\ CanReadByte(toHost)
  BY DEF HostSkReady
<1>2. /\ dkey = cnt /\ dpc = "rdSk" /\ hidx = 0 /\ toDev = <<>> /\ toHost = <<Ready>>
      /\ cnt \in Keys /\ cnt \in Nat
  BY <1>1, HostRows, HostGets DEF TypeOK, Keys
<1>3. <<FoundSk>> \in Seq(Mat) /\ FoundSk = SkOf(cnt)
  <2>1. SkOf(cnt) \in Mat
    BY <1>2, GoodMatrices
  <2>2. FoundSk = SkOf(cnt)
    BY <1>2, SkFound
  <2> HIDE DEF SignInv
  <2>3. QED
    BY <2>1, <2>2
<1>4. /\ hpc' = IF BIG THEN "g0Ready" ELSE "pairReady"
      /\ SendDev(<<Burst(<<FoundSk>>)>> \o <<Ack>>)
  BY <1>3, Sends DEF HostSkReady
<1>5. toDev' = <<Burst(<<SkOf(cnt)>>), Ack>> /\ toHost' = <<>>
  BY <1>1, <1>2, <1>3, <1>4, Puts, HostGets DEF HostSkReady
<1>6. UNCHANGED <<hidx, cnt, hG0, hdr, file, hsm, rsp>>
  BY DEF HostSkReady
<1>7. TypeOK'
  BY <1>4, <1>6 DEF TypeOK, ByteReads, case, dev
<1>8. Lockstep'
  BY <1>2, <1>4, <1>5, <1>6 DEF Lockstep, LockSk, At, BIG, case, dev
<1>9. FileInv'
  BY <1>1, <1>4, <1>6, FileStays DEF FileInv
<1>10. HostInv'
  <2>1. BIG /\ hpc' \in {"pairReady", "pair"} => FALSE
    BY <1>4
  <2>2. QED
    BY <1>1, <1>4, <1>6, <2>1, SameCase DEF HostInv, BIG, case
<1>11. QED
  BY <1>7, <1>8, <1>9, <1>10, DevStays

LEMMA StepHostG0Ready ==
    ASSUME SignInv, HostG0Ready, UNCHANGED <<case, dev>>
    PROVE  SignInv'
<1> USE SignAssumption DEF SignInv, HostG0Ready, HostReadByte
<1>1. /\ dkey = cnt /\ BIG /\ dpc = "ackG0" /\ idx = 0 /\ hidx = 0 /\ g = G0Of(cnt)
      /\ toDev = <<>> /\ toHost = <<Ready, Line(<<G0Of(cnt)>>)>>
  BY HostRows, HostGets
<1>2. toHost' = <<Line(<<G0Of(cnt)>>)>>
  BY <1>1, HostGets
<1>3. TypeOK'
  BY DEF TypeOK, LineReads, case, dev
<1>4. Lockstep'
  BY <1>1, <1>2 DEF Lockstep, LockG0, At, BIG, case, dev
<1>5. FileInv'
  BY FileStays DEF FileInv
<1>6. HostInv'
  BY SameCase DEF HostInv, BIG, case
<1>7. QED
  BY <1>3, <1>4, <1>5, <1>6, DevStays

LEMMA StepHostG0 ==
    ASSUME SignInv, HostG0, UNCHANGED <<case, dev>>
    PROVE  SignInv'
<1> USE SignAssumption DEF SignInv, HostG0, HostReadLine, SendDev
<1>1. /\ toHost = <<Line(<<G0Of(cnt)>>)>> /\ toHost # <<>>
  BY HostRows, HostGets
<1>2. /\ dkey = cnt /\ BIG /\ dpc = "ackG0" /\ idx = 0 /\ hidx = 0 /\ g = G0Of(cnt)
      /\ toDev = <<>>
  BY <1>1, HostRows
<1>3. toDev' = <<Ack>> /\ toHost' = <<>> /\ hG0' = G0Of(cnt)
  BY <1>1, <1>2, HostGets, Puts
<1>4. TypeOK'
  BY DEF TypeOK, ByteReads, case, dev
<1>5. Lockstep'
  BY <1>2, <1>3 DEF Lockstep, LockG0, At, BIG, case, dev
<1>6. FileInv'
  BY FileStays DEF FileInv
<1>7. HostInv'
  BY <1>3, SameCase DEF HostInv, BIG, case
<1>8. QED
  BY <1>4, <1>5, <1>6, <1>7, DevStays

LEMMA StepHostPairReady ==
    ASSUME SignInv, HostPairReady, UNCHANGED <<case, dev>>
    PROVE  SignInv'
<1> USE SignAssumption DEF SignInv, HostPairReady, HostReadByte
<1>1. /\ dkey = cnt /\ hidx = idx /\ dpc = IF BIG THEN "rdG0" ELSE "ackPair"
      /\ toDev = <<>> /\ toHost = <<Ready, Line(PairOf(cnt, idx))>>
  BY HostRows, HostGets
<1>2. toHost' = <<Line(PairOf(cnt, idx))>>
  BY <1>1, HostGets
<1>3. TypeOK'
  BY DEF TypeOK, LineReads, case, dev
<1>4. Lockstep'
  BY <1>1, <1>2, SameCase DEF Lockstep, LockCommit, At, BIG, case, dev
<1>5. FileInv'
  BY FileStays DEF FileInv
<1>6. HostInv'
  BY SameCase DEF HostInv, BIG, case
<1>7. QED
  BY <1>3, <1>4, <1>5, <1>6, DevStays

\* A pair arrives: it goes to the file, with BIG G0 goes back.
LEMMA StepHostPair ==
    ASSUME SignInv, HostPair, UNCHANGED <<case, dev>>
    PROVE  SignInv'
<1> USE SignAssumption DEF SignInv, HostReadLine, SendDev, HostLast
<1>1. hpc = "pair" /\ toHost = <<Line(PairOf(cnt, idx))>> /\ toHost # <<>>
  BY HostRows, HostGets DEF HostPair
<1>2. /\ dkey = cnt /\ hidx = idx /\ dpc = IF BIG THEN "rdG0" ELSE "ackPair"
      /\ toDev = <<>> /\ cnt \in Keys /\ cnt \in Nat
  BY <1>1, HostRows DEF TypeOK, Keys
<1>3. idx \in Rounds /\ idx \in Nat /\ idx <= T - 1
  BY DEF TypeOK, Rounds
<1> DEFINE next == IF hidx < T - 1 THEN "pairReady" ELSE "respReady"
           pair == PairOf(cnt, idx)
<1>4. /\ file' = Append(file, pair) /\ toHost' = <<>>
      /\ hidx' = (IF hidx < T - 1 THEN hidx + 1 ELSE 0)
      /\ UNCHANGED <<cnt, hG0, hdr, hsm, rsp>>
  BY <1>1, HostGets DEF HostPair
<1>5. hpc' = next /\ toDev' = IF BIG THEN <<Burst(<<G0Of(cnt)>>), Ack>> ELSE <<Ack>>
  <2>1. CASE BIG
    <3>1. hG0 = G0Of(cnt) /\ <<hG0>> \in Seq(Mat)
      <4>1. hG0 = G0Of(cnt) /\ G0Of(cnt) \in Mat
        BY <1>1, <1>2, <2>1, GoodMatrices DEF HostInv
      <4> HIDE DEF SignInv
      <4>2. QED
        BY <4>1
    <3>2. SendMatrices(<<hG0>>, <<Ack>>, next)
      BY <2>1 DEF HostPair
    <3>3. hpc' = next /\ SendDev(<<Burst(<<hG0>>)>> \o <<Ack>>)
      BY <3>1, <3>2, Sends
    <3>4. QED
      BY <1>2, <2>1, <3>1, <3>3, Puts
  <2>2. CASE ~BIG
    BY <1>2, <2>2, Puts DEF HostPair
  <2>3. QED
    BY <2>1, <2>2
<1>6. TypeOK'
  BY <1>3, <1>4, <1>5 DEF TypeOK, ByteReads, Rounds, case, dev
<1>7. Lockstep'
  BY <1>2, <1>3, <1>4, <1>5 DEF Lockstep, LockCommit, HostOn, BIG, case, dev
<1>8. /\ Taken(idx) /\ file \in Seq(Mat \X Mat) /\ pair \in Mat \X Mat
      /\ Len(hdr) = cnt + 1 /\ \A p \in 1..Len(hdr) : hdr[p].n = p - 1
      /\ hdr[cnt + 1].at \in Nat
  <2>1. pair \in Mat \X Mat
    BY <1>2, <1>3, GoodMatrices DEF PairOf
  <2>2. hdr[cnt + 1].at \in Nat
    BY <1>1, <1>2, HeaderAt DEF FileInv
  <2>3. QED
    BY <1>1, <1>2, <2>1, <2>2 DEF FileInv
<1>9. /\ file' \in Seq(Mat \X Mat) /\ Taken(idx + 1)'
  <2> DEFINE P == Mat \X Mat
  <2> HIDE DEF P, pair, SignInv
  <2>1. /\ file \in Seq(P) /\ pair \in P /\ file' = Append(file, pair)
        /\ Len(file) = hdr[cnt + 1].at + idx
    BY <1>4, <1>8 DEF P, Taken
  <2>2. /\ file' \in Seq(P) /\ Len(file') = hdr[cnt + 1].at + (idx + 1)
        /\ file'[hdr[cnt + 1].at + idx + 1] = pair
        /\ \A p \in 1..Len(file) : file'[p] = file[p]
    <3>1. /\ hdr[cnt + 1].at \in Nat /\ idx \in Nat
          /\ Len(Append(file, pair)) = Len(file) + 1
          /\ Append(file, pair)[Len(file) + 1] = pair
      BY <1>3, <1>8, <2>1
    <3>2. Append(file, pair) \in Seq(P) /\ \A p \in 1..Len(file) : Append(file, pair)[p] = file[p]
      BY <2>1
    <3>3. QED
      BY <2>1, <3>1, <3>2
  <2>3. \A j \in 0..((idx + 1) - 1) : file'[hdr[cnt + 1].at + j + 1] = PairOf(cnt, j)
    <3> TAKE j \in 0..((idx + 1) - 1)
    <3>1. CASE j = idx
      BY <2>2, <3>1 DEF pair
    <3>2. CASE j # idx
      <4>1. j \in 0..(idx - 1) /\ hdr[cnt + 1].at + j + 1 \in 1..Len(file)
        <5>1. j \in Nat /\ j < idx
          BY <1>3, <3>2
        <5>2. hdr[cnt + 1].at \in Nat /\ Len(file) = hdr[cnt + 1].at + idx
          BY <1>8, <2>1
        <5>3. QED
          BY <1>3, <5>1, <5>2
      <4>2. QED
        BY <1>8, <2>2, <4>1 DEF Taken
    <3>3. QED
      BY <3>1, <3>2
  <2>4. UNCHANGED <<cnt, hdr, idx>>
    BY <1>4 DEF dev
  <2>5. QED
    BY <2>2, <2>3, <2>4, SameCase DEF P, Taken
<1>10. FileInv'
  <2>1. (hpc' = "pairReady" => Taken(hidx)') /\ (hpc' = "respReady" => Taken(T)')
    <3>1. hpc' = "pairReady" => hidx' = idx' + 1
      BY <1>2, <1>4, <1>5 DEF dev
    <3>2. hpc' = "respReady" => idx' + 1 = T
      BY <1>2, <1>3, <1>5 DEF dev
    <3>3. Taken(idx + 1)'
      BY <1>9
    <3> HIDE DEF SignInv
    <3>4. QED
      BY <3>1, <3>2, <3>3
  <2>2. QED
    BY <1>4, <1>5, <1>8, <1>9, <2>1 DEF FileInv
<1>11. HostInv'
  <2>1. hsm = <<>> /\ Resps(cnt, 0) = <<>>
    BY <1>1 DEF HostInv, Resps
  <2>2. QED
    BY <1>1, <1>4, <1>5, <2>1, SameCase DEF HostInv, BIG, case
<1>12. QED
  BY <1>6, <1>7, <1>10, <1>11, DevStays

\* The first count line that starts with cnt is cnt's own: the pair that goes
\* back is the one this round sent.
LEMMA StepHostRespReady ==
    ASSUME SignInv, HostRespReady, UNCHANGED <<case, dev>>
    PROVE  SignInv'
<1> USE SignAssumption DEF SignInv, HostReadByte, SendDev
<1>1. hpc = "respReady" /\ CanReadByte(toHost) /\ toHost # <<>>
  BY HostGets DEF HostRespReady
<1>2. /\ dkey = cnt /\ dpc = "rdPair" /\ hidx = idx /\ toDev = <<>> /\ toHost = <<Ready>>
      /\ cnt \in Keys /\ cnt \in Nat /\ idx \in Rounds
  BY <1>1, HostRows DEF TypeOK, Keys
<1>3. FoundPair(hidx) = PairOf(cnt, idx)
  BY <1>1, <1>2, PairFound DEF FileInv
<1>4. PairOf(cnt, idx) \in Seq(Mat)
  <2>1. AtOf(cnt, idx) \in Mat /\ BtOf(cnt, idx) \in Mat
    BY <1>2, GoodMatrices
  <2> HIDE DEF SignInv
  <2>2. QED
    BY <2>1 DEF PairOf
<1>5. hpc' = "resp" /\ SendDev(<<Burst(PairOf(cnt, idx))>> \o <<>>)
  BY <1>3, <1>4, Sends DEF HostRespReady
<1>6. toDev' = <<Burst(PairOf(cnt, idx))>> /\ toHost' = <<>>
  BY <1>1, <1>2, <1>5, Puts, HostGets DEF HostRespReady
<1>7. UNCHANGED <<hidx, cnt, hG0, hdr, file, hsm, rsp>>
  BY DEF HostRespReady
<1>8. TypeOK'
  BY <1>5, <1>7 DEF TypeOK, LineReads, case, dev
<1>9. Lockstep'
  BY <1>2, <1>5, <1>6, <1>7, SameCase DEF Lockstep, LockRespond, At, case, dev
<1>10. FileInv'
  BY <1>1, <1>5, <1>7, FileStays DEF FileInv
<1>11. HostInv'
  BY <1>1, <1>5, <1>7, SameCase DEF HostInv, BIG, case
<1>12. QED
  BY <1>8, <1>9, <1>10, <1>11, DevStays

LEMMA StepHostResp ==
    ASSUME SignInv, HostResp, UNCHANGED <<case, dev>>
    PROVE  SignInv'
<1> USE SignAssumption DEF SignInv, HostReadLine, SendDev, HostLast
<1>1. hpc = "resp" /\ CanReadLine(toHost) /\ toHost # <<>>
  BY HostGets DEF HostResp
<1>2. /\ dkey = cnt /\ dpc = "ackResp" /\ hidx = idx /\ toDev = <<>>
      /\ toHost = <<Line(RespOf(cnt, idx))>>
      /\ cnt \in Keys /\ cnt \in Nat /\ idx \in Rounds /\ idx \in Nat /\ idx <= T - 1
  BY <1>1, HostRows DEF TypeOK, Keys, Rounds
<1>3. /\ hsm' = Append(hsm, RespOf(cnt, idx)) /\ toHost' = <<>> /\ toDev' = <<Ack>>
      /\ hpc' = (IF hidx < T - 1 THEN "respReady" ELSE "tailReady")
      /\ hidx' = (IF hidx < T - 1 THEN hidx + 1 ELSE 0)
      /\ UNCHANGED <<cnt, hG0, hdr, file, rsp>>
  BY <1>2, HostGets, Puts DEF HostResp
<1>4. TypeOK'
  BY <1>2, <1>3 DEF TypeOK, ByteReads, Rounds, case, dev
<1>5. Lockstep'
  BY <1>2, <1>3 DEF Lockstep, LockRespond, HostOn, dev
<1>6. FileInv'
  BY <1>1, <1>3, FileStays DEF FileInv
<1>7. hsm' = Resps(cnt, idx + 1)'
  <2>1. hsm = Resps(cnt, idx)
    BY <1>1, <1>2 DEF HostInv
  <2>2. hsm' = Resps(cnt, idx + 1)
    BY <1>2, <1>3, <2>1, RespsNext
  <2>3. QED
    BY <1>3, <2>2, SameCase DEF dev
<1>8. HostInv'
  <2>1. /\ hpc' = "respReady" => hidx' = idx' + 1
        /\ hpc' = "tailReady" => idx' + 1 = T
    BY <1>2, <1>3 DEF dev
  <2>2. /\ hpc' = "respReady" => hsm' = Resps(cnt, hidx)'
        /\ hpc' = "tailReady" => hsm' = Resps(cnt, T)'
    BY <1>7, <2>1
  <2>3. QED
    BY <1>1, <1>3, <2>2, SameCase DEF HostInv, BIG, case
<1>9. QED
  BY <1>4, <1>5, <1>6, <1>8, DevStays

LEMMA StepHostTailReady ==
    ASSUME SignInv, HostTailReady, UNCHANGED <<case, dev>>
    PROVE  SignInv'
<1> USE SignAssumption DEF SignInv, HostTailReady, HostReadByte
<1>1. /\ dkey = cnt /\ dpc = "ackTail" /\ toDev = <<>>
      /\ toHost = <<Ready, Line(MadeEnd(cnt))>>
  BY HostRows, HostGets
<1>2. toHost' = <<Line(MadeEnd(cnt))>>
  BY <1>1, HostGets
<1>3. TypeOK'
  BY DEF TypeOK, LineReads, case, dev
<1>4. Lockstep'
  BY <1>1, <1>2, SameCase DEF Lockstep, LockTail, At, case, dev
<1>5. FileInv'
  BY FileStays
<1>6. HostInv'
  BY SameCase DEF HostInv, BIG, case
<1>7. QED
  BY <1>3, <1>4, <1>5, <1>6, DevStays

LEMMA StepHostTail ==
    ASSUME SignInv, HostTail, UNCHANGED <<case, dev>>
    PROVE  SignInv'
<1> USE SignAssumption DEF SignInv, HostTail, HostReadLine, SendDev
<1>1. /\ dpc = "ackTail" /\ toHost = <<Line(MadeEnd(cnt))>> /\ toHost # <<>>
  BY HostRows, HostGets
<1>2. dkey = cnt /\ toDev = <<>>
  BY <1>1, HostRows
<1>3. toDev' = <<Ack>> /\ toHost' = <<>> /\ hsm' = Append(Resps(cnt, T), MadeEnd(cnt))
  BY <1>1, <1>2, HostGets, Puts DEF HostInv
<1>4. TypeOK'
  BY DEF TypeOK, LineReads, case, dev
<1>5. Lockstep'
  BY <1>1, <1>2, <1>3 DEF Lockstep, LockTail, At, dev
<1>6. FileInv'
  BY FileStays
<1>7. HostInv'
  BY <1>3, SameCase DEF HostInv, BIG, case
<1>8. QED
  BY <1>4, <1>5, <1>6, <1>7, DevStays

\* The signature is complete: it is written below those of earlier vectors.
LEMMA StepHostDone ==
    ASSUME SignInv, HostDone, UNCHANGED <<case, dev>>
    PROVE  SignInv'
<1> USE SignAssumption DEF SignInv, HostReadLine
<1>1. hpc = "done" /\ CanReadLine(toHost) /\ toHost # <<>>
  BY HostGets DEF HostDone
<1>2. /\ dkey = cnt /\ dpc = "cmd" /\ toDev = <<>> /\ toHost = <<Line(<<>>)>>
      /\ cnt \in Keys /\ cnt \in Nat
  BY <1>1, HostRows DEF TypeOK, Keys
<1>3. /\ rsp' = Append(rsp, MadeSm(cnt)) /\ hsm' = <<>> /\ toHost' = <<>>
      /\ UNCHANGED <<hidx, hG0, hdr, file, toDev>>
  BY <1>1, <1>2, HostGets DEF HostDone, HostInv, MadeSm
<1>4. rsp = [p \in 1..cnt |-> MadeSm(p - 1)]
  BY <1>1 DEF HostInv
<1>5. rsp' = [p \in 1..(cnt + 1) |-> MadeSm(p - 1)]
  BY <1>2, <1>3, <1>4
<1>6. rsp' = [p \in 1..(cnt + 1) |-> MadeSm(p - 1)']
  BY <1>5, SameCase
<1>7. Len(hdr) = cnt + 1
  BY <1>1 DEF FileInv
<1>8. CASE cnt + 1 < Counts
  <2>1. cnt' = cnt + 1 /\ hpc' = "start"
    BY <1>8 DEF HostDone
  <2>2. TypeOK'
    BY <1>2, <1>3, <1>8, <2>1 DEF TypeOK, Keys, case, dev
  <2>3. Lockstep'
    BY <1>2, <1>3, <2>1 DEF Lockstep, LockCmd, At, dev
  <2>4. FileInv'
    BY <1>3, <1>7, <2>1 DEF FileInv
  <2>5. HostInv'
    BY <1>3, <1>6, <2>1 DEF HostInv
  <2>6. QED
    BY <2>2, <2>3, <2>4, <2>5, DevStays
<1>9. CASE ~(cnt + 1 < Counts)
  <2>1. cnt' = cnt /\ hpc' = "finished" /\ cnt + 1 = Counts
    BY <1>2, <1>9 DEF HostDone, Keys
  <2>2. TypeOK'
    BY <1>3, <2>1 DEF TypeOK, case, dev
  <2>3. Lockstep'
    BY <1>2, <1>3, <2>1 DEF Lockstep, LockCmd, At, dev
  <2>4. FileInv'
    BY <1>1, <1>3, <2>1, FileStays
  <2>5. HostInv'
    BY <1>3, <1>6, <2>1 DEF HostInv
  <2>6. QED
    BY <2>2, <2>3, <2>4, <2>5, DevStays
<1>10. QED
  BY <1>8, <1>9

-----------------------------------------------------------------------------
\* The invariant is inductive.

LEMMA InitInv == Init => SignInv
<1> SUFFICES ASSUME Init PROVE SignInv
  OBVIOUS
<1> USE SignAssumption
<1>1. TypeOK
  <2>1. [build |-> build, tries |-> tries, ch |-> ch] \in Cases
    <3>1. PICK c \in Cases : build = c.build /\ tries = c.tries /\ ch = c.ch
      BY DEF Init
    <3>2. c = [build |-> c.build, tries |-> c.tries, ch |-> c.ch]
      BY CasesAssumption DEF Case
    <3>3. QED
      BY <3>1, <3>2
  <2>2. leaf \in [Rounds -> 0..MaxTry]
    BY DEF Init, FreshLeaves
  <2>3. idx \in Rounds /\ hidx \in Rounds /\ cnt \in Keys
    BY DEF Init, Rounds, Keys
  <2>4. hdr \in Seq([n : Keys, at : Nat])
    BY DEF Init
  <2>5. QED
    BY <2>1, <2>2, <2>3, <2>4 DEF Init, TypeOK, DevRecvs
<1>2. Lockstep
  BY DEF Init, Lockstep, LockCmd, At
<1>3. DevInv
  BY DEF Init, DevInv
<1>4. FileInv
  BY DEF Init, FileInv
<1>5. HostInv
  <2>1. <<>> = [p \in 1..0 |-> MadeSm(p - 1)]
    OBVIOUS
  <2>2. QED
    BY <2>1 DEF Init, HostInv
<1>6. QED
  BY <1>1, <1>2, <1>3, <1>4, <1>5 DEF SignInv

LEMMA NextInv ==
    ASSUME SignInv, [Next]_vars
    PROVE  SignInv'
<1>1. CASE Device
  BY <1>1, StepStart, StepReadSk, StepAckSk, StepAckG0, StepCommit, StepReadG0,
     StepAckPair, StepReadPair, StepAckResp, StepAckTail DEF Device, DevStep
<1>2. CASE Host
  BY <1>2, StepHostStart, StepHostSkReady, StepHostG0Ready, StepHostG0,
     StepHostPairReady, StepHostPair, StepHostRespReady, StepHostResp,
     StepHostTailReady, StepHostTail, StepHostDone DEF Host, HostStep
<1>3. CASE UNCHANGED vars
  <2>1. UNCHANGED <<case, dev, line, host>>
    BY <1>3 DEF vars
  <2>2. TypeOK'
    BY <2>1 DEF SignInv, TypeOK, case, dev, host
  <2>3. Lockstep'
    BY <2>1, SameCase
    DEF SignInv, Lockstep, LockCmd, LockSk, LockG0, LockCommit, LockRespond, LockTail,
        HostOn, At, BIG, case, dev, line, host
  <2>4. QED
    BY <2>1, <2>2, <2>3, DevStays, HostStays DEF SignInv
<1>4. QED
  BY <1>1, <1>2, <1>3 DEF Next, HostStop

-----------------------------------------------------------------------------
\* What the invariant gives.

LEMMA InvOverrun ==
    ASSUME SignInv
    PROVE  NoOverrun
<1> SUFFICES ASSUME dpc \notin {"cmd", "rdSk", "rdG0", "rdPair"}
             PROVE  toDev = <<>> \/ toDev = <<Ack>>
  BY DEF NoOverrun
<1>1. dpc \in {"ackSk", "ackG0", "commit", "ackPair", "ackResp", "ackTail"} /\ Lockstep
  BY DEF SignInv, TypeOK, DevRecvs
<1>2. QED
  BY <1>1, DevRows DEF LockSk, LockG0, LockCommit, LockRespond, LockTail, At

LEMMA InvAligned ==
    ASSUME SignInv
    PROVE  Aligned
<1> USE DEF SignInv
<1>1. ASSUME dpc \in DOMAIN DevRecvs, toDev # <<>>
      PROVE  Head(toDev).kind = DevRecvs[dpc]
  <2>1. CASE dpc = "cmd"
    BY <1>1, <2>1, Fronts, DevRows DEF LockCmd, At, DevRecvs
  <2>2. CASE dpc \in {"rdSk", "ackSk"}
    BY <1>1, <2>2, Fronts, DevRows DEF LockSk, At, DevRecvs
  <2>3. CASE dpc = "ackG0"
    BY <1>1, <2>3, Fronts, DevRows DEF LockG0, At, DevRecvs
  <2>4. CASE dpc \in {"rdG0", "ackPair"}
    BY <1>1, <2>4, Fronts, DevRows DEF LockCommit, At, DevRecvs
  <2>5. CASE dpc \in {"rdPair", "ackResp"}
    BY <1>1, <2>5, Fronts, DevRows DEF LockRespond, At, DevRecvs
  <2>6. CASE dpc = "ackTail"
    BY <1>1, <2>6, Fronts, DevRows DEF LockTail, At, DevRecvs
  <2>7. QED
    BY <1>1, <2>1, <2>2, <2>3, <2>4, <2>5, <2>6 DEF DevRecvs
<1>2. ASSUME hpc \in ByteReads, toHost # <<>>
      PROVE  Head(toHost).kind = "ready"
  BY <1>2, Fronts, HostRows DEF ByteReads
<1>3. ASSUME hpc \in LineReads, toHost # <<>>
      PROVE  Head(toHost).kind = "line"
  BY <1>3, Fronts, HostRows DEF LineReads
<1>4. QED
  BY <1>1, <1>2, <1>3 DEF Aligned

LEMMA InvMutualWait ==
    ASSUME SignInv
    PROVE  NoMutualWait
<1> SUFFICES ASSUME DevBlocked, HostBlocked PROVE FALSE
  BY DEF NoMutualWait
<1>1. /\ dpc = "cmd" => ~CanRecv(toDev, "code")
      /\ dpc \in {"rdSk", "rdG0", "rdPair"} => ~CanRecv(toDev, "burst")
      /\ dpc \in {"ackSk", "ackG0", "ackPair", "ackResp", "ackTail"} => ~CanRecv(toDev, "ack")
      /\ dpc # "commit"
  BY DEF DevBlocked, DevRecvs
<1>2. /\ hpc \in ByteReads => ~CanReadByte(toHost)
      /\ hpc \in LineReads => ~CanReadLine(toHost)
      /\ hpc \in ByteReads \cup LineReads \cup {"crashed"}
  BY DEF HostBlocked, ByteReads, LineReads
<1> USE <1>1, <1>2, DevGets, HostGets DEF At, ByteReads, LineReads
<1>3. CASE LockCmd
  BY <1>3 DEF LockCmd
<1>4. CASE LockSk
  BY <1>4 DEF LockSk
<1>5. CASE LockG0
  BY <1>5 DEF LockG0
<1>6. CASE LockCommit
  BY <1>6 DEF LockCommit, HostOn
<1>7. CASE LockRespond
  BY <1>7 DEF LockRespond, HostOn
<1>8. CASE LockTail
  BY <1>8 DEF LockTail
<1>9. QED
  BY <1>3, <1>4, <1>5, <1>6, <1>7, <1>8 DEF SignInv, Lockstep

-----------------------------------------------------------------------------
\* The signature the device makes is the one of the reference.

\* What HostDone writes, line by line.
Keeps(f, N, item) ==
    /\ f[0] = <<>>
    /\ \A n \in 1..N :
           f[n] = IF item[n] # Zero THEN Append(f[n - 1], item[n]) ELSE f[n - 1]

LEMMA KeepExists ==
    ASSUME NEW X, NEW N \in Nat, NEW item \in [1..N -> X]
    PROVE  \E f \in [0..N -> Seq(X)] : Keeps(f, N, item)
<1> DEFINE V == Seq(X)
           nil == <<>>
           Step(n, v) == IF item[n] # Zero THEN Append(v, item[n]) ELSE v
           step == [n \in 1..N |-> [v \in V |-> Step(n, v)]]
<1>1. nil \in V /\ \A n \in 1..N, v \in V : Step(n, v) \in V
  OBVIOUS
<1> HIDE DEF V, nil, Step
<1>2. step \in [1..N -> [V -> V]] /\ \A n \in 1..N, v \in V : step[n][v] = Step(n, v)
  BY <1>1
<1> HIDE DEF step
<1>3. PICK f \in [0..N -> V] : Iterates(f, nil, N, step)
  BY <1>1, <1>2, Recursion
<1>4. f[0] = nil /\ \A n \in 1..N : f[n] = step[n][f[n - 1]]
  BY <1>3 DEF Iterates
<1>5. \A n \in 1..N : f[n] = Step(n, f[n - 1])
  <2> TAKE n \in 1..N
  <2>1. f[n - 1] \in V
    OBVIOUS
  <2>2. QED
    BY <1>2, <1>4, <2>1
<1>6. QED
  BY <1>4, <1>5 DEF V, nil, Step, Keeps

LEMMA WrittenSteps ==
    ASSUME NEW X, NEW lines \in Seq(X)
    PROVE  \E w : Keeps(w, Len(lines), lines) /\ Written(lines) = w[Len(lines)]
<1> DEFINE N == Len(lines)
           Step(n, v) == IF lines[n] # Zero THEN Append(v, lines[n]) ELSE v
           nil == <<>>
           Solves(f) == f = [n \in 0..N |-> IF n = 0 THEN nil ELSE Step(n, f[n - 1])]
<1>1. N \in Nat /\ lines \in [1..N -> X]
  OBVIOUS
<1>2. PICK f \in [0..N -> Seq(X)] : f[0] = nil /\ \A n \in 1..N : f[n] = Step(n, f[n - 1])
  <2> HIDE DEF N, nil
  <2>1. PICK f \in [0..N -> Seq(X)] : Keeps(f, N, lines)
    BY <1>1, KeepExists
  <2>2. QED
    BY <2>1 DEF Keeps, nil
<1>3. Solves(f)
  <2> HIDE DEF N, Step, nil
  <2> QED BY <1>1, <1>2
<1> DEFINE w == CHOOSE fun : Solves(fun)
<1>4. Solves(w)
  <2> HIDE DEF Solves
  <2> QED BY <1>3
<1>5. Written(lines) = w[N]
  BY DEF Written
<1> HIDE DEF w
<1>6. w[0] = nil /\ \A n \in 1..N : w[n] = Step(n, w[n - 1])
  <2> HIDE DEF Step, nil
  <2> QED BY <1>1, <1>4
<1>7. QED
  BY <1>5, <1>6 DEF Keeps

LEMMA RefSteps ==
    ASSUME NEW k, T \in Nat
    PROVE  \E w : /\ w[0] = <<>>
                  /\ \A n \in 1..T :
                         w[n] = IF ch[k][n - 1] > 0 THEN Append(w[n - 1], RespOf(k, n - 1))
                                                    ELSE w[n - 1]
                  /\ RefSm(k) = Append(w[T], EndOf(k))
<1> DEFINE X == {RespOf(k, n - 1) : n \in 1..T} \cup {Zero}
           item == [n \in 1..T |-> IF ch[k][n - 1] > 0 THEN RespOf(k, n - 1) ELSE Zero]
           Step(n, v) == IF ch[k][n - 1] > 0 THEN Append(v, RespOf(k, n - 1)) ELSE v
           nil == <<>>
           Solves(f) == f = [n \in 0..T |-> IF n = 0 THEN nil ELSE Step(n, f[n - 1])]
<1>1. item \in [1..T -> X]
  OBVIOUS
<1>2. PICK f \in [0..T -> Seq(X)] : Keeps(f, T, item)
  <2> HIDE DEF item, X
  <2> QED BY <1>1, KeepExists
<1>3. \A n \in 1..T : f[n] = Step(n, f[n - 1])
  <2> TAKE n \in 1..T
  <2>1. ch[k][n - 1] > 0 => RespOf(k, n - 1) # Zero
    BY DEF RespOf, Response, Zero
  <2>2. item[n] = IF ch[k][n - 1] > 0 THEN RespOf(k, n - 1) ELSE Zero
    OBVIOUS
  <2> HIDE DEF item
  <2>3. QED
    BY <1>2, <2>1, <2>2 DEF Keeps
<1>4. Solves(f)
  <2>1. f[0] = nil
    BY <1>2 DEF Keeps
  <2> HIDE DEF Step, nil
  <2>2. QED
    BY <1>2, <1>3, <2>1
<1> DEFINE w == CHOOSE fun : Solves(fun)
<1>5. Solves(w)
  <2> HIDE DEF Solves
  <2> QED BY <1>4
<1>6. RefSm(k) = Append(w[T], EndOf(k))
  BY DEF RefSm
<1> HIDE DEF w
<1>7. w[0] = nil /\ \A n \in 1..T : w[n] = Step(n, w[n - 1])
  <2> HIDE DEF Step, nil
  <2> QED BY <1>5
<1>8. QED
  BY <1>6, <1>7

\* A build without room for G0 signs at the first attempt of every round.
FirstTries ==
    \A c \in Cases : c.build = "big" => \A k \in Keys, i \in Rounds : c.tries[k][i] = 1

LEMMA EndIsReference ==
    ASSUME FirstTries, TypeOK, NEW k \in Keys
    PROVE  MadeEnd(k) = EndOf(k)
<1>1. \A i \in Rounds : BIG => tries[k][i] = 1
  BY DEF FirstTries, TypeOK, BIG
<1>2. \A j \in 1..T : Made(k, j - 1) = Commit(k, j - 1, tries[k][j - 1], TRUE)
  <2> TAKE j \in 1..T
  <2>1. j - 1 \in Rounds
    BY SignAssumption DEF Rounds
  <2>2. (BIG => tries[k][j - 1] = 1) = TRUE
    BY <1>1, <2>1
  <2>3. QED
    BY <2>2 DEF Made
<1>3. Absorbed(k, T) = HashOf(k, T)
  BY <1>2 DEF Absorbed, HashOf
<1>4. QED
  BY <1>3 DEF MadeEnd, EndOf

LEMMA MadeIsReference ==
    ASSUME FirstTries, TypeOK, NEW k \in Keys
    PROVE  MadeSm(k) = RefSm(k)
<1> DEFINE X == {RespOf(k, j - 1) : j \in 1..T} \cup {MadeEnd(k)}
           lines == Append(Resps(k, T), MadeEnd(k))
<1>1. T \in Nat
  BY SignAssumption
<1>2. /\ lines \in Seq(X) /\ Len(lines) = T + 1 /\ lines[T + 1] = MadeEnd(k)
      /\ \A n \in 1..T : lines[n] = RespOf(k, n - 1)
  <2>1. \A n \in 1..T : RespOf(k, n - 1) \in X
    OBVIOUS
  <2>2. MadeEnd(k) \in X
    OBVIOUS
  <2> HIDE DEF X
  <2>3. Resps(k, T) \in Seq(X) /\ Len(Resps(k, T)) = T
        /\ \A n \in 1..T : Resps(k, T)[n] = RespOf(k, n - 1)
    BY <1>1, <2>1 DEF Resps
  <2>4. QED
    BY <1>1, <2>2, <2>3
<1>3. MadeSm(k) = Written(lines)
  BY DEF MadeSm
<1> HIDE DEF lines, X
<1>4. PICK w : Keeps(w, T + 1, lines) /\ Written(lines) = w[T + 1]
  BY <1>2, WrittenSteps
<1>5. PICK v : /\ v[0] = <<>>
               /\ \A n \in 1..T :
                      v[n] = IF ch[k][n - 1] > 0 THEN Append(v[n - 1], RespOf(k, n - 1))
                                                 ELSE v[n - 1]
               /\ RefSm(k) = Append(v[T], EndOf(k))
  BY <1>1, RefSteps
<1>6. \A n \in 1..T : (RespOf(k, n - 1) # Zero) <=> ch[k][n - 1] > 0
  BY DEF RespOf, Response, Zero
<1>7. \A n \in 1..T : w[n] = IF ch[k][n - 1] > 0 THEN Append(w[n - 1], RespOf(k, n - 1))
                                                  ELSE w[n - 1]
  <2> TAKE n \in 1..T
  <2>1. n \in 1..(T + 1) /\ lines[n] = RespOf(k, n - 1)
    BY <1>1, <1>2
  <2>2. w[n] = IF lines[n] # Zero THEN Append(w[n - 1], lines[n]) ELSE w[n - 1]
    BY <1>4, <2>1 DEF Keeps
  <2>3. (RespOf(k, n - 1) # Zero) <=> ch[k][n - 1] > 0
    BY <1>6
  <2>4. QED
    BY <2>1, <2>2, <2>3, Zenon
<1>8. \A n \in Nat : n <= T => w[n] = v[n]
  <2> DEFINE P == {n \in Nat : n <= T => w[n] = v[n]}
  <2>1. 0 \in P
    BY <1>4, <1>5 DEF Keeps
  <2>2. ASSUME NEW n \in P PROVE n + 1 \in P
    <3> SUFFICES ASSUME n + 1 <= T PROVE w[n + 1] = v[n + 1]
      OBVIOUS
    <3>1. n + 1 \in 1..T /\ (n + 1) - 1 = n /\ w[n] = v[n]
      BY <1>1, <2>2
    <3> HIDE DEF P
    <3>2. QED
      BY <1>5, <1>7, <3>1
  <2>3. P = Nat
    <3>1. P \subseteq Nat
      OBVIOUS
    <3> HIDE DEF P
    <3>2. QED
      BY <2>1, <2>2, <3>1, Induction
  <2>4. QED
    BY <2>3
<1>9. w[T + 1] = Append(w[T], MadeEnd(k))
  <2>1. MadeEnd(k) # Zero
    BY DEF MadeEnd, Zero
  <2>2. T + 1 \in 1..(T + 1) /\ (T + 1) - 1 = T
    BY <1>1
  <2>3. QED
    BY <1>2, <1>4, <2>1, <2>2 DEF Keeps
<1>10. QED
  BY <1>1, <1>3, <1>4, <1>5, <1>8, <1>9, EndIsReference

LEMMA InvReference ==
    ASSUME FirstTries, SignInv
    PROVE  KatSmIsReference
<1> USE SignAssumption DEF SignInv
<1>1. cnt \in Nat /\ cnt < Counts
  BY DEF TypeOK, Keys
<1>2. \A p \in 1..Len(rsp) : p - 1 \in Keys /\ rsp[p] = MadeSm(p - 1)
  BY <1>1 DEF HostInv, Keys
<1>3. QED
  BY <1>2, MadeIsReference DEF KatSmIsReference

\* The reference's answers are those of the case, which never changes.
LEMMA SameReference ==
    ASSUME UNCHANGED case
    PROVE  \A k : RefSm(k)' = RefSm(k)
<1>1. \A k, i : RespOf(k, i)' = RespOf(k, i)
  BY SameCase
<1>2. \A k : EndOf(k)' = EndOf(k)
  BY DEF case, EndOf, HashOf
<1>3. ch' = ch
  BY DEF case
<1>4. QED
  BY <1>1, <1>2, <1>3 DEF RefSm

LEMMA AnswerStep ==
    ASSUME FirstTries, SignInv, [Next]_vars
    PROVE  [KS!Answer]_<<[k \in Keys |-> RefSm(k)], rsp>>
<1>1. UNCHANGED case
  BY DEF Next, Device, Host, HostStop, vars
<1>2. UNCHANGED [k \in Keys |-> RefSm(k)]
  BY <1>1, SameReference
<1>3. CASE HostDone
  <2>1. hpc = "done" /\ rsp' = Append(rsp, Written(hsm))
    BY <1>3 DEF HostDone, HostReadLine
  <2>2. rsp' = Append(rsp, MadeSm(cnt)) /\ cnt \in Keys /\ cnt \in Nat
    <3>1. cnt \in Keys
      BY DEF SignInv, TypeOK
    <3>2. hsm = Append(Resps(cnt, T), MadeEnd(cnt))
      BY <2>1 DEF SignInv, HostInv
    <3>3. QED
      BY <2>1, <3>1, <3>2, SignAssumption DEF MadeSm, Keys
  <2>3. Len(rsp) = cnt
    BY <2>1, <2>2 DEF SignInv, HostInv
  <2>4. MadeSm(cnt) = [k \in Keys |-> RefSm(k)][cnt]
    BY <2>2, MadeIsReference DEF SignInv
  <2>5. cnt < Counts
    BY <2>2, SignAssumption DEF Keys
  <2>6. QED
    BY <1>2, <2>2, <2>3, <2>4, <2>5 DEF KS!Answer
<1>4. CASE ~HostDone
  <2>1. UNCHANGED rsp
    BY <1>4
    DEF Next, Device, Host, HostStop, HostStep, HostStart, HostSkReady, HostG0Ready, HostG0,
        HostPairReady, HostPair, HostRespReady, HostResp, HostTailReady, HostTail, host, vars
  <2>2. QED
    BY <1>2, <2>1
<1>5. QED
  BY <1>3, <1>4

-----------------------------------------------------------------------------
\* The theorems.

\* Device, line, host and files fit together at every step, for any number of
\* rounds and test vectors, whatever the digests and however many attempts.
THEOREM SignLockstep == Spec => []SignInv
<1>1. SignInv /\ [Next]_vars => SignInv'
  BY NextInv
<1>2. QED
  BY InitInv, <1>1, PTL DEF Spec

\* Type correctness of both programs.
THEOREM SignTypeCorrect == Spec => []TypeOK
<1>1. SignInv => TypeOK
  BY DEF SignInv
<1>2. QED
  BY SignLockstep, <1>1, PTL

\* The one-byte receive register of the device never overruns.
THEOREM SignNoOverrun == Spec => []NoOverrun
  BY SignLockstep, InvOverrun, PTL

\* Device and host never wait for one another.
THEOREM SignNoMutualWait == Spec => []NoMutualWait
  BY SignLockstep, InvMutualWait, PTL

\* No read starts in the middle of what the other side wrote.
THEOREM SignAligned == Spec => []Aligned
  BY SignLockstep, InvAligned, PTL

\* Every signature of the .rsp file is the one the reference makes from the
\* same key and seeds; a build without room for G0 must not retry a round.
THEOREM SignIsReference ==
    ASSUME FirstTries
    PROVE  Spec => []KatSmIsReference
  BY SignLockstep, InvReference, PTL

\* Device, line, host and files together answer the test vectors in turn with
\* the reference's signatures, and do nothing else to the .rsp file.
THEOREM SignImplementsService ==
    ASSUME FirstTries
    PROVE  Spec => KS!Safety
<1>1. Init => KS!Init
  BY DEF Init, KS!Init, Keys
<1>2. SignInv /\ [Next]_vars => [KS!Answer]_<<[k \in Keys |-> RefSm(k)], rsp>>
  BY AnswerStep
<1>3. QED
  BY SignLockstep, <1>1, <1>2, PTL DEF Spec, KS!Safety
=============================================================================
