---------------------------- MODULE StreamKeygen ----------------------------
(***************************************************************************)
(* Streamed key generation: crypto_sign_keypair_streaming on the device    *)
(* (ref/meds_stream.c) against do_get_data_from_keygen on the host         *)
(* (sage-ref/KAT_test_Stream.py).                                          *)
(*                                                                         *)
(* The device has room for one A_inv, one B_inv and one or two G, so it    *)
(* pushes every key matrix to the host as it is found and later pulls them *)
(* back, one at a time, to pack sk and pk.  A device action runs from one  *)
(* blocking hal_getchar to the next; a host action from one blocking       *)
(* dev.read or dev.readline to the next.  Matrices are symbolic: `of' says *)
(* what the matrix is, `key' which call drew its seed, `att' on which step *)
(* of the sigma chain it was made, `good' whether it was computed from the *)
(* operands the reference uses.                                            *)
(***************************************************************************)
EXTENDS Integers, FiniteSets, SerialLink

CONSTANTS
    S,          \* MEDS_s: a key is the S - 1 matrices of index 1 .. S - 1
    Counts,     \* test vectors of the request file (100 in the program)
    MaxAtt,     \* bound: steps of the sigma chain one call may take
    Outcomes,   \* what an attempt may come to, see Outcome
    Cases       \* the builds and request files considered, see Case

\* "ok"; solve(), the inverse of B, or the inverse of A fails; the new G has
\* no systematic form.
Outcome == {"ok", "noSol", "noInvB", "noInvA", "notSyst"}

ASSUME KeygenAssumption ==
    /\ S \in Nat /\ S > 1
    /\ Counts \in Nat \ {0}
    /\ MaxAtt \in Nat /\ MaxAtt >= S - 1
    /\ Outcomes \subseteq Outcome
    /\ "ok" \in Outcomes

Index    == 1..(S - 1)
Keys     == 0..(Counts - 1)
Attempts == 1..MaxAtt

\* Every call finds its S - 1 matrices within MaxAtt steps of the chain; the
\* code retries for ever and each step succeeds with fair probability.
Lucky(outs) == Cardinality({a \in Attempts : outs[a] = "ok"}) >= S - 1

\* A build, and what each step of the sigma chain of each key comes to.
Build == {"small", "big"}
Case  == [build : Build, chain : [Keys -> {outs \in [Attempts -> Outcomes] : Lucky(outs)}]]

ASSUME CasesAssumption == Cases \subseteq Case

Mat == [of : {"seeds", "G0", "GT", "Ainv", "Binv", "G"},
        key : Keys, att : 0..MaxAtt, good : BOOLEAN]

ASSUME CorruptAssumption == Corrupt \notin Mat

\* The matrix the reference key generation has under the same name.
Ref(of, k, a) == [of |-> of, key |-> k, att |-> a, good |-> TRUE]
G0Of(k)       == Ref("G0", k, 0)
SeedsOf(k)    == Ref("seeds", k, 0)   \* delta and sigma_G0 in sk, sigma_G0 in pk

VARIABLES
    build, chain, \* the case; chain[k][a]: step a of the sigma chain of key k
    \* the device
    dpc,        \* where it waits, or "try" and "pi" where it computes
    dkey,       \* crypto_sign_keypair_streaming calls made, less one
    idx,        \* the loop variables i and si
    att,        \* steps of the sigma chain taken
    gdata,      \* the buffer G_data
    ainv, binv, \* the buffers A_inv_data and B_inv_data
    bs,         \* matrices written to the bit stream of sk
    \* the line
    toDev, toHost,
    \* the host
    hpc,        \* the read it is blocked in
    hidx,       \* i, line_A, line_B or line_G, whichever loop it is in
    cnt,        \* count_line - 1
    hG0,        \* key_gen_result[...]["G0_data"]
    hdr,        \* count lines of the keygen file: number, triples before it
    file,       \* A_inv_data, B_inv_data, G_data lines of the keygen file
    hsk, hpk,   \* sk_data, pk_data
    rsp         \* the pk and sk lines of the .rsp file

line == <<toDev, toHost>>
dev  == <<dpc, dkey, idx, att, gdata, ainv, binv, bs>>
host == <<hpc, hidx, cnt, hG0, hdr, file, hsk, hpk, rsp>>
case == <<build, chain>>
vars == <<case, dev, line, host>>

\* MEDS167717 or MEDS134180: no room for G0 beside G_data.
BIG == build = "big"

-----------------------------------------------------------------------------
\* The device

\* for (int i = 1; i < MEDS_s; i++), and the same with si.
DevLast == S - 1

NoMat == [of |-> "G", key |-> 0, att |-> 0, good |-> FALSE]

SendHost(items) == toHost' = toHost \o items

\* The device is in the read at label `from', for items of this kind.
DevRecv(from, kind) ==
    /\ dpc = from
    /\ CanRecv(toDev, kind)
    /\ toDev' = Tail(toDev)

\* The PK command: randombytes and XOF give delta, sigma_G0, sigma and G0.
DevStart ==
    /\ DevRecv("cmd", "code")
    /\ dkey' = dkey + 1
    /\ idx' = 1
    /\ att' = 0
    /\ gdata' = G0Of(dkey')
    /\ IF BIG
       THEN dpc' = "ackG0" /\ SendHost(<<Ready, Line(<<G0Of(dkey')>>)>>)
       ELSE dpc' = "try" /\ UNCHANGED toHost
    /\ UNCHANGED <<ainv, binv, bs>>

DevAckG0 ==
    /\ DevRecv("ackG0", "ack")
    /\ dpc' = "try"
    /\ UNCHANGED <<dkey, idx, att, gdata, ainv, binv, bs, toHost>>

\* One turn of while (1 == 1) up to the check of A_inv.  With BIG the product
\* Ti * G_data overwrites G_data, otherwise it is Ti * G0 in Gprime.
DevAttempt ==
    /\ dpc = "try"
    /\ att < MaxAtt
    /\ att' = att + 1
    /\ LET out  == chain[dkey][att + 1]
           good == BIG => gdata = G0Of(dkey)
           new(of) == [of |-> of, key |-> dkey, att |-> att + 1, good |-> good]
       IN  /\ gdata' = IF BIG THEN new("GT") ELSE gdata
           /\ IF out \in {"noSol", "noInvB", "noInvA"}
              THEN UNCHANGED <<dpc, ainv, binv, toHost>>
              ELSE /\ ainv' = new("Ainv")
                   /\ binv' = new("Binv")
                   /\ SendHost(<<Ready>>)
                   /\ dpc' = IF BIG THEN "rdG0" ELSE "pi"
    /\ UNCHANGED <<dkey, idx, bs, toDev>>

DevReadG0 ==
    /\ DevRecv("rdG0", "burst")
    /\ gdata' = Head(toDev).data[1]
    /\ dpc' = "pi"
    /\ UNCHANGED <<dkey, idx, att, ainv, binv, bs, toHost>>

\* pi and pmod_mat_syst_ct, then the three matrices of this index.
DevPi ==
    /\ dpc = "pi"
    /\ gdata' = [of |-> "G", key |-> dkey, att |-> att,
                 good |-> ainv.good /\ (BIG => gdata = G0Of(dkey))]
    /\ IF chain[dkey][att] = "notSyst"
       THEN dpc' = "try" /\ UNCHANGED toHost
       ELSE /\ SendHost(<<Line(<<ainv, binv, gdata'>>)>>)
            /\ dpc' = IF BIG THEN "rdG0again" ELSE "ackTriple"
    /\ UNCHANGED <<dkey, idx, att, ainv, binv, bs, toDev>>

DevReadG0Again ==
    /\ DevRecv("rdG0again", "burst")
    /\ gdata' = Head(toDev).data[1]
    /\ dpc' = "ackTriple"
    /\ UNCHANGED <<dkey, idx, att, ainv, binv, bs, toHost>>

\* hal_getchar() at the end of index i, and the start of sk after the last.
DevAckTriple ==
    /\ DevRecv("ackTriple", "ack")
    /\ IF idx < DevLast
       THEN /\ idx' = idx + 1
            /\ dpc' = "try"
            /\ UNCHANGED <<bs, toHost>>
       ELSE /\ idx' = 1
            /\ dpc' = "rdA"
            /\ bs' = <<>>
            /\ SendHost(<<Ready>>)
    /\ UNCHANGED <<dkey, att, gdata, ainv, binv>>

DevReadA ==
    /\ DevRecv("rdA", "burst")
    /\ ainv' = Head(toDev).data[1]
    /\ bs' = Append(bs, ainv')
    /\ dpc' = "ackA"
    /\ UNCHANGED <<dkey, idx, att, gdata, binv, toHost>>

DevAckA ==
    /\ DevRecv("ackA", "ack")
    /\ SendHost(<<Ready>>)
    /\ IF idx < DevLast
       THEN idx' = idx + 1 /\ dpc' = "rdA"
       ELSE idx' = 1 /\ dpc' = "rdB"
    /\ UNCHANGED <<dkey, att, gdata, ainv, binv, bs>>

DevReadB ==
    /\ DevRecv("rdB", "burst")
    /\ binv' = Head(toDev).data[1]
    /\ bs' = Append(bs, binv')
    /\ dpc' = "ackB"
    /\ UNCHANGED <<dkey, idx, att, gdata, ainv, toHost>>

DevAckB ==
    /\ DevRecv("ackB", "ack")
    /\ IF idx < DevLast
       THEN /\ idx' = idx + 1
            /\ dpc' = "rdB"
            /\ SendHost(<<Ready>>)
       ELSE /\ idx' = 1
            /\ dpc' = "ackSk"
            /\ SendHost(<<Ready, Line(<<SeedsOf(dkey)>> \o bs)>>)
    /\ UNCHANGED <<dkey, att, gdata, ainv, binv, bs>>

\* Mutant: no 0x00 before the G matrices.
DevAckSk_NoReady ==
    /\ DevRecv("ackSk", "ack")
    /\ dpc' = "rdG"
    /\ UNCHANGED <<dkey, idx, att, gdata, ainv, binv, bs, toHost>>

DevAckSk ==
    /\ DevRecv("ackSk", "ack")
    /\ SendHost(<<Ready>>)
    /\ dpc' = "rdG"
    /\ UNCHANGED <<dkey, idx, att, gdata, ainv, binv, bs>>

\* The bit stream is set up anew for every index; the first chunk of pk
\* carries sigma_G0 in front.
DevReadG ==
    /\ DevRecv("rdG", "burst")
    /\ gdata' = Head(toDev).data[1]
    /\ bs' = <<gdata'>>
    /\ SendHost(<<Line((IF idx = 1 THEN <<SeedsOf(dkey)>> ELSE <<>>) \o bs')>>)
    /\ dpc' = "ackG"
    /\ UNCHANGED <<dkey, idx, att, ainv, binv>>

\* After the last chunk main prints "pk = DONE".
DevAckG ==
    /\ DevRecv("ackG", "ack")
    /\ IF idx < DevLast
       THEN /\ idx' = idx + 1
            /\ dpc' = "rdG"
            /\ SendHost(<<Ready>>)
       ELSE /\ dpc' = "cmd"
            /\ SendHost(<<Line(<<>>)>>)
            /\ UNCHANGED idx
    /\ UNCHANGED <<dkey, att, gdata, ainv, binv, bs>>

DevStep ==
    \/ DevStart \/ DevAckG0 \/ DevAttempt \/ DevReadG0 \/ DevPi
    \/ DevReadG0Again \/ DevAckTriple \/ DevReadA \/ DevAckA \/ DevReadB
    \/ DevAckB \/ DevAckSk \/ DevReadG \/ DevAckG

Device == DevStep /\ UNCHANGED <<case, host>>

-----------------------------------------------------------------------------
\* The host

\* range(1, MEDS_s), and line_A == MEDS_s - 1 for the lines of the file.
HostLast_OffByOne == S  \* Mutant: range(1, MEDS_s + 1).
HostLast == S - 1

SendDev(items) == toDev' = toDev \o items

\* Mutant: the serial port is opened with a timeout, read(1) may come back empty.
HostReadByte_Timeout(from) ==
    /\ hpc = from
    /\ toHost' = IF CanReadByte(toHost) THEN AfterReadByte(toHost) ELSE toHost

HostReadByte(from) ==
    /\ hpc = from
    /\ CanReadByte(toHost)
    /\ toHost' = AfterReadByte(toHost)

HostReadLine(from) ==
    /\ hpc = from
    /\ CanReadLine(toHost)
    /\ toHost' = AfterReadLine(toHost)

\* startswith(f"count = {c}") on the line "count = n", n < 100.
StartsWith_Swapped(n, c) == n = c \/ (n # 0 /\ c \div 10 = n)  \* Mutant.
StartsWith(n, c) == n = c \/ (c # 0 /\ n \div 10 = c)

\* Line j of a kind after the first count line that starts with cnt.
FoundTriple(j) ==
    LET first == CHOOSE p \in 1..Len(hdr) :
                     /\ StartsWith(hdr[p].n, cnt)
                     /\ \A r \in 1..(p - 1) : ~StartsWith(hdr[r].n, cnt)
    IN  file[hdr[first].at + j]

\* bytes.fromhex() and the write loop; a ValueError ends the script.
SendMatrix(m, rest, next) ==
    IF m = Corrupt
    THEN hpc' = "crashed" /\ UNCHANGED toDev
    ELSE hpc' = next /\ SendDev(<<Burst(<<m>>)>> \o rest)

HostStart ==
    /\ hpc = "start"
    /\ hdr' = Append(hdr, [n |-> cnt, at |-> Len(file)])
    /\ SendDev(<<Code>>)
    /\ hpc' = IF BIG THEN "g0Ready" ELSE "tripleReady"
    /\ hidx' = 1
    /\ UNCHANGED <<cnt, hG0, file, hsk, hpk, rsp, toHost>>

HostG0Ready ==
    /\ HostReadByte("g0Ready")
    /\ hpc' = "g0"
    /\ UNCHANGED <<hidx, cnt, hG0, hdr, file, hsk, hpk, rsp, toDev>>

HostG0 ==
    /\ HostReadLine("g0")
    /\ hG0' = LineRead(toHost).data[1]
    /\ SendDev(<<Ack>>)
    /\ hpc' = "tripleReady"
    /\ UNCHANGED <<hidx, cnt, hdr, file, hsk, hpk, rsp>>

HostTripleReady ==
    /\ HostReadByte("tripleReady")
    /\ IF BIG THEN SendMatrix(hG0, <<>>, "triple")
              ELSE hpc' = "triple" /\ UNCHANGED toDev
    /\ UNCHANGED <<hidx, cnt, hG0, hdr, file, hsk, hpk, rsp>>

\* Mutant: the keygen file is opened with "w" for every triple.
HostTriple_Truncate ==
    /\ HostReadLine("triple")
    /\ file' = <<LineRead(toHost).data>>
    /\ SendDev((IF BIG THEN <<Burst(<<hG0>>)>> ELSE <<>>) \o <<Ack>>)
    /\ IF hidx < HostLast
       THEN hidx' = hidx + 1 /\ hpc' = "tripleReady"
       ELSE hidx' = 1 /\ hpc' = "sendA"
    /\ UNCHANGED <<cnt, hG0, hdr, hsk, hpk, rsp>>

HostTriple ==
    /\ HostReadLine("triple")
    /\ file' = Append(file, LineRead(toHost).data)
    /\ SendDev((IF BIG THEN <<Burst(<<hG0>>)>> ELSE <<>>) \o <<Ack>>)
    /\ IF hidx < HostLast
       THEN hidx' = hidx + 1 /\ hpc' = "tripleReady"
       ELSE hidx' = 1 /\ hpc' = "sendA"
    /\ UNCHANGED <<cnt, hG0, hdr, hsk, hpk, rsp>>

HostSendA ==
    /\ HostReadByte("sendA")
    /\ SendMatrix(FoundTriple(hidx)[1], <<Ack>>,
                  IF hidx < HostLast THEN "sendA" ELSE "sendB")
    /\ hidx' = IF hidx < HostLast THEN hidx + 1 ELSE 1
    /\ UNCHANGED <<cnt, hG0, hdr, file, hsk, hpk, rsp>>

HostSendB ==
    /\ HostReadByte("sendB")
    /\ SendMatrix(FoundTriple(hidx)[2], <<Ack>>,
                  IF hidx < HostLast THEN "sendB" ELSE "skReady")
    /\ hidx' = IF hidx < HostLast THEN hidx + 1 ELSE 1
    /\ UNCHANGED <<cnt, hG0, hdr, file, hsk, hpk, rsp>>

\* Mutant: no read(1) before the line of sk.
HostSkReady_NoRead ==
    /\ hpc = "skReady"
    /\ hpc' = "sk"
    /\ UNCHANGED <<hidx, cnt, hG0, hdr, file, hsk, hpk, rsp, line>>

HostSkReady ==
    /\ HostReadByte("skReady")
    /\ hpc' = "sk"
    /\ UNCHANGED <<hidx, cnt, hG0, hdr, file, hsk, hpk, rsp, toDev>>

HostSk ==
    /\ HostReadLine("sk")
    /\ hsk' = LineRead(toHost).data
    /\ SendDev(<<Ack>>)
    /\ hpc' = "sendG"
    /\ UNCHANGED <<hidx, cnt, hG0, hdr, file, hpk, rsp>>

HostSendG ==
    /\ HostReadByte("sendG")
    /\ SendMatrix(FoundTriple(hidx)[3], <<>>, "pk")
    /\ UNCHANGED <<hidx, cnt, hG0, hdr, file, hsk, hpk, rsp>>

HostPk ==
    /\ HostReadLine("pk")
    /\ hpk' = hpk \o LineRead(toHost).data
    /\ SendDev(<<Ack>>)
    /\ IF hidx < HostLast
       THEN hidx' = hidx + 1 /\ hpc' = "sendG"
       ELSE hidx' = 1 /\ hpc' = "done"
    /\ UNCHANGED <<cnt, hG0, hdr, file, hsk, rsp>>

\* The "pk = DONE" line; the pk list is handed over and emptied.
HostDone ==
    /\ HostReadLine("done")
    /\ rsp' = Append(rsp, [sk |-> hsk, pk |-> hpk])
    /\ hpk' = <<>>
    /\ IF cnt + 1 < Counts
       THEN cnt' = cnt + 1 /\ hpc' = "start"
       ELSE hpc' = "finished" /\ UNCHANGED cnt
    /\ UNCHANGED <<hidx, hG0, hdr, file, hsk, toDev>>

HostStep ==
    \/ HostStart \/ HostG0Ready \/ HostG0 \/ HostTripleReady \/ HostTriple
    \/ HostSendA \/ HostSendB \/ HostSkReady \/ HostSk \/ HostSendG
    \/ HostPk \/ HostDone

\* STATE_STOP: the script spins.
HostStop == hpc = "finished" /\ UNCHANGED vars

Host == HostStep /\ UNCHANGED <<case, dev>>

-----------------------------------------------------------------------------
Init ==
    /\ \E c \in Cases : build = c.build /\ chain = c.chain
    /\ dpc = "cmd" /\ dkey = -1 /\ idx = 1 /\ att = 0
    /\ gdata = NoMat /\ ainv = NoMat /\ binv = NoMat /\ bs = <<>>
    /\ toDev = <<>> /\ toHost = <<>>
    /\ hpc = "start" /\ hidx = 1 /\ cnt = 0 /\ hG0 = NoMat
    /\ hdr = <<>> /\ file = <<>> /\ hsk = <<>> /\ hpk = <<>> /\ rsp = <<>>

Next == Device \/ Host \/ HostStop

Spec == Init /\ [][Next]_vars

\* Both programs are sequential loops that go on whenever their read returns.
FairSpec == Spec /\ WF_vars(Device) /\ WF_vars(Host)

-----------------------------------------------------------------------------
\* Where each side blocks, and in what.
DevRecvs == [cmd |-> "code", ackG0 |-> "ack", rdG0 |-> "burst",
             rdG0again |-> "burst", ackTriple |-> "ack", rdA |-> "burst",
             ackA |-> "ack", rdB |-> "burst", ackB |-> "ack", ackSk |-> "ack",
             rdG |-> "burst", ackG |-> "ack"]
ByteReads == {"g0Ready", "tripleReady", "sendA", "sendB", "skReady", "sendG"}
LineReads == {"g0", "triple", "sk", "pk", "done"}

DevBlocked  == dpc \in DOMAIN DevRecvs /\ ~CanRecv(toDev, DevRecvs[dpc])
HostBlocked == \/ hpc \in ByteReads /\ ~CanReadByte(toHost)
               \/ hpc \in LineReads /\ ~CanReadLine(toHost)
               \/ hpc = "crashed"

MatOrCorrupt == Mat \cup {Corrupt}
ItemOf(kinds) == [kind : kinds, data : Seq(MatOrCorrupt)]

ProgTypeOK ==
    /\ build \in Build
    /\ chain \in [Keys -> [Attempts -> Outcomes]]
    /\ dpc \in DOMAIN DevRecvs \cup {"try", "pi"}
    /\ dkey \in Keys \cup {-1}
    /\ idx \in Index /\ att \in 0..MaxAtt
    /\ {gdata, ainv, binv} \subseteq Mat
    /\ bs \in Seq(Mat)
    /\ hpc \in ByteReads \cup LineReads \cup {"start", "crashed", "finished"}
    /\ hidx \in Index /\ cnt \in Keys
    /\ hG0 \in MatOrCorrupt
    /\ hdr \in Seq([n : Keys, at : Nat])
    /\ file \in Seq(Seq(MatOrCorrupt))
    /\ {hsk, hpk} \subseteq Seq(MatOrCorrupt)
    /\ rsp \in Seq([sk : Seq(MatOrCorrupt), pk : Seq(MatOrCorrupt)])

LineTypeOK ==
    /\ toDev \in Seq(ItemOf({"burst", "ack", "code"}))
    /\ toHost \in Seq(ItemOf({"ready", "line"}))

\* Type correctness of both programs and of the line between them.
TypeOK == ProgTypeOK /\ LineTypeOK

\* hal_getchar() polls a USART with one receive register and no flow control.
\* Bytes the device is not reading are lost but one, so the host may send
\* more than the single '1' only while the device sits in a read loop.
NoOverrun ==
    dpc \notin {"cmd", "rdG0", "rdG0again", "rdA", "rdB", "rdG"}
        => toDev \in {<<>>, <<Ack>>}

\* Device and host never both block in a read the other will not serve.
NoMutualWait == ~(DevBlocked /\ HostBlocked)

\* Neither side ever finds at the front of its queue anything but the item
\* its next read was written for: no matrix is read from the middle, no '1'
\* is taken for a digit, no 0x00 byte ends up in a line.
Aligned ==
    /\ dpc \in DOMAIN DevRecvs /\ toDev # <<>> => Head(toDev).kind = DevRecvs[dpc]
    /\ hpc \in ByteReads /\ toHost # <<>> => Head(toHost).kind = "ready"
    /\ hpc \in LineReads /\ toHost # <<>> => Head(toHost).kind = "line"

\* The sigma chain steps on which the reference finds the matrices of key k.
RefAtt(k) == [i \in Index |->
    CHOOSE a \in Attempts :
        /\ chain[k][a] = "ok"
        /\ Cardinality({b \in 1..a : chain[k][b] = "ok"}) = i]

RefKey(k) ==
    LET mats(of) == [i \in Index |-> Ref(of, k, RefAtt(k)[i])]
    IN  [sk |-> <<SeedsOf(k)>> \o mats("Ainv") \o mats("Binv"),
         pk |-> <<SeedsOf(k)>> \o mats("G")]

\* KAT_check.sage: every pk and sk of the .rsp file is the one the reference
\* key generation makes from the same seed, although the matrices were pulled
\* apart, kept on the host and pushed back one by one.
KatKeyIsReference == \A p \in 1..Len(rsp) : rsp[p] = RefKey(p - 1)

\* No line the device sends makes bytes.fromhex() raise on the host.
HostNeverCrashes == hpc # "crashed"

\* Seen from the .rsp file alone, device, line and host together are a
\* service that answers every test vector in turn with its reference key.
KS == INSTANCE KatService WITH answer <- [k \in Keys |-> RefKey(k)]
ImplementsKatService == KS!Spec

-----------------------------------------------------------------------------
\* The inductive invariant.  The two programs take turns: for every label of
\* the device, the labels the host can be at, what is on the line between
\* them, and how far apart their loop variables are.

Level       == hidx = idx
HostNext    == idx < S - 1 /\ hidx = idx + 1
HostWrapped == idx = S - 1 /\ hidx = 1

At(h, qDev, qHost) == hpc = h /\ qDev /\ qHost

\* Between two calls.
LockCmd ==
    /\ dpc = "cmd"
    /\ \/ dkey = cnt - 1 /\ At("start", IsEmpty(toDev), IsEmpty(toHost))
       \/ /\ dkey = cnt - 1 /\ hidx = 1
          /\ At(IF BIG THEN "g0Ready" ELSE "tripleReady", toDev = <<Code>>, IsEmpty(toHost))
       \/ dkey = cnt /\ At("done", IsEmpty(toDev), toHost = <<Line(<<>>)>>)
       \/ dkey = cnt /\ At("finished", IsEmpty(toDev), IsEmpty(toHost))

\* G0 goes to the host.
LockG0 ==
    /\ BIG /\ dpc = "ackG0" /\ idx = 1 /\ hidx = 1
    /\ \/ At("g0Ready", IsEmpty(toDev), IsReadyLine(toHost, Mat, 1))
       \/ At("g0", IsEmpty(toDev), IsLine(toHost, Mat, 1))
       \/ At("tripleReady", IsAck(toDev), IsEmpty(toHost))

\* The matrices of index idx are computed.
LockAttempt ==
    /\ Level
    /\ dpc = "try" \/ att > 0
    /\ \/ dpc = "try" /\ At("tripleReady", IsEmpty(toDev), IsEmpty(toHost))
       \/ BIG /\ dpc = "rdG0" /\ At("tripleReady", IsEmpty(toDev), IsReady(toHost))
       \/ BIG /\ dpc = "rdG0" /\ At("triple", IsBurst(toDev, Mat, 1), IsEmpty(toHost))
       \/ ~BIG /\ dpc = "pi" /\ At("tripleReady", IsEmpty(toDev), IsReady(toHost))
       \/ dpc = "pi" /\ At("triple", IsEmpty(toDev), IsEmpty(toHost))

\* They go to the host, and with BIG G0 comes back.
LockTriple ==
    \/ /\ dpc = IF BIG THEN "rdG0again" ELSE "ackTriple"
       /\ Level
       /\ \/ ~BIG /\ At("tripleReady", IsEmpty(toDev), IsReadyLine(toHost, Mat, 3))
          \/ At("triple", IsEmpty(toDev), IsLine(toHost, Mat, 3))
    \/ /\ \/ BIG /\ dpc = "rdG0again" /\ IsBurstAck(toDev, Mat, 1)
          \/ dpc = "ackTriple" /\ IsAck(toDev)
       /\ \/ HostNext /\ At("tripleReady", TRUE, IsEmpty(toHost))
          \/ HostWrapped /\ At("sendA", TRUE, IsEmpty(toHost))

\* The matrices of one kind come back, one for each index: the device reads
\* them at rd and the '1' at ack, the host serves them at label here and
\* leaves for label next after the last.
LockSend(rd, ack, here, next) ==
    \/ dpc = rd /\ Level /\ At(here, IsEmpty(toDev), IsReady(toHost))
    \/ /\ \/ dpc = rd /\ IsBurstAck(toDev, Mat, 1)
          \/ dpc = ack /\ IsAck(toDev)
       /\ \/ HostNext /\ At(here, TRUE, IsEmpty(toHost))
          \/ HostWrapped /\ At(next, TRUE, IsEmpty(toHost))

LockSk ==
    /\ dpc = "ackSk" /\ idx = 1 /\ hidx = 1
    /\ \/ At("skReady", IsEmpty(toDev), IsReadyLine(toHost, Mat, 0))
       \/ At("sk", IsEmpty(toDev), IsLine(toHost, Mat, 0))
       \/ At("sendG", IsAck(toDev), IsEmpty(toHost))

LockPk ==
    \/ dpc = "rdG" /\ Level /\ At("sendG", IsEmpty(toDev), IsReady(toHost))
    \/ dpc = "rdG" /\ Level /\ At("pk", IsBurst(toDev, Mat, 1), IsEmpty(toHost))
    \/ dpc = "ackG" /\ Level /\ At("pk", IsEmpty(toDev), IsLine(toHost, Mat, 0))
    \/ dpc = "ackG" /\ HostNext /\ At("sendG", IsAck(toDev), IsEmpty(toHost))
    \/ dpc = "ackG" /\ HostWrapped /\ At("done", IsAck(toDev), IsEmpty(toHost))

Lockstep ==
    \/ LockCmd
    \/ /\ dkey = cnt
       /\ \/ LockG0
          \/ LockAttempt
          \/ LockTriple
          \/ LockSend("rdA", "ackA", "sendA", "sendB")
          \/ LockSend("rdB", "ackB", "sendB", "skReady")
          \/ LockSk
          \/ LockPk

\* The keygen file: count lines 0 .. cnt, and below the last one as many
\* intact triples as the host has taken for it.
FileInv ==
    /\ file \in Seq(Texts(Mat, 3))
    /\ hG0 \in Mat
    /\ \A p \in 1..Len(hdr) : hdr[p].n = p - 1
    /\ Len(hdr) = IF hpc = "start" THEN cnt ELSE cnt + 1
    /\ hpc \in {"g0Ready", "g0", "tripleReady", "triple"}
          => Len(file) = hdr[cnt + 1].at + hidx - 1
    /\ hpc \in {"sendA", "sendB", "skReady", "sk", "sendG", "pk"}
          => Len(file) = hdr[cnt + 1].at + S - 1

TurnsInv == ProgTypeOK /\ Lockstep /\ FileInv

\* And what passes between them.  With BIG an attempt computes with G0 only if
\* it is the first one or follows one of which the matrices were sent.
GoodAt(k, a) == BIG => a = 1 \/ chain[k][a - 1] = "ok"

\* The matrices the device makes for index i of key k.
Made(of, k, i)   == [of |-> of, key |-> k, att |-> RefAtt(k)[i],
                     good |-> GoodAt(k, RefAtt(k)[i])]
MadeTriple(k, i) == <<Made("Ainv", k, i), Made("Binv", k, i), Made("G", k, i)>>

\* The first n matrices of the bit stream of sk, and the first n items of pk.
SkUpTo(k, n) == [p \in 1..n |-> IF p < S THEN Made("Ainv", k, p) ELSE Made("Binv", k, p - S + 1)]
PkUpTo(k, n) == [p \in 1..n |-> IF p = 1 THEN SeedsOf(k) ELSE Made("G", k, p - 1)]
MadeSk(k)    == <<SeedsOf(k)>> \o SkUpTo(k, 2 * (S - 1))
MadeKey(k)   == [sk |-> MadeSk(k), pk |-> PkUpTo(k, S)]

\* Steps among the first a of the chain of key k that succeed.
Oks(k, a) == Cardinality({b \in 1..a : chain[k][b] = "ok"})

\* The device stands at the step of the chain that belongs to its index, and
\* its buffers hold what they should.
DevData ==
    /\ dpc \in {"ackG0", "try"} =>
           /\ Oks(cnt, att) = idx - 1
           /\ BIG => (gdata = G0Of(cnt) <=> att = 0 \/ chain[cnt][att] = "ok")
    /\ dpc \in {"rdG0", "pi", "rdG0again", "ackTriple"} =>
           att \in Attempts /\ chain[cnt][att] = "ok" /\ Oks(cnt, att) = idx
    /\ dpc \in {"rdG0", "pi"} =>
           ainv = Made("Ainv", cnt, idx) /\ binv = Made("Binv", cnt, idx)
    /\ BIG /\ dpc \in {"pi", "ackTriple"} => gdata = G0Of(cnt)
    /\ dpc = "rdA"  => bs = SkUpTo(cnt, idx - 1)
    /\ dpc = "ackA" => bs = SkUpTo(cnt, idx)
    /\ dpc = "rdB"  => bs = SkUpTo(cnt, S - 1 + idx - 1)
    /\ dpc = "ackB" => bs = SkUpTo(cnt, S - 1 + idx)

\* What a burst on its way to the device and a line on its way to the host say.
Pushed(ms)  == toDev # <<>> => Head(toDev).data = ms
Printed(ms) == toHost # <<>> => toHost[Len(toHost)].data = ms

LineData ==
    /\ dpc \in {"rdG0", "rdG0again"} => Pushed(<<G0Of(cnt)>>)
    /\ dpc = "rdA" => Pushed(<<Made("Ainv", cnt, idx)>>)
    /\ dpc = "rdB" => Pushed(<<Made("Binv", cnt, idx)>>)
    /\ dpc = "rdG" => Pushed(<<Made("G", cnt, idx)>>)
    /\ dpc = "ackG0" => Printed(<<G0Of(cnt)>>)
    /\ dpc \in {"rdG0again", "ackTriple"} => Printed(MadeTriple(cnt, idx))
    /\ dpc = "ackSk" => Printed(MadeSk(cnt))
    /\ dpc = "ackG" =>
           Printed((IF idx = 1 THEN <<SeedsOf(cnt)>> ELSE <<>>) \o <<Made("G", cnt, idx)>>)

\* The keygen file has the first n triples of the last count line.
Taken(n) == \A j \in 1..n : file[hdr[cnt + 1].at + j] = MadeTriple(cnt, j)

\* What the host holds of the key, and the keys it has written.
HostData ==
    /\ BIG /\ hpc \in {"tripleReady", "triple"} => hG0 = G0Of(cnt)
    /\ hpc \in {"tripleReady", "triple"} => Taken(hidx - 1)
    /\ hpc \in {"sendA", "sendB", "skReady", "sk", "sendG", "pk"} => Taken(S - 1)
    /\ hpc \in {"sendG", "pk", "done"} => hsk = MadeSk(cnt)
    /\ hpc \in {"sendG", "pk"} => hpk = PkUpTo(cnt, IF hidx = 1 THEN 0 ELSE hidx)
    /\ hpc = "done" => hpk = PkUpTo(cnt, S)
    /\ hpc \notin {"sendG", "pk", "done"} => hpk = <<>>
    /\ rsp = [p \in 1..(IF hpc = "finished" THEN Counts ELSE cnt) |-> MadeKey(p - 1)]

DataInv == DevData /\ LineData /\ HostData

KeygenInv == TurnsInv /\ DataInv
=============================================================================
