----------------------------- MODULE StreamSign -----------------------------
(***************************************************************************)
(* Streamed signing: crypto_sign on the device (ref/meds_stream.c) against *)
(* do_get_data_from_sig on the host (sage-ref/KAT_test_Stream.py).         *)
(*                                                                         *)
(* The device has room for the matrices of one round.  In the commitment   *)
(* loop it pushes A_tilde and B_tilde of every round to the host, hashes   *)
(* the commitment and forgets all three; once the hash gives the challenge *)
(* it pulls the pairs back in the same order and answers each with the     *)
(* response of its round.  The seeds of the rounds are the leaves of the   *)
(* seed tree, which the commitment loop advances in place and a second     *)
(* t_hash restores before the path is taken from the tree.                 *)
(*                                                                         *)
(* Actions, line and symbolic matrices are as in StreamKeygen: `i' is the  *)
(* round of a matrix, `att' the attempt of its round, `h' the index of the *)
(* secret matrix in a response.                                            *)
(***************************************************************************)
EXTENDS Integers, SerialLink

CONSTANTS
    T,          \* MEDS_t: rounds
    S,          \* MEDS_s: indices into A_inv and B_inv are 0 .. S - 1
    Counts,     \* test vectors of the request file
    MaxTry,     \* bound: attempts a round may take
    Cases       \* the builds, request files and digests considered, see Case

ASSUME SignAssumption ==
    /\ T \in Nat \ {0}
    /\ S \in Nat \ {0}
    /\ Counts \in Nat \ {0}
    /\ MaxTry \in Nat \ {0}

Rounds == 0..(T - 1)
Keys   == 0..(Counts - 1)

\* A build; tries[k][i], the attempt on which round i of signature k has a
\* systematic form; ch[k], what parse_hash makes of its digest.
Build == {"small", "big"}
Case  == [build : Build,
          tries : [Keys -> [Rounds -> 1..MaxTry]],
          ch    : [Keys -> [Rounds -> 0..(S - 1)]]]

ASSUME CasesAssumption == Cases \subseteq Case

\* The matrices, symbolic, as they go over the line.
Mat == [of : {"G0", "sk", "At", "Bt"}, key : Keys, i : Rounds, att : 0..MaxTry, h : {0}]

ASSUME CorruptAssumption == Corrupt \notin Mat

\* The matrix the reference has under this name, and the secret key.
Ref(of, k, i, a, h) == [of |-> of, key |-> k, i |-> i, att |-> a, h |-> h]
G0Of(k)             == Ref("G0", k, 0, 0, 0)
SkOf(k)             == Ref("sk", k, 0, 0, 0)

\* A commitment as the hash takes it in; `good' if computed from G0.
Commit(k, i, a, good) == [key |-> k, i |-> i, att |-> a, good |-> good]

\* path[i]: for an unchallenged round how far its seed has been advanced, -1
\* for a challenged one; with it the digest, the salt and the message.
TailOf(k, leaves, ch, hash) ==
    [key  |-> k,
     path |-> [i \in Rounds |-> IF ch[i] = 0 THEN leaves[i] ELSE -1],
     hash |-> hash]

Zero == <<>>  \* the line "00" of a round with nothing to respond: no matrix

VARIABLES
    build, tries, ch, \* the case
    \* the device
    dpc, dkey,
    dsk,        \* the buffer sk
    idx,        \* the loop variable i
    g,          \* the buffer G_tilde_ti
    atl, btl,   \* A_tilde_data, B_tilde_data
    leaf,       \* leaf[i]: how often sigma[i] was advanced since t_hash
    hash,       \* commitments absorbed
    \* the line
    toDev, toHost,
    \* the host
    hpc, hidx, cnt, hG0,
    hdr,        \* count lines of the Sig file: number, pairs before it
    file,       \* A_tilde_data, B_tilde_data lines of the Sig file
    hsm,        \* sm_data
    rsp         \* the sm lines of the .rsp file

line == <<toDev, toHost>>
dev  == <<dpc, dkey, dsk, idx, g, atl, btl, leaf, hash>>
host == <<hpc, hidx, cnt, hG0, hdr, file, hsm, rsp>>
case == <<build, tries, ch>>
vars == <<case, dev, line, host>>

\* MEDS167717 or MEDS134180: no room for G0 beside G_tilde_ti.
BIG == build = "big"

-----------------------------------------------------------------------------
\* The device

DevLast == T - 1   \* for (int i = 0; i < MEDS_t; i++)

SendHost(items) == toHost' = toHost \o items

DevRecv(from, kind) ==
    /\ dpc = from
    /\ CanRecv(toDev, kind)
    /\ toDev' = Tail(toDev)

\* stree and its leaves as t_hash(stree, alpha, 0, 0) leaves them.
FreshLeaves == [i \in Rounds |-> 0]

\* The SML command: delta is drawn, sk is asked for.
DevStart ==
    /\ DevRecv("cmd", "code")
    /\ dkey' = dkey + 1
    /\ SendHost(<<Ready>>)
    /\ dpc' = "rdSk"
    /\ UNCHANGED <<dsk, idx, g, atl, btl, leaf, hash>>

DevReadSk ==
    /\ DevRecv("rdSk", "burst")
    /\ dsk' = Head(toDev).data[1]
    /\ dpc' = "ackSk"
    /\ UNCHANGED <<dkey, idx, g, atl, btl, leaf, hash, toHost>>

\* G0 from the seed in sk, the tree from delta; with BIG G0 goes to the host.
DevAckSk ==
    /\ DevRecv("ackSk", "ack")
    /\ g' = G0Of(dsk.key)
    /\ leaf' = FreshLeaves
    /\ hash' = <<>>
    /\ idx' = 0
    /\ IF BIG
       THEN dpc' = "ackG0" /\ SendHost(<<Ready, Line(<<g'>>)>>)
       ELSE dpc' = "commit" /\ UNCHANGED toHost
    /\ UNCHANGED <<dkey, dsk, atl, btl>>

DevAckG0 ==
    /\ DevRecv("ackG0", "ack")
    /\ dpc' = "commit"
    /\ UNCHANGED <<dkey, dsk, idx, g, atl, btl, leaf, hash, toHost>>

\* One turn of while (1 == 1) and, when the form is systematic, the rest of
\* the round: absorb the commitment, send the pair.  With BIG pi works in
\* place, on whatever G_tilde_ti holds; otherwise always on G0_tilde.
DevCommit ==
    /\ dpc = "commit"
    /\ leaf' = [leaf EXCEPT ![idx] = @ + 1]
    /\ atl' = Ref("At", dkey, idx, leaf'[idx], 0)
    /\ btl' = Ref("Bt", dkey, idx, leaf'[idx], 0)
    /\ g' = Ref("Gt", dkey, idx, leaf'[idx], 0)
    /\ IF leaf'[idx] < tries[dkey][idx]
       THEN UNCHANGED <<dpc, hash, toHost>>
       ELSE /\ hash' = Append(hash, Commit(dkey, idx, leaf'[idx], BIG => g = G0Of(dkey)))
            /\ SendHost(<<Ready, Line(<<atl', btl'>>)>>)
            /\ dpc' = IF BIG THEN "rdG0" ELSE "ackPair"
    /\ UNCHANGED <<dkey, dsk, idx, toDev>>

DevReadG0 ==
    /\ DevRecv("rdG0", "burst")
    /\ g' = Head(toDev).data[1]
    /\ dpc' = "ackPair"
    /\ UNCHANGED <<dkey, dsk, idx, atl, btl, leaf, hash, toHost>>

\* hal_getchar() at the end of the round; after the last one the challenge,
\* and the first pair is asked for.
DevAckPair ==
    /\ DevRecv("ackPair", "ack")
    /\ IF idx < DevLast
       THEN idx' = idx + 1 /\ dpc' = "commit" /\ UNCHANGED toHost
       ELSE idx' = 0 /\ dpc' = "rdPair" /\ SendHost(<<Ready>>)
    /\ UNCHANGED <<dkey, dsk, g, atl, btl, leaf, hash>>

\* A_tilde * A_inv[h] and B_inv[h] * B_tilde, from the matrices read back and
\* the secret ones of sk.
Response(a, b, h) ==
    IF h > 0
    THEN <<[a EXCEPT !.of = "mu", !.h = h], [b EXCEPT !.of = "nu", !.h = h]>>
    ELSE Zero

DevReadPair ==
    /\ DevRecv("rdPair", "burst")
    /\ atl' = Head(toDev).data[1]
    /\ btl' = Head(toDev).data[2]
    /\ SendHost(<<Line(Response(atl', btl', ch[dkey][idx]))>>)
    /\ dpc' = "ackResp"
    /\ UNCHANGED <<dkey, dsk, idx, g, leaf, hash>>

\* Mutant: the tree is not hashed again before stree_to_path.
DevAckResp_StaleTree ==
    /\ DevRecv("ackResp", "ack")
    /\ IF idx < DevLast
       THEN idx' = idx + 1 /\ dpc' = "rdPair" /\ SendHost(<<Ready>>)
       ELSE /\ SendHost(<<Ready, Line(<<TailOf(dkey, leaf, ch[dkey], hash)>>)>>)
            /\ dpc' = "ackTail"
            /\ UNCHANGED idx
    /\ UNCHANGED <<dkey, dsk, g, atl, btl, leaf, hash>>

\* After the last response t_hash, the path, digest, salt and message.
DevAckResp ==
    /\ DevRecv("ackResp", "ack")
    /\ IF idx < DevLast
       THEN /\ idx' = idx + 1
            /\ dpc' = "rdPair"
            /\ SendHost(<<Ready>>)
            /\ UNCHANGED leaf
       ELSE /\ leaf' = FreshLeaves
            /\ SendHost(<<Ready, Line(<<TailOf(dkey, leaf', ch[dkey], hash)>>)>>)
            /\ dpc' = "ackTail"
            /\ UNCHANGED idx
    /\ UNCHANGED <<dkey, dsk, g, atl, btl, hash>>

\* Back in main: the "smlen" line.
DevAckTail ==
    /\ DevRecv("ackTail", "ack")
    /\ SendHost(<<Line(<<>>)>>)
    /\ dpc' = "cmd"
    /\ UNCHANGED <<dkey, dsk, idx, g, atl, btl, leaf, hash>>

DevStep ==
    \/ DevStart \/ DevReadSk \/ DevAckSk \/ DevAckG0 \/ DevCommit \/ DevReadG0
    \/ DevAckPair \/ DevReadPair \/ DevAckResp \/ DevAckTail

Device == DevStep /\ UNCHANGED <<case, host>>

-----------------------------------------------------------------------------
\* The host

HostLast_OffByOne == T      \* Mutant: range(0, MEDS_t + 1).
HostLast == T - 1           \* range(0, MEDS_t), and the end of the file

SendDev(items) == toDev' = toDev \o items

\* Mutant: the serial port is opened with a timeout, read(1) may come back empty.
HostReadByte_Timeout(from) ==
    /\ hpc = from
    /\ toHost' = IF CanReadByte(toHost) THEN AfterReadByte(toHost) ELSE toHost

HostReadByte(from) ==
    /\ hpc = from
    /\ CanReadByte(toHost)
    /\ toHost' = AfterReadByte(toHost)

HostReadLine(from) ==
    /\ hpc = from
    /\ CanReadLine(toHost)
    /\ toHost' = AfterReadLine(toHost)

\* startswith(f"count = {c}") on the line "count = n", n < 100.
StartsWith(n, c) == n = c \/ (c # 0 /\ n \div 10 = c)

\* The sk line below the first count line of the .rsp file that starts with
\* cnt; the file has those of 0 .. cnt.
FoundSk ==
    SkOf(CHOOSE n \in 0..cnt : /\ StartsWith(n, cnt)
                               /\ \A r \in 0..(n - 1) : ~StartsWith(r, cnt))

\* Pair j below the first count line of the Sig file that starts with cnt.
FoundPair(j) ==
    LET first == CHOOSE p \in 1..Len(hdr) :
                     /\ StartsWith(hdr[p].n, cnt)
                     /\ \A r \in 1..(p - 1) : ~StartsWith(hdr[r].n, cnt)
    IN  file[hdr[first].at + j + 1]

\* bytes.fromhex() and the write loop; a ValueError ends the script.
SendMatrices(ms, rest, next) ==
    IF \E p \in 1..Len(ms) : ms[p] = Corrupt
    THEN hpc' = "crashed" /\ UNCHANGED toDev
    ELSE hpc' = next /\ SendDev(<<Burst(ms)>> \o rest)

HostStart ==
    /\ hpc = "start"
    /\ hdr' = Append(hdr, [n |-> cnt, at |-> Len(file)])
    /\ SendDev(<<Code>>)
    /\ hpc' = "skReady"
    /\ hidx' = 0
    /\ UNCHANGED <<cnt, hG0, file, hsm, rsp, toHost>>

HostSkReady ==
    /\ HostReadByte("skReady")
    /\ SendMatrices(<<FoundSk>>, <<Ack>>, IF BIG THEN "g0Ready" ELSE "pairReady")
    /\ UNCHANGED <<hidx, cnt, hG0, hdr, file, hsm, rsp>>

HostG0Ready ==
    /\ HostReadByte("g0Ready")
    /\ hpc' = "g0"
    /\ UNCHANGED <<hidx, cnt, hG0, hdr, file, hsm, rsp, toDev>>

HostG0 ==
    /\ HostReadLine("g0")
    /\ hG0' = LineRead(toHost).data[1]
    /\ SendDev(<<Ack>>)
    /\ hpc' = "pairReady"
    /\ UNCHANGED <<hidx, cnt, hdr, file, hsm, rsp>>

HostPairReady ==
    /\ HostReadByte("pairReady")
    /\ hpc' = "pair"
    /\ UNCHANGED <<hidx, cnt, hG0, hdr, file, hsm, rsp, toDev>>

\* With BIG G0 goes back before the '1'.
HostPair ==
    /\ HostReadLine("pair")
    /\ file' = Append(file, LineRead(toHost).data)
    /\ LET next == IF hidx < HostLast THEN "pairReady" ELSE "respReady"
       IN  IF BIG THEN SendMatrices(<<hG0>>, <<Ack>>, next)
                  ELSE hpc' = next /\ SendDev(<<Ack>>)
    /\ hidx' = IF hidx < HostLast THEN hidx + 1 ELSE 0
    /\ UNCHANGED <<cnt, hG0, hdr, hsm, rsp>>

HostRespReady ==
    /\ HostReadByte("respReady")
    /\ SendMatrices(FoundPair(hidx), <<>>, "resp")
    /\ UNCHANGED <<hidx, cnt, hG0, hdr, file, hsm, rsp>>

\* Mutant: the '1' after a response is forgotten.
HostResp_NoAck ==
    /\ HostReadLine("resp")
    /\ hsm' = Append(hsm, LineRead(toHost).data)
    /\ hpc' = IF hidx < HostLast THEN "respReady" ELSE "tailReady"
    /\ hidx' = IF hidx < HostLast THEN hidx + 1 ELSE 0
    /\ UNCHANGED <<cnt, hG0, hdr, file, rsp, toDev>>

HostResp ==
    /\ HostReadLine("resp")
    /\ hsm' = Append(hsm, LineRead(toHost).data)
    /\ SendDev(<<Ack>>)
    /\ hpc' = IF hidx < HostLast THEN "respReady" ELSE "tailReady"
    /\ hidx' = IF hidx < HostLast THEN hidx + 1 ELSE 0
    /\ UNCHANGED <<cnt, hG0, hdr, file, rsp>>

\* Mutant: no read(1) before the line of path, digest and message.
HostTailReady_NoRead ==
    /\ hpc = "tailReady"
    /\ hpc' = "tail"
    /\ UNCHANGED <<hidx, cnt, hG0, hdr, file, hsm, rsp, line>>

HostTailReady ==
    /\ HostReadByte("tailReady")
    /\ hpc' = "tail"
    /\ UNCHANGED <<hidx, cnt, hG0, hdr, file, hsm, rsp, toDev>>

HostTail ==
    /\ HostReadLine("tail")
    /\ hsm' = Append(hsm, LineRead(toHost).data)
    /\ SendDev(<<Ack>>)
    /\ hpc' = "done"
    /\ UNCHANGED <<hidx, cnt, hG0, hdr, file, rsp>>

\* The lines of sm_data that are longer than "00".
Written(lines) ==
    LET upTo[n \in 0..Len(lines)] ==
            IF n = 0 THEN <<>>
            ELSE IF lines[n] # Zero THEN Append(upTo[n - 1], lines[n])
            ELSE upTo[n - 1]
    IN  upTo[Len(lines)]

\* The "smlen" line; sm_data is handed over, emptied and written.
HostDone ==
    /\ HostReadLine("done")
    /\ rsp' = Append(rsp, Written(hsm))
    /\ hsm' = <<>>
    /\ IF cnt + 1 < Counts
       THEN cnt' = cnt + 1 /\ hpc' = "start"
       ELSE hpc' = "finished" /\ UNCHANGED cnt
    /\ UNCHANGED <<hidx, hG0, hdr, file, toDev>>

HostStep ==
    \/ HostStart \/ HostSkReady \/ HostG0Ready \/ HostG0 \/ HostPairReady
    \/ HostPair \/ HostRespReady \/ HostResp \/ HostTailReady \/ HostTail
    \/ HostDone

Host == HostStep /\ UNCHANGED <<case, dev>>

\* STATE_STOP: the script spins.
HostStop == hpc = "finished" /\ UNCHANGED vars

-----------------------------------------------------------------------------
NoMat == Ref("none", 0, 0, 0, 0)

Init ==
    /\ \E c \in Cases : build = c.build /\ tries = c.tries /\ ch = c.ch
    /\ dpc = "cmd" /\ dkey = -1 /\ dsk = NoMat /\ idx = 0
    /\ g = NoMat /\ atl = NoMat /\ btl = NoMat
    /\ leaf = FreshLeaves /\ hash = <<>>
    /\ toDev = <<>> /\ toHost = <<>>
    /\ hpc = "start" /\ hidx = 0 /\ cnt = 0 /\ hG0 = NoMat
    /\ hdr = <<>> /\ file = <<>> /\ hsm = <<>> /\ rsp = <<>>

Next == Device \/ Host \/ HostStop

Spec == Init /\ [][Next]_vars

\* Both programs are sequential loops that go on whenever their read returns.
FairSpec == Spec /\ WF_vars(Device) /\ WF_vars(Host)

-----------------------------------------------------------------------------
DevRecvs == [cmd |-> "code", rdSk |-> "burst", ackSk |-> "ack", ackG0 |-> "ack",
             rdG0 |-> "burst", ackPair |-> "ack", rdPair |-> "burst",
             ackResp |-> "ack", ackTail |-> "ack"]
ByteReads == {"skReady", "g0Ready", "pairReady", "respReady", "tailReady"}
LineReads == {"g0", "pair", "resp", "tail", "done"}

DevBlocked  == dpc \in DOMAIN DevRecvs /\ ~CanRecv(toDev, DevRecvs[dpc])
HostBlocked == \/ hpc \in ByteReads /\ ~CanReadByte(toHost)
               \/ hpc \in LineReads /\ ~CanReadLine(toHost)
               \/ hpc = "crashed"

\* Type correctness of the labels and loop variables of both programs.
TypeOK ==
    /\ [build |-> build, tries |-> tries, ch |-> ch] \in Cases
    /\ dpc \in DOMAIN DevRecvs \cup {"commit"}
    /\ dkey \in Keys \cup {-1}
    /\ idx \in Rounds
    /\ leaf \in [Rounds -> 0..MaxTry]
    /\ hpc \in ByteReads \cup LineReads \cup {"start", "crashed", "finished"}
    /\ hidx \in Rounds
    /\ cnt \in Keys
    /\ hdr \in Seq([n : Keys, at : Nat])

\* hal_getchar() polls a USART with one receive register and no flow control:
\* while the device is not in a read loop the host may have sent one '1'.
NoOverrun ==
    dpc \notin {"cmd", "rdSk", "rdG0", "rdPair"} => toDev \in {<<>>, <<Ack>>}

\* Device and host never both block in a read the other will not serve.
NoMutualWait == ~(DevBlocked /\ HostBlocked)

\* Every read finds at the front of its queue the item it was written for.
Aligned ==
    /\ dpc \in DOMAIN DevRecvs /\ toDev # <<>> => Head(toDev).kind = DevRecvs[dpc]
    /\ hpc \in ByteReads /\ toHost # <<>> => Head(toHost).kind = "ready"
    /\ hpc \in LineReads /\ toHost # <<>> => Head(toHost).kind = "line"

\* What the reference signs from the same seeds: the responses of the
\* challenged rounds in order, then the path of the others.
AtOf(k, i)   == Ref("At", k, i, tries[k][i], 0)
BtOf(k, i)   == Ref("Bt", k, i, tries[k][i], 0)
RespOf(k, i) == Response(AtOf(k, i), BtOf(k, i), ch[k][i])
HashOf(k, n) == [j \in 1..n |-> Commit(k, j - 1, tries[k][j - 1], TRUE)]
EndOf(k)     == <<TailOf(k, FreshLeaves, ch[k], HashOf(k, T))>>

RefSm(k) ==
    LET upTo[n \in 0..T] ==
            IF n = 0 THEN <<>>
            ELSE IF ch[k][n - 1] > 0 THEN Append(upTo[n - 1], RespOf(k, n - 1))
            ELSE upTo[n - 1]
    IN  Append(upTo[T], EndOf(k))

\* KAT_check.sage: every sm of the .rsp file is the one the reference makes
\* with the same key and seeds, although the matrices of a round were handed
\* to the host before the challenge was known and pulled back after it.
KatSmIsReference == \A p \in 1..Len(rsp) : rsp[p] = RefSm(p - 1)

\* Seen from the .rsp file alone, device, line and host together are a
\* service that answers every test vector in turn with its signature.
KS == INSTANCE KatService WITH answer <- [k \in Keys |-> RefSm(k)]
ImplementsKatService == KS!Spec

-----------------------------------------------------------------------------
\* Why all this holds: the labels of the two programs, their loop variables,
\* what is on the line and what each side has stored fit together.

\* What the device makes of the rounds: as the reference, but with BIG a round
\* that needs a second attempt is committed to with the wrong matrix.
PairOf(k, i)   == <<AtOf(k, i), BtOf(k, i)>>
Made(k, i)     == Commit(k, i, tries[k][i], BIG => tries[k][i] = 1)
Absorbed(k, n) == [j \in 1..n |-> Made(k, j - 1)]
MadeEnd(k)     == <<TailOf(k, FreshLeaves, ch[k], Absorbed(k, T))>>
Resps(k, n)    == [j \in 1..n |-> RespOf(k, j - 1)]
MadeSm(k)      == Written(Append(Resps(k, T), MadeEnd(k)))

At(h, qDev, qHost) == hpc = h /\ toDev = qDev /\ toHost = qHost

\* The host has served round idx and is at `here' for the next one, or past
\* the last one at `next'.
HostOn(here, next) ==
    \/ idx < T - 1 /\ hidx = idx + 1 /\ hpc = here
    \/ idx = T - 1 /\ hidx = 0 /\ hpc = next

\* Between two calls.
LockCmd ==
    /\ dpc = "cmd"
    /\ \/ dkey = cnt - 1 /\ At("start", <<>>, <<>>)
       \/ dkey = cnt - 1 /\ hidx = 0 /\ At("skReady", <<Code>>, <<>>)
       \/ dkey = cnt /\ At("done", <<>>, <<Line(<<>>)>>)
       \/ dkey = cnt /\ At("finished", <<>>, <<>>)

\* sk goes to the device.
LockSk ==
    /\ hidx = 0
    /\ \/ dpc = "rdSk" /\ At("skReady", <<>>, <<Ready>>)
       \/ /\ \/ dpc = "rdSk" /\ toDev = <<Burst(<<SkOf(cnt)>>), Ack>>
             \/ dpc = "ackSk" /\ toDev = <<Ack>> /\ dsk = SkOf(cnt)
          /\ toHost = <<>>
          /\ hpc = IF BIG THEN "g0Ready" ELSE "pairReady"

\* G0 goes to the host.
LockG0 ==
    /\ BIG /\ dpc = "ackG0" /\ idx = 0 /\ hidx = 0 /\ g = G0Of(cnt)
    /\ \/ At("g0Ready", <<>>, <<Ready, Line(<<G0Of(cnt)>>)>>)
       \/ At("g0", <<>>, <<Line(<<G0Of(cnt)>>)>>)
       \/ At("pairReady", <<Ack>>, <<>>)

\* A round is computed, its pair goes to the host and with BIG G0 comes back.
LockCommit ==
    \/ dpc = "commit" /\ hidx = idx /\ At("pairReady", <<>>, <<>>)
    \/ /\ dpc = IF BIG THEN "rdG0" ELSE "ackPair"
       /\ hidx = idx
       /\ \/ At("pairReady", <<>>, <<Ready, Line(PairOf(cnt, idx))>>)
          \/ At("pair", <<>>, <<Line(PairOf(cnt, idx))>>)
    \/ /\ \/ BIG /\ dpc = "rdG0" /\ toDev = <<Burst(<<G0Of(cnt)>>), Ack>>
          \/ dpc = "ackPair" /\ toDev = <<Ack>> /\ (BIG => g = G0Of(cnt))
       /\ toHost = <<>>
       /\ HostOn("pairReady", "respReady")

\* The pairs come back and are answered.
LockRespond ==
    \/ dpc = "rdPair" /\ hidx = idx /\ At("respReady", <<>>, <<Ready>>)
    \/ dpc = "rdPair" /\ hidx = idx /\ At("resp", <<Burst(PairOf(cnt, idx))>>, <<>>)
    \/ dpc = "ackResp" /\ hidx = idx /\ At("resp", <<>>, <<Line(RespOf(cnt, idx))>>)
    \/ /\ dpc = "ackResp" /\ toDev = <<Ack>> /\ toHost = <<>>
       /\ HostOn("respReady", "tailReady")

LockTail ==
    /\ dpc = "ackTail"
    /\ \/ At("tailReady", <<>>, <<Ready, Line(MadeEnd(cnt))>>)
       \/ At("tail", <<>>, <<Line(MadeEnd(cnt))>>)
       \/ At("done", <<Ack>>, <<>>)

Lockstep ==
    \/ LockCmd
    \/ dkey = cnt /\ (LockSk \/ LockG0 \/ LockCommit \/ LockRespond \/ LockTail)

\* The device: seeds of rounds to come are fresh, every round before idx has
\* been absorbed, and with BIG the first attempt of a round finds G0.
DevInv ==
    /\ dpc \in {"ackG0", "commit", "rdG0", "ackPair"} =>
           \A i \in Rounds : i > idx => leaf[i] = 0
    /\ dpc = "ackG0" => leaf[idx] = 0
    /\ dpc = "commit" => /\ leaf[idx] < tries[dkey][idx]
                         /\ BIG => (g = G0Of(dkey) <=> leaf[idx] = 0)
    /\ dpc \in {"ackG0", "commit"} => hash = Absorbed(dkey, idx)
    /\ dpc \in {"rdG0", "ackPair"} => hash = Absorbed(dkey, idx + 1)
    /\ dpc \in {"rdPair", "ackResp"} => hash = Absorbed(dkey, T)

\* The Sig file below the last count line has the first n pairs of cnt.
Taken(n) ==
    /\ Len(file) = hdr[cnt + 1].at + n
    /\ \A j \in 0..(n - 1) : file[hdr[cnt + 1].at + j + 1] = PairOf(cnt, j)

FileInv ==
    /\ file \in Seq(Mat \X Mat)
    /\ Len(hdr) = IF hpc = "start" THEN cnt ELSE cnt + 1
    /\ \A p \in 1..Len(hdr) : hdr[p].n = p - 1
    /\ hpc \in {"skReady", "g0Ready", "g0", "pairReady", "pair"} => Taken(hidx)
    /\ hpc \in {"respReady", "resp"} => Taken(T)

\* What the host has of the signature, and the answers it has written.
HostInv ==
    /\ BIG /\ hpc \in {"pairReady", "pair"} => hG0 = G0Of(cnt)
    /\ hpc \in {"start", "skReady", "g0Ready", "g0", "pairReady", "pair"} => hsm = <<>>
    /\ hpc \in {"respReady", "resp"} => hsm = Resps(cnt, hidx)
    /\ hpc \in {"tailReady", "tail"} => hsm = Resps(cnt, T)
    /\ hpc = "done" => hsm = Append(Resps(cnt, T), MadeEnd(cnt))
    /\ rsp = [p \in 1..(IF hpc = "finished" THEN Counts ELSE cnt) |-> MadeSm(p - 1)]

SignInv == TypeOK /\ Lockstep /\ DevInv /\ FileInv /\ HostInv
=============================================================================
