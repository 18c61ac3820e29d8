----------------------------- MODULE KatDriver -----------------------------
(***************************************************************************)
(* The two main loops of the test programs, in both versions: 1.1,         *)
(* ref/KAT_test_Stream.c with sage-ref/KAT_test_Stream.py, and 1.0,        *)
(* ref/KAT_test_Serial_IO.c with sage-ref/KAT_test_Serial_IO.py.           *)
(*                                                                         *)
(* The device draws the test vectors and prints them as the request file;  *)
(* the host reads that file and drives the device through one command per  *)
(* line.  A command is four bytes, but the device acts on single bytes: it *)
(* throws the first one of all away and passes over zeros.  Version 1.1    *)
(* streams: key generation and signing (StreamKeygen, StreamSign) are one  *)
(* exchange each here, reduced to what they draw from the generator and    *)
(* what they are given.  Version 1.0 keeps the key and the signature in    *)
(* the device and prints each when its line is asked for; its host neither *)
(* wakes the device nor waits before it sends a message.                   *)
(***************************************************************************)
EXTENDS Integers, SerialLink

CONSTANTS
    Counts,   \* COUNTER_LENGTH: test vectors
    MsgStep,  \* 33: message k has MsgStep * (k + 1) bytes
    SeedLen,  \* DATA_LENGTH: bytes of a seed
    FreeSm,   \* what free() of the pointer sm, which nothing has set, may do
    Versions, \* "1.0", "1.1"
    Typed     \* may a character be on the line before version 1.0 starts?

ASSUME DriverAssumption ==
    /\ Counts \in Nat \ {0}
    /\ MsgStep \in Nat \ {0}
    /\ SeedLen \in Nat \ {0}
    /\ FreeSm \in (SUBSET {"returns", "faults"}) \ {{}}
    /\ Versions \in (SUBSET {"1.0", "1.1"}) \ {{}}
    /\ Typed \in (SUBSET BOOLEAN) \ {{}}

Keys == 0..(Counts - 1)

SeedCode == 18
MsgCode  == 19
PkCode   == 20
SkCode   == 21
SmlCode  == 22
SmCode   == 23
StopCode == 24
Codes    == SeedCode..StopCode

\* Mutant: a code is written with to_bytes(1, 'big').
CodeBytes_One(c) == <<[kind |-> "byte", data |-> c]>>

\* to_bytes(4, 'big').
Byte(b)      == [kind |-> "byte", data |-> b]
CodeBytes(c) == <<Byte(0), Byte(0), Byte(0), Byte(c)>>

\* Draw n of do_seedgen, len bytes of it; and contents that are none.
Draw(n, len) == [draw |-> n, len |-> len]
Entropy      == Draw(-1, SeedLen)  \* the bytes 0, 1, 2, ...
Unset        == Draw(-1, 0)        \* an uninitialised or cleared buffer
Finished     == Draw(-2, 0)        \* the word in place of a test vector

\* The test vector as printed into the request file, and what crypto_sign makes
\* of a secret key, a message and the draw it has as delta.
SeedOf(k) == Draw(2 * k, SeedLen)
MsgOf(k)  == Draw(2 * k + 1, MsgStep * (k + 1))
Signature(key, msg, delta) == [sk |-> key, msg |-> msg, delta |-> delta]

VARIABLES
    version,    \* of both programs
    \* the device
    dpc,
    drbg,       \* DRBG_ctx: what it was initialised with, how often drawn
    seed,       \* the buffer seed
    countPk,    \* count_pk
    m,          \* the message buffer
    sk,         \* the secret key buffer: read from the host, or kept by 1.0
    sm,         \* 1.0: the signature buffer; 1.1 never sets the pointer
    \* the line
    toDev, toHost,
    \* the host
    hpc,
    req,        \* the request file
    at,         \* the test vector the loop over its lines is in
    hkey,       \* sk and pk, of do_get_data_from_keygen or from their lines
    hsig,       \* sm, of do_get_data_from_sig or from its line
    rsp         \* the .rsp file, a record for each finished test vector

line == <<toDev, toHost>>
dev  == <<dpc, drbg, seed, countPk, m, sk, sm>>
host == <<hpc, req, at, hkey, hsig, rsp>>
vars == <<version, dev, line, host>>

Streams == version = "1.1"

-----------------------------------------------------------------------------
\* The device

SendHost(items) == toHost' = toHost \o items
NextDraw        == [drbg EXCEPT !.n = @ + 1]

\* hal_getchar() where one byte is expected, and the loops for len bytes.
DevRecv(from, kind) ==
    /\ dpc = from
    /\ CanRecv(toDev, kind)
    /\ toDev' = Tail(toDev)

DevRecvBytes(from, len) ==
    /\ DevRecv(from, "burst")
    /\ Head(toDev).data[1].len = len

DevBoot ==
    /\ DevRecv("boot", "ack")
    /\ dpc' = "seedgen"
    /\ UNCHANGED <<drbg, seed, countPk, m, sk, sm, toHost>>

\* init_entropy, the banner, do_seedgen and its "finished".
DevSeedgen ==
    /\ dpc = "seedgen"
    /\ drbg' = [seed |-> Entropy, n |-> 2 * Counts]
    /\ SendHost(<<Line(<<>>)>>
                \o [k \in 1..Counts |-> Line(<<SeedOf(k - 1), MsgOf(k - 1)>>)]
                \o <<Line(<<Finished>>)>>)
    /\ dpc' = "drain"
    /\ UNCHANGED <<seed, countPk, m, sk, sm, toDev>>

\* get_char = hal_getchar() in front of the loop.
DevDrain ==
    /\ DevRecv("drain", "byte")
    /\ dpc' = "loop"
    /\ UNCHANGED <<drbg, seed, countPk, m, sk, sm, toHost>>

\* The byte is shifted into val four times, so that val >> 24 is the byte.
Command(c) == DevRecv("loop", "byte") /\ Head(toDev).data = c

DevOther ==
    /\ DevRecv("loop", "byte")
    /\ Head(toDev).data \notin Codes
    /\ UNCHANGED <<dev, toHost>>

DevSeedCmd ==
    /\ Command(SeedCode)
    /\ dpc' = "seed"
    /\ UNCHANGED <<drbg, seed, countPk, m, sk, sm, toHost>>

DevSeed ==
    /\ DevRecvBytes("seed", SeedLen)
    /\ seed' = Head(toDev).data[1]
    /\ dpc' = "loop"
    /\ UNCHANGED <<drbg, countPk, m, sk, sm, toHost>>

DevMsgCmd ==
    /\ Command(MsgCode)
    /\ countPk' = countPk + 1
    /\ dpc' = "init"
    /\ UNCHANGED <<drbg, seed, m, sk, sm, toHost>>

\* Mutant: the generator is not initialised with the seed.
DevInit_NoInit ==
    /\ dpc = "init"
    /\ IF Streams THEN SendHost(<<Ready>>) ELSE UNCHANGED toHost
    /\ sm' = IF Streams THEN sm ELSE Unset
    /\ dpc' = "msg"
    /\ UNCHANGED <<drbg, seed, countPk, m, sk, toDev>>

\* randombytes_init and calloc: of m, in 1.0 of sm too; in 1.1 the 0x00 that
\* asks for the message.
DevInit ==
    /\ dpc = "init"
    /\ drbg' = [seed |-> seed, n |-> 0]
    /\ IF Streams THEN SendHost(<<Ready>>) ELSE UNCHANGED toHost
    /\ sm' = IF Streams THEN sm ELSE Unset
    /\ dpc' = "msg"
    /\ UNCHANGED <<seed, countPk, m, sk, toDev>>

\* mlen = 33 * (count_pk + 1), before the increment.
DevMsg ==
    /\ DevRecvBytes("msg", MsgStep * countPk)
    /\ m' = Head(toDev).data[1]
    /\ dpc' = "loop"
    /\ UNCHANGED <<drbg, seed, countPk, sk, sm, toHost>>

DevPkCmd ==
    /\ Command(PkCode)
    /\ dpc' = "keygen"
    /\ UNCHANGED <<drbg, seed, countPk, m, sk, sm, toHost>>

\* Key generation draws delta.  1.1: the host has the key before the line
\* "pk = DONE".  1.0: the line has pk, and sk stays in its buffer.
DevKeygen ==
    /\ dpc = "keygen"
    /\ IF Streams
       THEN SendHost(<<Line(<<drbg>>), Line(<<>>)>>) /\ UNCHANGED sk
       ELSE SendHost(<<Line(<<drbg>>)>>) /\ sk' = drbg
    /\ drbg' = NextDraw
    /\ dpc' = "loop"
    /\ UNCHANGED <<seed, countPk, m, sm, toDev>>

\* "sk = DONE", or the buffer.
DevSkCmd ==
    /\ Command(SkCode)
    /\ SendHost(<<Line(IF Streams THEN <<>> ELSE <<sk>>)>>)
    /\ UNCHANGED dev

\* crypto_sign of 1.1 asks for sk.
DevSmlCmd ==
    /\ Command(SmlCode)
    /\ IF Streams
       THEN SendHost(<<Ready>>) /\ dpc' = "sk"
       ELSE UNCHANGED toHost /\ dpc' = "sign"
    /\ UNCHANGED <<drbg, seed, countPk, m, sk, sm>>

DevReadSk ==
    /\ DevRecv("sk", "burst")
    /\ sk' = Head(toDev).data[1]
    /\ dpc' = "sign"
    /\ UNCHANGED <<drbg, seed, countPk, m, sm, toHost>>

\* The signature, or in 1.0 its buffer filled; then the line "smlen".
DevSign ==
    /\ dpc = "sign"
    /\ LET sig == Signature(sk, m, drbg)
       IN IF Streams
          THEN SendHost(<<Line(<<sig>>), Line(<<>>)>>) /\ UNCHANGED sm
          ELSE SendHost(<<Line(<<>>)>>) /\ sm' = sig
    /\ drbg' = NextDraw
    /\ dpc' = "loop"
    /\ UNCHANGED <<seed, countPk, m, sk, toDev>>

\* "sm = DONE" or the buffer, free(m) and free(sm); 1.0 has allocated sm.
DevSmCmd ==
    /\ Command(SmCode)
    /\ SendHost(<<Line(IF Streams THEN <<>> ELSE <<sm>>)>>)
    /\ m' = Unset
    /\ \E outcome \in (IF Streams THEN FreeSm ELSE {"returns"}) :
           dpc' = IF outcome = "returns" THEN "loop" ELSE "fault"
    /\ UNCHANGED <<drbg, seed, countPk, sk, sm>>

\* No '\n' ever comes: the loop goes on.
DevStopCmd ==
    /\ Command(StopCode)
    /\ SendHost(<<Line(<<>>)>>)
    /\ UNCHANGED dev

DevStep ==
    \/ DevBoot \/ DevSeedgen \/ DevDrain \/ DevOther
    \/ DevSeedCmd \/ DevSeed \/ DevMsgCmd \/ DevInit \/ DevMsg
    \/ DevPkCmd \/ DevKeygen \/ DevSkCmd \/ DevSmlCmd \/ DevReadSk \/ DevSign
    \/ DevSmCmd \/ DevStopCmd

Device == DevStep /\ UNCHANGED <<version, host>>

-----------------------------------------------------------------------------
\* The host

SendDev(items) == toDev' = toDev \o items

HostReadByte(from) ==
    /\ hpc = from
    /\ CanReadByte(toHost)
    /\ toHost' = AfterReadByte(toHost)

HostReadLine(from) ==
    /\ hpc = from
    /\ CanReadLine(toHost)
    /\ toHost' = AfterReadLine(toHost)

\* Mutant: the '1' that wakes the device is not written.
HostStart_NoAck ==
    /\ hpc = "start"
    /\ hpc' = "banner"
    /\ UNCHANGED <<req, at, hkey, hsig, rsp, line>>

\* 1.1 only; 1.0 begins with reading the banner.
HostStart ==
    /\ hpc = "start"
    /\ SendDev(<<Ack>>)
    /\ hpc' = "banner"
    /\ UNCHANGED <<req, at, hkey, hsig, rsp, toHost>>

HostBanner ==
    /\ HostReadLine("banner")
    /\ hpc' = "req"
    /\ UNCHANGED <<req, at, hkey, hsig, rsp, toDev>>

\* Mutant: the line "finished" is kept like those of a test vector.
HostReq_KeepsFinished ==
    /\ HostReadLine("req")
    /\ req' = Append(req, LineRead(toHost).data)
    /\ hpc' = IF LineRead(toHost).data = <<Finished>> THEN "lines" ELSE "req"
    /\ UNCHANGED <<at, hkey, hsig, rsp, toDev>>

\* The lines of one test vector, or "finished".
HostReq ==
    /\ HostReadLine("req")
    /\ IF LineRead(toHost).data = <<Finished>>
       THEN hpc' = "lines" /\ UNCHANGED req
       ELSE req' = Append(req, LineRead(toHost).data) /\ UNCHANGED hpc
    /\ UNCHANGED <<at, hkey, hsig, rsp, toDev>>

\* "seed = ": code and seed, without waiting for the device.
HostSeed ==
    /\ hpc = "lines"
    /\ at < Len(req)
    /\ SendDev(CodeBytes(SeedCode) \o <<Burst(<<req[at + 1][1]>>)>>)
    /\ hpc' = "msgLine"
    /\ UNCHANGED <<req, at, hkey, hsig, rsp, toHost>>

\* 1.1 waits for the 0x00; 1.0 writes the code as one byte and the message
\* after it.
HostMsgCode ==
    /\ hpc = "msgLine"
    /\ IF Streams
       THEN SendDev(CodeBytes(MsgCode)) /\ hpc' = "msgReady"
       ELSE SendDev(<<Byte(MsgCode), Burst(<<req[at + 1][2]>>)>>) /\ hpc' = "pkLine"
    /\ UNCHANGED <<req, at, hkey, hsig, rsp, toHost>>

\* Mutant: the message follows its code without a read(1).
HostMsg_NoRead ==
    /\ hpc = "msgReady"
    /\ SendDev(<<Burst(<<req[at + 1][2]>>)>>)
    /\ hpc' = "pkLine"
    /\ UNCHANGED <<req, at, hkey, hsig, rsp, toHost>>

HostMsg ==
    /\ HostReadByte("msgReady")
    /\ SendDev(<<Burst(<<req[at + 1][2]>>)>>)
    /\ hpc' = "pkLine"
    /\ UNCHANGED <<req, at, hkey, hsig, rsp>>

HostPkCode ==
    /\ hpc = "pkLine"
    /\ SendDev(CodeBytes(PkCode))
    /\ hpc' = "keygen"
    /\ UNCHANGED <<req, at, hkey, hsig, rsp, toHost>>

KeyPair(pk, secret) == [pk |-> pk, sk |-> secret]

\* do_get_data_from_keygen.
HostKeygen ==
    /\ Streams
    /\ HostReadLine("keygen")
    /\ hkey' = LET k == LineRead(toHost).data[1] IN KeyPair(k, k)
    /\ hpc' = "pkDone"
    /\ UNCHANGED <<req, at, hsig, rsp, toDev>>

\* 1.0: the line "pk = ..."; then the line "sk =" of the request file.
HostPk ==
    /\ ~Streams
    /\ HostReadLine("keygen")
    /\ hkey' = KeyPair(LineRead(toHost).data[1], Unset)
    /\ SendDev(CodeBytes(SkCode))
    /\ hpc' = "skDone"
    /\ UNCHANGED <<req, at, hsig, rsp>>

\* Mutant: the line "pk = DONE" is not read.
HostSkCode_NoRead ==
    /\ hpc = "pkDone"
    /\ SendDev(CodeBytes(SkCode))
    /\ hpc' = "skDone"
    /\ UNCHANGED <<req, at, hkey, hsig, rsp, toHost>>

\* "pk = DONE"; then the line "sk =" of the request file.
HostSkCode ==
    /\ HostReadLine("pkDone")
    /\ SendDev(CodeBytes(SkCode))
    /\ hpc' = "skDone"
    /\ UNCHANGED <<req, at, hkey, hsig, rsp>>

\* "sk = DONE"; then the line "smlen =".
HostSmlCode ==
    /\ HostReadLine("skDone")
    /\ SendDev(CodeBytes(SmlCode))
    /\ IF Streams
       THEN hpc' = "skReady" /\ UNCHANGED hkey
       ELSE hpc' = "smlDone" /\ hkey' = [hkey EXCEPT !.sk = LineRead(toHost).data[1]]
    /\ UNCHANGED <<req, at, hsig, rsp>>

\* do_get_data_from_sig: sk out, signature in.
HostSendSk ==
    /\ HostReadByte("skReady")
    /\ SendDev(<<Burst(<<hkey.sk>>)>>)
    /\ hpc' = "sign"
    /\ UNCHANGED <<req, at, hkey, hsig, rsp>>

HostSign ==
    /\ HostReadLine("sign")
    /\ hsig' = LineRead(toHost).data[1]
    /\ hpc' = "smlDone"
    /\ UNCHANGED <<req, at, hkey, rsp, toDev>>

\* "smlen = "; then the line "sm =".
HostSmCode ==
    /\ HostReadLine("smlDone")
    /\ SendDev(CodeBytes(SmCode))
    /\ hpc' = "smDone"
    /\ UNCHANGED <<req, at, hkey, hsig, rsp>>

Record(entry, key, sig) == [seed |-> entry[1], msg |-> entry[2], key |-> key, sm |-> sig]

\* "sm = DONE" or "sm = ..."; the test vector is complete in the .rsp file.
HostSmDone ==
    /\ HostReadLine("smDone")
    /\ hsig' = IF Streams THEN hsig ELSE LineRead(toHost).data[1]
    /\ rsp' = Append(rsp, Record(req[at + 1], hkey, hsig'))
    /\ at' = at + 1
    /\ hpc' = "lines"
    /\ UNCHANGED <<req, hkey, toDev>>

\* The line "finished" of the request file.
HostStopCode ==
    /\ hpc = "lines"
    /\ at = Len(req)
    /\ SendDev(CodeBytes(StopCode))
    /\ hpc' = "stopDone"
    /\ UNCHANGED <<req, at, hkey, hsig, rsp, toHost>>

\* "finished from C"; the files are closed and KAT_check.sage is started.
HostStopDone ==
    /\ HostReadLine("stopDone")
    /\ hpc' = "finished"
    /\ UNCHANGED <<req, at, hkey, hsig, rsp, toDev>>

HostStep ==
    \/ HostStart \/ HostBanner \/ HostReq
    \/ HostSeed \/ HostMsgCode \/ HostMsg
    \/ HostPkCode \/ HostKeygen \/ HostPk \/ HostSkCode
    \/ HostSmlCode \/ HostSendSk \/ HostSign \/ HostSmCode \/ HostSmDone
    \/ HostStopCode \/ HostStopDone

Host == HostStep /\ UNCHANGED <<version, dev>>

\* STATE_STOP, or a device in its fault handler.
Stop == (hpc = "finished" \/ dpc = "fault") /\ UNCHANGED vars

-----------------------------------------------------------------------------
NoDraw == [seed |-> Unset, n |-> 0]

Init ==
    /\ dpc = "boot" /\ drbg = NoDraw /\ seed = Unset /\ countPk = 0
    /\ m = Unset /\ sk = Unset /\ sm = Unset
    /\ version \in Versions
    /\ \/ Streams /\ toDev = <<>> /\ hpc = "start"
       \/ /\ ~Streams /\ hpc = "banner"
          /\ \E typed \in Typed : toDev = IF typed THEN <<Ack>> ELSE <<>>
    /\ toHost = <<>>
    /\ req = <<>> /\ at = 0
    /\ hkey = KeyPair(Unset, Unset) /\ hsig = Unset /\ rsp = <<>>

Next == Device \/ Host \/ Stop

Spec == Init /\ [][Next]_vars

\* Both programs are sequential loops that go on whenever their read returns.
FairSpec == Spec /\ WF_vars(Device) /\ WF_vars(Host)

-----------------------------------------------------------------------------
DevRecvs  == [boot |-> "ack", drain |-> "byte", loop |-> "byte", seed |-> "burst",
              msg |-> "burst", sk |-> "burst"]
DevBusy   == {"seedgen", "init", "keygen", "sign"}
ByteReads == {"msgReady", "skReady"}
LineReads == {"banner", "req", "keygen", "pkDone", "skDone", "sign", "smlDone", "smDone",
              "stopDone"}

\* The length the device's read loop counts to.
Expected == IF dpc = "seed" THEN SeedLen ELSE MsgStep * countPk

\* The labels, counters and buffers of both programs.
TypeOK ==
    /\ dpc \in DOMAIN DevRecvs \cup DevBusy \cup {"fault"}
    /\ hpc \in ByteReads \cup LineReads
               \cup {"start", "lines", "msgLine", "pkLine", "finished"}
    /\ countPk \in 0..Counts
    /\ at \in 0..Counts
    /\ Len(req) <= Counts
    /\ seed \in {Unset} \cup {SeedOf(k) : k \in Keys}
    /\ m \in {Unset} \cup {MsgOf(k) : k \in Keys}

\* hal_getchar() polls a USART with one receive register: nothing may arrive
\* while the device generates vectors, initialises the generator, makes a key
\* or signs.  (Version 1.0 only runs on the PC, whose line is buffered.)
NoOverrun == Streams /\ dpc \in DevBusy => toDev = <<>>

\* Device and host never both block in a read the other will not serve.
DevBlocked  == dpc \in DOMAIN DevRecvs /\ ~CanRecv(toDev, DevRecvs[dpc])
HostBlocked == \/ hpc \in ByteReads /\ ~CanReadByte(toHost)
               \/ hpc \in LineReads /\ ~CanReadLine(toHost)
NoMutualWait == ~(DevBlocked /\ HostBlocked)

\* Every read finds what it was written for: commands at the command loop, a
\* seed or a message of exactly the length the device counts to, lines and 0x00
\* bytes where the host reads them, and no line of another command.
Aligned ==
    /\ dpc \in DOMAIN DevRecvs /\ toDev # <<>> => Head(toDev).kind = DevRecvs[dpc]
    /\ dpc \in {"seed", "msg"} /\ toDev # <<>> => Head(toDev).data[1].len = Expected
    /\ hpc \in ByteReads /\ toHost # <<>> => Head(toHost).kind = "ready"
    /\ hpc \in LineReads /\ toHost # <<>> => Head(toHost).kind = "line"
    /\ hpc \in {"lines", "msgLine", "msgReady", "pkLine"} =>
           \A p \in 1..Len(toHost) : toHost[p] = Ready

\* KAT_check.sage: from every seed of the .rsp file the reference makes the key
\* with the first draw and signs the message with the second.
KeyFrom(k) == [seed |-> SeedOf(k), n |-> 0]
RefRecord(k) ==
    [seed |-> SeedOf(k), msg |-> MsgOf(k), key |-> KeyPair(KeyFrom(k), KeyFrom(k)),
     sm   |-> Signature(KeyFrom(k), MsgOf(k), [seed |-> SeedOf(k), n |-> 1])]

KS == INSTANCE KatService WITH answer <- [k \in Keys |-> RefRecord(k)]
ImplementsKatService == KS!Spec

\* README: the .rsp file ends up with the data of the board; the script gets to
\* the check of it.
KatCompletes == <>(hpc = "finished")

-----------------------------------------------------------------------------
\* Why all this holds.  For one test vector the host writes one sequence of
\* items; what the device has taken of it, and what the host has sent, tell
\* where both programs are, what is in their buffers and what is on the line.

\* The number of the last item of each command (in 1.1 SigAt is that of sk).
MsgCodeAt == IF Streams THEN 9 ELSE 6
MsgAt     == MsgCodeAt + 1
PkAt      == MsgAt + 4
SkAt      == PkAt + 4
SmlAt     == SkAt + 4
SigAt     == IF Streams THEN SmlAt + 1 ELSE SmlAt
SmAt      == SigAt + 4

CodeAt(p) == IF p = 4 THEN SeedCode ELSE IF p = MsgCodeAt THEN MsgCode
             ELSE IF p = PkAt THEN PkCode ELSE IF p = SkAt THEN SkCode
             ELSE IF p = SmlAt THEN SmlCode ELSE IF p = SmAt THEN SmCode ELSE 0

\* The p-th item for test vector k, and for the line "finished".
Item(k, p) ==
    IF k = Counts THEN Byte(IF p = 4 THEN StopCode ELSE 0)
    ELSE IF p = 5 THEN Burst(<<SeedOf(k)>>)
    ELSE IF p = MsgAt THEN Burst(<<MsgOf(k)>>)
    ELSE IF Streams /\ p = SigAt THEN Burst(<<KeyFrom(k)>>)
    ELSE Byte(CodeAt(p))

\* The items after the p-th, up to the q-th.
Items(k, p, q) == [r \in 1..(q - p) |-> Item(k, p + r)]

\* How many items the host has sent, and the device has taken.
Put == [lines |-> 0, msgLine |-> 5, msgReady |-> MsgCodeAt, pkLine |-> MsgAt,
         keygen |-> PkAt, pkDone |-> PkAt, skDone |-> SkAt, skReady |-> SmlAt,
         sign |-> SigAt, smlDone |-> SigAt, smDone |-> SmAt,
         stopDone |-> 4, finished |-> 4][hpc]
Got  == Put - Len(toDev)

\* The host reads the request file; the device is in its command loop.
Preparing == hpc \in {"start", "banner", "req"}
Serving   == ~Preparing /\ dpc # "fault"

Inited  == Got > MsgCodeAt \/ (Got = MsgCodeAt /\ dpc = "msg")
KeyDone == Got > PkAt \/ (Got = PkAt /\ dpc = "loop")
Signed  == Got > SigAt \/ (Got = SigAt /\ dpc = "loop")

\* The request file, line by line.
ReqLine(p)     == IF p <= Counts THEN <<SeedOf(p - 1), MsgOf(p - 1)>> ELSE <<Finished>>
ReqLines(p, n) == [q \in 1..n |-> Line(ReqLine(p + q))]

\* The files with n test vectors.
ReqFile(n) == [p \in 1..n |-> ReqLine(p)]
RspFile(n) == [p \in 1..n |-> RefRecord(p - 1)]
SigOf(k)   == RefRecord(k).sm

\* Until the request file is complete.
PrepareInv ==
    Preparing =>
        /\ countPk = 0 /\ at = 0 /\ rsp = <<>>
        /\ hpc = "start" => Streams /\ dpc = "boot" /\ toDev = <<>> /\ toHost = <<>>
        /\ hpc \in {"start", "banner"} => req = <<>>
        /\ hpc = "banner" =>
               \/ /\ dpc = "boot" /\ toHost = <<>>
                  /\ \/ toDev = <<Ack>> /\ (~Streams => TRUE \in Typed)
                     \/ toDev = <<>> /\ ~Streams /\ FALSE \in Typed
               \/ dpc = "seedgen" /\ toDev = <<>> /\ toHost = <<>>
               \/ /\ dpc = "drain" /\ toDev = <<>>
                  /\ toHost = <<Line(<<>>)>> \o ReqLines(0, Counts + 1)
        /\ hpc = "req" =>
               /\ dpc = "drain" /\ toDev = <<>>
               /\ toHost = ReqLines(Len(req), Counts + 1 - Len(req))

\* What the host has sent and the device has not taken.
OnTheWay == Len(toDev) \in 0..Put /\ toDev = Items(at, Got, Put)

\* Where the device is.
QueueInv ==
    Serving =>
        /\ OnTheWay
        /\ dpc \in {"drain", "loop", "seed", "init", "msg", "keygen", "sk", "sign"}
        /\ dpc = "drain" <=> at = 0 /\ Got = 0
        /\ dpc = "seed" <=> at < Counts /\ Got = 4
        /\ dpc \in {"init", "msg"} <=> Got = MsgCodeAt
        /\ dpc = "keygen" => Got = PkAt
        /\ dpc = "sk" <=> Streams /\ Got = SmlAt
        /\ dpc = "sign" => Got = SigAt

\* What the device has in its buffers.
BufferInv ==
    Serving =>
        /\ countPk = IF Got < MsgCodeAt THEN at ELSE at + 1
        /\ Got >= 5 => seed = SeedOf(at)
        /\ Inited => drbg = [seed |-> SeedOf(at),
                             n    |-> IF Signed THEN 2 ELSE IF KeyDone THEN 1 ELSE 0]
        /\ Got \in MsgAt..(SmAt - 1) => m = MsgOf(at)
        /\ (IF Streams THEN Got >= SigAt ELSE KeyDone) => sk = KeyFrom(at)
        /\ ~Streams /\ Signed => sm = SigOf(at)

\* What the host waits for, what has come, and how far the device must be.
WaitInv ==
    Serving =>
        /\ hpc \in {"pkLine", "keygen"} /\ Streams => Inited
        /\ hpc \in {"pkDone", "skDone"} => KeyDone
        /\ hpc = "skReady" \/ (hpc = "smlDone" /\ ~Streams) => Got >= SkAt
        /\ hpc = "sign" => Got >= SmlAt
        /\ (hpc = "smlDone" /\ Streams) \/ hpc = "smDone" => Signed
        /\ hpc = "finished" => Got = 4
        /\ hpc \in {"lines", "msgLine", "pkLine", "finished"} => toHost = <<>>
        /\ hpc = "msgReady" => toHost = IF Inited THEN <<Ready>> ELSE <<>>
        /\ hpc = "keygen" =>
               toHost = IF ~KeyDone THEN <<>>
                        ELSE IF Streams THEN <<Line(<<KeyFrom(at)>>), Line(<<>>)>>
                        ELSE <<Line(<<KeyFrom(at)>>)>>
        /\ hpc = "pkDone" => toHost = <<Line(<<>>)>>
        /\ hpc = "skDone" =>
               toHost = IF Got < SkAt THEN <<>>
                        ELSE <<Line(IF Streams THEN <<>> ELSE <<KeyFrom(at)>>)>>
        /\ hpc = "skReady" => toHost = IF Got < SmlAt THEN <<>> ELSE <<Ready>>
        /\ hpc = "sign" =>
               toHost = IF Signed THEN <<Line(<<SigOf(at)>>), Line(<<>>)>> ELSE <<>>
        /\ hpc = "smlDone" => toHost = IF Signed THEN <<Line(<<>>)>> ELSE <<>>
        /\ hpc = "smDone" =>
               toHost = IF Got < SmAt THEN <<>>
                        ELSE <<Line(IF Streams THEN <<>> ELSE <<SigOf(at)>>)>>
        /\ hpc = "stopDone" => toHost = IF Got < 4 THEN <<>> ELSE <<Line(<<>>)>>

\* After free(sm) has faulted the host reads the line that was sent before it, and
\* goes on to its next wait.
FaultInv ==
    dpc = "fault" =>
        /\ Streams /\ hpc \in {"smDone", "lines", "msgLine", "msgReady", "stopDone"}
        /\ toHost = IF hpc = "smDone" THEN <<Line(<<>>)>> ELSE <<>>

\* What the host has read and written.
FileInv ==
    /\ Len(req) \in 0..Counts
    /\ req = ReqFile(IF Preparing THEN Len(req) ELSE Counts)
    /\ hpc \in {"msgReady", "pkDone", "skReady", "sign"} => Streams
    /\ hpc = "lines" \/ Preparing \/ (at = Counts <=> hpc \in {"stopDone", "finished"})
    /\ hpc = "skDone" /\ ~Streams => hkey = KeyPair(KeyFrom(at), Unset)
    /\ hpc \in {"pkDone", "skDone"} /\ Streams => hkey = KeyPair(KeyFrom(at), KeyFrom(at))
    /\ hpc \in {"skReady", "sign", "smlDone", "smDone"}
           => hkey = KeyPair(KeyFrom(at), KeyFrom(at))
    /\ Streams /\ hpc \in {"smlDone", "smDone"} => hsig = SigOf(at)
    /\ rsp = RspFile(at)

DriverInv ==
    /\ TypeOK /\ version \in Versions
    /\ PrepareInv /\ QueueInv /\ BufferInv /\ WaitInv /\ FaultInv /\ FileInv
=============================================================================
