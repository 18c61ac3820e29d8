------------------------------- MODULE Scheme -------------------------------
(***************************************************************************)
(* Signing and opening in real arithmetic: crypto_sign and                 *)
(* crypto_sign_open of ref/meds_serial.c with parse_hash of ref/util.c.    *)
(*                                                                         *)
(* SHAKE256 is a random oracle.  What it makes of a seed is drawn when it  *)
(* is first asked and kept, so that the same question has the same answer: *)
(* tape[r] holds the matrices drawn for round r, in order, and a seed of   *)
(* the round is the number of draws before it.  A digest is the pair of    *)
(* what went into it.                                                      *)
(***************************************************************************)
EXTENDS Integers, Sequences, FiniteSets, SequencesExt, Matrix

CONSTANTS
    MEDS_t, MEDS_w, MEDS_s,
    MEDS_t_mask, MEDS_s_mask,
    Messages,
    ToSign,    \* those of them that crypto_sign is given
    SysDraws,  \* what rnd_sys_mat may draw for G[0]
    KeyDraws(_), \* [Ti, Amm]: the draws of a successful attempt for an index
    Tilde,     \* [A, B]: what rnd_inv_matrix may return for a round
    Damaged,   \* matrices a damaged signature may hold, as read modulo MEDS_p
    MaxTries,  \* bound on the attempts of a round
    None

ASSUME SchemeAssumption ==
    /\ MEDS_t \in Nat \ {0} /\ MEDS_w \in 1..MEDS_t /\ MEDS_s \in Nat \ {0, 1}
    /\ MEDS_t - 1 <= MEDS_t_mask /\ MEDS_s - 1 <= MEDS_s_mask
    /\ ToSign \subseteq Messages /\ MaxTries \in Nat \ {0}
    /\ None \notin Messages \cup {"accept", "reject"}
    /\ None \notin [m : Messages, intact : BOOLEAN]

Keys == 1..(MEDS_s - 1)

\* The draws are field elements.  rnd_inv_matrix returns what KeepsDraw accepts.
ASSUME DrawsAssumption ==
    /\ \A g \in SysDraws, r \in Idx(MEDS_n), c \in Right : g[r][c] \in Field
    /\ \A k \in Keys : \A d \in KeyDraws(k) : d.Ti \in SquareMats /\ d.Amm \in Field
    /\ \A D \in Tilde : /\ D.A \in SquareMats /\ KeepsDraw(D.A)
                         /\ D.B \in SquareMats /\ KeepsDraw(D.B)
    /\ Damaged \subseteq SquareMats

Rounds == 0..(MEDS_t - 1)
Other  == MaxTries  \* a seed that is on no tape

VARIABLES
    pc,
    sk,       \* [G0, A_inv, B_inv]
    pk,       \* G[1], ...
    msg,
    i,        \* the round
    picked,   \* the i of parse_hash
    tape, sigma,
    G_tilde,  \* what the signer absorbed
    h,
    sm,       \* the signed message
    got,      \* what crypto_sign_open is given
    h_open, sigma_open,
    G_hat,    \* what crypto_sign_open absorbed
    nread,    \* responses read
    verdict
signer == <<tape, sigma, G_tilde, h, sm>>
opener == <<got, h_open, sigma_open, G_hat, nread, verdict>>
vars   == <<pc, sk, pk, msg, i, picked, signer, opener>>

-----------------------------------------------------------------------------
\* What is absorbed of a matrix in systematic form: all but the identity.
Absorbed(G) == [r \in Idx(MEDS_n) |-> [c \in Right |-> G[r][c]]]

Attempt(D, G) == pmod_mat_syst_ct(pi(D.A, D.B, G), MEDS_n)

\* One attempt of crypto_sign_keypair at an index.
NoKey == [ret |-> -1]
KeyOf(G0, d) ==
    LET a == solve(pmod_mat_mul(d.Ti, G0), d.Amm)
        A == pmod_mat_inv(a.sol.A)
        B == pmod_mat_inv(a.sol.B_inv)
        G == pmod_mat_syst_ct(pi(a.sol.A, B.mat, G0), MEDS_n)
    IN IF a.ret # 0 \/ A.ret # 0 \/ B.ret # 0 \/ G.ret # 0 THEN NoKey
       ELSE [ret |-> 0, A_inv |-> A.mat, B_inv |-> a.sol.B_inv, G |-> G.mat]

\* mu and nu of a round challenged with a key.
Response(D, A_inv, B_inv) == [mu |-> pmod_mat_mul(D.A, A_inv), nu |-> pmod_mat_mul(B_inv, D.B)]

\* Both matrices of a response are regular.
WellFormed(a) == pmod_mat_syst_ct(a.mu, MEDS_n).ret = 0 /\ pmod_mat_syst_ct(a.nu, MEDS_n).ret = 0

-----------------------------------------------------------------------------
\* crypto_sign_keypair: the next index; the attempts that fail are KeyPair's
\* subject.  (A value bound in \E x \in {e} is computed once.)
KeyGen ==
    /\ pc = "keygen" /\ Len(pk) < MEDS_s - 1
    /\ \E d \in KeyDraws(Len(pk) + 1) :
       \E key \in {KeyOf(sk.G0, d)} :
        /\ key.ret = 0
        /\ pk' = Append(pk, key.G)
        /\ sk' = [sk EXCEPT !.A_inv = Append(@, key.A_inv), !.B_inv = Append(@, key.B_inv)]
    /\ UNCHANGED <<pc, msg, i, picked, signer, opener>>

KeyDone ==
    /\ pc = "keygen" /\ Len(pk) = MEDS_s - 1
    /\ pc' = "sign"
    /\ UNCHANGED <<sk, pk, msg, i, picked, signer, opener>>

-----------------------------------------------------------------------------
\* crypto_sign.

\* No systematic form: the round goes on with the seed that the last XOF left.
SignRetry ==
    /\ pc = "sign" /\ i < MEDS_t
    /\ Len(tape[i]) + 1 < MaxTries
    /\ \E D \in Tilde :
        /\ Attempt(D, sk.G0).ret # 0
        /\ tape' = [tape EXCEPT ![i] = Append(@, D)]
    /\ sigma' = [sigma EXCEPT ![i] = @ + 1]
    /\ UNCHANGED <<pc, sk, pk, msg, i, picked, G_tilde, h, sm, opener>>

SignRound ==
    /\ pc = "sign" /\ i < MEDS_t
    /\ \E D \in Tilde :
       \E G \in {Attempt(D, sk.G0)} :
        /\ G.ret = 0
        /\ tape' = [tape EXCEPT ![i] = Append(@, D)]
        /\ G_tilde' = Append(G_tilde, Absorbed(G.mat))
    /\ sigma' = [sigma EXCEPT ![i] = @ + 1]
    /\ i' = i + 1
    /\ UNCHANGED <<pc, sk, pk, msg, picked, h, sm, opener>>

SignHash ==
    /\ pc = "sign" /\ i = MEDS_t
    /\ pc' = "parse"
    /\ UNCHANGED <<sk, pk, msg, i, picked, signer, opener>>

-----------------------------------------------------------------------------
\* parse_hash: what may become of h with the next position and value.

\* Mutant: a position that is taken is drawn over.
Picks_Again(hh) ==
    {[hh EXCEPT ![pos] = val] :
        pos \in {x \in 0..MEDS_t_mask : x < MEDS_t},
        val \in {v \in 0..MEDS_s_mask : 1 <= v /\ v <= MEDS_s - 1}}

\* Mutant: values above MEDS_s - 1 are kept.
Picks_Above(hh) ==
    {[hh EXCEPT ![pos] = val] :
        pos \in {x \in 0..MEDS_t_mask : x < MEDS_t /\ hh[x] = 0},
        val \in {v \in 0..MEDS_s_mask : 1 <= v}}

Picks(hh) ==
    {[hh EXCEPT ![pos] = val] :
        pos \in {x \in 0..MEDS_t_mask : x < MEDS_t /\ hh[x] = 0},
        val \in {v \in 0..MEDS_s_mask : 1 <= v /\ v <= MEDS_s - 1}}

\* "continue", and the loop for the value: other bytes are squeezed.
Redraw ==
    /\ pc \in {"parse", "open_parse"} /\ picked < MEDS_w
    /\ LET hh == IF pc = "parse" THEN h ELSE h_open
       IN \/ \E pos \in 0..MEDS_t_mask : pos >= MEDS_t \/ (pos \in Rounds /\ hh[pos] > 0)
          \/ \E val \in 0..MEDS_s_mask : val < 1 \/ val > MEDS_s - 1
    /\ UNCHANGED vars

SignPick ==
    /\ pc = "parse" /\ picked < MEDS_w
    /\ h' \in Picks(h)
    /\ picked' = picked + 1
    /\ UNCHANGED <<pc, sk, pk, msg, i, tape, sigma, G_tilde, sm, opener>>

\* The digest that was signed is hashed to the same challenge again; another one
\* to any.
OpenPick ==
    /\ pc = "open_parse" /\ picked < MEDS_w
    /\ got.digest # sm.digest
    /\ h_open' \in Picks(h_open)
    /\ picked' = picked + 1
    /\ UNCHANGED <<pc, sk, pk, msg, i, signer, got, sigma_open, G_hat, nread, verdict>>

OpenRecall ==
    /\ pc = "open_parse" /\ picked < MEDS_w
    /\ got.digest = sm.digest
    /\ h_open' = h
    /\ picked' = MEDS_w
    /\ UNCHANGED <<pc, sk, pk, msg, i, signer, got, sigma_open, G_hat, nread, verdict>>

-----------------------------------------------------------------------------
\* The end of crypto_sign.

\* t_hash grows the tree again, over the leaves that the rounds have overwritten.
\* Mutant: it is not called again.
t_hash_NotAgain(seeds) == seeds
t_hash(seeds) == [r \in Rounds |-> 0]

\* The responses are written one after the other: the j-th challenged round.
Challenges(hh) == Cardinality({r \in Rounds : hh[r] > 0})
Before(hh, k)  == [r \in Rounds |-> IF r < k THEN hh[r] ELSE 0]
Nth(hh, j)     == CHOOSE r \in Rounds : hh[r] > 0 /\ Challenges(Before(hh, r)) = j - 1

\* mu and nu of the challenged rounds, the seeds of the others (the path through
\* the tree is SeedTree's subject), digest, salt, message.
Respond ==
    /\ pc = "parse" /\ picked = MEDS_w
    /\ sigma' = t_hash(sigma)
    /\ sm' = [munu   |-> [j \in 1..MEDS_w |->
                             LET r == Nth(h, j)
                             IN Response(Last(tape[r]), sk.A_inv[h[r]], sk.B_inv[h[r]])],
              path   |-> [r \in {q \in Rounds : h[q] = 0} |-> sigma'[r]],
              digest |-> [G |-> G_tilde, m |-> msg],
              salt   |-> "alpha",
              m      |-> msg]
    /\ pc' = "sent"
    /\ UNCHANGED <<sk, pk, msg, i, picked, tape, G_tilde, h, opener>>

\* What one damaged field makes of a signed message.
DamagedPaths(s) ==
    {[s EXCEPT !.path = [r \in DOMAIN s.path |-> IF r \in R THEN Other ELSE s.path[r]]] :
        R \in SUBSET DOMAIN s.path \ {{}}}
DamagedMus(s) ==
    UNION {{[s EXCEPT !.munu[j].mu = D] : D \in Damaged \ {s.munu[j].mu}} : j \in 1..MEDS_w}
DamagedNus(s) ==
    UNION {{[s EXCEPT !.munu[j].nu = D] : D \in Damaged \ {s.munu[j].nu}} : j \in 1..MEDS_w}
Damages(s) ==
    {[s EXCEPT !.m = m] : m \in Messages \ {s.m}}
    \cup {[s EXCEPT !.digest = None], [s EXCEPT !.salt = "other"]}
    \cup DamagedPaths(s) \cup DamagedMus(s) \cup DamagedNus(s)

\* The way from the one program to the other.
Deliver ==
    /\ pc = "sent"
    /\ got' \in {sm} \cup Damages(sm)
    /\ pc' = "open_parse"
    /\ picked' = 0 /\ i' = 0
    /\ UNCHANGED <<sk, pk, msg, signer, h_open, sigma_open, G_hat, nread, verdict>>

-----------------------------------------------------------------------------
\* crypto_sign_open.

OpenStart ==
    /\ pc = "open_parse" /\ picked = MEDS_w
    /\ sigma_open' = [r \in Rounds |->
                         IF got.salt = sm.salt /\ h_open = h /\ h[r] = 0 THEN got.path[r] ELSE Other]
    /\ pc' = "open"
    /\ UNCHANGED <<sk, pk, msg, i, picked, signer, got, h_open, G_hat, nread, verdict>>

OpenRounds == pc = "open" /\ i < MEDS_t

\* "malformed signature"
OpenMalformed ==
    /\ OpenRounds /\ h_open[i] > 0
    /\ ~WellFormed(got.munu[nread + 1])
    /\ pc' = "done" /\ verdict' = "reject"
    /\ UNCHANGED <<sk, pk, msg, i, picked, signer, got, h_open, sigma_open, G_hat, nread>>

Recovered == LET a == got.munu[nread + 1] IN Attempt([A |-> a.mu, B |-> a.nu], pk[h_open[i]])

OpenNotSyst ==
    /\ OpenRounds /\ h_open[i] > 0
    /\ WellFormed(got.munu[nread + 1])
    /\ Recovered.ret < 0
    /\ pc' = "done" /\ verdict' = "reject"
    /\ UNCHANGED <<sk, pk, msg, i, picked, signer, got, h_open, sigma_open, G_hat, nread>>

OpenChallenged ==
    /\ OpenRounds /\ h_open[i] > 0
    /\ WellFormed(got.munu[nread + 1])
    /\ \E G \in {Recovered} : G.ret = 0 /\ G_hat' = Append(G_hat, Absorbed(G.mat))
    /\ nread' = nread + 1
    /\ i' = i + 1
    /\ UNCHANGED <<pc, sk, pk, msg, picked, signer, got, h_open, sigma_open, verdict>>

\* What the seed of the round expands to: what it did for the signer, or, for a
\* seed that the signer never had, anything.
Expand(r) == IF sigma_open[r] < Len(tape[r]) THEN {tape[r][sigma_open[r] + 1]} ELSE Tilde

OpenRetry ==
    /\ OpenRounds /\ h_open[i] = 0
    /\ \E D \in Expand(i) : Attempt(D, sk.G0).ret # 0
    /\ sigma_open' = [sigma_open EXCEPT ![i] = IF @ < Len(tape[i]) THEN @ + 1 ELSE @]
    /\ UNCHANGED <<pc, sk, pk, msg, i, picked, signer, got, h_open, G_hat, nread, verdict>>

OpenRederive ==
    /\ OpenRounds /\ h_open[i] = 0
    /\ \E D \in Expand(i) :
       \E G \in {Attempt(D, sk.G0)} : G.ret = 0 /\ G_hat' = Append(G_hat, Absorbed(G.mat))
    /\ i' = i + 1
    /\ UNCHANGED <<pc, sk, pk, msg, picked, signer, got, h_open, sigma_open, nread, verdict>>

\* Mutant: the digest covers the commitments only.
Matches_NoMessage == got.digest # None /\ got.digest.G = G_hat
Matches == got.digest = [G |-> G_hat, m |-> got.m]

OpenCheck ==
    /\ pc = "open" /\ i = MEDS_t
    /\ pc' = "done"
    /\ verdict' = IF Matches THEN "accept" ELSE "reject"
    /\ UNCHANGED <<sk, pk, msg, i, picked, signer, got, h_open, sigma_open, G_hat, nread>>

Done == pc = "done" /\ UNCHANGED vars

-----------------------------------------------------------------------------
Init ==
    /\ pc = "keygen" /\ pk = <<>>
    /\ \E g \in SysDraws : sk = [G0 |-> rnd_sys_mat(g), A_inv |-> <<>>, B_inv |-> <<>>]
    /\ i = 0 /\ picked = 0
    /\ msg \in ToSign
    /\ tape = [r \in Rounds |-> <<>>] /\ sigma = [r \in Rounds |-> 0]
    /\ G_tilde = <<>> /\ h = [r \in Rounds |-> 0] /\ sm = None
    /\ got = None /\ h_open = [r \in Rounds |-> 0] /\ sigma_open = [r \in Rounds |-> 0]
    /\ G_hat = <<>> /\ nread = 0 /\ verdict = None

Next == KeyGen \/ KeyDone \/ SignRetry \/ SignRound \/ SignHash \/ Redraw \/ SignPick \/ Respond \/ Deliver
        \/ OpenPick \/ OpenRecall \/ OpenStart \/ OpenMalformed \/ OpenNotSyst
        \/ OpenChallenged \/ OpenRetry \/ OpenRederive \/ OpenCheck \/ Done

\* One sequential program: it takes steps until it is done.  (Said without
\* ENABLED, which TLC would spend on the arithmetic.)
Progress == []<>(pc = "done") \/ []<><<Next>>_vars

Spec == Init /\ [][Next]_vars /\ Progress

-----------------------------------------------------------------------------
Commitments == [Idx(MEDS_n) -> [Right -> Field]]
Hashes      == [Rounds -> 0..(MEDS_s - 1)]

TypeOK ==
    /\ pc \in {"keygen", "sign", "parse", "sent", "open_parse", "open", "done"}
    /\ i \in 0..MEDS_t /\ picked \in 0..MEDS_w /\ nread \in 0..MEDS_w
    /\ sigma \in [Rounds -> 0..MaxTries] /\ sigma_open \in [Rounds -> 0..MaxTries]
    /\ h \in Hashes /\ h_open \in Hashes
    /\ G_tilde \in Seq(Commitments) /\ G_hat \in Seq(Commitments)
    /\ sm # None => \A j \in 1..MEDS_w : sm.munu[j].mu \in SquareMats /\ sm.munu[j].nu \in SquareMats
    /\ verdict \in {None, "accept", "reject"}

\* parse_hash challenges MEDS_w rounds, neither more nor fewer: the responses
\* fill their part of the signature, and the opener never reads past them.
ExactWeight ==
    /\ Challenges(h) = CASE pc \in {"keygen", "sign"} -> 0 [] pc = "parse" -> picked [] OTHER -> MEDS_w
    /\ pc \in {"open", "done"} => Challenges(h_open) = MEDS_w
    /\ pc = "open" => nread = Challenges(Before(h_open, i))

\* From an undamaged signature the opener has in every round the very matrix
\* that the signer committed to: by way of the public key where it was
\* challenged, through the signer's draws, failed ones too, where it was not.
Recomputes == got # None /\ got = sm => G_hat = SubSeq(G_tilde, 1, Len(G_hat))

\* Signing and opening keep the promise of SignedMessage, the answer included.
Promise == INSTANCE SignedMessage WITH
    signed  <- IF pc \in {"keygen", "sign", "parse"} THEN None ELSE msg,
    arrived <- IF pc \in {"keygen", "sign", "parse", "sent"} THEN None
               ELSE [m |-> got.m, intact |-> got = sm]
KeepsPromise == Promise!Spec
=============================================================================
