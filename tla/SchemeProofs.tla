---------------------------- MODULE SchemeProofs ----------------------------
(***************************************************************************)
(* Proofs about Scheme, for every prime, dimension, number of rounds,      *)
(* weight and number of keys.  ExactWeight speaks of finished challenges;  *)
(* WeightInv follows their weight through both runs of parse_hash, and     *)
(* the responses read through the rounds of crypto_sign_open.  SchemeInv   *)
(* adds what the data are made of, and that the opener of an undamaged     *)
(* signature absorbs what the signer did; with it every step is a step of  *)
(* SignedMessage or changes nothing there.                                 *)
(***************************************************************************)
EXTENDS Scheme, MatrixProofs, SequenceTheorems

NoChallenge   == [r \in Rounds |-> 0]

\* h is empty, then as heavy as parse_hash has come, then of weight MEDS_w.
Signed ==
    /\ h \in Hashes
    /\ Challenges(h) = CASE pc \in {"keygen", "sign"} -> 0 [] pc = "parse" -> picked [] OTHER -> MEDS_w
    /\ pc \in {"keygen", "sign"} => picked = 0

\* So is h_open, and as many responses have been read as its challenges so far.
Opened ==
    /\ h_open \in Hashes
    /\ pc \in {"keygen", "sign", "parse", "sent"} => Challenges(h_open) = 0 /\ nread = 0
    /\ pc = "open_parse" => Challenges(h_open) = picked /\ i = 0 /\ nread = 0
    /\ pc \in {"open", "done"} => Challenges(h_open) = MEDS_w
    /\ pc = "open" => nread = Challenges(Before(h_open, i))

WeightInv ==
    /\ pc \in {"keygen", "sign", "parse", "sent", "open_parse", "open", "done"}
    /\ i \in Nat /\ picked \in Nat /\ nread \in Nat
    /\ Signed
    /\ Opened

-----------------------------------------------------------------------------
LEMMA RoundsFinite == IsFiniteSet(Rounds)
BY FS_Interval, SchemeAssumption DEF Rounds

\* A weight is a number.
LEMMA ChallengesType ==
    ASSUME NEW hh
    PROVE  /\ IsFiniteSet({r \in Rounds : hh[r] > 0})
           /\ Challenges(hh) \in Nat
BY RoundsFinite, FS_Subset, FS_CardinalityType DEF Challenges

LEMMA NoChallengeWeight ==
    NoChallenge \in Hashes /\ Challenges(NoChallenge) = 0
<1>1. NoChallenge \in Hashes
  BY SchemeAssumption DEF NoChallenge, Hashes
<1>2. {r \in Rounds : NoChallenge[r] > 0} = {}
  BY DEF NoChallenge
<1> QED
  BY <1>1, <1>2, FS_EmptySet DEF Challenges

\* One more challenged round is one more.
LEMMA OneMore ==
    ASSUME NEW hh, NEW h2, NEW k \in Rounds,
           ~(hh[k] > 0), h2[k] > 0,
           \A r \in Rounds \ {k} : h2[r] = hh[r]
    PROVE  Challenges(h2) = Challenges(hh) + 1
<1> DEFINE Old == {r \in Rounds : hh[r] > 0}
<1>1. {r \in Rounds : h2[r] > 0} = Old \cup {k} /\ k \notin Old
  OBVIOUS
<1>2. Cardinality(Old \cup {k}) = Cardinality(Old) + 1
  BY <1>1, ChallengesType, FS_AddElement
<1> QED
  BY <1>1, <1>2 DEF Challenges

LEMMA PicksOneMore ==
    ASSUME NEW hh \in Hashes, NEW h2 \in Picks(hh)
    PROVE  h2 \in Hashes /\ Challenges(h2) = Challenges(hh) + 1
<1>1. PICK pos \in {x \in 0..MEDS_t_mask : x < MEDS_t /\ hh[x] = 0},
           val \in {v \in 0..MEDS_s_mask : 1 <= v /\ v <= MEDS_s - 1} :
           h2 = [hh EXCEPT ![pos] = val]
  BY DEF Picks
<1>2. pos \in Rounds /\ val \in 1..(MEDS_s - 1) /\ ~(hh[pos] > 0)
  BY SchemeAssumption DEF Rounds
<1>3. h2 \in Hashes /\ h2[pos] > 0 /\ \A r \in Rounds \ {pos} : h2[r] = hh[r]
  BY <1>1, <1>2, SchemeAssumption DEF Hashes
<1> QED
  BY <1>2, <1>3, OneMore

\* The rounds before the first one hold no challenge.
LEMMA BeforeNone ==
    ASSUME NEW hh
    PROVE  Challenges(Before(hh, 0)) = 0
<1>1. {r \in Rounds : Before(hh, 0)[r] > 0} = {}
  BY SchemeAssumption DEF Before, Rounds
<1> QED
  BY <1>1, FS_EmptySet DEF Challenges

\* A round that is passed adds itself, if it is challenged.
LEMMA BeforeNext ==
    ASSUME NEW hh \in Hashes, NEW k \in Rounds
    PROVE  Challenges(Before(hh, k + 1))
               = IF hh[k] > 0 THEN Challenges(Before(hh, k)) + 1 ELSE Challenges(Before(hh, k))
<1>1. k \in Nat /\ Rounds \subseteq Nat
  BY SchemeAssumption DEF Rounds
<1>2. \A r \in Rounds \ {k} : Before(hh, k + 1)[r] = Before(hh, k)[r]
  BY <1>1 DEF Before
<1>3. Before(hh, k + 1)[k] = hh[k] /\ Before(hh, k)[k] = 0
  BY <1>1 DEF Before
<1>4. CASE hh[k] > 0
  BY <1>2, <1>3, <1>4, OneMore
<1>5. CASE ~(hh[k] > 0)
  <2>1. {r \in Rounds : Before(hh, k + 1)[r] > 0} = {r \in Rounds : Before(hh, k)[r] > 0}
    BY <1>2, <1>3, <1>5
  <2> QED
    BY <1>5, <2>1 DEF Challenges
<1> QED
  BY <1>4, <1>5

-----------------------------------------------------------------------------
\* The steps, by what they do to the variables of WeightInv.
LEMMA WeightSame ==
    ASSUME WeightInv, UNCHANGED <<pc, h, h_open, i, picked, nread>>
    PROVE  WeightInv'
BY DEF WeightInv, Signed, Opened, Challenges, Before, Hashes, Rounds

LEMMA WeightInit == Init => WeightInv
BY NoChallengeWeight DEF Init, WeightInv, Signed, Opened, NoChallenge

\* Key generation and the commitments.
LEMMA WeightKeyGen == WeightInv /\ KeyGen => WeightInv'
<1>1. KeyGen => UNCHANGED <<pc, h, h_open, i, picked, nread>>
  BY DEF KeyGen, signer, opener
<1> QED
  BY <1>1, WeightSame

LEMMA WeightKeyDone == WeightInv /\ KeyDone => WeightInv'
<1> SUFFICES ASSUME WeightInv, KeyDone PROVE WeightInv'
  OBVIOUS
<1>1. pc = "keygen" /\ pc' = "sign" /\ UNCHANGED <<h, h_open, i, picked, nread>>
  BY DEF KeyDone, signer, opener
<1> QED
  BY <1>1 DEF WeightInv, Signed, Opened, Challenges, Before, Hashes, Rounds

LEMMA WeightSignRetry == WeightInv /\ SignRetry => WeightInv'
<1>1. SignRetry => UNCHANGED <<pc, h, h_open, i, picked, nread>>
  BY DEF SignRetry, opener
<1> QED
  BY <1>1, WeightSame

LEMMA WeightSignRound == WeightInv /\ SignRound => WeightInv'
<1> SUFFICES ASSUME WeightInv, SignRound PROVE WeightInv'
  OBVIOUS
<1>1. pc = "sign" /\ i' = i + 1 /\ UNCHANGED <<pc, h, h_open, picked, nread>>
  BY DEF SignRound, opener
<1> QED
  BY <1>1 DEF WeightInv, Signed, Opened, Challenges, Before, Hashes, Rounds

LEMMA WeightSignHash == WeightInv /\ SignHash => WeightInv'
<1> SUFFICES ASSUME WeightInv, SignHash PROVE WeightInv'
  OBVIOUS
<1>1. pc = "sign" /\ pc' = "parse" /\ UNCHANGED <<h, h_open, i, picked, nread>>
  BY DEF SignHash, signer, opener
<1> QED
  BY <1>1 DEF WeightInv, Signed, Opened, Challenges, Before, Hashes, Rounds

\* parse_hash.
LEMMA WeightSignPick == WeightInv /\ SignPick => WeightInv'
<1> SUFFICES ASSUME WeightInv, SignPick PROVE WeightInv'
  OBVIOUS
<1>1. pc = "parse" /\ h' \in Picks(h) /\ picked' = picked + 1
      /\ UNCHANGED <<pc, h_open, i, nread>>
  BY DEF SignPick, opener
<1>2. h' \in Hashes /\ Challenges(h') = picked + 1
  BY <1>1, PicksOneMore DEF WeightInv, Signed
<1>3. Signed'
  BY <1>1, <1>2 DEF Signed, Challenges, Hashes, Rounds
<1>4. Opened'
  BY <1>1 DEF WeightInv, Opened, Challenges, Before, Hashes, Rounds
<1> QED
  BY <1>1, <1>3, <1>4 DEF WeightInv

LEMMA WeightOpenPick == WeightInv /\ OpenPick => WeightInv'
<1> SUFFICES ASSUME WeightInv, OpenPick PROVE WeightInv'
  OBVIOUS
<1>1. pc = "open_parse" /\ h_open' \in Picks(h_open) /\ picked' = picked + 1
      /\ UNCHANGED <<pc, h, i, nread>>
  BY DEF OpenPick, signer
<1>2. h_open' \in Hashes /\ Challenges(h_open') = picked + 1
  BY <1>1, PicksOneMore DEF WeightInv, Opened
<1>3. Signed'
  BY <1>1 DEF WeightInv, Signed, Challenges, Hashes, Rounds
<1>4. Opened'
  BY <1>1, <1>2 DEF WeightInv, Opened, Challenges, Hashes, Rounds
<1> QED
  BY <1>1, <1>3, <1>4 DEF WeightInv

LEMMA WeightOpenRecall == WeightInv /\ OpenRecall => WeightInv'
<1> SUFFICES ASSUME WeightInv, OpenRecall PROVE WeightInv'
  OBVIOUS
<1>1. pc = "open_parse" /\ h_open' = h /\ picked' = MEDS_w /\ UNCHANGED <<pc, h, i, nread>>
  BY DEF OpenRecall, signer
<1>2. MEDS_w \in Nat /\ Challenges(h) = MEDS_w /\ h \in Hashes
  BY <1>1, SchemeAssumption DEF WeightInv, Signed
<1> QED
  BY <1>1, <1>2 DEF WeightInv, Signed, Opened, Challenges, Hashes, Rounds

\* From the one program to the other.
LEMMA WeightRespond == WeightInv /\ Respond => WeightInv'
<1> SUFFICES ASSUME WeightInv, Respond PROVE WeightInv'
  OBVIOUS
<1>1. pc = "parse" /\ picked = MEDS_w /\ pc' = "sent" /\ UNCHANGED <<h, h_open, i, picked, nread>>
  BY DEF Respond, opener
<1> QED
  BY <1>1 DEF WeightInv, Signed, Opened, Challenges, Before, Hashes, Rounds

LEMMA WeightDeliver == WeightInv /\ Deliver => WeightInv'
<1> SUFFICES ASSUME WeightInv, Deliver PROVE WeightInv'
  OBVIOUS
<1>1. pc = "sent" /\ pc' = "open_parse" /\ picked' = 0 /\ i' = 0
      /\ UNCHANGED <<h, h_open, nread>>
  BY DEF Deliver, signer
<1> QED
  BY <1>1 DEF WeightInv, Signed, Opened, Challenges, Before, Hashes, Rounds

LEMMA WeightOpenStart == WeightInv /\ OpenStart => WeightInv'
<1> SUFFICES ASSUME WeightInv, OpenStart PROVE WeightInv'
  OBVIOUS
<1>1. pc = "open_parse" /\ picked = MEDS_w /\ pc' = "open"
      /\ UNCHANGED <<h, h_open, i, picked, nread>>
  BY DEF OpenStart, signer
<1>2. i = 0 /\ nread = Challenges(Before(h_open, i))
  BY <1>1, BeforeNone DEF WeightInv, Opened
<1> QED
  BY <1>1, <1>2 DEF WeightInv, Signed, Opened, Challenges, Before, Hashes, Rounds

-----------------------------------------------------------------------------
\* The rounds of crypto_sign_open.
LEMMA WeightEnd ==
    ASSUME WeightInv, pc = "open", pc' = "done", UNCHANGED <<h, h_open, i, picked, nread>>
    PROVE  WeightInv'
BY DEF WeightInv, Signed, Opened, Challenges, Before, Hashes, Rounds

LEMMA WeightOpenRound ==
    ASSUME WeightInv, pc = "open", i < MEDS_t, i' = i + 1,
           nread' = IF h_open[i] > 0 THEN nread + 1 ELSE nread,
           UNCHANGED <<pc, h, h_open, picked>>
    PROVE  WeightInv'
<1>1. i \in Rounds /\ h_open \in Hashes /\ nread \in Nat /\ nread = Challenges(Before(h_open, i))
  BY SchemeAssumption DEF WeightInv, Opened, Rounds
<1>2. nread' = Challenges(Before(h_open, i + 1)) /\ nread' \in Nat
  BY <1>1, BeforeNext
<1>3. Signed'
  BY DEF WeightInv, Signed, Challenges, Hashes, Rounds
<1>4. Opened'
  BY <1>2 DEF WeightInv, Opened, Challenges, Before, Hashes, Rounds
<1> QED
  BY <1>2, <1>3, <1>4 DEF WeightInv

LEMMA WeightOpenChallenged == WeightInv /\ OpenChallenged => WeightInv'
<1>1. OpenChallenged => /\ pc = "open" /\ i < MEDS_t /\ i' = i + 1
                        /\ nread' = IF h_open[i] > 0 THEN nread + 1 ELSE nread
                        /\ UNCHANGED <<pc, h, h_open, picked>>
  BY DEF OpenChallenged, OpenRounds, signer
<1> QED
  BY <1>1, WeightOpenRound

LEMMA WeightOpenRederive == WeightInv /\ OpenRederive => WeightInv'
<1>1. OpenRederive => /\ pc = "open" /\ i < MEDS_t /\ i' = i + 1
                      /\ nread' = IF h_open[i] > 0 THEN nread + 1 ELSE nread
                      /\ UNCHANGED <<pc, h, h_open, picked>>
  BY DEF OpenRederive, OpenRounds, signer
<1> QED
  BY <1>1, WeightOpenRound

LEMMA WeightOpenRetry == WeightInv /\ OpenRetry => WeightInv'
<1>1. OpenRetry => UNCHANGED <<pc, h, h_open, i, picked, nread>>
  BY DEF OpenRetry, signer
<1> QED
  BY <1>1, WeightSame

LEMMA WeightOpenEnd ==
    WeightInv /\ (OpenMalformed \/ OpenNotSyst \/ OpenCheck) => WeightInv'
<1>1. OpenMalformed \/ OpenNotSyst \/ OpenCheck =>
        pc = "open" /\ pc' = "done" /\ UNCHANGED <<h, h_open, i, picked, nread>>
  BY DEF OpenMalformed, OpenNotSyst, OpenCheck, OpenRounds, signer
<1> QED
  BY <1>1, WeightEnd

LEMMA WeightNext == WeightInv /\ [Next]_vars => WeightInv'
<1> SUFFICES ASSUME WeightInv, [Next]_vars PROVE WeightInv'
  OBVIOUS
<1>1. CASE UNCHANGED vars
  BY <1>1, WeightSame DEF vars, signer, opener
<1>2. CASE Redraw \/ Done
  BY <1>2, WeightSame DEF Redraw, Done, vars, signer, opener
<1>3. CASE KeyGen \/ KeyDone \/ SignRetry \/ SignRound \/ SignHash
  BY <1>3, WeightKeyGen, WeightKeyDone, WeightSignRetry, WeightSignRound, WeightSignHash
<1>4. CASE SignPick \/ Respond \/ Deliver \/ OpenPick \/ OpenRecall \/ OpenStart
  BY <1>4, WeightSignPick, WeightRespond, WeightDeliver, WeightOpenPick, WeightOpenRecall,
     WeightOpenStart
<1>5. CASE OpenMalformed \/ OpenNotSyst \/ OpenCheck
  BY <1>5, WeightOpenEnd
<1>6. CASE OpenChallenged \/ OpenRetry \/ OpenRederive
  BY <1>6, WeightOpenChallenged, WeightOpenRetry, WeightOpenRederive
<1> QED
  BY <1>1, <1>2, <1>3, <1>4, <1>5, <1>6 DEF Next

\* Both challenges gain one round with every turn of parse_hash, and the opener
\* reads one response for every challenged round it has passed.
THEOREM SchemeWeights == Spec => []WeightInv
<1> QED
  BY WeightInit, WeightNext, PTL DEF Spec

\* Exactly MEDS_w rounds are challenged when parse_hash is done, in crypto_sign
\* and in crypto_sign_open, and the responses read are those challenged so far.
THEOREM SchemeExactWeight == Spec => []ExactWeight
<1>1. WeightInv => ExactWeight
  BY DEF WeightInv, Signed, Opened, ExactWeight, Before
<1> QED
  BY <1>1, SchemeWeights, PTL

\* The response that a challenged round takes is there.
ReadsInside == pc = "open" /\ i < MEDS_t /\ h_open[i] > 0 => nread + 1 \in 1..MEDS_w

LEMMA ReadsInsideInv == WeightInv => ReadsInside
<1> SUFFICES ASSUME WeightInv, pc = "open", i < MEDS_t, h_open[i] > 0
             PROVE  nread + 1 \in 1..MEDS_w
  BY DEF ReadsInside
<1>1. i \in Rounds /\ h_open \in Hashes /\ nread \in Nat /\ Challenges(h_open) = MEDS_w
  BY SchemeAssumption DEF WeightInv, Opened, Rounds
<1>2. nread + 1 = Challenges(Before(h_open, i + 1))
  BY <1>1, BeforeNext DEF WeightInv, Opened
<1>3. {r \in Rounds : Before(h_open, i + 1)[r] > 0} \subseteq {r \in Rounds : h_open[r] > 0}
  BY DEF Before
<1>4. Challenges(Before(h_open, i + 1)) <= Challenges(h_open)
  BY <1>3, ChallengesType, FS_Subset DEF Challenges
<1> QED
  BY <1>1, <1>2, <1>4, SchemeAssumption

\* crypto_sign_open reads mu and nu of a challenged round from the part of the
\* signature that holds responses, whatever digest it was given.
THEOREM SchemeReadsInside == Spec => []ReadsInside
<1> QED
  BY ReadsInsideInv, SchemeWeights, PTL

-----------------------------------------------------------------------------
\* The way back: what makes a signature verify.

LEMMA IsAField == Modulus /\ IsField(MEDS_p) /\ Size /\ SquareMats = Squares
<1>1. IsField(MEDS_p)
  BY FieldAssumption, PrimeField
<1> QED
  BY <1>1, FieldAssumption DEF IsField, Modulus, Size, SquareMats, Squares, Matrices, Mat, Vec

LEMMA StartType ==
    ASSUME NEW g \in SysDraws
    PROVE  rnd_sys_mat(g) \in Codes
<1>1. ASSUME NEW r \in Idx(MEDS_n), NEW c \in Cells, c >= MEDS_n PROVE g[r][c] \in Field
  <2>1. c \in Right
    BY <1>1, IsAField DEF Cells, Idx, Right, Size
  <2> QED
    BY <2>1, DrawsAssumption
<1> QED
  BY <1>1, IsAField, SysMatType

LEMMA DrawIs ==
    ASSUME NEW D \in Tilde
    PROVE  D.A \in Squares /\ D.B \in Squares /\ Full(MEDS_n, D.A) /\ Full(MEDS_n, D.B)
<1>1. D.A \in Squares /\ D.B \in Squares /\ KeepsDraw(D.A) /\ KeepsDraw(D.B)
  BY IsAField, DrawsAssumption
<1>2. MEDS_n \in Nat \ {0}
  BY IsAField DEF Size
<1>3. ASSUME NEW X \in Squares, KeepsDraw(X) PROVE Full(MEDS_n, X)
  BY <1>2, <1>3, IsAField, FullIs DEF Squares
<1> QED
  BY <1>1, <1>3

\* The systematic form a draw leads to.
LEMMA AttemptIs ==
    ASSUME NEW D, D.A \in Squares, D.B \in Squares, NEW G \in Codes
    PROVE  /\ Attempt(D, G).ret \in {0, -1} /\ Attempt(D, G).mat \in Codes
           /\ Span(Cells, Attempt(D, G).mat) = Span(Cells, pi(D.A, D.B, G))
<1>1. pi(D.A, D.B, G) \in Codes
  BY IsAField, PiIs
<1>2. PICK X \in Codes : X = pi(D.A, D.B, G)
  BY <1>1
<1> QED
  BY <1>2, IsAField, FormIs DEF Attempt

\* A key is regular, and its matrices lead from G[0] to its code.
LEMMA KeyIs ==
    ASSUME NEW G0 \in Codes, NEW k \in Keys, NEW d \in KeyDraws(k), KeyOf(G0, d).ret = 0
    PROVE  \E A, B \in Squares :
               LET key == KeyOf(G0, d)
               IN  /\ key.A_inv \in Squares /\ Full(MEDS_n, key.A_inv)
                   /\ key.B_inv \in Squares /\ Full(MEDS_n, key.B_inv)
                   /\ key.G \in Codes
                   /\ pmod_mat_mul(key.A_inv, A) = One(MEDS_n)
                   /\ pmod_mat_mul(B, key.B_inv) = One(MEDS_n)
                   /\ Span(Cells, key.G) = Span(Cells, pi(A, B, G0))
<1> DEFINE a == solve(pmod_mat_mul(d.Ti, G0), d.Amm)
           V == pmod_mat_inv(a.sol.A)
           W == pmod_mat_inv(a.sol.B_inv)
           G == pmod_mat_syst_ct(pi(a.sol.A, W.mat, G0), MEDS_n)
<1>0. MEDS_n \in Nat \ {0} /\ MEDS_n * MEDS_n \in Nat
  BY IsAField DEF Size
<1>1. /\ a.ret = 0 /\ V.ret = 0 /\ W.ret = 0 /\ G.ret = 0
      /\ KeyOf(G0, d) = [ret |-> 0, A_inv |-> V.mat, B_inv |-> a.sol.B_inv, G |-> G.mat]
  BY DEF KeyOf, NoKey
<1>2. pmod_mat_mul(d.Ti, G0) \in Codes /\ d.Amm \in Field
  <2>1. d.Ti \in Squares /\ d.Amm \in Field
    BY IsAField, DrawsAssumption
  <2> QED
    BY <1>0, <2>1, IsAField, MulIs DEF Squares, Codes
<1>3. a.sol.A \in Squares /\ a.sol.B_inv \in Squares
  <2>1. PICK X \in Codes : X = pmod_mat_mul(d.Ti, G0)
    BY <1>2
  <2> QED
    BY <1>1, <1>2, <2>1, IsAField, SolveType
<1>4. PICK A \in Squares : A = a.sol.A
  BY <1>3
<1>5. PICK U \in Squares : U = a.sol.B_inv
  BY <1>3
<1>6. /\ V.mat \in Squares /\ Full(MEDS_n, A)
      /\ pmod_mat_mul(A, V.mat) = One(MEDS_n) /\ pmod_mat_mul(V.mat, A) = One(MEDS_n)
  BY <1>0, <1>1, <1>4, IsAField, InvIs DEF Squares
<1>7. /\ W.mat \in Squares /\ Full(MEDS_n, U)
      /\ pmod_mat_mul(U, W.mat) = One(MEDS_n) /\ pmod_mat_mul(W.mat, U) = One(MEDS_n)
  BY <1>0, <1>1, <1>5, IsAField, InvIs DEF Squares
<1>8. Full(MEDS_n, V.mat)
  BY <1>0, <1>6, IsAField, InverseFull DEF Squares
<1>9. G.mat \in Codes /\ Span(Cells, G.mat) = Span(Cells, pi(A, W.mat, G0))
  <2>1. PICK X \in Codes : X = pi(A, W.mat, G0)
    BY <1>7, IsAField, PiIs
  <2> QED
    BY <1>4, <2>1, IsAField, FormIs
<1> HIDE DEF a, V, W, G
<1> QED
  BY <1>1, <1>4, <1>5, <1>6, <1>7, <1>8, <1>9

LEMMA Products ==
    ASSUME NEW X \in Squares, NEW Y \in Squares, Full(MEDS_n, X), Full(MEDS_n, Y)
    PROVE  pmod_mat_mul(X, Y) \in Squares /\ Full(MEDS_n, pmod_mat_mul(X, Y))
<1>1. MEDS_n \in Nat \ {0} /\ X \in Matrices(MEDS_n, MEDS_n) /\ Y \in Matrices(MEDS_n, MEDS_n)
  BY IsAField DEF Size, Squares
<1>2. pmod_mat_mul(X, Y) \in Matrices(MEDS_n, MEDS_n)
  BY <1>1, IsAField, MulIs
<1>3. Full(MEDS_n, pmod_mat_mul(X, Y))
  BY <1>1, IsAField, ProductFull
<1> QED
  BY <1>2, <1>3 DEF Squares

\* The response to a challenge and the public key lead back to the commitment:
\* A_tilde * A_inv * A = A_tilde, B * B_inv * B_tilde = B_tilde, and a code has one
\* systematic form.
THEOREM SchemeWayBack ==
    ASSUME NEW g \in SysDraws, NEW k \in Keys, NEW D \in Tilde, NEW d \in KeyDraws(k)
    PROVE  LET G0  == rnd_sys_mat(g)
               key == KeyOf(G0, d)
               a   == Response(D, key.A_inv, key.B_inv)
               G   == Attempt([A |-> a.mu, B |-> a.nu], key.G)
           IN key.ret = 0 /\ Attempt(D, G0).ret = 0 =>
                  /\ WellFormed(a)
                  /\ G.ret = 0
                  /\ Absorbed(G.mat) = Absorbed(Attempt(D, G0).mat)
<1>1. PICK G0 \in Codes : G0 = rnd_sys_mat(g)
  BY StartType
<1> DEFINE key == KeyOf(G0, d)
           a == Response(D, key.A_inv, key.B_inv)
           G == Attempt([A |-> a.mu, B |-> a.nu], key.G)
<1> SUFFICES ASSUME key.ret = 0, Attempt(D, G0).ret = 0
             PROVE  WellFormed(a) /\ G.ret = 0 /\ Absorbed(G.mat) = Absorbed(Attempt(D, G0).mat)
  BY <1>1
<1>2. PICK A \in Squares, B \in Squares :
          /\ key.A_inv \in Squares /\ Full(MEDS_n, key.A_inv)
          /\ key.B_inv \in Squares /\ Full(MEDS_n, key.B_inv)
          /\ key.G \in Codes
          /\ pmod_mat_mul(key.A_inv, A) = One(MEDS_n)
          /\ pmod_mat_mul(B, key.B_inv) = One(MEDS_n)
          /\ Span(Cells, key.G) = Span(Cells, pi(A, B, G0))
  BY KeyIs
<1>3. PICK V \in Squares : V = key.A_inv
  BY <1>2
<1>4. PICK W \in Squares : W = key.B_inv
  BY <1>2
<1>5. PICK H \in Codes : H = key.G
  BY <1>2
<1>6. D.A \in Squares /\ D.B \in Squares /\ Full(MEDS_n, D.A) /\ Full(MEDS_n, D.B) /\ MEDS_n \in Nat \ {0}
  BY DrawIs, IsAField DEF Size
<1>7. /\ Full(MEDS_n, V) /\ Full(MEDS_n, W)
      /\ pmod_mat_mul(V, A) = One(MEDS_n) /\ pmod_mat_mul(B, W) = One(MEDS_n)
      /\ Span(Cells, H) = Span(Cells, pi(A, B, G0))
  BY <1>2, <1>3, <1>4, <1>5
<1>8. a = [mu |-> pmod_mat_mul(D.A, V), nu |-> pmod_mat_mul(W, D.B)]
      /\ G = pmod_mat_syst_ct(pi(a.mu, a.nu, H), MEDS_n)
      /\ Attempt(D, G0) = pmod_mat_syst_ct(pi(D.A, D.B, G0), MEDS_n)
  BY <1>3, <1>4, <1>5 DEF Response, Attempt
<1> HIDE DEF key, a, G
<1>9. PICK M \in Squares : M = pmod_mat_mul(D.A, V) /\ Full(MEDS_n, M)
  BY <1>6, <1>7, Products
<1>10. PICK N \in Squares : N = pmod_mat_mul(W, D.B) /\ Full(MEDS_n, N)
  BY <1>6, <1>7, Products
<1>11. a.mu = M /\ a.nu = N
  BY <1>8, <1>9, <1>10
<1>12. WellFormed(a)
  BY <1>6, <1>9, <1>10, <1>11, IsAField, FullIs DEF WellFormed, Squares
<1>13. Span(Cells, pi(M, N, H)) = Span(Cells, pi(D.A, D.B, G0))
  BY <1>6, <1>7, <1>9, <1>10, IsAField, WayBack
<1>14. PICK X \in Codes : X = pi(D.A, D.B, G0)
  BY <1>6, IsAField, PiIs
<1>15. PICK Y \in Codes : Y = pi(M, N, H)
  BY IsAField, PiIs
<1>16. G.ret = 0 /\ G.mat = Attempt(D, G0).mat
  BY <1>8, <1>11, <1>13, <1>14, <1>15, IsAField, FormSame
<1> QED
  BY <1>12, <1>16

-----------------------------------------------------------------------------
\* What is in keys, tapes and signed message, and what the opener makes of it.

G0s     == {rnd_sys_mat(g) : g \in SysDraws}
Draws   == UNION {KeyDraws(k) : k \in Keys}
Made    == {KeyOf(G0, d) : G0 \in G0s, d \in Draws}
Parts   == {key.G : key \in Made} \cup {key.A_inv : key \in Made} \cup {key.B_inv : key \in Made}
Commits == {Absorbed(Attempt(D, G0).mat) : D \in Tilde, G0 \in G0s}

\* Each key is what one of its draws makes of G[0].
KeyInv ==
    /\ msg \in Messages
    /\ sk = [G0 |-> sk.G0, A_inv |-> sk.A_inv, B_inv |-> sk.B_inv]
    /\ sk.G0 \in G0s
    /\ pk \in Seq(Parts) /\ sk.A_inv \in Seq(Parts) /\ sk.B_inv \in Seq(Parts)
    /\ Len(sk.A_inv) = Len(pk) /\ Len(sk.B_inv) = Len(pk) /\ Len(pk) <= MEDS_s - 1
    /\ pc # "keygen" => Len(pk) = MEDS_s - 1
    /\ \A k \in 1..Len(pk) : \E d \in KeyDraws(k) :
           KeyOf(sk.G0, d) = [ret |-> 0, A_inv |-> sk.A_inv[k], B_inv |-> sk.B_inv[k], G |-> pk[k]]

Fails(D) == Attempt(D, sk.G0).ret # 0

\* The last draw of a finished round is the one that was absorbed, all others
\* have failed.
TapeInv ==
    /\ tape \in [Rounds -> Seq(Tilde)]
    /\ G_tilde \in Seq(Commits)
    /\ pc = "keygen" => i = 0
    /\ Len(G_tilde) = IF pc \in {"keygen", "sign"} THEN i ELSE MEDS_t
    /\ Len(G_tilde) <= MEDS_t
    /\ \A r \in Rounds :
           /\ \A j \in 1..(Len(tape[r]) - 1) : Fails(tape[r][j])
           /\ IF r < Len(G_tilde)
              THEN /\ Len(tape[r]) >= 1
                   /\ ~Fails(Last(tape[r]))
                   /\ G_tilde[r + 1] = Absorbed(Attempt(Last(tape[r]), sk.G0).mat)
              ELSE Len(tape[r]) >= 1 => Fails(Last(tape[r]))

Signature ==
    [munu   |-> [j \in 1..MEDS_w |->
                    LET r == Nth(h, j)
                    IN Response(Last(tape[r]), sk.A_inv[h[r]], sk.B_inv[h[r]])],
     path   |-> [r \in {q \in Rounds : h[q] = 0} |-> 0],
     digest |-> [G |-> G_tilde, m |-> msg],
     salt   |-> "alpha",
     m      |-> msg]

SentInv == pc \in {"sent", "open_parse", "open", "done"} => sm = Signature

\* What was signed is the message, or is not the message that arrives.
GotInv ==
    /\ pc \in {"open_parse", "open", "done"} =>
           /\ got.m \in Messages
           /\ got.m = msg \/ got.digest = [G |-> G_tilde, m |-> msg]
    /\ pc # "done" => verdict = None
    /\ pc = "done" => verdict \in {"accept", "reject"} /\ (verdict = "accept" => got.m = msg)

\* An undamaged signature: the challenge is the signer's, and up to the round
\* it is in the opener has absorbed what the signer did.
TrueInv ==
    /\ pc \notin {"open", "done"} => G_hat = <<>>
    /\ pc = "open_parse" /\ got = sm /\ picked # 0 => h_open = h
    /\ pc \in {"open", "done"} /\ got = sm =>
           /\ h_open = h
           /\ G_hat \in Seq(Commits) /\ Len(G_hat) <= MEDS_t
           /\ \A j \in 1..Len(G_hat) : G_hat[j] = G_tilde[j]
    /\ pc = "open" /\ got = sm =>
           /\ Len(G_hat) = i
           /\ \A r \in Rounds : r >= i /\ h[r] = 0 =>
                  sigma_open[r] \in Nat /\ sigma_open[r] < Len(tape[r])
    /\ pc = "done" /\ got = sm => verdict = "accept"

SchemeInv == WeightInv /\ KeyInv /\ TapeInv /\ SentInv /\ GotInv /\ TrueInv

-----------------------------------------------------------------------------
\* Steps that leave a part of the invariant alone.

Early == {"keygen", "sign", "parse"}

LEMMA KeySame ==
    ASSUME KeyInv, UNCHANGED <<msg, sk, pk>>, pc' = pc \/ pc # "keygen" \/ Len(pk) = MEDS_s - 1
    PROVE  KeyInv'
BY DEF KeyInv

LEMMA TapeSame ==
    ASSUME TapeInv, UNCHANGED <<sk, tape, G_tilde>>,
           \/ UNCHANGED <<pc, i>>
           \/ pc = "keygen" /\ pc' = "sign" /\ i' = i
           \/ Len(G_tilde) = MEDS_t /\ pc' \notin {"keygen", "sign"}
    PROVE  TapeInv'
<1>1. \A D : Fails(D)' = Fails(D)
  BY DEF Fails
<1>2. Len(G_tilde') = IF pc' \in {"keygen", "sign"} THEN i' ELSE MEDS_t
  BY DEF TapeInv
<1>3. pc' = "keygen" => i' = 0
  BY DEF TapeInv
<1> QED
  BY <1>1, <1>2, <1>3 DEF TapeInv

LEMMA SentSame ==
    ASSUME SentInv, UNCHANGED <<msg, sk, tape, h, G_tilde, sm>>,
           pc' = pc \/ pc \in {"sent", "open_parse", "open", "done"}
    PROVE  SentInv'
<1>1. Signature' = Signature
  BY DEF Signature, Nth, Challenges, Before
<1> QED
  BY <1>1 DEF SentInv

LEMMA EarlyRest ==
    ASSUME pc \in Early, pc' \in Early, GotInv, TrueInv, UNCHANGED <<verdict, G_hat>>
    PROVE  SentInv' /\ GotInv' /\ TrueInv'
BY DEF Early, SentInv, GotInv, TrueInv

\* The signer's part of the state does not change any more.
LEMMA OpenerStep ==
    ASSUME KeyInv, TapeInv, SentInv, UNCHANGED <<msg, sk, pk, signer>>,
           pc \in {"sent", "open_parse", "open", "done"},
           pc' \in {"sent", "open_parse", "open", "done"}
    PROVE  KeyInv' /\ TapeInv' /\ SentInv'
<1>1. KeyInv'
  BY KeySame
<1>2. TapeInv'
  <2>1. Len(G_tilde) = MEDS_t
    BY DEF TapeInv
  <2> QED
    BY <2>1, TapeSame DEF signer
<1>3. SentInv'
  BY SentSame DEF signer
<1> QED
  BY <1>1, <1>2, <1>3

LEMMA SchemeStop == SchemeInv /\ UNCHANGED vars => SchemeInv'
<1> SUFFICES ASSUME SchemeInv, UNCHANGED vars PROVE SchemeInv'
  OBVIOUS
<1>1. WeightInv'
  BY WeightSame DEF SchemeInv, vars, signer, opener
<1>2. KeyInv'
  BY KeySame DEF SchemeInv, vars
<1>3. TapeInv'
  BY TapeSame DEF SchemeInv, vars, signer
<1>4. SentInv'
  BY SentSame DEF SchemeInv, vars, signer
<1>5. GotInv'
  BY DEF SchemeInv, GotInv, vars, signer, opener
<1>6. TrueInv'
  BY DEF SchemeInv, TrueInv, vars, signer, opener
<1> QED
  BY <1>1, <1>2, <1>3, <1>4, <1>5, <1>6 DEF SchemeInv

-----------------------------------------------------------------------------
LEMMA SchemeInit == Init => SchemeInv
<1> SUFFICES ASSUME Init PROVE SchemeInv
  OBVIOUS
<1>1. WeightInv
  BY WeightInit
<1>2. \A S : <<>> \in Seq(S) /\ Len(<<>>) = 0
  OBVIOUS
<1>3. MEDS_t \in Nat \ {0} /\ MEDS_s - 1 \in Nat
  BY SchemeAssumption
<1>4. pc = "keygen" /\ pk = <<>> /\ i = 0 /\ msg \in ToSign /\ G_tilde = <<>> /\ G_hat = <<>>
      /\ verdict = None /\ tape = [r \in Rounds |-> <<>>]
  BY DEF Init
<1>5. PICK g \in SysDraws : sk = [G0 |-> rnd_sys_mat(g), A_inv |-> <<>>, B_inv |-> <<>>]
  BY DEF Init
<1>6. KeyInv
  <2>1. msg \in Messages
    BY <1>4, SchemeAssumption
  <2>2. sk.G0 \in G0s /\ sk.A_inv = <<>> /\ sk.B_inv = <<>>
        /\ sk = [G0 |-> sk.G0, A_inv |-> sk.A_inv, B_inv |-> sk.B_inv]
    BY <1>5 DEF G0s
  <2>3. \A k : k \notin 1..0
    OBVIOUS
  <2> QED
    BY <1>2, <1>3, <1>4, <2>1, <2>2, <2>3 DEF KeyInv
<1>7. TapeInv
  <2>1. tape \in [Rounds -> Seq(Tilde)] /\ \A r \in Rounds : tape[r] = <<>> /\ r >= 0
    BY <1>2, <1>3, <1>4 DEF Rounds
  <2>2. \A r \in Rounds : Len(tape[r]) = 0
    BY <1>2, <2>1
  <2>3. Len(G_tilde) = 0 /\ G_tilde \in Seq(Commits)
    BY <1>2, <1>4
  <2>4. \A r \in Rounds : ~(r < 0)
    BY <1>3 DEF Rounds
  <2> QED
    BY <1>3, <1>4, <2>1, <2>2, <2>3, <2>4 DEF TapeInv
<1>8. SentInv /\ GotInv /\ TrueInv
  BY <1>4 DEF SentInv, GotInv, TrueInv
<1> QED
  BY <1>1, <1>6, <1>7, <1>8 DEF SchemeInv

\* An attempt that succeeds makes a key.
LEMMA KeyShape ==
    ASSUME NEW G0, NEW d, KeyOf(G0, d).ret = 0
    PROVE  KeyOf(G0, d) = [ret |-> 0, A_inv |-> KeyOf(G0, d).A_inv,
                           B_inv |-> KeyOf(G0, d).B_inv, G |-> KeyOf(G0, d).G]
BY DEF KeyOf, NoKey

\* AppendProperties, for a sequence that has a name.
LEMMA Grown ==
    ASSUME NEW S, NEW s \in Seq(S), NEW e \in S, NEW t, t = Append(s, e)
    PROVE  /\ t \in Seq(S) /\ Len(t) = Len(s) + 1 /\ t[Len(s) + 1] = e
           /\ \A k \in 1..Len(s) : t[k] = s[k]
BY AppendProperties

LEMMA StepKeyGen == SchemeInv /\ KeyGen => SchemeInv'
<1> SUFFICES ASSUME SchemeInv, KeyGen PROVE SchemeInv'
  OBVIOUS
<1>1. /\ pc = "keygen" /\ Len(pk) < MEDS_s - 1
      /\ UNCHANGED <<pc, msg, i, tape, G_tilde, verdict, G_hat>>
  BY DEF KeyGen, signer, opener
<1>2. PICK d \in KeyDraws(Len(pk) + 1) :
          /\ KeyOf(sk.G0, d).ret = 0
          /\ pk' = Append(pk, KeyOf(sk.G0, d).G)
          /\ sk' = [sk EXCEPT !.A_inv = Append(@, KeyOf(sk.G0, d).A_inv),
                              !.B_inv = Append(@, KeyOf(sk.G0, d).B_inv)]
  BY DEF KeyGen
<1> DEFINE key == KeyOf(sk.G0, d)
           n == Len(pk)
<1>3. KeyInv /\ TapeInv /\ GotInv /\ TrueInv
  BY DEF SchemeInv
<1>4. n \in Nat /\ MEDS_s \in Nat /\ n + 1 \in Keys /\ n + 1 <= MEDS_s - 1
  <2>1. n \in Nat
    BY <1>3, LenProperties DEF KeyInv
  <2> QED
    BY <1>1, <2>1, SchemeAssumption DEF Keys
<1>5. key.G \in Parts /\ key.A_inv \in Parts /\ key.B_inv \in Parts
  <2>1. key \in Made
    BY <1>3, <1>4 DEF KeyInv, Made, Draws
  <2> QED
    BY <2>1 DEF Parts
<1>6. key = [ret |-> 0, A_inv |-> key.A_inv, B_inv |-> key.B_inv, G |-> key.G]
  BY <1>2, KeyShape
<1>7. /\ sk'.G0 = sk.G0
      /\ sk'.A_inv = Append(sk.A_inv, key.A_inv)
      /\ sk'.B_inv = Append(sk.B_inv, key.B_inv)
      /\ sk' = [G0 |-> sk'.G0, A_inv |-> sk'.A_inv, B_inv |-> sk'.B_inv]
  BY <1>2, <1>3 DEF KeyInv
<1> HIDE DEF key
<1>8. /\ pk' \in Seq(Parts) /\ Len(pk') = n + 1 /\ pk'[n + 1] = key.G
      /\ \A k \in 1..n : pk'[k] = pk[k]
  BY <1>2, <1>3, <1>5, AppendProperties DEF KeyInv, key
<1>9. /\ sk'.A_inv \in Seq(Parts) /\ Len(sk'.A_inv) = n + 1 /\ sk'.A_inv[n + 1] = key.A_inv
      /\ \A k \in 1..n : sk'.A_inv[k] = sk.A_inv[k]
  <2>1. /\ sk.A_inv \in Seq(Parts) /\ key.A_inv \in Parts
        /\ sk'.A_inv = Append(sk.A_inv, key.A_inv)
    BY <1>3, <1>5, <1>7 DEF KeyInv
  <2>2. /\ sk'.A_inv \in Seq(Parts) /\ Len(sk'.A_inv) = Len(sk.A_inv) + 1
        /\ sk'.A_inv[Len(sk.A_inv) + 1] = key.A_inv
        /\ \A k \in 1..Len(sk.A_inv) : sk'.A_inv[k] = sk.A_inv[k]
    BY ONLY <2>1, Grown
  <2>3. Len(sk.A_inv) = n
    BY <1>3 DEF KeyInv
  <2> QED
    BY ONLY <2>2, <2>3, Zenon
<1>10. /\ sk'.B_inv \in Seq(Parts) /\ Len(sk'.B_inv) = n + 1 /\ sk'.B_inv[n + 1] = key.B_inv
       /\ \A k \in 1..n : sk'.B_inv[k] = sk.B_inv[k]
  <2>1. /\ sk.B_inv \in Seq(Parts) /\ key.B_inv \in Parts
        /\ sk'.B_inv = Append(sk.B_inv, key.B_inv)
    BY <1>3, <1>5, <1>7 DEF KeyInv
  <2>2. /\ sk'.B_inv \in Seq(Parts) /\ Len(sk'.B_inv) = Len(sk.B_inv) + 1
        /\ sk'.B_inv[Len(sk.B_inv) + 1] = key.B_inv
        /\ \A k \in 1..Len(sk.B_inv) : sk'.B_inv[k] = sk.B_inv[k]
    BY ONLY <2>1, Grown
  <2>3. Len(sk.B_inv) = n
    BY <1>3 DEF KeyInv
  <2> QED
    BY ONLY <2>2, <2>3, Zenon
<1>11. ASSUME NEW k \in 1..(n + 1)
       PROVE  \E e \in KeyDraws(k) :
                  KeyOf(sk'.G0, e) = [ret |-> 0, A_inv |-> sk'.A_inv[k], B_inv |-> sk'.B_inv[k], G |-> pk'[k]]
  <2>1. CASE k \in 1..n
    <3>1. PICK e \in KeyDraws(k) :
              KeyOf(sk.G0, e) = [ret |-> 0, A_inv |-> sk.A_inv[k], B_inv |-> sk.B_inv[k], G |-> pk[k]]
      BY <1>3, <2>1 DEF KeyInv
    <3> QED
      BY <1>7, <1>8, <1>9, <1>10, <2>1, <3>1
  <2>2. CASE k = n + 1
    BY <1>6, <1>7, <1>8, <1>9, <1>10, <2>2 DEF key
  <2> QED
    BY <1>4, <2>1, <2>2
<1>12. KeyInv'
  BY <1>1, <1>3, <1>4, <1>7, <1>8, <1>9, <1>10, <1>11 DEF KeyInv
<1>13. TapeInv'
  <2>1. \A D : Fails(D)' = Fails(D)
    BY <1>7 DEF Fails
  <2> QED
    BY <1>1, <1>3, <1>7, <2>1 DEF TapeInv
<1>14. WeightInv'
  BY WeightKeyGen DEF SchemeInv
<1>15. SentInv' /\ GotInv' /\ TrueInv'
  BY <1>1, <1>3, EarlyRest DEF Early
<1> QED
  BY <1>12, <1>13, <1>14, <1>15 DEF SchemeInv

LEMMA StepKeyDone == SchemeInv /\ KeyDone => SchemeInv'
<1> SUFFICES ASSUME SchemeInv, KeyDone PROVE SchemeInv'
  OBVIOUS
<1>1. /\ pc = "keygen" /\ pc' = "sign" /\ Len(pk) = MEDS_s - 1
      /\ UNCHANGED <<msg, sk, pk, i, tape, G_tilde, verdict, G_hat>>
  BY DEF KeyDone, signer, opener
<1> QED
  BY <1>1, WeightKeyDone, KeySame, TapeSame, EarlyRest DEF SchemeInv, Early

\* The signer has tried one more draw for round i.
LEMMA Tried ==
    ASSUME TapeInv, NEW D \in Tilde, i \in Rounds, pc = "sign",
           tape' = [tape EXCEPT ![i] = Append(@, D)]
    PROVE  /\ tape' \in [Rounds -> Seq(Tilde)]
           /\ \A r \in Rounds \ {i} : tape'[r] = tape[r]
           /\ Len(tape'[i]) >= 1 /\ Last(tape'[i]) = D
           /\ \A j \in 1..(Len(tape'[i]) - 1) : Fails(tape'[i][j])
<1>1. tape \in [Rounds -> Seq(Tilde)] /\ Len(G_tilde) = i
  BY DEF TapeInv
<1>2. /\ \A j \in 1..(Len(tape[i]) - 1) : Fails(tape[i][j])
      /\ Len(tape[i]) >= 1 => Fails(tape[i][Len(tape[i])])
  BY <1>1 DEF TapeInv, Last
<1> DEFINE s == tape[i]
           t == tape'[i]
           n == Len(s)
<1>3. s \in Seq(Tilde) /\ n \in Nat /\ t = Append(s, D)
  BY <1>1, LenProperties
<1>4. t \in Seq(Tilde) /\ Len(t) = n + 1 /\ t[n + 1] = D /\ \A j \in 1..n : t[j] = s[j]
  BY <1>3, AppendProperties
<1>5. \A j \in 1..n : Fails(s[j])
  <2>1. \A j \in 1..n : j \in 1..(n - 1) \/ (j = n /\ n >= 1)
    BY <1>3
  <2> QED
    BY <1>2, <2>1
<1>6. tape' \in [Rounds -> Seq(Tilde)] /\ \A r \in Rounds \ {i} : tape'[r] = tape[r]
  BY <1>1, <1>3, <1>4
<1> HIDE DEF s, n
<1>7. Len(t) - 1 = n /\ Len(t) >= 1
  BY <1>3, <1>4
<1>8. Last(t) = D
  BY <1>4 DEF Last
<1> QED
  BY <1>4, <1>5, <1>6, <1>7, <1>8

LEMMA StepSignRetry == SchemeInv /\ SignRetry => SchemeInv'
<1> SUFFICES ASSUME SchemeInv, SignRetry PROVE SchemeInv'
  OBVIOUS
<1>1. pc = "sign" /\ i < MEDS_t /\ UNCHANGED <<pc, msg, sk, pk, i, G_tilde, verdict, G_hat>>
  BY DEF SignRetry, opener
<1>2. PICK D \in Tilde : Attempt(D, sk.G0).ret # 0 /\ tape' = [tape EXCEPT ![i] = Append(@, D)]
  BY DEF SignRetry
<1>3. KeyInv /\ TapeInv /\ GotInv /\ TrueInv /\ i \in Rounds
  BY <1>1, SchemeAssumption DEF SchemeInv, WeightInv, Rounds
<1>4. TapeInv'
  <2>1. Fails(D) /\ \A E : Fails(E)' = Fails(E)
    BY <1>1, <1>2 DEF Fails
  <2>2. Len(G_tilde) = i /\ i \in Nat
    BY <1>1, <1>3 DEF TapeInv, Rounds
  <2>3. /\ tape' \in [Rounds -> Seq(Tilde)]
        /\ \A r \in Rounds \ {i} : tape'[r] = tape[r]
        /\ Len(tape'[i]) >= 1 /\ Last(tape'[i]) = D
        /\ \A j \in 1..(Len(tape'[i]) - 1) : Fails(tape'[i][j])
    BY <1>1, <1>2, <1>3, Tried
  <2>4. ASSUME NEW r \in Rounds
        PROVE  /\ \A j \in 1..(Len(tape'[r]) - 1) : Fails(tape'[r][j])
               /\ IF r < Len(G_tilde)
                  THEN /\ Len(tape'[r]) >= 1
                       /\ ~Fails(Last(tape'[r]))
                       /\ G_tilde[r + 1] = Absorbed(Attempt(Last(tape'[r]), sk.G0).mat)
                  ELSE Len(tape'[r]) >= 1 => Fails(Last(tape'[r]))
    <3>1. CASE r = i
      BY <2>1, <2>2, <2>3, <3>1
    <3>2. CASE r # i
      <4>1. tape'[r] = tape[r]
        BY <2>3, <3>2
      <4> QED
        BY <1>3, <4>1 DEF TapeInv
    <3> QED
      BY <3>1, <3>2
  <2>5. G_tilde \in Seq(Commits) /\ Len(G_tilde) = i /\ i <= MEDS_t
    BY <1>1, <1>3 DEF TapeInv
  <2> QED
    BY <1>1, <2>1, <2>3, <2>4, <2>5 DEF TapeInv
<1>5. KeyInv'
  BY <1>1, <1>3, KeySame
<1>6. WeightInv'
  BY WeightSignRetry DEF SchemeInv
<1> QED
  BY <1>1, <1>3, <1>4, <1>5, <1>6, EarlyRest DEF SchemeInv, Early

LEMMA StepSignRound == SchemeInv /\ SignRound => SchemeInv'
<1> SUFFICES ASSUME SchemeInv, SignRound PROVE SchemeInv'
  OBVIOUS
<1>1. pc = "sign" /\ i < MEDS_t /\ i' = i + 1 /\ UNCHANGED <<pc, msg, sk, pk, verdict, G_hat>>
  BY DEF SignRound, opener
<1>2. PICK D \in Tilde :
          /\ Attempt(D, sk.G0).ret = 0
          /\ tape' = [tape EXCEPT ![i] = Append(@, D)]
          /\ G_tilde' = Append(G_tilde, Absorbed(Attempt(D, sk.G0).mat))
  BY DEF SignRound
<1>3. KeyInv /\ TapeInv /\ GotInv /\ TrueInv /\ i \in Rounds /\ i \in Nat /\ MEDS_t \in Nat
  BY <1>1, SchemeAssumption DEF SchemeInv, WeightInv, Rounds
<1> DEFINE C == Absorbed(Attempt(D, sk.G0).mat)
<1>4. C \in Commits
  BY <1>3 DEF KeyInv, Commits
<1> HIDE DEF C
<1>5. /\ G_tilde' \in Seq(Commits) /\ Len(G_tilde') = i + 1 /\ G_tilde'[i + 1] = C
      /\ \A j \in 1..i : G_tilde'[j] = G_tilde[j]
  <2>1. G_tilde \in Seq(Commits) /\ Len(G_tilde) = i
    BY <1>1, <1>3 DEF TapeInv
  <2> QED
    BY <1>2, <1>4, <2>1, AppendProperties DEF C
<1>6. TapeInv'
  <2>1. ~Fails(D) /\ \A E : Fails(E)' = Fails(E)
    BY <1>1, <1>2 DEF Fails
  <2>2. Len(G_tilde) = i
    BY <1>1, <1>3 DEF TapeInv
  <2>3. /\ tape' \in [Rounds -> Seq(Tilde)]
        /\ \A r \in Rounds \ {i} : tape'[r] = tape[r]
        /\ Len(tape'[i]) >= 1 /\ Last(tape'[i]) = D
        /\ \A j \in 1..(Len(tape'[i]) - 1) : Fails(tape'[i][j])
    BY <1>1, <1>2, <1>3, Tried
  <2>4. ASSUME NEW r \in Rounds
        PROVE  /\ \A j \in 1..(Len(tape'[r]) - 1) : Fails(tape'[r][j])
               /\ IF r < i + 1
                  THEN /\ Len(tape'[r]) >= 1
                       /\ ~Fails(Last(tape'[r]))
                       /\ G_tilde'[r + 1] = Absorbed(Attempt(Last(tape'[r]), sk.G0).mat)
                  ELSE Len(tape'[r]) >= 1 => Fails(Last(tape'[r]))
    <3>1. CASE r = i
      BY <1>3, <1>5, <2>1, <2>3, <3>1 DEF C
    <3>2. CASE r # i
      <4>1. tape'[r] = tape[r] /\ r \in Nat
        BY <2>3, <3>2 DEF Rounds
      <4>2. r < i + 1 <=> r < Len(G_tilde)
        BY <1>3, <2>2, <3>2, <4>1
      <4>3. r < i + 1 => G_tilde'[r + 1] = G_tilde[r + 1]
        <5>1. r < i + 1 => r + 1 \in 1..i
          BY <1>3, <3>2, <4>1
        <5> QED
          BY <1>5, <5>1
      <4> QED
        BY <1>3, <4>1, <4>2, <4>3 DEF TapeInv
    <3> QED
      BY <3>1, <3>2
  <2>5. i + 1 <= MEDS_t
    BY <1>1, <1>3
  <2> QED
    BY <1>1, <1>5, <2>1, <2>3, <2>4, <2>5 DEF TapeInv
<1>7. KeyInv'
  BY <1>1, <1>3, KeySame
<1>8. WeightInv'
  BY WeightSignRound DEF SchemeInv
<1> QED
  BY <1>1, <1>3, <1>6, <1>7, <1>8, EarlyRest DEF SchemeInv, Early

LEMMA StepSignHash == SchemeInv /\ SignHash => SchemeInv'
<1> SUFFICES ASSUME SchemeInv, SignHash PROVE SchemeInv'
  OBVIOUS
<1>1. /\ pc = "sign" /\ pc' = "parse" /\ i = MEDS_t
      /\ UNCHANGED <<msg, sk, pk, i, tape, G_tilde, verdict, G_hat>>
  BY DEF SignHash, signer, opener
<1>2. Len(G_tilde) = MEDS_t
  BY <1>1 DEF SchemeInv, TapeInv
<1>3. KeyInv' /\ TapeInv'
  BY <1>1, <1>2, KeySame, TapeSame DEF SchemeInv
<1> QED
  BY <1>1, <1>3, WeightSignHash, EarlyRest DEF SchemeInv, Early

LEMMA StepSignPick == SchemeInv /\ SignPick => SchemeInv'
<1> SUFFICES ASSUME SchemeInv, SignPick PROVE SchemeInv'
  OBVIOUS
<1>1. pc = "parse" /\ UNCHANGED <<pc, msg, sk, pk, i, tape, G_tilde, verdict, G_hat>>
  BY DEF SignPick, opener
<1>2. KeyInv' /\ TapeInv'
  BY <1>1, KeySame, TapeSame DEF SchemeInv
<1> QED
  BY <1>1, <1>2, WeightSignPick, EarlyRest DEF SchemeInv, Early

LEMMA StepRespond == SchemeInv /\ Respond => SchemeInv'
<1> SUFFICES ASSUME SchemeInv, Respond PROVE SchemeInv'
  OBVIOUS
<1>1. pc = "parse" /\ pc' = "sent"
      /\ UNCHANGED <<msg, sk, pk, i, tape, G_tilde, h, got, verdict, G_hat>>
  BY DEF Respond, opener
<1>2. Len(G_tilde) = MEDS_t
  BY <1>1 DEF SchemeInv, TapeInv
<1>3. KeyInv' /\ TapeInv'
  BY <1>1, <1>2, KeySame, TapeSame DEF SchemeInv
<1>4. SentInv'
  <2>1. sm' = Signature
    <3>1. sigma' = [r \in Rounds |-> 0]
      BY DEF Respond, t_hash
    <3>2. [r \in {q \in Rounds : h[q] = 0} |-> sigma'[r]] = [r \in {q \in Rounds : h[q] = 0} |-> 0]
      BY <3>1
    <3> QED
      BY <3>2 DEF Respond, Signature
  <2>2. Signature' = Signature
    BY <1>1 DEF Signature, Nth, Challenges, Before
  <2> QED
    BY <2>1, <2>2 DEF SentInv
<1>5. GotInv' /\ TrueInv'
  BY <1>1 DEF SchemeInv, GotInv, TrueInv
<1> QED
  BY <1>3, <1>4, <1>5, WeightRespond DEF SchemeInv

\* What a damaged field leaves alone.
LEMMA DamageKeeps ==
    ASSUME sm = Signature, msg \in Messages, NEW g \in {sm} \cup Damages(sm)
    PROVE  /\ g.m \in Messages
           /\ g.m = msg \/ g.digest = [G |-> G_tilde, m |-> msg]
<1>1. sm = [munu |-> sm.munu, path |-> sm.path, digest |-> sm.digest, salt |-> sm.salt, m |-> sm.m]
      /\ sm.m = msg /\ sm.digest = [G |-> G_tilde, m |-> msg]
  BY DEF Signature
<1>2. CASE g = sm
  BY <1>1, <1>2
<1>3. CASE g \in {[sm EXCEPT !.m = m] : m \in Messages \ {sm.m}}
  BY <1>1, <1>3
<1>4. CASE g \in {[sm EXCEPT !.digest = None], [sm EXCEPT !.salt = "other"]}
  BY <1>1, <1>4
<1>5. CASE g \in DamagedPaths(sm)
  <2>1. PICK R \in SUBSET DOMAIN sm.path \ {{}} :
            g = [sm EXCEPT !.path = [r \in DOMAIN sm.path |-> IF r \in R THEN Other ELSE sm.path[r]]]
    BY <1>5, Zenon DEF DamagedPaths
  <2> QED
    BY <1>1, <2>1
<1>6. CASE g \in DamagedMus(sm)
  <2>1. PICK j \in 1..MEDS_w : g \in {[sm EXCEPT !.munu[j].mu = D] : D \in Damaged \ {sm.munu[j].mu}}
    BY <1>6, Zenon DEF DamagedMus
  <2> QED
    BY <1>1, <2>1
<1>7. CASE g \in DamagedNus(sm)
  <2>1. PICK j \in 1..MEDS_w : g \in {[sm EXCEPT !.munu[j].nu = D] : D \in Damaged \ {sm.munu[j].nu}}
    BY <1>7, Zenon DEF DamagedNus
  <2> QED
    BY <1>1, <2>1
<1> QED
  BY <1>2, <1>3, <1>4, <1>5, <1>6, <1>7 DEF Damages

LEMMA StepDeliver == SchemeInv /\ Deliver => SchemeInv'
<1> SUFFICES ASSUME SchemeInv, Deliver PROVE SchemeInv'
  OBVIOUS
<1>1. /\ pc = "sent" /\ pc' = "open_parse" /\ got' \in {sm} \cup Damages(sm) /\ picked' = 0
      /\ UNCHANGED <<msg, sk, pk, signer, verdict, G_hat>>
  BY DEF Deliver
<1>2. KeyInv' /\ TapeInv' /\ SentInv'
  BY <1>1, OpenerStep DEF SchemeInv
<1>3. got'.m \in Messages /\ (got'.m = msg \/ got'.digest = [G |-> G_tilde, m |-> msg])
  <2>1. sm = Signature /\ msg \in Messages
    BY <1>1 DEF SchemeInv, SentInv, KeyInv
  <2> QED
    BY <1>1, <2>1, DamageKeeps
<1>4. GotInv'
  BY <1>1, <1>3 DEF SchemeInv, GotInv, signer
<1>5. TrueInv'
  BY <1>1 DEF SchemeInv, TrueInv
<1> QED
  BY <1>2, <1>4, <1>5, WeightDeliver DEF SchemeInv

LEMMA StepOpenPick == SchemeInv /\ OpenPick => SchemeInv'
<1> SUFFICES ASSUME SchemeInv, OpenPick PROVE SchemeInv'
  OBVIOUS
<1>1. /\ pc = "open_parse" /\ got.digest # sm.digest
      /\ UNCHANGED <<pc, msg, sk, pk, i, signer, got, verdict, G_hat>>
  BY DEF OpenPick
<1>2. KeyInv' /\ TapeInv' /\ SentInv'
  BY <1>1, OpenerStep DEF SchemeInv
<1>3. GotInv' /\ TrueInv'
  BY <1>1 DEF SchemeInv, GotInv, TrueInv, signer
<1> QED
  BY <1>2, <1>3, WeightOpenPick DEF SchemeInv

LEMMA StepOpenRecall == SchemeInv /\ OpenRecall => SchemeInv'
<1> SUFFICES ASSUME SchemeInv, OpenRecall PROVE SchemeInv'
  OBVIOUS
<1>1. /\ pc = "open_parse" /\ h_open' = h
      /\ UNCHANGED <<pc, msg, sk, pk, i, signer, got, verdict, G_hat>>
  BY DEF OpenRecall
<1>2. KeyInv' /\ TapeInv' /\ SentInv'
  BY <1>1, OpenerStep DEF SchemeInv
<1>3. GotInv' /\ TrueInv'
  BY <1>1 DEF SchemeInv, GotInv, TrueInv, signer
<1> QED
  BY <1>2, <1>3, WeightOpenRecall DEF SchemeInv

\* Every round has a draw once all are committed to.
LEMMA HasDraw ==
    ASSUME TapeInv, pc \notin {"keygen", "sign"}, NEW r \in Rounds
    PROVE  /\ tape[r] \in Seq(Tilde) /\ Len(tape[r]) \in Nat /\ Len(tape[r]) >= 1
           /\ Last(tape[r]) = tape[r][Len(tape[r])] /\ Last(tape[r]) \in Tilde
           /\ Attempt(Last(tape[r]), sk.G0).ret = 0
           /\ G_tilde[r + 1] = Absorbed(Attempt(Last(tape[r]), sk.G0).mat)
           /\ \A j \in 1..(Len(tape[r]) - 1) : Attempt(tape[r][j], sk.G0).ret # 0
<1>1. r < Len(G_tilde)
  BY SchemeAssumption DEF TapeInv, Rounds
<1>2. tape[r] \in Seq(Tilde) /\ Len(tape[r]) >= 1
  BY <1>1 DEF TapeInv
<1>3. Len(tape[r]) \in Nat
  BY <1>2, LenProperties
<1>4. Len(tape[r]) \in 1..Len(tape[r])
  BY <1>2, <1>3
<1>5. tape[r][Len(tape[r])] \in Tilde
  BY <1>2, <1>4, ElementOfSeq
<1>6. Last(tape[r]) = tape[r][Len(tape[r])]
  BY DEF Last
<1> QED
  BY <1>1, <1>2, <1>3, <1>5, <1>6 DEF TapeInv, Fails

LEMMA StepOpenStart == SchemeInv /\ OpenStart => SchemeInv'
<1> SUFFICES ASSUME SchemeInv, OpenStart PROVE SchemeInv'
  OBVIOUS
<1>1. /\ pc = "open_parse" /\ picked = MEDS_w /\ pc' = "open"
      /\ UNCHANGED <<msg, sk, pk, i, signer, got, h_open, verdict, G_hat>>
      /\ sigma_open' = [r \in Rounds |-> IF got.salt = sm.salt /\ h_open = h /\ h[r] = 0
                                         THEN got.path[r] ELSE Other]
  BY DEF OpenStart
<1>2. KeyInv' /\ TapeInv' /\ SentInv'
  BY <1>1, OpenerStep DEF SchemeInv
<1>3. GotInv'
  BY <1>1 DEF SchemeInv, GotInv, signer
<1>4. G_hat = <<>> /\ i = 0
  BY <1>1 DEF SchemeInv, TrueInv, WeightInv, Opened
<1>5. ASSUME got = sm
      PROVE  h_open = h /\ \A r \in Rounds : h[r] = 0 => sigma_open'[r] = 0 /\ 0 < Len(tape[r])
  <2>1. h_open = h
    BY <1>1, <1>5, SchemeAssumption DEF SchemeInv, TrueInv
  <2>2. sm.path = [r \in {q \in Rounds : h[q] = 0} |-> 0]
    BY <1>1 DEF SchemeInv, SentInv, Signature
  <2>3. \A r \in Rounds : h[r] = 0 => sigma_open'[r] = 0
    BY <1>1, <1>5, <2>1, <2>2
  <2>4. \A r \in Rounds : 0 < Len(tape[r])
    <3> TAKE r \in Rounds
    <3>1. TapeInv /\ pc \notin {"keygen", "sign"}
      BY <1>1 DEF SchemeInv
    <3>2. Len(tape[r]) \in Nat /\ Len(tape[r]) >= 1
      BY <3>1, HasDraw
    <3> QED
      BY <3>2
  <2> QED
    BY <2>1, <2>3, <2>4
<1>6. <<>> \in Seq(Commits) /\ Len(<<>>) = 0 /\ MEDS_t \in Nat
  BY SchemeAssumption
<1>7. TrueInv'
  <2>1. (got = sm)' = (got = sm) /\ h' = h /\ tape' = tape /\ G_tilde' = G_tilde
    BY <1>1 DEF signer
  <2>2. G_hat' = <<>> /\ i' = 0 /\ h_open' = h_open /\ pc' = "open"
    BY <1>1, <1>4
  <2>3. \A j : j \notin 1..0
    OBVIOUS
  <2> QED
    BY <1>5, <1>6, <2>1, <2>2, <2>3 DEF TrueInv
<1> QED
  BY <1>2, <1>3, <1>7, WeightOpenStart DEF SchemeInv

-----------------------------------------------------------------------------
\* The rounds of an undamaged signature.

\* The challenged rounds are counted in order.
LEMMA NthIs ==
    ASSUME NEW hh \in Hashes, NEW r \in Rounds, hh[r] > 0
    PROVE  Nth(hh, Challenges(Before(hh, r)) + 1) = r
<1>1. ASSUME NEW p \in Rounds, NEW q \in Rounds, p < q, hh[p] > 0
      PROVE  Challenges(Before(hh, p)) < Challenges(Before(hh, q))
  <2>1. Challenges(Before(hh, p + 1)) = Challenges(Before(hh, p)) + 1
    BY <1>1, BeforeNext
  <2>2. {x \in Rounds : Before(hh, p + 1)[x] > 0} \subseteq {x \in Rounds : Before(hh, q)[x] > 0}
    <3>1. \A x \in Rounds : x < p + 1 => x < q
      BY <1>1 DEF Rounds
    <3> QED
      BY <3>1 DEF Before
  <2>3. Challenges(Before(hh, p + 1)) <= Challenges(Before(hh, q))
    BY <2>2, ChallengesType, FS_Subset DEF Challenges
  <2>4. Challenges(Before(hh, p)) \in Nat /\ Challenges(Before(hh, q)) \in Nat
    BY ChallengesType
  <2> QED
    BY <2>1, <2>3, <2>4
<1> DEFINE c == Challenges(Before(hh, r))
           P(x) == hh[x] > 0 /\ Challenges(Before(hh, x)) = (c + 1) - 1
<1>2. c \in Nat
  BY ChallengesType
<1>3. P(r)
  BY <1>2
<1>4. ASSUME NEW x \in Rounds, P(x) PROVE x = r
  <2>1. x \in Int /\ r \in Int
    BY DEF Rounds
  <2>2. ~(x < r)
    BY <1>1, <1>2, <1>4
  <2>3. ~(r < x)
    BY <1>1, <1>2, <1>4
  <2> QED
    BY <2>1, <2>2, <2>3
<1>5. Nth(hh, c + 1) = CHOOSE x \in Rounds : P(x)
  BY DEF Nth
<1> HIDE DEF c, P
<1>6. (CHOOSE x \in Rounds : P(x)) = r
  BY <1>3, <1>4
<1> QED
  BY <1>5, <1>6 DEF c

\* A challenged round has its response in the signature, and leads back to the
\* signer's commitment.
LEMMA Recovery ==
    ASSUME SchemeInv, pc = "open", i < MEDS_t, h_open[i] > 0, got = sm
    PROVE  /\ WellFormed(got.munu[nread + 1])
           /\ Recovered.ret = 0 /\ Absorbed(Recovered.mat) = G_tilde[i + 1]
<1>1. i \in Rounds /\ h \in Hashes /\ h_open = h /\ h[i] > 0 /\ nread = Challenges(Before(h, i))
  BY SchemeAssumption DEF SchemeInv, WeightInv, Signed, Opened, TrueInv, Rounds
<1>2. nread + 1 \in 1..MEDS_w
  BY ReadsInsideInv DEF SchemeInv, ReadsInside
<1>3. Nth(h, nread + 1) = i
  BY <1>1, NthIs
<1> DEFINE D == Last(tape[i])
           k == h[i]
           a == Response(D, sk.A_inv[k], sk.B_inv[k])
<1>4. got.munu[nread + 1] = a
  <2>1. sm.munu = [j \in 1..MEDS_w |->
                      LET r == Nth(h, j)
                      IN Response(Last(tape[r]), sk.A_inv[h[r]], sk.B_inv[h[r]])]
    BY DEF SchemeInv, SentInv, Signature
  <2> QED
    BY <1>2, <1>3, <2>1
<1>5. D \in Tilde /\ Attempt(D, sk.G0).ret = 0 /\ G_tilde[i + 1] = Absorbed(Attempt(D, sk.G0).mat)
  BY <1>1, HasDraw DEF SchemeInv
<1>6. k \in Keys /\ k \in 1..Len(pk)
  BY <1>1, SchemeAssumption DEF SchemeInv, KeyInv, Hashes, Keys
<1>7. PICK d \in KeyDraws(k) :
          KeyOf(sk.G0, d) = [ret |-> 0, A_inv |-> sk.A_inv[k], B_inv |-> sk.B_inv[k], G |-> pk[k]]
  BY <1>6 DEF SchemeInv, KeyInv
<1>8. PICK g \in SysDraws : sk.G0 = rnd_sys_mat(g)
  BY DEF SchemeInv, KeyInv, G0s
<1> DEFINE key == KeyOf(sk.G0, d)
           b == Response(D, key.A_inv, key.B_inv)
           R == Attempt([A |-> b.mu, B |-> b.nu], key.G)
<1>9. key.ret = 0 /\ key.G = pk[k] /\ b = a
  BY <1>7
<1>10. key.ret = 0 /\ Attempt(D, sk.G0).ret = 0 =>
           WellFormed(b) /\ R.ret = 0 /\ Absorbed(R.mat) = Absorbed(Attempt(D, sk.G0).mat)
  BY <1>5, <1>6, <1>8, SchemeWayBack
<1>11. Recovered = R
  BY <1>1, <1>4, <1>9 DEF Recovered
<1> QED
  BY <1>4, <1>5, <1>9, <1>10, <1>11

LEMMA StepOpenReject == SchemeInv /\ (OpenMalformed \/ OpenNotSyst) => SchemeInv'
<1> SUFFICES ASSUME SchemeInv, OpenMalformed \/ OpenNotSyst PROVE SchemeInv'
  OBVIOUS
<1>1. /\ pc = "open" /\ pc' = "done" /\ verdict' = "reject" /\ i < MEDS_t /\ h_open[i] > 0
      /\ UNCHANGED <<msg, sk, pk, signer, got, G_hat>>
  BY DEF OpenMalformed, OpenNotSyst, OpenRounds
<1>2. got # sm
  <2> SUFFICES ASSUME got = sm PROVE FALSE
    OBVIOUS
  <2>1. WellFormed(got.munu[nread + 1]) /\ Recovered.ret = 0
    BY <1>1, Recovery
  <2>2. ~(Recovered.ret < 0)
    BY <2>1
  <2> QED
    BY <2>1, <2>2 DEF OpenMalformed, OpenNotSyst
<1>3. KeyInv' /\ TapeInv' /\ SentInv'
  BY <1>1, OpenerStep DEF SchemeInv
<1>4. GotInv'
  BY <1>1 DEF SchemeInv, GotInv, signer
<1>5. TrueInv'
  BY <1>1, <1>2 DEF TrueInv, signer
<1> QED
  BY <1>3, <1>4, <1>5, WeightOpenEnd DEF SchemeInv

\* The opener has absorbed one more commitment.
LEMMA OneAbsorbed ==
    ASSUME SchemeInv, pc = "open", i < MEDS_t, i' = i + 1,
           UNCHANGED <<pc, signer, got, h_open, verdict>>,
           NEW C, G_hat' = Append(G_hat, C), got = sm => C = G_tilde[i + 1],
           \A r \in Rounds : r > i => sigma_open'[r] = sigma_open[r]
    PROVE  TrueInv'
<1>1. i \in Nat /\ i \in Rounds /\ MEDS_t \in Nat
  BY SchemeAssumption DEF SchemeInv, WeightInv, Rounds
<1>2. CASE got # sm
  BY <1>2 DEF TrueInv, signer
<1>3. CASE got = sm
  <2>1. G_hat \in Seq(Commits) /\ Len(G_hat) = i /\ (\A j \in 1..i : G_hat[j] = G_tilde[j]) /\ h_open = h
    BY <1>3 DEF SchemeInv, TrueInv
  <2>2. C \in Commits /\ C = G_tilde[i + 1]
    <3>1. G_tilde \in Seq(Commits) /\ Len(G_tilde) = MEDS_t
      BY DEF SchemeInv, TapeInv
    <3>2. i + 1 \in 1..Len(G_tilde)
      BY <1>1, <3>1
    <3>3. G_tilde[i + 1] \in Commits
      BY ONLY <3>1, <3>2, ElementOfSeq
    <3> QED
      BY <1>3, <3>3
  <2> DEFINE t == G_hat'
             s == G_hat
  <2>3. s \in Seq(Commits) /\ Len(s) = i /\ C \in Commits /\ t = Append(s, C)
    BY <2>1, <2>2
  <2> HIDE DEF s, t
  <2>4. t \in Seq(Commits) /\ Len(t) = i + 1 /\ t[i + 1] = C /\ \A j \in 1..i : t[j] = s[j]
    BY ONLY <2>3, AppendProperties
  <2>5. ASSUME NEW j \in 1..(i + 1) PROVE t[j] = G_tilde[j]
    <3>1. j = i + 1 \/ j \in 1..i
      BY <1>1
    <3> QED
      BY <2>1, <2>2, <2>4, <3>1 DEF s
  <2>6. /\ G_hat' \in Seq(Commits) /\ Len(G_hat') = i + 1 /\ i + 1 <= MEDS_t
        /\ \A j \in 1..(i + 1) : G_hat'[j] = G_tilde[j]
    BY <1>1, <2>4, <2>5 DEF t
  <2>7. \A r \in Rounds : r >= i + 1 /\ h[r] = 0 =>
            sigma_open'[r] \in Nat /\ sigma_open'[r] < Len(tape[r])
    <3> TAKE r \in Rounds
    <3>1. r >= i + 1 => r > i /\ r >= i
      BY <1>1 DEF Rounds
    <3> QED
      BY <1>3, <3>1 DEF SchemeInv, TrueInv
  <2> QED
    BY <1>3, <2>1, <2>6, <2>7 DEF TrueInv, signer
<1> QED
  BY <1>2, <1>3

LEMMA StepOpenChallenged == SchemeInv /\ OpenChallenged => SchemeInv'
<1> SUFFICES ASSUME SchemeInv, OpenChallenged PROVE SchemeInv'
  OBVIOUS
<1>1. /\ pc = "open" /\ i < MEDS_t /\ h_open[i] > 0 /\ i' = i + 1
      /\ UNCHANGED <<pc, msg, sk, pk, signer, got, h_open, sigma_open, verdict>>
      /\ G_hat' = Append(G_hat, Absorbed(Recovered.mat))
  BY DEF OpenChallenged, OpenRounds
<1>2. KeyInv' /\ TapeInv' /\ SentInv'
  BY <1>1, OpenerStep DEF SchemeInv
<1>3. GotInv'
  BY <1>1 DEF SchemeInv, GotInv, signer
<1>4. got = sm => Absorbed(Recovered.mat) = G_tilde[i + 1]
  BY <1>1, Recovery
<1>5. TrueInv'
  BY <1>1, <1>4, OneAbsorbed
<1> QED
  BY <1>2, <1>3, <1>5, WeightOpenChallenged DEF SchemeInv

\* An unchallenged round draws what the signer drew.
LEMMA Replay ==
    ASSUME SchemeInv, pc = "open", i < MEDS_t, h_open[i] = 0, got = sm, NEW D \in Expand(i)
    PROVE  /\ i \in Rounds /\ sigma_open[i] \in Nat /\ sigma_open[i] < Len(tape[i])
           /\ Len(tape[i]) \in Nat
           /\ Attempt(D, sk.G0).ret # 0 => sigma_open[i] + 1 < Len(tape[i])
           /\ Attempt(D, sk.G0).ret = 0 => Absorbed(Attempt(D, sk.G0).mat) = G_tilde[i + 1]
<1>1. i \in Rounds /\ h_open = h
  BY SchemeAssumption DEF SchemeInv, WeightInv, TrueInv, Rounds
<1>2. sigma_open[i] \in Nat /\ sigma_open[i] < Len(tape[i])
  <2>1. i >= i
    BY <1>1 DEF Rounds
  <2> QED
    BY <1>1, <2>1 DEF SchemeInv, TrueInv
<1> DEFINE n == Len(tape[i])
           x == sigma_open[i] + 1
<1>3. /\ n \in Nat /\ n >= 1 /\ Last(tape[i]) = tape[i][n] /\ Attempt(tape[i][n], sk.G0).ret = 0
      /\ G_tilde[i + 1] = Absorbed(Attempt(tape[i][n], sk.G0).mat)
      /\ \A j \in 1..(n - 1) : Attempt(tape[i][j], sk.G0).ret # 0
  BY <1>1, HasDraw DEF SchemeInv
<1>4. D = tape[i][x]
  BY <1>2 DEF Expand
<1>5. x \in 1..(n - 1) \/ x = n
  BY <1>2, <1>3
<1>6. CASE x = n
  BY <1>1, <1>2, <1>3, <1>4, <1>6
<1>7. CASE x \in 1..(n - 1)
  <2>1. x < n
    BY <1>3, <1>7
  <2> QED
    BY <1>1, <1>2, <1>3, <1>4, <1>7, <2>1
<1> QED
  BY <1>5, <1>6, <1>7

LEMMA StepOpenRetry == SchemeInv /\ OpenRetry => SchemeInv'
<1> SUFFICES ASSUME SchemeInv, OpenRetry PROVE SchemeInv'
  OBVIOUS
<1>1. /\ pc = "open" /\ i < MEDS_t /\ h_open[i] = 0
      /\ UNCHANGED <<pc, msg, sk, pk, i, signer, got, h_open, G_hat, verdict>>
      /\ sigma_open' = [sigma_open EXCEPT ![i] = IF @ < Len(tape[i]) THEN @ + 1 ELSE @]
  BY DEF OpenRetry, OpenRounds
<1>2. PICK D \in Expand(i) : Attempt(D, sk.G0).ret # 0
  BY DEF OpenRetry
<1>3. KeyInv' /\ TapeInv' /\ SentInv'
  BY <1>1, OpenerStep DEF SchemeInv
<1>4. GotInv'
  BY <1>1 DEF SchemeInv, GotInv, signer
<1>5. ASSUME got = sm, NEW r \in Rounds, r >= i, h[r] = 0
      PROVE  sigma_open'[r] \in Nat /\ sigma_open'[r] < Len(tape[r])
  <2>1. sigma_open[r] \in Nat /\ sigma_open[r] < Len(tape[r])
    BY <1>1, <1>5 DEF SchemeInv, TrueInv
  <2>2. CASE r = i
    <3>1. sigma_open[i] \in Nat /\ sigma_open[i] + 1 < Len(tape[i]) /\ sigma_open[i] < Len(tape[i])
      BY <1>1, <1>2, <1>5, Replay
    <3>2. sigma_open'[i] \in {sigma_open[i], sigma_open[i] + 1}
      BY <1>1, <2>2
    <3> QED
      BY <2>2, <3>1, <3>2
  <2>3. CASE r # i
    <3>1. sigma_open'[r] = sigma_open[r]
      BY <1>1, <2>3
    <3> QED
      BY <2>1, <3>1
  <2> QED
    BY <2>2, <2>3
<1>6. TrueInv'
  BY <1>1, <1>5 DEF SchemeInv, TrueInv, signer
<1> QED
  BY <1>3, <1>4, <1>6, WeightOpenRetry DEF SchemeInv

LEMMA StepOpenRederive == SchemeInv /\ OpenRederive => SchemeInv'
<1> SUFFICES ASSUME SchemeInv, OpenRederive PROVE SchemeInv'
  OBVIOUS
<1>1. /\ pc = "open" /\ i < MEDS_t /\ h_open[i] = 0 /\ i' = i + 1
      /\ UNCHANGED <<pc, msg, sk, pk, signer, got, h_open, sigma_open, verdict>>
  BY DEF OpenRederive, OpenRounds
<1>2. PICK D \in Expand(i) : /\ Attempt(D, sk.G0).ret = 0
                             /\ G_hat' = Append(G_hat, Absorbed(Attempt(D, sk.G0).mat))
  BY DEF OpenRederive
<1>3. KeyInv' /\ TapeInv' /\ SentInv'
  BY <1>1, OpenerStep DEF SchemeInv
<1>4. GotInv'
  BY <1>1 DEF SchemeInv, GotInv, signer
<1>5. got = sm => Absorbed(Attempt(D, sk.G0).mat) = G_tilde[i + 1]
  BY <1>1, <1>2, Replay
<1>6. TrueInv'
  BY <1>1, <1>2, <1>5, OneAbsorbed
<1> QED
  BY <1>3, <1>4, <1>6, WeightOpenRederive DEF SchemeInv

\* What is absorbed when all rounds have been taken is what was signed.
LEMMA WholeHat ==
    ASSUME SchemeInv, pc \in {"open", "done"}, got = sm
    PROVE  /\ G_hat = SubSeq(G_tilde, 1, Len(G_hat))
           /\ pc = "open" /\ i = MEDS_t => G_hat = G_tilde
<1>1. /\ G_hat \in Seq(Commits) /\ Len(G_hat) <= MEDS_t
      /\ \A j \in 1..Len(G_hat) : G_hat[j] = G_tilde[j]
  BY DEF SchemeInv, TrueInv
<1>2. G_tilde \in Seq(Commits) /\ Len(G_tilde) = MEDS_t
  BY DEF SchemeInv, TapeInv
<1>3. Len(G_hat) \in Nat /\ MEDS_t \in Nat
  BY <1>1, LenProperties, SchemeAssumption
<1> DEFINE n == Len(G_hat)
           u == SubSeq(G_tilde, 1, n)
<1>4. \A j \in 1..n : G_tilde[j] \in Commits
  <2> TAKE j \in 1..n
  <2>1. j \in 1..Len(G_tilde)
    BY <1>1, <1>2, <1>3
  <2> QED
    BY ONLY <1>2, <2>1, ElementOfSeq
<1> HIDE DEF n
<1>5. /\ u \in Seq(Commits) /\ Len(u) = IF 1 <= n THEN n - 1 + 1 ELSE 0
      /\ \A j \in 1..(n - 1 + 1) : u[j] = G_tilde[1 + j - 1]
  <2>1. 1 \in Int /\ n \in Int
    BY <1>3 DEF n
  <2> QED
    BY ONLY <1>4, <2>1, SubSeqProperties
<1> HIDE DEF u
<1>6. n \in Nat
  BY <1>3 DEF n
<1>7. Len(u) = n /\ \A j \in 1..n : u[j] = G_tilde[j]
  <2>1. n - 1 + 1 = n /\ \A j \in 1..n : 1 + j - 1 = j
    BY <1>6
  <2>2. ~(1 <= n) => n = 0
    BY <1>6
  <2> QED
    BY <1>5, <2>1, <2>2
<1>8. G_hat = u
  <2>1. G_hat \in Seq(Commits) /\ u \in Seq(Commits) /\ Len(G_hat) = Len(u)
        /\ \A j \in 1..Len(G_hat) : G_hat[j] = u[j]
    BY <1>1, <1>5, <1>7 DEF n
  <2> QED
    BY ONLY <2>1, SeqEqual
<1>9. ASSUME pc = "open", i = MEDS_t PROVE G_hat = G_tilde
  <2>1. Len(G_hat) = MEDS_t
    BY <1>9 DEF SchemeInv, TrueInv
  <2>2. G_hat \in Seq(Commits) /\ G_tilde \in Seq(Commits) /\ Len(G_hat) = Len(G_tilde)
        /\ \A j \in 1..Len(G_hat) : G_hat[j] = G_tilde[j]
    BY <1>1, <1>2, <2>1
  <2> QED
    BY ONLY <2>2, SeqEqual
<1> QED
  BY <1>8, <1>9 DEF u, n

LEMMA StepOpenCheck == SchemeInv /\ OpenCheck => SchemeInv'
<1> SUFFICES ASSUME SchemeInv, OpenCheck PROVE SchemeInv'
  OBVIOUS
<1>1. /\ pc = "open" /\ i = MEDS_t /\ pc' = "done"
      /\ verdict' = IF Matches THEN "accept" ELSE "reject"
      /\ UNCHANGED <<msg, sk, pk, i, signer, got, h_open, G_hat>>
  BY DEF OpenCheck
<1>2. KeyInv' /\ TapeInv' /\ SentInv'
  BY <1>1, OpenerStep DEF SchemeInv
<1>3. GotInv'
  <2>1. got.m \in Messages /\ (got.m = msg \/ got.digest = [G |-> G_tilde, m |-> msg])
    BY <1>1 DEF SchemeInv, GotInv
  <2>2. Matches => got.m = msg
    <3> SUFFICES ASSUME got.digest = [G |-> G_tilde, m |-> msg], got.digest = [G |-> G_hat, m |-> got.m]
                 PROVE  got.m = msg
      BY <2>1 DEF Matches
    <3>1. [G |-> G_tilde, m |-> msg].m = msg /\ [G |-> G_hat, m |-> got.m].m = got.m
      OBVIOUS
    <3> QED
      BY <3>1
  <2> QED
    BY <1>1, <2>1, <2>2 DEF GotInv, signer
<1>4. got = sm => verdict' = "accept"
  <2> SUFFICES ASSUME got = sm PROVE Matches
    BY <1>1
  <2>1. G_hat = G_tilde
    BY <1>1, WholeHat
  <2>2. sm.digest = [G |-> G_tilde, m |-> msg] /\ sm.m = msg
    BY <1>1 DEF SchemeInv, SentInv, Signature
  <2> QED
    BY <2>1, <2>2 DEF Matches
<1>5. TrueInv'
  BY <1>1, <1>4 DEF SchemeInv, TrueInv, signer
<1> QED
  BY <1>2, <1>3, <1>5, WeightOpenEnd DEF SchemeInv

LEMMA SchemeNext == SchemeInv /\ [Next]_vars => SchemeInv'
<1> SUFFICES ASSUME SchemeInv, [Next]_vars PROVE SchemeInv'
  OBVIOUS
<1>1. CASE Redraw \/ Done \/ UNCHANGED vars
  BY <1>1, SchemeStop DEF Redraw, Done
<1>2. CASE KeyGen \/ KeyDone \/ SignRetry \/ SignRound \/ SignHash \/ SignPick
  BY <1>2, StepKeyGen, StepKeyDone, StepSignRetry, StepSignRound, StepSignHash, StepSignPick
<1>3. CASE Respond \/ Deliver \/ OpenPick \/ OpenRecall \/ OpenStart
  BY <1>3, StepRespond, StepDeliver, StepOpenPick, StepOpenRecall, StepOpenStart
<1>4. CASE OpenMalformed \/ OpenNotSyst \/ OpenChallenged \/ OpenRetry \/ OpenRederive \/ OpenCheck
  BY <1>4, StepOpenReject, StepOpenChallenged, StepOpenRetry, StepOpenRederive, StepOpenCheck
<1> QED
  BY <1>1, <1>2, <1>3, <1>4 DEF Next

\* Throughout, keys come from draws that succeeded, tapes end in the draw that
\* was absorbed, the signed message is made of them, and the opener of an
\* undamaged one absorbs the same commitments.
THEOREM SchemeLockstep == Spec => []SchemeInv
<1> QED
  BY SchemeInit, SchemeNext, PTL DEF Spec

\* From an undamaged signature crypto_sign_open recovers in every round what
\* crypto_sign has absorbed, whatever was challenged and however often a round was
\* retried.
THEOREM SchemeRecomputes == Spec => []Recomputes
<1>1. SchemeInv => Recomputes
  <2> SUFFICES ASSUME SchemeInv, got = sm PROVE G_hat = SubSeq(G_tilde, 1, Len(G_hat))
    BY DEF Recomputes
  <2>1. CASE pc \in {"open", "done"}
    BY <2>1, WholeHat
  <2>2. CASE pc \notin {"open", "done"}
    <3>1. G_hat = <<>> /\ Len(<<>>) = 0
      BY <2>2 DEF SchemeInv, TrueInv
    <3>2. SubSeq(G_tilde, 1, 0) = <<>>
      BY SubSeqEmpty
    <3> QED
      BY <3>1, <3>2
  <2> QED
    BY <2>1, <2>2
<1> QED
  BY <1>1, SchemeLockstep, PTL

-----------------------------------------------------------------------------
\* The steps of SignedMessage.

Sent == IF pc \in {"keygen", "sign", "parse"} THEN None ELSE msg
Came == IF pc \in {"keygen", "sign", "parse", "sent"} THEN None
        ELSE [m |-> got.m, intact |-> got = sm]

\* What stays as it is for sender and receiver of messages.
LEMMA PromiseSame ==
    ASSUME UNCHANGED <<msg, got, sm, verdict>>,
           \/ pc' = pc
           \/ pc \in Early /\ pc' \in Early
           \/ pc \in {"open_parse", "open"} /\ pc' \in {"open_parse", "open"}
    PROVE  UNCHANGED <<Sent, Came, verdict>>
BY DEF Early, Sent, Came

LEMMA EarlySame ==
    ASSUME pc \in Early, pc' \in Early, UNCHANGED <<msg, verdict>>
    PROVE  UNCHANGED <<Sent, Came, verdict>>
BY DEF Early, Sent, Came

LEMMA PromiseSign == SchemeInv /\ Respond => Promise!Sign
<1> SUFFICES ASSUME SchemeInv, Respond PROVE Promise!Sign
  OBVIOUS
<1>1. pc = "parse" /\ pc' = "sent" /\ UNCHANGED <<msg, verdict>>
  BY DEF Respond, opener
<1>2. msg \in Messages
  BY DEF SchemeInv, KeyInv
<1> QED
  BY <1>1, <1>2 DEF Promise!Sign

LEMMA PromiseArrive == SchemeInv /\ Deliver => Promise!Arrive
<1> SUFFICES ASSUME SchemeInv, Deliver PROVE Promise!Arrive
  OBVIOUS
<1>1. pc = "sent" /\ pc' = "open_parse" /\ got' \in {sm} \cup Damages(sm)
      /\ UNCHANGED <<msg, sm, verdict>>
  BY DEF Deliver, signer
<1>2. sm = Signature /\ msg \in Messages
  BY <1>1 DEF SchemeInv, SentInv, KeyInv
<1>3. got'.m \in Messages
  BY <1>1, <1>2, DamageKeeps
<1>4. got' = sm' => got'.m = msg
  BY <1>1, <1>2 DEF Signature
<1>5. msg # None
  BY <1>2, SchemeAssumption
<1> DEFINE intact == got' = sm'
<1>6. intact \in BOOLEAN
  OBVIOUS
<1> HIDE DEF intact
<1>7. [m |-> got'.m, intact |-> intact] \in [m : Messages, intact : BOOLEAN]
  BY <1>3, <1>6
<1>8. Came' = [m |-> got'.m, intact |-> intact] /\ Came = None
  BY <1>1 DEF Came, intact
<1>9. Sent = msg /\ Sent' = msg
  BY <1>1 DEF Sent
<1>10. Came'.intact => Came'.m = Sent
  <2>1. [m |-> got'.m, intact |-> intact].intact = intact
        /\ [m |-> got'.m, intact |-> intact].m = got'.m
    OBVIOUS
  <2>2. intact => got'.m = msg
    BY <1>4 DEF intact
  <2> QED
    BY <1>8, <1>9, <2>1, <2>2, Zenon
<1>11. Came' \in [m : Messages, intact : BOOLEAN]
  BY <1>7, <1>8, Zenon
<1> QED
  BY <1>1, <1>5, <1>8, <1>9, <1>10, <1>11, Zenon DEF Promise!Arrive, Sent, Came

\* Only the check of the digest accepts, and it fails on no undamaged signature.
LEMMA PromiseJudge == SchemeInv /\ SchemeInv' /\ (OpenMalformed \/ OpenNotSyst \/ OpenCheck) => Promise!Judge
<1> SUFFICES ASSUME SchemeInv, SchemeInv', OpenMalformed \/ OpenNotSyst \/ OpenCheck PROVE Promise!Judge
  OBVIOUS
<1>1. /\ pc = "open" /\ pc' = "done" /\ UNCHANGED <<msg, sm, got>>
      /\ verdict' \in {"accept", "reject"}
  BY DEF OpenMalformed, OpenNotSyst, OpenCheck, OpenRounds, signer
<1>2. verdict = None
  BY <1>1 DEF SchemeInv, GotInv
<1>3. /\ got.m \in Messages
      /\ verdict' = "accept" => got.m = msg
      /\ got = sm => verdict' = "accept"
  <2>1. got'.m \in Messages /\ (verdict' = "accept" => got'.m = msg')
    BY <1>1 DEF SchemeInv, GotInv
  <2>2. got' = sm' => verdict' = "accept"
    BY <1>1 DEF SchemeInv, TrueInv
  <2> QED
    BY <1>1, <2>1, <2>2
<1> DEFINE intact == got = sm
<1>4. Came = [m |-> got.m, intact |-> intact] /\ Came' = Came
  BY <1>1 DEF Came
<1>5. Sent = msg /\ Sent' = Sent
  BY <1>1 DEF Sent
<1>6. intact \in BOOLEAN /\ (intact => verdict' = "accept")
  BY <1>3
<1> HIDE DEF intact
<1>7. [m |-> got.m, intact |-> intact] \in [m : Messages, intact : BOOLEAN]
  BY <1>3, <1>6
<1>8. Came # None
  BY <1>4, <1>7, SchemeAssumption, Zenon
<1>9. Came.m = got.m /\ (Came.intact => verdict' = "accept")
  <2>1. [m |-> got.m, intact |-> intact].m = got.m /\ [m |-> got.m, intact |-> intact].intact = intact
    OBVIOUS
  <2> QED
    BY <1>4, <1>6, <2>1, Zenon
<1>10. verdict' = "accept" => Came.m = Sent
  BY <1>3, <1>5, <1>9, Zenon
<1> QED
  BY <1>1, <1>2, <1>4, <1>5, <1>8, <1>9, <1>10, Zenon DEF Promise!Judge, Sent, Came

LEMMA PromiseInit == Init => Promise!Init
BY DEF Init, Promise!Init

\* Every other step is none of SignedMessage's.
LEMMA PromiseStep == SchemeInv /\ SchemeInv' /\ [Next]_vars => [Promise!Next]_Promise!vars
<1> SUFFICES ASSUME SchemeInv, SchemeInv', [Next]_vars PROVE [Promise!Next]_Promise!vars
  OBVIOUS
<1>1. CASE Respond \/ Deliver \/ OpenMalformed \/ OpenNotSyst \/ OpenCheck
  BY <1>1, PromiseSign, PromiseArrive, PromiseJudge DEF Promise!Next
<1>2. CASE KeyGen \/ KeyDone \/ SignRetry \/ SignRound \/ SignHash \/ SignPick
  <2>1. pc \in Early /\ pc' \in Early /\ UNCHANGED <<msg, verdict>>
    BY <1>2 DEF KeyGen, KeyDone, SignRetry, SignRound, SignHash, SignPick, opener, Early
  <2>2. UNCHANGED <<Sent, Came, verdict>>
    BY <2>1, EarlySame
  <2> QED
    BY <2>2 DEF Promise!vars, Sent, Came
<1>3. CASE OpenPick \/ OpenRecall \/ OpenStart \/ OpenChallenged \/ OpenRetry \/ OpenRederive
  <2>1. /\ UNCHANGED <<msg, got, sm, verdict>>
        /\ pc \in {"open_parse", "open"} /\ pc' \in {"open_parse", "open"}
    BY <1>3 DEF OpenPick, OpenRecall, OpenStart, OpenChallenged, OpenRetry, OpenRederive, OpenRounds, signer
  <2>2. UNCHANGED <<Sent, Came, verdict>>
    BY <2>1, PromiseSame
  <2> QED
    BY <2>2 DEF Promise!vars, Sent, Came
<1>4. CASE Redraw \/ Done \/ UNCHANGED vars
  <2>1. UNCHANGED <<pc, msg, got, sm, verdict>>
    BY <1>4 DEF Redraw, Done, vars, signer, opener
  <2>2. UNCHANGED <<Sent, Came, verdict>>
    BY <2>1, PromiseSame
  <2> QED
    BY <2>2 DEF Promise!vars, Sent, Came
<1> QED
  BY <1>1, <1>2, <1>3, <1>4 DEF Next

\* crypto_sign and crypto_sign_open implement SignedMessage in every step: what
\* was not signed is not accepted, and what arrives undamaged is.
THEOREM SchemeKeepsPromise == Spec => Promise!Safety
<1>1. Init => Promise!Init
  BY PromiseInit
<1>2. SchemeInv /\ SchemeInv' /\ [Next]_vars => [Promise!Next]_Promise!vars
  BY PromiseStep
<1> QED
  BY <1>1, <1>2, SchemeLockstep, PTL DEF Spec, Promise!Safety

-----------------------------------------------------------------------------
\* Types.  A round ends before its tape is full; a seed is one of the signer's or
\* Other; what arrives can be read as matrices; what is absorbed are commitments.

BoundInv == i <= MEDS_t /\ picked <= MEDS_w /\ nread <= MEDS_w

SeedInv ==
    /\ sigma \in [Rounds -> 0..MaxTries]
    /\ sigma_open \in [Rounds -> 0..MaxTries]
    /\ \A r \in Rounds : Len(tape[r]) <= MaxTries
    /\ pc \in {"keygen", "sign"} =>
           \A r \in Rounds : sigma[r] = Len(tape[r]) /\ (r >= i => Len(tape[r]) < MaxTries)

Readable(s) ==
    /\ \A j \in 1..MEDS_w : s.munu[j].mu \in SquareMats /\ s.munu[j].nu \in SquareMats
    /\ \A r \in Rounds : h[r] = 0 => s.path[r] \in 0..MaxTries

DataInv ==
    /\ pc \in Early => sm = None
    /\ pc \in {"open_parse", "open", "done"} => Readable(got)
    /\ G_hat \in Seq(Commitments)

TypeInv == SchemeInv /\ BoundInv /\ SeedInv /\ DataInv

LEMMA AbsorbedType ==
    ASSUME NEW G \in Codes
    PROVE  Absorbed(G) \in Commitments
<1>1. Right \subseteq Cells
  BY IsAField DEF Size, Right, Cells, Idx
<1>2. \A r \in Idx(MEDS_n), c \in Right : G[r][c] \in Field
  BY <1>1 DEF Codes, Matrices, Mat, Vec, Cells
<1> QED
  BY <1>2 DEF Absorbed, Commitments

LEMMA CommitsType == Commits \subseteq Commitments
<1> SUFFICES ASSUME NEW D \in Tilde, NEW G0 \in G0s
             PROVE  Absorbed(Attempt(D, G0).mat) \in Commitments
  BY DEF Commits
<1>1. G0 \in Codes
  BY StartType DEF G0s
<1>2. D.A \in Squares /\ D.B \in Squares
  BY DrawIs
<1> QED
  BY <1>1, <1>2, AttemptIs, AbsorbedType

LEMMA MoreCommits ==
    ASSUME NEW s \in Seq(Commits)
    PROVE  s \in Seq(Commitments)
<1>1. Len(s) \in Nat /\ s = [k \in 1..Len(s) |-> s[k]]
  BY LenProperties
<1>2. \A k \in 1..Len(s) : s[k] \in Commitments
  BY ElementOfSeq, CommitsType
<1> QED
  BY <1>1, <1>2, IsASeq

LEMMA KeysType ==
    ASSUME KeyInv
    PROVE  /\ sk.G0 \in Codes
           /\ \A k \in 1..Len(pk) : /\ k \in Keys /\ pk[k] \in Codes
                                    /\ sk.A_inv[k] \in Squares /\ sk.B_inv[k] \in Squares
<1>1. PICK G0 \in Codes : G0 = sk.G0
  BY StartType DEF KeyInv, G0s
<1>2. ASSUME NEW k \in 1..Len(pk)
      PROVE  k \in Keys /\ pk[k] \in Codes /\ sk.A_inv[k] \in Squares /\ sk.B_inv[k] \in Squares
  <2>1. k \in Keys
    <3>1. Len(pk) \in Nat /\ Len(pk) <= MEDS_s - 1
      BY LenProperties DEF KeyInv
    <3> QED
      BY <3>1, SchemeAssumption DEF Keys
  <2>2. PICK d \in KeyDraws(k) :
            KeyOf(G0, d) = [ret |-> 0, A_inv |-> sk.A_inv[k], B_inv |-> sk.B_inv[k], G |-> pk[k]]
    BY <1>1 DEF KeyInv
  <2>3. KeyOf(G0, d).ret = 0
    BY <2>2
  <2>4. KeyOf(G0, d).A_inv \in Squares /\ KeyOf(G0, d).B_inv \in Squares /\ KeyOf(G0, d).G \in Codes
    BY <2>1, <2>3, KeyIs
  <2> QED
    BY <2>1, <2>2, <2>4
<1> QED
  BY <1>1, <1>2

-----------------------------------------------------------------------------
LEMMA BoundNext == SchemeInv /\ BoundInv /\ [Next]_vars => BoundInv'
<1> SUFFICES ASSUME SchemeInv, BoundInv, [Next]_vars PROVE BoundInv'
  OBVIOUS
<1>0. /\ i \in Nat /\ picked \in Nat /\ nread \in Nat
      /\ MEDS_t \in Nat /\ MEDS_w \in Nat
  BY SchemeAssumption DEF SchemeInv, WeightInv
<1>1. CASE UNCHANGED vars \/ Redraw \/ Done \/ KeyGen \/ KeyDone \/ SignRetry \/ SignHash \/ Respond
           \/ OpenStart \/ OpenMalformed \/ OpenNotSyst \/ OpenRetry \/ OpenCheck
  <2>1. UNCHANGED <<i, picked, nread>>
    BY <1>1 DEF Redraw, Done, KeyGen, KeyDone, SignRetry, SignHash, Respond, OpenStart, OpenMalformed,
       OpenNotSyst, OpenRetry, OpenCheck, vars, signer, opener
  <2> QED
    BY <2>1 DEF BoundInv
<1>2. CASE SignRound \/ OpenRederive
  <2>1. i < MEDS_t /\ i' = i + 1 /\ UNCHANGED <<picked, nread>>
    BY <1>2 DEF SignRound, OpenRederive, OpenRounds, opener
  <2> QED
    BY <1>0, <2>1 DEF BoundInv
<1>3. CASE OpenChallenged
  <2>1. pc = "open" /\ i < MEDS_t /\ h_open[i] > 0 /\ i' = i + 1 /\ nread' = nread + 1 /\ picked' = picked
    BY <1>3 DEF OpenChallenged, OpenRounds
  <2>2. nread + 1 <= MEDS_w
    BY <1>0, <2>1, ReadsInsideInv DEF SchemeInv, ReadsInside
  <2> QED
    BY <1>0, <2>1, <2>2 DEF BoundInv
<1>4. CASE SignPick \/ OpenPick
  <2>1. picked < MEDS_w /\ picked' = picked + 1 /\ UNCHANGED <<i, nread>>
    BY <1>4 DEF SignPick, OpenPick, opener
  <2> QED
    BY <1>0, <2>1 DEF BoundInv
<1>5. CASE OpenRecall
  BY <1>0, <1>5 DEF OpenRecall, BoundInv
<1>6. CASE Deliver
  BY <1>0, <1>6 DEF Deliver, BoundInv
<1> QED
  BY <1>1, <1>2, <1>3, <1>4, <1>5, <1>6 DEF Next

-----------------------------------------------------------------------------
LEMMA SeedSame ==
    ASSUME SeedInv, UNCHANGED <<tape, sigma, sigma_open>>,
           pc' \in {"keygen", "sign"} => pc \in {"keygen", "sign"} /\ i' = i
    PROVE  SeedInv'
BY DEF SeedInv

\* One more draw for the round.
LEMMA SeedTried ==
    ASSUME SchemeInv, SeedInv, pc = "sign", i \in Rounds, UNCHANGED <<pc, sigma_open>>,
           NEW D \in Tilde, tape' = [tape EXCEPT ![i] = Append(@, D)],
           sigma' = [sigma EXCEPT ![i] = @ + 1],
           i' = i + 1 \/ (i' = i /\ Len(tape[i]) + 1 < MaxTries)
    PROVE  SeedInv'
<1>0. i \in Nat /\ MaxTries \in Nat /\ \A r \in Rounds : r \in Nat
  BY SchemeAssumption DEF Rounds
<1>1. /\ sigma \in [Rounds -> 0..MaxTries]
      /\ \A r \in Rounds : /\ sigma[r] = Len(tape[r]) /\ Len(tape[r]) \in Nat /\ Len(tape[r]) <= MaxTries
                           /\ r >= i => Len(tape[r]) < MaxTries
  <2>1. tape \in [Rounds -> Seq(Tilde)]
    BY DEF SchemeInv, TapeInv
  <2>2. \A r \in Rounds : Len(tape[r]) \in Nat
    BY <2>1, LenProperties
  <2> QED
    BY <2>2 DEF SeedInv
<1>2. /\ \A r \in Rounds \ {i} : tape'[r] = tape[r] /\ sigma'[r] = sigma[r]
      /\ Len(tape'[i]) = Len(tape[i]) + 1 /\ sigma'[i] = sigma[i] + 1
      /\ sigma' \in [Rounds -> Nat]
  <2>1. tape \in [Rounds -> Seq(Tilde)]
    BY DEF SchemeInv, TapeInv
  <2>2. Len(Append(tape[i], D)) = Len(tape[i]) + 1
    BY <2>1, AppendProperties
  <2> QED
    BY <1>1, <2>1, <2>2
<1>3. ASSUME NEW r \in Rounds
      PROVE  /\ sigma'[r] = Len(tape'[r]) /\ sigma'[r] \in 0..MaxTries /\ Len(tape'[r]) <= MaxTries
             /\ r >= i' => Len(tape'[r]) < MaxTries
  <2>1. CASE r = i
    BY <1>0, <1>1, <1>2, <2>1
  <2>2. CASE r # i
    <3>1. r >= i' => r >= i
      BY <1>0
    <3> QED
      BY <1>0, <1>1, <1>2, <2>2, <3>1
  <2> QED
    BY <2>1, <2>2
<1> QED
  BY <1>2, <1>3 DEF SeedInv

LEMMA SeedNext == TypeInv /\ [Next]_vars => SeedInv'
<1> SUFFICES ASSUME TypeInv, [Next]_vars PROVE SeedInv'
  OBVIOUS
<1>0. SchemeInv /\ SeedInv /\ i \in Nat /\ MEDS_t \in Nat /\ MaxTries \in Nat
  BY SchemeAssumption DEF TypeInv, SchemeInv, WeightInv
<1>1. CASE UNCHANGED vars \/ Redraw \/ Done \/ KeyGen \/ KeyDone \/ SignHash \/ SignPick \/ Deliver
           \/ OpenPick \/ OpenRecall \/ OpenMalformed \/ OpenNotSyst \/ OpenChallenged \/ OpenRederive \/ OpenCheck
  <2>1. /\ UNCHANGED <<tape, sigma, sigma_open>>
        /\ pc' \in {"keygen", "sign"} => pc \in {"keygen", "sign"} /\ i' = i
    BY <1>1 DEF Redraw, Done, KeyGen, KeyDone, SignHash, SignPick, Deliver, OpenPick, OpenRecall, OpenRounds,
       OpenMalformed, OpenNotSyst, OpenChallenged, OpenRederive, OpenCheck, vars, signer, opener
  <2> QED
    BY <1>0, <2>1, SeedSame
<1>2. CASE SignRetry
  <2>1. pc = "sign" /\ i \in Rounds /\ Len(tape[i]) + 1 < MaxTries /\ UNCHANGED <<pc, i, sigma_open>>
        /\ sigma' = [sigma EXCEPT ![i] = @ + 1]
    BY <1>0, <1>2 DEF SignRetry, Rounds, opener
  <2>2. PICK D \in Tilde : tape' = [tape EXCEPT ![i] = Append(@, D)]
    BY <1>2 DEF SignRetry
  <2> QED
    BY <1>0, <2>1, <2>2, SeedTried
<1>3. CASE SignRound
  <2>1. pc = "sign" /\ i \in Rounds /\ i' = i + 1 /\ UNCHANGED <<pc, sigma_open>>
        /\ sigma' = [sigma EXCEPT ![i] = @ + 1]
    BY <1>0, <1>3 DEF SignRound, Rounds, opener
  <2>2. PICK D \in Tilde : tape' = [tape EXCEPT ![i] = Append(@, D)]
    BY <1>3 DEF SignRound
  <2> QED
    BY <1>0, <2>1, <2>2, SeedTried
<1>4. CASE Respond
  <2>1. sigma' = [r \in Rounds |-> 0] /\ UNCHANGED <<tape, sigma_open>> /\ pc' = "sent"
    BY <1>4 DEF Respond, t_hash, opener
  <2> QED
    BY <1>0, <2>1 DEF SeedInv
<1>5. CASE OpenStart
  <2>1. /\ pc = "open_parse" /\ pc' = "open" /\ UNCHANGED <<tape, sigma>>
        /\ sigma_open' = [r \in Rounds |-> IF got.salt = sm.salt /\ h_open = h /\ h[r] = 0
                                           THEN got.path[r] ELSE Other]
    BY <1>5 DEF OpenStart, signer
  <2>2. \A r \in Rounds : h[r] = 0 => got.path[r] \in 0..MaxTries
    BY <2>1 DEF TypeInv, DataInv, Readable
  <2>3. sigma_open' \in [Rounds -> 0..MaxTries]
    BY <1>0, <2>1, <2>2 DEF Other
  <2> QED
    BY <1>0, <2>1, <2>3 DEF SeedInv
<1>6. CASE OpenRetry
  <2>1. /\ pc = "open" /\ pc' = pc /\ UNCHANGED <<tape, sigma>> /\ i \in Rounds
        /\ sigma_open' = [sigma_open EXCEPT ![i] = IF @ < Len(tape[i]) THEN @ + 1 ELSE @]
    BY <1>0, <1>6 DEF OpenRetry, OpenRounds, Rounds, signer
  <2>2. tape \in [Rounds -> Seq(Tilde)]
    BY <1>0 DEF SchemeInv, TapeInv
  <2>3. Len(tape[i]) \in Nat /\ Len(tape[i]) <= MaxTries
    BY <1>0, <2>1, <2>2, LenProperties DEF SeedInv
  <2>4. sigma_open' \in [Rounds -> 0..MaxTries]
    BY <1>0, <2>1, <2>3 DEF SeedInv
  <2> QED
    BY <1>0, <2>1, <2>4 DEF SeedInv
<1> QED
  BY <1>1, <1>2, <1>3, <1>4, <1>5, <1>6 DEF Next

-----------------------------------------------------------------------------
\* There are as many challenged rounds to number as the weight says.
LEMMA NthRound ==
    ASSUME NEW hh \in Hashes, Challenges(hh) = MEDS_w, NEW j \in 1..MEDS_w
    PROVE  Nth(hh, j) \in Rounds /\ hh[Nth(hh, j)] > 0
<1> DEFINE c(k) == Challenges(Before(hh, k))
           P == \E r \in Rounds : hh[r] > 0 /\ c(r) = j - 1
           S == {k \in Nat : k <= MEDS_t /\ c(k) >= j => P}
<1>0. MEDS_t \in Nat /\ MEDS_w \in Nat /\ j \in Nat /\ j >= 1
  BY SchemeAssumption
<1>1. 0 \in S
  <2>1. c(0) = 0
    BY BeforeNone
  <2>2. ~(c(0) >= j)
    BY <1>0, <2>1
  <2> HIDE DEF P, c
  <2> QED
    BY <2>2
<1>2. ASSUME NEW k \in S PROVE k + 1 \in S
  <2> SUFFICES ASSUME k + 1 <= MEDS_t, c(k + 1) >= j PROVE P
    OBVIOUS
  <2>1. k \in Rounds /\ k \in Nat /\ k <= MEDS_t
    BY <1>0 DEF Rounds
  <2>2. c(k + 1) = IF hh[k] > 0 THEN c(k) + 1 ELSE c(k)
    BY <2>1, BeforeNext
  <2>3. CASE c(k) >= j
    BY <2>1, <2>3
  <2>4. CASE ~(c(k) >= j)
    <3>1. c(k) \in Nat /\ c(k + 1) \in Nat
      BY ChallengesType
    <3> HIDE DEF c
    <3>2. hh[k] > 0 /\ c(k) = j - 1
      BY <1>0, <2>2, <2>4, <3>1
    <3> QED
      BY <2>1, <3>2
  <2> QED
    BY <2>3, <2>4
<1>3. S \subseteq Nat /\ (MEDS_t \in S /\ c(MEDS_t) >= j => P)
  BY <1>0
<1>4. c(MEDS_t) = MEDS_w
  <2>1. {r \in Rounds : Before(hh, MEDS_t)[r] > 0} = {r \in Rounds : hh[r] > 0}
    BY <1>0 DEF Before, Rounds
  <2> QED
    BY <2>1 DEF Challenges
<1>5. MEDS_t \in S
  <2> HIDE DEF S
  <2> QED
    BY <1>0, <1>1, <1>2, <1>3, Induction
<1>6. P
  BY <1>0, <1>3, <1>4, <1>5
<1> QED
  BY <1>6 DEF Nth

LEMMA ResponseType ==
    ASSUME NEW D \in Tilde, NEW A \in Squares, NEW B \in Squares
    PROVE  Response(D, A, B).mu \in SquareMats /\ Response(D, A, B).nu \in SquareMats
<1>1. D.A \in Squares /\ D.B \in Squares
  BY DrawIs
<1>2. \A X, Y \in Squares : pmod_mat_mul(X, Y) \in Squares
  BY IsAField, MulIs DEF Squares, Size
<1> QED
  BY <1>1, <1>2, IsAField DEF Response

LEMMA SignatureIs ==
    ASSUME SchemeInv, pc \notin {"keygen", "sign", "parse"} \/ (pc = "parse" /\ picked = MEDS_w)
    PROVE  Readable(Signature)
<1>1. h \in Hashes /\ Challenges(h) = MEDS_w
  BY DEF SchemeInv, WeightInv, Signed
<1>2. MaxTries \in Nat
  BY SchemeAssumption
<1>3. ASSUME NEW j \in 1..MEDS_w
      PROVE  Signature.munu[j].mu \in SquareMats /\ Signature.munu[j].nu \in SquareMats
  <2> DEFINE r == Nth(h, j)
  <2>1. r \in Rounds /\ h[r] > 0
    BY <1>1, NthRound
  <2>2. Signature.munu[j] = Response(Last(tape[r]), sk.A_inv[h[r]], sk.B_inv[h[r]])
    BY DEF Signature
  <2> HIDE DEF r
  <2>3. Last(tape[r]) \in Tilde
    BY <2>1, HasDraw DEF SchemeInv
  <2>4. h[r] \in 1..Len(pk)
    BY <1>1, <2>1, SchemeAssumption DEF SchemeInv, KeyInv, Hashes
  <2>5. sk.A_inv[h[r]] \in Squares /\ sk.B_inv[h[r]] \in Squares
    BY <2>4, KeysType DEF SchemeInv
  <2> QED
    BY <2>2, <2>3, <2>5, ResponseType
<1>4. \A r \in Rounds : h[r] = 0 => Signature.path[r] \in 0..MaxTries
  BY <1>2 DEF Signature
<1> QED
  BY <1>3, <1>4 DEF Readable

\* Damaged fields can be read as well.
LEMMA DamageReadable ==
    ASSUME sm = Signature, Readable(sm), NEW g \in {sm} \cup Damages(sm)
    PROVE  Readable(g)
<1>0. /\ sm = [munu |-> sm.munu, path |-> sm.path, digest |-> sm.digest, salt |-> sm.salt, m |-> sm.m]
      /\ sm.munu = [j \in 1..MEDS_w |-> [mu |-> sm.munu[j].mu, nu |-> sm.munu[j].nu]]
      /\ sm.path = [r \in {q \in Rounds : h[q] = 0} |-> 0]
      /\ Other \in 0..MaxTries /\ Damaged \subseteq SquareMats
  BY SchemeAssumption, DrawsAssumption DEF Signature, Response, Other
<1>1. /\ \A j \in 1..MEDS_w : sm.munu[j].mu \in SquareMats /\ sm.munu[j].nu \in SquareMats
      /\ \A r \in Rounds : h[r] = 0 => sm.path[r] \in 0..MaxTries
  BY DEF Readable
<1>2. CASE g = sm
  BY <1>2
<1>3. CASE g \in {[sm EXCEPT !.m = m] : m \in Messages \ {sm.m}}
  <2>1. g.munu = sm.munu /\ g.path = sm.path
    BY <1>0, <1>3
  <2> QED
    BY <1>1, <2>1 DEF Readable
<1>4. CASE g \in {[sm EXCEPT !.digest = None], [sm EXCEPT !.salt = "other"]}
  <2>1. g.munu = sm.munu /\ g.path = sm.path
    BY <1>0, <1>4
  <2> QED
    BY <1>1, <2>1 DEF Readable
<1>5. CASE g \in DamagedPaths(sm)
  <2>1. PICK R \in SUBSET DOMAIN sm.path \ {{}} :
            g = [sm EXCEPT !.path = [r \in DOMAIN sm.path |-> IF r \in R THEN Other ELSE sm.path[r]]]
    BY <1>5, Zenon DEF DamagedPaths
  <2>2. g.munu = sm.munu /\ g.path = [r \in DOMAIN sm.path |-> IF r \in R THEN Other ELSE sm.path[r]]
    BY <1>0, <2>1
  <2>3. DOMAIN sm.path = {q \in Rounds : h[q] = 0}
    BY <1>0
  <2>4. \A r \in Rounds : h[r] = 0 => g.path[r] \in 0..MaxTries
    BY <1>0, <1>1, <2>2, <2>3
  <2> QED
    BY <1>1, <2>2, <2>4 DEF Readable
<1>6. CASE g \in DamagedMus(sm)
  <2>1. PICK j \in 1..MEDS_w : g \in {[sm EXCEPT !.munu[j].mu = D] : D \in Damaged \ {sm.munu[j].mu}}
    BY <1>6, Zenon DEF DamagedMus
  <2>2. PICK D \in Damaged : g = [sm EXCEPT !.munu[j].mu = D]
    BY <2>1
  <2>3. g.path = sm.path /\ g.munu = [sm.munu EXCEPT ![j].mu = D]
    BY <1>0, <2>2
  <2>4. \A k \in 1..MEDS_w : g.munu[k] = IF k = j THEN [mu |-> D, nu |-> sm.munu[k].nu] ELSE sm.munu[k]
    BY <1>0, <2>3
  <2> QED
    BY <1>0, <1>1, <2>3, <2>4 DEF Readable
<1>7. CASE g \in DamagedNus(sm)
  <2>1. PICK j \in 1..MEDS_w : g \in {[sm EXCEPT !.munu[j].nu = D] : D \in Damaged \ {sm.munu[j].nu}}
    BY <1>7, Zenon DEF DamagedNus
  <2>2. PICK D \in Damaged : g = [sm EXCEPT !.munu[j].nu = D]
    BY <2>1
  <2>3. g.path = sm.path /\ g.munu = [sm.munu EXCEPT ![j].nu = D]
    BY <1>0, <2>2
  <2>4. \A k \in 1..MEDS_w : g.munu[k] = IF k = j THEN [mu |-> sm.munu[k].mu, nu |-> D] ELSE sm.munu[k]
    BY <1>0, <2>3
  <2> QED
    BY <1>0, <1>1, <2>3, <2>4 DEF Readable
<1> QED
  BY <1>2, <1>3, <1>4, <1>5, <1>6, <1>7 DEF Damages

LEMMA DataSame ==
    ASSUME DataInv, UNCHANGED <<sm, got, G_hat, h>>,
           pc' \in Early => pc \in Early,
           pc' \in {"open_parse", "open", "done"} => pc \in {"open_parse", "open", "done"}
    PROVE  DataInv'
BY DEF DataInv, Readable, Early

\* One more commitment has been absorbed.
LEMMA DataAbsorbed ==
    ASSUME DataInv, UNCHANGED <<pc, sm, got, h>>, NEW G \in Codes, G_hat' = Append(G_hat, Absorbed(G))
    PROVE  DataInv'
<1>1. Absorbed(G) \in Commitments /\ G_hat \in Seq(Commitments)
  BY AbsorbedType DEF DataInv
<1>2. PICK C \in Commitments : C = Absorbed(G)
  BY <1>1
<1>3. G_hat' \in Seq(Commitments)
  BY <1>1, <1>2, AppendProperties
<1> QED
  BY <1>3 DEF DataInv, Readable, Early

LEMMA DataNext == TypeInv /\ [Next]_vars => DataInv'
<1> SUFFICES ASSUME TypeInv, [Next]_vars PROVE DataInv'
  OBVIOUS
<1>0. SchemeInv /\ DataInv /\ SeedInv /\ i \in Nat /\ MEDS_t \in Nat
  BY SchemeAssumption DEF TypeInv, SchemeInv, WeightInv
<1>1. CASE UNCHANGED vars \/ Redraw \/ Done \/ KeyGen \/ KeyDone \/ SignRetry \/ SignRound \/ SignHash
           \/ OpenPick \/ OpenRecall \/ OpenStart \/ OpenMalformed \/ OpenNotSyst \/ OpenRetry \/ OpenCheck
  <2>1. /\ UNCHANGED <<sm, got, G_hat, h>>
        /\ pc' \in Early => pc \in Early
        /\ pc' \in {"open_parse", "open", "done"} => pc \in {"open_parse", "open", "done"}
    BY <1>1 DEF Redraw, Done, KeyGen, KeyDone, SignRetry, SignRound, SignHash, OpenPick, OpenRecall, OpenStart,
       OpenRounds, OpenMalformed, OpenNotSyst, OpenRetry, OpenCheck, vars, signer, opener, Early
  <2> QED
    BY <1>0, <2>1, DataSame
<1>2. CASE SignPick
  BY <1>0, <1>2 DEF SignPick, DataInv, opener, Early
<1>3. CASE Respond
  BY <1>0, <1>3 DEF Respond, DataInv, opener, Early
<1>4. CASE Deliver
  <2>1. pc = "sent" /\ pc' = "open_parse" /\ got' \in {sm} \cup Damages(sm) /\ UNCHANGED <<h, sm, G_hat>>
    BY <1>4 DEF Deliver, signer
  <2>2. sm = Signature /\ Readable(Signature)
    BY <1>0, <2>1, SignatureIs DEF SchemeInv, SentInv
  <2>3. Readable(got')
    BY <2>1, <2>2, DamageReadable
  <2>4. Readable(got)'
    BY <2>1, <2>3 DEF Readable
  <2> QED
    BY <1>0, <2>1, <2>4 DEF DataInv, Early
<1>5. CASE OpenChallenged
  <2>1. /\ pc = "open" /\ i < MEDS_t /\ h_open[i] > 0 /\ UNCHANGED <<pc, sm, got, h>>
        /\ G_hat' = Append(G_hat, Absorbed(Recovered.mat))
    BY <1>5 DEF OpenChallenged, OpenRounds, signer
  <2>2. nread + 1 \in 1..MEDS_w
    BY <1>0, <2>1, ReadsInsideInv DEF SchemeInv, ReadsInside
  <2>3. got.munu[nread + 1].mu \in Squares /\ got.munu[nread + 1].nu \in Squares
    BY <1>0, <2>1, <2>2, IsAField DEF DataInv, Readable
  <2>4. h_open[i] \in 1..Len(pk)
    BY <1>0, <2>1, SchemeAssumption DEF SchemeInv, KeyInv, WeightInv, Opened, Hashes, Rounds
  <2>5. PICK G \in Codes : G = pk[h_open[i]]
    BY <1>0, <2>4, KeysType DEF SchemeInv
  <2>6. PICK D : D = [A |-> got.munu[nread + 1].mu, B |-> got.munu[nread + 1].nu]
    OBVIOUS
  <2>7. D.A \in Squares /\ D.B \in Squares
    BY <2>3, <2>6
  <2>8. Attempt(D, G).mat \in Codes
    BY <2>7, AttemptIs
  <2>9. Recovered.mat \in Codes
    BY <2>5, <2>6, <2>8 DEF Recovered
  <2> QED
    BY <1>0, <2>1, <2>9, DataAbsorbed
<1>6. CASE OpenRederive
  <2>1. pc = "open" /\ i \in Rounds /\ UNCHANGED <<pc, sm, got, h>>
    BY <1>0, <1>6 DEF OpenRederive, OpenRounds, Rounds, signer
  <2>2. PICK D \in Expand(i) : G_hat' = Append(G_hat, Absorbed(Attempt(D, sk.G0).mat))
    BY <1>6 DEF OpenRederive
  <2>3. D \in Tilde
    <3>1. tape \in [Rounds -> Seq(Tilde)] /\ sigma_open[i] \in Nat
      BY <1>0, <2>1, SchemeAssumption DEF SchemeInv, TapeInv, SeedInv
    <3>2. tape[i] \in Seq(Tilde) /\ Len(tape[i]) \in Nat
      BY <2>1, <3>1, LenProperties
    <3>3. CASE sigma_open[i] < Len(tape[i])
      <4>1. sigma_open[i] + 1 \in 1..Len(tape[i])
        BY <3>1, <3>2, <3>3
      <4>2. tape[i][sigma_open[i] + 1] \in Tilde
        BY <3>2, <4>1, ElementOfSeq
      <4> QED
        BY <3>3, <4>2 DEF Expand
    <3>4. CASE ~(sigma_open[i] < Len(tape[i]))
      BY <3>4 DEF Expand
    <3> QED
      BY <3>3, <3>4
  <2>4. PICK G0 \in Codes : G0 = sk.G0
    BY <1>0, KeysType DEF SchemeInv
  <2>5. Attempt(D, G0).mat \in Codes
    BY <2>3, DrawIs, AttemptIs
  <2> QED
    BY <1>0, <2>1, <2>2, <2>4, <2>5, DataAbsorbed
<1> QED
  BY <1>1, <1>2, <1>3, <1>4, <1>5, <1>6 DEF Next

-----------------------------------------------------------------------------
LEMMA TypeInit == Init => TypeInv
<1> SUFFICES ASSUME Init PROVE TypeInv
  OBVIOUS
<1>1. SchemeInv
  BY SchemeInit
<1>2. BoundInv
  BY SchemeAssumption DEF Init, BoundInv
<1>3. SeedInv
  <2>1. \A r \in Rounds : tape[r] = <<>> /\ sigma[r] = 0 /\ sigma_open[r] = 0 /\ Len(<<>>) = 0
    BY DEF Init
  <2>2. sigma \in [Rounds -> 0..MaxTries] /\ sigma_open \in [Rounds -> 0..MaxTries]
    BY SchemeAssumption DEF Init
  <2> QED
    BY <2>1, <2>2, SchemeAssumption DEF SeedInv
<1>4. DataInv
  BY DEF Init, DataInv, Early
<1> QED
  BY <1>1, <1>2, <1>3, <1>4 DEF TypeInv

\* Every step keeps the signature readable, the tapes within the attempts, and what
\* is absorbed commitments.
THEOREM SchemeTypeInv == Spec => []TypeInv
<1>1. TypeInv /\ [Next]_vars => TypeInv'
  BY SchemeNext, BoundNext, SeedNext, DataNext DEF TypeInv
<1> QED
  BY <1>1, TypeInit, PTL DEF Spec

LEMMA TypeInvOK == TypeInv => TypeOK
<1> SUFFICES ASSUME TypeInv PROVE TypeOK
  OBVIOUS
<1>1. pc \in {"keygen", "sign", "parse", "sent", "open_parse", "open", "done"}
  BY DEF TypeInv, SchemeInv, WeightInv
<1>2. i \in 0..MEDS_t /\ picked \in 0..MEDS_w /\ nread \in 0..MEDS_w
  BY SchemeAssumption DEF TypeInv, SchemeInv, WeightInv, BoundInv
<1>3. sigma \in [Rounds -> 0..MaxTries] /\ sigma_open \in [Rounds -> 0..MaxTries]
  BY DEF TypeInv, SeedInv
<1>4. h \in Hashes /\ h_open \in Hashes
  BY DEF TypeInv, SchemeInv, WeightInv, Signed, Opened
<1>5. G_tilde \in Seq(Commitments) /\ G_hat \in Seq(Commitments)
  BY MoreCommits DEF TypeInv, SchemeInv, TapeInv, DataInv
<1>6. sm # None => \A j \in 1..MEDS_w : sm.munu[j].mu \in SquareMats /\ sm.munu[j].nu \in SquareMats
  <2> SUFFICES ASSUME sm # None
               PROVE  \A j \in 1..MEDS_w : sm.munu[j].mu \in SquareMats /\ sm.munu[j].nu \in SquareMats
    OBVIOUS
  <2>1. pc \notin Early
    BY DEF TypeInv, DataInv
  <2>2. sm = Signature /\ pc \notin {"keygen", "sign", "parse"}
    BY <1>1, <2>1 DEF TypeInv, SchemeInv, SentInv, Early
  <2>3. Readable(sm)
    BY <2>2, SignatureIs DEF TypeInv
  <2> QED
    BY <2>3 DEF Readable
<1>7. verdict \in {None, "accept", "reject"}
  BY DEF TypeInv, SchemeInv, GotInv
<1> QED
  BY <1>1, <1>2, <1>3, <1>4, <1>5, <1>6, <1>7 DEF TypeOK

\* Signing and opening stay within their types: the matrices of a signature are
\* over the field, whatever was drawn, and so is what the opener absorbs of
\* damaged ones.
THEOREM SchemeTypeOK == Spec => []TypeOK
<1> QED
  BY SchemeTypeInv, TypeInvOK, PTL
=============================================================================
