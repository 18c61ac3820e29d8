------------------------------ MODULE KeyPair ------------------------------
(***************************************************************************)
(* Key generation in real arithmetic: the loop of crypto_sign_keypair      *)
(* (ref/meds_serial.c) for one index, the public key it writes, and what   *)
(* crypto_sign_open makes of it.                                           *)
(*                                                                         *)
(* A public key leaves out the rows of G that solve makes come out as the  *)
(* identity and the shifted identity; the reader puts them back without    *)
(* having seen them.  The inverses of the field are computed on the side,  *)
(* for the primes of the parameter sets.                                   *)
(***************************************************************************)
EXTENDS Matrix

CONSTANTS
    Fields,  \* primes to compute every inverse of
    Values,  \* what rnd_sys_mat may draw for G[0]
    Draws    \* what rnd_inv_matrix may draw for Ti

ASSUME KeyPairAssumption ==
    /\ \A q \in Fields : Prime(q)
    /\ \A v \in Values, r \in Idx(MEDS_n), c \in Right : v[r][c] \in Field
    /\ Draws \subseteq SquareMats

VARIABLES
    pc,
    prime, x,   \* the field, and its element that is inverted
    G0,         \* G[0]
    Ti, Amm,    \* the draws of an attempt
    A, B_inv,   \* of solve
    A_inv, B,
    G,          \* G[i]
    pk,         \* what is written of it
    Gopen       \* what crypto_sign_open makes of that
mats == <<G0, Ti, Amm, A, B_inv, A_inv, B, G, pk, Gopen>>
vars == <<pc, prime, x, mats>>

Area    == MEDS_n * MEDS_n
None    == <<>>
G0prime == pmod_mat_mul(Ti, G0)

-----------------------------------------------------------------------------
\* The redo loop of rnd_inv_matrix.
RedoTi ==
    /\ pc = "Ti"
    /\ \E D \in Draws : ~KeepsDraw(D)
    /\ UNCHANGED vars

DrawTi ==
    /\ pc = "Ti"
    /\ \E D \in Draws : KeepsDraw(D) /\ Ti' = D
    /\ \E a \in Field : Amm' = a
    /\ pc' = "solve"
    /\ UNCHANGED <<prime, x, G0, A, B_inv, A_inv, B, G, pk, Gopen>>

\* "continue": the next attempt writes every buffer before it reads it, so what
\* the failed one left is dropped here.
Again ==
    /\ pc' = "Ti"
    /\ Ti' = None /\ Amm' = 0 /\ A' = None /\ B_inv' = None
    /\ A_inv' = None /\ B' = None /\ G' = None /\ pk' = None /\ Gopen' = None
    /\ UNCHANGED <<prime, x, G0>>

NoSol == pc = "solve" /\ solve(G0prime, Amm).ret < 0 /\ Again

Solve ==
    /\ pc = "solve"
    /\ LET s == solve(G0prime, Amm)
       IN s.ret = 0 /\ A' = s.sol.A /\ B_inv' = s.sol.B_inv
    /\ pc' = "inv"
    /\ UNCHANGED <<prime, x, G0, Ti, Amm, A_inv, B, G, pk, Gopen>>

\* "no inv": B_inv is tried first.  With B_inv = A * P0 invertible A is too, so
\* the second test never decides.
NoInv ==
    /\ pc = "inv"
    /\ pmod_mat_inv(B_inv).ret = 0 => pmod_mat_inv(A).ret < 0
    /\ Again

Invert ==
    /\ pc = "inv"
    /\ LET b == pmod_mat_inv(B_inv)
           a == pmod_mat_inv(A)
       IN b.ret = 0 /\ B' = b.mat /\ a.ret = 0 /\ A_inv' = a.mat
    /\ pc' = "pi"
    /\ UNCHANGED <<prime, x, G0, Ti, Amm, A, B_inv, G, pk, Gopen>>

\* "Not systematic; try again for index i."
NotSyst == pc = "pi" /\ pmod_mat_syst_ct(pi(A, B, G0), MEDS_n).ret # 0 /\ Again

Found ==
    /\ pc = "pi"
    /\ LET s == pmod_mat_syst_ct(pi(A, B, G0), MEDS_n) IN s.ret = 0 /\ G' = s.mat
    /\ pc' = "pk"
    /\ UNCHANGED <<prime, x, G0, Ti, Amm, A, B_inv, A_inv, B, pk, Gopen>>

\* "copy pk data": of row 1 the last MEDS_n entries, of rows 2 and on what is
\* right of the identity.
Written ==
    [row1 |-> [j \in (Area - MEDS_n)..(Area - 1) |-> G[1][j]],
     rest |-> [r \in 2..(MEDS_n - 1) |-> [j \in Right |-> G[r][j]]]]

WritePk ==
    /\ pc = "pk"
    /\ pk' = Written
    /\ pc' = "open"
    /\ UNCHANGED <<prime, x, G0, Ti, Amm, A, B_inv, A_inv, B, G, Gopen>>

\* Mutant: the shifted identity is put back one column too far left.
Cell_NotShifted(r, c) ==
    IF r = 0 THEN IF c \div MEDS_n = c % MEDS_n THEN 1 ELSE 0
    ELSE IF r = 1 THEN IF c >= Area - MEDS_n THEN pk.row1[c]
                       ELSE IF c \div MEDS_n = c % MEDS_n THEN 1 ELSE 0
    ELSE IF c >= MEDS_n THEN pk.rest[r][c] ELSE IF r = c THEN 1 ELSE 0

\* The order of the assignments in crypto_sign_open decides where they overlap:
\* row 0 and the front of row 1 come last.
Cell(r, c) ==
    IF r = 0 THEN IF c \div MEDS_n = c % MEDS_n THEN 1 ELSE 0
    ELSE IF r = 1 THEN IF c >= Area - MEDS_n THEN pk.row1[c]
                       ELSE IF c \div MEDS_n + 1 = c % MEDS_n THEN 1 ELSE 0
    ELSE IF c >= MEDS_n THEN pk.rest[r][c] ELSE IF r = c THEN 1 ELSE 0

Opened == [r \in Idx(MEDS_n) |-> [c \in Idx(Area) |-> Cell(r, c)]]

ReadPk ==
    /\ pc = "open"
    /\ Gopen' = Opened
    /\ pc' = "done"
    /\ UNCHANGED <<prime, x, G0, Ti, Amm, A, B_inv, A_inv, B, G, pk>>

NextElement ==
    /\ pc = "field"
    /\ x < prime - 1
    /\ x' = x + 1
    /\ UNCHANGED <<pc, prime, mats>>

Done ==
    /\ pc = "done" \/ (pc = "field" /\ x = prime - 1)
    /\ UNCHANGED vars

-----------------------------------------------------------------------------
Init ==
    /\ \/ pc = "Ti" /\ prime = MEDS_p /\ x = 0 /\ \E v \in Values : G0 = rnd_sys_mat(v)
       \/ pc = "field" /\ prime \in Fields /\ x = 1 /\ G0 = None
    /\ Ti = None /\ Amm = 0 /\ A = None /\ B_inv = None
    /\ A_inv = None /\ B = None /\ G = None /\ pk = None /\ Gopen = None

Next == RedoTi \/ DrawTi \/ NoSol \/ Solve \/ NoInv \/ Invert
        \/ NotSyst \/ Found \/ WritePk \/ ReadPk \/ NextElement \/ Done

Spec == Init /\ [][Next]_vars

-----------------------------------------------------------------------------
\* What the algorithms are measured against.

Vectors       == [Idx(MEDS_n) -> Field]
Zero          == [c \in Idx(MEDS_n) |-> 0]
Times(v, X)   ==
    [c \in DOMAIN X[0] |->
        Sigma(MEDS_n, [j \in Idx(MEDS_n) |-> v[j] * X[j][c]]) % MEDS_p]
Product(X, Y) == [r \in DOMAIN X |-> Times(X[r], Y)]
Identity      == [r \in Idx(MEDS_n) |-> [c \in Idx(MEDS_n) |-> IF r = c THEN 1 ELSE 0]]
Left(X)       == [r \in Idx(MEDS_n) |-> [c \in Idx(MEDS_n) |-> X[r][c]]]
Regular(X)    == \A v \in Vectors : Times(v, X) = Zero => v = Zero

\* The system that solve is given, for A and with B_inv = A * P0: the last row
\* of A ends with a and its product with P1 is zero but for the last entry; the
\* product of every other row with P1 is that of the next row with P0.
LastRows(P1, a) ==
    {v \in Vectors : v[MEDS_n - 1] = a /\ \A c \in Idx(MEDS_n - 1) : Times(v, P1)[c] = 0}
Solutions(P0, P1, a) ==
    {X \in {[r \in Idx(MEDS_n) |-> IF r = MEDS_n - 1 THEN v ELSE Y[r]] :
                v \in LastRows(P1, a), Y \in [Idx(MEDS_n - 1) -> Vectors]} :
        \A r \in Idx(MEDS_n - 1) : Times(X[r], P1) = Times(X[r + 1], P0)}

\* The label, and matrices where the label says there are some.
TypeOK ==
    /\ pc \in {"Ti", "solve", "inv", "pi", "pk", "open", "done", "field"}
    /\ Amm \in Field
    /\ pc \in {"inv", "pi", "pk"} => A \in SquareMats /\ B_inv \in SquareMats
    /\ pc \in {"pi", "pk"} => A_inv \in SquareMats /\ B \in SquareMats
    /\ pc = "done" => Gopen \in [Idx(MEDS_n) -> [Idx(Area) -> Field]]

\* GF_inv inverts every element of the field, on both its paths.
InverseIsInverse == pc = "field" => (x * InverseIn(prime, x)) % prime = 1

\* rnd_inv_matrix keeps exactly the invertible draws.
KeepsInvertible == pc = "Ti" => \A D \in Draws : KeepsDraw(D) = Regular(D)

\* solve finds the solution of its system, and gives up only where there is no
\* or more than one.
SolveIsExact ==
    pc = "solve" =>
        LET P0 == Square(G0prime[0])
            P1 == Square(G0prime[1])
            s  == solve(G0prime, Amm)
            All == Solutions(P0, P1, Amm)
        IN IF s.ret = 0
           THEN All = {s.sol.A} /\ s.sol.B_inv = Product(s.sol.A, P0)
           ELSE Cardinality(All) # 1

\* pmod_mat_syst_ct reports a systematic form exactly when there is one, and
\* then computes it: the identity on the left, and the same row space.
SystIsExact ==
    pc = "pi" =>
        LET X == pi(A, B, G0)
            s == pmod_mat_syst_ct(X, MEDS_n)
        IN /\ (s.ret = 0) = Regular(Left(X))
           /\ s.ret = 0 => Left(s.mat) = Identity /\ Product(Left(X), s.mat) = X

\* pmod_mat_inv: the matrices of the secret key undo those of the public key.
KeyInverts ==
    pc = "pk" =>
        /\ Product(A, A_inv) = Identity /\ Product(B_inv, B) = Identity
        /\ pmod_mat_syst_ct(pi(A_inv, B_inv, G), MEDS_n).mat = G0

\* The reader of the public key has G[i], the rows that were not written too.
PkHoldsG == pc = "done" => Gopen = G
=============================================================================
