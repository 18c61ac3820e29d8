------------------------------- MODULE Matrix -------------------------------
(***************************************************************************)
(* The matrix arithmetic of ref/matrixmod.c, and solve and pi of           *)
(* ref/util.c, over the integers modulo MEDS_p.                            *)
(*                                                                         *)
(* A matrix is a function from its rows to functions from its columns,     *)
(* both counted from 0 as in the code.  The loop over the entries of a row *)
(* is one row operation; the loops over rows keep their order where one    *)
(* iteration sees what the one before it did.                              *)
(***************************************************************************)
EXTENDS Integers, FiniteSets

CONSTANTS
    MEDS_p,  \* the field
    MEDS_n   \* = MEDS_m = MEDS_k in every parameter set

Idx(n)    == 0..(n - 1)
Height(M) == Cardinality(DOMAIN M)
Width(M)  == Cardinality(DOMAIN M[0])

Field     == 0..(MEDS_p - 1)

\* for (int i = 0; i < n; i++) x = Body(x, i), and f[0] + ... + f[n - 1].
Loop(n, x, Body(_, _)) ==
    LET s[k \in 0..n] == IF k = 0 THEN x ELSE Body(s[k - 1], k - 1) IN s[n]
Sigma(n, f) == Loop(n, 0, LAMBDA x, i : x + f[i])

\* The row f, and the matrix of such rows.  Comparing the function changes
\* nothing, but has TLC evaluate the entries once and not at every use.
Row(f)  == CHOOSE g \in {f} : g = f
Rows(f) == Row([r \in DOMAIN f |-> Row(f[r])])

-----------------------------------------------------------------------------
\* GF_inv: square and multiply with the exponent p - 2, and the chain of
\* multiplications that replaces it for p = 8191.

SquareMultiply(p, x) ==
    LET pow[s \in [t : Nat, val : Nat, exponent : Nat]] ==
            IF s.exponent = 0 THEN s.t
            ELSE pow[[t        |-> IF s.exponent % 2 = 1 THEN (s.t * s.val) % p ELSE s.t,
                      val      |-> (s.val * s.val) % p,
                      exponent |-> s.exponent \div 2]]
    IN pow[[t |-> 1, val |-> x, exponent |-> p - 2]]

Squared(p, a) == (a * a) % p

\* Mutant: tmp_13 takes tmp_1 in place of tmp_2.
AdditionChain_Swapped(p, t0) ==
    LET Mul(a, b) == (a * b) % p
        t1  == Squared(p, t0)
        t2  == Mul(t1, t0)
        t3  == Mul(t2, t1)
        t5  == Mul(Squared(p, t3), t3)
        t10 == Mul(Squared(p, Squared(p, Squared(p, Squared(p, t5)))), t5)
        t13 == Mul(Squared(p, Squared(p, t10)), t1)
    IN Mul(Squared(p, Squared(p, Squared(p, t13))), t3)

AdditionChain(p, t0) ==
    LET Mul(a, b) == (a * b) % p
        t1  == Squared(p, t0)
        t2  == Mul(t1, t0)
        t3  == Mul(t2, t1)
        t5  == Mul(Squared(p, t3), t3)
        t10 == Mul(Squared(p, Squared(p, Squared(p, Squared(p, t5)))), t5)
        t13 == Mul(Squared(p, Squared(p, t10)), t2)
    IN Mul(Squared(p, Squared(p, Squared(p, t13))), t3)

InverseIn(p, x) == IF p = 8191 THEN AdditionChain(p, x) ELSE SquareMultiply(p, x)

GF_inv(x) == InverseIn(MEDS_p, x)

Prime(p) == p \in Nat \ {0, 1} /\ \A d \in 2..(p - 1) : p % d # 0

ASSUME FieldAssumption == Prime(MEDS_p) /\ MEDS_n \in Nat \ {0, 1}

-----------------------------------------------------------------------------
\* pmod_mat_mul.  The inner loop counts the rows of A, not its columns, which
\* is the same number for every matrix it is given.

pmod_mat_mul(A, B) ==
    Rows([r \in DOMAIN A |-> [c \in DOMAIN B[0] |->
        Sigma(Height(A), [i \in Idx(Height(A)) |-> A[r][i] * B[i][c]]) % MEDS_p]])

\* Row r of M minus f times row s, in the columns Cols.
Minus(M, r, f, s, Cols) ==
    Row([c \in DOMAIN M[r] |->
            IF c \in Cols THEN (M[r][c] - f * M[s][c]) % MEDS_p ELSE M[r][c]])

\* Mutant: only the next row is tried for a pivot.
Swap_NextOnly(M, r, R) ==
    IF M[r][r] = 0 /\ r + 1 < R
    THEN [M EXCEPT ![r] = Minus(M, r, -1, r + 1, r..(Width(M) - 1))]
    ELSE M

\* "swap": while the pivot is zero the rows below are added to row r.
SwapStep(X, r, r2) ==
    IF X[r][r] = 0 THEN [X EXCEPT ![r] = Minus(X, r, -1, r2, r..(Width(X) - 1))] ELSE X
Swap(M, r, R) == Loop(R - 1 - r, M, LAMBDA X, k : SwapStep(X, r, r + 1 + k))

Normalize(M, r, Cols) ==
    LET inv == GF_inv(M[r][r])
    IN [M EXCEPT ![r] =
           Row([c \in DOMAIN @ |-> IF c \in Cols THEN (@[c] * inv) % MEDS_p ELSE @[c]])]

Eliminate(M, r, R) ==
    Row([r2 \in DOMAIN M |->
            IF r2 \in (r + 1)..(R - 1) THEN Minus(M, r2, M[r2][r], r, r..(Width(M) - 1))
            ELSE M[r2]])

\* The first R rows brought to echelon form; ret = -1 at a zero pivot.
EchelonStep(s, r, R) ==
    LET X == Swap(s.mat, r, R)
    IN IF s.ret # 0 THEN s
       ELSE IF X[r][r] = 0 THEN [ret |-> -1, mat |-> X]
       ELSE [ret |-> 0, mat |-> Eliminate(Normalize(X, r, r..(Width(X) - 1)), r, R)]
Echelon(M, R) == Loop(R, [ret |-> 0, mat |-> M], LAMBDA s, r : EchelonStep(s, r, R))

\* Mutant: the columns right of the square are left out of the back substitution.
Substitute_SquareOnly(X, r, R) ==
    Row([r2 \in DOMAIN X |-> IF r2 < r THEN Minus(X, r2, X[r2][r], r, {r}) ELSE X[r2]])

Substitute(X, r, R) ==
    Row([r2 \in DOMAIN X |->
            IF r2 < r THEN Minus(X, r2, X[r2][r], r, {r} \cup R..(Width(X) - 1)) ELSE X[r2]])
BackSubstitute(M, R) == Loop(R, M, LAMBDA X, k : Substitute(X, R - 1 - k, R))

\* The first R rows of M in systematic form, in place.
pmod_mat_syst_ct(M, R) ==
    LET e == Echelon(M, R)
    IN IF e.ret = 0 THEN [ret |-> 0, mat |-> BackSubstitute(e.mat, R)] ELSE e

\* Mutant: the inverse is copied from one column too far left.
pmod_mat_inv_Shifted(A) ==
    LET n == Height(A)
        M == Rows([r \in DOMAIN A |-> [c \in Idx(2 * n) |->
                 IF c < n THEN A[r][c] ELSE IF c - n = r THEN 1 ELSE 0]])
        s == pmod_mat_syst_ct(M, n)
    IN [ret |-> s.ret, mat |-> Rows([r \in DOMAIN A |-> [c \in Idx(n) |-> s.mat[r][n + c - 1]]])]

pmod_mat_inv(A) ==
    LET n == Height(A)
        M == Rows([r \in DOMAIN A |-> [c \in Idx(2 * n) |->
                 IF c < n THEN A[r][c] ELSE IF c - n = r THEN 1 ELSE 0]])
        s == pmod_mat_syst_ct(M, n)
    IN [ret |-> s.ret, mat |-> Rows([r \in DOMAIN A |-> [c \in Idx(n) |-> s.mat[r][n + c]]])]

\* rnd_inv_matrix keeps a draw that its own elimination gets through.
KeepsDraw(M) == Echelon(M, Height(M)).ret = 0

-----------------------------------------------------------------------------
\* G: MEDS_k rows, each an MEDS_m x MEDS_n matrix written out row by row.

SquareMats == [Idx(MEDS_n) -> [Idx(MEDS_n) -> Field]]
Right      == MEDS_n..(MEDS_n * MEDS_n - 1)  \* the columns that are not the identity's

Square(row) == Rows([i \in Idx(MEDS_n) |-> [j \in Idx(MEDS_n) |-> row[i * MEDS_n + j]]])
Flat(M)     == Row([c \in Idx(MEDS_n * MEDS_n) |-> M[c \div MEDS_n][c % MEDS_n]])

pi(A, B, G) == Row([r \in DOMAIN G |-> Flat(pmod_mat_mul(pmod_mat_mul(A, Square(G[r])), B))])

\* rnd_sys_mat with the values it draws.
rnd_sys_mat(vals) ==
    Rows([r \in Idx(MEDS_n) |-> [c \in Idx(MEDS_n * MEDS_n) |->
        IF c >= MEDS_n THEN vals[r][c] ELSE IF c = r THEN 1 ELSE 0]])

-----------------------------------------------------------------------------
\* solve: A and B_inv with A * P0 = B_inv, and the rows of A * P1 those of
\* B_inv one further down.

\* The n x (2n + 2) matrix the elimination works on.
SolveMatrix(P0, P1, Amm) ==
    LET n == MEDS_n IN
    Rows([j \in Idx(n) |-> [c \in Idx(2 * n + 2) |->
        IF c < n           THEN (MEDS_p - P1[c][j]) % MEDS_p
        ELSE IF c < 2 * n  THEN P0[c - n][j]
        ELSE IF c = 2 * n  THEN (P0[n - 1][j] * (MEDS_p - Amm)) % MEDS_p
        ELSE                    (P1[n - 1][j] * Amm) % MEDS_p]])

\* "eliminate last row", "ignore last column".
LastStep(X, r) ==
    LET n == MEDS_n IN
    [X EXCEPT ![n - 1] = [Minus(X, n - 1, X[n - 1][r], r, (n - 1)..(2 * n)) EXCEPT ![r] = 0]]
EliminateLast(M) == Loop(MEDS_n - 1, M, LAMBDA X, r : LastStep(X, r))

\* "normalize last row"; its last entry is cleared.
NormalizeLast(M) ==
    LET n == MEDS_n IN
    [Normalize(M, n - 1, n..(2 * n)) EXCEPT ![n - 1][n - 1] = 1, ![n - 1][2 * n + 1] = 0]

\* "back substitute".
SubstituteLast(M) ==
    LET n == MEDS_n IN
    Row([r \in DOMAIN M |->
            IF r < n - 1 THEN [Minus(M, r, M[r][n - 1], n - 1, n..(2 * n)) EXCEPT ![n - 1] = 0]
            ELSE M[r]])

\* sol.  Its last row ends with Amm; the ones above it take, from the last one
\* up, what the row below and M make of them ("incomplete", then "complete blocks").
LastRow(M, Amm) == [c \in Idx(MEDS_n) |-> IF c = MEDS_n - 1 THEN Amm ELSE M[c][2 * MEDS_n + 1]]

Dot(u, first, v, n) == Sigma(n, [x \in Idx(n) |-> u[first + x] * v[x]])

\* Mutant: the differences are not brought back into the field.
RowAbove_Negative(M, k, below) ==
    LET n == MEDS_n
    IN Row([i \in Idx(n) |-> IF k = 0 THEN M[i][2 * n] - (Dot(M[i], n, below, n - 1) % MEDS_p)
                             ELSE -(Dot(M[i], n, below, n) % MEDS_p)])

RowAbove(M, k, below) ==
    LET n == MEDS_n
    IN Row([i \in Idx(n) |-> IF k = 0 THEN (M[i][2 * n] - Dot(M[i], n, below, n - 1)) % MEDS_p
                             ELSE (-Dot(M[i], n, below, n)) % MEDS_p])

\* The k-th row from the end.
RowFromEnd(M, Amm, k) == Loop(k, LastRow(M, Amm), LAMBDA v, j : RowAbove(M, j, v))

Solution(M, P0, Amm) ==
    LET n == MEDS_n
        A == Row([r \in Idx(n) |-> RowFromEnd(M, Amm, n - 1 - r)])
    IN [A |-> A,
        B_inv |-> Rows([r \in Idx(n) |-> [i \in Idx(n) |->
                     Sigma(n, [x \in Idx(n) |-> P0[x][i] * A[r][x]]) % MEDS_p]])]

NoSolution == [ret |-> -1]

\* Mutant: the check of the last pivot is left out.
solve_NoPivot(G0prime, Amm) ==
    LET P0 == Square(G0prime[0])
        P1 == Square(G0prime[1])
        s  == pmod_mat_syst_ct(SolveMatrix(P0, P1, Amm), MEDS_n - 1)
        M  == EliminateLast(s.mat)
    IN IF s.ret < 0 THEN NoSolution
       ELSE [ret |-> 0, sol |-> Solution(SubstituteLast(NormalizeLast(M)), P0, Amm)]

solve(G0prime, Amm) ==
    LET P0 == Square(G0prime[0])
        P1 == Square(G0prime[1])
        s  == pmod_mat_syst_ct(SolveMatrix(P0, P1, Amm), MEDS_n - 1)
        M  == EliminateLast(s.mat)
    IN IF s.ret < 0 THEN NoSolution
       ELSE IF M[MEDS_n - 1][MEDS_n - 1] = 0 THEN NoSolution
       ELSE [ret |-> 0, sol |-> Solution(SubstituteLast(NormalizeLast(M)), P0, Amm)]
=============================================================================
