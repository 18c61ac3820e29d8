---------------------------- MODULE KeyPairProofs ----------------------------
(***************************************************************************)
(* Proofs about KeyPair, for every prime, every dimension and all draws.   *)
(* KeyInv says of every buffer how it came about from those before it;     *)
(* each property is then a fact of linear algebra about the operators of   *)
(* Matrix: those about solve are here, the others in MatrixProofs.         *)
(*                                                                         *)
(* What the rows of the system of solve say is read off by pairing them    *)
(* with a row made of two rows of a solution.  The elimination keeps the   *)
(* rows that the system pairs to zero with; with a last pivot it leaves    *)
(* one way to make each row of A from the next, and without one it leaves  *)
(* a row that can be added to a solution.                                  *)
(***************************************************************************)
EXTENDS KeyPair, MatrixProofs

-----------------------------------------------------------------------------
\* The first rows alone: what is done to them does not look at the rows below.

\* The first R rows of a matrix.
Top(X, R) == [r \in Idx(R) |-> X[r]]

\* A step that works on the first R rows does there what it does to a matrix
\* of these rows alone, and leaves the others.
OnTop(Y, Z, X, H, R) == Top(Y, R) = Z /\ \A q \in Idx(H) : q >= R => Y[q] = X[q]

\* The first R rows are a matrix.
LEMMA TopIs ==
    ASSUME NEW H, NEW N, NEW R, Sized(H, N, R), R # 0, NEW X \in Matrices(H, N)
    PROVE  /\ Top(X, R) \in Matrices(R, N) /\ Sized(R, N, R)
           /\ Idx(R) \subseteq Idx(H) /\ Idx(R) \subseteq Idx(N)
           /\ R \in Nat \ {0} /\ H \in Nat \ {0} /\ N \in Nat
           /\ Width(Top(X, R)) = N /\ Width(X) = N /\ DOMAIN X = Idx(H) /\ DOMAIN Top(X, R) = Idx(R)
           /\ \A q \in Idx(R) : Top(X, R)[q] = X[q] /\ DOMAIN X[q] = Idx(N)
<1>1. /\ Sized(R, N, R) /\ R \in Nat \ {0} /\ H \in Nat \ {0} /\ N \in Nat
      /\ Idx(R) \subseteq Idx(H) /\ Idx(R) \subseteq Idx(N)
  BY DEF Sized, Idx
<1>2. Top(X, R) \in Matrices(R, N) /\ \A q \in Idx(R) : Top(X, R)[q] = X[q]
  BY <1>1 DEF Top, Matrices, Mat
<1>3. Width(Top(X, R)) = N /\ Width(X) = N /\ DOMAIN X = Idx(H) /\ DOMAIN Top(X, R) = Idx(R)
      /\ \A q \in Idx(H) : DOMAIN X[q] = Idx(N)
  BY <1>1, <1>2, MatrixIs
<1> QED
  BY <1>1, <1>2, <1>3

\* A row that is replaced among the first.
LEMMA TopRow ==
    ASSUME NEW H, NEW N, NEW R, Sized(H, N, R), R # 0, NEW X \in Matrices(H, N), NEW r \in Idx(R), NEW m
    PROVE  OnTop([X EXCEPT ![r] = m], [Top(X, R) EXCEPT ![r] = m], X, H, R)
<1>0. Top(X, R) = [q \in Idx(R) |-> X[q]]
  BY DEF Top
<1>1. Idx(R) \subseteq Idx(H) /\ DOMAIN X = Idx(H) /\ R \in Nat
  BY TopIs
<1>2. r \in Idx(H) /\ ~(r >= R)
  BY <1>1 DEF Idx
<1>3. Top([X EXCEPT ![r] = m], R) = [Top(X, R) EXCEPT ![r] = m]
  BY <1>0, <1>1, <1>2 DEF Top
<1> QED
  BY <1>1, <1>2, <1>3 DEF OnTop

\* One addition of Swap below does to the first R rows what it does to them alone.
LEMMA SwapStepTop ==
    ASSUME Modulus, NEW H, NEW N, NEW R, Sized(H, N, R), R # 0, NEW X \in Matrices(H, N),
           NEW r \in Idx(R), NEW r2 \in Idx(R)
    PROVE  OnTop(SwapStep(X, r, r2), SwapStep(Top(X, R), r, r2), X, H, R)
<1> DEFINE T == Top(X, R)
           m == Minus(X, r, -1, r2, r..(N - 1))
<1>1. T[r] = X[r] /\ T[r2] = X[r2] /\ Width(T) = N /\ Width(X) = N
  BY TopIs
<1>2. Minus(T, r, -1, r2, r..(N - 1)) = m
  BY <1>1 DEF Minus
<1>3. SwapStep(X, r, r2) = (IF X[r][r] = 0 THEN [X EXCEPT ![r] = m] ELSE X)
  BY <1>1 DEF SwapStep
<1>4. SwapStep(T, r, r2) = (IF X[r][r] = 0 THEN [T EXCEPT ![r] = m] ELSE T)
  BY <1>1, <1>2 DEF SwapStep
<1>5. OnTop([X EXCEPT ![r] = m], [T EXCEPT ![r] = m], X, H, R)
  <2> HIDE DEF m
  <2> QED
    BY TopRow
<1>6. OnTop(X, T, X, H, R)
  BY DEF OnTop
<1> HIDE DEF T, m
<1> QED
  BY <1>3, <1>4, <1>5, <1>6 DEF T

\* So does Swap.
LEMMA SwapTop ==
    ASSUME Modulus, NEW H, NEW N, NEW R, Sized(H, N, R), R # 0, NEW X \in Matrices(H, N), NEW r \in Idx(R)
    PROVE  OnTop(Swap(X, r, R), Swap(Top(X, R), r, R), X, H, R)
<1> DEFINE K == R - 1 - r
<1>0. K \in Nat /\ \A k \in 1..K : r + 1 + (k - 1) \in Idx(R) /\ k - 1 \in 0..K
  BY TopIs DEF Idx
<1>1. PICK s \in [0..K -> Matrices(H, N)] :
          /\ s[0] = X
          /\ \A k \in 1..K : s[k] = SwapStep(s[k - 1], r, r + 1 + (k - 1))
          /\ Swap(X, r, R) = s[K]
  BY SwapLoop
<1>2. Top(X, R) \in Matrices(R, N) /\ Sized(R, N, R)
  BY TopIs
<1>3. PICK t \in [0..K -> Matrices(R, N)] :
          /\ t[0] = Top(X, R)
          /\ \A k \in 1..K : t[k] = SwapStep(t[k - 1], r, r + 1 + (k - 1))
          /\ Swap(Top(X, R), r, R) = t[K]
  BY <1>2, SwapLoop
<1> HIDE DEF K
<1> DEFINE S == {k \in Nat : k <= K => OnTop(s[k], t[k], X, H, R)}
<1>4. 0 \in S
  BY <1>0, <1>1, <1>3 DEF OnTop
<1>5. ASSUME NEW k \in S PROVE k + 1 \in S
  <2> SUFFICES ASSUME k + 1 <= K PROVE OnTop(s[k + 1], t[k + 1], X, H, R)
    OBVIOUS
  <2>1. k \in 0..K /\ k + 1 \in 1..K /\ (k + 1) - 1 = k /\ OnTop(s[k], t[k], X, H, R)
    BY <1>0
  <2>2. PICK r2 \in Idx(R) : r2 = r + 1 + ((k + 1) - 1)
    BY <1>0, <2>1
  <2>3. s[k + 1] = SwapStep(s[k], r, r2) /\ t[k + 1] = SwapStep(t[k], r, r2) /\ s[k] \in Matrices(H, N)
    BY <1>1, <1>3, <2>1, <2>2
  <2>4. OnTop(s[k + 1], SwapStep(Top(s[k], R), r, r2), s[k], H, R)
    BY <2>3, SwapStepTop
  <2> QED
    BY <2>1, <2>3, <2>4 DEF OnTop
<1> HIDE DEF S
<1>6. S = Nat
  <2>1. S \subseteq Nat
    BY DEF S
  <2> QED
    BY <1>4, <1>5, <2>1, Induction
<1>7. OnTop(s[K], t[K], X, H, R)
  BY <1>0, <1>6 DEF S
<1> QED
  BY <1>1, <1>3, <1>7 DEF K

\* Normalize.
LEMMA NormalizeTop ==
    ASSUME NEW H, NEW N, NEW R, Sized(H, N, R), R # 0, NEW X \in Matrices(H, N), NEW r \in Idx(R), NEW Cols
    PROVE  OnTop(Normalize(X, r, Cols), Normalize(Top(X, R), r, Cols), X, H, R)
<1> DEFINE T == Top(X, R)
           m == Row([c \in DOMAIN X[r] |-> IF c \in Cols THEN (X[r][c] * GF_inv(X[r][r])) % MEDS_p ELSE X[r][c]])
<1>1. T[r] = X[r] /\ DOMAIN X = Idx(H) /\ DOMAIN T = Idx(R) /\ r \in Idx(H)
  BY TopIs
<1>2. Normalize(X, r, Cols) = [X EXCEPT ![r] = m] /\ Normalize(T, r, Cols) = [T EXCEPT ![r] = m]
  BY <1>1 DEF Normalize
<1> HIDE DEF m
<1>3. OnTop([X EXCEPT ![r] = m], [T EXCEPT ![r] = m], X, H, R)
  BY TopRow
<1> QED
  BY <1>2, <1>3

\* Eliminate.
LEMMA EliminateTop ==
    ASSUME NEW H, NEW N, NEW R, Sized(H, N, R), R # 0, NEW X \in Matrices(H, N), NEW r \in Idx(R)
    PROVE  OnTop(Eliminate(X, r, R), Eliminate(Top(X, R), r, R), X, H, R)
<1> DEFINE T == Top(X, R)
           K == r..(N - 1)
           row == [q \in Idx(H) |-> IF q \in (r + 1)..(R - 1) THEN Minus(X, q, X[q][r], r, K) ELSE X[q]]
           rowT == [q \in Idx(R) |-> IF q \in (r + 1)..(R - 1) THEN Minus(T, q, T[q][r], r, K) ELSE T[q]]
<1>1. /\ \A q \in Idx(R) : T[q] = X[q]
      /\ DOMAIN X = Idx(H) /\ DOMAIN T = Idx(R) /\ Width(X) = N /\ Width(T) = N
      /\ R \in Nat /\ Idx(R) \subseteq Idx(H)
  BY TopIs
<1>2. Eliminate(X, r, R) = row /\ Eliminate(T, r, R) = rowT
  BY <1>1, RowIs DEF Eliminate
<1>3. \A q \in Idx(R) : Minus(T, q, T[q][r], r, K) = Minus(X, q, X[q][r], r, K)
  BY <1>1 DEF Minus
<1>4. \A q \in Idx(R) : row[q] = rowT[q]
  BY <1>1, <1>3
<1>5. \A q \in Idx(H) : q >= R => row[q] = X[q]
  BY <1>1 DEF Idx
<1>6. rowT = [q \in Idx(R) |-> rowT[q]]
  OBVIOUS
<1> HIDE DEF row, rowT, T
<1>7. Top(row, R) = rowT
  BY <1>4, <1>6 DEF Top
<1> QED
  BY <1>2, <1>5, <1>7 DEF OnTop, T

\* A step of the echelon form.
LEMMA EchelonStepTop ==
    ASSUME Modulus, IsField(MEDS_p), NEW H, NEW N, NEW R, Sized(H, N, R), R # 0,
           NEW s \in States(H, N), NEW t \in States(R, N), t.ret = s.ret, t.mat = Top(s.mat, R), NEW r \in Idx(R)
    PROVE  /\ EchelonStep(t, r, R).ret = EchelonStep(s, r, R).ret
           /\ OnTop(EchelonStep(s, r, R).mat, EchelonStep(t, r, R).mat, s.mat, H, R)
<1> DEFINE X == Swap(s.mat, r, R)
           Y == Normalize(X, r, r..(N - 1))
           T == Swap(t.mat, r, R)
           U == Normalize(T, r, r..(N - 1))
<1>0. s.mat \in Matrices(H, N) /\ Idx(R) \subseteq Idx(N) /\ Idx(R) \subseteq Idx(H) /\ H \in Nat \ {0} /\ N \in Nat
  BY TopIs DEF States
<1>1. OnTop(X, T, s.mat, H, R) /\ X \in Matrices(H, N)
  BY <1>0, SwapTop, SwapType
<1> HIDE DEF X, T
<1>2. T = Top(X, R) /\ T[r] = X[r] /\ Width(X) = N /\ Width(T) = N
  BY <1>1, TopIs DEF OnTop
<1>3. /\ EchelonStep(s, r, R) = IF s.ret # 0 THEN s
                                ELSE IF X[r][r] = 0 THEN [ret |-> -1, mat |-> X]
                                ELSE [ret |-> 0, mat |-> Eliminate(Y, r, R)]
      /\ EchelonStep(t, r, R) = IF s.ret # 0 THEN t
                                ELSE IF X[r][r] = 0 THEN [ret |-> -1, mat |-> T]
                                ELSE [ret |-> 0, mat |-> Eliminate(U, r, R)]
  BY <1>2 DEF EchelonStep, X, T
<1>4. ASSUME X[r][r] # 0 PROVE OnTop(Eliminate(Y, r, R), Eliminate(U, r, R), s.mat, H, R)
  <2>1. OnTop(Y, U, X, H, R)
    BY <1>1, <1>2, NormalizeTop
  <2>2. Y \in Matrices(H, N)
    BY <1>0, <1>1, <1>4, NormalizeType
  <2>3. U = Top(Y, R)
    BY <2>1 DEF OnTop
  <2> HIDE DEF Y, U
  <2>4. OnTop(Eliminate(Y, r, R), Eliminate(U, r, R), Y, H, R)
    BY <2>2, <2>3, EliminateTop
  <2> QED
    BY <1>1, <2>1, <2>4 DEF OnTop
<1>5. OnTop(s.mat, t.mat, s.mat, H, R)
  BY DEF OnTop
<1> HIDE DEF Y, U
<1> QED
  BY <1>1, <1>3, <1>4, <1>5

\* The echelon form.
LEMMA EchelonTop ==
    ASSUME Modulus, IsField(MEDS_p), NEW H, NEW N, NEW R, Sized(H, N, R), R # 0, NEW X \in Matrices(H, N)
    PROVE  /\ Echelon(Top(X, R), R).ret = Echelon(X, R).ret
           /\ OnTop(Echelon(X, R).mat, Echelon(Top(X, R), R).mat, X, H, R)
<1>0. R \in Nat /\ \A k \in 1..R : k - 1 \in Idx(R)
  BY DEF Sized, Idx
<1>1. PICK s \in [0..R -> States(H, N)] :
          /\ s[0] = [ret |-> 0, mat |-> X]
          /\ \A k \in 1..R : s[k] = EchelonStep(s[k - 1], k - 1, R)
          /\ Echelon(X, R) = s[R]
  BY EchelonLoop
<1>2. Top(X, R) \in Matrices(R, N) /\ Sized(R, N, R)
  BY TopIs
<1>3. PICK t \in [0..R -> States(R, N)] :
          /\ t[0] = [ret |-> 0, mat |-> Top(X, R)]
          /\ \A k \in 1..R : t[k] = EchelonStep(t[k - 1], k - 1, R)
          /\ Echelon(Top(X, R), R) = t[R]
  BY <1>2, EchelonLoop
<1> DEFINE S == {k \in Nat : k <= R => t[k].ret = s[k].ret /\ OnTop(s[k].mat, t[k].mat, X, H, R)}
<1>4. 0 \in S
  BY <1>0, <1>1, <1>3 DEF OnTop
<1>5. ASSUME NEW k \in S PROVE k + 1 \in S
  <2> SUFFICES ASSUME k + 1 <= R PROVE t[k + 1].ret = s[k + 1].ret /\ OnTop(s[k + 1].mat, t[k + 1].mat, X, H, R)
    OBVIOUS
  <2>1. k \in 0..R /\ k + 1 \in 1..R /\ (k + 1) - 1 = k /\ t[k].ret = s[k].ret /\ OnTop(s[k].mat, t[k].mat, X, H, R)
    BY <1>0
  <2>2. k \in Idx(R)
    BY <1>0, <2>1
  <2>3. s[k + 1] = EchelonStep(s[k], k, R) /\ t[k + 1] = EchelonStep(t[k], k, R)
        /\ s[k] \in States(H, N) /\ t[k] \in States(R, N) /\ t[k].mat = Top(s[k].mat, R)
    BY <1>1, <1>3, <2>1 DEF OnTop
  <2>4. t[k + 1].ret = s[k + 1].ret /\ OnTop(s[k + 1].mat, t[k + 1].mat, s[k].mat, H, R)
    BY <2>1, <2>2, <2>3, EchelonStepTop
  <2> QED
    BY <2>1, <2>4 DEF OnTop
<1> HIDE DEF S
<1>6. S = Nat
  <2>1. S \subseteq Nat
    BY DEF S
  <2> QED
    BY <1>4, <1>5, <2>1, Induction
<1>7. t[R].ret = s[R].ret /\ OnTop(s[R].mat, t[R].mat, X, H, R)
  BY <1>0, <1>6 DEF S
<1> QED
  BY <1>1, <1>3, <1>7

\* A step of the back substitution.
LEMMA SubstituteTop ==
    ASSUME NEW H, NEW N, NEW R, Sized(H, N, R), R # 0, NEW X \in Matrices(H, N), NEW r \in Idx(R)
    PROVE  OnTop(Substitute(X, r, R), Substitute(Top(X, R), r, R), X, H, R)
<1> DEFINE T == Top(X, R)
           K == {r} \cup R..(N - 1)
           row == [q \in Idx(H) |-> IF q < r THEN Minus(X, q, X[q][r], r, K) ELSE X[q]]
           rowT == [q \in Idx(R) |-> IF q < r THEN Minus(T, q, T[q][r], r, K) ELSE T[q]]
<1>1. /\ \A q \in Idx(R) : T[q] = X[q]
      /\ DOMAIN X = Idx(H) /\ DOMAIN T = Idx(R) /\ Width(X) = N /\ Width(T) = N
      /\ R \in Nat /\ Idx(R) \subseteq Idx(H)
  BY TopIs
<1>2. Substitute(X, r, R) = row /\ Substitute(T, r, R) = rowT
  BY <1>1, RowIs DEF Substitute
<1>3. \A q \in Idx(R) : Minus(T, q, T[q][r], r, K) = Minus(X, q, X[q][r], r, K)
  BY <1>1 DEF Minus
<1>4. \A q \in Idx(R) : row[q] = rowT[q]
  BY <1>1, <1>3
<1>5. \A q \in Idx(H) : q >= R => row[q] = X[q]
  BY <1>1 DEF Idx
<1>6. rowT = [q \in Idx(R) |-> rowT[q]]
  OBVIOUS
<1> HIDE DEF row, rowT, T
<1>7. Top(row, R) = rowT
  BY <1>4, <1>6 DEF Top
<1> QED
  BY <1>2, <1>5, <1>7 DEF OnTop, T

\* The back substitution.
LEMMA BackTop ==
    ASSUME Modulus, NEW H, NEW N, NEW R, Sized(H, N, R), R # 0, NEW X \in Matrices(H, N)
    PROVE  OnTop(BackSubstitute(X, R), BackSubstitute(Top(X, R), R), X, H, R)
<1>0. R \in Nat /\ \A k \in 1..R : R - 1 - (k - 1) \in Idx(R)
  BY DEF Sized, Idx
<1>1. PICK s \in [0..R -> Matrices(H, N)] :
          /\ s[0] = X
          /\ \A k \in 1..R : s[k] = Substitute(s[k - 1], R - 1 - (k - 1), R)
          /\ BackSubstitute(X, R) = s[R]
  BY BackLoop
<1>2. Top(X, R) \in Matrices(R, N) /\ Sized(R, N, R)
  BY TopIs
<1>3. PICK t \in [0..R -> Matrices(R, N)] :
          /\ t[0] = Top(X, R)
          /\ \A k \in 1..R : t[k] = Substitute(t[k - 1], R - 1 - (k - 1), R)
          /\ BackSubstitute(Top(X, R), R) = t[R]
  BY <1>2, BackLoop
<1> DEFINE S == {k \in Nat : k <= R => OnTop(s[k], t[k], X, H, R)}
<1>4. 0 \in S
  BY <1>0, <1>1, <1>3 DEF OnTop
<1>5. ASSUME NEW k \in S PROVE k + 1 \in S
  <2> SUFFICES ASSUME k + 1 <= R PROVE OnTop(s[k + 1], t[k + 1], X, H, R)
    OBVIOUS
  <2>1. k \in 0..R /\ k + 1 \in 1..R /\ (k + 1) - 1 = k /\ OnTop(s[k], t[k], X, H, R)
    BY <1>0
  <2>2. PICK r \in Idx(R) : r = R - 1 - ((k + 1) - 1)
    BY <1>0, <2>1
  <2>3. s[k + 1] = Substitute(s[k], r, R) /\ t[k + 1] = Substitute(t[k], r, R) /\ s[k] \in Matrices(H, N)
    BY <1>1, <1>3, <2>1, <2>2
  <2>4. OnTop(s[k + 1], Substitute(Top(s[k], R), r, R), s[k], H, R)
    BY <2>3, SubstituteTop
  <2> QED
    BY <2>1, <2>3, <2>4 DEF OnTop
<1> HIDE DEF S
<1>6. S = Nat
  <2>1. S \subseteq Nat
    BY DEF S
  <2> QED
    BY <1>4, <1>5, <2>1, Induction
<1>7. OnTop(s[R], t[R], X, H, R)
  BY <1>0, <1>6 DEF S
<1> QED
  BY <1>1, <1>3, <1>7

\* pmod_mat_syst_ct does to the first R rows what it does to them alone.
LEMMA SystTop ==
    ASSUME Modulus, IsField(MEDS_p), NEW H, NEW N, NEW R, Sized(H, N, R), R # 0, NEW X \in Matrices(H, N)
    PROVE  /\ pmod_mat_syst_ct(Top(X, R), R).ret = pmod_mat_syst_ct(X, R).ret
           /\ OnTop(pmod_mat_syst_ct(X, R).mat, pmod_mat_syst_ct(Top(X, R), R).mat, X, H, R)
<1> DEFINE T == Top(X, R)
           e == Echelon(X, R)
           d == Echelon(T, R)
<1>1. d.ret = e.ret /\ OnTop(e.mat, d.mat, X, H, R)
  BY EchelonTop
<1>2. e \in States(H, N)
  BY EchelonIs
<1>3. /\ pmod_mat_syst_ct(X, R) = (IF e.ret = 0 THEN [ret |-> 0, mat |-> BackSubstitute(e.mat, R)] ELSE e)
      /\ pmod_mat_syst_ct(T, R) = (IF d.ret = 0 THEN [ret |-> 0, mat |-> BackSubstitute(d.mat, R)] ELSE d)
  BY DEF pmod_mat_syst_ct
<1> HIDE DEF T, e, d
<1>4. e.mat \in Matrices(H, N) /\ d.mat = Top(e.mat, R)
  BY <1>1, <1>2 DEF States, OnTop
<1>5. OnTop(BackSubstitute(e.mat, R), BackSubstitute(d.mat, R), e.mat, H, R)
  BY <1>4, BackTop
<1>6. OnTop(BackSubstitute(e.mat, R), BackSubstitute(d.mat, R), X, H, R)
  BY <1>1, <1>5 DEF OnTop
<1> QED
  BY <1>1, <1>3, <1>6 DEF T

-----------------------------------------------------------------------------
\* Pairing two rows: the sum of the products of their entries.

\* Sums of the same terms are the same.
LEMMA SumSame ==
    ASSUME Modulus, NEW n \in Nat, NEW f, NEW e, Terms(f, n), \A i \in Idx(n) : e[i] = f[i]
    PROVE  FieldSum(n, e) = FieldSum(n, f)
<1>1. 1 \in Field /\ \A i \in Idx(n) : e[i] = 1 ** f[i]
  BY FieldInt, Units DEF Terms
<1>2. FieldSum(n, e) = 1 ** FieldSum(n, f)
  BY <1>1, SumScaled
<1> QED
  BY <1>2, SumType, Units

\* A sum in two parts.
LEMMA SumSplit ==
    ASSUME Modulus, NEW n \in Nat, NEW m \in Nat, NEW f, Terms(f, n + m), NEW e,
           \A i \in Idx(m) : e[i] = f[n + i]
    PROVE  FieldSum(n + m, f) = FieldSum(n, f) ++ FieldSum(m, e)
<1> DEFINE S == {k \in Nat : k <= m => FieldSum(n + k, f) = FieldSum(n, f) ++ FieldSum(k, e)}
<1>1. 0 \in S
  <2>1. Terms(f, n)
    BY DEF Terms, Idx
  <2>2. FieldSum(n, f) \in Field /\ FieldSum(0, e) = 0
    BY <2>1, SumType, SumZero
  <2>3. FieldSum(n, f) ++ 0 = FieldSum(n, f)
    BY <2>2, Units
  <2> QED
    BY <2>2, <2>3
<1>2. ASSUME NEW k \in S PROVE k + 1 \in S
  <2> SUFFICES ASSUME k + 1 <= m PROVE FieldSum(n + (k + 1), f) = FieldSum(n, f) ++ FieldSum(k + 1, e)
    OBVIOUS
  <2>1. k \in Nat /\ FieldSum(n + k, f) = FieldSum(n, f) ++ FieldSum(k, e)
    OBVIOUS
  <2>2. n + k \in Nat /\ n + (k + 1) = (n + k) + 1 /\ k \in Idx(m)
    BY <2>1 DEF Idx
  <2>3. Terms(f, (n + k) + 1) /\ Terms(f, n)
    BY <2>1 DEF Terms, Idx
  <2>4. Terms(e, k + 1)
    <3>1. \A i \in Idx(k + 1) : i \in Idx(m) /\ n + i \in Idx(n + m)
      BY <2>1 DEF Idx
    <3> QED
      BY <3>1 DEF Terms
  <2>5. FieldSum((n + k) + 1, f) = FieldSum(n + k, f) ++ f[n + k] /\ f[n + k] \in Field
    BY <2>2, <2>3, SumStep
  <2>6. FieldSum(k + 1, e) = FieldSum(k, e) ++ e[k] /\ e[k] = f[n + k] /\ FieldSum(k, e) \in Field
    BY <2>1, <2>2, <2>4, SumStep
  <2>7. FieldSum(n, f) \in Field
    BY <2>3, SumType
  <2> QED
    BY <2>1, <2>2, <2>5, <2>6, <2>7, Assoc
<1> HIDE DEF S
<1>3. S = Nat
  <2>1. S \subseteq Nat
    BY DEF S
  <2> QED
    BY <1>1, <1>2, <2>1, Induction
<1> QED
  BY <1>3 DEF S

\* Opposite elements.
LEMMA Opposite ==
    ASSUME Modulus
    PROVE  /\ Neg(1) \in Field
           /\ \A a \in Field : Neg(a) \in Field /\ Neg(a) = Neg(1) ** a /\ a ++ Neg(a) = 0
           /\ \A a, b \in Field : a ++ b = 0 <=> a = Neg(b)
           /\ \A a, b \in Field : (Neg(1) ** a) ++ b = 0 <=> a = b
           /\ \A a \in Field : Neg(1) ** a = 0 <=> a = 0
           /\ \A a \in Field : Neg(1) ** (Neg(1) ** a) = a
<1>0. 0 \in Field /\ 1 \in Field /\ Neg(1) \in Field /\ 1 ++ Neg(1) = 0
  BY FieldInt, NegIs
<1>1. ASSUME NEW a \in Field PROVE a ++ (Neg(1) ** a) = 0 /\ (Neg(1) ** a) ++ a = 0 /\ Neg(1) ** a \in Field
  <2>1. (1 ++ Neg(1)) ** a = (1 ** a) ++ (Neg(1) ** a)
    BY <1>0, Distr
  <2> QED
    BY <1>0, <2>1, Units, Comm
<1>2. ASSUME NEW a \in Field, NEW b \in Field, NEW c \in Field, a ++ c = 0, b ++ c = 0 PROVE a = b
  <2>1. (a ++ c) ++ b = a ++ (c ++ b) /\ c ++ b = b ++ c
    BY Assoc, Comm
  <2> QED
    BY <1>2, <2>1, Units
<1>3. ASSUME NEW a \in Field PROVE Neg(a) \in Field /\ Neg(a) = Neg(1) ** a /\ a ++ Neg(a) = 0
  <2>1. Neg(a) \in Field /\ a ++ Neg(a) = 0
    BY NegIs
  <2>2. Neg(a) ++ a = 0
    BY <2>1, Comm
  <2> QED
    BY <1>1, <1>2, <2>1, <2>2
<1>4. ASSUME NEW a \in Field, NEW b \in Field PROVE a ++ b = 0 <=> a = Neg(b)
  <2>1. Neg(b) \in Field /\ Neg(b) ++ b = 0
    BY <1>3, Comm
  <2> QED
    BY <1>2, <2>1
<1>5. ASSUME NEW a \in Field, NEW b \in Field PROVE (Neg(1) ** a) ++ b = 0 <=> a = b
  <2>1. PICK c \in Field : c = Neg(1) ** a /\ c ++ a = 0 /\ a ++ c = 0
    BY <1>1
  <2>2. c ++ b = b ++ c
    BY Comm
  <2> QED
    BY <1>2, <2>1, <2>2
<1>6. ASSUME NEW a \in Field PROVE Neg(1) ** a = 0 <=> a = 0
  <2>1. Neg(1) ** a \in Field /\ (Neg(1) ** a) ++ 0 = Neg(1) ** a
    BY <1>1, Units
  <2> QED
    BY <1>0, <1>5, <2>1
<1>7. ASSUME NEW a \in Field PROVE Neg(1) ** (Neg(1) ** a) = a
  <2>1. PICK c \in Field : c = Neg(1) ** a /\ a ++ c = 0
    BY <1>1
  <2>2. c ++ (Neg(1) ** c) = 0 /\ (Neg(1) ** c) ++ c = 0 /\ Neg(1) ** c \in Field
    BY <1>1
  <2> QED
    BY <1>2, <2>1, <2>2
<1> QED
  BY <1>0, <1>3, <1>4, <1>5, <1>6, <1>7

-----------------------------------------------------------------------------
\* The scalar product of two rows.
Pair(N, w, e) == FieldSum(N, [c \in Idx(N) |-> w[c] ** e[c]])

\* A pairing is an element of the field.
LEMMA PairType ==
    ASSUME Modulus, NEW N \in Nat, NEW w \in Vec(Idx(N)), NEW e \in Vec(Idx(N))
    PROVE  Pair(N, w, e) \in Field /\ Terms([c \in Idx(N) |-> w[c] ** e[c]], N)
<1> DEFINE f == [c \in Idx(N) |-> w[c] ** e[c]]
<1>1. \A c \in Idx(N) : f[c] \in Field
  BY Comm DEF Vec
<1> HIDE DEF f
<1>2. Terms(f, N)
  BY <1>1 DEF Terms
<1> QED
  BY <1>2, SumType DEF Pair, f

\* Pairing is linear.
LEMMA PairPlus ==
    ASSUME Modulus, NEW N \in Nat, NEW u \in Vec(Idx(N)), NEW v \in Vec(Idx(N)), NEW g \in Field, NEW e \in Vec(Idx(N))
    PROVE  Pair(N, Plus(u, g, v), e) = Pair(N, u, e) ++ (g ** Pair(N, v, e))
<1> DEFINE f == [c \in Idx(N) |-> u[c] ** e[c]]
           h == [c \in Idx(N) |-> v[c] ** e[c]]
           d == [c \in Idx(N) |-> Plus(u, g, v)[c] ** e[c]]
<1>1. Terms(f, N) /\ Terms(h, N)
  BY PairType
<1>2. ASSUME NEW c \in Idx(N) PROVE d[c] = f[c] ++ (g ** h[c])
  <2>1. u[c] \in Field /\ v[c] \in Field /\ e[c] \in Field
    BY DEF Vec
  <2>2. Plus(u, g, v)[c] = u[c] ++ (g ** v[c]) /\ g ** v[c] \in Field
    <3>1. Plus(u, g, v)[c] = u[c] ++ (g ** v[c])
      BY PlusType
    <3> QED
      BY <2>1, <3>1, Comm
  <2>3. (u[c] ++ (g ** v[c])) ** e[c] = (u[c] ** e[c]) ++ ((g ** v[c]) ** e[c])
    BY <2>1, <2>2, Distr
  <2>4. (g ** v[c]) ** e[c] = g ** (v[c] ** e[c])
    BY <2>1, Assoc
  <2> QED
    BY <2>2, <2>3, <2>4
<1> HIDE DEF f, h, d
<1>3. FieldSum(N, d) = FieldSum(N, f) ++ (g ** FieldSum(N, h))
  BY <1>1, <1>2, SumLinear
<1> QED
  BY <1>3 DEF Pair, f, h, d

\* Where e is zero the other row does not count.
LEMMA PairAgree ==
    ASSUME Modulus, NEW N \in Nat, NEW u \in Vec(Idx(N)), NEW v \in Vec(Idx(N)), NEW e \in Vec(Idx(N)),
           \A c \in Idx(N) : e[c] = 0 \/ u[c] = v[c]
    PROVE  Pair(N, u, e) = Pair(N, v, e)
<1> DEFINE f == [c \in Idx(N) |-> u[c] ** e[c]]
           h == [c \in Idx(N) |-> v[c] ** e[c]]
<1>1. Terms(h, N)
  BY PairType
<1>2. \A c \in Idx(N) : f[c] = h[c]
  <2> TAKE c \in Idx(N)
  <2>1. u[c] \in Field /\ v[c] \in Field
    BY DEF Vec
  <2> QED
    BY <2>1, Units
<1> HIDE DEF f, h
<1>3. FieldSum(N, f) = FieldSum(N, h)
  BY <1>1, <1>2, SumSame
<1> QED
  BY <1>3 DEF Pair, f, h

\* Rows with the same span are at right angles to the same rows.
LEMMA PairSpan ==
    ASSUME Modulus, NEW N \in Nat, NEW D, NEW X \in Mat(D, Idx(N)), NEW Y \in Mat(D, Idx(N)),
           Span(Idx(N), X) = Span(Idx(N), Y), NEW e \in Vec(Idx(N)),
           \A r \in D : Pair(N, X[r], e) = 0
    PROVE  \A r \in D : Pair(N, Y[r], e) = 0
<1> DEFINE W == {w \in Vec(Idx(N)) : Pair(N, w, e) = 0}
<1>1. ASSUME NEW u \in W, NEW v \in W, NEW g \in Field PROVE Plus(u, g, v) \in W
  <2>1. u \in Vec(Idx(N)) /\ v \in Vec(Idx(N)) /\ Pair(N, u, e) = 0 /\ Pair(N, v, e) = 0
    OBVIOUS
  <2>2. Plus(u, g, v) \in Vec(Idx(N))
    BY <2>1, PlusType
  <2>3. Pair(N, Plus(u, g, v), e) = 0 ++ (g ** 0)
    BY <2>1, PairPlus
  <2>4. 0 ++ (g ** 0) = 0
    BY FieldInt, Units
  <2> QED
    BY <2>2, <2>3, <2>4
<1>2. Subspace(W) /\ W \in SUBSET Vec(Idx(N))
  BY <1>1 DEF Subspace
<1>3. Holds(W, X)
  BY DEF Holds, Mat
<1>4. \A w \in W : Pair(N, w, e) = 0
  OBVIOUS
<1> HIDE DEF W
<1>5. Span(Idx(N), X) \subseteq W
  BY <1>2, <1>3, SpanInside
<1>6. \A r \in D : Y[r] \in Span(Idx(N), Y)
  BY SpanHolds DEF Holds, Mat
<1> QED
  BY <1>4, <1>5, <1>6

-----------------------------------------------------------------------------
\* Rows for columns.
Transpose(n, X) == [r \in Idx(n) |-> [c \in Idx(n) |-> X[c][r]]]

\* A square transposed, once and twice.
LEMMA TransposeIs ==
    ASSUME NEW n \in Nat \ {0}, NEW X \in Matrices(n, n)
    PROVE  /\ Transpose(n, X) \in Matrices(n, n)
           /\ \A r, c \in Idx(n) : Transpose(n, X)[r][c] = X[c][r]
           /\ Transpose(n, Transpose(n, X)) = X
<1>1. \A r, c \in Idx(n) : X[r][c] \in Field
  BY MatrixIs
<1>2. Transpose(n, X) \in Matrices(n, n) /\ \A r, c \in Idx(n) : Transpose(n, X)[r][c] = X[c][r]
  BY <1>1 DEF Transpose, Matrices, Mat, Vec
<1>3. X = [r \in Idx(n) |-> [c \in Idx(n) |-> X[r][c]]]
  BY DEF Matrices, Mat, Vec
<1> QED
  BY <1>2, <1>3 DEF Transpose

\* The transpose of a product.
LEMMA TransposeMul ==
    ASSUME Modulus, NEW n \in Nat \ {0}, NEW X \in Matrices(n, n), NEW Y \in Matrices(n, n)
    PROVE  Transpose(n, pmod_mat_mul(X, Y)) = pmod_mat_mul(Transpose(n, Y), Transpose(n, X))
<1> DEFINE XT == Transpose(n, X)
           YT == Transpose(n, Y)
<1>0. n \in Nat /\ XT \in Matrices(n, n) /\ YT \in Matrices(n, n)
      /\ \A r, c \in Idx(n) : XT[r][c] = X[c][r] /\ YT[r][c] = Y[c][r] /\ X[r][c] \in Field /\ Y[r][c] \in Field
  BY TransposeIs, MatrixIs
<1> HIDE DEF XT, YT
<1>1. pmod_mat_mul(X, Y) = [r \in Idx(n) |-> RowTimes(n, n, X[r], Y)]
  BY <1>0, MulIs
<1>2. pmod_mat_mul(YT, XT) = [r \in Idx(n) |-> RowTimes(n, n, YT[r], XT)]
  BY <1>0, MulIs
<1>3. ASSUME NEW r \in Idx(n), NEW c \in Idx(n) PROVE Entry(n, X[r], Y, c) = Entry(n, YT[c], XT, r)
  <2>1. \A i \in Idx(n) : X[r][i] ** Y[i][c] = YT[c][i] ** XT[i][r]
    BY <1>0, Comm
  <2> QED
    BY <2>1 DEF Entry
<1>4. Transpose(n, pmod_mat_mul(X, Y)) = [c \in Idx(n) |-> [r \in Idx(n) |-> Entry(n, X[r], Y, c)]]
  BY <1>1 DEF Transpose, RowTimes
<1>5. pmod_mat_mul(YT, XT) = [c \in Idx(n) |-> [r \in Idx(n) |-> Entry(n, YT[c], XT, r)]]
  BY <1>2 DEF RowTimes
<1> QED
  BY <1>3, <1>4, <1>5 DEF XT, YT

\* If the columns span everything, so do the rows.
LEMMA TransposeFull ==
    ASSUME Modulus, IsField(MEDS_p), NEW n \in Nat \ {0}, NEW X \in Matrices(n, n), Full(n, Transpose(n, X))
    PROVE  Full(n, X)
<1>1. PICK Y \in Matrices(n, n) : Y = Transpose(n, X) /\ Transpose(n, Y) = X
  BY TransposeIs
<1>2. PICK W \in Matrices(n, n) : pmod_mat_mul(Y, W) = One(n)
  BY <1>1, InvIs
<1>3. Transpose(n, One(n)) = pmod_mat_mul(Transpose(n, W), X)
  BY <1>1, <1>2, TransposeMul
<1>4. Transpose(n, One(n)) = One(n)
  BY DEF Transpose, One
<1>5. Transpose(n, W) \in Matrices(n, n)
  BY TransposeIs
<1> QED
  BY <1>3, <1>4, <1>5, InverseFull

\* Rows that do not span everything are all at right angles to some row that is
\* not null.
LEMMA Kernel ==
    ASSUME Modulus, IsField(MEDS_p), NEW n \in Nat \ {0}, NEW X \in Matrices(n, n), ~Full(n, X)
    PROVE  \E z \in Vec(Idx(n)) : z # Null(n) /\ \A r \in Idx(n) : Pair(n, X[r], z) = 0
<1>0. n \in Nat
  OBVIOUS
<1>1. PICK Y \in Matrices(n, n) : Y = Transpose(n, X) /\ \A r, c \in Idx(n) : Y[r][c] = X[c][r]
  BY TransposeIs
<1>2. ~Full(n, Y)
  BY <1>1, TransposeFull
<1>3. ~OneToOne(n, Y)
  BY <1>2, OneToOneFull
<1>4. PICK z \in Vec(Idx(n)) : RowTimes(n, n, z, Y) = Null(n) /\ z # Null(n)
  BY <1>3 DEF OneToOne
<1>5. ASSUME NEW r \in Idx(n) PROVE Pair(n, X[r], z) = 0
  <2>1. RowTimes(n, n, z, Y)[r] = Entry(n, z, Y, r) /\ Null(n)[r] = 0
    BY DEF RowTimes, Null
  <2>2. \A i \in Idx(n) : z[i] ** Y[i][r] = X[r][i] ** z[i]
    <3> TAKE i \in Idx(n)
    <3>1. z[i] \in Field /\ X[r][i] \in Field /\ Y[i][r] = X[r][i]
      BY <1>1, MatrixIs DEF Vec
    <3> QED
      BY <3>1, Comm
  <2>3. Entry(n, z, Y, r) = Pair(n, X[r], z)
    BY <2>2 DEF Entry, Pair
  <2> QED
    BY <1>4, <2>1, <2>3
<1> QED
  BY <1>4, <1>5

-----------------------------------------------------------------------------
\* The last row of the system of solve.

\* EliminateLast is LastStep, row by row.
LEMMA EliminateLastLoop ==
    ASSUME Modulus, Size, NEW X \in Systems
    PROVE  \E s \in [0..(MEDS_n - 1) -> Systems] :
               /\ s[0] = X
               /\ \A k \in 1..(MEDS_n - 1) : s[k] = LastStep(s[k - 1], k - 1)
               /\ EliminateLast(X) = s[MEDS_n - 1]
<1> DEFINE V == Systems
           n == MEDS_n - 1
           step == [k \in 1..n |-> [M \in V |-> LastStep(M, k - 1)]]
           E(g) == [k \in 0..n |-> IF k = 0 THEN X ELSE LastStep(g[k - 1], k - 1)]
<1>0. n \in Nat /\ \A k \in 1..n : k - 1 \in Idx(n)
  BY DEF Size, Idx
<1>1. \A k \in 1..n, M \in V : LastStep(M, k - 1) \in V
  BY <1>0, LastStepType
<1>2. X \in V /\ step \in [1..n -> [V -> V]]
  <2> HIDE DEF V, n
  <2>1. X \in V
    BY DEF V
  <2> QED
    BY <1>1, <2>1
<1>3. \A k \in 1..n, M \in V : step[k][M] = LastStep(M, k - 1)
  OBVIOUS
<1>4. EliminateLast(X) = (CHOOSE g : g = E(g))[n]
  BY DEF EliminateLast, Loop
<1> HIDE DEF V, n
<1>5. ASSUME NEW g, g = E(g)
      PROVE  LoopEq(g, V, X, n, step)
  <2>1. g = [k \in 0..n |-> g[k]] /\ g[0] = X
    BY <1>0, <1>5
  <2>2. \A k \in 1..n : g[k] = LastStep(g[k - 1], k - 1)
    BY <1>0, <1>5
  <2> HIDE DEF step, E
  <2> QED
    BY <2>1, <2>2, <1>3 DEF LoopEq
<1>6. ASSUME NEW g \in [0..n -> V], Iterates(g, X, n, step)
      PROVE  g = E(g) /\ g[0] = X /\ \A k \in 1..n : g[k] = LastStep(g[k - 1], k - 1)
  <2>1. \A k \in 1..n : g[k - 1] \in V
    BY <1>0
  <2>2. g[0] = X /\ \A k \in 1..n : g[k] = step[k][g[k - 1]]
    BY <1>6 DEF Iterates
  <2> HIDE DEF step
  <2>3. \A k \in 1..n : g[k] = LastStep(g[k - 1], k - 1)
    BY <2>1, <2>2, <1>3
  <2> QED
    BY <1>0, <2>2, <2>3
<1> HIDE DEF step, E
<1>7. PICK s \in [0..n -> V] : Iterates(s, X, n, step) /\ \A g : LoopEq(g, V, X, n, step) => g = s
  BY <1>0, <1>2, LoopValues
<1>8. EliminateLast(X) = s[n]
  BY <1>4, <1>5, <1>6, <1>7
<1> QED
  BY <1>6, <1>7, <1>8 DEF V, n

\* RowFromEnd is RowAbove, row by row.
LEMMA RowFromEndLoop ==
    ASSUME Modulus, Size, NEW X \in Systems, NEW amm \in Field, NEW n \in Nat
    PROVE  \E s \in [0..n -> SquareRow] :
               /\ s[0] = LastRow(X, amm)
               /\ \A k \in 1..n : s[k] = RowAbove(X, k - 1, s[k - 1])
               /\ RowFromEnd(X, amm, n) = s[n]
<1> DEFINE V == SquareRow
           a == LastRow(X, amm)
           step == [k \in 1..n |-> [v \in V |-> RowAbove(X, k - 1, v)]]
           E(g) == [k \in 0..n |-> IF k = 0 THEN a ELSE RowAbove(X, k - 1, g[k - 1])]
<1>0. \A k \in 1..n : k - 1 \in Nat
  OBVIOUS
<1>1. \A k \in 1..n, v \in V : RowAbove(X, k - 1, v) \in V
  BY <1>0, RowAboveType
<1>2. a \in V /\ step \in [1..n -> [V -> V]]
  <2>1. a \in V
    BY LastRowType
  <2> HIDE DEF V, a
  <2> QED
    BY <1>1, <2>1
<1>3. \A k \in 1..n, v \in V : step[k][v] = RowAbove(X, k - 1, v)
  OBVIOUS
<1>4. RowFromEnd(X, amm, n) = (CHOOSE g : g = E(g))[n]
  BY DEF RowFromEnd, Loop
<1> HIDE DEF V, a
<1>5. ASSUME NEW g, g = E(g)
      PROVE  LoopEq(g, V, a, n, step)
  <2>1. g = [k \in 0..n |-> g[k]] /\ g[0] = a
    BY <1>0, <1>5
  <2>2. \A k \in 1..n : g[k] = RowAbove(X, k - 1, g[k - 1])
    BY <1>0, <1>5
  <2> HIDE DEF step, E
  <2> QED
    BY <2>1, <2>2, <1>3 DEF LoopEq
<1>6. ASSUME NEW g \in [0..n -> V], Iterates(g, a, n, step)
      PROVE  g = E(g) /\ g[0] = a /\ \A k \in 1..n : g[k] = RowAbove(X, k - 1, g[k - 1])
  <2>1. \A k \in 1..n : g[k - 1] \in V
    BY <1>0
  <2>2. g[0] = a /\ \A k \in 1..n : g[k] = step[k][g[k - 1]]
    BY <1>6 DEF Iterates
  <2> HIDE DEF step
  <2>3. \A k \in 1..n : g[k] = RowAbove(X, k - 1, g[k - 1])
    BY <2>1, <2>2, <1>3
  <2> QED
    BY <1>0, <2>2, <2>3
<1> HIDE DEF step, E
<1>7. PICK s \in [0..n -> V] : Iterates(s, a, n, step) /\ \A g : LoopEq(g, V, a, n, step) => g = s
  BY <1>0, <1>2, LoopValues
<1>8. RowFromEnd(X, amm, n) = s[n]
  BY <1>4, <1>5, <1>6, <1>7
<1> QED
  BY <1>6, <1>7, <1>8 DEF V, a

\* Each row is made of the one below it.
LEMMA RowFromEndStep ==
    ASSUME Modulus, Size, NEW X \in Systems, NEW amm \in Field, NEW n \in Nat
    PROVE  /\ RowFromEnd(X, amm, 0) = LastRow(X, amm)
           /\ RowFromEnd(X, amm, n + 1) = RowAbove(X, n, RowFromEnd(X, amm, n))
<1>1. RowFromEnd(X, amm, 0) = LastRow(X, amm)
  <2>1. 0 \in Nat
    OBVIOUS
  <2>2. PICK s \in [0..0 -> SquareRow] : s[0] = LastRow(X, amm) /\ RowFromEnd(X, amm, 0) = s[0]
    BY <2>1, RowFromEndLoop
  <2> QED
    BY <2>2
<1>2. PICK s \in [0..n -> SquareRow] :
          /\ s[0] = LastRow(X, amm)
          /\ \A k \in 1..n : s[k] = RowAbove(X, k - 1, s[k - 1])
          /\ RowFromEnd(X, amm, n) = s[n]
  BY RowFromEndLoop
<1>3. PICK m \in Nat : m = n + 1
  OBVIOUS
<1>4. PICK t \in [0..m -> SquareRow] :
          /\ t[0] = LastRow(X, amm)
          /\ \A k \in 1..m : t[k] = RowAbove(X, k - 1, t[k - 1])
          /\ RowFromEnd(X, amm, m) = t[m]
  BY RowFromEndLoop
<1> DEFINE S == {k \in Nat : k <= n => s[k] = t[k]}
<1>5. 0 \in S
  BY <1>2, <1>4
<1>6. ASSUME NEW k \in S PROVE k + 1 \in S
  <2> SUFFICES ASSUME k + 1 <= n PROVE s[k + 1] = t[k + 1]
    OBVIOUS
  <2>1. k \in Nat /\ s[k] = t[k] /\ k + 1 \in 1..n /\ k + 1 \in 1..m /\ (k + 1) - 1 = k
    BY <1>3
  <2> QED
    BY <1>2, <1>4, <2>1
<1> HIDE DEF S
<1>7. S = Nat
  <2>1. S \subseteq Nat
    BY DEF S
  <2> QED
    BY <1>5, <1>6, <2>1, Induction
<1>8. s[n] = t[n]
  BY <1>7 DEF S
<1>9. m \in 1..m /\ m - 1 = n
  BY <1>3
<1> QED
  BY <1>1, <1>2, <1>3, <1>4, <1>8, <1>9

-----------------------------------------------------------------------------
\* The elimination of the last row, seen through a row at right angles to the
\* rows above it, whose last entry is zero.

\* A step of EliminateLast changes the last row only, and clears its entry r.
LEMMA LastStepIs ==
    ASSUME Modulus, Size, NEW X \in Systems, Systematic(X, MEDS_n - 1), NEW r \in Idx(MEDS_n - 1)
    PROVE  /\ LastStep(X, r) \in Systems
           /\ \A q \in Idx(MEDS_n - 1) : LastStep(X, r)[q] = X[q]
           /\ LastStep(X, r)[MEDS_n - 1][r] = 0
           /\ \A c \in Idx(MEDS_n - 1) : c # r => LastStep(X, r)[MEDS_n - 1][c] = X[MEDS_n - 1][c]
           /\ \A e \in Vec(Idx(Wide)) : e[2 * MEDS_n + 1] = 0 /\ Pair(Wide, X[r], e) = 0 =>
                  Pair(Wide, LastStep(X, r)[MEDS_n - 1], e) = Pair(Wide, X[MEDS_n - 1], e)
<1> DEFINE l == MEDS_n - 1
           K == l..(2 * MEDS_n)
           f == X[l][r]
<1>1. /\ MEDS_n \in Nat \ {0} /\ Wide \in Nat /\ l \in Idx(MEDS_n) /\ r \in Idx(MEDS_n) /\ r \in Idx(Wide)
      /\ \A q \in Idx(l) : q # l
      /\ \A c \in Idx(Wide) : c \in Idx(l) \/ c \in K \/ c = 2 * MEDS_n + 1
      /\ \A c \in Idx(l) : c \notin K /\ c \in Idx(Wide)
      /\ 2 * MEDS_n + 1 \notin K
  BY WideIs DEF Size, Idx, Wide
<1>2. /\ X \in Matrices(MEDS_n, Wide) /\ f \in Int /\ DOMAIN X = Idx(MEDS_n)
      /\ X[l] \in Vec(Idx(Wide)) /\ X[r] \in Vec(Idx(Wide)) /\ f \in Field
      /\ \A c \in Idx(Wide) : X[l][c] \in Field /\ X[r][c] \in Field
  BY <1>1, MatrixIs, FieldInt DEF Systems
<1>3. LastStep(X, r) \in Systems
  BY LastStepType
<1>4. LastStep(X, r) = [X EXCEPT ![l] = [Minus(X, l, f, r, K) EXCEPT ![r] = 0]]
  BY DEF LastStep
<1>5. \A c \in Idx(l) : X[r][c] = IF r = c THEN 1 ELSE 0
  BY DEF Systematic
<1> HIDE DEF K, f, l
<1>6. PICK w \in Vec(Idx(Wide)) : /\ w = Minus(X, l, f, r, K)
                                  /\ \A c \in Idx(Wide) : w[c] =
                                         IF c \in K THEN X[l][c] ++ (((-f) % MEDS_p) ** X[r][c]) ELSE X[l][c]
  BY <1>1, <1>2, MinusType
<1>7. PICK y \in Vec(Idx(Wide)) : y = [w EXCEPT ![r] = 0]
  <2>1. [w EXCEPT ![r] = 0] \in Vec(Idx(Wide))
    BY FieldInt DEF Vec
  <2> QED
    BY <2>1
<1>8. y[r] = 0 /\ \A c \in Idx(Wide) : c # r => y[c] = w[c]
  BY <1>1, <1>7 DEF Vec
<1>9. LastStep(X, r)[l] = y /\ \A q \in Idx(l) : LastStep(X, r)[q] = X[q]
  <2>1. \A q \in Idx(l) : q \in Idx(MEDS_n)
    BY <1>1 DEF Idx, l
  <2> QED
    BY <1>1, <1>2, <1>4, <1>6, <1>7
<1>10. \A c \in Idx(l) : c # r => y[c] = X[l][c]
  BY <1>1, <1>6, <1>8
<1>11. ASSUME NEW e \in Vec(Idx(Wide)), e[2 * MEDS_n + 1] = 0, Pair(Wide, X[r], e) = 0
       PROVE  Pair(Wide, y, e) = Pair(Wide, X[l], e)
  <2>1. Neg(f) \in Field /\ f ++ Neg(f) = 0 /\ Neg(f) = (-f) % MEDS_p
    BY <1>2, NegIs DEF Neg
  <2>0. PICK N \in {Wide}, a \in Vec(Idx(Wide)), b \in Vec(Idx(Wide)), g \in Field :
                 N = Wide /\ a = X[l] /\ b = X[r] /\ g = Neg(f)
    BY <1>1, <1>2, <2>1
  <2>b. PICK u \in Vec(Idx(N)) :
               /\ \A c \in Idx(N) : u[c] = a[c] ++ (g ** b[c])
               /\ \A h \in Vec(Idx(N)) : Pair(N, u, h) = Pair(N, a, h) ++ (g ** Pair(N, b, h))
    <3>1. N \in Nat /\ a \in Vec(Idx(N)) /\ b \in Vec(Idx(N))
      BY <1>1, <2>0
    <3>2. Plus(a, g, b) \in Vec(Idx(N)) /\ \A c \in Idx(N) : Plus(a, g, b)[c] = a[c] ++ (g ** b[c])
      BY <3>1, PlusType
    <3>3. \A h \in Vec(Idx(N)) : Pair(N, Plus(a, g, b), h) = Pair(N, a, h) ++ (g ** Pair(N, b, h))
      BY <3>1, PairPlus
    <3> QED
      BY <3>2, <3>3
  <2>2. /\ u \in Vec(Idx(Wide))
        /\ \A c \in Idx(Wide) : u[c] = X[l][c] ++ (Neg(f) ** X[r][c])
        /\ \A h \in Vec(Idx(Wide)) : Pair(Wide, u, h) = Pair(Wide, X[l], h) ++ (Neg(f) ** Pair(Wide, X[r], h))
    BY <2>0, <2>b
  <2>3. ASSUME NEW c \in Idx(Wide) PROVE e[c] = 0 \/ y[c] = u[c]
    <3>1. CASE c = r
      <4>1. c \in Idx(l) /\ X[r][c] = 1 /\ X[l][c] = f
        BY <1>5, <3>1 DEF l, f
      <4>2. u[c] = f ++ Neg(f)
        BY <2>1, <2>2, <4>1, Units
      <4> QED
        BY <1>8, <2>1, <3>1, <4>2
    <3>2. CASE c # r /\ c \in Idx(l)
      <4>1. X[r][c] = 0
        BY <1>5, <3>2
      <4>2. u[c] = X[l][c] ++ (Neg(f) ** 0)
        BY <2>2, <4>1
      <4>3. u[c] = X[l][c]
        BY <1>2, <2>1, <4>2, Units
      <4> QED
        BY <1>10, <3>2, <4>3
    <3>3. CASE c # r /\ c \in K
      BY <1>6, <1>8, <2>1, <2>2, <3>3
    <3>4. CASE c = 2 * MEDS_n + 1
      BY <1>11, <3>4
    <3> QED
      BY <1>1, <3>1, <3>2, <3>3, <3>4 DEF K, l
  <2>4. Pair(Wide, y, e) = Pair(Wide, u, e)
    BY <1>1, <2>3, PairAgree
  <2>5. Pair(Wide, u, e) = Pair(Wide, X[l], e) ++ (Neg(f) ** 0)
    BY <1>11, <2>2
  <2>6. Pair(Wide, X[l], e) \in Field
    BY <1>1, <1>2, PairType
  <2> QED
    BY <2>1, <2>4, <2>5, <2>6, Units
<1> QED
  BY <1>3, <1>8, <1>9, <1>10, <1>11 DEF l

\* EliminateLast clears the last row up to its pivot.  What that row pairs to is
\* kept for every row that the rows above pair to zero with.
LEMMA EliminateLastIs ==
    ASSUME Modulus, Size, NEW X \in Systems, Systematic(X, MEDS_n - 1)
    PROVE  /\ EliminateLast(X) \in Systems
           /\ \A q \in Idx(MEDS_n - 1) : EliminateLast(X)[q] = X[q]
           /\ \A c \in Idx(MEDS_n - 1) : EliminateLast(X)[MEDS_n - 1][c] = 0
           /\ \A e \in Vec(Idx(Wide)) :
                  e[2 * MEDS_n + 1] = 0 /\ (\A r \in Idx(MEDS_n - 1) : Pair(Wide, X[r], e) = 0) =>
                      Pair(Wide, EliminateLast(X)[MEDS_n - 1], e) = Pair(Wide, X[MEDS_n - 1], e)
<1> DEFINE l == MEDS_n - 1
<1>0. l \in Nat /\ \A k \in Nat : k + 1 <= l => k \in 0..l /\ k + 1 \in 1..l /\ k \in Idx(l) /\ (k + 1) - 1 = k
  BY DEF Size, Idx
<1>1. PICK s \in [0..l -> Systems] :
          /\ s[0] = X
          /\ \A k \in 1..l : s[k] = LastStep(s[k - 1], k - 1)
          /\ EliminateLast(X) = s[l]
  BY EliminateLastLoop
<1> DEFINE Right0(Y, k) ==
               /\ \A q \in Idx(l) : Y[q] = X[q]
               /\ \A c \in Idx(k) : Y[l][c] = 0
               /\ \A e \in Vec(Idx(Wide)) :
                      e[2 * MEDS_n + 1] = 0 /\ (\A r \in Idx(l) : Pair(Wide, X[r], e) = 0) =>
                          Pair(Wide, Y[l], e) = Pair(Wide, X[l], e)
           S == {k \in Nat : k <= l => Right0(s[k], k)}
<1>2. 0 \in S
  <2>1. Idx(0) = {}
    BY DEF Idx
  <2> QED
    BY <1>1, <2>1
<1>3. ASSUME NEW k \in S PROVE k + 1 \in S
  <2> SUFFICES ASSUME k + 1 <= l PROVE Right0(s[k + 1], k + 1)
    OBVIOUS
  <2>1. k \in Nat /\ k \in 0..l /\ k + 1 \in 1..l /\ k \in Idx(l) /\ (k + 1) - 1 = k /\ Right0(s[k], k)
    BY <1>0
  <2>2. PICK Y \in Systems : Y = s[k]
    BY <2>1
  <2>3. s[k + 1] = LastStep(Y, k)
    BY <1>1, <2>1, <2>2
  <2>4. Systematic(Y, l)
    BY <2>1, <2>2 DEF Systematic
  <2>5. PICK Z \in Systems :
           /\ Z = LastStep(Y, k)
           /\ \A q \in Idx(l) : Z[q] = Y[q]
           /\ Z[l][k] = 0
           /\ \A c \in Idx(l) : c # k => Z[l][c] = Y[l][c]
           /\ \A e \in Vec(Idx(Wide)) : e[2 * MEDS_n + 1] = 0 /\ Pair(Wide, Y[k], e) = 0 =>
                  Pair(Wide, Z[l], e) = Pair(Wide, Y[l], e)
    BY <2>1, <2>4, LastStepIs
  <2>6. \A c \in Idx(k + 1) : c = k \/ (c \in Idx(k) /\ c \in Idx(l) /\ c # k)
    BY <1>0, <2>1 DEF Idx
  <2>7. \A c \in Idx(k + 1) : Z[l][c] = 0
    BY <2>1, <2>2, <2>5, <2>6
  <2>8. ASSUME NEW e \in Vec(Idx(Wide)), e[2 * MEDS_n + 1] = 0, \A r \in Idx(l) : Pair(Wide, X[r], e) = 0
        PROVE  Pair(Wide, Z[l], e) = Pair(Wide, X[l], e)
    BY <2>1, <2>2, <2>5, <2>8
  <2> HIDE DEF l
  <2> QED
    BY <2>1, <2>2, <2>3, <2>5, <2>7, <2>8
<1> HIDE DEF S
<1>4. S = Nat
  <2>1. S \subseteq Nat
    BY DEF S
  <2> QED
    BY <1>2, <1>3, <2>1, Induction
<1>5. Right0(s[l], l) /\ s[l] \in Systems
  BY <1>0, <1>4 DEF S
<1> QED
  BY <1>1, <1>5

\* NormalizeLast makes the pivot 1 and keeps what the last row pairs to zero with.
LEMMA NormalizeLastIs ==
    ASSUME Modulus, IsField(MEDS_p), Size, NEW X \in Systems, X[MEDS_n - 1][MEDS_n - 1] # 0,
           \A c \in Idx(MEDS_n - 1) : X[MEDS_n - 1][c] = 0
    PROVE  /\ NormalizeLast(X) \in Systems
           /\ \A q \in Idx(MEDS_n - 1) : NormalizeLast(X)[q] = X[q]
           /\ \A c \in Idx(MEDS_n - 1) : NormalizeLast(X)[MEDS_n - 1][c] = 0
           /\ NormalizeLast(X)[MEDS_n - 1][MEDS_n - 1] = 1
           /\ \A e \in Vec(Idx(Wide)) : e[2 * MEDS_n + 1] = 0 =>
                  (Pair(Wide, NormalizeLast(X)[MEDS_n - 1], e) = 0 <=> Pair(Wide, X[MEDS_n - 1], e) = 0)
<1> DEFINE l == MEDS_n - 1
           K == MEDS_n..(2 * MEDS_n)
           d == 2 * MEDS_n + 1
           inv == GF_inv(X[l][l])
<1>1. /\ MEDS_n \in Nat \ {0} /\ Wide \in Nat /\ l \in Idx(MEDS_n) /\ l \in Idx(Wide) /\ d \in Idx(Wide)
      /\ X \in Matrices(MEDS_n, Wide)
      /\ \A q \in Idx(l) : q # l /\ q \in Idx(MEDS_n)
      /\ \A c \in Idx(Wide) : c \in Idx(l) \/ c \in K \/ c = d \/ c = l
      /\ \A c \in Idx(l) : c \notin K /\ c \in Idx(Wide) /\ c # d /\ c # l
      /\ d \notin K /\ d # l /\ l \notin K
  BY WideIs DEF Size, Idx, Wide, Systems
<1>2. X[l] \in Vec(Idx(Wide)) /\ X[l][l] \in Field /\ X[l][l] # 0 /\ \A c \in Idx(Wide) : X[l][c] \in Field
  BY <1>1, MatrixIs
<1>3. inv \in Field /\ X[l][l] ** inv = 1 /\ inv ** X[l][l] = 1
  <2> HIDE DEF l
  <2> QED
    BY <1>2, InverseIs
<1>4. NormalizeLast(X) \in Systems
  BY NormalizeLastType
<1>5. \A c \in Idx(l) : X[l][c] = 0
  OBVIOUS
<1>6. NormalizeLast(X) = [Normalize(X, l, K) EXCEPT ![l][l] = 1, ![l][d] = 0]
  BY DEF NormalizeLast
<1> HIDE DEF l, K, d, inv
<1>7. PICK Y \in Matrices(MEDS_n, Wide) :
          /\ Y = Normalize(X, l, K)
          /\ \A q \in Idx(MEDS_n) \ {l} : Y[q] = X[q]
          /\ \A c \in Idx(Wide) : Y[l][c] = IF c \in K THEN X[l][c] ** inv ELSE X[l][c]
  BY <1>1, <1>2, NormalizeType DEF inv
<1>8. PICK Z \in Matrices(MEDS_n, Wide) : Z = NormalizeLast(X) /\ Z = [Y EXCEPT ![l][l] = 1, ![l][d] = 0]
  BY <1>4, <1>6, <1>7 DEF Systems
<1>9. /\ \A q \in Idx(l) : Z[q] = X[q]
      /\ Z[l][l] = 1 /\ Z[l][d] = 0
      /\ \A c \in Idx(Wide) : c # l /\ c # d => Z[l][c] = Y[l][c]
  BY <1>1, <1>7, <1>8 DEF Matrices, Mat, Vec
<1>10. ASSUME NEW e \in Vec(Idx(Wide)), e[d] = 0
       PROVE  Pair(Wide, Z[l], e) = 0 <=> Pair(Wide, X[l], e) = 0
  <2>0. Z[l] \in Vec(Idx(Wide)) /\ Pair(Wide, X[l], e) \in Field /\ 0 \in Field
    BY <1>1, <1>2, MatrixIs, PairType, FieldInt
  <2>1. Null(Wide) \in Vec(Idx(Wide)) /\ \A c \in Idx(Wide) : Null(Wide)[c] = 0
    BY FieldInt DEF Null, Vec
  <2>a. PICK N \in {Wide}, a \in Vec(Idx(Wide)), b \in Vec(Idx(Wide)), g \in Field :
                 N = Wide /\ a = Null(Wide) /\ b = X[l] /\ g = inv
    BY <1>1, <1>2, <1>3, <2>1
  <2>b. PICK u \in Vec(Idx(N)) :
               /\ \A c \in Idx(N) : u[c] = a[c] ++ (g ** b[c])
               /\ \A h \in Vec(Idx(N)) : Pair(N, u, h) = Pair(N, a, h) ++ (g ** Pair(N, b, h))
    <3>1. N \in Nat /\ a \in Vec(Idx(N)) /\ b \in Vec(Idx(N))
      BY <1>1, <2>a
    <3>2. Plus(a, g, b) \in Vec(Idx(N)) /\ \A c \in Idx(N) : Plus(a, g, b)[c] = a[c] ++ (g ** b[c])
      BY <3>1, PlusType
    <3>3. \A h \in Vec(Idx(N)) : Pair(N, Plus(a, g, b), h) = Pair(N, a, h) ++ (g ** Pair(N, b, h))
      BY <3>1, PairPlus
    <3> QED
      BY <3>2, <3>3
  <2>2. /\ u \in Vec(Idx(Wide))
        /\ \A c \in Idx(Wide) : u[c] = 0 ++ (inv ** X[l][c])
        /\ \A h \in Vec(Idx(Wide)) : Pair(Wide, u, h) = Pair(Wide, Null(Wide), h) ++ (inv ** Pair(Wide, X[l], h))
    BY <2>1, <2>a, <2>b
  <2>3. \A c \in Idx(Wide) : u[c] = inv ** X[l][c] /\ u[c] = X[l][c] ** inv
    BY <1>2, <1>3, <2>2, Units, Comm
  <2>4. \A c \in Idx(Wide) : e[c] = 0 \/ Z[l][c] = u[c]
    <3> TAKE c \in Idx(Wide)
    <3>1. CASE c = l
      BY <1>3, <1>9, <2>3, <3>1
    <3>2. CASE c = d
      BY <1>10, <3>2
    <3>3. CASE c \in Idx(l)
      <4>1. u[c] = 0 /\ Y[l][c] = X[l][c]
        BY <1>1, <1>3, <1>5, <1>7, <2>3, <3>3, Units
      <4> QED
        BY <1>1, <1>5, <1>9, <3>3, <4>1
    <3>4. CASE c \in K
      BY <1>1, <1>7, <1>9, <2>3, <3>4
    <3> QED
      BY <1>1, <3>1, <3>2, <3>3, <3>4
  <2>5. Pair(Wide, Z[l], e) = Pair(Wide, u, e)
    BY <1>1, <2>0, <2>4, PairAgree
  <2>6. Pair(Wide, u, e) = Pair(Wide, Null(Wide), e) ++ (inv ** Pair(Wide, X[l], e))
    BY <2>2
  <2>7. Pair(Wide, Null(Wide), e) = 0
    <3> DEFINE t == [c \in Idx(Wide) |-> Null(Wide)[c] ** e[c]]
    <3>1. \A c \in Idx(Wide) : t[c] = 0
      <4> TAKE c \in Idx(Wide)
      <4>1. e[c] \in Field
        BY DEF Vec
      <4> QED
        BY <2>1, <4>1, Units
    <3> HIDE DEF t
    <3>2. FieldSum(Wide, t) = 0
      BY <1>1, <3>1, SumOfZeros
    <3> QED
      BY <3>2 DEF t, Pair
  <2>8. PICK m \in Field : m = Pair(Wide, X[l], e)
    BY <2>0
  <2>9. Pair(Wide, Z[l], e) = inv ** m
    BY <1>3, <2>5, <2>6, <2>7, <2>8, Units, Comm
  <2>10. inv ** m = 0 => m = 0
    <3>1. (X[l][l] ** inv) ** m = X[l][l] ** (inv ** m)
      BY <1>2, <1>3, Assoc
    <3> QED
      BY <1>2, <1>3, <3>1, Units
  <2>11. m = 0 => inv ** m = 0
    BY <1>3, Units
  <2> QED
    BY <2>8, <2>9, <2>10, <2>11
<1>11. \A c \in Idx(l) : Z[l][c] = 0
  BY <1>1, <1>5, <1>7, <1>9
<1> QED
  BY <1>4, <1>8, <1>9, <1>10, <1>11 DEF l, d

\* SubstituteLast clears the column of the pivot, and keeps that for all rows.
LEMMA SubstituteLastIs ==
    ASSUME Modulus, Size, NEW X \in Systems, Systematic(X, MEDS_n - 1),
           X[MEDS_n - 1][MEDS_n - 1] = 1, \A c \in Idx(MEDS_n - 1) : X[MEDS_n - 1][c] = 0
    PROVE  /\ SubstituteLast(X) \in Systems
           /\ Systematic(SubstituteLast(X), MEDS_n)
           /\ \A r \in Idx(MEDS_n - 1) : SubstituteLast(X)[r][2 * MEDS_n + 1] = X[r][2 * MEDS_n + 1]
           /\ \A e \in Vec(Idx(Wide)) : e[2 * MEDS_n + 1] = 0 =>
                  ((\A r \in Idx(MEDS_n) : Pair(Wide, SubstituteLast(X)[r], e) = 0)
                       <=> (\A r \in Idx(MEDS_n) : Pair(Wide, X[r], e) = 0))
<1> DEFINE l == MEDS_n - 1
           K == MEDS_n..(2 * MEDS_n)
           d == 2 * MEDS_n + 1
           m == [r \in Idx(MEDS_n) |->
                    IF r < l THEN [Minus(X, r, X[r][l], l, K) EXCEPT ![l] = 0] ELSE X[r]]
<1>1. /\ MEDS_n \in Nat \ {0} /\ Wide \in Nat /\ l \in Idx(MEDS_n) /\ l \in Idx(Wide) /\ d \in Idx(Wide)
      /\ X \in Matrices(MEDS_n, Wide) /\ l \in Nat
      /\ \A q \in Idx(l) : q # l /\ q \in Idx(MEDS_n) /\ q < l
      /\ \A q \in Idx(MEDS_n) : q = l \/ q \in Idx(l)
      /\ \A c \in Idx(Wide) : c \in Idx(l) \/ c \in K \/ c = d \/ c = l
      /\ \A c \in Idx(l) : c \notin K /\ c \in Idx(Wide) /\ c # d /\ c # l
      /\ d \notin K /\ d # l /\ l \notin K
  BY WideIs DEF Size, Idx, Wide, Systems
<1>2. /\ DOMAIN X = Idx(MEDS_n)
      /\ \A r \in Idx(MEDS_n) : X[r] \in Vec(Idx(Wide)) /\ \A c \in Idx(Wide) : X[r][c] \in Field /\ X[r][c] \in Int
  BY <1>1, MatrixIs, FieldInt
<1>3. SubstituteLast(X) = m
  BY <1>2, RowIs DEF SubstituteLast
<1>4. SubstituteLast(X) \in Systems
  BY SubstituteLastType
<1>5. X[l][l] = 1 /\ \A c \in Idx(l) : X[l][c] = 0
  OBVIOUS
<1>6. \A r, c \in Idx(l) : X[r][c] = IF r = c THEN 1 ELSE 0
  BY DEF Systematic
<1> HIDE DEF l, K, d
<1>7. PICK Z \in Matrices(MEDS_n, Wide) : Z = m
  BY <1>3, <1>4 DEF Systems
<1>8. Z[l] = X[l]
  BY <1>1, <1>7
<1> HIDE DEF m
<1>9. ASSUME NEW r \in Idx(l)
      PROVE  /\ Z[r] \in Vec(Idx(Wide))
             /\ Z[r][l] = 0 /\ Z[r][d] = X[r][d] /\ \A c \in Idx(l) : Z[r][c] = X[r][c]
             /\ \A e \in Vec(Idx(Wide)) : e[d] = 0 =>
                    \E g \in Field : Pair(Wide, Z[r], e) = Pair(Wide, X[r], e) ++ (g ** Pair(Wide, X[l], e))
  <2>1. PICK f \in Field : f = X[r][l]
    BY <1>1, <1>2
  <2>2. f \in Int /\ Neg(f) \in Field /\ f ++ Neg(f) = 0 /\ Neg(f) = (-f) % MEDS_p
    BY <2>1, FieldInt, NegIs DEF Neg
  <2>3. PICK w \in Vec(Idx(Wide)) : /\ w = Minus(X, r, f, l, K)
                                    /\ \A c \in Idx(Wide) : w[c] =
                                           IF c \in K THEN X[r][c] ++ (Neg(f) ** X[l][c]) ELSE X[r][c]
    BY <1>1, <2>2, MinusType
  <2>4. Z[r] = [w EXCEPT ![l] = 0]
    BY <1>1, <1>7, <2>1, <2>3 DEF m
  <2>5. Z[r] \in Vec(Idx(Wide))
    BY <1>1, MatrixIs
  <2>6. Z[r][l] = 0 /\ \A c \in Idx(Wide) : c # l => Z[r][c] = w[c]
    BY <1>1, <2>4 DEF Vec
  <2>7. Z[r][d] = X[r][d] /\ \A c \in Idx(l) : Z[r][c] = X[r][c]
    BY <1>1, <2>3, <2>6
  <2>8. ASSUME NEW e \in Vec(Idx(Wide)), e[d] = 0
        PROVE  Pair(Wide, Z[r], e) = Pair(Wide, X[r], e) ++ (Neg(f) ** Pair(Wide, X[l], e))
    <3>0. /\ X[r] \in Vec(Idx(Wide)) /\ X[l] \in Vec(Idx(Wide))
          /\ \A c \in Idx(Wide) : X[r][c] \in Field /\ X[l][c] \in Field
      BY <1>1, <1>2
    <3>a. PICK N \in {Wide}, a \in Vec(Idx(Wide)), b \in Vec(Idx(Wide)), g \in Field :
                   N = Wide /\ a = X[r] /\ b = X[l] /\ g = Neg(f)
      BY <1>1, <2>2, <3>0
    <3>b. PICK u \in Vec(Idx(N)) :
                 /\ \A c \in Idx(N) : u[c] = a[c] ++ (g ** b[c])
                 /\ \A h \in Vec(Idx(N)) : Pair(N, u, h) = Pair(N, a, h) ++ (g ** Pair(N, b, h))
      <4>1. N \in Nat /\ a \in Vec(Idx(N)) /\ b \in Vec(Idx(N))
        BY <1>1, <3>a
      <4>2. Plus(a, g, b) \in Vec(Idx(N)) /\ \A c \in Idx(N) : Plus(a, g, b)[c] = a[c] ++ (g ** b[c])
        BY <4>1, PlusType
      <4>3. \A h \in Vec(Idx(N)) : Pair(N, Plus(a, g, b), h) = Pair(N, a, h) ++ (g ** Pair(N, b, h))
        BY <4>1, PairPlus
      <4> QED
        BY <4>2, <4>3
    <3>1. /\ u \in Vec(Idx(Wide))
          /\ \A c \in Idx(Wide) : u[c] = X[r][c] ++ (Neg(f) ** X[l][c])
          /\ \A h \in Vec(Idx(Wide)) : Pair(Wide, u, h) = Pair(Wide, X[r], h) ++ (Neg(f) ** Pair(Wide, X[l], h))
      BY <3>a, <3>b
    <3>2. ASSUME NEW c \in Idx(Wide) PROVE e[c] = 0 \/ Z[r][c] = u[c]
      <4>1. CASE c = l
        <5>1. u[c] = f ++ (Neg(f) ** 1)
          BY <1>1, <1>5, <2>1, <3>1, <4>1
        <5>2. u[c] = f ++ Neg(f)
          BY <2>1, <2>2, <5>1, Units
        <5> QED
          BY <2>2, <2>6, <4>1, <5>2
      <4>2. CASE c = d
        BY <2>8, <4>2
      <4>3. CASE c \in Idx(l)
        <5>1. u[c] = X[r][c] /\ X[r][c] \in Field
          <6>1. u[c] = X[r][c] ++ (Neg(f) ** 0) /\ X[r][c] \in Field
            BY <1>1, <1>5, <3>0, <3>1, <4>3
          <6> QED
            BY <2>2, <6>1, Units
        <5> QED
          BY <2>7, <4>3, <5>1
      <4>4. CASE c \in K
        BY <1>1, <2>3, <2>6, <3>1, <4>4
      <4> QED
        BY <1>1, <4>1, <4>2, <4>3, <4>4
    <3>3. Pair(Wide, Z[r], e) = Pair(Wide, u, e)
      BY <1>1, <2>5, <3>1, <3>2, PairAgree
    <3>4. Pair(Wide, u, e) = Pair(Wide, X[r], e) ++ (Neg(f) ** Pair(Wide, X[l], e))
      BY <3>1
    <3> QED
      BY <3>3, <3>4
  <2> QED
    BY <2>2, <2>5, <2>6, <2>7, <2>8
<1>10. Systematic(Z, MEDS_n)
  <2> SUFFICES ASSUME NEW r \in Idx(MEDS_n), NEW c \in Idx(MEDS_n) PROVE Z[r][c] = IF r = c THEN 1 ELSE 0
    BY DEF Systematic
  <2>1. (r = l \/ r \in Idx(l)) /\ (c = l \/ c \in Idx(l))
    BY <1>1
  <2> QED
    BY <1>1, <1>5, <1>6, <1>8, <1>9, <2>1
<1>11. ASSUME NEW e \in Vec(Idx(Wide)), e[d] = 0
       PROVE  (\A r \in Idx(MEDS_n) : Pair(Wide, Z[r], e) = 0) <=> (\A r \in Idx(MEDS_n) : Pair(Wide, X[r], e) = 0)
  <2>1. \A r \in Idx(MEDS_n) : Pair(Wide, X[r], e) \in Field
    BY <1>1, <1>2, PairType
  <2>2. ASSUME Pair(Wide, X[l], e) = 0, NEW r \in Idx(l) PROVE Pair(Wide, Z[r], e) = Pair(Wide, X[r], e)
    <3>1. PICK g \in Field : Pair(Wide, Z[r], e) = Pair(Wide, X[r], e) ++ (g ** 0)
      BY <1>9, <1>11, <2>2
    <3> QED
      BY <1>1, <2>1, <3>1, Units
  <2> QED
    BY <1>1, <1>8, <2>2
<1> QED
  BY <1>3, <1>4, <1>7, <1>9, <1>10, <1>11 DEF l, d

-----------------------------------------------------------------------------
\* A row to pair those of the system with: x0 for the blocks of P1, y for those
\* of P0, s and t for the last two columns.
Four(x0, y, s, t) ==
    [c \in Idx(Wide) |-> IF c < MEDS_n THEN x0[c] ELSE IF c < 2 * MEDS_n THEN y[c - MEDS_n]
                         ELSE IF c = 2 * MEDS_n THEN s ELSE t]

\* What a row has in the two blocks.
Lo(w) == [c \in Idx(MEDS_n) |-> w[c]]
Hi(w) == [c \in Idx(MEDS_n) |-> w[MEDS_n + c]]

\* Four is a row of the width of the system.
LEMMA FourIs ==
    ASSUME Modulus, Size, NEW x0 \in SquareRow, NEW y \in SquareRow, NEW s \in Field, NEW t \in Field
    PROVE  /\ Four(x0, y, s, t) \in Vec(Idx(Wide))
           /\ \A c \in Idx(MEDS_n) : Four(x0, y, s, t)[c] = x0[c] /\ Four(x0, y, s, t)[MEDS_n + c] = y[c]
           /\ Four(x0, y, s, t)[2 * MEDS_n] = s /\ Four(x0, y, s, t)[2 * MEDS_n + 1] = t
<1>1. /\ MEDS_n \in Nat /\ 2 * MEDS_n \in Idx(Wide) /\ 2 * MEDS_n + 1 \in Idx(Wide)
      /\ \A c \in Idx(Wide) : c < MEDS_n => c \in Idx(MEDS_n)
      /\ \A c \in Idx(Wide) : ~(c < MEDS_n) /\ c < 2 * MEDS_n => c - MEDS_n \in Idx(MEDS_n)
      /\ \A c \in Idx(MEDS_n) : /\ c \in Idx(Wide) /\ c < MEDS_n
                                /\ MEDS_n + c \in Idx(Wide) /\ ~(MEDS_n + c < MEDS_n)
                                /\ MEDS_n + c < 2 * MEDS_n /\ (MEDS_n + c) - MEDS_n = c
      /\ ~(2 * MEDS_n < MEDS_n) /\ ~(2 * MEDS_n < 2 * MEDS_n)
      /\ ~(2 * MEDS_n + 1 < MEDS_n) /\ ~(2 * MEDS_n + 1 < 2 * MEDS_n) /\ 2 * MEDS_n + 1 # 2 * MEDS_n
  BY DEF Size, Wide, Idx
<1>2. \A c \in Idx(MEDS_n) : x0[c] \in Field /\ y[c] \in Field
  BY DEF SquareRow, Vec
<1>3. \A c \in Idx(Wide) : (IF c < MEDS_n THEN x0[c] ELSE IF c < 2 * MEDS_n THEN y[c - MEDS_n]
                            ELSE IF c = 2 * MEDS_n THEN s ELSE t) \in Field
  BY <1>1, <1>2
<1>4. Four(x0, y, s, t) \in Vec(Idx(Wide))
  BY <1>3 DEF Four, Vec
<1> QED
  BY <1>1, <1>4 DEF Four

\* The two blocks of a row, and its last two entries.
LEMMA HalvesAre ==
    ASSUME Size, NEW w \in Vec(Idx(Wide))
    PROVE  /\ Lo(w) \in SquareRow /\ Hi(w) \in SquareRow
           /\ w[2 * MEDS_n] \in Field /\ w[2 * MEDS_n + 1] \in Field
           /\ \A c \in Idx(MEDS_n) : Lo(w)[c] = w[c] /\ Hi(w)[c] = w[MEDS_n + c]
<1>1. \A c \in Idx(MEDS_n) : c \in Idx(Wide) /\ MEDS_n + c \in Idx(Wide)
  BY WideIs
<1> QED
  BY <1>1, WideIs DEF Lo, Hi, SquareRow, Vec

\* A pairing with Four, block by block.
LEMMA PairFour ==
    ASSUME Modulus, Size, NEW w \in Vec(Idx(Wide)), NEW x0 \in SquareRow, NEW y \in SquareRow,
           NEW s \in Field, NEW t \in Field
    PROVE  Pair(Wide, w, Four(x0, y, s, t)) =
               ((Pair(MEDS_n, Lo(w), x0) ++ Pair(MEDS_n, Hi(w), y)) ++ (w[2 * MEDS_n] ** s))
                   ++ (w[2 * MEDS_n + 1] ** t)
<1> DEFINE n == MEDS_n
           m == 2 * MEDS_n
           f == [c \in Idx(Wide) |-> w[c] ** Four(x0, y, s, t)[c]]
           lo == [c \in Idx(n) |-> Lo(w)[c] ** x0[c]]
           hi == [c \in Idx(n) |-> Hi(w)[c] ** y[c]]
<1>1. /\ n \in Nat /\ m \in Nat /\ m + 1 \in Nat /\ n + n = m /\ (m + 1) + 1 = Wide
      /\ m \in Idx(Wide) /\ m + 1 \in Idx(Wide)
      /\ \A c \in Idx(n) : c \in Idx(Wide) /\ n + c \in Idx(Wide)
  BY DEF Size, Wide, Idx
<1>2. /\ Four(x0, y, s, t) \in Vec(Idx(Wide))
      /\ \A c \in Idx(n) : Four(x0, y, s, t)[c] = x0[c] /\ Four(x0, y, s, t)[n + c] = y[c]
      /\ Four(x0, y, s, t)[m] = s /\ Four(x0, y, s, t)[m + 1] = t
  BY FourIs
<1>3. Lo(w) \in Vec(Idx(n)) /\ Hi(w) \in Vec(Idx(n)) /\ x0 \in Vec(Idx(n)) /\ y \in Vec(Idx(n))
      /\ \A c \in Idx(n) : Lo(w)[c] = w[c] /\ Hi(w)[c] = w[n + c]
  BY HalvesAre DEF SquareRow
<1>4. Wide \in Nat /\ Terms(f, Wide)
  <2>1. Wide \in Nat
    BY WideIs
  <2> QED
    BY <1>2, <2>1, PairType
<1>5. Terms(lo, n) /\ Terms(hi, n)
  BY <1>1, <1>3, PairType
<1>6. f[m] = w[m] ** s /\ f[m + 1] = w[m + 1] ** t
  BY <1>1, <1>2
<1>7. \A c \in Idx(n) : f[c] = lo[c] /\ f[n + c] = hi[c]
  <2> TAKE c \in Idx(n)
  <2>1. f[c] = w[c] ** x0[c] /\ f[n + c] = w[n + c] ** y[c]
    BY <1>1, <1>2
  <2>2. lo[c] = w[c] ** x0[c] /\ hi[c] = w[n + c] ** y[c]
    BY <1>3
  <2> QED
    BY <2>1, <2>2
<1>8. Pair(Wide, w, Four(x0, y, s, t)) = FieldSum(Wide, f)
  BY DEF Pair
<1>9. Pair(n, Lo(w), x0) = FieldSum(n, lo) /\ Pair(n, Hi(w), y) = FieldSum(n, hi)
  BY DEF Pair
<1> HIDE DEF n, m, f, lo, hi
<1>10. FieldSum(Wide, f) = FieldSum(m + 1, f) ++ f[m + 1] /\ Terms(f, m + 1)
  BY <1>1, <1>4, SumStep
<1>11. FieldSum(m + 1, f) = FieldSum(m, f) ++ f[m] /\ Terms(f, m)
  BY <1>1, <1>10, SumStep
<1>12. FieldSum(m, f) = FieldSum(n, f) ++ FieldSum(n, hi)
  <2>1. Terms(f, n + n) /\ \A i \in Idx(n) : hi[i] = f[n + i]
    BY <1>1, <1>7, <1>11
  <2>2. FieldSum(n + n, f) = FieldSum(n, f) ++ FieldSum(n, hi)
    BY <1>1, <2>1, SumSplit
  <2> QED
    BY <1>1, <2>2
<1>13. FieldSum(n, f) = FieldSum(n, lo)
  BY <1>1, <1>5, <1>7, SumSame
<1> QED
  BY <1>6, <1>8, <1>9, <1>10, <1>11, <1>12, <1>13 DEF n, m

-----------------------------------------------------------------------------
\* What the rows of the system say.

\* Row j of the system.
LEMMA SystemRowIs ==
    ASSUME Modulus, Size, NEW P0 \in Squares, NEW P1 \in Squares, NEW a \in Field, NEW j \in Idx(MEDS_n)
    PROVE  LET w == SolveMatrix(P0, P1, a)[j]
           IN  /\ w \in Vec(Idx(Wide))
               /\ \A c \in Idx(MEDS_n) : Lo(w)[c] = Neg(P1[c][j]) /\ Hi(w)[c] = P0[c][j]
               /\ w[2 * MEDS_n] = P0[MEDS_n - 1][j] ** Neg(a)
               /\ w[2 * MEDS_n + 1] = P1[MEDS_n - 1][j] ** a
<1> DEFINE n == MEDS_n
           v(i, c) == IF c < n           THEN (MEDS_p - P1[c][i]) % MEDS_p
                      ELSE IF c < 2 * n  THEN P0[c - n][i]
                      ELSE IF c = 2 * n  THEN (P0[n - 1][i] * (MEDS_p - a)) % MEDS_p
                      ELSE                    (P1[n - 1][i] * a) % MEDS_p
           m == [i \in Idx(n) |-> [c \in Idx(2 * n + 2) |-> v(i, c)]]
           w == SolveMatrix(P0, P1, a)[j]
<1>1. /\ n \in Nat \ {0} /\ n - 1 \in Idx(n) /\ Wide = 2 * n + 2
      /\ 2 * n \in Idx(Wide) /\ 2 * n + 1 \in Idx(Wide)
      /\ \A c \in Idx(n) : c \in Idx(Wide) /\ c < n /\ n + c \in Idx(Wide) /\ ~(n + c < n)
                           /\ n + c < 2 * n /\ (n + c) - n = c
      /\ ~(2 * n < n) /\ ~(2 * n < 2 * n) /\ ~(2 * n + 1 < n) /\ ~(2 * n + 1 < 2 * n) /\ 2 * n + 1 # 2 * n
  BY DEF Size, Wide, Idx
<1>2. \A r, c \in Idx(n) : P0[r][c] \in Field /\ P1[r][c] \in Field
  BY <1>1, MatrixIs DEF Squares
<1>3. SolveMatrix(P0, P1, a) = Rows(m)
  BY DEF SolveMatrix
<1>4. SolveMatrix(P0, P1, a) \in Matrices(n, Wide)
  BY SolveMatrixType DEF Systems
<1>5. w \in Vec(Idx(Wide))
  BY <1>4 DEF Matrices, Mat
<1>6. m = [r \in DOMAIN m |-> m[r]]
  OBVIOUS
<1>7. \A c \in Idx(Wide) : w[c] = v(j, c)
  <2> HIDE DEF v
  <2>1. m[j] = [c \in Idx(2 * n + 2) |-> v(j, c)]
    OBVIOUS
  <2> HIDE DEF m
  <2>2. w = m[j]
    BY <1>3, <1>6, RowsIs
  <2> QED
    BY <1>1, <2>1, <2>2
<1>8. \A b \in Field : (MEDS_p - b) % MEDS_p = Neg(b) /\ Neg(b) \in Field /\ b \in Int /\ MEDS_p - b \in Int
  <2> TAKE b \in Field
  <2>1. b \in Int /\ -b \in Int /\ MEDS_p - b = (-b) + 1 * MEDS_p
    BY FieldInt DEF Modulus
  <2>2. ((-b) + 1 * MEDS_p) % MEDS_p = (-b) % MEDS_p
    BY <2>1, ModSame
  <2> QED
    BY <2>1, <2>2, NegIs DEF Neg, Modulus
<1>9. \A c \in Idx(n) : w[c] = Neg(P1[c][j]) /\ w[n + c] = P0[c][j]
  BY <1>1, <1>2, <1>7, <1>8
<1>10. w[2 * n] = P0[n - 1][j] ** Neg(a)
  <2>1. PICK b \in Field : b = P0[n - 1][j]
    BY <1>1, <1>2
  <2>2. PICK d \in Int : d = MEDS_p - a /\ d % MEDS_p = Neg(a)
    BY <1>8
  <2>3. (b * (d % MEDS_p)) % MEDS_p = (b * d) % MEDS_p
    BY <2>1, <1>8, ModEarly
  <2>4. w[2 * n] = (b * d) % MEDS_p
    BY <1>1, <1>7, <2>1, <2>2
  <2> QED
    BY <2>1, <2>2, <2>3, <2>4 DEF **
<1>11. w[2 * n + 1] = P1[n - 1][j] ** a
  BY <1>1, <1>7 DEF **
<1> HIDE DEF w
<1>12. \A c \in Idx(n) : Lo(w)[c] = w[c] /\ Hi(w)[c] = w[n + c]
  BY <1>5, HalvesAre
<1> QED
  BY <1>5, <1>9, <1>10, <1>11, <1>12 DEF w

\* Paired with (x0, y): entry j of y * P0 minus x0 * P1.
LEMMA SystemPair ==
    ASSUME Modulus, Size, NEW P0 \in Squares, NEW P1 \in Squares, NEW a \in Field, NEW j \in Idx(MEDS_n),
           NEW x0 \in SquareRow, NEW y \in SquareRow, NEW s \in Field, NEW t \in Field
    PROVE  Pair(Wide, SolveMatrix(P0, P1, a)[j], Four(x0, y, s, t)) =
               (((Neg(1) ** Entry(MEDS_n, x0, P1, j)) ++ Entry(MEDS_n, y, P0, j))
                    ++ ((P0[MEDS_n - 1][j] ** Neg(a)) ** s)) ++ ((P1[MEDS_n - 1][j] ** a) ** t)
<1> DEFINE n == MEDS_n
<1>0. n \in Nat \ {0} /\ n \in Nat
  BY DEF Size
<1>1. PICK w \in Vec(Idx(Wide)) :
          /\ w = SolveMatrix(P0, P1, a)[j]
          /\ \A c \in Idx(n) : Lo(w)[c] = Neg(P1[c][j]) /\ Hi(w)[c] = P0[c][j]
          /\ w[2 * n] = P0[n - 1][j] ** Neg(a)
          /\ w[2 * n + 1] = P1[n - 1][j] ** a
  BY SystemRowIs
<1>2. Pair(Wide, w, Four(x0, y, s, t)) =
          ((Pair(n, Lo(w), x0) ++ Pair(n, Hi(w), y)) ++ (w[2 * n] ** s)) ++ (w[2 * n + 1] ** t)
  BY PairFour
<1>3. \A c \in Idx(n) : P0[c][j] \in Field /\ P1[c][j] \in Field /\ x0[c] \in Field /\ y[c] \in Field
  BY <1>0, MatrixIs DEF Squares, SquareRow, Vec
<1>4. Pair(n, Hi(w), y) = Entry(n, y, P0, j)
  <2> DEFINE f == [c \in Idx(n) |-> Hi(w)[c] ** y[c]]
             e == [c \in Idx(n) |-> y[c] ** P0[c][j]]
  <2>1. \A c \in Idx(n) : f[c] = e[c]
    BY <1>1, <1>3, Comm
  <2>2. f = e
    BY <2>1
  <2> HIDE DEF f, e
  <2>3. FieldSum(n, f) = FieldSum(n, e)
    BY <2>2
  <2> QED
    BY <2>3 DEF Pair, Entry, f, e
<1>5. Pair(n, Lo(w), x0) = Neg(1) ** Entry(n, x0, P1, j)
  <2> DEFINE f == [c \in Idx(n) |-> Lo(w)[c] ** x0[c]]
             e == [c \in Idx(n) |-> x0[c] ** P1[c][j]]
  <2>1. \A c \in Idx(n) : f[c] = Neg(1) ** e[c] /\ e[c] \in Field
    <3> TAKE c \in Idx(n)
    <3>1. PICK b \in Field, d \in Field, g \in Field : b = P1[c][j] /\ d = x0[c] /\ g = Neg(1)
      BY <1>3, Opposite
    <3>2. f[c] = (g ** b) ** d
      BY <1>1, <3>1, Opposite
    <3>3. (g ** b) ** d = g ** (b ** d)
      BY Assoc
    <3>4. b ** d = d ** b /\ d ** b \in Field
      BY Comm
    <3> QED
      BY <3>1, <3>2, <3>3, <3>4
  <2> HIDE DEF f, e
  <2>2. Terms(e, n)
    BY <2>1 DEF Terms
  <2>3. FieldSum(n, f) = Neg(1) ** FieldSum(n, e)
    BY <1>0, <2>1, <2>2, Opposite, SumScaled
  <2> QED
    BY <2>3 DEF Pair, Entry, f, e
<1> QED
  BY <1>1, <1>2, <1>4, <1>5

\* y with its last entry taken out.
Cut(y) == [c \in Idx(MEDS_n) |-> IF c = MEDS_n - 1 THEN 0 ELSE y[c]]

\* Cut is a row.
LEMMA CutIs ==
    ASSUME Modulus, Size, NEW y \in SquareRow
    PROVE  /\ Cut(y) \in SquareRow /\ Cut(y)[MEDS_n - 1] = 0
           /\ \A c \in Idx(MEDS_n - 1) : c \in Idx(MEDS_n) /\ Cut(y)[c] = y[c]
<1>1. MEDS_n - 1 \in Idx(MEDS_n) /\ \A c \in Idx(MEDS_n - 1) : c \in Idx(MEDS_n) /\ c # MEDS_n - 1
  BY DEF Size, Idx
<1> QED
  BY <1>1, FieldInt DEF Cut, SquareRow, Vec

\* What the last entry of y adds to a product.
LEMMA CutEntry ==
    ASSUME Modulus, Size, NEW y \in SquareRow, NEW P \in Squares, NEW j \in Idx(MEDS_n)
    PROVE  Entry(MEDS_n, y, P, j) = Entry(MEDS_n, Cut(y), P, j) ++ (y[MEDS_n - 1] ** P[MEDS_n - 1][j])
<1> DEFINE l == MEDS_n - 1
           f == [i \in Idx(MEDS_n) |-> y[i] ** P[i][j]]
           e == [i \in Idx(MEDS_n) |-> Cut(y)[i] ** P[i][j]]
<1>0. l \in Nat /\ l + 1 = MEDS_n /\ l \in Idx(MEDS_n) /\ MEDS_n \in Nat \ {0} /\ MEDS_n \in Nat
  BY DEF Size, Idx
<1>1. Cut(y) \in Vec(Idx(MEDS_n)) /\ y \in Vec(Idx(MEDS_n)) /\ P \in Matrices(MEDS_n, MEDS_n)
      /\ Cut(y)[l] = 0 /\ \A c \in Idx(l) : c \in Idx(MEDS_n) /\ Cut(y)[c] = y[c]
  BY CutIs DEF SquareRow, Squares
<1>2. Terms(f, MEDS_n) /\ Terms(e, MEDS_n)
  BY <1>0, <1>1, TermsIs
<1>3. f[l] = y[l] ** P[l][j] /\ e[l] = 0
  <2>1. P[l][j] \in Field
    BY <1>0, <1>1, MatrixIs
  <2> QED
    BY <1>0, <1>1, <2>1, Units
<1>4. \A c \in Idx(l) : e[c] = f[c]
  BY <1>1
<1> HIDE DEF f, e, l
<1>5. FieldSum(l + 1, f) = FieldSum(l, f) ++ f[l] /\ FieldSum(l + 1, e) = FieldSum(l, e) ++ e[l]
      /\ Terms(f, l) /\ FieldSum(l, f) \in Field
  BY <1>0, <1>2, SumStep
<1>6. FieldSum(l, e) = FieldSum(l, f)
  BY <1>0, <1>4, <1>5, SumSame
<1>7. FieldSum(MEDS_n, e) = FieldSum(l, f)
  BY <1>0, <1>3, <1>5, <1>6, Units
<1> QED
  BY <1>0, <1>3, <1>5, <1>7 DEF Entry, f, e, l

-----------------------------------------------------------------------------
\* The system and its elimination.

\* Two signs cancel.
LEMMA TwiceOpposite ==
    ASSUME Modulus, NEW a \in Field, NEW b \in Field
    PROVE  /\ (b ** Neg(a)) ** Neg(1) = a ** b
           /\ (b ** a) ** Neg(1) = Neg(1) ** (a ** b)
<1> DEFINE g == Neg(1)
<1>1. g \in Field /\ Neg(a) \in Field /\ Neg(a) = g ** a /\ a ++ Neg(a) = 0
  BY Opposite
<1>2. g ** Neg(a) = a
  <2>1. Neg(Neg(a)) = g ** Neg(a)
    BY <1>1, Opposite
  <2>2. a = Neg(Neg(a))
    BY <1>1, Opposite
  <2> QED
    BY <2>1, <2>2
<1> HIDE DEF g
<1>3. (b ** Neg(a)) ** g = b ** (Neg(a) ** g)
  BY <1>1, Assoc
<1>4. Neg(a) ** g = g ** Neg(a) /\ a ** b = b ** a /\ b ** a \in Field /\ (b ** a) ** g = g ** (b ** a)
  BY <1>1, Comm
<1> QED
  BY <1>2, <1>3, <1>4 DEF g

\* The entries of its products are zero.
LEMMA NullEntry ==
    ASSUME Modulus, Size, NEW P \in Squares, NEW j \in Idx(MEDS_n)
    PROVE  Entry(MEDS_n, Null(MEDS_n), P, j) = 0
<1>1. RowTimes(MEDS_n, MEDS_n, Null(MEDS_n), P) = Null(MEDS_n)
  BY NullIs DEF Squares, Size
<1>2. RowTimes(MEDS_n, MEDS_n, Null(MEDS_n), P)[j] = 0
  BY <1>1 DEF Null
<1> QED
  BY <1>2 DEF RowTimes

\* What it means for the three rows to be at right angles to row j.
LEMMA SystemMeans ==
    ASSUME Modulus, Size, NEW P0 \in Squares, NEW P1 \in Squares, NEW a \in Field, NEW j \in Idx(MEDS_n),
           NEW x0 \in SquareRow, NEW y \in SquareRow
    PROVE  /\ Pair(Wide, SolveMatrix(P0, P1, a)[j], Four(x0, y, 0, 0)) = 0
                  <=> Entry(MEDS_n, x0, P1, j) = Entry(MEDS_n, y, P0, j)
           /\ y[MEDS_n - 1] = a =>
                  (Pair(Wide, SolveMatrix(P0, P1, a)[j], Four(x0, Cut(y), Neg(1), 0)) = 0
                       <=> Entry(MEDS_n, x0, P1, j) = Entry(MEDS_n, y, P0, j))
           /\ y[MEDS_n - 1] = a =>
                  (Pair(Wide, SolveMatrix(P0, P1, a)[j], Four(Cut(y), Null(MEDS_n), 0, Neg(1))) = 0
                       <=> Entry(MEDS_n, y, P1, j) = 0)
<1> DEFINE g == Neg(1)
           X1 == Entry(MEDS_n, x0, P1, j)
           Y0 == Entry(MEDS_n, y, P0, j)
           Y1 == Entry(MEDS_n, y, P1, j)
           C0 == Entry(MEDS_n, Cut(y), P0, j)
           C1 == Entry(MEDS_n, Cut(y), P1, j)
           q0 == P0[MEDS_n - 1][j]
           q1 == P1[MEDS_n - 1][j]
           w == SolveMatrix(P0, P1, a)[j]
<1>0. MEDS_n \in Nat \ {0} /\ MEDS_n \in Nat /\ MEDS_n - 1 \in Idx(MEDS_n)
  BY DEF Size, Idx
<1>1. Cut(y) \in SquareRow /\ Null(MEDS_n) \in SquareRow /\ g \in Field /\ Neg(a) \in Field /\ 0 \in Field
  BY <1>0, CutIs, Opposite, FieldInt DEF Null, SquareRow, Vec
<1>2. q0 \in Field /\ q1 \in Field
  BY <1>0, MatrixIs DEF Squares
<1>3. X1 \in Field /\ Y0 \in Field /\ Y1 \in Field /\ C0 \in Field /\ C1 \in Field
  <2>1. x0 \in Vec(Idx(MEDS_n)) /\ y \in Vec(Idx(MEDS_n)) /\ Cut(y) \in Vec(Idx(MEDS_n))
        /\ P0 \in Matrices(MEDS_n, MEDS_n) /\ P1 \in Matrices(MEDS_n, MEDS_n)
    BY <1>1 DEF SquareRow, Squares
  <2> QED
    BY <1>0, <2>1, TermsIs
<1>4. Y0 = C0 ++ (y[MEDS_n - 1] ** q0) /\ Y1 = C1 ++ (y[MEDS_n - 1] ** q1)
  BY CutEntry
<1>5. Pair(Wide, w, Four(x0, y, 0, 0)) = (((g ** X1) ++ Y0) ++ ((q0 ** Neg(a)) ** 0)) ++ ((q1 ** a) ** 0)
  BY <1>1, SystemPair
<1>6. Pair(Wide, w, Four(x0, Cut(y), g, 0)) = (((g ** X1) ++ C0) ++ ((q0 ** Neg(a)) ** g)) ++ ((q1 ** a) ** 0)
  BY <1>1, SystemPair
<1>7. Pair(Wide, w, Four(Cut(y), Null(MEDS_n), 0, g)) =
          (((g ** C1) ++ 0) ++ ((q0 ** Neg(a)) ** 0)) ++ ((q1 ** a) ** g)
  BY <1>1, SystemPair, NullEntry
<1>8. (q0 ** Neg(a)) ** g = a ** q0 /\ (q1 ** a) ** g = g ** (a ** q1)
  BY <1>2, TwiceOpposite
<1>9. /\ \A u, v \in Field : (g ** u) ++ v = 0 <=> u = v
      /\ \A u \in Field : g ** u = 0 <=> u = 0
  BY Opposite
<1> HIDE DEF g, X1, Y0, Y1, C0, C1, q0, q1, w
<1>10. /\ (q0 ** Neg(a)) ** 0 = 0 /\ (q1 ** a) ** 0 = 0
       /\ a ** q0 \in Field /\ a ** q1 \in Field /\ g ** X1 \in Field /\ g ** C1 \in Field /\ g ** (a ** q1) \in Field
  <2>1. q0 ** Neg(a) \in Field /\ q1 ** a \in Field
    BY <1>1, <1>2, Comm
  <2>2. (q0 ** Neg(a)) ** 0 = 0 /\ (q1 ** a) ** 0 = 0
    BY <2>1, Units
  <2>3. a ** q0 \in Field /\ a ** q1 \in Field
    BY <1>2, Comm
  <2> QED
    BY <1>1, <1>3, <2>2, <2>3, Comm
<1>11. Pair(Wide, w, Four(x0, y, 0, 0)) = (g ** X1) ++ Y0
  <2>1. (g ** X1) ++ Y0 \in Field
    BY <1>3, <1>10, Comm
  <2> QED
    BY <1>5, <1>10, <2>1, Units
<1>12. ASSUME y[MEDS_n - 1] = a
       PROVE  Pair(Wide, w, Four(x0, Cut(y), g, 0)) = (g ** X1) ++ Y0
  <2>1. ((g ** X1) ++ C0) ++ (a ** q0) = (g ** X1) ++ (C0 ++ (a ** q0))
    BY <1>3, <1>10, Assoc
  <2>2. (g ** X1) ++ Y0 \in Field
    BY <1>3, <1>10, Comm
  <2> QED
    BY <1>4, <1>6, <1>8, <1>10, <1>12, <2>1, <2>2, Units
<1>13. ASSUME y[MEDS_n - 1] = a
       PROVE  Pair(Wide, w, Four(Cut(y), Null(MEDS_n), 0, g)) = g ** Y1
  <2>1. g ** (C1 ++ (a ** q1)) = (g ** C1) ++ (g ** (a ** q1))
    BY <1>1, <1>3, <1>10, Distr
  <2>2. ((g ** C1) ++ 0) ++ 0 = g ** C1
    BY <1>10, Units
  <2> QED
    BY <1>4, <1>7, <1>8, <1>10, <1>13, <2>1, <2>2
<1>14. Pair(Wide, w, Four(x0, y, 0, 0)) = 0 <=> X1 = Y0
  BY <1>3, <1>9, <1>11
<1>15. ASSUME y[MEDS_n - 1] = a
       PROVE  /\ Pair(Wide, w, Four(x0, Cut(y), g, 0)) = 0 <=> X1 = Y0
              /\ Pair(Wide, w, Four(Cut(y), Null(MEDS_n), 0, g)) = 0 <=> Y1 = 0
  BY <1>3, <1>9, <1>12, <1>13, <1>15
<1> QED
  BY <1>14, <1>15 DEF g, X1, Y0, Y1, w

-----------------------------------------------------------------------------
\* The first rows of the system and what the elimination makes of them are at
\* right angles to the same rows; the last row is untouched.
LEMMA SystemForm ==
    ASSUME Modulus, IsField(MEDS_p), Size, NEW X \in Systems
    PROVE  LET s == pmod_mat_syst_ct(X, MEDS_n - 1)
           IN  /\ s.mat \in Systems /\ s.ret \in {0, -1}
               /\ s.mat[MEDS_n - 1] = X[MEDS_n - 1]
               /\ s.ret = 0 => Systematic(s.mat, MEDS_n - 1)
               /\ \A e \in Vec(Idx(Wide)) : (\A r \in Idx(MEDS_n - 1) : Pair(Wide, s.mat[r], e) = 0)
                                                <=> (\A r \in Idx(MEDS_n - 1) : Pair(Wide, X[r], e) = 0)
<1> DEFINE R == MEDS_n - 1
           s == pmod_mat_syst_ct(X, R)
           t == pmod_mat_syst_ct(Top(X, R), R)
<1>1. /\ Sized(MEDS_n, Wide, R) /\ R # 0 /\ X \in Matrices(MEDS_n, Wide) /\ R \in Idx(MEDS_n) /\ R >= R
      /\ Wide \in Nat
  BY WideIs DEF Size, Systems
<1> HIDE DEF R
<1>2. s \in States(MEDS_n, Wide) /\ (s.ret = 0 => Systematic(s.mat, R))
  BY <1>1, SystIs
<1>3. Top(s.mat, R) = t.mat /\ \A q \in Idx(MEDS_n) : q >= R => s.mat[q] = X[q]
  BY <1>1, SystTop DEF OnTop
<1>4. /\ Top(X, R) \in Matrices(R, Wide) /\ Sized(R, Wide, R)
      /\ \A q \in Idx(R) : Top(X, R)[q] = X[q]
  BY <1>1, TopIs
<1>5. t.mat \in Matrices(R, Wide) /\ Span(Idx(Wide), t.mat) = Span(Idx(Wide), Top(X, R))
  BY <1>4, SystIs DEF States
<1> HIDE DEF s, t
<1>6. s.mat \in Matrices(MEDS_n, Wide)
  BY <1>2 DEF States
<1>7. \A q \in Idx(R) : t.mat[q] = s.mat[q]
  BY <1>1, <1>3, <1>6, TopIs
<1>8. PICK U \in Mat(Idx(R), Idx(Wide)), V \in Mat(Idx(R), Idx(Wide)) : U = t.mat /\ V = Top(X, R)
  BY <1>4, <1>5 DEF Matrices
<1>9. ASSUME NEW e \in Vec(Idx(Wide))
      PROVE  (\A r \in Idx(R) : Pair(Wide, U[r], e) = 0) <=> (\A r \in Idx(R) : Pair(Wide, V[r], e) = 0)
  <2>1. Span(Idx(Wide), U) = Span(Idx(Wide), V)
    BY <1>5, <1>8
  <2> QED
    BY <1>1, <2>1, PairSpan
<1> QED
  BY <1>1, <1>2, <1>3, <1>4, <1>6, <1>7, <1>8, <1>9 DEF R, s, States, Systems

\* With a last pivot the system comes out as an identity beside the rest, for
\* everything that does not look at the last column.
LEMMA SystemSolved ==
    ASSUME Modulus, IsField(MEDS_p), Size, NEW X \in Systems,
           pmod_mat_syst_ct(X, MEDS_n - 1).ret = 0,
           EliminateLast(pmod_mat_syst_ct(X, MEDS_n - 1).mat)[MEDS_n - 1][MEDS_n - 1] # 0
    PROVE  LET s == pmod_mat_syst_ct(X, MEDS_n - 1)
               Z == SubstituteLast(NormalizeLast(EliminateLast(s.mat)))
           IN  /\ Z \in Systems /\ Systematic(Z, MEDS_n)
               /\ \A r \in Idx(MEDS_n - 1) : Z[r][2 * MEDS_n + 1] = s.mat[r][2 * MEDS_n + 1]
               /\ \A e \in Vec(Idx(Wide)) : e[2 * MEDS_n + 1] = 0 =>
                      ((\A r \in Idx(MEDS_n) : Pair(Wide, Z[r], e) = 0)
                           <=> (\A r \in Idx(MEDS_n) : Pair(Wide, X[r], e) = 0))
<1> DEFINE l == MEDS_n - 1
           d == 2 * MEDS_n + 1
<1>0. /\ \A r \in Idx(l) : r \in Idx(MEDS_n)
      /\ \A r \in Idx(MEDS_n) : r = l \/ r \in Idx(l)
      /\ l \in Idx(MEDS_n)
  BY DEF Size, Idx
<1>1. PICK S \in Systems :
          /\ S = pmod_mat_syst_ct(X, l).mat
          /\ S[l] = X[l] /\ Systematic(S, l)
          /\ \A e \in Vec(Idx(Wide)) : (\A r \in Idx(l) : Pair(Wide, S[r], e) = 0)
                                           <=> (\A r \in Idx(l) : Pair(Wide, X[r], e) = 0)
  BY SystemForm
<1>2. PICK M \in Systems :
          /\ M = EliminateLast(S)
          /\ \A q \in Idx(l) : M[q] = S[q]
          /\ \A c \in Idx(l) : M[l][c] = 0
          /\ \A e \in Vec(Idx(Wide)) :
                 e[d] = 0 /\ (\A r \in Idx(l) : Pair(Wide, S[r], e) = 0) =>
                     Pair(Wide, M[l], e) = Pair(Wide, S[l], e)
  BY <1>1, EliminateLastIs
<1>3. M[l][l] # 0
  BY <1>1, <1>2
<1>4. PICK Y \in Systems :
          /\ Y = NormalizeLast(M)
          /\ \A q \in Idx(l) : Y[q] = M[q]
          /\ \A c \in Idx(l) : Y[l][c] = 0
          /\ Y[l][l] = 1
          /\ \A e \in Vec(Idx(Wide)) : e[d] = 0 => (Pair(Wide, Y[l], e) = 0 <=> Pair(Wide, M[l], e) = 0)
  BY <1>2, <1>3, NormalizeLastIs
<1>5. Systematic(Y, l)
  BY <1>1, <1>2, <1>4 DEF Systematic
<1>6. PICK Z \in Systems :
          /\ Z = SubstituteLast(Y)
          /\ Systematic(Z, MEDS_n)
          /\ \A r \in Idx(l) : Z[r][d] = Y[r][d]
          /\ \A e \in Vec(Idx(Wide)) : e[d] = 0 =>
                 ((\A r \in Idx(MEDS_n) : Pair(Wide, Z[r], e) = 0) <=> (\A r \in Idx(MEDS_n) : Pair(Wide, Y[r], e) = 0))
  BY <1>4, <1>5, SubstituteLastIs
<1>7. \A r \in Idx(l) : Z[r][d] = S[r][d]
  BY <1>2, <1>4, <1>6
<1>8. ASSUME NEW e \in Vec(Idx(Wide)), e[d] = 0
      PROVE  (\A r \in Idx(MEDS_n) : Pair(Wide, Z[r], e) = 0) <=> (\A r \in Idx(MEDS_n) : Pair(Wide, X[r], e) = 0)
  <2> HIDE DEF l, d
  <2>1. (\A r \in Idx(MEDS_n) : Pair(Wide, Z[r], e) = 0) <=> (\A r \in Idx(MEDS_n) : Pair(Wide, Y[r], e) = 0)
    BY <1>6, <1>8
  <2>2. \A q \in Idx(l) : Y[q] = S[q]
    BY <1>2, <1>4
  <2>3. (\A r \in Idx(MEDS_n) : Pair(Wide, Y[r], e) = 0)
            <=> Pair(Wide, Y[l], e) = 0 /\ \A r \in Idx(l) : Pair(Wide, S[r], e) = 0
    BY <1>0, <2>2
  <2>4. Pair(Wide, Y[l], e) = 0 <=> Pair(Wide, M[l], e) = 0
    BY <1>4, <1>8
  <2>5. (\A r \in Idx(l) : Pair(Wide, S[r], e) = 0) => Pair(Wide, M[l], e) = Pair(Wide, X[l], e)
    BY <1>1, <1>2, <1>8
  <2>6. (\A r \in Idx(l) : Pair(Wide, S[r], e) = 0) <=> (\A r \in Idx(l) : Pair(Wide, X[r], e) = 0)
    BY <1>1
  <2> QED
    BY <1>0, <2>1, <2>3, <2>4, <2>5, <2>6
<1> QED
  BY <1>1, <1>2, <1>4, <1>6, <1>7, <1>8

\* Row r of a systematic matrix, paired with a row of which it meets v.
LEMMA SystematicPair ==
    ASSUME Modulus, NEW n \in Nat, NEW r \in Idx(n), NEW u \in Vec(Idx(n)), NEW v \in Vec(Idx(n)),
           \A c \in Idx(n) : v[c] = 0 \/ u[c] = IF r = c THEN 1 ELSE 0
    PROVE  Pair(n, u, v) = v[r]
<1> DEFINE w == One(n)[r]
           f == [c \in Idx(n) |-> w[c] ** v[c]]
<1>1. w \in Vec(Idx(n)) /\ \A c \in Idx(n) : w[c] = IF r = c THEN 1 ELSE 0
  BY FieldInt DEF One, Vec
<1>2. \A c \in Idx(n) : v[c] \in Field
  BY DEF Vec
<1> HIDE DEF w
<1>3. Pair(n, u, v) = Pair(n, w, v)
  BY <1>1, PairAgree
<1>4. f[r] = v[r] /\ \A c \in Idx(n) : c # r => f[c] = 0
  BY <1>1, <1>2, Units
<1>5. Pair(n, w, v) = FieldSum(n, f)
  BY DEF Pair
<1> HIDE DEF f
<1>6. FieldSum(n, f) = f[r]
  BY <1>2, <1>4, SumOne
<1> QED
  BY <1>3, <1>4, <1>5, <1>6

\* The null row pairs to zero.
LEMMA NullPair ==
    ASSUME Modulus, NEW n \in Nat, NEW u \in Vec(Idx(n))
    PROVE  Pair(n, u, Null(n)) = 0
<1> DEFINE f == [c \in Idx(n) |-> u[c] ** Null(n)[c]]
<1>1. \A c \in Idx(n) : f[c] = 0
  <2> TAKE c \in Idx(n)
  <2>1. u[c] \in Field /\ Null(n)[c] = 0
    BY DEF Vec, Null
  <2> QED
    BY <2>1, Units
<1> HIDE DEF f
<1>2. FieldSum(n, f) = 0
  BY <1>1, SumOfZeros
<1> QED
  BY <1>2 DEF Pair, f

\* The last row of a solution is what the last column says.
LEMMA LastRowOnly ==
    ASSUME Modulus, IsField(MEDS_p), Size, NEW P0 \in Squares, NEW P1 \in Squares, NEW a \in Field,
           pmod_mat_syst_ct(SolveMatrix(P0, P1, a), MEDS_n - 1).ret = 0,
           NEW y \in SquareRow, y[MEDS_n - 1] = a
    PROVE  (\A c \in Idx(MEDS_n - 1) : Entry(MEDS_n, y, P1, c) = 0)
               <=> \A c \in Idx(MEDS_n - 1) :
                      y[c] = pmod_mat_syst_ct(SolveMatrix(P0, P1, a), MEDS_n - 1).mat[c][2 * MEDS_n + 1]
<1> DEFINE n == MEDS_n
           l == MEDS_n - 1
           d == 2 * MEDS_n + 1
<1>0. /\ n \in Nat /\ n \in Nat \ {0} /\ l \in Idx(n)
      /\ \A r \in Idx(l) : r \in Idx(n) /\ r # l
      /\ \A r \in Idx(n) : r = l \/ r \in Idx(l)
  BY DEF Size, Idx
<1>1. PICK X \in Systems : X = SolveMatrix(P0, P1, a)
  BY SolveMatrixType
<1>2. PICK S \in Systems :
          /\ S = pmod_mat_syst_ct(X, l).mat
          /\ Systematic(S, l)
          /\ \A e \in Vec(Idx(Wide)) : (\A r \in Idx(l) : Pair(Wide, S[r], e) = 0)
                                           <=> (\A r \in Idx(l) : Pair(Wide, X[r], e) = 0)
  BY <1>1, SystemForm
<1>3. /\ Cut(y) \in SquareRow /\ Cut(y)[l] = 0 /\ \A c \in Idx(l) : Cut(y)[c] = y[c]
      /\ Null(n) \in SquareRow /\ Neg(1) \in Field /\ 0 \in Field
      /\ \A c \in Idx(n) : y[c] \in Field
  BY <1>0, CutIs, Opposite, FieldInt DEF Null, SquareRow, Vec
<1>4. PICK e \in Vec(Idx(Wide)) : e = Four(Cut(y), Null(n), 0, Neg(1))
  BY <1>3, FourIs
<1>5. \A c \in Idx(l) : Pair(Wide, X[c], e) = 0 <=> Entry(n, y, P1, c) = 0
  BY <1>0, <1>1, <1>4, SystemMeans
<1>6. ASSUME NEW r \in Idx(l) PROVE Pair(Wide, S[r], e) = 0 <=> y[r] = S[r][d]
  <2>1. PICK w \in Vec(Idx(Wide)) : w = S[r]
    BY <1>0, WideIs, MatrixIs DEF Systems
  <2>2. /\ Lo(w) \in Vec(Idx(n)) /\ Hi(w) \in Vec(Idx(n)) /\ w[2 * n] \in Field /\ w[d] \in Field
        /\ \A c \in Idx(n) : Lo(w)[c] = w[c]
        /\ Cut(y) \in Vec(Idx(n))
    BY <1>3, HalvesAre DEF SquareRow
  <2>3. Pair(Wide, w, e) =
            ((Pair(n, Lo(w), Cut(y)) ++ Pair(n, Hi(w), Null(n))) ++ (w[2 * n] ** 0)) ++ (w[d] ** Neg(1))
    BY <1>3, <1>4, PairFour
  <2>4. Pair(n, Lo(w), Cut(y)) = y[r]
    <3>1. \A c \in Idx(n) : Cut(y)[c] = 0 \/ Lo(w)[c] = IF r = c THEN 1 ELSE 0
      BY <1>0, <1>2, <1>3, <2>1, <2>2 DEF Systematic
    <3>2. Pair(n, Lo(w), Cut(y)) = Cut(y)[r]
      BY <1>0, <2>2, <3>1, SystematicPair
    <3> QED
      BY <1>3, <3>2
  <2>5. Pair(n, Hi(w), Null(n)) = 0
    BY <1>0, <2>2, NullPair
  <2> HIDE DEF n, l, d
  <2>6. PICK b \in Field, h \in Field, g \in Field, k \in Field : b = y[r] /\ h = w[d] /\ g = Neg(1) /\ k = w[2 * n]
    BY <1>0, <1>3, <2>2
  <2>7. Pair(Wide, w, e) = ((b ++ 0) ++ (k ** 0)) ++ (h ** g)
    BY <2>3, <2>4, <2>5, <2>6
  <2>8. (b ++ 0) ++ (k ** 0) = b
    BY Units
  <2>9. h ** g \in Field /\ h ** g = g ** h /\ b ++ (h ** g) = (h ** g) ++ b
    <3>1. h ** g \in Field /\ h ** g = g ** h
      BY Comm
    <3> QED
      BY <3>1, Comm
  <2>10. (g ** h) ++ b = 0 <=> h = b
    BY <2>6, Opposite
  <2> QED
    BY <2>1, <2>6, <2>7, <2>8, <2>9, <2>10
<1> QED
  BY <1>1, <1>2, <1>5, <1>6

\* The sums of RowAbove are those of a pairing.
LEMMA DotIs ==
    ASSUME Modulus, Size, NEW w \in Vec(Idx(Wide)), NEW y \in SquareRow, NEW k \in Nat, k <= MEDS_n
    PROVE  /\ Dot(w, MEDS_n, y, k) \in Int
           /\ Dot(w, MEDS_n, y, k) % MEDS_p = FieldSum(k, [i \in Idx(k) |-> Hi(w)[i] ** y[i]])
<1> DEFINE f == [i \in Idx(k) |-> w[MEDS_n + i] * y[i]]
           e == [i \in Idx(k) |-> Hi(w)[i] ** y[i]]
<1>1. \A i \in Idx(k) : i \in Idx(MEDS_n)
  BY DEF Size, Idx
<1>2. \A i \in Idx(k) : w[MEDS_n + i] \in Int /\ y[i] \in Int /\ Hi(w)[i] = w[MEDS_n + i]
  <2> TAKE i \in Idx(k)
  <2>1. MEDS_n + i \in Idx(Wide) /\ i \in Idx(MEDS_n)
    BY <1>1, WideIs
  <2> QED
    BY <2>1, HalvesAre, FieldInt DEF SquareRow, Vec
<1>3. \A i \in Idx(k) : f[i] \in Int /\ e[i] = f[i] % MEDS_p
  <2> TAKE i \in Idx(k)
  <2>1. PICK b \in Int, d \in Int : b = w[MEDS_n + i] /\ d = y[i] /\ b = Hi(w)[i]
    BY <1>2
  <2>2. f[i] = b * d /\ e[i] = b ** d
    BY <2>1
  <2> HIDE DEF f, e
  <2> QED
    BY <2>2 DEF **
<1>4. Dot(w, MEDS_n, y, k) = Sigma(k, f)
  BY DEF Dot
<1> HIDE DEF f, e
<1>5. FieldSum(k, f) = FieldSum(k, e) /\ Sigma(k, f) \in Int
  BY <1>3, SumMod, SigmaType
<1> QED
  BY <1>4, <1>5 DEF FieldSum, e

-----------------------------------------------------------------------------
\* The rows of the solution, one from the next.

\* What is subtracted in the integers is subtracted in the field.
LEMMA NegMod ==
    ASSUME Modulus, NEW m \in Int, NEW h \in Field
    PROVE  /\ m % MEDS_p \in Field
           /\ (-m) % MEDS_p = Neg(m % MEDS_p)
           /\ (h - m) % MEDS_p = h ++ Neg(m % MEDS_p)
<1>1. /\ m % MEDS_p \in Field /\ m % MEDS_p \in Int /\ m \div MEDS_p \in Int
      /\ m = MEDS_p * (m \div MEDS_p) + (m % MEDS_p)
  BY ModIs, FieldInt
<1>2. PICK r \in Int, q \in Int : r = m % MEDS_p /\ q = -(m \div MEDS_p)
  BY <1>1
<1>3. -m = (-r) + q * MEDS_p
  <2>1. MEDS_p \in Int
    BY DEF Modulus
  <2>2. PICK b \in Int : b = m \div MEDS_p /\ q = -b /\ m = MEDS_p * b + r
    BY <1>1, <1>2
  <2>3. q * MEDS_p = -(MEDS_p * b)
    BY <2>1, <2>2
  <2>4. PICK t \in Int : t = MEDS_p * b
    BY <2>1
  <2>5. m = t + r /\ q * MEDS_p = -t
    BY <2>2, <2>3, <2>4
  <2>6. \A x0 \in Int : -(t + x0) = (-x0) + (-t)
    OBVIOUS
  <2> QED
    BY <2>5, <2>6
<1>4. ((-r) + q * MEDS_p) % MEDS_p = (-r) % MEDS_p
  BY <1>2, ModSame
<1>5. (-m) % MEDS_p = Neg(m % MEDS_p)
  BY <1>2, <1>3, <1>4 DEF Neg
<1>6. 1 \in Field /\ h \in Int
  BY FieldInt
<1>7. (h - m * 1) % MEDS_p = h ++ (((-m) % MEDS_p) ** 1)
  BY <1>6, MinusIs
<1>8. ((-m) % MEDS_p) ** 1 = (-m) % MEDS_p
  BY <1>1, <1>5, Opposite, Units
<1> QED
  BY <1>1, <1>5, <1>6, <1>7, <1>8

\* The entries of RowAbove.
LEMMA RowAboveIs ==
    ASSUME Modulus, Size, NEW Z \in Systems, NEW k \in Nat, NEW y \in SquareRow, NEW r \in Idx(MEDS_n)
    PROVE  /\ k # 0 => RowAbove(Z, k, y)[r] = Neg(Pair(MEDS_n, Hi(Z[r]), y))
           /\ k = 0 => RowAbove(Z, k, y)[r] = Z[r][2 * MEDS_n] ++ Neg(Pair(MEDS_n, Hi(Z[r]), Cut(y)))
<1> DEFINE n == MEDS_n
           l == MEDS_n - 1
<1>0. n \in Nat /\ l \in Nat /\ l + 1 = n /\ l <= n /\ n <= n /\ l \in Idx(n) /\ 2 * n \in Idx(Wide)
  BY WideIs DEF Size, Idx
<1>1. PICK w \in Vec(Idx(Wide)) : w = Z[r]
  BY WideIs, MatrixIs DEF Systems
<1>2. RowAbove(Z, k, y)[r] =
          IF k = 0 THEN (w[2 * n] - Dot(w, n, y, l)) % MEDS_p ELSE (-Dot(w, n, y, n)) % MEDS_p
  BY <1>1, RowIs DEF RowAbove
<1>3. PICK a \in Int : a = Dot(w, n, y, n) /\ a % MEDS_p = FieldSum(n, [i \in Idx(n) |-> Hi(w)[i] ** y[i]])
  BY <1>0, DotIs
<1>4. PICK b \in Int : b = Dot(w, n, y, l) /\ b % MEDS_p = FieldSum(l, [i \in Idx(l) |-> Hi(w)[i] ** y[i]])
  BY <1>0, DotIs
<1>5. PICK h \in Field : h = w[2 * n]
  BY HalvesAre
<1>6. a % MEDS_p = Pair(n, Hi(w), y)
  BY <1>3 DEF Pair
<1>7. b % MEDS_p = Pair(n, Hi(w), Cut(y))
  <2> DEFINE f == [i \in Idx(n) |-> Hi(w)[i] ** Cut(y)[i]]
             e == [i \in Idx(l) |-> Hi(w)[i] ** y[i]]
  <2>1. /\ Hi(w) \in Vec(Idx(n)) /\ Cut(y) \in Vec(Idx(n)) /\ Cut(y)[l] = 0
        /\ \A c \in Idx(l) : c \in Idx(n) /\ Cut(y)[c] = y[c]
        /\ Hi(w)[l] \in Field
    BY <1>0, HalvesAre, CutIs DEF SquareRow, Vec
  <2>2. Terms(f, n)
    BY <1>0, <2>1, PairType
  <2>3. f[l] = 0
    BY <1>0, <2>1, Units
  <2>4. \A c \in Idx(l) : e[c] = f[c]
    BY <2>1
  <2>5. Pair(n, Hi(w), Cut(y)) = FieldSum(n, f)
    BY DEF Pair
  <2> HIDE DEF f, e, l
  <2>6. FieldSum(l + 1, f) = FieldSum(l, f) ++ f[l] /\ Terms(f, l) /\ FieldSum(l, f) \in Field
    BY <1>0, <2>2, SumStep
  <2>7. FieldSum(l, e) = FieldSum(l, f)
    BY <1>0, <2>4, <2>6, SumSame
  <2>8. FieldSum(n, f) = FieldSum(l, f)
    BY <1>0, <2>3, <2>6, Units
  <2> QED
    BY <1>4, <2>5, <2>7, <2>8 DEF e
<1>8. (-a) % MEDS_p = Neg(a % MEDS_p) /\ (h - b) % MEDS_p = h ++ Neg(b % MEDS_p)
  BY NegMod
<1> QED
  BY <1>1, <1>2, <1>3, <1>4, <1>5, <1>6, <1>7, <1>8

\* The row that RowAbove makes is the only one for which the system holds.
LEMMA RowAboveOnly ==
    ASSUME Modulus, Size, NEW Z \in Systems, Systematic(Z, MEDS_n), NEW k \in Nat,
           NEW x0 \in SquareRow, NEW y \in SquareRow
    PROVE  /\ k # 0 => (x0 = RowAbove(Z, k, y)
                            <=> \A r \in Idx(MEDS_n) : Pair(Wide, Z[r], Four(x0, y, 0, 0)) = 0)
           /\ k = 0 => (x0 = RowAbove(Z, k, y)
                            <=> \A r \in Idx(MEDS_n) : Pair(Wide, Z[r], Four(x0, Cut(y), Neg(1), 0)) = 0)
<1> DEFINE n == MEDS_n
           d == 2 * MEDS_n + 1
           g == Neg(1)
<1>0. n \in Nat /\ Cut(y) \in SquareRow /\ g \in Field /\ 0 \in Field
  BY CutIs, Opposite, FieldInt DEF Size
<1>1. PICK v \in SquareRow : v = RowAbove(Z, k, y)
  BY RowAboveType
<1>2. x0 = v <=> \A r \in Idx(n) : x0[r] = v[r]
  BY VecSame DEF SquareRow
<1>3. ASSUME NEW r \in Idx(n)
      PROVE  /\ k # 0 => (x0[r] = v[r] <=> Pair(Wide, Z[r], Four(x0, y, 0, 0)) = 0)
             /\ k = 0 => (x0[r] = v[r] <=> Pair(Wide, Z[r], Four(x0, Cut(y), g, 0)) = 0)
  <2>1. PICK w \in Vec(Idx(Wide)) : w = Z[r]
    BY WideIs, MatrixIs DEF Systems
  <2>2. /\ Lo(w) \in Vec(Idx(n)) /\ Hi(w) \in Vec(Idx(n)) /\ w[2 * n] \in Field /\ w[d] \in Field
        /\ \A c \in Idx(n) : Lo(w)[c] = w[c]
        /\ Cut(y) \in Vec(Idx(n)) /\ y \in Vec(Idx(n)) /\ x0 \in Vec(Idx(n)) /\ x0[r] \in Field
    BY <1>0, HalvesAre DEF SquareRow, Vec
  <2>3. Pair(n, Lo(w), x0) = x0[r]
    <3>1. \A c \in Idx(n) : Lo(w)[c] = IF r = c THEN 1 ELSE 0
      BY <2>1, <2>2 DEF Systematic
    <3> QED
      BY <1>0, <2>2, <3>1, SystematicPair
  <2>4. Pair(Wide, w, Four(x0, y, 0, 0)) =
            ((x0[r] ++ Pair(n, Hi(w), y)) ++ (w[2 * n] ** 0)) ++ (w[d] ** 0)
    BY <1>0, <2>3, PairFour
  <2>5. Pair(Wide, w, Four(x0, Cut(y), g, 0)) =
            ((x0[r] ++ Pair(n, Hi(w), Cut(y))) ++ (w[2 * n] ** g)) ++ (w[d] ** 0)
    BY <1>0, <2>3, PairFour
  <2>6. Pair(n, Hi(w), y) \in Field /\ Pair(n, Hi(w), Cut(y)) \in Field
    BY <1>0, <2>2, PairType
  <2> HIDE DEF d
  <2>7. PICK b \in Field, s \in Field, t \in Field, h \in Field, q \in Field :
            /\ b = x0[r] /\ s = Pair(n, Hi(w), y) /\ t = Pair(n, Hi(w), Cut(y)) /\ h = w[2 * n] /\ q = w[d]
    BY <2>2, <2>6
  <2>8. /\ k # 0 => v[r] = Neg(s)
        /\ k = 0 => v[r] = h ++ Neg(t)
    BY <1>1, <2>1, <2>7, RowAboveIs
  <2> HIDE DEF g, n
  <2>9. b = Neg(s) <=> Pair(Wide, w, Four(x0, y, 0, 0)) = 0
    <3>1. ((b ++ s) ++ (h ** 0)) ++ (q ** 0) = b ++ s
      <4>1. b ++ s \in Field
        BY Comm
      <4> QED
        BY <4>1, Units
    <3> QED
      BY <2>4, <2>7, <3>1, Opposite
  <2>10. b = h ++ Neg(t) <=> Pair(Wide, w, Four(x0, Cut(y), g, 0)) = 0
    <3>1. PICK c \in Field : c = b ++ t
      BY Comm
    <3>2. h ** g \in Field /\ h ** g = g ** h /\ c ++ (h ** g) = (h ** g) ++ c /\ c ++ (h ** g) \in Field
      <4>1. h ** g \in Field /\ h ** g = g ** h
        BY <1>0, Comm
      <4> QED
        BY <4>1, Comm
    <3>3. ((b ++ t) ++ (h ** g)) ++ (q ** 0) = (g ** h) ++ c
      BY <3>1, <3>2, Units
    <3>4. (g ** h) ++ c = 0 <=> h = c
      BY Opposite DEF g
    <3>5. Neg(t) \in Field /\ t ++ Neg(t) = 0 /\ Neg(t) ++ t = 0
      <4>1. Neg(t) \in Field /\ t ++ Neg(t) = 0
        BY Opposite
      <4> QED
        BY <4>1, Comm
    <3>6. (b ++ t) ++ Neg(t) = b
      <4>1. (b ++ t) ++ Neg(t) = b ++ (t ++ Neg(t))
        BY <3>5, Assoc
      <4> QED
        BY <3>5, <4>1, Units
    <3>7. (h ++ Neg(t)) ++ t = h
      <4>1. (h ++ Neg(t)) ++ t = h ++ (Neg(t) ++ t)
        BY <3>5, Assoc
      <4> QED
        BY <3>5, <4>1, Units
    <3> QED
      BY <2>5, <2>7, <3>1, <3>3, <3>4, <3>6, <3>7
  <2> QED
    BY <2>1, <2>7, <2>8, <2>9, <2>10
<1> QED
  BY <1>1, <1>2, <1>3 DEF n, g

-----------------------------------------------------------------------------
\* The solution.

\* Solution has the rows from the end, and their product with P0.
LEMMA SolutionIs ==
    ASSUME Modulus, Size, NEW Z \in Systems, NEW P0 \in Squares, NEW a \in Field
    PROVE  /\ Solution(Z, P0, a).A = [r \in Idx(MEDS_n) |-> RowFromEnd(Z, a, MEDS_n - 1 - r)]
           /\ Solution(Z, P0, a).A \in Squares
           /\ Solution(Z, P0, a).B_inv = pmod_mat_mul(Solution(Z, P0, a).A, P0)
<1> DEFINE n == MEDS_n
           rows == [r \in Idx(n) |-> RowFromEnd(Z, a, n - 1 - r)]
           Sol == Row(rows)
           t(r, i) == [q \in Idx(n) |-> P0[q][i] * Sol[r][q]]
           e(r, i) == [q \in Idx(n) |-> Sol[r][q] ** P0[q][i]]
           b == [r \in Idx(n) |-> [i \in Idx(n) |-> Sigma(n, t(r, i)) % MEDS_p]]
<1>1. Solution(Z, P0, a).A = Sol /\ Solution(Z, P0, a).B_inv = Rows(b)
  BY DEF Solution
<1>2. Sol = rows
  <2> HIDE DEF rows
  <2> QED
    BY RowIs
<1>3. Sol \in Squares
  BY <1>1, SolutionType
<1>4. n \in Nat /\ n \in Nat \ {0}
  BY DEF Size
<1>5. Rows(b) = b
  <2>1. b = [r \in DOMAIN b |-> b[r]]
    OBVIOUS
  <2> HIDE DEF b
  <2> QED
    BY <2>1, RowsIs
<1> HIDE DEF Sol
<1>6. \A r, i \in Idx(n) : Sol[r][i] \in Int /\ P0[r][i] \in Int
  BY <1>3, <1>4, MatrixIs, FieldInt DEF Squares
<1>7. ASSUME NEW r \in Idx(n), NEW i \in Idx(n) PROVE Sigma(n, t(r, i)) % MEDS_p = Entry(n, Sol[r], P0, i)
  <2>1. \A q \in Idx(n) : t(r, i)[q] \in Int /\ e(r, i)[q] = t(r, i)[q] % MEDS_p
    <3> TAKE q \in Idx(n)
    <3>1. PICK y \in Int : y = P0[q][i]
      BY <1>6
    <3>2. PICK z \in Int : z = Sol[r][q]
      BY <1>6
    <3>3. t(r, i)[q] = y * z /\ e(r, i)[q] = z ** y
      BY <3>1, <3>2
    <3> HIDE DEF t, e
    <3>4. z ** y = (z * y) % MEDS_p
      BY DEF **
    <3>5. z * y = y * z
      OBVIOUS
    <3> QED
      BY <3>3, <3>4, <3>5
  <2> HIDE DEF t, e
  <2>2. FieldSum(n, t(r, i)) = FieldSum(n, e(r, i))
    BY <1>4, <2>1, SumMod
  <2> QED
    BY <2>2 DEF FieldSum, Entry, e
<1> HIDE DEF t
<1>8. b = [r \in Idx(n) |-> RowTimes(n, n, Sol[r], P0)]
  BY <1>7 DEF RowTimes
<1>9. b = pmod_mat_mul(Sol, P0)
  <2>1. pmod_mat_mul(Sol, P0) = [r \in Idx(n) |-> RowTimes(n, n, Sol[r], P0)]
    BY <1>3, <1>4, MulIs DEF Squares
  <2> QED
    BY <1>8, <2>1
<1> QED
  BY <1>1, <1>2, <1>3, <1>5, <1>9

\* The system: the last row of X ends with a and its product with P1 is zero
\* but for the last entry; the product of every other row with P1 is that of
\* the next row with P0.
Solves(P0, P1, a, X) ==
    /\ X[MEDS_n - 1][MEDS_n - 1] = a
    /\ \A c \in Idx(MEDS_n - 1) : Entry(MEDS_n, X[MEDS_n - 1], P1, c) = 0
    /\ \A r \in Idx(MEDS_n - 1) : RowTimes(MEDS_n, MEDS_n, X[r], P1) = RowTimes(MEDS_n, MEDS_n, X[r + 1], P0)

\* The first elimination of solve, and that of the last row.
SystemReduced(P0, P1, a) == pmod_mat_syst_ct(SolveMatrix(P0, P1, a), MEDS_n - 1)
SystemEliminated(P0, P1, a) == EliminateLast(SystemReduced(P0, P1, a).mat)

\* With a last pivot the system has the solution that solve reads off, and no other.
THEOREM SolveFinds ==
    ASSUME Modulus, IsField(MEDS_p), Size, NEW P0 \in Squares, NEW P1 \in Squares, NEW a \in Field,
           SystemReduced(P0, P1, a).ret = 0, SystemEliminated(P0, P1, a)[MEDS_n - 1][MEDS_n - 1] # 0
    PROVE  LET Sol == Solution(SubstituteLast(NormalizeLast(SystemEliminated(P0, P1, a))), P0, a).A
           IN  Sol \in Squares /\ \A X \in Squares : Solves(P0, P1, a, X) <=> X = Sol
<1> DEFINE n == MEDS_n
           l == MEDS_n - 1
           d == 2 * MEDS_n + 1
<1>0. /\ n \in Nat /\ l \in Nat /\ l \in Idx(n) /\ n \in Nat \ {0}
      /\ \A r \in Idx(l) : r \in Idx(n) /\ r + 1 \in Idx(n) /\ r # l
      /\ \A r \in Idx(n) : r = l \/ r \in Idx(l)
  BY DEF Size, Idx
<1>1. PICK Y \in Systems : Y = SolveMatrix(P0, P1, a)
  BY SolveMatrixType
<1>2. PICK Z \in Systems :
          /\ Z = SubstituteLast(NormalizeLast(SystemEliminated(P0, P1, a)))
          /\ Systematic(Z, n)
          /\ \A r \in Idx(l) : Z[r][d] = SystemReduced(P0, P1, a).mat[r][d]
          /\ \A e \in Vec(Idx(Wide)) : e[d] = 0 =>
                 ((\A r \in Idx(n) : Pair(Wide, Z[r], e) = 0) <=> (\A r \in Idx(n) : Pair(Wide, Y[r], e) = 0))
  BY <1>1, SystemSolved DEF SystemReduced, SystemEliminated
<1> DEFINE F(k) == RowFromEnd(Z, a, k)
           Sol == Solution(Z, P0, a).A
<1>3. Sol = [r \in Idx(n) |-> F(n - 1 - r)] /\ Sol \in Squares
  BY SolutionIs
<1>4. \A k \in Nat : F(k) \in SquareRow /\ F(0) = LastRow(Z, a) /\ F(k + 1) = RowAbove(Z, k, F(k))
  BY RowFromEndStep, RowFromEndType
\* The rows that fit one another.
<1>5. ASSUME NEW k \in Nat, NEW x0 \in SquareRow, NEW y \in SquareRow, k = 0 => y[l] = a
      PROVE  x0 = RowAbove(Z, k, y) <=> RowTimes(n, n, x0, P1) = RowTimes(n, n, y, P0)
  <2>1. Cut(y) \in SquareRow /\ Neg(1) \in Field /\ 0 \in Field
    BY CutIs, Opposite, FieldInt
  <2>2. PICK e \in Vec(Idx(Wide)) : e[d] = 0 /\ e = IF k = 0 THEN Four(x0, Cut(y), Neg(1), 0) ELSE Four(x0, y, 0, 0)
    BY <2>1, FourIs
  <2>3. x0 = RowAbove(Z, k, y) <=> \A r \in Idx(n) : Pair(Wide, Z[r], e) = 0
    <3>1. CASE k = 0
      BY <1>2, <2>2, <3>1, RowAboveOnly
    <3>2. CASE k # 0
      BY <1>2, <2>2, <3>2, RowAboveOnly
    <3> QED
      BY <3>1, <3>2
  <2>4. \A r \in Idx(n) : Pair(Wide, Y[r], e) = 0 <=> Entry(n, x0, P1, r) = Entry(n, y, P0, r)
    BY <1>1, <1>5, <2>2, SystemMeans
  <2>5. (\A r \in Idx(n) : Entry(n, x0, P1, r) = Entry(n, y, P0, r)) <=> RowTimes(n, n, x0, P1) = RowTimes(n, n, y, P0)
    BY DEF RowTimes
  <2> QED
    BY <1>2, <2>2, <2>3, <2>4, <2>5
<1>6. ASSUME NEW y \in SquareRow
      PROVE  y = LastRow(Z, a) <=> y[l] = a /\ \A c \in Idx(l) : Entry(n, y, P1, c) = 0
  <2>1. y = LastRow(Z, a) <=> y[l] = a /\ \A c \in Idx(l) : y[c] = Z[c][d]
    <3>1. PICK v \in SquareRow : v = LastRow(Z, a)
      BY LastRowType
    <3>2. y = v <=> \A c \in Idx(n) : y[c] = v[c]
      BY VecSame DEF SquareRow
    <3>3. v[l] = a /\ \A c \in Idx(l) : v[c] = Z[c][d]
      BY <1>0, <3>1 DEF LastRow
    <3> QED
      BY <1>0, <3>1, <3>2, <3>3
  <2>2. y[l] = a => ((\A c \in Idx(l) : Entry(n, y, P1, c) = 0) <=> \A c \in Idx(l) : y[c] = Z[c][d])
    BY <1>2, LastRowOnly DEF SystemReduced
  <2> QED
    BY <2>1, <2>2
<1>7. ASSUME NEW X \in Squares PROVE \A r \in Idx(n) : X[r] \in SquareRow
  BY <1>0, MatrixIs DEF Squares, SquareRow
<1>8. Solves(P0, P1, a, Sol)
  <2>1. Sol[l] = LastRow(Z, a) /\ Sol[l] \in SquareRow
    <3>1. n - 1 - l = 0
      BY <1>0
    <3>2. Sol[l] = F(0)
      BY <1>0, <1>3, <3>1
    <3> QED
      BY <1>4, <3>2
  <2>2. Sol[l][l] = a /\ \A c \in Idx(l) : Entry(n, Sol[l], P1, c) = 0
    BY <1>6, <2>1
  <2>3. ASSUME NEW r \in Idx(l) PROVE RowTimes(n, n, Sol[r], P1) = RowTimes(n, n, Sol[r + 1], P0)
    <3>1. PICK k \in Nat : k = n - 1 - (r + 1) /\ n - 1 - r = k + 1 /\ (k = 0 => r + 1 = l)
      BY <1>0 DEF Idx
    <3>2. Sol[r] = F(k + 1) /\ Sol[r + 1] = F(k)
      BY <1>0, <1>3, <3>1
    <3>3. Sol[r] \in SquareRow /\ Sol[r + 1] \in SquareRow /\ Sol[r] = RowAbove(Z, k, Sol[r + 1])
      BY <1>4, <3>2
    <3> QED
      BY <1>5, <2>2, <3>1, <3>3
  <2> QED
    BY <2>2, <2>3 DEF Solves
<1>9. ASSUME NEW X \in Squares, Solves(P0, P1, a, X) PROVE X = Sol
  <2> DEFINE S == {k \in Nat : k <= l => X[l - k] = F(k)}
  <2>1. X[l] = F(0)
    BY <1>0, <1>4, <1>6, <1>7, <1>9 DEF Solves
  <2>2. 0 \in S
    <3>1. l - 0 = l
      BY <1>0
    <3> QED
      BY <2>1, <3>1
  <2>3. ASSUME NEW k \in S PROVE k + 1 \in S
    <3> SUFFICES ASSUME k + 1 <= l PROVE X[l - (k + 1)] = F(k + 1)
      OBVIOUS
    <3>1. k \in Nat /\ X[l - k] = F(k)
      BY <1>0
    <3>2. PICK r \in Idx(l) : r = l - (k + 1) /\ r + 1 = l - k /\ (k = 0 => r + 1 = l)
      BY <1>0, <3>1 DEF Idx
    <3>3. X[r] \in SquareRow /\ X[r + 1] \in SquareRow
      BY <1>0, <1>7
    <3>4. RowTimes(n, n, X[r], P1) = RowTimes(n, n, X[r + 1], P0) /\ X[l][l] = a
      BY <1>9 DEF Solves
    <3>5. X[r] = RowAbove(Z, k, X[r + 1])
      BY <1>5, <3>1, <3>2, <3>3, <3>4
    <3> QED
      BY <1>4, <3>1, <3>2, <3>5
  <2> HIDE DEF S
  <2>4. S = Nat
    <3>1. S \subseteq Nat
      BY DEF S
    <3> QED
      BY <2>2, <2>3, <3>1, Induction
  <2>5. ASSUME NEW r \in Idx(n) PROVE X[r] = Sol[r]
    <3>1. PICK k \in Nat : k = n - 1 - r /\ k <= l /\ l - k = r
      BY <1>0 DEF Idx
    <3>2. X[l - k] = F(k)
      BY <2>4, <3>1 DEF S
    <3> QED
      BY <1>3, <3>1, <3>2
  <2> QED
    BY <1>3, <2>5 DEF Squares, Matrices, Mat
<1> QED
  BY <1>2, <1>3, <1>8, <1>9

-----------------------------------------------------------------------------
\* Where solve gives up.

\* A zero last pivot: P1 takes a row that is not null to the null row.
LEMMA NoPivotKernel ==
    ASSUME Modulus, IsField(MEDS_p), Size, NEW P0 \in Squares, NEW P1 \in Squares, NEW a \in Field,
           SystemReduced(P0, P1, a).ret = 0, SystemEliminated(P0, P1, a)[MEDS_n - 1][MEDS_n - 1] = 0
    PROVE  \E z \in SquareRow : z # Null(MEDS_n) /\ RowTimes(MEDS_n, MEDS_n, z, P1) = Null(MEDS_n)
<1> DEFINE n == MEDS_n
           l == MEDS_n - 1
           d == 2 * MEDS_n + 1
<1>0. /\ n \in Nat /\ l \in Nat /\ l + 1 = n /\ l \in Idx(n) /\ l \in Idx(Wide) /\ n \in Nat \ {0}
      /\ \A r \in Idx(l) : r \in Idx(n) /\ r # l
      /\ \A r \in Idx(n) : r = l \/ r \in Idx(l)
  BY WideIs DEF Size, Idx
<1>1. PICK X \in Systems : X = SolveMatrix(P0, P1, a)
  BY SolveMatrixType
<1>2. PICK S \in Systems :
          /\ S = SystemReduced(P0, P1, a).mat
          /\ S[l] = X[l] /\ Systematic(S, l)
          /\ \A e \in Vec(Idx(Wide)) : (\A r \in Idx(l) : Pair(Wide, S[r], e) = 0)
                                           <=> (\A r \in Idx(l) : Pair(Wide, X[r], e) = 0)
  BY <1>1, SystemForm DEF SystemReduced
<1>3. PICK M \in Systems :
          /\ M = SystemEliminated(P0, P1, a)
          /\ \A c \in Idx(l) : M[l][c] = 0
          /\ \A e \in Vec(Idx(Wide)) :
                 e[d] = 0 /\ (\A r \in Idx(l) : Pair(Wide, S[r], e) = 0) =>
                     Pair(Wide, M[l], e) = Pair(Wide, S[l], e)
  BY <1>2, EliminateLastIs DEF SystemEliminated
<1>4. \A r \in Idx(n) : S[r] \in Vec(Idx(Wide)) /\ S[r][l] \in Field /\ M[r] \in Vec(Idx(Wide))
  BY <1>0, WideIs, MatrixIs DEF Systems
<1> DEFINE z == [c \in Idx(n) |-> IF c = l THEN 1 ELSE Neg(S[c][l])]
<1>5. z \in SquareRow /\ z \in Vec(Idx(n)) /\ z[l] = 1 /\ \A c \in Idx(l) : z[c] = Neg(S[c][l])
  <2>1. \A c \in Idx(n) : (IF c = l THEN 1 ELSE Neg(S[c][l])) \in Field
    BY <1>4, Opposite, FieldInt
  <2> QED
    BY <1>0, <2>1 DEF SquareRow, Vec
<1> HIDE DEF z
<1>6. Null(n) \in SquareRow /\ Null(n)[l] = 0 /\ 0 \in Field /\ Null(n) \in Vec(Idx(n))
  BY <1>0, FieldInt DEF Null, SquareRow, Vec
<1>7. PICK e \in Vec(Idx(Wide)) : e = Four(z, Null(n), 0, 0) /\ e[d] = 0
  BY <1>5, <1>6, FourIs
<1>8. ASSUME NEW w \in Vec(Idx(Wide)) PROVE Pair(Wide, w, e) = Pair(n, Lo(w), z)
  <2>1. Pair(Wide, w, e) =
            ((Pair(n, Lo(w), z) ++ Pair(n, Hi(w), Null(n))) ++ (w[2 * n] ** 0)) ++ (w[d] ** 0)
    BY <1>5, <1>6, <1>7, PairFour
  <2>2. Lo(w) \in Vec(Idx(n)) /\ Hi(w) \in Vec(Idx(n)) /\ w[2 * n] \in Field /\ w[d] \in Field
    BY HalvesAre DEF SquareRow
  <2>3. Pair(n, Hi(w), Null(n)) = 0 /\ Pair(n, Lo(w), z) \in Field
    BY <1>0, <1>5, <2>2, NullPair, PairType
  <2> QED
    BY <2>1, <2>2, <2>3, Units
<1>9. ASSUME NEW w \in Vec(Idx(Wide)) PROVE /\ Lo(w) \in Vec(Idx(n)) /\ \A c \in Idx(n) : Lo(w)[c] = w[c]
  BY HalvesAre DEF SquareRow
\* z is at right angles to the rows above the last one,
<1>10. ASSUME NEW r \in Idx(l) PROVE Pair(Wide, S[r], e) = 0
  <2>1. PICK w \in Vec(Idx(Wide)) : w = S[r]
    BY <1>0, <1>4
  <2> DEFINE f == [c \in Idx(n) |-> Lo(w)[c] ** z[c]]
             h == [c \in Idx(l) |-> (One(n)[r])[c] ** z[c]]
  <2>2. Lo(w) \in Vec(Idx(n)) /\ Lo(w)[l] = S[r][l] /\ \A c \in Idx(l) : Lo(w)[c] = IF r = c THEN 1 ELSE 0
    BY <1>0, <1>2, <1>9, <2>1 DEF Systematic
  <2>3. Terms(f, n)
    BY <1>0, <1>5, <2>2, PairType
  <2>4. \A c \in Idx(n) : z[c] \in Field
    BY <1>5 DEF Vec
  <2>5. f[l] = S[r][l]
    BY <1>0, <1>4, <1>5, <2>2, Units
  <2>6. f[r] = z[r] /\ \A c \in Idx(l) : c # r => f[c] = 0
    BY <1>0, <2>2, <2>4, Units
  <2>7. Pair(n, Lo(w), z) = FieldSum(n, f)
    BY DEF Pair
  <2> HIDE DEF f, n, l
  <2>8. FieldSum(l + 1, f) = FieldSum(l, f) ++ f[l]
    BY <1>0, <2>3, SumStep
  <2>9. FieldSum(l, f) = z[r]
    <3>1. f[r] \in Field
      BY <1>0, <2>4, <2>6
    <3> QED
      BY <1>0, <2>6, <3>1, SumOne
  <2>10. z[r] ++ S[r][l] = 0
    <3>1. S[r][l] \in Field /\ z[r] = Neg(S[r][l]) /\ z[r] \in Field
      BY <1>0, <1>4, <1>5, <2>4
    <3> QED
      BY <3>1, Opposite
  <2> QED
    BY <1>0, <1>8, <2>1, <2>5, <2>7, <2>8, <2>9, <2>10
\* and to what is left of the last one.
<1>11. Pair(Wide, M[l], e) = 0
  <2>1. PICK w \in Vec(Idx(Wide)) : w = M[l]
    BY <1>0, <1>4
  <2>2. Lo(w) \in Vec(Idx(n)) /\ \A c \in Idx(n) : Lo(w)[c] = 0
    BY <1>0, <1>3, <1>9, <2>1
  <2> DEFINE f == [c \in Idx(n) |-> Lo(w)[c] ** z[c]]
  <2>3. \A c \in Idx(n) : f[c] = 0
    <3>1. \A c \in Idx(n) : z[c] \in Field
      BY <1>5 DEF Vec
    <3> QED
      BY <2>2, <3>1, Units
  <2>4. Pair(n, Lo(w), z) = FieldSum(n, f)
    BY DEF Pair
  <2> HIDE DEF f, n
  <2>5. FieldSum(n, f) = 0
    BY <1>0, <2>3, SumOfZeros
  <2> QED
    BY <1>8, <2>1, <2>4, <2>5
<1>12. \A r \in Idx(n) : Pair(Wide, X[r], e) = 0
  <2>1. Pair(Wide, X[l], e) = 0
    BY <1>2, <1>3, <1>7, <1>10, <1>11
  <2>2. \A r \in Idx(l) : Pair(Wide, X[r], e) = 0
    BY <1>2, <1>10
  <2> QED
    BY <1>0, <2>1, <2>2
<1>13. \A r \in Idx(n) : Entry(n, z, P1, r) = 0
  <2> TAKE r \in Idx(n)
  <2>1. Pair(Wide, X[r], e) = 0 <=> Entry(n, z, P1, r) = Entry(n, Null(n), P0, r)
    BY <1>1, <1>5, <1>6, <1>7, SystemMeans
  <2> QED
    BY <1>12, <2>1, NullEntry
<1>14. RowTimes(n, n, z, P1) = Null(n)
  BY <1>13 DEF RowTimes, Null
<1> QED
  BY <1>5, <1>6, <1>14

\* Stuck before: a row that is not null, ends with zero, and whose product with
\* P1 is zero but for the last entry.
LEMMA StuckKernel ==
    ASSUME Modulus, IsField(MEDS_p), Size, NEW P0 \in Squares, NEW P1 \in Squares, NEW a \in Field,
           SystemReduced(P0, P1, a).ret # 0
    PROVE  \E z \in SquareRow : /\ z # Null(MEDS_n) /\ z[MEDS_n - 1] = 0
                                /\ \A c \in Idx(MEDS_n - 1) : Entry(MEDS_n, z, P1, c) = 0
<1> DEFINE n == MEDS_n
           l == MEDS_n - 1
<1>0. /\ n \in Nat /\ l \in Nat /\ l # 0 /\ l + 1 = n /\ l \in Idx(n) /\ n \in Nat \ {0} /\ l <= Wide /\ Wide \in Nat
      /\ \A r \in Idx(l) : r \in Idx(n) /\ r # l
      /\ \A r \in Idx(n) : r = l \/ r \in Idx(l)
      /\ Sized(n, Wide, l) /\ l \in Nat \ {0}
  BY WideIs DEF Size, Idx, Wide
<1>1. PICK X \in Matrices(n, Wide) : X = SolveMatrix(P0, P1, a) /\ \A r \in Idx(n) : X[r] \in Vec(Idx(Wide))
  BY <1>0, SolveMatrixType, MatrixIs DEF Systems
<1> HIDE DEF l
<1>2. PICK T \in Matrices(l, Wide) : T = Top(X, l) /\ Sized(l, Wide, l) /\ \A q \in Idx(l) : T[q] = X[q]
  BY <1>0, TopIs
<1>3. pmod_mat_syst_ct(T, l).ret # 0
  BY <1>0, <1>1, <1>2, SystTop DEF SystemReduced, l
<1>4. PICK U \in Matrices(l, Wide) : Span(Idx(Wide), U) = Span(Idx(Wide), T) /\ Stuck(U, l)
  BY <1>2, <1>3, SystIs DEF States
<1>5. PICK K \in Matrices(l, l) : K = LeftOf(T, l) /\ K = [r \in Idx(l) |-> [c \in Idx(l) |-> T[r][c]]]
  BY <1>0, LeftOfIs
<1>6. ~Full(l, K)
  BY <1>0, <1>4, <1>5, FullNotStuck
<1>7. PICK k \in Vec(Idx(l)) : k # Null(l) /\ \A r \in Idx(l) : Pair(l, K[r], k) = 0
  BY <1>0, <1>6, Kernel
<1> DEFINE z == [c \in Idx(n) |-> IF c = l THEN 0 ELSE k[c]]
<1>8. z \in SquareRow /\ z \in Vec(Idx(n)) /\ z[l] = 0 /\ \A c \in Idx(l) : z[c] = k[c]
  BY <1>0, FieldInt DEF SquareRow, Vec
<1>9. z # Null(n)
  <2> SUFFICES ASSUME z = Null(n) PROVE FALSE
    OBVIOUS
  <2>1. \A c \in Idx(l) : k[c] = 0
    BY <1>0, <1>8 DEF Null
  <2>2. k = Null(l)
    BY <2>1 DEF Null, Vec
  <2> QED
    BY <1>7, <2>2
<1> HIDE DEF z
<1>10. ASSUME NEW r \in Idx(l) PROVE Entry(n, z, P1, r) = 0
  <2>1. Null(n) \in SquareRow /\ Null(n) \in Vec(Idx(n)) /\ 0 \in Field
    BY <1>0, FieldInt DEF Null, SquareRow, Vec
  <2>2. Pair(Wide, X[r], Four(z, Null(n), 0, 0)) = 0 <=> Entry(n, z, P1, r) = Entry(n, Null(n), P0, r)
    BY <1>0, <1>1, <1>8, <2>1, SystemMeans
  <2>3. PICK w \in Vec(Idx(Wide)) : w = X[r]
    BY <1>0, <1>1
  <2>4. Pair(Wide, w, Four(z, Null(n), 0, 0)) =
            ((Pair(n, Lo(w), z) ++ Pair(n, Hi(w), Null(n))) ++ (w[2 * n] ** 0)) ++ (w[2 * n + 1] ** 0)
    BY <1>8, <2>1, PairFour
  <2>5. /\ Lo(w) \in Vec(Idx(n)) /\ Hi(w) \in Vec(Idx(n)) /\ w[2 * n] \in Field /\ w[2 * n + 1] \in Field
        /\ \A c \in Idx(n) : Lo(w)[c] = w[c] /\ Lo(w)[c] \in Field
    BY HalvesAre DEF SquareRow, Vec
  <2>6. Pair(n, Hi(w), Null(n)) = 0
    BY <1>0, <2>5, NullPair
  <2>7. Pair(n, Lo(w), z) = 0
    <3> DEFINE f == [c \in Idx(n) |-> Lo(w)[c] ** z[c]]
               h == [c \in Idx(l) |-> K[r][c] ** k[c]]
    <3>1. Terms(f, n) /\ f[l] = 0
      BY <1>0, <1>8, <2>5, PairType, Units
    <3>2. \A c \in Idx(l) : h[c] = f[c]
      <4> TAKE c \in Idx(l)
      <4>1. c \in Idx(n) /\ k[c] = z[c] /\ T[r] = w
        BY <1>0, <1>2, <1>8, <2>3
      <4>2. K[r][c] = w[c] /\ Lo(w)[c] = w[c]
        BY <1>5, <2>5, <4>1
      <4> QED
        BY <4>1, <4>2
    <3>3. FieldSum(l, h) = 0
      BY <1>7 DEF Pair
    <3>4. Pair(n, Lo(w), z) = FieldSum(n, f)
      BY DEF Pair
    <3> HIDE DEF f, h, n
    <3>5. FieldSum(l + 1, f) = FieldSum(l, f) ++ f[l] /\ Terms(f, l)
      BY <1>0, <3>1, SumStep
    <3>6. FieldSum(l, h) = FieldSum(l, f)
      BY <1>0, <3>2, <3>5, SumSame
    <3> QED
      BY <1>0, <2>1, <3>1, <3>3, <3>4, <3>5, <3>6, Units
  <2>8. ((0 ++ 0) ++ (w[2 * n] ** 0)) ++ (w[2 * n + 1] ** 0) = 0
    BY <2>1, <2>5, Units
  <2> QED
    BY <1>0, <2>2, <2>3, <2>4, <2>6, <2>7, <2>8, NullEntry
<1> QED
  BY <1>8, <1>9, <1>10 DEF l

\* PlusType for the factor 1.
LEMMA PlusOnce ==
    ASSUME Modulus, NEW n \in Nat, NEW u \in Vec(Idx(n)), NEW z \in Vec(Idx(n))
    PROVE  /\ Plus(u, 1, z) \in Vec(Idx(n))
           /\ \A c \in Idx(n) : Plus(u, 1, z)[c] = u[c] ++ (1 ** z[c])
<1>1. PICK g \in Field : g = 1
  BY FieldInt
<1>2. /\ Plus(u, g, z) \in Vec(Idx(n))
      /\ \A c \in Idx(n) : Plus(u, g, z)[c] = u[c] ++ (g ** z[c])
  BY PlusType
<1> QED
  BY <1>1, <1>2

\* Adding a row that is not null changes a row.
LEMMA PlusOther ==
    ASSUME Modulus, NEW n \in Nat, NEW u \in Vec(Idx(n)), NEW z \in Vec(Idx(n)), Plus(u, 1, z) = u
    PROVE  z = Null(n)
<1>1. 1 \in Field /\ Null(n) \in Vec(Idx(n)) /\ \A c \in Idx(n) : Null(n)[c] = 0
  BY FieldInt DEF Null, Vec
<1>2. \A c \in Idx(n) : Plus(u, 1, z)[c] = u[c] ++ (1 ** z[c])
  BY PlusOnce
<1>3. ASSUME NEW c \in Idx(n) PROVE z[c] = Null(n)[c]
  <2>1. PICK a \in Field, b \in Field : a = u[c] /\ b = z[c]
    BY DEF Vec
  <2>2. a ++ (1 ** b) = a
    BY <1>2, <2>1
  <2>3. a ++ b = a
    BY <2>2, Units
  <2>4. Neg(a) \in Field /\ a ++ Neg(a) = 0 /\ Neg(a) ++ a = 0
    <3>1. Neg(a) \in Field /\ a ++ Neg(a) = 0
      BY Opposite
    <3> QED
      BY <3>1, Comm
  <2>5. (Neg(a) ++ a) ++ b = Neg(a) ++ (a ++ b)
    BY <2>4, Assoc
  <2>6. b = 0
    BY <2>3, <2>4, <2>5, Units
  <2> QED
    BY <1>1, <2>1, <2>6
<1> QED
  BY <1>1, <1>3, VecSame

\* Adding the null row changes nothing.
LEMMA PlusNull ==
    ASSUME Modulus, NEW n \in Nat, NEW u \in Vec(Idx(n))
    PROVE  Plus(u, 1, Null(n)) = u
<1>1. 1 \in Field /\ Null(n) \in Vec(Idx(n)) /\ \A c \in Idx(n) : Null(n)[c] = 0
  BY FieldInt DEF Null, Vec
<1>2. Plus(u, 1, Null(n)) \in Vec(Idx(n)) /\ \A c \in Idx(n) : Plus(u, 1, Null(n))[c] = u[c] ++ (1 ** 0)
  <2>1. PICK z \in Vec(Idx(n)) : z = Null(n) /\ \A c \in Idx(n) : z[c] = 0
    BY <1>1
  <2> QED
    BY <2>1, PlusOnce
<1>3. ASSUME NEW c \in Idx(n) PROVE Plus(u, 1, Null(n))[c] = u[c]
  <2>1. u[c] \in Field /\ 1 ** 0 = 0
    BY <1>1, Units DEF Vec
  <2> QED
    BY <1>2, <2>1, Units
<1> QED
  BY <1>2, <1>3, VecSame

\* Where P1 is not one to one the first row of a solution can be changed.
LEMMA KernelOther ==
    ASSUME Modulus, Size, NEW P0 \in Squares, NEW P1 \in Squares, NEW a \in Field, NEW X \in Squares,
           Solves(P0, P1, a, X),
           NEW z \in SquareRow, z # Null(MEDS_n), RowTimes(MEDS_n, MEDS_n, z, P1) = Null(MEDS_n)
    PROVE  \E Y \in Squares : Y # X /\ Solves(P0, P1, a, Y)
<1> DEFINE n == MEDS_n
           l == MEDS_n - 1
           w == Plus(X[0], 1, z)
           Y == [X EXCEPT ![0] = w]
<1>0. /\ n \in Nat /\ n \in Nat \ {0} /\ 0 \in Idx(n) /\ l \in Idx(n) /\ l # 0 /\ 1 \in Field
      /\ \A r \in Idx(l) : r \in Idx(n) /\ r + 1 \in Idx(n) /\ r + 1 # 0
  BY FieldInt DEF Size, Idx
<1>1. X[0] \in Vec(Idx(n)) /\ z \in Vec(Idx(n)) /\ X \in [Idx(n) -> Vec(Idx(n))] /\ P1 \in Matrices(n, n)
  BY <1>0 DEF Squares, Matrices, Mat, SquareRow
<1>2. w \in Vec(Idx(n)) /\ w # X[0]
  BY <1>0, <1>1, PlusType, PlusOther
<1>3. Y \in Squares /\ Y[0] = w /\ \A r \in Idx(n) : r # 0 => Y[r] = X[r]
  <2> HIDE DEF w
  <2> QED
    BY <1>0, <1>1, <1>2 DEF Squares, Matrices, Mat
<1>4. RowTimes(n, n, w, P1) = RowTimes(n, n, X[0], P1)
  <2>1. RowTimes(n, n, w, P1) = Plus(RowTimes(n, n, X[0], P1), 1, Null(n))
    BY <1>0, <1>1, RowTimesLinear
  <2>2. RowTimes(n, n, X[0], P1) \in Vec(Idx(n))
    BY <1>0, <1>1, RowTimesType
  <2> QED
    BY <1>0, <2>1, <2>2, PlusNull
<1> HIDE DEF w, Y
<1>5. Solves(P0, P1, a, Y)
  <2>1. Y[l] = X[l]
    BY <1>0, <1>3
  <2>2. ASSUME NEW r \in Idx(l) PROVE RowTimes(n, n, Y[r], P1) = RowTimes(n, n, Y[r + 1], P0)
    <3>1. RowTimes(n, n, X[r], P1) = RowTimes(n, n, X[r + 1], P0)
      BY DEF Solves
    <3>2. Y[r + 1] = X[r + 1]
      BY <1>0, <1>3
    <3>3. RowTimes(n, n, Y[r], P1) = RowTimes(n, n, X[r], P1)
      BY <1>0, <1>3, <1>4
    <3> QED
      BY <3>1, <3>2, <3>3
  <2> QED
    BY <2>1, <2>2 DEF Solves
<1>6. Y # X
  BY <1>2, <1>3
<1> QED
  BY <1>3, <1>5, <1>6

\* Where it is, and the last row can be changed, the rows above it follow.
LEMMA LastRowOther ==
    ASSUME Modulus, IsField(MEDS_p), Size, NEW P0 \in Squares, NEW P1 \in Squares, NEW a \in Field,
           NEW X \in Squares, Solves(P0, P1, a, X), OneToOne(MEDS_n, P1),
           NEW z \in SquareRow, z # Null(MEDS_n), z[MEDS_n - 1] = 0,
           \A c \in Idx(MEDS_n - 1) : Entry(MEDS_n, z, P1, c) = 0
    PROVE  \E Y \in Squares : Y # X /\ Solves(P0, P1, a, Y)
<1> DEFINE n == MEDS_n
           l == MEDS_n - 1
           w == Plus(X[l], 1, z)
           W == Vec(Idx(n))
<1>0. /\ n \in Nat /\ n \in Nat \ {0} /\ l \in Idx(n) /\ l \in Nat /\ 1 \in Field /\ n - 1 - l = 0
      /\ \A r \in Idx(l) : r \in Idx(n) /\ r + 1 \in Idx(n)
      /\ \A r \in Idx(n) : n - 1 - r \in 0..l
  BY FieldInt DEF Size, Idx
<1>1. /\ X[l] \in W /\ z \in W /\ X \in [Idx(n) -> W] /\ P1 \in Matrices(n, n) /\ P0 \in Matrices(n, n)
  BY <1>0 DEF Squares, Matrices, Mat, SquareRow
<1>2. w \in W /\ w # X[l] /\ \A c \in Idx(n) : w[c] = X[l][c] ++ (1 ** z[c])
  BY <1>0, <1>1, PlusType, PlusOther
<1>3. PICK V \in Matrices(n, n) : pmod_mat_mul(V, P1) = One(n)
  <2>1. Full(n, P1)
    BY <1>0, <1>1, OneToOneFull
  <2> QED
    BY <1>0, <1>1, <2>1, InvIs
<1> DEFINE up(v) == RowTimes(n, n, RowTimes(n, n, v, P0), V)
           step == [m \in 1..l |-> [v \in W |-> up(v)]]
<1>4. ASSUME NEW v \in W PROVE up(v) \in W /\ RowTimes(n, n, up(v), P1) = RowTimes(n, n, v, P0)
  <2>1. PICK u \in W : u = RowTimes(n, n, v, P0)
    BY <1>0, <1>1, RowTimesType
  <2>2. RowTimes(n, n, u, V) \in W
    BY <1>0, RowTimesType
  <2>3. RowTimes(n, n, RowTimes(n, n, u, V), P1) = RowTimes(n, n, u, pmod_mat_mul(V, P1))
    BY <1>0, <1>1, RowTimesTwice
  <2>4. RowTimes(n, n, u, One(n)) = u
    BY <1>0, RowTimesOne
  <2> QED
    BY <1>3, <2>1, <2>2, <2>3, <2>4
<1> HIDE DEF w, W, up
<1>5. step \in [1..l -> [W -> W]]
  BY <1>4
<1>6. PICK g \in [0..l -> W] : Iterates(g, w, l, step)
  BY <1>0, <1>2, <1>5, Recursion
<1>7. g[0] = w /\ \A m \in 1..l : g[m] = up(g[m - 1]) /\ g[m - 1] \in W
  <2>1. \A m \in 1..l : g[m - 1] \in W
    BY <1>0
  <2>2. \A m \in 1..l, v \in W : step[m][v] = up(v)
    OBVIOUS
  <2> HIDE DEF step
  <2> QED
    BY <1>6, <2>1, <2>2 DEF Iterates
<1> DEFINE Y == [r \in Idx(n) |-> g[n - 1 - r]]
<1>8. Y \in Squares
  BY <1>0 DEF Squares, Matrices, Mat, W
<1>9. Y[l] = w
  BY <1>0, <1>7
<1>10. ASSUME NEW r \in Idx(l) PROVE RowTimes(n, n, Y[r], P1) = RowTimes(n, n, Y[r + 1], P0)
  <2>1. PICK m \in 1..l : m = n - 1 - r /\ m - 1 = n - 1 - (r + 1)
    BY <1>0 DEF Idx
  <2>2. Y[r] = g[m] /\ Y[r + 1] = g[m - 1]
    BY <1>0, <2>1
  <2> QED
    BY <1>4, <1>7, <2>2
<1> HIDE DEF Y
<1>11. w[l] = a
  <2>1. X[l][l] = a
    BY DEF Solves
  <2>2. w[l] = a ++ (1 ** 0)
    BY <1>0, <1>2, <2>1
  <2>3. 1 ** 0 = 0
    BY <1>0, Units
  <2> QED
    BY <2>2, <2>3, Units
<1>12. ASSUME NEW c \in Idx(l) PROVE Entry(n, w, P1, c) = 0
  <2>1. RowTimes(n, n, w, P1) = Plus(RowTimes(n, n, X[l], P1), 1, RowTimes(n, n, z, P1))
    BY <1>0, <1>1, RowTimesLinear DEF w, W
  <2>2. RowTimes(n, n, X[l], P1) \in Vec(Idx(n)) /\ RowTimes(n, n, z, P1) \in Vec(Idx(n))
    BY <1>0, <1>1, RowTimesType DEF W
  <2>3. c \in Idx(n) /\ RowTimes(n, n, w, P1)[c] = RowTimes(n, n, X[l], P1)[c] ++ (1 ** RowTimes(n, n, z, P1)[c])
    <3>1. PICK s \in Vec(Idx(n)), t \in Vec(Idx(n)) : s = RowTimes(n, n, X[l], P1) /\ t = RowTimes(n, n, z, P1)
      BY <2>2
    <3>2. n \in Nat /\ c \in Idx(n)
      BY <1>0 DEF Idx
    <3>3. Plus(s, 1, t)[c] = s[c] ++ (1 ** t[c])
      BY <3>2, PlusOnce
    <3> QED
      BY <2>1, <3>1, <3>2, <3>3
  <2>4. \A v : RowTimes(n, n, v, P1)[c] = Entry(n, v, P1, c)
    BY <2>3 DEF RowTimes
  <2>5. Entry(n, X[l], P1, c) = 0 /\ Entry(n, z, P1, c) = 0
    BY DEF Solves
  <2>6. 1 ** 0 = 0 /\ 0 ++ 0 = 0
    BY <1>0, Units, FieldInt
  <2> QED
    BY <2>3, <2>4, <2>5, <2>6
<1>13. Solves(P0, P1, a, Y)
  BY <1>9, <1>10, <1>11, <1>12 DEF Solves
<1> QED
  BY <1>2, <1>8, <1>9, <1>13

\* Where solve gives up there is never just one solution.
THEOREM SolveMisses ==
    ASSUME Modulus, IsField(MEDS_p), Size, NEW P0 \in Squares, NEW P1 \in Squares, NEW a \in Field,
           SystemReduced(P0, P1, a).ret # 0 \/ SystemEliminated(P0, P1, a)[MEDS_n - 1][MEDS_n - 1] = 0,
           NEW X \in Squares, Solves(P0, P1, a, X)
    PROVE  \E Y \in Squares : Y # X /\ Solves(P0, P1, a, Y)
<1>1. CASE SystemReduced(P0, P1, a).ret = 0
  BY <1>1, NoPivotKernel, KernelOther
<1>2. CASE SystemReduced(P0, P1, a).ret # 0 /\ OneToOne(MEDS_n, P1)
  BY <1>2, StuckKernel, LastRowOther
<1>3. CASE ~OneToOne(MEDS_n, P1)
  BY <1>3, KernelOther DEF OneToOne, SquareRow
<1> QED
  BY <1>1, <1>2, <1>3

\* What solve found makes the first square the identity, and the second one the
\* identity shifted by one row.
LEMMA SolvedSquares ==
    ASSUME Modulus, Size, NEW P0 \in Squares, NEW P1 \in Squares, NEW a \in Field,
           NEW X \in Squares, Solves(P0, P1, a, X),
           NEW W \in Squares, pmod_mat_mul(pmod_mat_mul(X, P0), W) = One(MEDS_n)
    PROVE  \A r \in Idx(MEDS_n - 1) : pmod_mat_mul(pmod_mat_mul(X, P1), W)[r] = One(MEDS_n)[r + 1]
<1> DEFINE n == MEDS_n
<1>0. /\ n \in Nat \ {0} /\ n \in Nat
      /\ \A r \in Idx(n - 1) : r \in Idx(n) /\ r + 1 \in Idx(n)
      /\ \A Y : Y \in Squares <=> Y \in Matrices(n, n)
  BY DEF Size, Idx, Squares
<1>1. PICK V \in Matrices(n, n) : V = pmod_mat_mul(X, P0) /\ \A r \in Idx(n) : V[r] = RowTimes(n, n, X[r], P0)
  BY <1>0, MulIs
<1>2. PICK U \in Matrices(n, n) : U = pmod_mat_mul(X, P1) /\ \A r \in Idx(n) : U[r] = RowTimes(n, n, X[r], P1)
  BY <1>0, MulIs
<1>3. /\ \A r \in Idx(n) : pmod_mat_mul(U, W)[r] = RowTimes(n, n, U[r], W)
      /\ \A r \in Idx(n) : pmod_mat_mul(V, W)[r] = RowTimes(n, n, V[r], W)
  <2>1. \A Y \in Matrices(n, n) : pmod_mat_mul(Y, W) = [r \in Idx(n) |-> RowTimes(n, n, Y[r], W)]
    BY <1>0, MulIs
  <2> QED
    BY <2>1
<1>4. ASSUME NEW r \in Idx(n - 1) PROVE pmod_mat_mul(U, W)[r] = One(n)[r + 1]
  <2>1. U[r] = V[r + 1]
    BY <1>0, <1>1, <1>2 DEF Solves
  <2> QED
    BY <1>0, <1>1, <1>3, <2>1
<1> QED
  BY <1>2, <1>4

-----------------------------------------------------------------------------
\* The names of KeyPair.

\* The assumptions on the constants, and the names of KeyPair and of MatrixProofs for
\* the same sets.
LEMMA Ground ==
    /\ Modulus /\ IsField(MEDS_p) /\ Size /\ MEDS_n \in Nat \ {0}
    /\ SquareMats = Squares /\ Vectors = Vec(Idx(MEDS_n))
    /\ Area = MEDS_n * MEDS_n /\ Area \in Nat /\ MEDS_n <= Area /\ Idx(Area) = Cells
<1>1. IsField(MEDS_p)
  BY FieldAssumption, PrimeField
<1> QED
  BY <1>1, FieldAssumption DEF IsField, Modulus, Size, SquareMats, Squares, Matrices, Mat, Vec, Vectors, Area, Cells

\* Times, with its integer sums, is the row times the matrix.
LEMMA TimesIs ==
    ASSUME NEW N \in Nat, NEW v \in Vec(Idx(MEDS_n)), NEW X \in Matrices(MEDS_n, N)
    PROVE  Times(v, X) = RowTimes(MEDS_n, N, v, X)
<1>0. 0 \in Idx(MEDS_n) /\ MEDS_n \in Nat
  BY Ground DEF Idx
<1>1. DOMAIN X[0] = Idx(N)
  BY <1>0, Ground, MatrixIs
<1>2. ASSUME NEW c \in Idx(N)
      PROVE  Sigma(MEDS_n, [j \in Idx(MEDS_n) |-> v[j] * X[j][c]]) % MEDS_p = Entry(MEDS_n, v, X, c)
  <2> DEFINE f == [j \in Idx(MEDS_n) |-> v[j] * X[j][c]]
             e == [j \in Idx(MEDS_n) |-> v[j] ** X[j][c]]
  <2>1. \A j \in Idx(MEDS_n) : v[j] \in Int /\ X[j][c] \in Int
    BY Ground, MatrixIs, FieldInt DEF Vec
  <2>2. \A j \in Idx(MEDS_n) : f[j] \in Int /\ e[j] = f[j] % MEDS_p
    BY <2>1 DEF **
  <2> HIDE DEF f, e
  <2>3. FieldSum(MEDS_n, f) = FieldSum(MEDS_n, e)
    BY <1>0, <2>2, Ground, SumMod
  <2> QED
    BY <2>3 DEF FieldSum, Entry, f, e
<1> QED
  BY <1>1, <1>2 DEF Times, RowTimes

\* Product is the product of the code.
LEMMA ProductIs ==
    ASSUME NEW N \in Nat, NEW X \in Squares, NEW Y \in Matrices(MEDS_n, N)
    PROVE  /\ Product(X, Y) = [r \in Idx(MEDS_n) |-> RowTimes(MEDS_n, N, X[r], Y)]
           /\ Product(X, Y) = pmod_mat_mul(X, Y)
<1>1. DOMAIN X = Idx(MEDS_n) /\ \A r \in Idx(MEDS_n) : X[r] \in Vec(Idx(MEDS_n))
  BY Ground, MatrixIs DEF Squares
<1>2. \A r \in Idx(MEDS_n) : Times(X[r], Y) = RowTimes(MEDS_n, N, X[r], Y)
  BY <1>1, TimesIs
<1>3. Product(X, Y) = [r \in Idx(MEDS_n) |-> RowTimes(MEDS_n, N, X[r], Y)]
  BY <1>1, <1>2 DEF Product
<1> QED
  BY <1>3, Ground, MulIs DEF Squares

\* Zero, Identity and Left under their names in MatrixProofs.
LEMMA NamesAre ==
    /\ Zero = Null(MEDS_n) /\ Identity = One(MEDS_n)
    /\ \A X \in Codes : Left(X) = LeftOf(X, MEDS_n) /\ Left(X) \in Squares
<1>1. ASSUME NEW X \in Codes PROVE Left(X) = LeftOf(X, MEDS_n) /\ Left(X) \in Squares
  <2>1. X \in Matrices(MEDS_n, Area)
    BY Ground DEF Codes
  <2>2. MEDS_n \in Nat /\ MEDS_n \in Nat \ {0} /\ Area \in Nat /\ MEDS_n <= Area
    BY Ground
  <2>3. /\ LeftOf(X, MEDS_n) = [r \in Idx(MEDS_n) |-> [c \in Idx(MEDS_n) |-> X[r][c]]]
        /\ LeftOf(X, MEDS_n) \in Matrices(MEDS_n, MEDS_n)
    BY <2>1, <2>2, LeftOfIs
  <2> QED
    BY <2>3 DEF Left, Squares
<1> QED
  BY <1>1 DEF Zero, Null, Identity, One

\* An invertible matrix is a full one.
LEMMA RegularIs ==
    ASSUME NEW X \in Squares
    PROVE  Regular(X) <=> Full(MEDS_n, X)
<1>1. X \in Matrices(MEDS_n, MEDS_n) /\ MEDS_n \in Nat
  BY Ground DEF Squares
<1>2. \A v \in Vec(Idx(MEDS_n)) : Times(v, X) = RowTimes(MEDS_n, MEDS_n, v, X)
  BY <1>1, TimesIs
<1>3. Regular(X) <=> OneToOne(MEDS_n, X)
  BY <1>2, Ground, NamesAre DEF Regular, OneToOne
<1> QED
  BY <1>1, <1>3, Ground, OneToOneFull

-----------------------------------------------------------------------------
\* What the buffers hold, label by label.
KeyInv ==
    /\ pc \in {"Ti", "solve", "inv", "pi", "pk", "open", "done", "field"}
    /\ Amm \in Field
    /\ pc # "field" => G0 \in Codes /\ Systematic(G0, MEDS_n)
    /\ pc \notin {"field", "Ti"} => Ti \in Squares /\ KeepsDraw(Ti)
    /\ pc \in {"inv", "pi", "pk", "open", "done"} =>
           /\ solve(G0prime, Amm).ret = 0
           /\ A = solve(G0prime, Amm).sol.A /\ B_inv = solve(G0prime, Amm).sol.B_inv
    /\ pc \in {"pi", "pk", "open", "done"} =>
           /\ pmod_mat_inv(B_inv).ret = 0 /\ B = pmod_mat_inv(B_inv).mat
           /\ pmod_mat_inv(A).ret = 0 /\ A_inv = pmod_mat_inv(A).mat
    /\ pc \in {"pk", "open", "done"} =>
           pmod_mat_syst_ct(pi(A, B, G0), MEDS_n).ret = 0 /\ G = pmod_mat_syst_ct(pi(A, B, G0), MEDS_n).mat
    /\ pc \in {"open", "done"} => pk = Written
    /\ pc = "done" => Gopen = Opened

\* rnd_sys_mat draws systematic matrices.
LEMMA StartIs ==
    ASSUME NEW v \in Values
    PROVE  rnd_sys_mat(v) \in Codes /\ Systematic(rnd_sys_mat(v), MEDS_n)
<1> DEFINE n == MEDS_n
           m == [r \in Idx(n) |-> [c \in Idx(n * n) |->
                    IF c >= n THEN v[r][c] ELSE IF c = r THEN 1 ELSE 0]]
<1>1. ASSUME NEW r \in Idx(n), NEW c \in Cells, c >= n PROVE v[r][c] \in Field
  <2>1. c \in Right
    BY <1>1, Ground DEF Cells, Idx, Right, Size
  <2> QED
    BY <2>1, KeyPairAssumption
<1>2. rnd_sys_mat(v) \in Codes
  BY <1>1, Ground, SysMatType
<1>3. rnd_sys_mat(v) = Rows(m) /\ m = [r \in DOMAIN m |-> m[r]]
  BY DEF rnd_sys_mat
<1>4. \A r, c \in Idx(n) : c \in Idx(n * n) /\ ~(c >= n)
  BY Ground DEF Idx, Area
<1>5. \A r, c \in Idx(n) : m[r][c] = IF c = r THEN 1 ELSE 0
  BY <1>4
<1> HIDE DEF m
<1> QED
  BY <1>2, <1>3, <1>5, RowsIs DEF Systematic

\* The invariant holds in the beginning,
LEMMA KeyInit == Init => KeyInv
<1>1. 0 \in Field
  BY Ground, FieldInt
<1> QED
  BY <1>1, StartIs DEF Init, KeyInv

\* where nothing changes,
LEMMA KeySame ==
    ASSUME KeyInv, UNCHANGED <<pc, mats>>
    PROVE  KeyInv'
BY DEF KeyInv, mats, G0prime, Written, Opened, Cell

\* after a failed attempt,
LEMMA KeyAgain ==
    ASSUME KeyInv, pc \notin {"field"}, Again
    PROVE  KeyInv'
<1>1. 0 \in Field
  BY Ground, FieldInt
<1> QED
  BY <1>1 DEF KeyInv, Again

\* and after every step.
LEMMA KeyStep == KeyInv /\ [Next]_vars => KeyInv'
<1> SUFFICES ASSUME KeyInv, [Next]_vars PROVE KeyInv'
  OBVIOUS
<1>1. CASE RedoTi
  BY <1>1, KeySame DEF RedoTi, vars
<1>2. CASE DrawTi
  BY <1>2, Ground, KeyPairAssumption DEF KeyInv, DrawTi
<1>3. CASE NoSol \/ NoInv \/ NotSyst
  BY <1>3, KeyAgain DEF NoSol, NoInv, NotSyst
<1>4. CASE Solve
  <2> USE <1>4 DEF Solve
  <2>1. G0prime' = G0prime
    BY DEF G0prime
  <2> QED
    BY <2>1 DEF KeyInv
<1>5. CASE Invert
  <2>1. G0prime' = G0prime
    BY <1>5 DEF Invert, G0prime
  <2> QED
    BY <1>5, <2>1 DEF KeyInv, Invert
<1>6. CASE Found
  <2>1. G0prime' = G0prime
    BY <1>6 DEF Found, G0prime
  <2> QED
    BY <1>6, <2>1 DEF KeyInv, Found
<1>7. CASE WritePk
  <2>1. G0prime' = G0prime /\ Written' = Written
    BY <1>7 DEF WritePk, G0prime, Written
  <2> QED
    BY <1>7, <2>1 DEF KeyInv, WritePk
<1>8. CASE ReadPk
  <2>1. G0prime' = G0prime /\ Written' = Written /\ Opened' = Opened
    BY <1>8 DEF ReadPk, G0prime, Written, Opened, Cell
  <2> QED
    BY <1>8, <2>1 DEF KeyInv, ReadPk
<1>9. CASE NextElement
  BY <1>9, KeySame DEF NextElement
<1>10. CASE Done \/ UNCHANGED vars
  BY <1>10, KeySame DEF Done, vars
<1> QED
  BY <1>1, <1>2, <1>3, <1>4, <1>5, <1>6, <1>7, <1>8, <1>9, <1>10 DEF Next

\* What a buffer holds is what the calls before it returned.
THEOREM KeyInvariant == Spec => []KeyInv
<1> QED
  BY KeyInit, KeyStep, PTL DEF Spec

-----------------------------------------------------------------------------
\* The properties follow.

\* The buffers are matrices over the field.
LEMMA KeyTypes ==
    ASSUME KeyInv
    PROVE  /\ pc \notin {"field", "Ti"} => G0prime \in Codes
           /\ pc \in {"inv", "pi", "pk", "open", "done"} => A \in Squares /\ B_inv \in Squares
           /\ pc \in {"pi", "pk", "open", "done"} => A_inv \in Squares /\ B \in Squares /\ pi(A, B, G0) \in Codes
           /\ pc \in {"pk", "open", "done"} =>
                  /\ G \in Codes /\ Systematic(G, MEDS_n)
                  /\ Span(Cells, G) = Span(Cells, pi(A, B, G0))
<1>1. ASSUME pc \notin {"field", "Ti"} PROVE G0prime \in Codes
  <2>1. Ti \in Matrices(MEDS_n, MEDS_n) /\ G0 \in Matrices(MEDS_n, MEDS_n * MEDS_n) /\ MEDS_n * MEDS_n \in Nat
    BY <1>1, Ground DEF KeyInv, Squares, Codes
  <2> QED
    BY <2>1, Ground, MulIs DEF G0prime, Codes
<1>2. ASSUME pc \in {"inv", "pi", "pk", "open", "done"} PROVE A \in Squares /\ B_inv \in Squares
  <2>1. G0prime \in Codes /\ Amm \in Field
    BY <1>1, <1>2 DEF KeyInv
  <2>2. /\ solve(G0prime, Amm).ret = 0
        /\ A = solve(G0prime, Amm).sol.A /\ B_inv = solve(G0prime, Amm).sol.B_inv
    BY <1>2 DEF KeyInv
  <2> QED
    BY <2>1, <2>2, Ground, SolveType
<1>3. ASSUME pc \in {"pi", "pk", "open", "done"} PROVE A_inv \in Squares /\ B \in Squares /\ pi(A, B, G0) \in Codes
  <2>1. A \in Squares /\ B_inv \in Squares
    BY <1>2, <1>3
  <2>2. B = pmod_mat_inv(B_inv).mat /\ A_inv = pmod_mat_inv(A).mat /\ G0 \in Codes
    BY <1>3 DEF KeyInv
  <2>3. A_inv \in Squares /\ B \in Squares
    BY <2>1, <2>2, Ground, InvIs DEF Squares
  <2> QED
    BY <2>1, <2>2, <2>3, Ground, PiIs
<1>4. ASSUME pc \in {"pk", "open", "done"}
      PROVE  G \in Codes /\ Systematic(G, MEDS_n) /\ Span(Cells, G) = Span(Cells, pi(A, B, G0))
  <2>1. PICK X \in Codes : X = pi(A, B, G0)
    BY <1>3, <1>4
  <2>2. pmod_mat_syst_ct(X, MEDS_n).ret = 0 /\ G = pmod_mat_syst_ct(X, MEDS_n).mat
    BY <1>4, <2>1 DEF KeyInv
  <2> QED
    BY <2>1, <2>2, Ground, FormIs
<1> QED
  BY <1>1, <1>2, <1>3, <1>4

\* What is written are entries of G, and so are those that are read back.
LEMMA OpenedType ==
    ASSUME KeyInv, pc = "done"
    PROVE  Gopen \in [Idx(MEDS_n) -> [Idx(Area) -> Field]]
<1>1. G \in Codes /\ pk = Written /\ Gopen = Opened
  BY KeyTypes DEF KeyInv
<1>2. \A r \in Idx(MEDS_n), c \in Idx(Area) : G[r][c] \in Field
  BY <1>1, Ground DEF Codes, Matrices, Mat, Vec
<1>3. ASSUME NEW r \in Idx(MEDS_n), NEW c \in Idx(Area) PROVE Cell(r, c) \in Field
  <2>1. 0 \in Field /\ 1 \in Field
    BY Ground, FieldInt
  <2>2. ASSUME r = 1, c >= Area - MEDS_n PROVE pk.row1[c] = G[1][c]
    BY <1>1, <2>2, Ground DEF Written, Idx
  <2>3. ASSUME r # 0, r # 1, c >= MEDS_n PROVE pk.rest[r][c] = G[r][c]
    BY <1>1, <2>3, Ground DEF Written, Idx, Right, Area
  <2> QED
    BY <1>2, <2>1, <2>2, <2>3 DEF Cell
<1> QED
  BY <1>1, <1>3 DEF Opened

\* Conjunct by conjunct.
LEMMA KeyTypeOK == KeyInv => TypeOK
<1> SUFFICES ASSUME KeyInv PROVE TypeOK
  OBVIOUS
<1>1. pc \in {"Ti", "solve", "inv", "pi", "pk", "open", "done", "field"} /\ Amm \in Field
  BY DEF KeyInv
<1> QED
  BY <1>1, KeyTypes, OpenedType, Ground DEF TypeOK

\* rnd_inv_matrix keeps exactly the draws that are invertible.
LEMMA KeyKeepsInvertible == KeyInv => KeepsInvertible
<1>1. ASSUME NEW D \in Draws PROVE KeepsDraw(D) = Regular(D)
  <2>1. D \in Squares
    BY KeyPairAssumption, Ground
  <2>2. KeepsDraw(D) <=> Full(MEDS_n, D)
    BY <2>1, Ground, FullIs DEF Squares
  <2>3. Regular(D) <=> Full(MEDS_n, D)
    BY <2>1, RegularIs
  <2>4. KeepsDraw(D) \in BOOLEAN /\ Regular(D) \in BOOLEAN
    BY DEF KeepsDraw, Regular
  <2> QED
    BY <2>2, <2>3, <2>4
<1> QED
  BY <1>1 DEF KeepsInvertible

\* FormExact for pi(A, B, G0).
LEMMA KeySystIsExact == KeyInv => SystIsExact
<1> SUFFICES ASSUME KeyInv, pc = "pi" PROVE SystIsExact
  BY DEF SystIsExact
<1>1. PICK X \in Codes : X = pi(A, B, G0)
  BY KeyTypes
<1> DEFINE s == pmod_mat_syst_ct(X, MEDS_n)
<1>2. X \in Matrices(MEDS_n, Area) /\ Area \in Nat /\ MEDS_n <= Area
  BY Ground DEF Codes
<1>3. s.mat \in Codes /\ s.mat \in Matrices(MEDS_n, Area)
  BY Ground, FormIs DEF Codes
<1>4. /\ s.ret = 0 <=> Full(MEDS_n, LeftOf(X, MEDS_n))
      /\ s.ret = 0 => /\ LeftOf(s.mat, MEDS_n) = One(MEDS_n)
                      /\ \A r \in Idx(MEDS_n) : RowTimes(MEDS_n, Area, LeftOf(X, MEDS_n)[r], s.mat) = X[r]
  BY <1>2, Ground, FormExact
<1> HIDE DEF s
<1>5. Left(X) = LeftOf(X, MEDS_n) /\ Left(X) \in Squares /\ Left(s.mat) = LeftOf(s.mat, MEDS_n)
  BY <1>3, NamesAre
<1>6. (s.ret = 0) <=> Regular(Left(X))
  BY <1>4, <1>5, RegularIs
<1>7. ASSUME s.ret = 0 PROVE Left(s.mat) = Identity /\ Product(Left(X), s.mat) = X
  <2>1. Product(Left(X), s.mat) = [r \in Idx(MEDS_n) |-> RowTimes(MEDS_n, Area, Left(X)[r], s.mat)]
    BY <1>2, <1>3, <1>5, ProductIs
  <2>2. X = [r \in Idx(MEDS_n) |-> X[r]]
    BY <1>2 DEF Matrices, Mat
  <2>3. Product(Left(X), s.mat) = X
    BY <1>4, <1>5, <1>7, <2>1, <2>2
  <2> QED
    BY <1>4, <1>5, <1>7, <2>3, NamesAre
<1>8. (s.ret = 0) = Regular(Left(X))
  <2>1. (s.ret = 0) \in BOOLEAN /\ Regular(Left(X)) \in BOOLEAN
    BY DEF Regular
  <2> QED
    BY <1>6, <2>1
<1> QED
  BY <1>1, <1>7, <1>8 DEF SystIsExact, s

\* A systematic code is its own systematic form.
LEMMA FormOwn ==
    ASSUME NEW X \in Codes, Systematic(X, MEDS_n)
    PROVE  pmod_mat_syst_ct(X, MEDS_n).ret = 0 /\ pmod_mat_syst_ct(X, MEDS_n).mat = X
<1> DEFINE s == pmod_mat_syst_ct(X, MEDS_n)
<1>1. /\ s.ret \in {0, -1} /\ s.mat \in Codes
      /\ Span(Cells, s.mat) = Span(Cells, X)
      /\ s.ret = 0 => Systematic(s.mat, MEDS_n)
  BY Ground, FormIs
<1>2. X \in Matrices(MEDS_n, Area) /\ Area \in Nat /\ MEDS_n <= Area /\ MEDS_n \in Nat /\ MEDS_n \in Nat \ {0}
      /\ Cells = Idx(Area)
  BY Ground DEF Codes
<1>3. LeftOf(X, MEDS_n) = [r \in Idx(MEDS_n) |-> [c \in Idx(MEDS_n) |-> X[r][c]]]
  BY <1>2, LeftOfIs
<1>4. LeftOf(X, MEDS_n) = One(MEDS_n)
  BY <1>3 DEF Systematic, One
<1>5. s.ret = 0
  BY <1>2, <1>4, Ground, OneFull, FormExact
<1> HIDE DEF s
<1>6. s.mat \in Matrices(MEDS_n, Area)
  BY <1>1, Ground DEF Codes
<1>7. s.mat = X
  BY <1>1, <1>2, <1>5, <1>6, Ground, SystUnique
<1> QED
  BY <1>5, <1>7 DEF s

\* pi with the inverses leads back to a code with the span of G[0], which has one
\* systematic form.
LEMMA KeyKeyInverts == KeyInv => KeyInverts
<1> SUFFICES ASSUME KeyInv, pc = "pk" PROVE KeyInverts
  BY DEF KeyInverts
<1>1. /\ A \in Squares /\ B_inv \in Squares /\ A_inv \in Squares /\ B \in Squares
      /\ pi(A, B, G0) \in Codes /\ G \in Codes /\ Span(Cells, G) = Span(Cells, pi(A, B, G0))
      /\ G0 \in Codes /\ Systematic(G0, MEDS_n)
  BY KeyTypes DEF KeyInv
<1>2. /\ pmod_mat_inv(B_inv).ret = 0 /\ B = pmod_mat_inv(B_inv).mat
      /\ pmod_mat_inv(A).ret = 0 /\ A_inv = pmod_mat_inv(A).mat
  BY DEF KeyInv
<1>3. /\ pmod_mat_mul(A, A_inv) = One(MEDS_n) /\ pmod_mat_mul(A_inv, A) = One(MEDS_n)
      /\ pmod_mat_mul(B_inv, B) = One(MEDS_n) /\ pmod_mat_mul(B, B_inv) = One(MEDS_n)
  BY <1>1, <1>2, Ground, InvIs DEF Squares
<1>4. Product(A, A_inv) = Identity /\ Product(B_inv, B) = Identity
  <2>1. MEDS_n \in Nat /\ A_inv \in Matrices(MEDS_n, MEDS_n) /\ B \in Matrices(MEDS_n, MEDS_n)
    BY <1>1, Ground DEF Squares
  <2> QED
    BY <1>1, <1>3, <2>1, ProductIs, NamesAre
<1>5. PICK X \in Codes : X = pi(A_inv, B_inv, G)
  BY <1>1, Ground, PiIs
<1>6. Span(Cells, X) = Span(Cells, pi(A_inv, B_inv, pi(A, B, G0)))
  BY <1>1, <1>5, Ground, PiSpan
<1>7. pi(A_inv, B_inv, pi(A, B, G0)) = G0
  BY <1>1, <1>3, Ground, PiTwice, PiOne
<1>8. pmod_mat_syst_ct(X, MEDS_n).mat = G0
  BY <1>1, <1>6, <1>7, Ground, FormOwn, FormSame
<1> QED
  BY <1>4, <1>5, <1>8 DEF KeyInverts

\* The set solve is measured against holds the matrices that solve the system.
LEMMA SolutionsAre ==
    ASSUME NEW P0 \in Squares, NEW P1 \in Squares, NEW a \in Field
    PROVE  Solutions(P0, P1, a) = {X \in Squares : Solves(P0, P1, a, X)}
<1> DEFINE n == MEDS_n
           l == MEDS_n - 1
           mix(v, Y) == [r \in Idx(n) |-> IF r = l THEN v ELSE Y[r]]
<1>0. /\ n \in Nat \ {0} /\ n \in Nat /\ l \in Idx(n) /\ l \notin Idx(l)
      /\ \A r \in Idx(l) : r \in Idx(n) /\ r + 1 \in Idx(n) /\ r # l
      /\ \A r \in Idx(n) : r = l \/ r \in Idx(l)
      /\ Vectors = Vec(Idx(n)) /\ P0 \in Matrices(n, n) /\ P1 \in Matrices(n, n)
  BY Ground DEF Idx, Squares
<1>1. ASSUME NEW v \in Vec(Idx(n))
      PROVE  /\ Times(v, P0) = RowTimes(n, n, v, P0) /\ Times(v, P1) = RowTimes(n, n, v, P1)
             /\ \A c \in Idx(n) : Times(v, P1)[c] = Entry(n, v, P1, c)
  <2>1. Times(v, P0) = RowTimes(n, n, v, P0) /\ Times(v, P1) = RowTimes(n, n, v, P1)
    BY <1>0, TimesIs
  <2> QED
    BY <2>1 DEF RowTimes
<1>2. ASSUME NEW v \in Vec(Idx(n))
      PROVE  v \in LastRows(P1, a) <=> v[l] = a /\ \A c \in Idx(l) : Entry(n, v, P1, c) = 0
  BY <1>0, <1>1 DEF LastRows
<1>3. ASSUME NEW X \in Squares PROVE \A r \in Idx(n) : X[r] \in Vec(Idx(n))
  BY <1>0, MatrixIs DEF Squares
<1>4. ASSUME NEW X \in Squares
      PROVE  Solves(P0, P1, a, X) <=> /\ X[l] \in LastRows(P1, a)
                                      /\ \A r \in Idx(l) : Times(X[r], P1) = Times(X[r + 1], P0)
  <2>1. \A r \in Idx(l) : (Times(X[r], P1) = Times(X[r + 1], P0)) <=> (RowTimes(n, n, X[r], P1) = RowTimes(n, n, X[r + 1], P0))
    BY <1>0, <1>1, <1>3
  <2>2. X[l] \in LastRows(P1, a) <=> X[l][l] = a /\ \A c \in Idx(l) : Entry(n, X[l], P1, c) = 0
    BY <1>0, <1>2, <1>3
  <2> QED
    BY <2>1, <2>2 DEF Solves
<1>5. ASSUME NEW X \in Solutions(P0, P1, a) PROVE X \in Squares /\ Solves(P0, P1, a, X)
  <2>1. PICK v \in LastRows(P1, a), Y \in [Idx(l) -> Vectors] : X = mix(v, Y)
    BY <1>5 DEF Solutions
  <2>2. v \in Vec(Idx(n))
    BY <1>0 DEF LastRows
  <2>3. X \in Squares /\ X[l] = v
    BY <1>0, <2>1, <2>2 DEF Squares, Matrices, Mat
  <2>4. \A r \in Idx(l) : Times(X[r], P1) = Times(X[r + 1], P0)
    BY <1>5 DEF Solutions
  <2> QED
    BY <1>4, <2>3, <2>4
<1>6. ASSUME NEW X \in Squares, Solves(P0, P1, a, X) PROVE X \in Solutions(P0, P1, a)
  <2>1. PICK v \in LastRows(P1, a) : v = X[l]
    BY <1>4, <1>6
  <2>2. PICK Y \in [Idx(l) -> Vectors] : Y = [r \in Idx(l) |-> X[r]]
    BY <1>0, <1>3
  <2>3. X = mix(v, Y)
    <3>1. X = [r \in Idx(n) |-> X[r]]
      BY DEF Squares, Matrices, Mat
    <3>2. \A r \in Idx(n) : X[r] = IF r = l THEN v ELSE Y[r]
      BY <1>0, <2>1, <2>2
    <3> QED
      BY <3>1, <3>2
  <2>4. \A r \in Idx(l) : Times(X[r], P1) = Times(X[r + 1], P0)
    BY <1>4, <1>6
  <2> QED
    BY <2>3, <2>4 DEF Solutions
<1> QED
  BY <1>5, <1>6

\* Where a set of squares does not have one element, Cardinality says so.
LEMMA SquaresFinite == IsFiniteSet(Squares)
<1>1. MEDS_n \in Nat /\ IsFiniteSet(Vec(Idx(MEDS_n)))
  BY Ground, VecFinite
<1>2. Squares = [Idx(MEDS_n) -> Vec(Idx(MEDS_n))]
  BY DEF Squares, Matrices, Mat
<1> QED
  BY <1>1, <1>2, RowsFinite

\* The two squares solve is given.
LEMMA KeyRows ==
    ASSUME KeyInv, pc \notin {"field", "Ti"}
    PROVE  Square(G0prime[0]) \in Squares /\ Square(G0prime[1]) \in Squares /\ Amm \in Field /\ 1 \in Idx(MEDS_n)
<1>1. G0prime \in Codes /\ Amm \in Field
  BY KeyTypes DEF KeyInv
<1>2. 0 \in Idx(MEDS_n) /\ 1 \in Idx(MEDS_n) /\ MEDS_n \in Nat \ {0} /\ MEDS_n * MEDS_n \in Nat
  BY Ground DEF Idx, Size
<1>3. \A r \in Idx(MEDS_n) : G0prime[r] \in Vec(Cells)
  BY <1>1, <1>2, Ground, MatrixIs DEF Codes
<1> QED
  BY <1>1, <1>2, <1>3, Ground, SquareIs

\* What solve returns, in the words of SolveFinds.
LEMMA SolveReturns ==
    ASSUME NEW GG, NEW a \in Field, Square(GG[0]) \in Squares, Square(GG[1]) \in Squares
    PROVE  LET P0 == Square(GG[0])
               P1 == Square(GG[1])
               M  == SystemEliminated(P0, P1, a)
               s  == solve(GG, a)
           IN  /\ s.ret = 0 <=> SystemReduced(P0, P1, a).ret = 0 /\ M[MEDS_n - 1][MEDS_n - 1] # 0
               /\ s.ret = 0 => s.sol = Solution(SubstituteLast(NormalizeLast(M)), P0, a)
<1>1. PICK P0 \in Squares, P1 \in Squares : P0 = Square(GG[0]) /\ P1 = Square(GG[1])
  OBVIOUS
<1>2. SystemReduced(P0, P1, a).ret \in {0, -1}
  <2>1. PICK X \in Systems : X = SolveMatrix(P0, P1, a)
    BY Ground, SolveMatrixType
  <2> QED
    BY <2>1, Ground, SystemForm DEF SystemReduced
<1> DEFINE M == SystemEliminated(P0, P1, a)
<1>3. solve(GG, a) = IF SystemReduced(P0, P1, a).ret < 0 THEN NoSolution
                     ELSE IF M[MEDS_n - 1][MEDS_n - 1] = 0 THEN NoSolution
                     ELSE [ret |-> 0, sol |-> Solution(SubstituteLast(NormalizeLast(M)), P0, a)]
  BY <1>1 DEF solve, SystemReduced, SystemEliminated
<1>4. NoSolution.ret # 0
  BY DEF NoSolution
<1> HIDE DEF M
<1> QED
  BY <1>1, <1>2, <1>3, <1>4 DEF M

\* SolveFinds and SolveMisses for the matrices of the attempt.
LEMMA KeySolveIsExact == KeyInv => SolveIsExact
<1> SUFFICES ASSUME KeyInv, pc = "solve" PROVE SolveIsExact
  BY DEF SolveIsExact
<1>1. PICK P0 \in Squares, P1 \in Squares, a \in Field :
          P0 = Square(G0prime[0]) /\ P1 = Square(G0prime[1]) /\ a = Amm
  BY KeyRows
<1> DEFINE M == SystemEliminated(P0, P1, a)
           s == solve(G0prime, a)
           S == Solution(SubstituteLast(NormalizeLast(M)), P0, a)
           All == Solutions(P0, P1, a)
<1>2. /\ s.ret = 0 <=> SystemReduced(P0, P1, a).ret = 0 /\ M[MEDS_n - 1][MEDS_n - 1] # 0
      /\ s.ret = 0 => s.sol = S
  BY <1>1, SolveReturns
<1>3. All = {X \in Squares : Solves(P0, P1, a, X)}
  BY SolutionsAre
<1> HIDE DEF s, All
<1>4. ASSUME s.ret = 0 PROVE All = {s.sol.A} /\ s.sol.B_inv = Product(s.sol.A, P0)
  <2>1. S.A \in Squares /\ \A X \in Squares : Solves(P0, P1, a, X) <=> X = S.A
    BY <1>2, <1>4, Ground, SolveFinds
  <2>2. PICK Z \in Systems : Z = SubstituteLast(NormalizeLast(M))
    <3>1. PICK Y \in Systems : Y = SolveMatrix(P0, P1, a)
      BY Ground, SolveMatrixType
    <3> QED
      BY <1>2, <1>4, <3>1, Ground, SystemSolved DEF SystemReduced, SystemEliminated
  <2>3. S.B_inv = pmod_mat_mul(S.A, P0)
    BY <2>2, Ground, SolutionIs
  <2>4. Product(S.A, P0) = pmod_mat_mul(S.A, P0)
    BY <2>1, Ground, ProductIs DEF Squares
  <2> HIDE DEF S
  <2> QED
    BY <1>2, <1>3, <1>4, <2>1, <2>3, <2>4
<1>5. ASSUME s.ret # 0 PROVE Cardinality(All) # 1
  <2>1. \A X \in All : \E Y \in All : Y # X
    BY <1>2, <1>3, <1>5, Ground, SolveMisses
  <2>2. IsFiniteSet(All)
    BY <1>3, SquaresFinite, FS_Subset
  <2> QED
    BY <2>1, <2>2, FS_Singleton
<1> QED
  BY <1>1, <1>4, <1>5 DEF SolveIsExact, s, All

\* The rows of the public key that are not written.
LEMMA KeyUnwritten ==
    ASSUME KeyInv, pc = "done"
    PROVE  /\ \A c \in Cells : G[0][c] = IF c \div MEDS_n = c % MEDS_n THEN 1 ELSE 0
           /\ \A c \in Cells : c < Area - MEDS_n =>
                  G[1][c] = IF c \div MEDS_n + 1 = c % MEDS_n THEN 1 ELSE 0
<1> DEFINE n == MEDS_n
<1>0. /\ n \in Nat \ {0} /\ n \in Nat /\ Modulus /\ IsField(MEDS_p) /\ Size
      /\ Area \in Nat /\ n <= Area /\ Idx(Area) = Cells /\ Codes = Matrices(n, Area) /\ Squares = Matrices(n, n)
      /\ 0 \in Idx(n) /\ 1 \in Idx(n)
  BY Ground DEF Codes, Squares, Idx, Size
<1>1. PICK H \in Codes, X \in Squares, W \in Squares, P0 \in Squares, P1 \in Squares, a \in Field :
          /\ H = G0prime /\ X = A /\ W = B /\ P0 = Square(H[0]) /\ P1 = Square(H[1]) /\ a = Amm
  BY KeyTypes, KeyRows
<1>2. G \in Codes /\ Systematic(G, n) /\ Span(Cells, G) = Span(Cells, pi(X, W, G0)) /\ G0 \in Codes
  BY <1>1, KeyTypes DEF KeyInv
<1>3. Solves(P0, P1, a, X) /\ pmod_mat_mul(X, P0) = B_inv
  <2> DEFINE M == SystemEliminated(P0, P1, a)
             S == Solution(SubstituteLast(NormalizeLast(M)), P0, a)
  <2>1. solve(H, a).ret = 0 /\ X = solve(H, a).sol.A /\ B_inv = solve(H, a).sol.B_inv
    BY <1>1 DEF KeyInv
  <2>2. SystemReduced(P0, P1, a).ret = 0 /\ M[n - 1][n - 1] # 0 /\ solve(H, a).sol = S
    BY <1>1, <2>1, SolveReturns
  <2>3. S.A \in Squares /\ Solves(P0, P1, a, S.A)
    BY <1>0, <2>2, SolveFinds
  <2>4. PICK Z \in Systems : Z = SubstituteLast(NormalizeLast(M))
    <3>1. PICK Y \in Systems : Y = SolveMatrix(P0, P1, a)
      BY <1>0, SolveMatrixType
    <3> QED
      BY <1>0, <2>2, <3>1, SystemSolved DEF SystemReduced, SystemEliminated
  <2>5. S.B_inv = pmod_mat_mul(S.A, P0)
    BY <1>0, <2>4, SolutionIs
  <2> HIDE DEF S
  <2> QED
    BY <2>1, <2>2, <2>3, <2>5
<1>4. pmod_mat_mul(pmod_mat_mul(X, P0), W) = One(n)
  <2>1. B_inv \in Matrices(n, n) /\ pmod_mat_inv(B_inv).ret = 0 /\ W = pmod_mat_inv(B_inv).mat
    BY <1>0, <1>1, KeyTypes DEF KeyInv
  <2> QED
    BY <1>0, <1>3, <2>1, InvIs
<1>5. ASSUME NEW r \in Idx(n) PROVE PiRow(X, W, H[r]) \in Span(Cells, G) /\ H[r] \in Vec(Cells)
  <2>1. Span(Cells, H) \subseteq Span(Cells, G0)
    <3>1. Ti \in Squares
      BY DEF KeyInv
    <3> QED
      BY <1>0, <1>1, <1>2, <3>1, ProductInside DEF G0prime
  <2>2. Span(Cells, pi(X, W, H)) \subseteq Span(Cells, G)
    BY <1>0, <1>2, <2>1, PiSpanIn
  <2>3. PICK Y \in Codes : Y = pi(X, W, H) /\ Y[r] = PiRow(X, W, H[r]) /\ H[r] \in Vec(Cells)
    BY <1>0, PiIs
  <2>4. Y[r] \in Span(Cells, Y)
    <3>1. Y \in Mat(Idx(n), Cells) /\ DOMAIN Y = Idx(n)
      BY <1>0 DEF Matrices, Mat
    <3> QED
      BY <3>1, SpanHolds DEF Holds
  <2> QED
    BY <2>2, <2>3, <2>4
<1>6. /\ \A c \in Cells : c \div n \in Idx(n) /\ c % n \in Idx(n)
      /\ \A c \in Idx(n) : c \in Cells /\ c \div n = 0 /\ c % n = c
      /\ \A c \in Cells : c < Area - n => c \div n \in Idx(n - 1)
      /\ \A c \in Idx(n) : c < Area - n
  <2>1. ASSUME NEW c \in Idx(n) PROVE c \in Cells /\ c \div n = 0 /\ c % n = c
    <3>1. 0 * n + c = c
      BY <1>0 DEF Idx
    <3> QED
      BY <1>0, <3>1, PlaceIs DEF Cells
  <2>2. ASSUME NEW c \in Cells PROVE c \div n \in Idx(n) /\ c % n \in Idx(n)
    BY <1>0, PlaceOf DEF Cells
  <2>3. ASSUME NEW c \in Cells, c < Area - n PROVE c \div n \in Idx(n - 1)
    <3>1. PICK q \in Idx(n), m \in Idx(n) : q = c \div n /\ m = c % n /\ q * n + m = c
      BY <1>0, PlaceOf DEF Cells
    <3>2. q # n - 1
      <4> SUFFICES ASSUME q = n - 1 PROVE FALSE
        OBVIOUS
      <4>1. (n - 1) * n = n * n - n
        BY <1>0
      <4>2. c = n * n - n + m
        BY <3>1, <4>1
      <4> QED
        BY <1>0, <2>3, <4>2, Ground DEF Idx
    <3> QED
      BY <1>0, <3>1, <3>2 DEF Idx
  <2>4. ASSUME NEW c \in Idx(n) PROVE c < Area - n
    <3>1. n * n - n >= n
      <4>1. n \in Nat /\ n >= 2
        BY <1>0 DEF Size
      <4>2. PICK k \in Nat : n = k + 2
        <5>1. n - 2 \in Nat /\ n = (n - 2) + 2
          BY <4>1
        <5> QED
          BY <5>1
      <4>3. n * n - n = k * k + 3 * k + 2 /\ k * k \in Nat
        BY <4>2
      <4> QED
        BY <4>2, <4>3
    <3> QED
      BY <1>0, <3>1, Ground DEF Idx
  <2> QED
    BY <2>1, <2>2, <2>3, <2>4
\* Row 0.
<1>7. ASSUME NEW c \in Cells PROVE G[0][c] = IF c \div n = c % n THEN 1 ELSE 0
  <2>1. PICK w \in Span(Cells, G) : w = PiRow(X, W, H[0])
    BY <1>0, <1>5
  <2>2. w = Flat(One(n))
    BY <1>1, <1>4, <2>1 DEF PiRow
  <2>3. \A d \in Cells : w[d] = One(n)[d \div n][d % n]
    BY <1>0, <2>2, OneIs, FlatIs
  <2>4. \A d \in Cells : w[d] = IF d \div n = d % n THEN 1 ELSE 0
    BY <1>6, <2>3 DEF One
  <2>5. \A j \in Idx(n) : w[j] = IF j = 0 THEN 1 ELSE 0
    BY <1>6, <2>4
  <2>6. w = G[0]
    BY <1>0, <1>2, <2>5, SystRowIs
  <2> QED
    BY <2>4, <2>6
\* Row 1.
<1>8. ASSUME NEW c \in Cells, c < Area - n PROVE G[1][c] = IF c \div n + 1 = c % n THEN 1 ELSE 0
  <2>1. PICK w \in Span(Cells, G) : w = PiRow(X, W, H[1])
    BY <1>0, <1>5
  <2>2. PICK U \in Squares : U = pmod_mat_mul(pmod_mat_mul(X, P1), W) /\ w = Flat(U)
    <3>1. PICK u \in Vec(Cells) : u = H[1]
      BY <1>0, <1>5
    <3>2. pmod_mat_mul(pmod_mat_mul(X, Square(u)), W) \in Squares
      BY <1>0, PiRowIs
    <3> QED
      BY <1>1, <2>1, <3>1, <3>2 DEF PiRow
  <2>3. \A r \in Idx(n - 1) : U[r] = One(n)[r + 1]
    BY <1>0, <1>3, <1>4, <2>2, SolvedSquares
  <2>4. \A d \in Cells : w[d] = U[d \div n][d % n]
    BY <1>0, <2>2, FlatIs
  <2>5. ASSUME NEW d \in Cells, d < Area - n PROVE w[d] = IF d \div n + 1 = d % n THEN 1 ELSE 0
    <3>1. PICK q \in Idx(n - 1), m \in Idx(n) : q = d \div n /\ m = d % n
      BY <1>6, <2>5
    <3>2. PICK t \in Idx(n) : t = q + 1
      <4>1. q + 1 \in Idx(n)
        BY <1>0 DEF Idx
      <4> QED
        BY <4>1
    <3>3. w[d] = U[q][m] /\ U[q] = One(n)[t]
      BY <2>3, <2>4, <3>1, <3>2
    <3>4. One(n)[t][m] = IF t = m THEN 1 ELSE 0
      BY DEF One
    <3> QED
      BY <3>1, <3>2, <3>3, <3>4
  <2>6. ASSUME NEW j \in Idx(n) PROVE w[j] = IF j = 1 THEN 1 ELSE 0
    BY <1>6, <2>5
  <2>7. w = G[1]
    BY <1>0, <1>2, <2>6, SystRowIs
  <2> QED
    BY <1>8, <2>5, <2>7
<1> QED
  BY <1>7, <1>8

\* The rest of the entries are written or those of the identity.
LEMMA KeyPkHoldsG == KeyInv => PkHoldsG
<1> SUFFICES ASSUME KeyInv, pc = "done" PROVE Gopen = G
  BY DEF PkHoldsG
<1>0. MEDS_n \in Nat \ {0} /\ Area \in Nat /\ MEDS_n <= Area /\ Idx(Area) = Cells /\ Area = MEDS_n * MEDS_n
  BY Ground
<1>1. G \in Codes /\ Systematic(G, MEDS_n) /\ pk = Written /\ Gopen = Opened
  BY KeyTypes DEF KeyInv
<1>2. ASSUME NEW r \in Idx(MEDS_n), NEW c \in Idx(Area) PROVE Cell(r, c) = G[r][c]
  <2>1. CASE r = 0
    BY <1>0, <2>1, KeyUnwritten DEF Cell
  <2>2. CASE r = 1
    <3>1. ASSUME c >= Area - MEDS_n PROVE pk.row1[c] = G[1][c]
      BY <1>0, <1>1, <3>1 DEF Written, Idx
    <3>2. ASSUME ~(c >= Area - MEDS_n)
          PROVE  G[1][c] = IF c \div MEDS_n + 1 = c % MEDS_n THEN 1 ELSE 0
      <4>1. c \in Cells /\ c < Area - MEDS_n
        BY <1>0, <3>2 DEF Idx
      <4> QED
        BY <4>1, KeyUnwritten
    <3> QED
      BY <2>2, <3>1, <3>2 DEF Cell
  <2>3. CASE r # 0 /\ r # 1
    <3>1. ASSUME c >= MEDS_n PROVE pk.rest[r][c] = G[r][c]
      BY <1>0, <1>1, <2>3, <3>1 DEF Written, Idx, Right
    <3>2. ASSUME ~(c >= MEDS_n) PROVE G[r][c] = IF r = c THEN 1 ELSE 0
      BY <1>0, <1>1, <3>2 DEF Systematic, Idx
    <3> QED
      BY <2>3, <3>1, <3>2 DEF Cell
  <2> QED
    BY <2>1, <2>2, <2>3
<1>3. G = [r \in Idx(MEDS_n) |-> [c \in Idx(Area) |-> G[r][c]]]
  BY <1>0, <1>1 DEF Codes, Matrices, Mat, Vec
<1> QED
  BY <1>1, <1>2, <1>3 DEF Opened

-----------------------------------------------------------------------------

\* Wherever the label says that a buffer of crypto_sign_keypair holds a matrix,
\* it is one over the field, and so is what crypto_sign_open makes of the key.
THEOREM KeyTypeInv == Spec => []TypeOK
<1> QED
  BY KeyInvariant, KeyTypeOK, PTL

\* The element that is inverted is one of its field, and not zero.
ElementInv == pc = "field" => prime \in Fields /\ x \in 1..(prime - 1)

LEMMA ElementStep == (Init => ElementInv) /\ (ElementInv /\ [Next]_vars => ElementInv')
<1>1. ASSUME NEW q \in Fields PROVE q \in Nat \ {0, 1} /\ 1 \in 1..(q - 1)
  BY KeyPairAssumption DEF Prime
<1>2. Init => ElementInv
  BY <1>1 DEF Init, ElementInv
<1>3. ASSUME ElementInv, [Next]_vars PROVE ElementInv'
  <2>1. CASE RedoTi
    BY <1>3, <2>1 DEF RedoTi, ElementInv, vars
  <2>2. CASE DrawTi
    BY <1>3, <2>2 DEF DrawTi, ElementInv
  <2>3. CASE NoSol \/ NoInv \/ NotSyst
    BY <1>3, <2>3 DEF NoSol, NoInv, NotSyst, Again, ElementInv
  <2>4. CASE Solve
    BY <1>3, <2>4 DEF Solve, ElementInv
  <2>5. CASE Invert
    BY <1>3, <2>5 DEF Invert, ElementInv
  <2>6. CASE Found
    BY <1>3, <2>6 DEF Found, ElementInv
  <2>7. CASE WritePk \/ ReadPk
    BY <1>3, <2>7 DEF WritePk, ReadPk, ElementInv
  <2>8. CASE NextElement
    <3>1. prime \in Fields /\ x \in 1..(prime - 1) /\ x < prime - 1 /\ x' = x + 1 /\ prime' = prime
      BY <1>3, <2>8 DEF NextElement, ElementInv
    <3>2. prime \in Nat
      BY <1>1, <3>1
    <3> QED
      BY <3>1, <3>2 DEF ElementInv
  <2>9. CASE Done \/ UNCHANGED vars
    BY <1>3, <2>9 DEF Done, ElementInv, vars
  <2> QED
    BY <1>3, <2>1, <2>2, <2>3, <2>4, <2>5, <2>6, <2>7, <2>8, <2>9 DEF Next
<1> QED
  BY <1>2, <1>3

\* GF_inv inverts every element of a prime field that is not zero: by the loop,
\* and for 8191 by its chain of multiplications.
THEOREM KeyField == Spec => []InverseIsInverse
<1>1. Spec => []ElementInv
  BY ElementStep, PTL DEF Spec
<1>2. ElementInv => InverseIsInverse
  BY KeyPairAssumption, PrimeField DEF ElementInv, IsField, InverseIsInverse
<1> QED
  BY <1>1, <1>2, PTL

\* rnd_inv_matrix keeps the draws that are invertible, and no other.
THEOREM KeyDraws == Spec => []KeepsInvertible
<1> QED
  BY KeyInvariant, KeyKeepsInvertible, PTL

\* Whatever was drawn, solve returns the only solution of its system, and gives
\* up only where there is none or more than one: an attempt is never given up
\* for a pivot that merely came out of order.
THEOREM KeySolve == Spec => []SolveIsExact
<1> QED
  BY KeyInvariant, KeySolveIsExact, PTL

\* pmod_mat_syst_ct finds the systematic form of pi(A, B, G[0]) where there is
\* one, and reports the failure where there is none.
THEOREM KeySyst == Spec => []SystIsExact
<1> QED
  BY KeyInvariant, KeySystIsExact, PTL

\* The secret key undoes the public one: pi with the inverses, and the
\* systematic form of that, is G[0] again.
THEOREM KeyUndone == Spec => []KeyInverts
<1> QED
  BY KeyInvariant, KeyKeyInverts, PTL

\* crypto_sign_open works with the G[i] of key generation: the rows left out of
\* the public key are the identity and the shifted identity that it puts back.
THEOREM KeyRead == Spec => []PkHoldsG
<1> QED
  BY KeyInvariant, KeyPkHoldsG, PTL
=============================================================================
