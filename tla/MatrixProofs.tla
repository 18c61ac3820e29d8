---------------------------- MODULE MatrixProofs ----------------------------
(***************************************************************************)
(* The linear algebra behind Matrix, for every prime and every dimension:  *)
(* GF_inv inverts, by Fermat's theorem; the systematic form of a matrix is *)
(* the only one of its code, and the elimination fails where there is      *)
(* none; pmod_mat_inv returns the inverse of what it accepts and accepts   *)
(* whatever has one; pi takes a code to a code, and twice is once with the *)
(* products; what solve returns are matrices over the field.               *)
(*                                                                         *)
(* The loops of Matrix are recursive functions.  What one computes is      *)
(* proved by induction, first-order: what is proved is a set of numbers,   *)
(* and the step of a recursion is a function.                              *)
(***************************************************************************)
EXTENDS Matrix, WellFoundedInduction, FiniteSetTheorems, TLAPS

-----------------------------------------------------------------------------
\* A set of naturals with 0 in it and with n + 1 for every n has them all.
THEOREM Induction ==
    ASSUME NEW S, S \subseteq Nat, 0 \in S, \A n \in S : n + 1 \in S
    PROVE  S = Nat
<1> DEFINE R == OpToRel(<, Nat)
           M == Nat \ S
<1> SUFFICES ASSUME M # {} PROVE FALSE
  OBVIOUS
<1>1. IsWellFoundedOn(R, Nat)
  BY NatLessThanWellFounded
<1>2. \A x, y \in Nat : x < y => <<x, y>> \in R
  BY DEF OpToRel
<1> HIDE DEF R
<1>3. PICK x \in M : \A y \in M : ~(<<y, x>> \in R)
  <2>1. M \subseteq Nat
    OBVIOUS
  <2> HIDE DEF M
  <2>2. QED
    BY <1>1, <2>1, WFMin
<1>4. x - 1 \in Nat /\ x - 1 < x
  OBVIOUS
<1>5. x - 1 \in S
  BY <1>2, <1>3, <1>4
<1>6. QED
  BY <1>3, <1>5

\* f takes c at 0 and goes on by step.
Iterates(f, c, N, step) == f[0] = c /\ \A m \in 1..N : f[m] = step[m][f[m - 1]]

\* A first value and a step have a function on 0 .. N that goes on by them.
THEOREM Recursion ==
    ASSUME NEW V, NEW c \in V, NEW N \in Nat, NEW step \in [1..N -> [V -> V]]
    PROVE  \E f \in [0..N -> V] : Iterates(f, c, N, step)
<1> USE DEF Iterates
<1> DEFINE Upto(f, n) == f[0] = c /\ \A m \in 1..n : f[m] = step[m][f[m - 1]]
           S == {n \in Nat : n <= N => \E f \in [0..n -> V] : Upto(f, n)}
<1>1. 0 \in S
  <2>1. [m \in 0..0 |-> c] \in [0..0 -> V] /\ Upto([m \in 0..0 |-> c], 0)
    OBVIOUS
  <2> HIDE DEF Upto
  <2>2. QED
    BY <2>1
<1>2. ASSUME NEW n \in S PROVE n + 1 \in S
  <2> SUFFICES ASSUME n + 1 <= N PROVE \E f \in [0..(n + 1) -> V] : Upto(f, n + 1)
    OBVIOUS
  <2>1. n \in Nat /\ n + 1 \in 1..N
    OBVIOUS
  <2>2. PICK f \in [0..n -> V] : Upto(f, n)
    BY <1>2, <2>1
  <2> DEFINE last == step[n + 1][f[n]]
             g == [m \in 0..(n + 1) |-> IF m = n + 1 THEN last ELSE f[m]]
  <2>3. last \in V
    BY <2>1
  <2>4. g \in [0..(n + 1) -> V]
    BY <2>1, <2>3
  <2>5. g[n + 1] = last /\ \A m \in 0..n : g[m] = f[m]
    BY <2>1
  <2> HIDE DEF g
  <2>6. g[0] = c
    BY <2>1, <2>2, <2>5
  <2>7. \A m \in 1..(n + 1) : g[m] = step[m][g[m - 1]]
    <3> TAKE m \in 1..(n + 1)
    <3>1. CASE m = n + 1
      BY <2>1, <2>5, <3>1
    <3>2. CASE m # n + 1
      <4>1. m \in 1..n /\ m \in 0..n /\ m - 1 \in 0..n
        BY <2>1, <3>2
      <4>2. QED
        BY <2>2, <2>5, <4>1
    <3>3. QED
      BY <3>1, <3>2
  <2>8. QED
    BY <2>4, <2>6, <2>7
<1>3. S = Nat
  <2>1. S \subseteq Nat
    OBVIOUS
  <2> HIDE DEF S
  <2>2. QED
    BY <1>1, <1>2, <2>1, Induction
<1>4. QED
  BY <1>3

-----------------------------------------------------------------------------
\* The loops of Matrix.

\* What the recursive function of a loop is known for.
LoopEq(g, V, x, n, step) ==
    /\ g = [k \in 0..n |-> g[k]]
    /\ g[0] = x
    /\ \A k \in 1..n : g[k - 1] \in V => g[k] = step[k][g[k - 1]]

LEMMA LoopUnique ==
    ASSUME NEW V, NEW x \in V, NEW n \in Nat, NEW step \in [1..n -> [V -> V]],
           NEW f \in [0..n -> V], Iterates(f, x, n, step),
           NEW g, LoopEq(g, V, x, n, step)
    PROVE  g = f
<1> DEFINE S == {k \in Nat : k <= n => g[k] = f[k]}
<1>1. 0 \in S
  BY DEF Iterates, LoopEq
<1>2. ASSUME NEW k \in S PROVE k + 1 \in S
  <2> SUFFICES ASSUME k + 1 <= n PROVE g[k + 1] = f[k + 1]
    OBVIOUS
  <2>1. k \in Nat /\ k + 1 \in 1..n /\ (k + 1) - 1 = k /\ k \in 0..n
    OBVIOUS
  <2>2. g[k] = f[k]
    BY <1>2, <2>1
  <2>3. g[k + 1] = step[k + 1][f[k]]
    BY <2>1, <2>2 DEF LoopEq
  <2> QED
    BY <2>1, <2>3 DEF Iterates
<1>3. \A k \in 0..n : g[k] = f[k]
  <2>1. S \subseteq Nat
    OBVIOUS
  <2>2. \A k \in 0..n : k \in S => g[k] = f[k]
    OBVIOUS
  <2> HIDE DEF S
  <2>3. S = Nat
    BY <1>1, <1>2, <2>1, Induction
  <2> QED
    BY <2>2, <2>3
<1>4. g = [k \in 0..n |-> g[k]] /\ f = [k \in 0..n |-> f[k]]
  BY DEF LoopEq
<1> QED
  BY <1>3, <1>4

LEMMA LoopValues ==
    ASSUME NEW V, NEW x \in V, NEW n \in Nat, NEW step \in [1..n -> [V -> V]]
    PROVE  \E f \in [0..n -> V] : /\ Iterates(f, x, n, step)
                                  /\ \A g : LoopEq(g, V, x, n, step) => g = f
BY Recursion, LoopUnique

-----------------------------------------------------------------------------
\* Integers modulo p.

Residues(p)   == 0..(p - 1)
Mult(p, a, b) == (a * b) % p

\* What makes the residues modulo p a field for this code.
IsField(p) ==
    /\ p \in Nat \ {0, 1}
    /\ \A x \in 1..(p - 1) : InverseIn(p, x) \in 0..(p - 1) /\ (x * InverseIn(p, x)) % p = 1

LEMMA RestIs ==
    ASSUME NEW p \in Nat \ {0, 1}, NEW x \in Int
    PROVE  /\ x % p \in Residues(p)
           /\ x \div p \in Int
           /\ x = p * (x \div p) + (x % p)
BY DEF Residues

\* x and y leave the same rest if they differ by a multiple.
LEMMA RestSame ==
    ASSUME NEW p \in Nat \ {0, 1}, NEW x \in Int, NEW k \in Int
    PROVE  (x + k * p) % p = x % p
<1> DEFINE y == x + k * p
           d == (x \div p) + k - (y \div p)
<1>0. p \in Int /\ p > 1
  OBVIOUS
<1>1. y \in Int
  BY <1>0
<1>2. /\ x % p \in Int /\ 0 <= x % p /\ x % p < p
      /\ y % p \in Int /\ 0 <= y % p /\ y % p < p
  BY <1>0, <1>1, RestIs DEF Residues
<1>3. x = p * (x \div p) + (x % p) /\ x \div p \in Int
  BY RestIs
<1>4. y = p * (y \div p) + (y % p) /\ y \div p \in Int
  BY <1>1, RestIs
<1>5. d \in Int
  BY <1>3, <1>4
<1>6. (y % p) - (x % p) = p * d
  BY <1>0, <1>2, <1>3, <1>4
<1> HIDE DEF y, d
<1>7. \A a, b, c, q \in Int : q > 1 /\ 0 <= a /\ a < q /\ 0 <= b /\ b < q /\ b - a = q * c => c = 0
  OBVIOUS
<1>8. d = 0
  BY <1>0, <1>2, <1>5, <1>6, <1>7
<1>9. y % p = x % p
  BY <1>0, <1>2, <1>6, <1>8
<1> QED
  BY <1>9 DEF y

\* The multiples of p are what leaves no rest.
LEMMA RestZero ==
    ASSUME NEW p \in Nat \ {0, 1}
    PROVE  /\ \A k \in Int : (k * p) % p = 0
           /\ \A x, y \in Int : x % p = y % p => \E k \in Int : x - y = k * p
<1>0. p \in Int
  OBVIOUS
<1>1. ASSUME NEW k \in Int PROVE (k * p) % p = 0
  <2>1. k * p \in Int /\ 0 + k * p = k * p /\ 0 \in Int
    BY <1>0
  <2>2. (0 + k * p) % p = 0 % p
    BY <2>1, RestSame
  <2> QED
    BY <1>0, <2>1, <2>2
<1>2. ASSUME NEW x \in Int, NEW y \in Int, x % p = y % p PROVE \E k \in Int : x - y = k * p
  <2> DEFINE a == x \div p
             b == y \div p
             c == x % p
  <2>1. a \in Int /\ b \in Int /\ c \in Int /\ x = p * a + c /\ y = p * b + c
    BY <1>2, RestIs DEF Residues
  <2> HIDE DEF a, b, c
  <2>2. a - b \in Int /\ x - y = (a - b) * p
    BY <1>0, <2>1
  <2> QED
    BY <2>2
<1> QED
  BY <1>1, <1>2

\* The rest may be taken early.
LEMMA RestEarly ==
    ASSUME NEW p \in Nat \ {0, 1}, NEW x \in Int, NEW y \in Int
    PROVE  /\ ((x % p) + y) % p = (x + y) % p
           /\ (y + (x % p)) % p = (y + x) % p
           /\ ((x % p) * y) % p = (x * y) % p
           /\ (y * (x % p)) % p = (y * x) % p
<1> DEFINE q == x \div p
           r == x % p
<1>1. p \in Int
  OBVIOUS
<1>2. q \in Int /\ r \in Int /\ x = p * q + r
  BY <1>1, RestIs DEF Residues
<1> HIDE DEF q, r
<1>3. x + y = (r + y) + q * p
  BY <1>1, <1>2
<1>4. x * y = (r * y) + (q * y) * p
  BY <1>1, <1>2
<1>5. r + y \in Int /\ r * y \in Int /\ q * y \in Int
  BY <1>2
<1>6. (x + y) % p = (r + y) % p /\ (x * y) % p = (r * y) % p
  <2>1. \A u, k \in Int : (u + k * p) % p = u % p
    BY RestSame
  <2>2. ((r + y) + q * p) % p = (r + y) % p /\ ((r * y) + (q * y) * p) % p = (r * y) % p
    BY <1>2, <1>5, <2>1
  <2> QED
    BY <1>3, <1>4, <2>2
<1>7. y + r = r + y /\ y + x = x + y /\ y * r = r * y /\ y * x = x * y
  BY <1>2
<1> QED
  BY <1>6, <1>7 DEF r

LEMMA MultIs ==
    ASSUME NEW p \in Nat \ {0, 1}, NEW a \in Int, NEW b \in Int
    PROVE  /\ Mult(p, a, b) \in Residues(p) /\ Mult(p, a, b) \in Int
           /\ Mult(p, a, b) = Mult(p, b, a)
           /\ Mult(p, a % p, b) = Mult(p, a, b)
           /\ Mult(p, a, b % p) = Mult(p, a, b)
<1>1. a * b \in Int /\ a * b = b * a
  OBVIOUS
<1>2. (a * b) % p \in Residues(p) /\ (a * b) % p \in Int
  BY <1>1, RestIs DEF Residues
<1>3. ((a % p) * b) % p = (a * b) % p /\ (a * (b % p)) % p = (a * b) % p
  BY RestEarly
<1> QED
  BY <1>1, <1>2, <1>3 DEF Mult

LEMMA MultAssoc ==
    ASSUME NEW p \in Nat \ {0, 1}, NEW a \in Int, NEW b \in Int, NEW c \in Int
    PROVE  Mult(p, Mult(p, a, b), c) = Mult(p, a, Mult(p, b, c))
<1>1. a * b \in Int /\ b * c \in Int /\ (a * b) * c = a * (b * c)
  OBVIOUS
<1>2. (((a * b) % p) * c) % p = ((a * b) * c) % p /\ (a * ((b * c) % p)) % p = (a * (b * c)) % p
  BY <1>1, RestEarly
<1> QED
  BY <1>1, <1>2 DEF Mult

\* Of three factors the last two may change places.
LEMMA MultTurned ==
    ASSUME NEW p \in Nat \ {0, 1}, NEW a \in Int, NEW b \in Int, NEW c \in Int
    PROVE  Mult(p, Mult(p, a, b), c) = Mult(p, Mult(p, a, c), b)
<1>1. Mult(p, Mult(p, a, b), c) = Mult(p, a, Mult(p, b, c))
  BY MultAssoc
<1>2. Mult(p, Mult(p, a, c), b) = Mult(p, a, Mult(p, c, b))
  BY MultAssoc
<1>3. Mult(p, b, c) = Mult(p, c, b)
  BY MultIs
<1> QED
  BY <1>1, <1>2, <1>3

LEMMA RestSmall ==
    ASSUME NEW p \in Nat \ {0, 1}, NEW a \in Residues(p)
    PROVE  /\ a \in Int /\ a % p = a /\ 0 \in Residues(p) /\ 1 \in Residues(p)
           /\ Mult(p, 1, a) = a /\ Mult(p, a, 1) = a
<1>1. a \in Int /\ 0 <= a /\ a < p /\ 0 \in Residues(p) /\ 1 \in Residues(p)
  BY DEF Residues
<1>2. a % p = a
  BY <1>1
<1>3. 1 * a = a /\ a * 1 = a
  BY <1>1
<1> QED
  BY <1>1, <1>2, <1>3 DEF Mult

-----------------------------------------------------------------------------
\* Modulo a prime.

\* Two residues that are not zero have a product that is not.
LEMMA NoZeroDivisors ==
    ASSUME NEW p, Prime(p), NEW a \in 1..(p - 1), NEW b \in 1..(p - 1)
    PROVE  Mult(p, a, b) # 0
<1>0. p \in Nat \ {0, 1} /\ p \in Int /\ p > 1 /\ a \in Int /\ a \in Residues(p) /\ a # 0
  BY DEF Prime, Residues
<1> DEFINE S == {n \in Nat : \A m \in 1..(p - 1) : m <= n => Mult(p, a, m) # 0}
<1>1. 0 \in S
  BY <1>0
<1>2. ASSUME NEW n \in S PROVE n + 1 \in S
  <2>0. n \in Nat /\ n + 1 \in Nat /\ \A m \in 1..(p - 1) : m <= n => Mult(p, a, m) # 0
    OBVIOUS
  <2> SUFFICES ASSUME n + 1 \in 1..(p - 1), Mult(p, a, n + 1) = 0 PROVE FALSE
    BY <2>0
  <2> DEFINE m == n + 1
             r == p % m
             q == p \div m
  <2> HIDE DEF S
  <2>1. m \in Int /\ 1 <= m /\ m < p
    BY <1>0, <2>0
  <2>2. CASE m = 1
    BY <1>0, <2>2, RestSmall
  <2>3. CASE m # 1
    <3>0. m \in Nat \ {0, 1} /\ m \in 2..(p - 1)
      BY <2>1, <2>3, <2>0
    <3> HIDE DEF m
    <3>1. r \in Int /\ q \in Int /\ p = m * q + r /\ 0 <= r /\ r < m
      BY <1>0, <3>0, RestIs DEF Residues
    <3>2. r # 0
      BY <1>0, <3>0 DEF Prime
    <3> HIDE DEF r, q
    <3>3. r \in 1..(p - 1) /\ r <= n
      BY <2>0, <2>1, <3>1, <3>2 DEF m
    <3>4. a * r = a * p - (a * m) * q
      BY <1>0, <2>1, <3>1
    <3>4a. 0 % p = 0
      BY <1>0, RestSmall DEF Residues
    <3>5. a * m \in Int /\ (a * m) % p = 0
      BY <1>0, <2>1 DEF m, Mult
    <3>6. PICK k \in Int : a * m = p * k
      <4>1. ASSUME NEW z \in Int, z % p = 0 PROVE \E k \in Int : z = p * k
        <5>1. z % p = 0 % p /\ 0 \in Int
          BY <3>4a, <4>1
        <5>2. PICK k \in Int : z - 0 = k * p
          BY <1>0, <5>1, RestZero
        <5> QED
          BY <1>0, <5>2
      <4> QED
        BY <3>5, <4>1
    <3>7. k * q \in Int /\ a - k * q \in Int
      BY <1>0, <3>1, <3>6
    <3>8. a * r = (a - k * q) * p
      <4>1. (a * m) * q = (p * k) * q
        BY <3>6
      <4>2. (p * k) * q = (k * q) * p /\ a * p - (k * q) * p = (a - k * q) * p
        BY <1>0, <3>1, <3>6, <3>7
      <4> QED
        BY <3>4, <4>1, <4>2
    <3>9. (a * r) % p = 0
      BY <1>0, <3>7, <3>8, RestZero
    <3> QED
      BY <2>0, <3>3, <3>9 DEF Mult
  <2> QED
    BY <2>2, <2>3
<1>3. S \subseteq Nat
  OBVIOUS
<1>4. b \in S => Mult(p, a, b) # 0
  BY <1>0
<1> HIDE DEF S
<1>5. S = Nat
  BY <1>1, <1>2, <1>3, Induction
<1>6. b \in Nat
  BY <1>0
<1> QED
  BY <1>4, <1>5, <1>6

\* What is not zero can be cancelled.
LEMMA Cancelled ==
    ASSUME NEW p, Prime(p), NEW a \in 1..(p - 1), NEW x \in Residues(p), NEW y \in Residues(p),
           Mult(p, a, x) = Mult(p, a, y)
    PROVE  x = y
<1>0. p \in Nat \ {0, 1} /\ p \in Int /\ a \in Int
  BY DEF Prime
<1>1. ASSUME NEW u \in Residues(p), NEW v \in Residues(p), Mult(p, a, u) = Mult(p, a, v), v < u
      PROVE  FALSE
  <2>1. u \in Int /\ v \in Int /\ u - v \in 1..(p - 1)
    BY <1>0, <1>1 DEF Residues
  <2>2. a * u \in Int /\ a * v \in Int
    BY <1>0, <2>1
  <2>3. PICK k \in Int : a * u - a * v = k * p
    BY <1>0, <1>1, <2>2, RestZero DEF Mult
  <2>4. a * (u - v) = k * p
    BY <1>0, <2>1, <2>3
  <2>5. (a * (u - v)) % p = 0
    BY <1>0, <2>4, RestZero
  <2> QED
    BY <2>1, <2>5, NoZeroDivisors DEF Mult
<1> QED
  BY <1>0, <1>1 DEF Residues

-----------------------------------------------------------------------------
\* Partials modulo p.

Prod(p, n, f) == Loop(n, 1, LAMBDA x, i : Mult(p, x, f[i]))

\* s has the products of the first k factors for every k.
Partials(p, n, f, s) ==
    /\ s \in [0..n -> Residues(p)]
    /\ s[0] = 1
    /\ \A k \in 1..n : s[k] = Mult(p, s[k - 1], f[k - 1])
    /\ Prod(p, n, f) = s[n]

LEMMA ProdLoop ==
    ASSUME NEW p \in Nat \ {0, 1}, NEW n \in Nat, NEW f, \A i \in Idx(n) : f[i] \in Residues(p)
    PROVE  \E s : Partials(p, n, f, s)
<1> DEFINE V == Residues(p)
           z == 1
           step == [k \in 1..n |-> [v \in V |-> Mult(p, v, f[k - 1])]]
           E(g) == [k \in 0..n |-> IF k = 0 THEN 1 ELSE Mult(p, g[k - 1], f[k - 1])]
<1>1. \A k \in 1..n : f[k - 1] \in V
  BY DEF Idx
<1>2. z \in V /\ step \in [1..n -> [V -> V]]
  <2>1. z \in V
    BY DEF Residues
  <2>2. \A v \in V : v \in Int
    BY DEF Residues
  <2>3. \A k \in 1..n, v \in V : Mult(p, v, f[k - 1]) \in V
    BY <1>1, <2>2, MultIs
  <2> QED
    BY <2>1, <2>3
<1>3. \A k \in 1..n, v \in V : step[k][v] = Mult(p, v, f[k - 1])
  OBVIOUS
<1>4. Prod(p, n, f) = (CHOOSE g : g = E(g))[n]
  BY DEF Prod, Loop
<1>5. ASSUME NEW g, g = E(g)
      PROVE  LoopEq(g, V, z, n, step)
  <2>1. g = [k \in 0..n |-> g[k]] /\ g[0] = z
    BY <1>5
  <2>2. \A k \in 1..n : g[k] = Mult(p, g[k - 1], f[k - 1])
    BY <1>5
  <2> HIDE DEF step, E, V, z
  <2> QED
    BY <2>1, <2>2, <1>3 DEF LoopEq
<1>6. ASSUME NEW g \in [0..n -> V], Iterates(g, z, n, step)
      PROVE  g = E(g) /\ g[0] = 1 /\ \A k \in 1..n : g[k] = Mult(p, g[k - 1], f[k - 1])
  <2>1. \A k \in 1..n : g[k - 1] \in V
    OBVIOUS
  <2>2. g[0] = z /\ \A k \in 1..n : g[k] = step[k][g[k - 1]]
    BY <1>6 DEF Iterates
  <2> HIDE DEF step
  <2>3. \A k \in 1..n : g[k] = Mult(p, g[k - 1], f[k - 1])
    BY <2>1, <2>2, <1>3
  <2> QED
    BY <2>2, <2>3
<1> HIDE DEF step, E, V, z
<1>7. PICK s \in [0..n -> V] : Iterates(s, z, n, step) /\ \A g : LoopEq(g, V, z, n, step) => g = s
  BY <1>2, LoopValues
<1>8. Prod(p, n, f) = s[n]
  BY <1>4, <1>5, <1>6, <1>7
<1> QED
  BY <1>6, <1>7, <1>8 DEF V, Partials

\* The product grows by one factor at a time.
LEMMA ProdStep ==
    ASSUME NEW p \in Nat \ {0, 1}, NEW n \in Nat, NEW f, \A i \in Idx(n + 1) : f[i] \in Residues(p)
    PROVE  /\ Prod(p, 0, f) = 1 /\ Prod(p, n, f) \in Residues(p) /\ f[n] \in Residues(p)
           /\ Prod(p, n + 1, f) = Mult(p, Prod(p, n, f), f[n])
<1>0. f[n] \in Residues(p) /\ \A i \in Idx(n) : f[i] \in Residues(p)
  BY DEF Idx
<1>1. Prod(p, 0, f) = 1
  <2>1. \A i \in Idx(0) : f[i] \in Residues(p)
    BY DEF Idx
  <2> QED
    BY <2>1, ProdLoop DEF Partials
<1>2. PICK s : Partials(p, n, f, s)
  BY <1>0, ProdLoop
<1>3. PICK t : Partials(p, n + 1, f, t)
  <2>1. n + 1 \in Nat
    OBVIOUS
  <2> QED
    BY <2>1, ProdLoop
<1> DEFINE S == {k \in Nat : k <= n => s[k] = t[k]}
<1>4. 0 \in S
  BY <1>2, <1>3 DEF Partials
<1>5. ASSUME NEW k \in S PROVE k + 1 \in S
  <2> SUFFICES ASSUME k + 1 <= n PROVE s[k + 1] = t[k + 1]
    OBVIOUS
  <2>1. k \in Nat /\ k + 1 \in 1..n /\ k + 1 \in 1..(n + 1) /\ (k + 1) - 1 = k /\ k <= n
    OBVIOUS
  <2>2. s[k] = t[k]
    BY <1>5, <2>1
  <2>3. s[k + 1] = Mult(p, s[k], f[k]) /\ t[k + 1] = Mult(p, t[k], f[k])
    BY <1>2, <1>3, <2>1 DEF Partials
  <2> QED
    BY <2>2, <2>3
<1>6. s[n] = t[n]
  <2>1. S \subseteq Nat
    OBVIOUS
  <2>2. n \in S => s[n] = t[n]
    OBVIOUS
  <2> HIDE DEF S
  <2>3. S = Nat
    BY <1>4, <1>5, <2>1, Induction
  <2> QED
    BY <2>2, <2>3
<1>7. n + 1 \in 1..(n + 1) /\ (n + 1) - 1 = n /\ n \in 0..n
  OBVIOUS
<1>8. t[n + 1] = Mult(p, t[n], f[n])
  BY <1>3, <1>7 DEF Partials
<1> QED
  BY <1>0, <1>1, <1>2, <1>3, <1>6, <1>7, <1>8 DEF Partials

\* Equal factors, equal products.
LEMMA ProdSame ==
    ASSUME NEW p \in Nat \ {0, 1}, NEW n \in Nat, NEW f, NEW g,
           \A i \in Idx(n) : f[i] \in Residues(p) /\ g[i] = f[i]
    PROVE  Prod(p, n, f) = Prod(p, n, g) /\ Prod(p, n, f) \in Residues(p)
<1> DEFINE S == {k \in Nat : k <= n => Prod(p, k, f) = Prod(p, k, g) /\ Prod(p, k, f) \in Residues(p)}
<1>0. \A i \in Idx(0) : f[i] \in Residues(p) /\ g[i] \in Residues(p)
  BY DEF Idx
<1>1. 0 \in S
  <2>1. 0 \in Nat /\ Prod(p, 0, f) = 1 /\ Prod(p, 0, g) = 1
    BY <1>0, ProdLoop DEF Partials
  <2>2. 1 \in Residues(p)
    BY DEF Residues
  <2> QED
    BY <2>1, <2>2
<1>2. ASSUME NEW k \in S PROVE k + 1 \in S
  <2>0. k \in Nat /\ k + 1 \in Nat
    OBVIOUS
  <2> SUFFICES ASSUME k + 1 <= n
               PROVE  Prod(p, k + 1, f) = Prod(p, k + 1, g) /\ Prod(p, k + 1, f) \in Residues(p)
    BY <2>0
  <2>1. (\A i \in Idx(k + 1) : f[i] \in Residues(p) /\ g[i] \in Residues(p)) /\ f[k] = g[k] /\ k <= n
    BY <2>0 DEF Idx
  <2>2. Prod(p, k, f) = Prod(p, k, g) /\ Prod(p, k, f) \in Residues(p)
    BY <1>2, <2>0, <2>1
  <2>3. /\ Prod(p, k + 1, f) = Mult(p, Prod(p, k, f), f[k]) /\ f[k] \in Residues(p)
        /\ Prod(p, k + 1, g) = Mult(p, Prod(p, k, g), g[k])
    BY <2>0, <2>1, ProdStep
  <2>4. Prod(p, k, f) \in Int /\ f[k] \in Int
    BY <2>2, <2>3 DEF Residues
  <2>5. Mult(p, Prod(p, k, f), f[k]) \in Residues(p)
    BY <2>4, MultIs
  <2> QED
    BY <2>1, <2>2, <2>3, <2>5
<1>3. S \subseteq Nat /\ (n \in S => Prod(p, n, f) = Prod(p, n, g) /\ Prod(p, n, f) \in Residues(p))
  OBVIOUS
<1> HIDE DEF S
<1>4. S = Nat
  BY <1>1, <1>2, <1>3, Induction
<1> QED
  BY <1>3, <1>4

\* A product of residues that are not zero is not zero.
LEMMA ProdNotZero ==
    ASSUME NEW p, Prime(p), NEW n \in Nat, NEW f, \A i \in Idx(n) : f[i] \in 1..(p - 1)
    PROVE  Prod(p, n, f) \in 1..(p - 1)
<1> DEFINE S == {k \in Nat : k <= n => Prod(p, k, f) \in 1..(p - 1)}
<1>0. p \in Nat \ {0, 1} /\ 1 \in 1..(p - 1) /\ 1..(p - 1) = Residues(p) \ {0}
  BY DEF Prime, Residues
<1>1. 0 \in S
  <2>1. \A i \in Idx(0) : f[i] \in Residues(p)
    BY DEF Idx
  <2> QED
    BY <1>0, <2>1, ProdLoop DEF Partials
<1>2. ASSUME NEW k \in S PROVE k + 1 \in S
  <2>0. k \in Nat /\ k + 1 \in Nat
    OBVIOUS
  <2> SUFFICES ASSUME k + 1 <= n PROVE Prod(p, k + 1, f) \in 1..(p - 1)
    BY <2>0
  <2>1. (\A i \in Idx(k + 1) : f[i] \in Residues(p)) /\ f[k] \in 1..(p - 1) /\ k <= n
    BY <1>0, <2>0 DEF Idx
  <2>2. Prod(p, k, f) \in 1..(p - 1)
    BY <1>2, <2>0, <2>1
  <2>3. Prod(p, k + 1, f) = Mult(p, Prod(p, k, f), f[k])
    BY <1>0, <2>0, <2>1, ProdStep
  <2>4. Mult(p, Prod(p, k, f), f[k]) # 0
    BY <2>1, <2>2, NoZeroDivisors
  <2>5. Mult(p, Prod(p, k, f), f[k]) \in Residues(p)
    <3>1. Prod(p, k, f) \in Int /\ f[k] \in Int
      BY <2>1, <2>2
    <3> QED
      BY <1>0, <3>1, MultIs
  <2> QED
    BY <1>0, <2>3, <2>4, <2>5
<1>3. S \subseteq Nat /\ (n \in S => Prod(p, n, f) \in 1..(p - 1))
  OBVIOUS
<1> HIDE DEF S
<1>4. S = Nat
  BY <1>1, <1>2, <1>3, Induction
<1> QED
  BY <1>3, <1>4

\* The factor at j is another one.
LEMMA ProdOther ==
    ASSUME NEW p \in Nat \ {0, 1}, NEW n \in Nat, NEW j \in Idx(n), NEW f, NEW g,
           \A i \in Idx(n) : f[i] \in Residues(p) /\ g[i] \in Residues(p) /\ (i # j => g[i] = f[i])
    PROVE  Mult(p, Prod(p, n, f), g[j]) = Mult(p, Prod(p, n, g), f[j])
<1> DEFINE S == {k \in Nat : j < k /\ k <= n => Mult(p, Prod(p, k, f), g[j]) = Mult(p, Prod(p, k, g), f[j])}
<1>0. j \in Nat /\ j < n
  BY DEF Idx
<1>1. 0 \in S
  BY <1>0
<1>2. ASSUME NEW k \in S PROVE k + 1 \in S
  <2>0. k \in Nat /\ k + 1 \in Nat
    OBVIOUS
  <2> SUFFICES ASSUME j < k + 1, k + 1 <= n
               PROVE  Mult(p, Prod(p, k + 1, f), g[j]) = Mult(p, Prod(p, k + 1, g), f[j])
    BY <2>0
  <2>1. /\ \A i \in Idx(k + 1) : f[i] \in Residues(p) /\ g[i] \in Residues(p)
        /\ \A i \in Idx(k) : f[i] \in Residues(p) /\ g[i] \in Residues(p)
        /\ k <= n
    BY <2>0 DEF Idx
  <2>2. /\ Prod(p, k + 1, f) = Mult(p, Prod(p, k, f), f[k]) /\ Prod(p, k, f) \in Residues(p)
        /\ Prod(p, k + 1, g) = Mult(p, Prod(p, k, g), g[k]) /\ Prod(p, k, g) \in Residues(p)
        /\ f[k] \in Residues(p) /\ g[k] \in Residues(p) /\ f[j] \in Residues(p) /\ g[j] \in Residues(p)
    BY <2>0, <2>1, ProdStep
  <2> DEFINE A == Prod(p, k, f)
             B == Prod(p, k, g)
  <2>3. A \in Int /\ B \in Int /\ f[k] \in Int /\ g[k] \in Int /\ f[j] \in Int /\ g[j] \in Int
    BY <2>2 DEF Residues
  <2>4. CASE j = k
    <3>1. \A i \in Idx(k) : f[i] \in Residues(p) /\ g[i] = f[i]
      BY <1>0, <2>0, <2>1, <2>4 DEF Idx
    <3>2. A = B
      BY <2>0, <3>1, ProdSame
    <3> HIDE DEF A, B
    <3>3. Mult(p, Mult(p, A, f[k]), g[k]) = Mult(p, Mult(p, A, g[k]), f[k])
      BY <2>3, MultTurned
    <3> QED
      BY <2>2, <2>4, <3>2, <3>3 DEF A, B
  <2>5. CASE j # k
    <3>1. j < k /\ f[k] = g[k]
      BY <1>0, <2>0, <2>5 DEF Idx
    <3>2. Mult(p, A, g[j]) = Mult(p, B, f[j])
      BY <1>2, <2>0, <2>1, <3>1
    <3> HIDE DEF A, B
    <3>3. Mult(p, Mult(p, A, f[k]), g[j]) = Mult(p, Mult(p, A, g[j]), f[k])
          /\ Mult(p, Mult(p, B, f[k]), f[j]) = Mult(p, Mult(p, B, f[j]), f[k])
      BY <2>3, MultTurned
    <3> QED
      BY <2>2, <3>1, <3>2, <3>3 DEF A, B
  <2> QED
    BY <2>4, <2>5
<1>3. S \subseteq Nat
  OBVIOUS
<1>4. n \in S => Mult(p, Prod(p, n, f), g[j]) = Mult(p, Prod(p, n, g), f[j])
  BY <1>0
<1> HIDE DEF S
<1>5. S = Nat
  BY <1>1, <1>2, <1>3, Induction
<1> QED
  BY <1>4, <1>5

\* order takes the first n indices to the first n indices, one to one and onto.
Permutes(order, n) ==
    /\ \A i \in Idx(n) : order[i] \in Idx(n)
    /\ \A i, k \in Idx(n) : order[i] = order[k] => i = k
    /\ \A k \in Idx(n) : \E i \in Idx(n) : order[i] = k

\* The order of the factors does not matter.
LEMMA ProdPermuted ==
    ASSUME NEW p \in Nat \ {0, 1}, NEW n \in Nat, NEW f, \A i \in Idx(n) : f[i] \in Residues(p),
           NEW order \in [Idx(n) -> Idx(n)], Permutes(order, n)
    PROVE  Prod(p, n, [i \in Idx(n) |-> f[order[i]]]) = Prod(p, n, f)
<1> DEFINE Claim(k) == \A o \in [Idx(k) -> Idx(k)] :
                Permutes(o, k) => Prod(p, k, [i \in Idx(k) |-> f[o[i]]]) = Prod(p, k, f)
           S == {k \in Nat : k <= n => Claim(k)}
<1>1. 0 \in S
  <2> SUFFICES ASSUME NEW o \in [Idx(0) -> Idx(0)]
               PROVE  Prod(p, 0, [i \in Idx(0) |-> f[o[i]]]) = Prod(p, 0, f)
    OBVIOUS
  <2> DEFINE g == [i \in Idx(0) |-> f[o[i]]]
  <2>1. \A i \in Idx(0) : f[i] \in Residues(p) /\ g[i] \in Residues(p)
    BY DEF Idx
  <2> HIDE DEF g
  <2>2. Prod(p, 0, f) = 1 /\ Prod(p, 0, g) = 1
    BY <2>1, ProdLoop DEF Partials
  <2> QED
    BY <2>2 DEF g
<1>2. ASSUME NEW k \in S PROVE k + 1 \in S
  <2>0. k \in Nat /\ k + 1 \in Nat
    OBVIOUS
  <2> SUFFICES ASSUME k + 1 <= n, NEW o \in [Idx(k + 1) -> Idx(k + 1)], Permutes(o, k + 1)
               PROVE  Prod(p, k + 1, [i \in Idx(k + 1) |-> f[o[i]]]) = Prod(p, k + 1, f)
    BY <2>0
  <2>1. /\ \A i \in Idx(k + 1) : f[i] \in Residues(p) /\ i \in Nat
        /\ k \in Idx(k + 1) /\ k <= n
        /\ \A i \in Idx(k) : i \in Idx(k + 1) /\ i # k
        /\ \A i \in Idx(k + 1) : i # k => i \in Idx(k)
    <3>1. \A i \in Idx(k + 1) : i \in Idx(n)
      BY <2>0 DEF Idx
    <3>2. k \in Idx(k + 1) /\ k <= n /\ \A i \in Idx(k) : i \in Idx(k + 1) /\ i # k
      BY <2>0 DEF Idx
    <3>3. \A i \in Idx(k + 1) : i \in Nat /\ (i # k => i \in Idx(k))
      BY <2>0 DEF Idx
    <3> QED
      BY <3>1, <3>2, <3>3
  <2>2. Claim(k)
    BY <1>2, <2>1
  <2> HIDE DEF S
  <2>3. PICK j \in Idx(k + 1) : o[j] = k
    BY <2>1 DEF Permutes
  <2>4. /\ \A i \in Idx(k + 1) : o[i] \in Idx(k + 1) /\ (o[i] = k => i = j)
        /\ \A i, l \in Idx(k + 1) : o[i] = o[l] => i = l
        /\ \A l \in Idx(k + 1) : \E i \in Idx(k + 1) : o[i] = l
    BY <2>3 DEF Permutes
  <2> DEFINE q == [i \in Idx(k) |-> IF i = j THEN o[k] ELSE o[i]]
             g == [i \in Idx(k + 1) |-> f[o[i]]]
             h == [i \in Idx(k) |-> f[q[i]]]
  <2>5. \A i \in Idx(k) : q[i] = IF i = j THEN o[k] ELSE o[i]
    OBVIOUS
  <2>6. \A i \in Idx(k) : q[i] \in Idx(k)
    BY <2>1, <2>3, <2>4, <2>5
  <2>7. q \in [Idx(k) -> Idx(k)]
    BY <2>6
  <2> HIDE DEF q
  <2>8. Permutes(q, k)
    <3>1. ASSUME NEW i \in Idx(k), NEW l \in Idx(k), q[i] = q[l] PROVE i = l
      BY <2>1, <2>4, <2>5, <3>1
    <3>2. ASSUME NEW l \in Idx(k) PROVE \E i \in Idx(k) : q[i] = l
      <4>1. PICK i \in Idx(k + 1) : o[i] = l
        BY <2>1, <2>4
      <4>2. CASE i = k
        <5>1. j # k /\ j \in Idx(k)
          BY <2>1, <2>3, <4>1, <4>2
        <5> QED
          BY <2>5, <4>1, <4>2, <5>1
      <4>3. CASE i # k
        <5>1. i \in Idx(k) /\ i # j
          BY <2>1, <2>3, <4>1, <4>3
        <5> QED
          BY <2>5, <4>1, <5>1
      <4> QED
        BY <4>2, <4>3
    <3> QED
      BY <2>6, <3>1, <3>2 DEF Permutes
  <2>9. Prod(p, k, h) = Prod(p, k, f)
    BY <2>2, <2>7, <2>8
  <2>10. /\ \A i \in Idx(k + 1) : g[i] \in Residues(p) /\ g[i] = f[o[i]]
         /\ \A i \in Idx(k) : h[i] \in Residues(p) /\ h[i] = f[q[i]]
         /\ \A i \in Idx(k) : g[i] \in Residues(p)
    BY <2>1, <2>4, <2>6
  <2> HIDE DEF g, h
  <2>11. /\ Prod(p, k + 1, g) = Mult(p, Prod(p, k, g), g[k]) /\ g[k] \in Residues(p)
         /\ Prod(p, k + 1, f) = Mult(p, Prod(p, k, f), f[k]) /\ f[k] \in Residues(p)
    BY <2>0, <2>1, <2>10, ProdStep
  <2>12. CASE j = k
    <3>1. \A i \in Idx(k) : g[i] = h[i]
      BY <2>1, <2>5, <2>10, <2>12
    <3>2. Prod(p, k, g) = Prod(p, k, h)
      BY <2>0, <2>10, <3>1, ProdSame
    <3>3. g[k] = f[k]
      BY <2>1, <2>3, <2>10, <2>12
    <3> QED
      BY <2>9, <2>11, <3>2, <3>3 DEF g
  <2>13. CASE j # k
    <3>1. j \in Idx(k) /\ g[j] = f[k] /\ h[j] = g[k]
      BY <2>1, <2>3, <2>5, <2>10, <2>13
    <3>2. \A i \in Idx(k) : i # j => h[i] = g[i]
      BY <2>1, <2>5, <2>10
    <3>3. Mult(p, Prod(p, k, g), h[j]) = Mult(p, Prod(p, k, h), g[j])
      BY <2>0, <2>10, <3>1, <3>2, ProdOther
    <3> QED
      BY <2>9, <2>11, <3>1, <3>3 DEF g
  <2> QED
    BY <2>12, <2>13
<1>3. S \subseteq Nat /\ (n \in S => Claim(n))
  OBVIOUS
<1> HIDE DEF S
<1>4. S = Nat
  BY <1>1, <1>2, <1>3, Induction
<1> QED
  BY <1>3, <1>4

-----------------------------------------------------------------------------
\* Powers.

Power(p, k, v) == Prod(p, k, [i \in Nat |-> v])

LEMMA PowerStep ==
    ASSUME NEW p \in Nat \ {0, 1}, NEW k \in Nat, NEW v \in Residues(p)
    PROVE  /\ Power(p, 0, v) = 1 /\ Power(p, k, v) \in Residues(p) /\ Power(p, k, v) \in Int
           /\ Power(p, k + 1, v) = Mult(p, Power(p, k, v), v)
<1> DEFINE f == [i \in Nat |-> v]
<1>1. k \in Nat /\ \A i \in Idx(k + 1) : f[i] \in Residues(p)
  BY DEF Idx
<1>2. f[k] = v
  OBVIOUS
<1> HIDE DEF f
<1>3. /\ Prod(p, 0, f) = 1 /\ Prod(p, k, f) \in Residues(p)
      /\ Prod(p, k + 1, f) = Mult(p, Prod(p, k, f), f[k])
  BY <1>1, ProdStep
<1>4. Residues(p) \subseteq Int
  BY DEF Residues
<1> QED
  BY <1>2, <1>3, <1>4 DEF f, Power

LEMMA PowerOne ==
    ASSUME NEW p \in Nat \ {0, 1}, NEW v \in Residues(p)
    PROVE  Power(p, 1, v) = v
<1>1. Power(p, 0, v) = 1 /\ Power(p, 0 + 1, v) = Mult(p, Power(p, 0, v), v) /\ 0 + 1 = 1
  BY PowerStep
<1> QED
  BY <1>1, RestSmall

LEMMA PowerPlus ==
    ASSUME NEW p \in Nat \ {0, 1}, NEW i \in Nat, NEW k \in Nat, NEW v \in Residues(p)
    PROVE  Mult(p, Power(p, i, v), Power(p, k, v)) = Power(p, i + k, v)
<1> DEFINE a == Power(p, i, v)
           S == {l \in Nat : Mult(p, a, Power(p, l, v)) = Power(p, i + l, v)}
<1>0. a \in Residues(p) /\ a \in Int /\ v \in Int /\ Power(p, 0, v) = 1
  BY PowerStep, RestSmall
<1>1. 0 \in S
  <2>1. Mult(p, a, 1) = a /\ i + 0 = i
    BY <1>0, RestSmall
  <2> QED
    BY <1>0, <2>1
<1>2. ASSUME NEW l \in S PROVE l + 1 \in S
  <2>0. l \in Nat /\ l + 1 \in Nat /\ i + l \in Nat /\ i + (l + 1) = (i + l) + 1
    OBVIOUS
  <2>1. Mult(p, a, Power(p, l, v)) = Power(p, i + l, v)
    OBVIOUS
  <2>2. /\ Power(p, l + 1, v) = Mult(p, Power(p, l, v), v) /\ Power(p, l, v) \in Int
        /\ Power(p, (i + l) + 1, v) = Mult(p, Power(p, i + l, v), v)
    BY <2>0, PowerStep
  <2> HIDE DEF a, S
  <2>3. Mult(p, Mult(p, a, Power(p, l, v)), v) = Mult(p, a, Mult(p, Power(p, l, v), v))
    BY <1>0, <2>2, MultAssoc
  <2>4. Mult(p, a, Power(p, l + 1, v)) = Power(p, i + (l + 1), v)
    BY <2>0, <2>1, <2>2, <2>3
  <2> QED
    BY <2>0, <2>4 DEF S
<1>3. S \subseteq Nat /\ (k \in S => Mult(p, a, Power(p, k, v)) = Power(p, i + k, v))
  OBVIOUS
<1> HIDE DEF S
<1>4. S = Nat
  BY <1>1, <1>2, <1>3, Induction
<1> QED
  BY <1>3, <1>4

\* The powers of the square are every other power.
LEMMA PowerTwice ==
    ASSUME NEW p \in Nat \ {0, 1}, NEW k \in Nat, NEW v \in Residues(p)
    PROVE  Power(p, k, Mult(p, v, v)) = Power(p, 2 * k, v)
<1> DEFINE w == Mult(p, v, v)
           S == {l \in Nat : Power(p, l, w) = Power(p, 2 * l, v)}
<1>0. v \in Int /\ w \in Residues(p) /\ w \in Int
  BY RestSmall, MultIs
<1>1. 0 \in S
  <2>1. Power(p, 0, w) = 1 /\ Power(p, 0, v) = 1 /\ 2 * 0 = 0
    BY <1>0, PowerStep
  <2> QED
    BY <2>1
<1>2. ASSUME NEW l \in S PROVE l + 1 \in S
  <2>0. l \in Nat /\ l + 1 \in Nat /\ 2 * l \in Nat /\ 2 * l + 1 \in Nat /\ 2 * (l + 1) = (2 * l + 1) + 1
    OBVIOUS
  <2>1. Power(p, l, w) = Power(p, 2 * l, v)
    OBVIOUS
  <2>2. Power(p, l + 1, w) = Mult(p, Power(p, l, w), w)
    BY <1>0, <2>0, PowerStep
  <2>3. /\ Power(p, 2 * l, v) \in Int
        /\ Power(p, 2 * l + 1, v) = Mult(p, Power(p, 2 * l, v), v)
        /\ Power(p, (2 * l + 1) + 1, v) = Mult(p, Power(p, 2 * l + 1, v), v)
    BY <2>0, PowerStep
  <2>4. Mult(p, Mult(p, Power(p, 2 * l, v), v), v) = Mult(p, Power(p, 2 * l, v), w)
    BY <1>0, <2>3, MultAssoc
  <2>5. Power(p, l + 1, w) = Power(p, 2 * (l + 1), v)
    <3> HIDE DEF w, S
    <3> QED
      BY <2>0, <2>1, <2>2, <2>3, <2>4
  <2> QED
    BY <2>0, <2>5
<1>3. S \subseteq Nat /\ (k \in S => Power(p, k, w) = Power(p, 2 * k, v))
  OBVIOUS
<1> HIDE DEF S
<1>4. S = Nat
  BY <1>1, <1>2, <1>3, Induction
<1> QED
  BY <1>3, <1>4

\* A factor in front of every factor.
LEMMA ProdScaled ==
    ASSUME NEW p \in Nat \ {0, 1}, NEW n \in Nat, NEW f, NEW g, NEW a \in Residues(p),
           \A i \in Idx(n) : f[i] \in Residues(p) /\ g[i] = Mult(p, a, f[i])
    PROVE  Prod(p, n, g) = Mult(p, Power(p, n, a), Prod(p, n, f))
<1> DEFINE S == {k \in Nat : k <= n => Prod(p, k, g) = Mult(p, Power(p, k, a), Prod(p, k, f))}
<1>0. /\ a \in Int /\ Power(p, 0, a) = 1
      /\ \A i \in Idx(n) : f[i] \in Residues(p) /\ f[i] \in Int /\ g[i] \in Residues(p)
  <2>1. a \in Int /\ \A i \in Idx(n) : f[i] \in Int
    BY DEF Residues
  <2> QED
    BY <2>1, PowerStep, MultIs
<1>1. 0 \in S
  <2>1. \A i \in Idx(0) : f[i] \in Residues(p) /\ g[i] \in Residues(p)
    BY DEF Idx
  <2>2. Prod(p, 0, f) = 1 /\ Prod(p, 0, g) = 1
    BY <2>1, ProdLoop DEF Partials
  <2>3. 1 \in Residues(p)
    BY DEF Residues
  <2>4. Mult(p, 1, 1) = 1
    BY <2>3, RestSmall
  <2> QED
    BY <1>0, <2>2, <2>4
<1>2. ASSUME NEW k \in S PROVE k + 1 \in S
  <2>0. k \in Nat /\ k + 1 \in Nat
    OBVIOUS
  <2> SUFFICES ASSUME k + 1 <= n
               PROVE  Prod(p, k + 1, g) = Mult(p, Power(p, k + 1, a), Prod(p, k + 1, f))
    BY <2>0
  <2>1. /\ \A i \in Idx(k + 1) : f[i] \in Residues(p) /\ g[i] \in Residues(p)
        /\ f[k] \in Int /\ g[k] = Mult(p, a, f[k]) /\ k <= n
    BY <1>0, <2>0 DEF Idx
  <2> DEFINE A == Power(p, k, a)
             F == Prod(p, k, f)
             G == Prod(p, k, g)
             x == f[k]
  <2>2. G = Mult(p, A, F)
    BY <2>0, <2>1
  <2>3. Prod(p, k + 1, f) = Mult(p, F, x) /\ F \in Residues(p) /\ Prod(p, k + 1, g) = Mult(p, G, g[k])
    BY <2>0, <2>1, ProdStep
  <2>4. Power(p, k + 1, a) = Mult(p, A, a) /\ A \in Int
    BY <2>0, PowerStep
  <2>5. F \in Int /\ x \in Int /\ g[k] = Mult(p, a, x)
    BY <2>1, <2>3, RestSmall
  <2> HIDE DEF A, F, G, x, S
  <2>6. Mult(p, A, F) \in Int /\ Mult(p, A, a) \in Int /\ Mult(p, F, x) \in Int
    BY <1>0, <2>4, <2>5, MultIs
  <2>7. Mult(p, Mult(p, A, F), Mult(p, a, x)) = Mult(p, Mult(p, Mult(p, A, F), a), x)
    BY <1>0, <2>5, <2>6, MultAssoc
  <2>8. Mult(p, Mult(p, A, F), a) = Mult(p, Mult(p, A, a), F)
    BY <1>0, <2>4, <2>5, MultTurned
  <2>9. Mult(p, Mult(p, Mult(p, A, a), F), x) = Mult(p, Mult(p, A, a), Mult(p, F, x))
    BY <2>5, <2>6, MultAssoc
  <2> QED
    BY <2>2, <2>3, <2>4, <2>5, <2>7, <2>8, <2>9
<1>3. S \subseteq Nat /\ (n \in S => Prod(p, n, g) = Mult(p, Power(p, n, a), Prod(p, n, f)))
  OBVIOUS
<1> HIDE DEF S
<1>4. S = Nat
  BY <1>1, <1>2, <1>3, Induction
<1> QED
  BY <1>3, <1>4

\* Fermat: a times the residues that are not zero are these residues again, in
\* another order, and their product is not zero.
THEOREM Fermat ==
    ASSUME NEW p, Prime(p), NEW a \in 1..(p - 1)
    PROVE  Power(p, p - 1, a) = 1
<1> DEFINE n == p - 1
           f == [i \in Idx(n) |-> i + 1]
           order == [i \in Idx(n) |-> Mult(p, a, i + 1) - 1]
           g == [i \in Idx(n) |-> f[order[i]]]
<1>0. /\ p \in Nat \ {0, 1} /\ n \in Nat /\ n \in Int /\ 0 \in Int /\ n - 1 \in Int
      /\ a \in Residues(p) /\ a \in Int /\ 1 \in Residues(p)
      /\ 1..(p - 1) = Residues(p) \ {0}
  BY DEF Prime, Residues
<1>1. \A i \in Idx(n) : i + 1 \in 1..(p - 1) /\ i + 1 \in Int /\ i \in Int
  BY <1>0 DEF Idx
<1>2. \A i \in Idx(n) : Mult(p, a, i + 1) \in 1..(p - 1)
  BY <1>0, <1>1, NoZeroDivisors, MultIs
<1>3. \A m \in 1..(p - 1) : m - 1 \in Idx(n) /\ (m - 1) + 1 = m
  BY <1>0 DEF Idx
<1>4. \A i \in Idx(n) : order[i] \in Idx(n) /\ order[i] = Mult(p, a, i + 1) - 1 /\ order[i] + 1 = Mult(p, a, i + 1)
  BY <1>2, <1>3
<1>5. order \in [Idx(n) -> Idx(n)]
  BY <1>2, <1>3
<1>6. /\ \A i \in Idx(n) : f[i] = i + 1 /\ f[i] \in 1..(p - 1) /\ f[i] \in Residues(p)
      /\ \A i \in Idx(n) : g[i] = Mult(p, a, f[i])
  <2>1. \A i \in Idx(n) : f[i] = i + 1
    OBVIOUS
  <2>2. \A i \in Idx(n) : g[i] = f[order[i]]
    OBVIOUS
  <2> HIDE DEF f, g, order
  <2> QED
    BY <1>0, <1>1, <1>4, <2>1, <2>2
<1> HIDE DEF f, g, order
<1>7. \A i, k \in Idx(n) : order[i] = order[k] => i = k
  <2> SUFFICES ASSUME NEW i \in Idx(n), NEW k \in Idx(n), order[i] = order[k] PROVE i = k
    OBVIOUS
  <2>1. Mult(p, a, i + 1) = Mult(p, a, k + 1)
    BY <1>4
  <2>2. i + 1 \in Residues(p) /\ k + 1 \in Residues(p)
    BY <1>0, <1>1
  <2>3. i + 1 = k + 1
    BY <2>1, <2>2, Cancelled
  <2> QED
    BY <1>1, <2>3
<1>8. ASSUME NEW k \in Idx(n), \A i \in Idx(n) : order[i] # k PROVE FALSE
  <2>1. IsFiniteSet(Idx(n)) /\ Cardinality(Idx(n)) = n
    <3>1. /\ IsFiniteSet(0..(n - 1))
          /\ Cardinality(0..(n - 1)) = IF 0 > n - 1 THEN 0 ELSE (n - 1) - 0 + 1
      BY <1>0, FS_Interval
    <3>2. ~(0 > n - 1) /\ (n - 1) - 0 + 1 = n
      BY <1>0 DEF Idx
    <3> QED
      BY <3>1, <3>2 DEF Idx
  <2>2. IsFiniteSet(Idx(n) \ {k}) /\ Cardinality(Idx(n) \ {k}) = n - 1
    BY <2>1, FS_RemoveElement
  <2>3. order \in [Idx(n) -> Idx(n) \ {k}] /\ n - 1 < n
    BY <1>0, <1>5, <1>8
  <2>4. \E i, l \in Idx(n) : i # l /\ order[i] = order[l]
    BY <2>1, <2>2, <2>3, FS_PigeonHole
  <2> QED
    BY <1>7, <2>4
<1>9. Permutes(order, n)
  BY <1>4, <1>7, <1>8 DEF Permutes
<1>10. Prod(p, n, g) = Prod(p, n, f)
  BY <1>0, <1>5, <1>6, <1>9, ProdPermuted DEF g
<1>11. Prod(p, n, g) = Mult(p, Power(p, n, a), Prod(p, n, f))
  BY <1>0, <1>6, ProdScaled
<1>12. Prod(p, n, f) \in 1..(p - 1)
  BY <1>0, <1>6, ProdNotZero
<1>13. Power(p, n, a) \in Residues(p) /\ Power(p, n, a) \in Int
  BY <1>0, PowerStep
<1> DEFINE P == Prod(p, n, f)
<1>14. P \in Int /\ P \in Residues(p) /\ Mult(p, P, 1) = P
  BY <1>0, <1>12, RestSmall
<1>15. Mult(p, P, Power(p, n, a)) = Mult(p, P, 1)
  BY <1>0, <1>10, <1>11, <1>13, <1>14, MultIs
<1> QED
  BY <1>0, <1>12, <1>13, <1>15, Cancelled

-----------------------------------------------------------------------------
\* GF_inv.

PowStates == [t : Nat, val : Nat, exponent : Nat]

\* One turn of the loop of GF_inv, and what is to come after it: t times the
\* power of val that is left.
Turned(p, s) ==
    [t        |-> IF s.exponent % 2 = 1 THEN (s.t * s.val) % p ELSE s.t,
     val      |-> (s.val * s.val) % p,
     exponent |-> s.exponent \div 2]
Ahead(p, s) ==
    IF s.exponent = 0 THEN s.t ELSE Mult(p, s.t % p, Power(p, s.exponent, s.val % p))

LEMMA TurnedIs ==
    ASSUME NEW p \in Nat \ {0, 1}, NEW s \in PowStates, s.exponent # 0
    PROVE  /\ Turned(p, s) \in PowStates /\ Turned(p, s).exponent < s.exponent
           /\ Ahead(p, Turned(p, s)) = Ahead(p, s)
<1> DEFINE u == Turned(p, s)
           e == s.exponent
           h == e \div 2
           v == s.val % p
           T == s.t % p
           w == Mult(p, v, v)
<1>0. /\ p \in Int /\ e \in Nat /\ e # 0 /\ s.val \in Nat /\ s.t \in Nat /\ s.val \in Int /\ s.t \in Int
  BY DEF PowStates
<1>1. h \in Nat /\ h < e /\ (e % 2 = 1 \/ e % 2 = 0) /\ e = 2 * h + (e % 2)
  <2>1. e % 2 \in Residues(2) /\ h \in Int /\ e = 2 * h + (e % 2)
    BY <1>0, RestIs
  <2>2. e % 2 = 1 \/ e % 2 = 0
    BY <2>1 DEF Residues
  <2> HIDE DEF h, e
  <2> QED
    BY <1>0, <2>1, <2>2
<1>2. v \in Residues(p) /\ T \in Residues(p) /\ v \in Int /\ T \in Int /\ v % p = v /\ T % p = T
  BY <1>0, RestIs, RestSmall
<1>3. /\ (s.t * s.val) % p = Mult(p, T, v) /\ Mult(p, T, v) \in Residues(p) /\ Mult(p, T, v) \in Int
      /\ (s.val * s.val) % p = w /\ w \in Residues(p) /\ w \in Int
  <2>1. Mult(p, s.t, s.val) = Mult(p, T, v) /\ Mult(p, s.val, s.val) = w
    <3>1. Mult(p, s.t, s.val) = Mult(p, T, s.val) /\ Mult(p, T, s.val) = Mult(p, T, v)
      BY <1>0, <1>2, MultIs
    <3>2. Mult(p, s.val, s.val) = Mult(p, v, s.val) /\ Mult(p, v, s.val) = Mult(p, v, v)
      BY <1>0, <1>2, MultIs
    <3> QED
      BY <3>1, <3>2
  <2>2. (s.t * s.val) % p = Mult(p, s.t, s.val) /\ (s.val * s.val) % p = Mult(p, s.val, s.val)
    BY DEF Mult
  <2>3. Mult(p, T, v) \in Residues(p) /\ Mult(p, T, v) \in Int /\ w \in Residues(p) /\ w \in Int
    BY <1>2, MultIs
  <2> HIDE DEF T, v, w
  <2> QED
    BY <2>1, <2>2, <2>3
<1>4. Residues(p) \subseteq Nat /\ \A r \in Residues(p) : r % p = r
  <2>1. Residues(p) \subseteq Nat
    BY DEF Residues
  <2> QED
    BY <2>1, RestSmall
<1>5. u.t = (IF e % 2 = 1 THEN Mult(p, T, v) ELSE s.t) /\ u.val = w /\ u.exponent = h
  <2>1. u.t = (IF e % 2 = 1 THEN (s.t * s.val) % p ELSE s.t) /\ u.val = (s.val * s.val) % p /\ u.exponent = h
    BY DEF Turned
  <2> HIDE DEF u, e, h, v, T, w
  <2> QED
    BY <1>3, <2>1
<1>6. u \in PowStates
  <2>1. u = [t |-> u.t, val |-> u.val, exponent |-> u.exponent]
    BY DEF Turned
  <2>2. u.t \in Nat /\ u.val \in Nat /\ u.exponent \in Nat
    <3> HIDE DEF u, e, h, v, T, w
    <3> QED
      BY <1>0, <1>1, <1>3, <1>4, <1>5
  <2> HIDE DEF u
  <2> QED
    BY <2>1, <2>2 DEF PowStates
<1>7. u.t % p = IF e % 2 = 1 THEN Mult(p, T, v) ELSE T
  <2> HIDE DEF u, e, h, v, w
  <2> QED
    BY <1>3, <1>4, <1>5
<1>8. u.val % p = w
  <2> HIDE DEF u, e, h, v, T, w
  <2> QED
    BY <1>3, <1>4, <1>5
<1>9. Power(p, h, w) = Power(p, 2 * h, v) /\ Power(p, 2 * h, v) \in Int /\ 2 * h \in Nat
      /\ Power(p, 2 * h + 1, v) = Mult(p, Power(p, 2 * h, v), v) /\ Power(p, 0, v) = 1
  <2> HIDE DEF h, v
  <2> QED
    BY <1>1, <1>2, PowerTwice, PowerStep
<1>10. Ahead(p, s) = Mult(p, T, Power(p, e, v))
  BY <1>0 DEF Ahead
<1>11. Ahead(p, u) = Mult(p, u.t % p, Power(p, h, w))
  <2>1. CASE h # 0
    <3> HIDE DEF u, e, h, v, T, w
    <3> QED
      BY <1>5, <1>8, <2>1 DEF Ahead
  <2>2. CASE h = 0
    <3>1. e % 2 = 1
      <4> HIDE DEF h
      <4> QED
        BY <1>0, <1>1, <2>2
    <3> HIDE DEF u, e, h, v, T, w
    <3>2. Ahead(p, u) = Mult(p, T, v) /\ u.t % p = Mult(p, T, v)
      BY <1>5, <1>7, <2>2, <3>1 DEF Ahead
    <3>3. Power(p, h, w) = 1
      BY <1>9, <2>2
    <3> QED
      BY <1>3, <3>2, <3>3, RestSmall
  <2> QED
    BY <2>1, <2>2
<1> HIDE DEF u, e, h, v, T, w
<1>12. CASE e % 2 = 1
  <2>1. e = 2 * h + 1
    BY <1>1, <1>12
  <2>2. Mult(p, Mult(p, T, v), Power(p, 2 * h, v)) = Mult(p, Mult(p, T, Power(p, 2 * h, v)), v)
    BY <1>2, <1>9, MultTurned
  <2>3. Mult(p, Mult(p, T, Power(p, 2 * h, v)), v) = Mult(p, T, Mult(p, Power(p, 2 * h, v), v))
    BY <1>2, <1>9, MultAssoc
  <2>4. Ahead(p, u) = Ahead(p, s)
    BY <1>7, <1>9, <1>10, <1>11, <1>12, <2>1, <2>2, <2>3
  <2> QED
    BY <1>1, <1>5, <1>6, <2>4 DEF u, e
<1>13. CASE e % 2 = 0
  <2>1. e = 2 * h /\ ~(e % 2 = 1)
    BY <1>1, <1>13
  <2>2. Ahead(p, u) = Ahead(p, s)
    BY <1>7, <1>9, <1>10, <1>11, <2>1
  <2> QED
    BY <1>1, <1>5, <1>6, <2>2 DEF u, e
<1> QED
  BY <1>1, <1>12, <1>13

\* The function that SquareMultiply defines.
IsPow(p, pow) == pow = [s \in PowStates |-> IF s.exponent = 0 THEN s.t ELSE pow[Turned(p, s)]]

LEMMA PowIs ==
    ASSUME NEW p \in Nat \ {0, 1}
    PROVE  /\ \E pow : IsPow(p, pow)
           /\ \A pow : IsPow(p, pow) => \A s \in PowStates : pow[s] = Ahead(p, s)
<1>1. IsPow(p, [s \in PowStates |-> Ahead(p, s)])
  <2> DEFINE f == [s \in PowStates |-> Ahead(p, s)]
  <2>1. ASSUME NEW s \in PowStates PROVE f[s] = IF s.exponent = 0 THEN s.t ELSE f[Turned(p, s)]
    <3>1. CASE s.exponent = 0
      BY <3>1 DEF Ahead
    <3>2. CASE s.exponent # 0
      <4>1. Turned(p, s) \in PowStates /\ Ahead(p, Turned(p, s)) = Ahead(p, s)
        BY <3>2, TurnedIs
      <4> QED
        BY <3>2, <4>1
    <3> QED
      BY <3>1, <3>2
  <2>2. f = [s \in PowStates |-> f[s]]
    OBVIOUS
  <2> HIDE DEF f
  <2>3. f = [s \in PowStates |-> IF s.exponent = 0 THEN s.t ELSE f[Turned(p, s)]]
    BY <2>1, <2>2
  <2> QED
    BY <2>3 DEF IsPow, f
<1>2. ASSUME NEW pow, IsPow(p, pow) PROVE \A s \in PowStates : pow[s] = Ahead(p, s)
  <2> DEFINE S == {n \in Nat : \A s \in PowStates : s.exponent <= n => pow[s] = Ahead(p, s)}
  <2>0. \A s \in PowStates : s.exponent \in Nat
    BY DEF PowStates
  <2>1. \A s \in PowStates : pow[s] = IF s.exponent = 0 THEN s.t ELSE pow[Turned(p, s)]
    BY <1>2 DEF IsPow
  <2>2. 0 \in S
    <3> SUFFICES ASSUME NEW s \in PowStates, s.exponent <= 0 PROVE pow[s] = Ahead(p, s)
      OBVIOUS
    <3>1. s.exponent = 0
      BY <2>0
    <3> QED
      BY <2>1, <3>1 DEF Ahead
  <2>3. ASSUME NEW n \in S PROVE n + 1 \in S
    <3>0. n \in Nat /\ n + 1 \in Nat /\ \A s \in PowStates : s.exponent <= n => pow[s] = Ahead(p, s)
      OBVIOUS
    <3> SUFFICES ASSUME NEW s \in PowStates, s.exponent <= n + 1 PROVE pow[s] = Ahead(p, s)
      BY <3>0
    <3>1. CASE s.exponent = 0
      BY <2>1, <3>1 DEF Ahead
    <3>2. CASE s.exponent # 0
      <4> HIDE DEF S
      <4>1. Turned(p, s) \in PowStates /\ Turned(p, s).exponent < s.exponent /\ Ahead(p, Turned(p, s)) = Ahead(p, s)
        BY <3>2, TurnedIs
      <4>2. Turned(p, s).exponent <= n
        BY <2>0, <3>0, <4>1
      <4>3. pow[Turned(p, s)] = Ahead(p, Turned(p, s))
        BY <3>0, <4>1, <4>2
      <4> QED
        BY <2>1, <3>2, <4>1, <4>3
    <3> QED
      BY <3>1, <3>2
  <2>4. S \subseteq Nat
    OBVIOUS
  <2>5. \A n \in S, s \in PowStates : s.exponent <= n => pow[s] = Ahead(p, s)
    OBVIOUS
  <2> HIDE DEF S
  <2>6. S = Nat
    BY <2>2, <2>3, <2>4, Induction
  <2>7. \A s \in PowStates : s.exponent \in S /\ s.exponent <= s.exponent
    BY <2>0, <2>6
  <2> QED
    BY <2>5, <2>7
<1> QED
  BY <1>1, <1>2

\* Square and multiply computes the power.
LEMMA SquareMultiplyIs ==
    ASSUME NEW p \in Nat \ {0, 1}, NEW x \in Residues(p)
    PROVE  SquareMultiply(p, x) = Power(p, p - 2, x)
<1> DEFINE s0 == [t |-> 1, val |-> x, exponent |-> p - 2]
           chosen == CHOOSE pow : IsPow(p, pow)
<1>0. p - 2 \in Nat /\ x \in Nat /\ x % p = x /\ 1 % p = 1
  <2>1. p - 2 \in Nat /\ x \in Nat /\ 1 \in Residues(p)
    BY DEF Residues
  <2> QED
    BY <2>1, RestSmall
<1>1. s0 \in PowStates
  BY <1>0 DEF PowStates
<1>2. SquareMultiply(p, x) = chosen[s0]
  BY DEF SquareMultiply, IsPow, Turned, PowStates
<1>3. IsPow(p, chosen)
  BY PowIs
<1> HIDE DEF chosen
<1>4. chosen[s0] = Ahead(p, s0)
  BY <1>1, <1>3, PowIs
<1>5. Ahead(p, s0) = Power(p, p - 2, x)
  <2>1. CASE p - 2 = 0
    BY <2>1, PowerStep DEF Ahead
  <2>2. CASE p - 2 # 0
    <3>1. Ahead(p, s0) = Mult(p, 1, Power(p, p - 2, x))
      BY <1>0, <2>2 DEF Ahead
    <3>2. Power(p, p - 2, x) \in Residues(p)
      BY <1>0, PowerStep
    <3> QED
      BY <3>1, <3>2, RestSmall
  <2> QED
    BY <2>1, <2>2
<1> QED
  BY <1>2, <1>4, <1>5

\* So does the chain of multiplications, for the prime it was made for.
LEMMA AdditionChainIs ==
    ASSUME NEW x \in Residues(8191)
    PROVE  AdditionChain(8191, x) = Power(8191, 8189, x)
<1> DEFINE p == 8191
<1>0. p \in Nat \ {0, 1}
  OBVIOUS
<1> HIDE DEF p
<1>1. x \in Residues(p)
  BY DEF p
<1>2. x = Power(p, 1, x)
  BY <1>0, <1>1, PowerOne
<1>3. \A i, k \in Nat : Mult(p, Power(p, i, x), Power(p, k, x)) = Power(p, i + k, x)
  BY <1>0, <1>1, PowerPlus
<1>4. \A i \in Nat : Squared(p, Power(p, i, x)) = Power(p, i + i, x)
  BY <1>3 DEF Squared, Mult
<1> DEFINE t1  == Squared(p, x)
           t2  == Mult(p, t1, x)
           t3  == Mult(p, t2, t1)
           t5  == Mult(p, Squared(p, t3), t3)
           t10 == Mult(p, Squared(p, Squared(p, Squared(p, Squared(p, t5)))), t5)
           t13 == Mult(p, Squared(p, Squared(p, t10)), t2)
           t17 == Mult(p, Squared(p, Squared(p, Squared(p, t13))), t3)
<1>5. AdditionChain(p, x) = t17
  BY DEF AdditionChain, Mult
<1>6. t1 = Power(p, 2, x)
  BY <1>2, <1>4
<1>7. t2 = Power(p, 3, x)
  <2> HIDE DEF t1
  <2> QED
    BY <1>2, <1>3, <1>6
<1>8. t3 = Power(p, 5, x)
  <2> HIDE DEF t1, t2
  <2> QED
    BY <1>3, <1>6, <1>7
<1>9. t5 = Power(p, 15, x)
  <2> HIDE DEF t3
  <2>1. Squared(p, t3) = Power(p, 10, x)
    BY <1>4, <1>8
  <2> QED
    BY <1>3, <1>8, <2>1
<1>10. t10 = Power(p, 255, x)
  <2> HIDE DEF t5
  <2>1. Squared(p, t5) = Power(p, 30, x)
    BY <1>4, <1>9
  <2>2. Squared(p, Squared(p, t5)) = Power(p, 60, x)
    BY <1>4, <2>1
  <2>3. Squared(p, Squared(p, Squared(p, t5))) = Power(p, 120, x)
    BY <1>4, <2>2
  <2>4. Squared(p, Squared(p, Squared(p, Squared(p, t5)))) = Power(p, 240, x)
    BY <1>4, <2>3
  <2> QED
    BY <1>3, <1>9, <2>4
<1>11. t13 = Power(p, 1023, x)
  <2> HIDE DEF t2, t10
  <2>1. Squared(p, t10) = Power(p, 510, x)
    BY <1>4, <1>10
  <2>2. Squared(p, Squared(p, t10)) = Power(p, 1020, x)
    BY <1>4, <2>1
  <2> QED
    BY <1>3, <1>7, <2>2
<1>12. t17 = Power(p, 8189, x)
  <2> HIDE DEF t3, t13
  <2>1. Squared(p, t13) = Power(p, 2046, x)
    BY <1>4, <1>11
  <2>2. Squared(p, Squared(p, t13)) = Power(p, 4092, x)
    BY <1>4, <2>1
  <2>3. Squared(p, Squared(p, Squared(p, t13))) = Power(p, 8184, x)
    BY <1>4, <2>2
  <2> QED
    BY <1>3, <1>8, <2>3
<1> QED
  BY <1>5, <1>12 DEF p

\* GF_inv inverts: the residues modulo a prime are a field, whichever of its
\* two ways the code takes.
THEOREM PrimeField ==
    ASSUME NEW p, Prime(p)
    PROVE  IsField(p)
<1>0. p \in Nat \ {0, 1}
  BY DEF Prime
<1>1. ASSUME NEW x \in 1..(p - 1)
      PROVE  InverseIn(p, x) \in Residues(p) /\ Mult(p, x, InverseIn(p, x)) = 1
  <2>0. x \in Residues(p) /\ x \in Int /\ p - 2 \in Nat /\ (p - 2) + 1 = p - 1
    BY <1>0 DEF Residues
  <2>1. InverseIn(p, x) = Power(p, p - 2, x)
    <3>1. CASE p = 8191
      <4>1. AdditionChain(8191, x) = Power(8191, 8189, x) /\ 8191 - 2 = 8189
        BY <2>0, <3>1, AdditionChainIs
      <4> QED
        BY <3>1, <4>1 DEF InverseIn
    <3>2. CASE p # 8191
      BY <1>0, <2>0, <3>2, SquareMultiplyIs DEF InverseIn
    <3> QED
      BY <3>1, <3>2
  <2>2. /\ Power(p, p - 2, x) \in Residues(p) /\ Power(p, p - 2, x) \in Int
        /\ Power(p, (p - 2) + 1, x) = Mult(p, Power(p, p - 2, x), x)
    BY <1>0, <2>0, PowerStep
  <2>3. Power(p, p - 1, x) = 1
    BY Fermat
  <2>4. Mult(p, Power(p, p - 2, x), x) = 1
    BY <2>0, <2>2, <2>3
  <2>5. Mult(p, x, Power(p, p - 2, x)) = Mult(p, Power(p, p - 2, x), x)
    BY <1>0, <2>0, <2>2, MultIs
  <2> QED
    BY <2>1, <2>2, <2>4, <2>5
<1> QED
  BY <1>0, <1>1 DEF IsField, Residues, Mult

-----------------------------------------------------------------------------
\* The loop of Sigma.

LEMMA SigmaLoop ==
    ASSUME NEW n \in Nat, NEW f, \A i \in Idx(n) : f[i] \in Int
    PROVE  \E s \in [0..n -> Int] :
               /\ s[0] = 0
               /\ \A k \in 1..n : s[k] = s[k - 1] + f[k - 1]
               /\ Sigma(n, f) = s[n]
<1> DEFINE step == [k \in 1..n |-> [v \in Int |-> v + f[k - 1]]]
           E(g) == [k \in 0..n |-> IF k = 0 THEN 0 ELSE g[k - 1] + f[k - 1]]
           V == Int
           z == 0
<1>1. \A k \in 1..n : f[k - 1] \in Int
  BY DEF Idx
<1>2. z \in V /\ step \in [1..n -> [V -> V]]
  BY <1>1
<1>3. \A k \in 1..n, v \in V : step[k][v] = v + f[k - 1]
  BY <1>1
<1>4. Sigma(n, f) = (CHOOSE g : g = E(g))[n]
  BY DEF Sigma, Loop
<1>5. ASSUME NEW g, g = E(g)
      PROVE  LoopEq(g, V, z, n, step)
  <2>1. g = [k \in 0..n |-> g[k]] /\ g[0] = z
    BY <1>5
  <2>2. \A k \in 1..n : g[k] = g[k - 1] + f[k - 1]
    BY <1>5
  <2> HIDE DEF step, E, V, z
  <2> QED
    BY <2>1, <2>2, <1>3 DEF LoopEq
<1>6. ASSUME NEW g \in [0..n -> V], Iterates(g, z, n, step)
      PROVE  g = E(g) /\ g[0] = 0 /\ \A k \in 1..n : g[k] = g[k - 1] + f[k - 1]
  <2>1. \A k \in 1..n : g[k - 1] \in V
    OBVIOUS
  <2>2. g[0] = z /\ \A k \in 1..n : g[k] = step[k][g[k - 1]]
    BY <1>6 DEF Iterates
  <2> HIDE DEF step
  <2>3. \A k \in 1..n : g[k] = g[k - 1] + f[k - 1]
    BY <2>1, <2>2, <1>3
  <2> QED
    BY <2>2, <2>3
<1> HIDE DEF step, E, V, z
<1>7. PICK s \in [0..n -> V] : Iterates(s, z, n, step) /\ \A g : LoopEq(g, V, z, n, step) => g = s
  BY <1>2, LoopValues
<1>8. Sigma(n, f) = s[n]
  BY <1>4, <1>5, <1>6, <1>7
<1> QED
  BY <1>6, <1>7, <1>8 DEF V

-----------------------------------------------------------------------------
\* The field.

a ++ b == (a + b) % MEDS_p
a ** b == (a * b) % MEDS_p

Modulus == MEDS_p \in Nat \ {0, 1}

LEMMA ModIs ==
    ASSUME Modulus, NEW x \in Int
    PROVE  /\ x % MEDS_p \in Field
           /\ x \div MEDS_p \in Int
           /\ x = MEDS_p * (x \div MEDS_p) + (x % MEDS_p)
BY DEF Field, Modulus

\* x and y leave the same rest if they differ by a multiple.
LEMMA ModSame ==
    ASSUME Modulus, NEW x \in Int, NEW k \in Int
    PROVE  (x + k * MEDS_p) % MEDS_p = x % MEDS_p
BY RestSame DEF Modulus

\* The rest may be taken early.
LEMMA ModEarly ==
    ASSUME Modulus, NEW x \in Int, NEW y \in Int
    PROVE  /\ ((x % MEDS_p) + y) % MEDS_p = (x + y) % MEDS_p
           /\ (y + (x % MEDS_p)) % MEDS_p = (y + x) % MEDS_p
           /\ ((x % MEDS_p) * y) % MEDS_p = (x * y) % MEDS_p
           /\ (y * (x % MEDS_p)) % MEDS_p = (y * x) % MEDS_p
BY RestEarly DEF Modulus

LEMMA ModSmall ==
    ASSUME Modulus, NEW a \in Field
    PROVE  a % MEDS_p = a
BY DEF Modulus, Field

LEMMA FieldInt ==
    ASSUME Modulus
    PROVE  Field \subseteq Int /\ 0 \in Field /\ 1 \in Field
BY DEF Modulus, Field

LEMMA OpsType ==
    ASSUME Modulus, NEW a \in Int, NEW b \in Int
    PROVE  a ++ b \in Field /\ a ** b \in Field
<1>1. a + b \in Int /\ a * b \in Int
  OBVIOUS
<1> QED
  BY <1>1, ModIs DEF ++, **

\* The laws of a commutative ring.
LEMMA Ring ==
    ASSUME Modulus, NEW a \in Field, NEW b \in Field, NEW c \in Field
    PROVE  /\ a ++ b \in Field /\ a ** b \in Field
           /\ a ++ b = b ++ a /\ a ** b = b ** a
           /\ (a ++ b) ++ c = a ++ (b ++ c)
           /\ (a ** b) ** c = a ** (b ** c)
           /\ a ** (b ++ c) = (a ** b) ++ (a ** c)
           /\ a ++ 0 = a /\ 0 ++ a = a
           /\ a ** 1 = a /\ 1 ** a = a
           /\ a ** 0 = 0 /\ 0 ** a = 0
<1>1. a \in Int /\ b \in Int /\ c \in Int
  BY FieldInt
<1>2. a ++ b \in Field /\ a ** b \in Field
  BY <1>1, OpsType
<1>3. a + b = b + a /\ a * b = b * a
  BY <1>1
<1>4. a ++ b = b ++ a /\ a ** b = b ** a
  BY <1>3 DEF ++, **
<1>5. (a ++ b) ++ c = a ++ (b ++ c)
  <2>1. a + b \in Int /\ b + c \in Int /\ (a + b) + c = a + (b + c)
    BY <1>1
  <2>2. (((a + b) % MEDS_p) + c) % MEDS_p = ((a + b) + c) % MEDS_p
    BY <1>1, <2>1, ModEarly
  <2>3. (a + ((b + c) % MEDS_p)) % MEDS_p = (a + (b + c)) % MEDS_p
    BY <1>1, <2>1, ModEarly
  <2> QED
    BY <2>1, <2>2, <2>3 DEF ++
<1>6. (a ** b) ** c = a ** (b ** c)
  <2>1. a * b \in Int /\ b * c \in Int /\ (a * b) * c = a * (b * c)
    BY <1>1
  <2>2. (((a * b) % MEDS_p) * c) % MEDS_p = ((a * b) * c) % MEDS_p
    BY <1>1, <2>1, ModEarly
  <2>3. (a * ((b * c) % MEDS_p)) % MEDS_p = (a * (b * c)) % MEDS_p
    BY <1>1, <2>1, ModEarly
  <2> QED
    BY <2>1, <2>2, <2>3 DEF **
<1>7. a ** (b ++ c) = (a ** b) ++ (a ** c)
  <2>0. b + c \in Int /\ a * b \in Int /\ a * c \in Int
    BY <1>1
  <2>1. b + c \in Int /\ a * b \in Int /\ a * c \in Int /\ (a * c) % MEDS_p \in Int
    BY <2>0, ModIs, FieldInt
  <2>2. a * (b + c) = (a * b) + (a * c)
    BY <1>1
  <2>3. (a * ((b + c) % MEDS_p)) % MEDS_p = (a * (b + c)) % MEDS_p
    BY <1>1, <2>1, ModEarly
  <2>4. (((a * b) % MEDS_p) + ((a * c) % MEDS_p)) % MEDS_p = ((a * b) + ((a * c) % MEDS_p)) % MEDS_p
    BY <2>1, ModEarly
  <2>5. ((a * b) + ((a * c) % MEDS_p)) % MEDS_p = ((a * b) + (a * c)) % MEDS_p
    BY <2>1, ModEarly
  <2> QED
    BY <2>2, <2>3, <2>4, <2>5 DEF ++, **
<1>8. a + 0 = a /\ 0 + a = a /\ a * 1 = a /\ 1 * a = a /\ a * 0 = 0 /\ 0 * a = 0
  BY <1>1
<1>9. a % MEDS_p = a /\ 0 % MEDS_p = 0
  BY ModSmall, FieldInt
<1>10. a ++ 0 = a /\ 0 ++ a = a /\ a ** 1 = a /\ 1 ** a = a /\ a ** 0 = 0 /\ 0 ** a = 0
  BY <1>8, <1>9 DEF ++, **
<1> QED
  BY <1>2, <1>4, <1>5, <1>6, <1>7, <1>10

\* Some of them by themselves.
LEMMA Assoc ==
    ASSUME Modulus
    PROVE  /\ \A a, b, c \in Field : (a ** b) ** c = a ** (b ** c)
           /\ \A a, b, c \in Field : (a ++ b) ++ c = a ++ (b ++ c)
<1>1. ASSUME NEW a \in Field, NEW b \in Field, NEW c \in Field
      PROVE  (a ** b) ** c = a ** (b ** c) /\ (a ++ b) ++ c = a ++ (b ++ c)
  BY Ring
<1> HIDE DEF ++, **
<1> QED
  BY <1>1

LEMMA Distr ==
    ASSUME Modulus
    PROVE  /\ \A a, b, c \in Field : a ** (b ++ c) = (a ** b) ++ (a ** c)
           /\ \A a, b, c \in Field : (b ++ c) ** a = (b ** a) ++ (c ** a)
<1>1. \A a, b, c \in Field : a ** (b ++ c) = (a ** b) ++ (a ** c)
  BY Ring
<1>2. \A a, b \in Field : a ++ b \in Field /\ a ** b = b ** a
  BY Ring
<1> QED
  BY <1>1, <1>2

LEMMA Comm ==
    ASSUME Modulus
    PROVE  \A a, b \in Field : /\ a ++ b \in Field /\ a ** b \in Field
                              /\ a ++ b = b ++ a /\ a ** b = b ** a
<1>1. ASSUME NEW a \in Field, NEW b \in Field
      PROVE  /\ a ++ b \in Field /\ a ** b \in Field
             /\ a ++ b = b ++ a /\ a ** b = b ** a
  BY Ring
<1> QED
  BY <1>1

LEMMA Units ==
    ASSUME Modulus
    PROVE  \A a \in Field : /\ a ++ 0 = a /\ 0 ++ a = a /\ a ** 1 = a /\ 1 ** a = a
                            /\ a ** 0 = 0 /\ 0 ** a = 0
<1>1. ASSUME NEW a \in Field
      PROVE  /\ a ++ 0 = a /\ 0 ++ a = a /\ a ** 1 = a /\ 1 ** a = a
             /\ a ** 0 = 0 /\ 0 ** a = 0
  BY Ring
<1> QED
  BY <1>1

Neg(a) == (-a) % MEDS_p

LEMMA NegIs ==
    ASSUME Modulus, NEW a \in Field
    PROVE  Neg(a) \in Field /\ a ++ Neg(a) = 0
<1>1. a \in Int /\ -a \in Int /\ a + (-a) = 0
  BY FieldInt
<1>2. (a + ((-a) % MEDS_p)) % MEDS_p = (a + (-a)) % MEDS_p
  BY <1>1, ModEarly
<1>3. 0 % MEDS_p = 0
  BY ModSmall, FieldInt
<1> QED
  BY <1>1, <1>2, <1>3, ModIs DEF Neg, ++

\* A difference is a sum.
LEMMA MinusIs ==
    ASSUME Modulus, NEW a \in Field, NEW f \in Int, NEW b \in Field
    PROVE  /\ (-f) % MEDS_p \in Field
           /\ (a - f * b) % MEDS_p = a ++ (((-f) % MEDS_p) ** b)
<1>1. a \in Int /\ b \in Int
  BY FieldInt
<1>2. -f \in Int /\ (-f) * b \in Int
  BY <1>1
<1>3. a - f * b = a + ((-f) * b)
  BY <1>1
<1>4. (((-f) % MEDS_p) * b) % MEDS_p = ((-f) * b) % MEDS_p
  BY <1>1, <1>2, ModEarly
<1>5. (a + (((-f) * b) % MEDS_p)) % MEDS_p = (a + ((-f) * b)) % MEDS_p
  BY <1>1, <1>2, ModEarly
<1> QED
  BY <1>2, <1>3, <1>4, <1>5, ModIs DEF ++, **

-----------------------------------------------------------------------------
\* Sums of integers.

LEMMA SigmaZero == \A f : Sigma(0, f) = 0
<1> TAKE f
<1>1. \A i \in Idx(0) : f[i] \in Int
  BY DEF Idx
<1>2. PICK s \in [0..0 -> Int] : s[0] = 0 /\ Sigma(0, f) = s[0]
  BY <1>1, SigmaLoop
<1> QED
  BY <1>2

\* The sum grows by one term at a time.
LEMMA SigmaStep ==
    ASSUME NEW n \in Nat, NEW f, \A i \in Idx(n + 1) : f[i] \in Int
    PROVE  Sigma(n, f) \in Int /\ Sigma(n + 1, f) = Sigma(n, f) + f[n]
<1>1. \A i \in Idx(n) : f[i] \in Int
  BY DEF Idx
<1>2. PICK s \in [0..n -> Int] :
         s[0] = 0 /\ (\A k \in 1..n : s[k] = s[k - 1] + f[k - 1]) /\ Sigma(n, f) = s[n]
  BY <1>1, SigmaLoop
<1>3. PICK t \in [0..(n + 1) -> Int] :
         t[0] = 0 /\ (\A k \in 1..(n + 1) : t[k] = t[k - 1] + f[k - 1]) /\ Sigma(n + 1, f) = t[n + 1]
  <2>1. n + 1 \in Nat
    OBVIOUS
  <2> QED
    BY ONLY <2>1, SigmaLoop, \A i \in Idx(n + 1) : f[i] \in Int
<1> DEFINE S == {k \in Nat : k <= n => s[k] = t[k]}
<1>4. 0 \in S
  BY <1>2, <1>3
<1>5. ASSUME NEW k \in S PROVE k + 1 \in S
  <2> SUFFICES ASSUME k + 1 <= n PROVE s[k + 1] = t[k + 1]
    OBVIOUS
  <2>1. k \in Nat /\ k + 1 \in 1..n /\ k + 1 \in 1..(n + 1) /\ (k + 1) - 1 = k /\ k <= n
    OBVIOUS
  <2>2. s[k] = t[k]
    BY <1>5, <2>1
  <2>3. s[k + 1] = s[k] + f[k] /\ t[k + 1] = t[k] + f[k]
    BY <1>2, <1>3, <2>1
  <2> QED
    BY <2>2, <2>3
<1>6. s[n] = t[n]
  <2>1. S \subseteq Nat
    OBVIOUS
  <2>2. n \in S => s[n] = t[n]
    OBVIOUS
  <2> HIDE DEF S
  <2>3. S = Nat
    BY <1>4, <1>5, <2>1, Induction
  <2> QED
    BY <2>2, <2>3
<1>7. n + 1 \in 1..(n + 1) /\ (n + 1) - 1 = n /\ n \in 0..n
  OBVIOUS
<1>8. t[n + 1] = t[n] + f[n]
  BY <1>3, <1>7
<1> QED
  BY <1>2, <1>3, <1>6, <1>7, <1>8

LEMMA SigmaType ==
    ASSUME NEW n \in Nat, NEW f, \A i \in Idx(n) : f[i] \in Int
    PROVE  Sigma(n, f) \in Int
<1>1. PICK s \in [0..n -> Int] : Sigma(n, f) = s[n]
  BY SigmaLoop
<1> QED
  BY <1>1

-----------------------------------------------------------------------------
\* Sums of the field.
FieldSum(n, f) == Sigma(n, f) % MEDS_p

Terms(f, n) == \A i \in Idx(n) : f[i] \in Field

LEMMA SumStep ==
    ASSUME Modulus, NEW n \in Nat, NEW f, Terms(f, n + 1)
    PROVE  /\ FieldSum(0, f) = 0
           /\ Terms(f, n) /\ f[n] \in Field
           /\ FieldSum(n, f) \in Field
           /\ FieldSum(n + 1, f) = FieldSum(n, f) ++ f[n]
<1>1. Terms(f, n) /\ f[n] \in Field /\ f[n] \in Int
  <2>1. Idx(n) \subseteq Idx(n + 1) /\ n \in Idx(n + 1)
    BY DEF Idx
  <2> QED
    BY <2>1, FieldInt DEF Terms
<1>2. \A i \in Idx(n + 1) : f[i] \in Int
  BY FieldInt DEF Terms
<1>3. Sigma(n, f) \in Int /\ Sigma(n + 1, f) = Sigma(n, f) + f[n]
  BY <1>2, SigmaStep
<1>4. FieldSum(n, f) \in Field
  BY <1>3, ModIs DEF FieldSum
<1>5. FieldSum(0, f) = 0
  BY SigmaZero, ModSmall, FieldInt DEF FieldSum
<1>6. ((Sigma(n, f) % MEDS_p) + f[n]) % MEDS_p = (Sigma(n, f) + f[n]) % MEDS_p
  BY <1>1, <1>3, ModEarly
<1>7. FieldSum(n + 1, f) = FieldSum(n, f) ++ f[n]
  BY <1>3, <1>6 DEF FieldSum, ++
<1> QED
  BY <1>1, <1>4, <1>5, <1>7

LEMMA SumZero == Modulus => \A f : FieldSum(0, f) = 0
BY SigmaZero, ModSmall, FieldInt DEF FieldSum

LEMMA SumType ==
    ASSUME Modulus, NEW n \in Nat, NEW f, Terms(f, n)
    PROVE  FieldSum(n, f) \in Field
<1>1. \A i \in Idx(n) : f[i] \in Int
  BY FieldInt DEF Terms
<1> QED
  BY <1>1, SigmaType, ModIs DEF FieldSum

\* Sums are linear.
LEMMA SumLinear ==
    ASSUME Modulus, NEW n \in Nat, NEW g \in Field, NEW f, NEW h, NEW e,
           Terms(f, n), Terms(h, n),
           \A i \in Idx(n) : e[i] = f[i] ++ (g ** h[i])
    PROVE  FieldSum(n, e) = FieldSum(n, f) ++ (g ** FieldSum(n, h))
<1> DEFINE P(k) == FieldSum(k, e) = FieldSum(k, f) ++ (g ** FieldSum(k, h))
           S == {k \in Nat : k <= n => P(k)}
<1>1. 0 \in S
  BY SumZero, Ring, FieldInt
<1>2. ASSUME NEW k \in S PROVE k + 1 \in S
  <2> SUFFICES ASSUME k + 1 <= n PROVE P(k + 1)
    OBVIOUS
  <2>1. k \in Nat /\ k <= n /\ k \in Idx(n) /\ Idx(k + 1) \subseteq Idx(n)
    BY DEF Idx
  <2>2. FieldSum(k, e) = FieldSum(k, f) ++ (g ** FieldSum(k, h))
    BY <1>2, <2>1
  <2>3. Terms(f, k + 1) /\ Terms(h, k + 1)
    BY <2>1 DEF Terms
  <2>4. Terms(e, k + 1) /\ e[k] = f[k] ++ (g ** h[k])
    <3>1. \A i \in Idx(k + 1) : i \in Idx(n) /\ e[i] = f[i] ++ (g ** h[i])
      BY <2>1
    <3>2. \A i \in Idx(k + 1) : f[i] \in Field /\ h[i] \in Field
      BY <2>3 DEF Terms
    <3>3. \A x, y \in Field : x ++ (g ** y) \in Field
      BY Ring
    <3> QED
      BY <2>1, <3>1, <3>2, <3>3 DEF Terms
  <2> DEFINE a == FieldSum(k, f)
             b == FieldSum(k, h)
             x == f[k]
             y == h[k]
  <2>5. /\ a \in Field /\ x \in Field /\ FieldSum(k + 1, f) = a ++ x
        /\ b \in Field /\ y \in Field /\ FieldSum(k + 1, h) = b ++ y
        /\ FieldSum(k + 1, e) = FieldSum(k, e) ++ e[k]
    BY <2>1, <2>3, <2>4, SumStep
  <2> HIDE DEF a, b, x, y
  <2>6. FieldSum(k + 1, e) = (a ++ (g ** b)) ++ (x ++ (g ** y))
    BY <2>2, <2>4, <2>5 DEF a, b, x, y
  <2>7. g ** b \in Field /\ g ** y \in Field
    BY <2>5, Ring
  <2>8. (a ++ (g ** b)) ++ (x ++ (g ** y)) = (a ++ x) ++ ((g ** b) ++ (g ** y))
    <3>1. (a ++ (g ** b)) ++ (x ++ (g ** y)) = a ++ ((g ** b) ++ (x ++ (g ** y)))
      BY <2>5, <2>7, Ring
    <3>2. (g ** b) ++ (x ++ (g ** y)) = ((g ** b) ++ x) ++ (g ** y)
      BY <2>5, <2>7, Ring
    <3>3. (g ** b) ++ x = x ++ (g ** b)
      BY <2>5, <2>7, Ring
    <3>4. (x ++ (g ** b)) ++ (g ** y) = x ++ ((g ** b) ++ (g ** y))
      BY <2>5, <2>7, Ring
    <3>5. a ++ (x ++ ((g ** b) ++ (g ** y))) = (a ++ x) ++ ((g ** b) ++ (g ** y))
      BY <2>5, <2>7, Ring
    <3> QED
      BY <3>1, <3>2, <3>3, <3>4, <3>5
  <2>9. (g ** b) ++ (g ** y) = g ** (b ++ y)
    BY <2>5, Ring
  <2> QED
    BY <2>5, <2>6, <2>8, <2>9
<1>3. S \subseteq Nat /\ (n \in S => P(n))
  OBVIOUS
<1> HIDE DEF S, P
<1>4. S = Nat
  BY <1>1, <1>2, <1>3, Induction
<1>5. P(n)
  BY <1>3, <1>4
<1> QED
  BY <1>5 DEF P

\* Only one term is not zero.
LEMMA SumOne ==
    ASSUME Modulus, NEW n \in Nat, NEW f, NEW j \in Idx(n), f[j] \in Field,
           \A i \in Idx(n) : i # j => f[i] = 0
    PROVE  FieldSum(n, f) = f[j]
<1> DEFINE P(k) == FieldSum(k, f) = IF j < k THEN f[j] ELSE 0
           S == {k \in Nat : k <= n => P(k)}
<1>0. j \in Nat /\ j < n /\ Terms(f, n)
  BY FieldInt DEF Idx, Terms
<1>1. 0 \in S
  BY <1>0, SumZero
<1>2. ASSUME NEW k \in S PROVE k + 1 \in S
  <2> SUFFICES ASSUME k + 1 <= n PROVE P(k + 1)
    OBVIOUS
  <2>1. k \in Nat /\ k <= n /\ k \in Idx(n) /\ Idx(k + 1) \subseteq Idx(n)
    BY DEF Idx
  <2>2. FieldSum(k, f) = IF j < k THEN f[j] ELSE 0
    BY <1>2, <2>1
  <2>3. FieldSum(k + 1, f) = FieldSum(k, f) ++ f[k]
    BY <1>0, <2>1, SumStep DEF Terms
  <2>4. f[j] ++ 0 = f[j] /\ 0 ++ f[j] = f[j] /\ 0 ++ 0 = 0
    BY Ring, FieldInt
  <2>5. CASE j = k
    BY <1>0, <2>2, <2>3, <2>4, <2>5
  <2>6. CASE j # k
    <3>1. f[k] = 0 /\ (j < k + 1) = (j < k)
      BY <1>0, <2>1, <2>6
    <3> QED
      BY <2>2, <2>3, <2>4, <3>1
  <2> QED
    BY <2>5, <2>6
<1>3. S \subseteq Nat /\ (n \in S => P(n))
  OBVIOUS
<1> HIDE DEF S
<1>4. S = Nat
  BY <1>1, <1>2, <1>3, Induction
<1> QED
  BY <1>0, <1>3, <1>4

LEMMA SumOfZeros ==
    ASSUME Modulus, NEW n \in Nat, NEW f, \A i \in Idx(n) : f[i] = 0
    PROVE  FieldSum(n, f) = 0
<1>1. CASE n = 0
  BY <1>1, SumZero
<1>2. CASE n # 0
  <2>1. 0 \in Idx(n) /\ f[0] = 0 /\ f[0] \in Field
    BY <1>2, FieldInt DEF Idx
  <2> QED
    BY <2>1, SumOne
<1> QED
  BY <1>1, <1>2

\* The order of two sums does not matter.
LEMMA SumExchange ==
    ASSUME Modulus, NEW n \in Nat, NEW m \in Nat, NEW t \in [Idx(n) -> [Idx(m) -> Field]]
    PROVE  FieldSum(n, [i \in Idx(n) |-> FieldSum(m, t[i])])
               = FieldSum(m, [j \in Idx(m) |-> FieldSum(n, [i \in Idx(n) |-> t[i][j]])])
<1> DEFINE rows == [i \in Idx(n) |-> FieldSum(m, t[i])]
           col(j) == [i \in Idx(n) |-> t[i][j]]
           cols(k) == [j \in Idx(m) |-> FieldSum(k, col(j))]
           P(k) == FieldSum(k, rows) = FieldSum(m, cols(k))
           S == {k \in Nat : k <= n => P(k)}
<1>1. \A i \in Idx(n) : Terms(t[i], m)
  BY DEF Terms
<1>2. \A j \in Idx(m) : Terms(col(j), n)
  BY DEF Terms
<1>3. \A i \in Idx(n) : rows[i] = FieldSum(m, t[i]) /\ rows[i] \in Field
  BY <1>1, SumType
<1>4. \A k \in Nat : k <= n => \A j \in Idx(m) : Terms(col(j), k)
  <2> TAKE k \in Nat
  <2> HAVE k <= n
  <2>1. Idx(k) \subseteq Idx(n)
    BY DEF Idx
  <2> QED
    BY <1>2, <2>1 DEF Terms
<1>5. \A k \in Nat : k <= n => Terms(cols(k), m)
  <2> TAKE k \in Nat
  <2> HAVE k <= n
  <2>1. \A j \in Idx(m) : FieldSum(k, col(j)) \in Field
    BY <1>4, SumType
  <2> QED
    BY <2>1 DEF Terms
<1>6. 0 \in S
  <2>1. \A j \in Idx(m) : cols(0)[j] = 0
    BY SumZero
  <2>2. FieldSum(m, cols(0)) = 0
    <3> HIDE DEF cols
    <3> QED
      BY <2>1, SumOfZeros
  <2> QED
    BY <2>2, SumZero
<1>7. ASSUME NEW k \in S PROVE k + 1 \in S
  <2> SUFFICES ASSUME k + 1 <= n PROVE P(k + 1)
    OBVIOUS
  <2>1. k \in Nat /\ k <= n /\ k \in Idx(n) /\ Idx(k + 1) \subseteq Idx(n)
    BY DEF Idx
  <2>2. FieldSum(k, rows) = FieldSum(m, cols(k))
    BY <1>7, <2>1
  <2>3. FieldSum(k + 1, rows) = FieldSum(k, rows) ++ FieldSum(m, t[k])
    BY <1>3, <2>1, SumStep DEF Terms
  <2>4. \A j \in Idx(m) : cols(k + 1)[j] = cols(k)[j] ++ (1 ** t[k][j])
    <3> TAKE j \in Idx(m)
    <3>1. Terms(col(j), k + 1)
      BY <1>4, <2>1
    <3>2. FieldSum(k + 1, col(j)) = FieldSum(k, col(j)) ++ col(j)[k]
      BY <2>1, <3>1, SumStep
    <3>3. col(j)[k] = t[k][j] /\ t[k][j] \in Field
      BY <2>1
    <3> HIDE DEF col
    <3> QED
      BY <3>2, <3>3, Ring
  <2>5. Terms(t[k], m) /\ Terms(cols(k), m)
    BY <1>1, <1>5, <2>1
  <2> HIDE DEF cols, rows
  <2>6. FieldSum(m, cols(k + 1)) = FieldSum(m, cols(k)) ++ (1 ** FieldSum(m, t[k]))
    BY <2>4, <2>5, SumLinear, FieldInt
  <2>7. 1 ** FieldSum(m, t[k]) = FieldSum(m, t[k])
    BY <2>5, SumType, Ring
  <2> QED
    BY <2>2, <2>3, <2>6, <2>7
<1>8. S \subseteq Nat /\ (n \in S => P(n))
  OBVIOUS
<1> HIDE DEF S
<1>9. S = Nat
  BY <1>6, <1>7, <1>8, Induction
<1> QED
  BY <1>8, <1>9

\* A common factor.
LEMMA SumScaled ==
    ASSUME Modulus, NEW n \in Nat, NEW g \in Field, NEW f, NEW e, Terms(f, n),
           \A i \in Idx(n) : e[i] = g ** f[i]
    PROVE  FieldSum(n, e) = g ** FieldSum(n, f)
<1> DEFINE z == [i \in Idx(n) |-> 0]
<1>1. Terms(z, n) /\ FieldSum(n, z) = 0
  <2>1. Terms(z, n)
    BY FieldInt DEF Terms
  <2>2. \A i \in Idx(n) : z[i] = 0
    OBVIOUS
  <2> HIDE DEF z
  <2> QED
    BY <2>1, <2>2, SumOfZeros
<1>2. \A i \in Idx(n) : e[i] = z[i] ++ (g ** f[i])
  BY Ring DEF Terms
<1> HIDE DEF z
<1>3. FieldSum(n, e) = 0 ++ (g ** FieldSum(n, f))
  BY <1>1, <1>2, SumLinear
<1> QED
  BY <1>3, SumType, Ring

-----------------------------------------------------------------------------
\* Rows over the columns C, subspaces of them and the span of a matrix: of all
\* the subspaces that hold its rows what is common.
Vec(C)    == [C -> Field]
Mat(D, C) == [D -> Vec(C)]

\* u and g times v.
Plus(u, g, v) == [c \in DOMAIN u |-> u[c] ++ (g ** v[c])]

Subspace(W) == \A u, v \in W, g \in Field : Plus(u, g, v) \in W

Holds(W, X) == \A r \in DOMAIN X : X[r] \in W

Span(C, X) == {w \in Vec(C) : \A W \in SUBSET Vec(C) : Subspace(W) /\ Holds(W, X) => w \in W}

LEMMA PlusType ==
    ASSUME Modulus, NEW C, NEW u \in Vec(C), NEW v \in Vec(C), NEW g \in Field
    PROVE  /\ Plus(u, g, v) \in Vec(C)
           /\ \A c \in C : Plus(u, g, v)[c] = u[c] ++ (g ** v[c])
<1>1. \A c \in C : u[c] ++ (g ** v[c]) \in Field
  <2>1. \A x, y \in Field : x ++ (g ** y) \in Field
    BY Ring
  <2> QED
    BY <2>1 DEF Vec
<1> QED
  BY <1>1 DEF Vec, Plus

LEMMA VecSame ==
    ASSUME NEW C, NEW u \in Vec(C), NEW v \in Vec(C), \A c \in C : u[c] = v[c]
    PROVE  u = v
BY DEF Vec

LEMMA SpanInside ==
    ASSUME NEW C, NEW X, NEW W \in SUBSET Vec(C), Subspace(W), Holds(W, X)
    PROVE  Span(C, X) \subseteq W
BY DEF Span

LEMMA SpanIsSubspace ==
    ASSUME Modulus, NEW C, NEW X
    PROVE  Subspace(Span(C, X)) /\ Span(C, X) \in SUBSET Vec(C)
<1>1. ASSUME NEW u \in Span(C, X), NEW v \in Span(C, X), NEW g \in Field
      PROVE  Plus(u, g, v) \in Span(C, X)
  <2>1. Plus(u, g, v) \in Vec(C)
    BY PlusType DEF Span
  <2>2. ASSUME NEW W \in SUBSET Vec(C), Subspace(W), Holds(W, X)
        PROVE  Plus(u, g, v) \in W
    BY <2>2 DEF Span, Subspace
  <2> QED
    BY <2>1, <2>2 DEF Span
<1> QED
  BY <1>1 DEF Subspace, Span

LEMMA SpanHolds ==
    ASSUME NEW C, NEW D, NEW X \in Mat(D, C)
    PROVE  Holds(Span(C, X), X)
BY DEF Holds, Span, Mat

\* The span of rows of a span is inside it.
LEMMA SpanOf ==
    ASSUME Modulus, NEW C, NEW X, NEW Y, Holds(Span(C, X), Y)
    PROVE  Span(C, Y) \subseteq Span(C, X)
BY SpanIsSubspace, SpanInside

\* What was added is taken away again.
LEMMA PlusUndone ==
    ASSUME Modulus, NEW C, NEW u \in Vec(C), NEW v \in Vec(C), NEW g \in Field
    PROVE  Plus(Plus(u, g, v), Neg(g), v) = u
<1>1. Neg(g) \in Field /\ g ++ Neg(g) = 0
  BY NegIs
<1> DEFINE w == Plus(u, g, v)
<1>2. w \in Vec(C) /\ \A c \in C : w[c] = u[c] ++ (g ** v[c])
  BY PlusType
<1> HIDE DEF w
<1>3. /\ Plus(w, Neg(g), v) \in Vec(C)
      /\ \A c \in C : Plus(w, Neg(g), v)[c] = w[c] ++ (Neg(g) ** v[c])
  BY <1>1, <1>2, PlusType
<1>4. ASSUME NEW c \in C PROVE w[c] ++ (Neg(g) ** v[c]) = u[c]
  <2> DEFINE x == u[c]
             y == v[c]
  <2>1. x \in Field /\ y \in Field /\ w[c] = x ++ (g ** y)
    BY <1>2 DEF Vec
  <2> HIDE DEF x, y
  <2>2. g ** y \in Field /\ Neg(g) ** y \in Field
    BY <1>1, <2>1, Comm
  <2>3. (x ++ (g ** y)) ++ (Neg(g) ** y) = x ++ ((g ** y) ++ (Neg(g) ** y))
    BY <2>1, <2>2, Assoc
  <2>4. (g ++ Neg(g)) ** y = (g ** y) ++ (Neg(g) ** y)
    BY <1>1, <2>1, Distr
  <2>5. 0 ** y = 0 /\ x ++ 0 = x
    BY <2>1, Units
  <2> QED
    BY <1>1, <2>1, <2>3, <2>4, <2>5 DEF x, y
<1>5. Plus(w, Neg(g), v) = u
  BY <1>3, <1>4, VecSame
<1> QED
  BY <1>5 DEF w

\* An elimination step with row s, as far as the other rows want it.
LEMMA SpanStep ==
    ASSUME Modulus, NEW C, NEW D, NEW X \in Mat(D, C), NEW Y \in Mat(D, C), NEW s \in D,
           Y[s] = X[s],
           \A r \in D : \E g \in Field : Y[r] = Plus(X[r], g, X[s]) \/ Y[r] = X[r]
    PROVE  Span(C, Y) = Span(C, X)
<1>1. DOMAIN X = D /\ DOMAIN Y = D
  BY DEF Mat
<1>2. Holds(Span(C, X), Y)
  <2> SUFFICES ASSUME NEW r \in D PROVE Y[r] \in Span(C, X)
    BY <1>1 DEF Holds
  <2>1. X[r] \in Span(C, X) /\ X[s] \in Span(C, X)
    BY <1>1, SpanHolds DEF Holds
  <2>2. PICK g \in Field : Y[r] = Plus(X[r], g, X[s]) \/ Y[r] = X[r]
    OBVIOUS
  <2> QED
    BY <2>1, <2>2, SpanIsSubspace DEF Subspace
<1>3. Holds(Span(C, Y), X)
  <2> SUFFICES ASSUME NEW r \in D PROVE X[r] \in Span(C, Y)
    BY <1>1 DEF Holds
  <2>1. Y[r] \in Span(C, Y) /\ Y[s] \in Span(C, Y)
    BY <1>1, SpanHolds DEF Holds
  <2>2. PICK g \in Field : Y[r] = Plus(X[r], g, X[s]) \/ Y[r] = X[r]
    OBVIOUS
  <2>3. CASE Y[r] = X[r]
    BY <2>1, <2>3
  <2>4. CASE Y[r] = Plus(X[r], g, X[s])
    <3>1. X[r] \in Vec(C) /\ X[s] \in Vec(C) /\ Y[r] \in Vec(C)
      BY DEF Mat
    <3>2. Neg(g) \in Field
      BY NegIs
    <3>3. Plus(Y[r], Neg(g), X[s]) = X[r]
      BY <2>4, <3>1, PlusUndone
    <3> QED
      BY <2>1, <3>2, <3>3, SpanIsSubspace DEF Subspace
  <2> QED
    BY <2>2, <2>3, <2>4
<1> QED
  BY <1>2, <1>3, SpanOf

\* A row times a unit.
LEMMA SpanScaled ==
    ASSUME Modulus, NEW C, NEW D, NEW X \in Mat(D, C), NEW Y \in Mat(D, C), NEW s \in D,
           NEW a \in Field, NEW b \in Field, b ** a = 1,
           \A c \in C : Y[s][c] = a ** X[s][c],
           \A r \in D \ {s} : Y[r] = X[r]
    PROVE  Span(C, Y) = Span(C, X)
<1>1. DOMAIN X = D /\ DOMAIN Y = D /\ X[s] \in Vec(C) /\ Y[s] \in Vec(C)
  BY DEF Mat
<1>2. ASSUME NEW u \in Vec(C), NEW v \in Vec(C), NEW g \in Field, NEW W, Subspace(W), u \in W,
             \A c \in C : v[c] = g ** u[c]
      PROVE  v \in W
  <2> DEFINE d == g ++ Neg(1)
  <2>1. d \in Field /\ 1 \in Field /\ Neg(1) \in Field /\ 1 ++ Neg(1) = 0
    BY FieldInt, NegIs, Ring
  <2>2. 1 ++ d = g
    <3>1. 1 ++ (g ++ Neg(1)) = 1 ++ (Neg(1) ++ g)
      BY <2>1, Ring
    <3>2. 1 ++ (Neg(1) ++ g) = (1 ++ Neg(1)) ++ g
      BY <2>1, Ring
    <3>3. 0 ++ g = g
      BY Ring
    <3> QED
      BY <2>1, <3>1, <3>2, <3>3
  <2> HIDE DEF d
  <2>3. Plus(u, d, u) \in Vec(C) /\ Plus(u, d, u) \in W
    BY <1>2, <2>1, PlusType DEF Subspace
  <2>4. ASSUME NEW c \in C PROVE Plus(u, d, u)[c] = v[c]
    <3>1. u[c] \in Field
      BY DEF Vec
    <3>2. Plus(u, d, u)[c] = u[c] ++ (d ** u[c])
      BY <2>1, PlusType
    <3>3. u[c] = u[c] ** 1 /\ d ** u[c] = u[c] ** d
      BY <2>1, <3>1, Ring
    <3>4. (u[c] ** 1) ++ (u[c] ** d) = u[c] ** (1 ++ d)
      BY <2>1, <3>1, Distr
    <3>5. u[c] ** g = g ** u[c]
      BY <3>1, Ring
    <3> QED
      BY <1>2, <2>2, <3>2, <3>3, <3>4, <3>5
  <2> QED
    BY <2>3, <2>4, VecSame
<1>3. ASSUME NEW c \in C PROVE X[s][c] = b ** Y[s][c]
  <2>1. X[s][c] \in Field
    BY <1>1 DEF Vec
  <2>2. b ** (a ** X[s][c]) = (b ** a) ** X[s][c] /\ 1 ** X[s][c] = X[s][c]
    BY <2>1, Assoc, Units
  <2> QED
    BY <2>2
<1>4. Holds(Span(C, X), Y)
  <2>1. \A r \in D : X[r] \in Span(C, X)
    BY <1>1, SpanHolds DEF Holds
  <2>2. Y[s] \in Span(C, X)
    BY <1>1, <1>2, <2>1, SpanIsSubspace
  <2> QED
    BY <1>1, <2>1, <2>2 DEF Holds
<1>5. Holds(Span(C, Y), X)
  <2>1. \A r \in D : Y[r] \in Span(C, Y)
    BY <1>1, SpanHolds DEF Holds
  <2>2. X[s] \in Span(C, Y)
    BY <1>1, <1>2, <1>3, <2>1, SpanIsSubspace
  <2> QED
    BY <1>1, <2>1, <2>2 DEF Holds
<1>6. Span(C, Y) \subseteq Span(C, X)
  BY <1>4, SpanOf
<1>7. Span(C, X) \subseteq Span(C, Y)
  BY <1>5, SpanOf
<1> QED
  BY <1>6, <1>7

-----------------------------------------------------------------------------
\* Rows and matrices.

LEMMA RowIs ==
    \A f : Row(f) = f
BY DEF Row

\* H rows of N entries, of which the first R and their first R entries count.
Sized(H, N, R) == H \in Nat \ {0} /\ N \in Nat /\ R \in Nat /\ R <= H /\ R <= N

Matrices(H, N) == Mat(Idx(H), Idx(N))

LEMMA IdxIs ==
    ASSUME NEW n \in Nat
    PROVE  Idx(n) \subseteq Nat /\ IsFiniteSet(Idx(n)) /\ Cardinality(Idx(n)) = n
<1>1. IsFiniteSet(0..(n - 1)) /\ Cardinality(0..(n - 1)) = IF 0 > n - 1 THEN 0 ELSE (n - 1) - 0 + 1
  BY FS_Interval
<1> QED
  BY <1>1 DEF Idx

LEMMA MatrixIs ==
    ASSUME NEW H \in Nat \ {0}, NEW N \in Nat, NEW X \in Matrices(H, N)
    PROVE  /\ DOMAIN X = Idx(H)
           /\ Height(X) = H /\ Width(X) = N
           /\ \A r \in Idx(H) : X[r] \in Vec(Idx(N)) /\ DOMAIN X[r] = Idx(N)
           /\ \A r \in Idx(H), c \in Idx(N) : X[r][c] \in Field
<1>1. 0 \in Idx(H)
  BY DEF Idx
<1>2. DOMAIN X = Idx(H) /\ \A r \in Idx(H) : X[r] \in Vec(Idx(N))
  BY DEF Matrices, Mat
<1>3. \A r \in Idx(H) : DOMAIN X[r] = Idx(N) /\ \A c \in Idx(N) : X[r][c] \in Field
  BY <1>2 DEF Vec
<1> QED
  BY <1>1, <1>2, <1>3, IdxIs DEF Height, Width

\* A row operation on some columns is one on all of them if the others are zero.
LEMMA MinusIsPlus ==
    ASSUME Modulus, NEW H \in Nat \ {0}, NEW N \in Nat, NEW X \in Matrices(H, N),
           NEW r \in Idx(H), NEW s \in Idx(H), NEW f \in Int, NEW Cols,
           \A c \in Idx(N) : c \notin Cols => X[s][c] = 0
    PROVE  /\ (-f) % MEDS_p \in Field
           /\ Minus(X, r, f, s, Cols) = Plus(X[r], (-f) % MEDS_p, X[s])
<1>1. DOMAIN X[r] = Idx(N) /\ \A c \in Idx(N) : X[r][c] \in Field /\ X[s][c] \in Field
  BY MatrixIs
<1> DEFINE g == (-f) % MEDS_p
           w == [c \in Idx(N) |-> IF c \in Cols THEN (X[r][c] - f * X[s][c]) % MEDS_p ELSE X[r][c]]
<1>2. g \in Field
  BY MinusIs, FieldInt
<1>3. ASSUME NEW c \in Idx(N) PROVE w[c] = X[r][c] ++ (g ** X[s][c])
  <2>1. CASE c \in Cols
    BY <1>1, <2>1, MinusIs
  <2>2. CASE c \notin Cols
    <3>1. X[s][c] = 0 /\ X[r][c] \in Field
      BY <1>1, <2>2
    <3>2. g ** 0 = 0 /\ X[r][c] ++ 0 = X[r][c]
      BY <1>2, <3>1, Units
    <3> QED
      BY <2>2, <3>1, <3>2
  <2> QED
    BY <2>1, <2>2
<1>4. Minus(X, r, f, s, Cols) = Row(w)
  BY <1>1 DEF Minus
<1>5. w = [c \in Idx(N) |-> w[c]]
  OBVIOUS
<1> HIDE DEF g
<1>6. Row(w) = w
  BY <1>5, RowIs
<1>7. w = Plus(X[r], g, X[s])
  BY <1>1, <1>3 DEF Plus
<1> QED
  BY <1>2, <1>4, <1>6, <1>7 DEF g

LEMMA MinusType ==
    ASSUME Modulus, NEW H \in Nat \ {0}, NEW N \in Nat, NEW X \in Matrices(H, N),
           NEW r \in Idx(H), NEW s \in Idx(H), NEW f \in Int, NEW Cols
    PROVE  /\ Minus(X, r, f, s, Cols) \in Vec(Idx(N))
           /\ \A c \in Idx(N) : Minus(X, r, f, s, Cols)[c] =
                  IF c \in Cols THEN X[r][c] ++ (((-f) % MEDS_p) ** X[s][c]) ELSE X[r][c]
<1>1. DOMAIN X[r] = Idx(N) /\ \A c \in Idx(N) : X[r][c] \in Field /\ X[s][c] \in Field
  BY MatrixIs
<1> DEFINE w == [c \in Idx(N) |-> IF c \in Cols THEN (X[r][c] - f * X[s][c]) % MEDS_p ELSE X[r][c]]
<1>2. \A c \in Idx(N) : (X[r][c] - f * X[s][c]) % MEDS_p = X[r][c] ++ (((-f) % MEDS_p) ** X[s][c])
  BY <1>1, MinusIs
<1>3. \A c \in Idx(N) : X[r][c] ++ (((-f) % MEDS_p) ** X[s][c]) \in Field
  <2>1. (-f) % MEDS_p \in Field
    BY MinusIs, FieldInt
  <2>2. \A x, g, y \in Field : x ++ (g ** y) \in Field
    BY Comm
  <2> QED
    BY <1>1, <2>1, <2>2
<1>4. Minus(X, r, f, s, Cols) = Row(w)
  BY <1>1 DEF Minus
<1>5. Row(w) = w
  <2>1. w = [c \in Idx(N) |-> w[c]]
    OBVIOUS
  <2> QED
    BY <2>1, RowIs
<1>6. w \in Vec(Idx(N))
  BY <1>1, <1>2, <1>3 DEF Vec
<1> QED
  BY <1>2, <1>4, <1>5, <1>6

-----------------------------------------------------------------------------
\* pmod_mat_syst_ct: the pivot of a row.

\* The first r columns are done: ones on the diagonal, zeros below it.
Stairs(X, r, R) ==
    \A j \in Idx(r) : X[j][j] = 1 /\ \A q \in Idx(R) : q > j => X[q][j] = 0

\* Nothing but row r is another, and a zero pivot means zeros below it.
LEMMA SwapStepIs ==
    ASSUME Modulus, NEW H, NEW N, NEW R, Sized(H, N, R), NEW X \in Matrices(H, N),
           NEW r \in Idx(R), NEW r2 \in Idx(R), r2 > r, Stairs(X, r, R)
    PROVE  /\ SwapStep(X, r, r2) \in Matrices(H, N)
           /\ Stairs(SwapStep(X, r, r2), r, R)
           /\ Span(Idx(N), SwapStep(X, r, r2)) = Span(Idx(N), X)
           /\ \A q \in Idx(H) \ {r} : SwapStep(X, r, r2)[q] = X[q]
           /\ SwapStep(X, r, r2)[r][r] = IF X[r][r] = 0 THEN X[r2][r] ELSE X[r][r]
<1> DEFINE Y == SwapStep(X, r, r2)
           C == Idx(N)
<1>0. /\ H \in Nat \ {0} /\ N \in Nat /\ R \in Nat /\ r \in Nat /\ r2 \in Nat
      /\ Idx(R) \subseteq Idx(H) /\ Idx(R) \subseteq C /\ r < R /\ r2 < R
      /\ r \in Idx(H) /\ r2 \in Idx(H) /\ r \in C
  BY DEF Sized, Idx
<1>1. Width(X) = N /\ DOMAIN X = Idx(H) /\ X[r] \in Vec(C) /\ X[r2] \in Vec(C)
  BY <1>0, MatrixIs
<1>2. CASE X[r][r] # 0
  BY <1>2 DEF SwapStep
<1>3. CASE X[r][r] = 0
  <2>0. PICK f \in Int : f = -1
    OBVIOUS
  <2> DEFINE m == Minus(X, r, f, r2, r..(N - 1))
             g == (-f) % MEDS_p
  <2>1. Y = [X EXCEPT ![r] = m]
    BY <1>1, <1>3, <2>0 DEF SwapStep
  <2>2. \A c \in C : c \notin r..(N - 1) => X[r2][c] = 0
    <3> TAKE c \in C
    <3> HAVE c \notin r..(N - 1)
    <3>1. c \in Idx(r) /\ r2 > c
      BY <1>0 DEF Idx
    <3> QED
      BY <3>1 DEF Stairs
  <2>3. g \in Field /\ m = Plus(X[r], g, X[r2])
    <3> DEFINE K == r..(N - 1)
    <3>1. \A c \in Idx(N) : c \notin K => X[r2][c] = 0
      BY <2>2
    <3> HIDE DEF K
    <3>2. (-f) % MEDS_p \in Field /\ Minus(X, r, f, r2, K) = Plus(X[r], (-f) % MEDS_p, X[r2])
      BY <1>0, <3>1, MinusIsPlus
    <3> QED
      BY <3>2 DEF K
  <2>4. g = 1
    <3>0. \A x \in Int : -x = 0 - x
      OBVIOUS
    <3>1. -f = 1
      <4>1. 0 - f = 1
        BY <2>0
      <4> QED
        BY <3>0, <4>1
    <3>2. 1 % MEDS_p = 1
      BY ModSmall, FieldInt
    <3> QED
      BY <3>1, <3>2
  <2>5. \A x \in Field : g ** x = x
    BY <2>4, Units
  <2> HIDE DEF m, g
  <2>51. m \in Vec(C) /\ \A c \in C : m[c] = X[r][c] ++ (g ** X[r2][c])
    <3> HIDE DEF C
    <3>1. PICK u \in Vec(C) : u = X[r]
      BY <1>1
    <3>2. PICK v \in Vec(C) : v = X[r2]
      BY <1>1
    <3>3. g \in Field
      BY <2>3
    <3>4. Plus(u, g, v) \in Vec(C) /\ \A c \in C : Plus(u, g, v)[c] = u[c] ++ (g ** v[c])
      BY ONLY Modulus, u \in Vec(C), v \in Vec(C), <3>3, PlusType
    <3>5. m = Plus(u, g, v)
      BY <2>3, <3>1, <3>2
    <3> QED
      BY <3>1, <3>2, <3>4, <3>5
  <2>6. Y \in Matrices(H, N)
    BY <2>1, <2>51 DEF Matrices, Mat
  <2>7. Y[r] = m /\ \A q \in Idx(H) \ {r} : Y[q] = X[q]
    BY <1>0, <1>1, <2>1
  <2> HIDE DEF Y
  <2>8. \A c \in C : X[r][c] \in Field /\ X[r2][c] \in Field
    BY <1>1 DEF Vec
  <2>9. Y[r][r] = X[r2][r]
    BY <1>0, <1>3, <2>5, <2>51, <2>7, <2>8, Units
  <2>10. Span(C, Y) = Span(C, X)
    <3>1. Y[r2] = X[r2]
      BY <1>0, <2>7
    <3>2. Y[r] = Plus(X[r], g, X[r2]) /\ g \in Field
      BY <2>3, <2>7
    <3>3. \A q \in Idx(H) : \E a \in Field : Y[q] = Plus(X[q], a, X[r2]) \/ Y[q] = X[q]
      BY <2>7, <3>2
    <3> DEFINE D == Idx(H)
    <3>4. X \in Mat(D, C) /\ Y \in Mat(D, C) /\ r2 \in D
      BY <1>0, <2>6 DEF Matrices
    <3>5. \A q \in D : \E a \in Field : Y[q] = Plus(X[q], a, X[r2]) \/ Y[q] = X[q]
      BY <3>3
    <3> HIDE DEF D, C
    <3> QED
      BY <3>1, <3>4, <3>5, SpanStep
  <2>11. Stairs(Y, r, R)
    <3> SUFFICES ASSUME NEW j \in Idx(r), NEW q \in Idx(R), q >= j
                 PROVE  (q = j => Y[q][j] = 1) /\ (q > j => Y[q][j] = 0)
      <4>1. Idx(r) \subseteq Idx(R) /\ \A j \in Idx(r) : j >= j
        BY <1>0 DEF Idx
      <4>2. \A q, j \in Idx(R) : q > j => q >= j
        BY DEF Idx
      <4> QED
        BY <4>1, <4>2 DEF Stairs
    <3>1. j \in C /\ j # r /\ r > j /\ r2 > j /\ j \in Idx(H) /\ q \in Idx(H)
      BY <1>0 DEF Idx
    <3>2. CASE q # r
      BY <2>7, <3>1, <3>2 DEF Stairs
    <3>3. CASE q = r
      <4>1. X[r][j] = 0 /\ X[r2][j] = 0
        BY <3>1 DEF Stairs
      <4>2. Y[r][j] = 0 ++ (g ** 0)
        BY <2>51, <2>7, <3>1, <4>1
      <4>3. 0 ++ (g ** 0) = 0
        BY <2>5, Units, FieldInt
      <4> QED
        BY <3>1, <3>3, <4>2, <4>3
    <3> QED
      BY <3>2, <3>3
  <2> QED
    BY <1>3, <2>6, <2>7, <2>9, <2>10, <2>11 DEF Y
<1> QED
  BY <1>2, <1>3

LEMMA SwapStepType ==
    ASSUME Modulus, NEW H \in Nat \ {0}, NEW N \in Nat, NEW X \in Matrices(H, N),
           NEW r \in Idx(H), NEW r2 \in Idx(H)
    PROVE  SwapStep(X, r, r2) \in Matrices(H, N)
<1>1. Width(X) = N /\ DOMAIN X = Idx(H)
  BY MatrixIs
<1> DEFINE K == r..(Width(X) - 1)
           m == Minus(X, r, -1, r2, K)
<1>2. m \in Vec(Idx(N))
  <2> HIDE DEF K
  <2>1. -1 \in Int
    OBVIOUS
  <2> QED
    BY <2>1, MinusType
<1>3. SwapStep(X, r, r2) = IF X[r][r] = 0 THEN [X EXCEPT ![r] = m] ELSE X
  BY DEF SwapStep
<1> HIDE DEF m
<1> QED
  BY <1>1, <1>2, <1>3 DEF Matrices, Mat

LEMMA SwapLoop ==
    ASSUME Modulus, NEW H, NEW N, NEW R, Sized(H, N, R), NEW X \in Matrices(H, N), NEW r \in Idx(R)
    PROVE  \E s \in [0..(R - 1 - r) -> Matrices(H, N)] :
               /\ s[0] = X
               /\ \A k \in 1..(R - 1 - r) : s[k] = SwapStep(s[k - 1], r, r + 1 + (k - 1))
               /\ Swap(X, r, R) = s[R - 1 - r]
<1> DEFINE V == Matrices(H, N)
           n == R - 1 - r
           step == [k \in 1..n |-> [M \in V |-> SwapStep(M, r, r + 1 + (k - 1))]]
           E(g) == [k \in 0..n |-> IF k = 0 THEN X ELSE SwapStep(g[k - 1], r, r + 1 + (k - 1))]
<1>0. H \in Nat \ {0} /\ N \in Nat /\ n \in Nat /\ r \in Idx(H)
      /\ \A k \in 1..n : r + 1 + (k - 1) \in Idx(H)
  BY DEF Sized, Idx
<1>1. \A k \in 1..n, M \in V : SwapStep(M, r, r + 1 + (k - 1)) \in V
  BY <1>0, SwapStepType
<1>2. X \in V /\ step \in [1..n -> [V -> V]]
  <2> HIDE DEF V, n
  <2>1. X \in V
    BY DEF V
  <2> QED
    BY <1>1, <2>1
<1>3. \A k \in 1..n, M \in V : step[k][M] = SwapStep(M, r, r + 1 + (k - 1))
  OBVIOUS
<1>4. Swap(X, r, R) = (CHOOSE g : g = E(g))[n]
  BY DEF Swap, Loop
<1> HIDE DEF V, n
<1>5. ASSUME NEW g, g = E(g)
      PROVE  LoopEq(g, V, X, n, step)
  <2>1. g = [k \in 0..n |-> g[k]] /\ g[0] = X
    BY <1>0, <1>5
  <2>2. \A k \in 1..n : g[k] = SwapStep(g[k - 1], r, r + 1 + (k - 1))
    BY <1>0, <1>5
  <2> HIDE DEF step, E
  <2> QED
    BY <2>1, <2>2, <1>3 DEF LoopEq
<1>6. ASSUME NEW g \in [0..n -> V], Iterates(g, X, n, step)
      PROVE  g = E(g) /\ g[0] = X
             /\ \A k \in 1..n : g[k] = SwapStep(g[k - 1], r, r + 1 + (k - 1))
  <2>1. \A k \in 1..n : g[k - 1] \in V
    BY <1>0
  <2>2. g[0] = X /\ \A k \in 1..n : g[k] = step[k][g[k - 1]]
    BY <1>6 DEF Iterates
  <2> HIDE DEF step
  <2>3. \A k \in 1..n : g[k] = SwapStep(g[k - 1], r, r + 1 + (k - 1))
    BY <2>1, <2>2, <1>3
  <2> QED
    BY <1>0, <2>2, <2>3
<1> HIDE DEF step, E
<1>7. PICK s \in [0..n -> V] : Iterates(s, X, n, step) /\ \A g : LoopEq(g, V, X, n, step) => g = s
  BY <1>0, <1>2, LoopValues
<1>8. Swap(X, r, R) = s[n]
  BY <1>4, <1>5, <1>6, <1>7
<1> QED
  BY <1>6, <1>7, <1>8 DEF V, n

\* A zero pivot is left only where there are zeros all the way down.
LEMMA SwapIs ==
    ASSUME Modulus, NEW H, NEW N, NEW R, Sized(H, N, R), NEW X \in Matrices(H, N),
           NEW r \in Idx(R), Stairs(X, r, R)
    PROVE  /\ Swap(X, r, R) \in Matrices(H, N)
           /\ Stairs(Swap(X, r, R), r, R)
           /\ Span(Idx(N), Swap(X, r, R)) = Span(Idx(N), X)
           /\ \A q \in Idx(H) \ {r} : Swap(X, r, R)[q] = X[q]
           /\ Swap(X, r, R)[r][r] = 0 =>
                  \A q \in Idx(R) : q >= r => Swap(X, r, R)[q][r] = 0
<1> DEFINE n == R - 1 - r
           C == Idx(N)
<1>0. /\ R \in Nat /\ r \in Nat /\ n \in Nat /\ n = R - 1 - r
      /\ \A k \in 1..n : k \in Nat /\ k - 1 \in 0..n /\ r + 1 + (k - 1) = r + k /\ r + k \in Idx(R) /\ r + k > r
  BY DEF Sized, Idx
<1>1. PICK s \in [0..n -> Matrices(H, N)] :
          /\ s[0] = X
          /\ \A k \in 1..n : s[k] = SwapStep(s[k - 1], r, r + 1 + (k - 1))
          /\ Swap(X, r, R) = s[n]
  BY SwapLoop
<1> DEFINE P(k) == /\ Stairs(s[k], r, R)
                   /\ Span(C, s[k]) = Span(C, X)
                   /\ \A q \in Idx(H) \ {r} : s[k][q] = X[q]
                   /\ s[k][r][r] = 0 => \A q \in Idx(R) : q >= r /\ q <= r + k => s[k][q][r] = 0
           S == {k \in Nat : k <= n => P(k)}
<1> HIDE DEF n
<1>2. 0 \in S
  <2>1. \A q \in Idx(R) : q >= r /\ q <= r + 0 => q = r
    BY <1>0 DEF Idx
  <2> QED
    BY <1>1, <2>1
<1>3. ASSUME NEW k \in S PROVE k + 1 \in S
  <2> SUFFICES ASSUME k + 1 <= n PROVE P(k + 1)
    BY <1>0
  <2>1. k \in Nat /\ k + 1 \in 1..n /\ (k + 1) - 1 = k /\ k \in 0..n /\ k <= n
    BY <1>0
  <2> DEFINE r2 == r + (k + 1)
             M == s[k]
             Y == s[k + 1]
  <2>2. r2 \in Idx(R) /\ r2 > r /\ Y = SwapStep(M, r, r2)
    BY <1>0, <1>1, <2>1
  <2>3. M \in Matrices(H, N)
    BY <2>1
  <2>4. /\ Stairs(M, r, R)
        /\ Span(C, M) = Span(C, X)
        /\ \A q \in Idx(H) \ {r} : M[q] = X[q]
        /\ M[r][r] = 0 => \A q \in Idx(R) : q >= r /\ q <= r + k => M[q][r] = 0
    BY <1>3, <2>1
  <2>6. r2 = r + (k + 1)
    OBVIOUS
  <2> HIDE DEF r2, M, Y, C
  <2>5. /\ Stairs(Y, r, R)
        /\ Span(Idx(N), Y) = Span(Idx(N), M)
        /\ \A q \in Idx(H) \ {r} : Y[q] = M[q]
        /\ Y[r][r] = IF M[r][r] = 0 THEN M[r2][r] ELSE M[r][r]
    BY <2>2, <2>3, <2>4, SwapStepIs
  <2>7. ASSUME Y[r][r] = 0, NEW q \in Idx(R), q >= r, q <= r2 PROVE Y[q][r] = 0
    <3>1. M[r][r] = 0 /\ M[r2][r] = 0
      BY <2>5, <2>7
    <3>2. q \in Idx(H) /\ q \in Nat /\ (q = r \/ q = r2 \/ (q # r /\ q <= r + k))
      BY <1>0, <2>1, <2>6, <2>7 DEF Sized, Idx
    <3>3. q # r => Y[q] = M[q]
      BY <2>5, <3>2
    <3> QED
      BY <2>4, <2>7, <3>1, <3>2, <3>3
  <2> QED
    BY <2>4, <2>5, <2>6, <2>7 DEF Y, r2, C
<1>4. S \subseteq Nat /\ (n \in S => P(n))
  BY <1>0
<1> HIDE DEF S
<1>5. S = Nat
  BY <1>2, <1>3, <1>4, Induction
<1>6. P(n)
  BY <1>0, <1>4, <1>5
<1>7. \A q \in Idx(R) : q >= r => q <= r + n
  BY <1>0 DEF Idx
<1>8. s[n] \in Matrices(H, N)
  BY <1>0
<1> QED
  BY <1>1, <1>6, <1>7, <1>8 DEF n

LEMMA InverseIs ==
    ASSUME Modulus, IsField(MEDS_p), NEW x \in Field, x # 0
    PROVE  GF_inv(x) \in Field /\ x ** GF_inv(x) = 1 /\ GF_inv(x) ** x = 1
<1>1. x \in 1..(MEDS_p - 1)
  BY DEF Field, Modulus
<1>2. GF_inv(x) \in Field /\ (x * GF_inv(x)) % MEDS_p = 1
  BY <1>1 DEF IsField, GF_inv, Field
<1> QED
  BY <1>2, Comm DEF **

\* Row r times the inverse of its pivot.
LEMMA NormalizeType ==
    ASSUME Modulus, IsField(MEDS_p), NEW H \in Nat \ {0}, NEW N \in Nat, NEW X \in Matrices(H, N),
           NEW r \in Idx(H), r \in Idx(N), X[r][r] # 0, NEW Cols
    PROVE  /\ Normalize(X, r, Cols) \in Matrices(H, N)
           /\ \A q \in Idx(H) \ {r} : Normalize(X, r, Cols)[q] = X[q]
           /\ \A c \in Idx(N) : Normalize(X, r, Cols)[r][c] =
                  IF c \in Cols THEN X[r][c] ** GF_inv(X[r][r]) ELSE X[r][c]
<1>1. DOMAIN X = Idx(H) /\ DOMAIN X[r] = Idx(N) /\ \A c \in Idx(N) : X[r][c] \in Field
  BY MatrixIs
<1>2. GF_inv(X[r][r]) \in Field
  BY <1>1, InverseIs
<1> DEFINE w == [c \in Idx(N) |-> IF c \in Cols THEN X[r][c] ** GF_inv(X[r][r]) ELSE X[r][c]]
<1>3. w \in Vec(Idx(N))
  BY <1>1, <1>2, Comm DEF Vec
<1>4. Normalize(X, r, Cols) = [X EXCEPT ![r] = Row(w)]
  BY <1>1 DEF Normalize, **
<1>5. Row(w) = w
  <2> HIDE DEF w
  <2> QED
    BY RowIs
<1> QED
  BY <1>1, <1>3, <1>4, <1>5 DEF Matrices, Mat

LEMMA NormalizeIs ==
    ASSUME Modulus, IsField(MEDS_p), NEW H, NEW N, NEW R, Sized(H, N, R), NEW X \in Matrices(H, N),
           NEW r \in Idx(R), Stairs(X, r, R), X[r][r] # 0
    PROVE  LET Y == Normalize(X, r, r..(N - 1))
           IN  /\ Y \in Matrices(H, N)
               /\ Stairs(Y, r, R) /\ Y[r][r] = 1
               /\ Span(Idx(N), Y) = Span(Idx(N), X)
               /\ \A q \in Idx(H) \ {r} : Y[q] = X[q]
<1> DEFINE K == r..(N - 1)
           Y == Normalize(X, r, K)
           C == Idx(N)
           D == Idx(H)
           a == GF_inv(X[r][r])
<1>0. /\ H \in Nat \ {0} /\ N \in Nat /\ R \in Nat /\ r \in Nat /\ r \in D /\ r \in C
      /\ \A c \in C : c \notin K => c \in Idx(r) /\ c < r
      /\ r \in K /\ Idx(r) \subseteq C /\ Idx(R) \subseteq D /\ \A j \in Idx(r) : j < r
  BY DEF Sized, Idx
<1>1. X[r] \in Vec(C) /\ \A c \in C : X[r][c] \in Field
  BY <1>0, MatrixIs
<1>2. a \in Field /\ X[r][r] ** a = 1
  BY <1>0, <1>1, InverseIs
<1>3. /\ Y \in Matrices(H, N)
      /\ \A q \in D \ {r} : Y[q] = X[q]
      /\ \A c \in C : Y[r][c] = IF c \in K THEN X[r][c] ** a ELSE X[r][c]
  <2> HIDE DEF K
  <2> QED
    BY <1>0, NormalizeType
<1> HIDE DEF K, Y, a
<1>4. \A c \in C : Y[r][c] = a ** X[r][c]
  <2> TAKE c \in C
  <2>1. CASE c \in K
    BY <1>1, <1>2, <1>3, <2>1, Comm
  <2>2. CASE c \notin K
    <3>1. X[r][c] = 0
      BY <1>0, <2>2 DEF Stairs
    <3> QED
      BY <1>2, <1>3, <2>2, <3>1, Units
  <2> QED
    BY <2>1, <2>2
<1>5. Span(C, Y) = Span(C, X)
  <2> HIDE DEF C, D
  <2>1. X \in Mat(D, C) /\ Y \in Mat(D, C)
    BY <1>3 DEF Matrices, C, D
  <2>2. PICK b \in Field : b = X[r][r]
    BY <1>0, <1>1
  <2>3. b ** a = 1
    BY <1>2, <2>2
  <2>4. r \in D /\ a \in Field
    BY <1>0, <1>2
  <2>5. \A q \in D \ {r} : Y[q] = X[q]
    BY <1>3
  <2> QED
    BY ONLY Modulus, <1>4, <2>1, <2>3, <2>4, <2>5, b \in Field, SpanScaled
<1>6. Y[r][r] = 1
  BY <1>0, <1>2, <1>3
<1>7. Stairs(Y, r, R)
  <2> SUFFICES ASSUME NEW j \in Idx(r)
               PROVE  Y[j][j] = 1 /\ \A q \in Idx(R) : q > j => Y[q][j] = 0
    BY DEF Stairs
  <2>1. j < r /\ j \in Nat /\ j \in D /\ j \in C /\ j # r
    BY <1>0 DEF Idx, Sized
  <2>2. Y[j] = X[j] /\ X[j][j] = 1
    BY <1>3, <2>1 DEF Stairs
  <2>3. ASSUME NEW q \in Idx(R), q > j PROVE Y[q][j] = 0
    <3>1. X[q][j] = 0 /\ q \in D
      BY <1>0, <2>3 DEF Stairs
    <3>2. CASE q # r
      BY <1>3, <3>1, <3>2
    <3>3. CASE q = r
      BY <1>2, <1>4, <2>1, <3>1, <3>3, Units
    <3> QED
      BY <3>2, <3>3
  <2> QED
    BY <2>2, <2>3
<1> QED
  BY <1>3, <1>5, <1>6, <1>7 DEF Y, K

\* The pivot clears the column below it.
LEMMA EliminateIs ==
    ASSUME Modulus, NEW H, NEW N, NEW R, Sized(H, N, R), NEW X \in Matrices(H, N),
           NEW r \in Idx(R), Stairs(X, r, R), X[r][r] = 1
    PROVE  /\ Eliminate(X, r, R) \in Matrices(H, N)
           /\ Stairs(Eliminate(X, r, R), r + 1, R)
           /\ Span(Idx(N), Eliminate(X, r, R)) = Span(Idx(N), X)
<1> DEFINE K == r..(N - 1)
           C == Idx(N)
           D == Idx(H)
           g(q) == (-X[q][r]) % MEDS_p
           below == (r + 1)..(R - 1)
           m == [q \in D |-> IF q \in below THEN Minus(X, q, X[q][r], r, K) ELSE X[q]]
<1>0. /\ H \in Nat \ {0} /\ N \in Nat /\ R \in Nat /\ r \in Nat /\ r \in D /\ r \in C
      /\ \A c \in C : c \notin K => c \in Idx(r) /\ c < r
      /\ Idx(r) \subseteq C /\ Idx(R) \subseteq D /\ below \subseteq Idx(R) /\ r \notin below
      /\ \A q \in Idx(R) : q \in below <=> q > r
  BY DEF Sized, Idx
<1>1. Width(X) = N /\ DOMAIN X = D /\ \A q \in D : X[q] \in Vec(C) /\ \A c \in C : X[q][c] \in Field
  BY <1>0, MatrixIs
<1>2. Eliminate(X, r, R) = m
  <2>1. Eliminate(X, r, R) = Row(m)
    BY <1>1 DEF Eliminate
  <2> QED
    BY <2>1, RowIs
<1>3. \A c \in C : c \notin K => X[r][c] = 0
  <2> TAKE c \in C
  <2> HAVE c \notin K
  <2>1. c \in Idx(r) /\ r > c /\ r \in Idx(R)
    BY <1>0
  <2> QED
    BY <2>1 DEF Stairs
<1>4. \A q \in below : g(q) \in Field /\ m[q] = Plus(X[q], g(q), X[r])
  <2> TAKE q \in below
  <2> HIDE DEF K
  <2>1. q \in D /\ X[q][r] \in Int
    BY <1>0, <1>1, FieldInt
  <2>2. (-X[q][r]) % MEDS_p \in Field /\ Minus(X, q, X[q][r], r, K) = Plus(X[q], (-X[q][r]) % MEDS_p, X[r])
    BY <1>0, <1>3, <2>1, MinusIsPlus
  <2> QED
    BY <2>1, <2>2
<1>5. \A q \in D : q \notin below => m[q] = X[q]
  OBVIOUS
<1>6. m = [q \in D |-> m[q]]
  OBVIOUS
<1> HIDE DEF m
<1>7. ASSUME NEW q \in below
      PROVE  m[q] \in Vec(C) /\ \A c \in C : m[q][c] = X[q][c] ++ (g(q) ** X[r][c])
  <2> HIDE DEF C, g
  <2>1. PICK u \in Vec(C) : u = X[q]
    BY <1>0, <1>1
  <2>2. PICK v \in Vec(C) : v = X[r]
    BY <1>0, <1>1
  <2>3. g(q) \in Field
    BY <1>4
  <2>4. Plus(u, g(q), v) \in Vec(C) /\ \A c \in C : Plus(u, g(q), v)[c] = u[c] ++ (g(q) ** v[c])
    BY ONLY Modulus, u \in Vec(C), v \in Vec(C), <2>3, PlusType
  <2>5. m[q] = Plus(u, g(q), v)
    BY <1>4, <2>1, <2>2
  <2> QED
    BY <2>1, <2>2, <2>4, <2>5
<1>8. \A q \in D : m[q] \in Vec(C)
  BY <1>1, <1>5, <1>7
<1>9. m \in Mat(D, C)
  BY <1>6, <1>8 DEF Mat
<1>10. Span(C, m) = Span(C, X)
  <2>1. X \in Mat(D, C) /\ m[r] = X[r]
    BY <1>0, <1>5 DEF Matrices
  <2>2. \A q \in D : \E a \in Field : m[q] = Plus(X[q], a, X[r]) \/ m[q] = X[q]
    BY <1>4, <1>5, FieldInt
  <2>3. r \in D
    BY <1>0
  <2> HIDE DEF C, D, below, g
  <2> QED
    BY ONLY Modulus, <1>9, <2>1, <2>2, <2>3, SpanStep
<1>11. Stairs(m, r + 1, R)
  <2> SUFFICES ASSUME NEW j \in Idx(r + 1)
               PROVE  m[j][j] = 1 /\ \A q \in Idx(R) : q > j => m[q][j] = 0
    BY DEF Stairs
  <2>1. j \in Nat /\ j \in D /\ j \in C /\ j \notin below /\ j \in Idx(R) /\ (j = r \/ (j \in Idx(r) /\ r > j))
    BY <1>0 DEF Idx, Sized
  <2>2. m[j][j] = 1
    BY <1>5, <2>1 DEF Stairs
  <2>3. ASSUME NEW q \in Idx(R), q > j PROVE m[q][j] = 0
    <3>0. q \in D
      BY <1>0
    <3>1. CASE q \notin below
      <4>1. j \in Idx(r)
        BY <1>0, <2>1, <2>3, <3>1 DEF Idx
      <4> QED
        BY <1>5, <2>3, <3>0, <3>1, <4>1 DEF Stairs
    <3>2. CASE q \in below
      <4>1. m[q][j] = X[q][j] ++ (g(q) ** X[r][j]) /\ g(q) \in Field
        BY <1>4, <1>7, <2>1, <3>2
      <4>2. CASE j = r
        <5>1. PICK a \in Field : a = X[q][r]
          BY <1>0, <1>1, <3>0
        <5>2. g(q) = Neg(a)
          BY <5>1 DEF Neg
        <5> HIDE DEF g
        <5>3. g(q) ** 1 = g(q)
          BY <4>1, Units
        <5>4. a ++ Neg(a) = 0
          BY NegIs
        <5> QED
          BY <4>1, <4>2, <5>1, <5>2, <5>3, <5>4
      <4>3. CASE j \in Idx(r)
        <5>0. r > j
          BY <1>0, <4>3 DEF Idx
        <5>1. X[q][j] = 0
          BY <2>3, <4>3 DEF Stairs
        <5>2. X[r][j] = 0
          BY <4>3, <5>0 DEF Stairs
        <5> HIDE DEF g
        <5>3. g(q) ** 0 = 0 /\ 0 ++ 0 = 0
          BY <4>1, Units, FieldInt
        <5> QED
          BY <4>1, <5>1, <5>2, <5>3
      <4> QED
        BY <2>1, <4>2, <4>3
    <3> QED
      BY <3>1, <3>2
  <2> QED
    BY <2>2, <2>3
<1>12. m \in Matrices(H, N)
  BY <1>9 DEF Matrices
<1> QED
  BY <1>2, <1>10, <1>11, <1>12

-----------------------------------------------------------------------------
\* The echelon form.

States(H, N) == [ret : {0, -1}, mat : Matrices(H, N)]

\* No pivot: column r is zero from row r on.
Stuck(X, R) ==
    \E r \in Idx(R) : Stairs(X, r, R) /\ \A q \in Idx(R) : q >= r => X[q][r] = 0

LEMMA SwapType ==
    ASSUME Modulus, NEW H, NEW N, NEW R, Sized(H, N, R), NEW X \in Matrices(H, N), NEW r \in Idx(R)
    PROVE  Swap(X, r, R) \in Matrices(H, N)
<1>1. R - 1 - r \in 0..(R - 1 - r)
  BY DEF Sized, Idx
<1>2. PICK s \in [0..(R - 1 - r) -> Matrices(H, N)] : Swap(X, r, R) = s[R - 1 - r]
  BY SwapLoop
<1> QED
  BY <1>1, <1>2

LEMMA EliminateType ==
    ASSUME Modulus, NEW H \in Nat \ {0}, NEW N \in Nat, NEW X \in Matrices(H, N),
           NEW r \in Idx(H), r \in Idx(N), NEW R
    PROVE  Eliminate(X, r, R) \in Matrices(H, N)
<1> DEFINE K == r..(Width(X) - 1)
           D == Idx(H)
           below == (r + 1)..(R - 1)
           m == [q \in D |-> IF q \in below THEN Minus(X, q, X[q][r], r, K) ELSE X[q]]
<1>1. DOMAIN X = D /\ \A q \in D : X[q] \in Vec(Idx(N)) /\ X[q][r] \in Int
  BY MatrixIs, FieldInt
<1>2. \A q \in D : Minus(X, q, X[q][r], r, K) \in Vec(Idx(N))
  <2> HIDE DEF K
  <2> QED
    BY <1>1, MinusType
<1>3. \A q \in D : m[q] \in Vec(Idx(N))
  <2> HIDE DEF K, below
  <2> QED
    BY <1>1, <1>2
<1>4. Eliminate(X, r, R) = Row(m)
  BY <1>1 DEF Eliminate
<1>5. m = [q \in D |-> m[q]]
  OBVIOUS
<1> HIDE DEF m
<1>6. m \in Matrices(H, N)
  BY <1>3, <1>5 DEF Matrices, Mat
<1> QED
  BY <1>4, <1>6, RowIs

LEMMA EchelonStepType ==
    ASSUME Modulus, IsField(MEDS_p), NEW H, NEW N, NEW R, Sized(H, N, R),
           NEW s \in States(H, N), NEW r \in Idx(R)
    PROVE  EchelonStep(s, r, R) \in States(H, N)
<1> DEFINE X == Swap(s.mat, r, R)
           K == r..(Width(X) - 1)
           Y == Normalize(X, r, K)
           Z == Eliminate(Y, r, R)
<1>0. H \in Nat \ {0} /\ N \in Nat /\ r \in Idx(H) /\ r \in Idx(N)
  BY DEF Sized, Idx
<1>1. s.mat \in Matrices(H, N)
  BY DEF States
<1>2. X \in Matrices(H, N)
  BY <1>1, SwapType
<1>3. X[r][r] # 0 => Y \in Matrices(H, N)
  <2> HIDE DEF X, K
  <2> QED
    BY <1>0, <1>2, NormalizeType
<1>4. X[r][r] # 0 => Z \in Matrices(H, N)
  <2> HIDE DEF Y, X
  <2> QED
    BY <1>0, <1>3, EliminateType
<1>5. EchelonStep(s, r, R) =
          IF s.ret # 0 THEN s
          ELSE IF X[r][r] = 0 THEN [ret |-> -1, mat |-> X]
          ELSE [ret |-> 0, mat |-> Z]
  BY DEF EchelonStep
<1> HIDE DEF X, Y, Z
<1> QED
  BY <1>2, <1>4, <1>5 DEF States

LEMMA EchelonLoop ==
    ASSUME Modulus, IsField(MEDS_p), NEW H, NEW N, NEW R, Sized(H, N, R), NEW X \in Matrices(H, N)
    PROVE  \E s \in [0..R -> States(H, N)] :
               /\ s[0] = [ret |-> 0, mat |-> X]
               /\ \A k \in 1..R : s[k] = EchelonStep(s[k - 1], k - 1, R)
               /\ Echelon(X, R) = s[R]
<1> DEFINE V == States(H, N)
           z == [ret |-> 0, mat |-> X]
           step == [k \in 1..R |-> [M \in V |-> EchelonStep(M, k - 1, R)]]
           E(g) == [k \in 0..R |-> IF k = 0 THEN z ELSE EchelonStep(g[k - 1], k - 1, R)]
<1>0. R \in Nat /\ \A k \in 1..R : k - 1 \in Idx(R)
  BY DEF Sized, Idx
<1>1. \A k \in 1..R, M \in V : EchelonStep(M, k - 1, R) \in V
  BY <1>0, EchelonStepType
<1>2. z \in V /\ step \in [1..R -> [V -> V]]
  <2>1. z \in V
    BY DEF States
  <2> HIDE DEF V, z
  <2> QED
    BY <1>1, <2>1
<1>3. \A k \in 1..R, M \in V : step[k][M] = EchelonStep(M, k - 1, R)
  OBVIOUS
<1>4. Echelon(X, R) = (CHOOSE g : g = E(g))[R]
  BY DEF Echelon, Loop
<1> HIDE DEF V, z
<1>5. ASSUME NEW g, g = E(g)
      PROVE  LoopEq(g, V, z, R, step)
  <2>1. g = [k \in 0..R |-> g[k]] /\ g[0] = z
    BY <1>0, <1>5
  <2>2. \A k \in 1..R : g[k] = EchelonStep(g[k - 1], k - 1, R)
    BY <1>0, <1>5
  <2> HIDE DEF step, E
  <2> QED
    BY <2>1, <2>2, <1>3 DEF LoopEq
<1>6. ASSUME NEW g \in [0..R -> V], Iterates(g, z, R, step)
      PROVE  g = E(g) /\ g[0] = z
             /\ \A k \in 1..R : g[k] = EchelonStep(g[k - 1], k - 1, R)
  <2>1. \A k \in 1..R : g[k - 1] \in V
    BY <1>0
  <2>2. g[0] = z /\ \A k \in 1..R : g[k] = step[k][g[k - 1]]
    BY <1>6 DEF Iterates
  <2> HIDE DEF step
  <2>3. \A k \in 1..R : g[k] = EchelonStep(g[k - 1], k - 1, R)
    BY <2>1, <2>2, <1>3
  <2> QED
    BY <1>0, <2>2, <2>3
<1> HIDE DEF step, E
<1>7. PICK s \in [0..R -> V] : Iterates(s, z, R, step) /\ \A g : LoopEq(g, V, z, R, step) => g = s
  BY <1>0, <1>2, LoopValues
<1>8. Echelon(X, R) = s[R]
  BY <1>4, <1>5, <1>6, <1>7
<1> QED
  BY <1>6, <1>7, <1>8 DEF V, z

\* The rows span what they did; there are stairs, or there is no pivot.
Reduced(s, X, N, r, R) ==
    /\ Span(Idx(N), s.mat) = Span(Idx(N), X)
    /\ s.ret = 0 => Stairs(s.mat, r, R)
    /\ s.ret # 0 => Stuck(s.mat, R)

LEMMA EchelonStepIs ==
    ASSUME Modulus, IsField(MEDS_p), NEW H, NEW N, NEW R, Sized(H, N, R), NEW X \in Matrices(H, N),
           NEW s \in States(H, N), NEW r \in Idx(R), Reduced(s, X, N, r, R)
    PROVE  Reduced(EchelonStep(s, r, R), X, N, r + 1, R)
<1> DEFINE W == Swap(s.mat, r, R)
           K == r..(N - 1)
           Y == Normalize(W, r, K)
           Z == Eliminate(Y, r, R)
           C == Idx(N)
<1>0. H \in Nat \ {0} /\ N \in Nat
  BY DEF Sized
<1>1. s.mat \in Matrices(H, N)
  BY DEF States
<1>2. CASE s.ret # 0
  BY <1>2 DEF EchelonStep, Reduced
<1>3. CASE s.ret = 0
  <2>0. Stairs(s.mat, r, R) /\ Span(C, s.mat) = Span(C, X)
    BY <1>3 DEF Reduced
  <2>1. /\ W \in Matrices(H, N)
        /\ Stairs(W, r, R)
        /\ Span(Idx(N), W) = Span(Idx(N), s.mat)
        /\ W[r][r] = 0 => \A q \in Idx(R) : q >= r => W[q][r] = 0
    BY <1>1, <2>0, SwapIs
  <2>2. Width(W) = N
    <3> HIDE DEF W
    <3> QED
      BY <1>0, <2>1, MatrixIs
  <2>3. EchelonStep(s, r, R) =
          IF W[r][r] = 0 THEN [ret |-> -1, mat |-> W]
          ELSE [ret |-> 0, mat |-> Z]
    BY <1>3, <2>2 DEF EchelonStep
  <2> HIDE DEF W, Z
  <2>4. CASE W[r][r] = 0
    <3>1. EchelonStep(s, r, R) = [ret |-> -1, mat |-> W]
      BY <2>3, <2>4
    <3>2. Stuck(W, R)
      BY <2>1, <2>4 DEF Stuck
    <3> QED
      BY <2>0, <2>1, <3>1, <3>2 DEF Reduced
  <2>5. CASE W[r][r] # 0
    <3>1. EchelonStep(s, r, R) = [ret |-> 0, mat |-> Z]
      BY <2>3, <2>5
    <3>2. /\ Y \in Matrices(H, N)
          /\ Stairs(Y, r, R) /\ Y[r][r] = 1
          /\ Span(Idx(N), Y) = Span(Idx(N), W)
      BY <2>1, <2>5, NormalizeIs
    <3> HIDE DEF Y
    <3>3. Stairs(Z, r + 1, R) /\ Span(Idx(N), Z) = Span(Idx(N), Y)
      BY <3>2, EliminateIs DEF Z
    <3> QED
      BY <2>0, <2>1, <3>1, <3>2, <3>3 DEF Reduced
  <2> QED
    BY <2>4, <2>5
<1> QED
  BY <1>2, <1>3

LEMMA EchelonIs ==
    ASSUME Modulus, IsField(MEDS_p), NEW H, NEW N, NEW R, Sized(H, N, R), NEW X \in Matrices(H, N)
    PROVE  Echelon(X, R) \in States(H, N) /\ Reduced(Echelon(X, R), X, N, R, R)
<1>0. R \in Nat /\ R \in 0..R /\ 0 \in 0..R
  BY DEF Sized
<1>1. PICK s \in [0..R -> States(H, N)] :
          /\ s[0] = [ret |-> 0, mat |-> X]
          /\ \A k \in 1..R : s[k] = EchelonStep(s[k - 1], k - 1, R)
          /\ Echelon(X, R) = s[R]
  BY EchelonLoop
<1> DEFINE P(k) == Reduced(s[k], X, N, k, R)
           S == {k \in Nat : k <= R => P(k)}
<1>2. 0 \in S
  BY <1>1 DEF Reduced, Stairs, Idx
<1>3. ASSUME NEW k \in S PROVE k + 1 \in S
  <2> SUFFICES ASSUME k + 1 <= R PROVE P(k + 1)
    OBVIOUS
  <2>1. k \in Nat /\ k + 1 \in 1..R /\ (k + 1) - 1 = k /\ k \in 0..R /\ k <= R /\ k \in Idx(R)
    BY <1>0 DEF Idx
  <2>2. PICK t \in States(H, N) : t = s[k]
    BY <2>1
  <2>3. Reduced(t, X, N, k, R)
    BY <1>3, <2>1, <2>2
  <2>4. s[k + 1] = EchelonStep(t, k, R)
    BY <1>1, <2>1, <2>2
  <2> QED
    BY <2>1, <2>3, <2>4, EchelonStepIs
<1>4. S \subseteq Nat /\ (R \in S => P(R))
  BY <1>0
<1> HIDE DEF S
<1>5. S = Nat
  BY <1>2, <1>3, <1>4, Induction
<1>6. P(R)
  BY <1>0, <1>4, <1>5
<1> QED
  BY <1>0, <1>1, <1>6

-----------------------------------------------------------------------------
\* The back substitution.

\* Stairs whose columns from r on are zero above the diagonal as well.
Clean(X, r, R) ==
    /\ Stairs(X, R, R)
    /\ \A j \in Idx(R), q \in Idx(R) : j >= r /\ q < j => X[q][j] = 0

LEMMA SubstituteType ==
    ASSUME Modulus, NEW H \in Nat \ {0}, NEW N \in Nat, NEW X \in Matrices(H, N),
           NEW r \in Idx(H), r \in Idx(N), NEW R
    PROVE  Substitute(X, r, R) \in Matrices(H, N)
<1> DEFINE K == {r} \cup R..(Width(X) - 1)
           D == Idx(H)
           m == [q \in D |-> IF q < r THEN Minus(X, q, X[q][r], r, K) ELSE X[q]]
<1>1. DOMAIN X = D /\ \A q \in D : X[q] \in Vec(Idx(N)) /\ X[q][r] \in Int
  BY MatrixIs, FieldInt
<1>2. \A q \in D : Minus(X, q, X[q][r], r, K) \in Vec(Idx(N))
  <2> HIDE DEF K
  <2> QED
    BY <1>1, MinusType
<1>3. \A q \in D : m[q] \in Vec(Idx(N))
  <2> HIDE DEF K
  <2> QED
    BY <1>1, <1>2
<1>4. Substitute(X, r, R) = Row(m)
  BY <1>1 DEF Substitute
<1>5. m = [q \in D |-> m[q]]
  OBVIOUS
<1> HIDE DEF m
<1>6. m \in Matrices(H, N)
  BY <1>3, <1>5 DEF Matrices, Mat
<1> QED
  BY <1>4, <1>6, RowIs

\* Column r is cleared above the diagonal.
LEMMA SubstituteIs ==
    ASSUME Modulus, NEW H, NEW N, NEW R, Sized(H, N, R), NEW X \in Matrices(H, N),
           NEW r \in Idx(R), Clean(X, r + 1, R)
    PROVE  /\ Substitute(X, r, R) \in Matrices(H, N)
           /\ Clean(Substitute(X, r, R), r, R)
           /\ Span(Idx(N), Substitute(X, r, R)) = Span(Idx(N), X)
           /\ \A q \in Idx(H) : q >= r => Substitute(X, r, R)[q] = X[q]
<1> DEFINE K == {r} \cup R..(N - 1)
           C == Idx(N)
           D == Idx(H)
           g(q) == (-X[q][r]) % MEDS_p
           m == [q \in D |-> IF q < r THEN Minus(X, q, X[q][r], r, K) ELSE X[q]]
<1>0. /\ H \in Nat \ {0} /\ N \in Nat /\ R \in Nat /\ r \in Nat /\ r \in D /\ r \in C
      /\ \A c \in C : c \notin K => c \in Idx(R) /\ c # r
      /\ Idx(r) \subseteq D /\ Idx(R) \subseteq C /\ Idx(R) \subseteq D /\ Idx(R) \subseteq Nat
      /\ \A q \in D : q < r => q \in Idx(R)
  BY DEF Sized, Idx
<1>01. \A j, q \in Idx(R) : X[q][j] = 0 \/ q = j \/ (q < j /\ j <= r)
  <2> TAKE j, q \in Idx(R)
  <2>0. j \in Nat /\ q \in Nat /\ r \in Nat
    BY <1>0
  <2>1. CASE q > j
    BY <2>1 DEF Clean, Stairs
  <2>2. CASE q < j /\ j >= r + 1
    BY <2>2 DEF Clean
  <2> QED
    BY <2>0, <2>1, <2>2
<1>02. \A j \in Idx(R) : X[j][j] = 1
  BY DEF Clean, Stairs
<1>1. Width(X) = N /\ DOMAIN X = D /\ \A q \in D : X[q] \in Vec(C) /\ \A c \in C : X[q][c] \in Field
  BY <1>0, MatrixIs
<1>2. Substitute(X, r, R) = m
  <2>1. Substitute(X, r, R) = Row(m)
    BY <1>1 DEF Substitute
  <2> QED
    BY <2>1, RowIs
<1>3. \A c \in C : c \notin K => X[r][c] = 0
  <2> TAKE c \in C
  <2> HAVE c \notin K
  <2>1. c \in Idx(R) /\ c # r /\ c \in Nat
    BY <1>0
  <2>2. ~(r < c /\ c <= r)
    BY <1>0, <2>1
  <2> QED
    BY <1>01, <2>1, <2>2
<1>4. \A q \in D : q < r => g(q) \in Field /\ m[q] = Plus(X[q], g(q), X[r])
  <2> TAKE q \in D
  <2> HAVE q < r
  <2> HIDE DEF K
  <2>1. PICK f \in Int : f = X[q][r]
    BY <1>0, <1>1, FieldInt
  <2>2. H \in Nat \ {0} /\ N \in Nat /\ q \in Idx(H) /\ r \in Idx(H)
    BY <1>0
  <2>3. \A c \in Idx(N) : c \notin K => X[r][c] = 0
    BY <1>3
  <2>4. (-f) % MEDS_p \in Field /\ Minus(X, q, f, r, K) = Plus(X[q], (-f) % MEDS_p, X[r])
    BY ONLY Modulus, <2>2, <2>3, X \in Matrices(H, N), f \in Int, MinusIsPlus
  <2> QED
    BY <2>1, <2>4
<1>5. \A q \in D : ~(q < r) => m[q] = X[q]
  OBVIOUS
<1>6. m = [q \in D |-> m[q]]
  OBVIOUS
<1> HIDE DEF m
<1>7. ASSUME NEW q \in D, q < r
      PROVE  m[q] \in Vec(C) /\ \A c \in C : m[q][c] = X[q][c] ++ (g(q) ** X[r][c])
  <2> HIDE DEF C, g
  <2>1. PICK u \in Vec(C) : u = X[q]
    BY <1>0, <1>1
  <2>2. PICK v \in Vec(C) : v = X[r]
    BY <1>0, <1>1
  <2>3. g(q) \in Field
    BY <1>4, <1>7
  <2>4. Plus(u, g(q), v) \in Vec(C) /\ \A c \in C : Plus(u, g(q), v)[c] = u[c] ++ (g(q) ** v[c])
    BY ONLY Modulus, u \in Vec(C), v \in Vec(C), <2>3, PlusType
  <2>5. m[q] = Plus(u, g(q), v)
    BY <1>4, <1>7, <2>1, <2>2
  <2> QED
    BY <2>1, <2>2, <2>4, <2>5
<1>8. \A q \in D : m[q] \in Vec(C)
  BY <1>1, <1>5, <1>7
<1>9. m \in Mat(D, C)
  BY <1>6, <1>8 DEF Mat
<1>10. Span(C, m) = Span(C, X)
  <2>1. X \in Mat(D, C) /\ m[r] = X[r]
    BY <1>0, <1>5 DEF Matrices
  <2>2. \A q \in D : \E a \in Field : m[q] = Plus(X[q], a, X[r]) \/ m[q] = X[q]
    BY <1>4, <1>5, FieldInt
  <2>3. r \in D
    BY <1>0
  <2> HIDE DEF C, D, g
  <2> QED
    BY ONLY Modulus, <1>9, <2>1, <2>2, <2>3, SpanStep
<1>11. ASSUME NEW j \in Idx(R), NEW q \in Idx(R)
       PROVE  /\ q = j => m[q][j] = 1
              /\ q > j => m[q][j] = 0
              /\ j >= r /\ q < j => m[q][j] = 0
  <2>0. j \in Nat /\ q \in Nat /\ j \in C /\ q \in D /\ r \in Nat /\ r \in Idx(R)
    BY <1>0
  <2>1. CASE ~(q < r)
    <3>1. m[q] = X[q]
      BY <1>5, <2>0, <2>1
    <3>2. X[q][j] = 0 \/ q = j \/ (q < j /\ j <= r)
      BY <1>01
    <3> QED
      BY <1>02, <2>0, <2>1, <3>1, <3>2
  <2>2. CASE q < r
    <3>1. m[q][j] = X[q][j] ++ (g(q) ** X[r][j]) /\ g(q) \in Field
      BY <1>4, <1>7, <2>0, <2>2
    <3>2. CASE j = r
      <4>1. PICK a \in Field : a = X[q][r]
        BY <1>0, <1>1, <2>0
      <4>2. g(q) = Neg(a)
        BY <4>1 DEF Neg
      <4> HIDE DEF g
      <4>3. g(q) ** 1 = g(q)
        BY <3>1, Units
      <4>4. a ++ Neg(a) = 0
        BY NegIs
      <4>5. X[r][j] = 1
        BY <1>02, <3>2
      <4>6. m[q][j] = 0
        BY <3>1, <3>2, <4>1, <4>2, <4>3, <4>4, <4>5
      <4> QED
        BY <2>0, <2>2, <3>2, <4>6
    <3>3. CASE j # r
      <4>1. X[r][j] = 0
        <5>1. X[r][j] = 0 \/ r = j \/ (r < j /\ j <= r)
          BY <1>01, <2>0
        <5> QED
          BY <2>0, <3>3, <5>1
      <4> HIDE DEF g
      <4>2. g(q) ** 0 = 0 /\ X[q][j] ++ 0 = X[q][j]
        BY <1>1, <2>0, <3>1, Units
      <4>3. m[q][j] = X[q][j]
        BY <3>1, <4>1, <4>2
      <4>4. X[q][j] = 0 \/ q = j \/ (q < j /\ j <= r)
        BY <1>01
      <4> QED
        BY <1>02, <2>0, <3>3, <4>3, <4>4
    <3> QED
      BY <3>2, <3>3
  <2> QED
    BY <2>1, <2>2
<1>12. Clean(m, r, R)
  BY <1>11 DEF Clean, Stairs
<1>13. \A q \in D : q >= r => m[q] = X[q]
  <2>1. \A q \in D : q >= r => ~(q < r)
    BY <1>0, IdxIs
  <2> QED
    BY <1>5, <2>1
<1>14. m \in Matrices(H, N)
  BY <1>9 DEF Matrices
<1> QED
  BY <1>2, <1>10, <1>12, <1>13, <1>14

LEMMA BackLoop ==
    ASSUME Modulus, NEW H, NEW N, NEW R, Sized(H, N, R), NEW X \in Matrices(H, N)
    PROVE  \E s \in [0..R -> Matrices(H, N)] :
               /\ s[0] = X
               /\ \A k \in 1..R : s[k] = Substitute(s[k - 1], R - 1 - (k - 1), R)
               /\ BackSubstitute(X, R) = s[R]
<1> DEFINE V == Matrices(H, N)
           step == [k \in 1..R |-> [M \in V |-> Substitute(M, R - 1 - (k - 1), R)]]
           E(g) == [k \in 0..R |-> IF k = 0 THEN X ELSE Substitute(g[k - 1], R - 1 - (k - 1), R)]
<1>0. H \in Nat \ {0} /\ N \in Nat /\ R \in Nat
      /\ \A k \in 1..R : R - 1 - (k - 1) \in Idx(H) /\ R - 1 - (k - 1) \in Idx(N)
  BY DEF Sized, Idx
<1>1. \A k \in 1..R, M \in V : Substitute(M, R - 1 - (k - 1), R) \in V
  BY <1>0, SubstituteType
<1>2. X \in V /\ step \in [1..R -> [V -> V]]
  <2> HIDE DEF V
  <2>1. X \in V
    BY DEF V
  <2> QED
    BY <1>1, <2>1
<1>3. \A k \in 1..R, M \in V : step[k][M] = Substitute(M, R - 1 - (k - 1), R)
  OBVIOUS
<1>4. BackSubstitute(X, R) = (CHOOSE g : g = E(g))[R]
  BY DEF BackSubstitute, Loop
<1> HIDE DEF V
<1>5. ASSUME NEW g, g = E(g)
      PROVE  LoopEq(g, V, X, R, step)
  <2>1. g = [k \in 0..R |-> g[k]] /\ g[0] = X
    BY <1>0, <1>5
  <2>2. \A k \in 1..R : g[k] = Substitute(g[k - 1], R - 1 - (k - 1), R)
    BY <1>0, <1>5
  <2> HIDE DEF step, E
  <2> QED
    BY <2>1, <2>2, <1>3 DEF LoopEq
<1>6. ASSUME NEW g \in [0..R -> V], Iterates(g, X, R, step)
      PROVE  g = E(g) /\ g[0] = X
             /\ \A k \in 1..R : g[k] = Substitute(g[k - 1], R - 1 - (k - 1), R)
  <2>1. \A k \in 1..R : g[k - 1] \in V
    BY <1>0
  <2>2. g[0] = X /\ \A k \in 1..R : g[k] = step[k][g[k - 1]]
    BY <1>6 DEF Iterates
  <2> HIDE DEF step
  <2>3. \A k \in 1..R : g[k] = Substitute(g[k - 1], R - 1 - (k - 1), R)
    BY <2>1, <2>2, <1>3
  <2> QED
    BY <1>0, <2>2, <2>3
<1> HIDE DEF step, E
<1>7. PICK s \in [0..R -> V] : Iterates(s, X, R, step) /\ \A g : LoopEq(g, V, X, R, step) => g = s
  BY <1>0, <1>2, LoopValues
<1>8. BackSubstitute(X, R) = s[R]
  BY <1>4, <1>5, <1>6, <1>7
<1> QED
  BY <1>6, <1>7, <1>8 DEF V

LEMMA BackIs ==
    ASSUME Modulus, NEW H, NEW N, NEW R, Sized(H, N, R), NEW X \in Matrices(H, N), Stairs(X, R, R)
    PROVE  /\ BackSubstitute(X, R) \in Matrices(H, N)
           /\ Clean(BackSubstitute(X, R), 0, R)
           /\ Span(Idx(N), BackSubstitute(X, R)) = Span(Idx(N), X)
           /\ \A q \in Idx(H) : q >= R => BackSubstitute(X, R)[q] = X[q]
<1>0. R \in Nat /\ R \in 0..R /\ 0 \in 0..R
  BY DEF Sized
<1>1. PICK s \in [0..R -> Matrices(H, N)] :
          /\ s[0] = X
          /\ \A k \in 1..R : s[k] = Substitute(s[k - 1], R - 1 - (k - 1), R)
          /\ BackSubstitute(X, R) = s[R]
  BY BackLoop
<1> DEFINE P(k) == /\ Clean(s[k], R - k, R)
                   /\ Span(Idx(N), s[k]) = Span(Idx(N), X)
                   /\ \A q \in Idx(H) : q >= R => s[k][q] = X[q]
           S == {k \in Nat : k <= R => P(k)}
<1>2. 0 \in S
  <2>1. \A j \in Idx(R) : ~(j >= R - 0)
    BY <1>0 DEF Idx
  <2> QED
    BY <1>1, <2>1 DEF Clean
<1>3. ASSUME NEW k \in S PROVE k + 1 \in S
  <2> SUFFICES ASSUME k + 1 <= R PROVE P(k + 1)
    OBVIOUS
  <2> DEFINE r == R - (k + 1)
  <2>1. /\ k \in Nat /\ k + 1 \in 1..R /\ (k + 1) - 1 = k /\ k \in 0..R /\ k <= R /\ r \in Idx(R)
        /\ R - 1 - k = r /\ R - k = r + 1 /\ r < R /\ r \in Nat
    BY <1>0 DEF Idx
  <2>2. PICK t \in Matrices(H, N) : t = s[k]
    BY <2>1
  <2>3. /\ Clean(t, r + 1, R) /\ Span(Idx(N), t) = Span(Idx(N), X)
        /\ \A q \in Idx(H) : q >= R => t[q] = X[q]
    BY <1>3, <2>1, <2>2
  <2>4. s[k + 1] = Substitute(t, r, R)
    BY <1>1, <2>1, <2>2
  <2>5. /\ Clean(Substitute(t, r, R), r, R)
        /\ Span(Idx(N), Substitute(t, r, R)) = Span(Idx(N), t)
        /\ \A q \in Idx(H) : q >= r => Substitute(t, r, R)[q] = t[q]
    <3> HIDE DEF r
    <3> QED
      BY <2>1, <2>3, SubstituteIs
  <2>6. \A q \in Idx(H) : q >= R => q >= r
    BY <1>0, <2>1 DEF Sized, Idx
  <2> QED
    BY <2>3, <2>4, <2>5, <2>6
<1>4. S \subseteq Nat /\ (R \in S => P(R))
  BY <1>0
<1> HIDE DEF S
<1>5. S = Nat
  BY <1>2, <1>3, <1>4, Induction
<1>6. P(R) /\ R - R = 0
  BY <1>0, <1>4, <1>5
<1> QED
  BY <1>0, <1>1, <1>6

\* The identity in the first R rows and columns.
Systematic(X, R) == \A r, c \in Idx(R) : X[r][c] = IF r = c THEN 1 ELSE 0

\* pmod_mat_syst_ct keeps the span of the rows; it returns the systematic form
\* or, with ret = -1, a matrix whose elimination got stuck.
THEOREM SystIs ==
    ASSUME Modulus, IsField(MEDS_p), NEW H, NEW N, NEW R, Sized(H, N, R), NEW X \in Matrices(H, N)
    PROVE  /\ pmod_mat_syst_ct(X, R) \in States(H, N)
           /\ pmod_mat_syst_ct(X, R).ret = Echelon(X, R).ret
           /\ Span(Idx(N), pmod_mat_syst_ct(X, R).mat) = Span(Idx(N), X)
           /\ pmod_mat_syst_ct(X, R).ret = 0 => Systematic(pmod_mat_syst_ct(X, R).mat, R)
           /\ pmod_mat_syst_ct(X, R).ret # 0 => Stuck(pmod_mat_syst_ct(X, R).mat, R)
<1> DEFINE e == Echelon(X, R)
           Y == BackSubstitute(e.mat, R)
<1>1. e \in States(H, N) /\ Reduced(e, X, N, R, R)
  BY EchelonIs
<1>2. pmod_mat_syst_ct(X, R) = IF e.ret = 0 THEN [ret |-> 0, mat |-> Y] ELSE e
  BY DEF pmod_mat_syst_ct
<1> HIDE DEF e
<1>3. e.mat \in Matrices(H, N)
  BY <1>1 DEF States
<1>4. CASE e.ret = 0
  <2>1. Stairs(e.mat, R, R)
    BY <1>1, <1>4 DEF Reduced
  <2>2. /\ Y \in Matrices(H, N)
        /\ Clean(Y, 0, R)
        /\ Span(Idx(N), Y) = Span(Idx(N), e.mat)
    BY <1>3, <2>1, BackIs
  <2> HIDE DEF Y
  <2>3. Systematic(Y, R)
    <3> SUFFICES ASSUME NEW r \in Idx(R), NEW c \in Idx(R) PROVE Y[r][c] = IF r = c THEN 1 ELSE 0
      BY DEF Systematic
    <3>1. r \in Nat /\ c \in Nat /\ c >= 0 /\ (r = c \/ r > c \/ r < c)
      BY DEF Idx, Sized
    <3>2. r > c => Y[r][c] = 0
      BY <2>2 DEF Clean, Stairs
    <3>3. Y[c][c] = 1
      BY <2>2 DEF Clean, Stairs
    <3>4. r < c => Y[r][c] = 0
      BY <2>2, <3>1 DEF Clean
    <3> QED
      BY <3>1, <3>2, <3>3, <3>4
  <2>4. pmod_mat_syst_ct(X, R) = [ret |-> 0, mat |-> Y]
    BY <1>2, <1>4
  <2> QED
    BY <1>1, <1>4, <2>2, <2>3, <2>4 DEF Reduced, States, e
<1>5. CASE e.ret # 0
  <2>1. pmod_mat_syst_ct(X, R) = e
    BY <1>2, <1>5
  <2> QED
    BY <1>1, <1>5, <2>1 DEF Reduced, e
<1> QED
  BY <1>4, <1>5

-----------------------------------------------------------------------------
\* The rows whose entry in column c is the combination a of those in the columns e.
Combined(C, c, k, e, a) ==
    {w \in Vec(C) : w[c] = FieldSum(k, [j \in Idx(k) |-> w[e[j]] ** a[j]])}

LEMMA CombinedIs ==
    ASSUME Modulus, NEW C, NEW c \in C, NEW k \in Nat, NEW e \in [Idx(k) -> C],
           NEW a \in [Idx(k) -> Field]
    PROVE  Subspace(Combined(C, c, k, e, a)) /\ Combined(C, c, k, e, a) \in SUBSET Vec(C)
<1> DEFINE t(w) == [j \in Idx(k) |-> w[e[j]] ** a[j]]
<1>1. \A w \in Vec(C) : Terms(t(w), k)
  <2> TAKE w \in Vec(C)
  <2>1. \A j \in Idx(k) : w[e[j]] \in Field /\ a[j] \in Field
    BY DEF Vec
  <2> QED
    BY <2>1, Comm DEF Terms
<1>2. ASSUME NEW u \in Combined(C, c, k, e, a), NEW v \in Combined(C, c, k, e, a), NEW g \in Field
      PROVE  Plus(u, g, v) \in Combined(C, c, k, e, a)
  <2>1. u \in Vec(C) /\ v \in Vec(C) /\ u[c] = FieldSum(k, t(u)) /\ v[c] = FieldSum(k, t(v))
    BY DEF Combined
  <2> DEFINE w == Plus(u, g, v)
  <2>2. w \in Vec(C) /\ \A x \in C : w[x] = u[x] ++ (g ** v[x])
    BY <2>1, PlusType
  <2> HIDE DEF w
  <2>3. \A j \in Idx(k) : t(w)[j] = t(u)[j] ++ (g ** t(v)[j])
    <3> TAKE j \in Idx(k)
    <3> DEFINE x == u[e[j]]
               y == v[e[j]]
               b == a[j]
    <3>1. x \in Field /\ y \in Field /\ b \in Field /\ w[e[j]] = x ++ (g ** y)
      BY <2>1, <2>2 DEF Vec
    <3>2. t(w)[j] = w[e[j]] ** b /\ t(u)[j] = x ** b /\ t(v)[j] = y ** b
      OBVIOUS
    <3> HIDE DEF x, y, b, t
    <3>3. g ** y \in Field
      BY <3>1, Comm
    <3>4. (x ++ (g ** y)) ** b = (x ** b) ++ ((g ** y) ** b)
      BY <3>1, <3>3, Distr
    <3>5. (g ** y) ** b = g ** (y ** b)
      BY <3>1, Assoc
    <3> QED
      BY <3>1, <3>2, <3>4, <3>5
  <2>4. Terms(t(u), k) /\ Terms(t(v), k)
    BY <1>1, <2>1
  <2>5. FieldSum(k, t(w)) = FieldSum(k, t(u)) ++ (g ** FieldSum(k, t(v)))
    <3> HIDE DEF t
    <3> QED
      BY <2>3, <2>4, SumLinear
  <2>6. w[c] = FieldSum(k, t(w))
    BY <2>1, <2>2, <2>5
  <2> QED
    BY <2>2, <2>6 DEF Combined, w
<1> QED
  BY <1>2 DEF Subspace, Combined

\* A row of the span is told by its first R entries.
LEMMA SystRow ==
    ASSUME Modulus, NEW R \in Nat \ {0}, NEW N \in Nat, R <= N, NEW Y \in Matrices(R, N), Systematic(Y, R),
           NEW w \in Span(Idx(N), Y), NEW c \in Idx(N)
    PROVE  w[c] = FieldSum(R, [j \in Idx(R) |-> w[j] ** Y[j][c]])
<1> DEFINE C == Idx(N)
           e == [j \in Idx(R) |-> j]
           a == [j \in Idx(R) |-> Y[j][c]]
           W == Combined(C, c, R, e, a)
<1>0. Idx(R) \subseteq C
  BY DEF Idx
<1>1. e \in [Idx(R) -> C] /\ a \in [Idx(R) -> Field] /\ R \in Nat
  BY <1>0, MatrixIs
<1>2. Subspace(W) /\ W \in SUBSET Vec(C)
  <2> HIDE DEF e, a, C
  <2>1. c \in C
    BY DEF C
  <2> QED
    BY <1>1, <2>1, CombinedIs
<1>3. ASSUME NEW r \in Idx(R) PROVE Y[r] \in W
  <2> DEFINE f == [j \in Idx(R) |-> Y[r][e[j]] ** a[j]]
  <2>1. Y[r] \in Vec(C) /\ \A j \in Idx(R) : Y[j][c] \in Field
    BY MatrixIs
  <2>2. \A j \in Idx(R) : Y[r][j] = IF r = j THEN 1 ELSE 0
    BY DEF Systematic
  <2>3. \A j \in Idx(R) : f[j] = IF r = j THEN Y[r][c] ELSE 0
    BY <2>1, <2>2, Units
  <2>4. FieldSum(R, f) = f[r]
    <3>1. f[r] \in Field /\ \A j \in Idx(R) : j # r => f[j] = 0
      BY <2>1, <2>3
    <3> HIDE DEF f
    <3> QED
      BY <3>1, SumOne
  <2> QED
    BY <2>1, <2>3, <2>4 DEF Combined
<1>4. Holds(W, Y)
  BY <1>3, MatrixIs DEF Holds
<1>5. w \in W
  BY <1>2, <1>4, SpanInside
<1>6. w[c] = FieldSum(R, [j \in Idx(R) |-> w[e[j]] ** a[j]])
  BY <1>5 DEF Combined
<1>7. [j \in Idx(R) |-> w[e[j]] ** a[j]] = [j \in Idx(R) |-> w[j] ** Y[j][c]]
  OBVIOUS
<1> QED
  BY <1>6, <1>7

\* A code has one systematic form.
THEOREM SystUnique ==
    ASSUME Modulus, NEW R \in Nat \ {0}, NEW N \in Nat, R <= N,
           NEW Y \in Matrices(R, N), Systematic(Y, R),
           NEW Z \in Matrices(R, N), Systematic(Z, R),
           Span(Idx(N), Y) = Span(Idx(N), Z)
    PROVE  Y = Z
<1>1. DOMAIN Y = Idx(R) /\ DOMAIN Z = Idx(R)
      /\ \A r \in Idx(R) : /\ Y[r] \in Vec(Idx(N)) /\ Z[r] \in Vec(Idx(N))
                           /\ \A c \in Idx(N) : Z[r][c] \in Field
  BY MatrixIs
<1>2. ASSUME NEW r \in Idx(R), NEW c \in Idx(N) PROVE Y[r][c] = Z[r][c]
  <2> DEFINE f == [j \in Idx(R) |-> Y[r][j] ** Z[j][c]]
  <2>1. Y[r] \in Span(Idx(N), Z)
    BY <1>1, SpanHolds DEF Holds, Matrices
  <2>2. Y[r][c] = FieldSum(R, f)
    <3>1. PICK w \in Span(Idx(N), Z) : w = Y[r]
      BY <2>1
    <3>2. w[c] = FieldSum(R, [j \in Idx(R) |-> w[j] ** Z[j][c]])
      BY SystRow
    <3> QED
      BY <3>1, <3>2
  <2>3. \A j \in Idx(R) : f[j] = IF r = j THEN Z[r][c] ELSE 0
    BY <1>1, Units DEF Systematic
  <2>4. FieldSum(R, f) = f[r]
    <3>1. f[r] \in Field /\ \A j \in Idx(R) : j # r => f[j] = 0
      BY <1>1, <2>3
    <3>2. R \in Nat
      OBVIOUS
    <3> HIDE DEF f
    <3> QED
      BY <3>1, <3>2, SumOne
  <2> QED
    BY <2>2, <2>3, <2>4
<1>3. \A r \in Idx(R) : Y[r] = Z[r]
  BY <1>1, <1>2, VecSame
<1>4. Y = [r \in Idx(R) |-> Y[r]] /\ Z = [r \in Idx(R) |-> Z[r]]
  BY DEF Matrices, Mat
<1> QED
  BY <1>3, <1>4

\* Where there is no pivot, a row is missing from the span.
LEMMA StuckMisses ==
    ASSUME Modulus, NEW R \in Nat \ {0}, NEW N \in Nat, R <= N, NEW X \in Matrices(R, N), Stuck(X, R)
    PROVE  \E r \in Idx(R) : \A w \in Span(Idx(N), X) :
               ~(w[r] = 1 /\ \A c \in Idx(r) : w[c] = 0)
<1>1. PICK r \in Idx(R) : Stairs(X, r, R) /\ \A q \in Idx(R) : q >= r => X[q][r] = 0
  BY DEF Stuck
<1> DEFINE Y == BackSubstitute(X, r)
           C == Idx(N)
<1>2. /\ Sized(R, N, r) /\ r \in C /\ r \in Nat /\ Idx(r) \subseteq Idx(R) /\ Idx(r) \subseteq C
      /\ \A q \in Idx(R) : q \in Nat /\ (q \in Idx(r) <=> q < r)
  BY DEF Sized, Idx
<1>3. Stairs(X, r, r)
  BY <1>1, <1>2 DEF Stairs
<1>4. /\ Y \in Matrices(R, N)
      /\ Clean(Y, 0, r)
      /\ Span(Idx(N), Y) = Span(Idx(N), X)
      /\ \A q \in Idx(R) : q >= r => Y[q] = X[q]
  BY <1>2, <1>3, BackIs
<1> HIDE DEF Y
<1> DEFINE e == [j \in Idx(r) |-> j]
           a == [j \in Idx(r) |-> Y[j][r]]
           W == Combined(C, r, r, e, a)
<1>5. \A q \in Idx(R), c \in C : Y[q][c] \in Field
  BY <1>4, MatrixIs
<1>6. e \in [Idx(r) -> C] /\ a \in [Idx(r) -> Field]
  BY <1>2, <1>5
<1>7. Subspace(W) /\ W \in SUBSET Vec(C)
  <2> HIDE DEF e, a, C
  <2> QED
    BY <1>2, <1>6, CombinedIs
<1>8. ASSUME NEW q \in Idx(R) PROVE Y[q] \in W
  <2> DEFINE f == [j \in Idx(r) |-> Y[q][e[j]] ** a[j]]
  <2>0. Y[q] \in Vec(C)
    BY <1>4, MatrixIs
  <2>1. CASE q < r
    <3>1. q \in Idx(r)
      BY <1>2, <2>1
    <3>2. \A j \in Idx(r) : Y[q][j] = IF q = j THEN 1 ELSE 0
      <4> TAKE j \in Idx(r)
      <4>1. j >= 0 /\ j \in Nat /\ q \in Nat /\ (q = j \/ q > j \/ q < j)
        BY <1>2
      <4> QED
        BY <1>4, <3>1, <4>1 DEF Clean, Stairs
    <3>3. \A j \in Idx(r) : f[j] = IF q = j THEN Y[q][r] ELSE 0
      <4> TAKE j \in Idx(r)
      <4>1. f[j] = Y[q][j] ** Y[j][r] /\ Y[j][r] \in Field
        BY <1>2, <1>5
      <4> QED
        BY <3>2, <4>1, Units
    <3>4. f[q] = Y[q][r] /\ f[q] \in Field /\ \A j \in Idx(r) : j # q => f[j] = 0
      BY <1>2, <1>5, <3>1, <3>3
    <3>5. FieldSum(r, f) = Y[q][r]
      <4> HIDE DEF f
      <4> QED
        BY <1>2, <3>1, <3>4, SumOne
    <3> QED
      BY <2>0, <3>5 DEF Combined
  <2>2. CASE ~(q < r)
    <3>1. q >= r
      BY <1>2, <2>2
    <3>2. Y[q][r] = 0
      BY <1>1, <1>4, <3>1
    <3>3. \A j \in Idx(r) : f[j] = 0
      <4> TAKE j \in Idx(r)
      <4>1. X[q][j] = 0
        <5>1. q > j
          BY <1>2, <3>1
        <5> QED
          BY <1>1, <5>1 DEF Stairs
      <4>2. f[j] = 0 ** Y[j][r] /\ Y[j][r] \in Field
        BY <1>2, <1>4, <1>5, <3>1, <4>1
      <4> QED
        BY <4>2, Units
    <3>4. FieldSum(r, f) = 0
      <4> HIDE DEF f
      <4> QED
        BY <1>2, <3>3, SumOfZeros
    <3> QED
      BY <2>0, <3>2, <3>4 DEF Combined
  <2> QED
    BY <2>1, <2>2
<1>9. Holds(W, Y)
  BY <1>4, <1>8, MatrixIs DEF Holds
<1>10. ASSUME NEW w \in Span(Idx(N), X), w[r] = 1, \A c \in Idx(r) : w[c] = 0
       PROVE  FALSE
  <2> DEFINE f == [j \in Idx(r) |-> w[e[j]] ** a[j]]
  <2>1. w \in W
    BY <1>4, <1>7, <1>9, SpanInside
  <2>2. w[r] = FieldSum(r, f)
    BY <2>1 DEF Combined
  <2>3. \A j \in Idx(r) : f[j] = 0
    BY <1>6, <1>10, Units
  <2>4. FieldSum(r, f) = 0
    <3> HIDE DEF f
    <3> QED
      BY <1>2, <2>3, SumOfZeros
  <2> QED
    BY <1>10, <2>2, <2>4
<1> QED
  BY <1>10

-----------------------------------------------------------------------------
\* The product.

\* The rest of every term may be taken early.
LEMMA SumMod ==
    ASSUME Modulus, NEW n \in Nat, NEW f, NEW e, \A i \in Idx(n) : f[i] \in Int /\ e[i] = f[i] % MEDS_p
    PROVE  FieldSum(n, f) = FieldSum(n, e)
<1> DEFINE P(k) == FieldSum(k, f) = FieldSum(k, e)
           S == {k \in Nat : k <= n => P(k)}
<1>1. 0 \in S
  BY SumZero
<1>2. ASSUME NEW k \in S PROVE k + 1 \in S
  <2> SUFFICES ASSUME k + 1 <= n PROVE P(k + 1)
    OBVIOUS
  <2>1. k \in Nat /\ k <= n /\ k \in Idx(n) /\ Idx(k + 1) \subseteq Idx(n)
    BY DEF Idx
  <2>2. FieldSum(k, f) = FieldSum(k, e)
    BY <1>2, <2>1
  <2>3. \A i \in Idx(k + 1) : f[i] \in Int /\ e[i] = f[i] % MEDS_p
    BY <2>1
  <2>4. Terms(e, k + 1)
    <3> SUFFICES ASSUME NEW i \in Idx(k + 1) PROVE e[i] \in Field
      BY DEF Terms
    <3>1. PICK x \in Int : x = f[i]
      BY <2>3
    <3> QED
      BY <2>3, <3>1, ModIs
  <2>5. FieldSum(k + 1, e) = FieldSum(k, e) ++ e[k]
    BY <2>1, <2>4, SumStep
  <2>6. Sigma(k, f) \in Int /\ Sigma(k + 1, f) = Sigma(k, f) + f[k]
    BY <2>1, <2>3, SigmaStep
  <2> DEFINE a == Sigma(k, f)
             b == f[k]
  <2>7. a \in Int /\ b \in Int /\ e[k] = b % MEDS_p /\ FieldSum(k + 1, f) = (a + b) % MEDS_p /\ FieldSum(k, f) = a % MEDS_p
    BY <2>1, <2>3, <2>6 DEF FieldSum, Idx
  <2> HIDE DEF a, b
  <2>8. a % MEDS_p \in Int /\ b % MEDS_p \in Int
    BY <2>7, ModIs, FieldInt
  <2>9. ((a % MEDS_p) + (b % MEDS_p)) % MEDS_p = (a + (b % MEDS_p)) % MEDS_p
    BY <2>7, <2>8, ModEarly
  <2>10. (a + (b % MEDS_p)) % MEDS_p = (a + b) % MEDS_p
    BY <2>7, ModEarly
  <2>11. FieldSum(k, e) ++ e[k] = ((a % MEDS_p) + (b % MEDS_p)) % MEDS_p
    BY <2>2, <2>7 DEF ++
  <2> QED
    BY <2>5, <2>7, <2>9, <2>10, <2>11
<1>3. S \subseteq Nat /\ (n \in S => P(n))
  OBVIOUS
<1> HIDE DEF S, P
<1>4. S = Nat
  BY <1>1, <1>2, <1>3, Induction
<1> QED
  BY <1>3, <1>4 DEF P

-----------------------------------------------------------------------------
\* The row u times the matrix Y of n rows and N columns.
Entry(n, u, Y, c)     == FieldSum(n, [i \in Idx(n) |-> u[i] ** Y[i][c]])
RowTimes(n, N, u, Y)  == [c \in Idx(N) |-> Entry(n, u, Y, c)]

LEMMA TermsIs ==
    ASSUME Modulus, NEW n \in Nat \ {0}, NEW N \in Nat, NEW u \in Vec(Idx(n)), NEW Y \in Matrices(n, N),
           NEW c \in Idx(N)
    PROVE  /\ Terms([i \in Idx(n) |-> u[i] ** Y[i][c]], n)
           /\ Entry(n, u, Y, c) \in Field
<1> DEFINE f == [i \in Idx(n) |-> u[i] ** Y[i][c]]
<1>1. \A i \in Idx(n) : u[i] \in Field /\ Y[i][c] \in Field
  BY MatrixIs DEF Vec
<1>2. Terms(f, n)
  BY <1>1, Comm DEF Terms
<1> HIDE DEF f
<1>3. FieldSum(n, f) \in Field
  BY <1>2, SumType
<1> QED
  BY <1>2, <1>3 DEF f, Entry

LEMMA RowTimesType ==
    ASSUME Modulus, NEW n \in Nat \ {0}, NEW N \in Nat, NEW u \in Vec(Idx(n)), NEW Y \in Matrices(n, N)
    PROVE  RowTimes(n, N, u, Y) \in Vec(Idx(N))
<1>1. \A c \in Idx(N) : Entry(n, u, Y, c) \in Field
  BY TermsIs
<1> QED
  BY <1>1 DEF RowTimes, Vec

LEMMA RowTimesLinear ==
    ASSUME Modulus, NEW n \in Nat \ {0}, NEW N \in Nat, NEW Y \in Matrices(n, N),
           NEW u \in Vec(Idx(n)), NEW v \in Vec(Idx(n)), NEW g \in Field
    PROVE  RowTimes(n, N, Plus(u, g, v), Y) = Plus(RowTimes(n, N, u, Y), g, RowTimes(n, N, v, Y))
<1> DEFINE w == Plus(u, g, v)
           t(x, c) == [i \in Idx(n) |-> x[i] ** Y[i][c]]
<1>1. w \in Vec(Idx(n)) /\ \A i \in Idx(n) : w[i] = u[i] ++ (g ** v[i])
  BY PlusType
<1> HIDE DEF w
<1>2. ASSUME NEW c \in Idx(N)
      PROVE  Entry(n, w, Y, c) = Entry(n, u, Y, c) ++ (g ** Entry(n, v, Y, c))
  <2>1. \A i \in Idx(n) : t(w, c)[i] = t(u, c)[i] ++ (g ** t(v, c)[i])
    <3> TAKE i \in Idx(n)
    <3> DEFINE x == u[i]
               y == v[i]
               b == Y[i][c]
    <3>1. x \in Field /\ y \in Field /\ b \in Field /\ w[i] = x ++ (g ** y)
      BY <1>1, MatrixIs DEF Vec
    <3>2. t(w, c)[i] = w[i] ** b /\ t(u, c)[i] = x ** b /\ t(v, c)[i] = y ** b
      OBVIOUS
    <3> HIDE DEF x, y, b, t
    <3>3. g ** y \in Field
      BY <3>1, Comm
    <3>4. (x ++ (g ** y)) ** b = (x ** b) ++ ((g ** y) ** b)
      BY <3>1, <3>3, Distr
    <3>5. (g ** y) ** b = g ** (y ** b)
      BY <3>1, Assoc
    <3> QED
      BY <3>1, <3>2, <3>4, <3>5
  <2>2. Terms(t(u, c), n) /\ Terms(t(v, c), n)
    BY TermsIs
  <2>3. FieldSum(n, t(w, c)) = FieldSum(n, t(u, c)) ++ (g ** FieldSum(n, t(v, c)))
    <3>1. n \in Nat
      OBVIOUS
    <3> HIDE DEF t
    <3> QED
      BY <2>1, <2>2, <3>1, SumLinear
  <2> QED
    BY <2>3 DEF Entry
<1>3. RowTimes(n, N, w, Y) = Plus(RowTimes(n, N, u, Y), g, RowTimes(n, N, v, Y))
  BY <1>2 DEF RowTimes, Plus
<1> QED
  BY <1>3 DEF w

LEMMA MulIs ==
    ASSUME Modulus, NEW n \in Nat \ {0}, NEW N \in Nat, NEW A \in Matrices(n, n), NEW B \in Matrices(n, N)
    PROVE  /\ pmod_mat_mul(A, B) = [r \in Idx(n) |-> RowTimes(n, N, A[r], B)]
           /\ pmod_mat_mul(A, B) \in Matrices(n, N)
<1>1. /\ DOMAIN A = Idx(n) /\ Height(A) = n /\ 0 \in Idx(n) /\ DOMAIN B[0] = Idx(N)
      /\ \A r \in Idx(n) : A[r] \in Vec(Idx(n))
      /\ \A r, i \in Idx(n) : A[r][i] \in Field
      /\ \A i \in Idx(n), c \in Idx(N) : B[i][c] \in Field
  <2>1. 0 \in Idx(n)
    BY DEF Idx
  <2> QED
    BY <2>1, MatrixIs
<1> DEFINE f(r, c) == [i \in Idx(n) |-> A[r][i] * B[i][c]]
           e(r, c) == [i \in Idx(n) |-> A[r][i] ** B[i][c]]
           m == [r \in Idx(n) |-> [c \in Idx(N) |-> Sigma(n, f(r, c)) % MEDS_p]]
<1>2. pmod_mat_mul(A, B) = Rows(m)
  BY <1>1 DEF pmod_mat_mul
<1>3. ASSUME NEW r \in Idx(n), NEW c \in Idx(N) PROVE Sigma(n, f(r, c)) % MEDS_p = Entry(n, A[r], B, c)
  <2>1. \A i \in Idx(n) : f(r, c)[i] \in Int /\ e(r, c)[i] = f(r, c)[i] % MEDS_p
    <3> TAKE i \in Idx(n)
    <3>1. PICK x \in Int : x = A[r][i]
      BY <1>1, FieldInt
    <3>2. PICK y \in Int : y = B[i][c]
      BY <1>1, FieldInt
    <3> QED
      BY <3>1, <3>2 DEF **
  <2>2. n \in Nat
    OBVIOUS
  <2>3. FieldSum(n, f(r, c)) = FieldSum(n, e(r, c))
    <3> HIDE DEF f, e
    <3> QED
      BY <2>1, <2>2, SumMod
  <2> QED
    BY <2>3 DEF FieldSum, Entry
<1>4. m = [r \in Idx(n) |-> RowTimes(n, N, A[r], B)]
  <2> HIDE DEF f
  <2> QED
    BY <1>3 DEF RowTimes
<1>5. Rows(m) = m
  <2>1. Rows(m) = Row([r \in Idx(n) |-> Row(m[r])])
    BY DEF Rows
  <2>2. m = [r \in Idx(n) |-> m[r]]
    OBVIOUS
  <2> HIDE DEF m
  <2> QED
    BY <2>1, <2>2, RowIs
<1>6. \A r \in Idx(n) : RowTimes(n, N, A[r], B) \in Vec(Idx(N))
  BY <1>1, RowTimesType
<1> HIDE DEF m
<1>7. pmod_mat_mul(A, B) = [r \in Idx(n) |-> RowTimes(n, N, A[r], B)]
  BY <1>2, <1>4, <1>5
<1> QED
  BY <1>6, <1>7 DEF Matrices, Mat

\* One factor after the other.
LEMMA RowTimesTwice ==
    ASSUME Modulus, NEW n \in Nat \ {0}, NEW N \in Nat, NEW A \in Matrices(n, n), NEW B \in Matrices(n, N),
           NEW u \in Vec(Idx(n))
    PROVE  RowTimes(n, N, RowTimes(n, n, u, A), B) = RowTimes(n, N, u, pmod_mat_mul(A, B))
<1>0. n \in Nat
  OBVIOUS
<1> DEFINE x == RowTimes(n, n, u, A)
           M == pmod_mat_mul(A, B)
<1>1. x \in Vec(Idx(n))
  BY RowTimesType
<1>2. M = [r \in Idx(n) |-> RowTimes(n, N, A[r], B)]
  BY MulIs
<1>3. \A i \in Idx(n) : x[i] = FieldSum(n, [j \in Idx(n) |-> u[j] ** A[j][i]])
  BY DEF RowTimes, Entry
<1>4. \A j \in Idx(n), c \in Idx(N) : M[j][c] = FieldSum(n, [i \in Idx(n) |-> A[j][i] ** B[i][c]])
  BY <1>2 DEF RowTimes, Entry
<1> HIDE DEF x, M
<1>5. /\ \A j \in Idx(n) : u[j] \in Field /\ x[j] \in Field
      /\ \A i, j \in Idx(n) : A[j][i] \in Field
      /\ \A i \in Idx(n), c \in Idx(N) : B[i][c] \in Field
  BY <1>1, MatrixIs DEF Vec
<1>6. ASSUME NEW c \in Idx(N) PROVE Entry(n, x, B, c) = Entry(n, u, M, c)
  <2> DEFINE t == [i \in Idx(n) |-> [j \in Idx(n) |-> (u[j] ** A[j][i]) ** B[i][c]]]
             left == [i \in Idx(n) |-> FieldSum(n, t[i])]
             right == [j \in Idx(n) |-> FieldSum(n, [i \in Idx(n) |-> t[i][j]])]
             a(i) == [j \in Idx(n) |-> u[j] ** A[j][i]]
             b(j) == [i \in Idx(n) |-> A[j][i] ** B[i][c]]
  <2>1. t \in [Idx(n) -> [Idx(n) -> Field]]
    BY <1>5, Comm
  <2>2. FieldSum(n, left) = FieldSum(n, right)
    <3> HIDE DEF t
    <3> QED
      BY <1>0, <2>1, SumExchange
  <2>3. ASSUME NEW i \in Idx(n) PROVE FieldSum(n, t[i]) = x[i] ** B[i][c]
    <3>1. Terms(a(i), n)
      BY <1>5, Comm DEF Terms
    <3>2. \A j \in Idx(n) : t[i][j] = B[i][c] ** a(i)[j]
      <4> TAKE j \in Idx(n)
      <4>1. u[j] ** A[j][i] \in Field /\ B[i][c] \in Field
        BY <1>5, Comm
      <4> QED
        BY <4>1, Comm
    <3>3. x[i] = FieldSum(n, a(i))
      BY <1>3
    <3>4. PICK g \in Field : g = B[i][c]
      BY <1>5
    <3>5. PICK e : e = t[i]
      OBVIOUS
    <3>6. \A j \in Idx(n) : e[j] = g ** a(i)[j]
      BY <3>2, <3>4, <3>5
    <3> HIDE DEF a, t
    <3>7. FieldSum(n, e) = g ** FieldSum(n, a(i))
      BY <1>0, <3>1, <3>6, SumScaled
    <3> QED
      BY <1>5, <3>3, <3>4, <3>5, <3>7, Comm
  <2>4. ASSUME NEW j \in Idx(n) PROVE FieldSum(n, [i \in Idx(n) |-> t[i][j]]) = u[j] ** M[j][c]
    <3> DEFINE e == [i \in Idx(n) |-> t[i][j]]
    <3>1. Terms(b(j), n)
      BY <1>5, Comm DEF Terms
    <3>2. \A i \in Idx(n) : e[i] = u[j] ** b(j)[i]
      <4> TAKE i \in Idx(n)
      <4>1. u[j] \in Field /\ A[j][i] \in Field /\ B[i][c] \in Field
        BY <1>5
      <4> QED
        BY <4>1, Assoc
    <3>3. M[j][c] = FieldSum(n, b(j))
      BY <1>4
    <3>4. PICK g \in Field : g = u[j]
      BY <1>5
    <3> HIDE DEF b, e
    <3>5. \A i \in Idx(n) : e[i] = g ** b(j)[i]
      BY <3>2, <3>4
    <3>6. FieldSum(n, e) = g ** FieldSum(n, b(j))
      BY <1>0, <3>1, <3>5, SumScaled
    <3> QED
      BY <3>3, <3>4, <3>6 DEF e
  <2>5. left = [i \in Idx(n) |-> x[i] ** B[i][c]]
    BY <2>3
  <2>6. right = [j \in Idx(n) |-> u[j] ** M[j][c]]
    BY <2>4
  <2> QED
    BY <2>2, <2>5, <2>6 DEF Entry
<1> QED
  BY <1>6 DEF RowTimes, x, M

One(n) == [r \in Idx(n) |-> [c \in Idx(n) |-> IF r = c THEN 1 ELSE 0]]

LEMMA OneIs ==
    ASSUME Modulus, NEW n \in Nat
    PROVE  One(n) \in Matrices(n, n) /\ Systematic(One(n), n)
BY FieldInt DEF One, Matrices, Mat, Vec, Systematic

LEMMA RowTimesOne ==
    ASSUME Modulus, NEW n \in Nat \ {0}, NEW u \in Vec(Idx(n))
    PROVE  RowTimes(n, n, u, One(n)) = u
<1>0. n \in Nat
  OBVIOUS
<1>1. ASSUME NEW c \in Idx(n) PROVE Entry(n, u, One(n), c) = u[c]
  <2> DEFINE f == [i \in Idx(n) |-> u[i] ** One(n)[i][c]]
  <2>1. \A i \in Idx(n) : u[i] \in Field /\ One(n)[i][c] = IF i = c THEN 1 ELSE 0
    BY DEF Vec, One
  <2>2. \A i \in Idx(n) : f[i] = IF i = c THEN u[c] ELSE 0
    BY <2>1, Units
  <2>3. f[c] = u[c] /\ f[c] \in Field /\ \A i \in Idx(n) : i # c => f[i] = 0
    BY <2>1, <2>2
  <2>4. FieldSum(n, f) = u[c]
    <3> HIDE DEF f
    <3> QED
      BY <1>0, <2>3, SumOne
  <2> QED
    BY <2>4 DEF Entry
<1>2. RowTimes(n, n, u, One(n)) = [c \in Idx(n) |-> u[c]]
  BY <1>1 DEF RowTimes
<1> QED
  BY <1>2 DEF Vec

LEMMA OneTimes ==
    ASSUME Modulus, NEW n \in Nat \ {0}, NEW N \in Nat, NEW Y \in Matrices(n, N), NEW r \in Idx(n)
    PROVE  RowTimes(n, N, One(n)[r], Y) = Y[r]
<1>0. n \in Nat /\ Y[r] \in Vec(Idx(N))
  BY MatrixIs
<1>1. ASSUME NEW c \in Idx(N) PROVE Entry(n, One(n)[r], Y, c) = Y[r][c]
  <2> DEFINE f == [i \in Idx(n) |-> One(n)[r][i] ** Y[i][c]]
  <2>1. \A i \in Idx(n) : Y[i][c] \in Field /\ One(n)[r][i] = IF r = i THEN 1 ELSE 0
    BY MatrixIs DEF One
  <2>2. \A i \in Idx(n) : f[i] = IF r = i THEN Y[i][c] ELSE 0
    BY <2>1, Units
  <2>3. f[r] = Y[r][c] /\ f[r] \in Field /\ \A i \in Idx(n) : i # r => f[i] = 0
    BY <2>1, <2>2
  <2>4. FieldSum(n, f) = Y[r][c]
    <3> HIDE DEF f
    <3> QED
      BY <1>0, <2>3, SumOne
  <2> QED
    BY <2>4 DEF Entry
<1>2. RowTimes(n, N, One(n)[r], Y) = [c \in Idx(N) |-> Y[r][c]]
  BY <1>1 DEF RowTimes
<1> QED
  BY <1>0, <1>2 DEF Vec

LEMMA MulOne ==
    ASSUME Modulus, NEW n \in Nat \ {0}, NEW N \in Nat, NEW Y \in Matrices(n, N), NEW A \in Matrices(n, n)
    PROVE  pmod_mat_mul(One(n), Y) = Y /\ pmod_mat_mul(A, One(n)) = A
<1>0. n \in Nat /\ One(n) \in Matrices(n, n)
  BY OneIs
<1>1. pmod_mat_mul(One(n), Y) = [r \in Idx(n) |-> RowTimes(n, N, One(n)[r], Y)]
  BY <1>0, MulIs
<1>2. pmod_mat_mul(A, One(n)) = [r \in Idx(n) |-> RowTimes(n, n, A[r], One(n))]
  BY <1>0, MulIs
<1>3. \A r \in Idx(n) : RowTimes(n, N, One(n)[r], Y) = Y[r]
  BY OneTimes
<1>4. \A r \in Idx(n) : RowTimes(n, n, A[r], One(n)) = A[r]
  <2> TAKE r \in Idx(n)
  <2>1. PICK u \in Vec(Idx(n)) : u = A[r]
    BY <1>0, MatrixIs
  <2> QED
    BY <2>1, RowTimesOne
<1>5. Y = [r \in Idx(n) |-> Y[r]] /\ A = [r \in Idx(n) |-> A[r]]
  BY DEF Matrices, Mat
<1>6. pmod_mat_mul(One(n), Y) = Y
  BY <1>1, <1>3, <1>5
<1>7. pmod_mat_mul(A, One(n)) = A
  BY <1>2, <1>4, <1>5
<1> QED
  BY <1>6, <1>7

LEMMA MulAssoc ==
    ASSUME Modulus, NEW n \in Nat \ {0}, NEW N \in Nat,
           NEW A \in Matrices(n, n), NEW B \in Matrices(n, n), NEW Y \in Matrices(n, N)
    PROVE  pmod_mat_mul(pmod_mat_mul(A, B), Y) = pmod_mat_mul(A, pmod_mat_mul(B, Y))
<1> DEFINE AB == pmod_mat_mul(A, B)
           BY2 == pmod_mat_mul(B, Y)
<1>0. n \in Nat
  OBVIOUS
<1>1. AB = [r \in Idx(n) |-> RowTimes(n, n, A[r], B)] /\ AB \in Matrices(n, n)
  BY <1>0, MulIs
<1>2. BY2 \in Matrices(n, N)
  BY MulIs
<1>3. ASSUME NEW r \in Idx(n) PROVE RowTimes(n, N, AB[r], Y) = RowTimes(n, N, A[r], BY2)
  <2>1. PICK u \in Vec(Idx(n)) : u = A[r]
    BY <1>0, MatrixIs
  <2>2. RowTimes(n, N, RowTimes(n, n, u, B), Y) = RowTimes(n, N, u, pmod_mat_mul(B, Y))
    BY RowTimesTwice
  <2> QED
    BY <1>1, <2>1, <2>2
<1> HIDE DEF AB, BY2
<1>4. pmod_mat_mul(AB, Y) = [r \in Idx(n) |-> RowTimes(n, N, AB[r], Y)]
  BY <1>1, MulIs
<1>5. pmod_mat_mul(A, BY2) = [r \in Idx(n) |-> RowTimes(n, N, A[r], BY2)]
  BY <1>2, MulIs
<1>6. pmod_mat_mul(AB, Y) = pmod_mat_mul(A, BY2)
  BY <1>3, <1>4, <1>5
<1> QED
  BY <1>6 DEF AB, BY2

-----------------------------------------------------------------------------
\* A linear map takes a span into a span if it takes the rows there.
LEMMA SpanMapped ==
    ASSUME Modulus, NEW C, NEW D, NEW X \in Mat(D, C), NEW B, NEW Z,
           NEW L \in [Vec(C) -> Vec(B)],
           \A u, v \in Vec(C), g \in Field : L[Plus(u, g, v)] = Plus(L[u], g, L[v]),
           \A r \in D : L[X[r]] \in Span(B, Z),
           NEW w \in Span(C, X)
    PROVE  L[w] \in Span(B, Z)
<1> DEFINE W == {u \in Vec(C) : L[u] \in Span(B, Z)}
<1>1. ASSUME NEW u \in W, NEW v \in W, NEW g \in Field PROVE Plus(u, g, v) \in W
  <2>1. u \in Vec(C) /\ v \in Vec(C) /\ L[u] \in Span(B, Z) /\ L[v] \in Span(B, Z)
    OBVIOUS
  <2>2. Plus(u, g, v) \in Vec(C)
    BY <2>1, PlusType
  <2>3. Plus(L[u], g, L[v]) \in Span(B, Z)
    BY <2>1, SpanIsSubspace DEF Subspace
  <2>4. L[Plus(u, g, v)] = Plus(L[u], g, L[v])
    BY <2>1
  <2> QED
    BY <2>2, <2>3, <2>4
<1>2. Subspace(W) /\ W \in SUBSET Vec(C)
  BY <1>1 DEF Subspace
<1>3. Holds(W, X)
  BY DEF Holds, Mat
<1> HIDE DEF W
<1>4. w \in W
  BY <1>2, <1>3, SpanInside
<1> QED
  BY <1>4 DEF W

LEMMA TimesMapped ==
    ASSUME Modulus, NEW n \in Nat \ {0}, NEW N \in Nat, NEW Y \in Matrices(n, N), NEW X \in Matrices(n, n),
           NEW Z, \A r \in Idx(n) : RowTimes(n, N, X[r], Y) \in Span(Idx(N), Z),
           NEW w \in Span(Idx(n), X)
    PROVE  RowTimes(n, N, w, Y) \in Span(Idx(N), Z)
<1> DEFINE C == Idx(n)
           B == Idx(N)
           L == [u \in Vec(C) |-> RowTimes(n, N, u, Y)]
<1>0. X \in Mat(Idx(n), C) /\ w \in Vec(C)
  BY DEF Matrices, Span
<1>1. L \in [Vec(C) -> Vec(B)]
  BY RowTimesType
<1>2. \A u \in Vec(C) : L[u] = RowTimes(n, N, u, Y)
  OBVIOUS
<1>3. \A u, v \in Vec(C), g \in Field : L[Plus(u, g, v)] = Plus(L[u], g, L[v])
  <2> TAKE u, v \in Vec(C), g \in Field
  <2>1. RowTimes(n, N, Plus(u, g, v), Y) = Plus(RowTimes(n, N, u, Y), g, RowTimes(n, N, v, Y))
    BY RowTimesLinear
  <2>2. Plus(u, g, v) \in Vec(C)
    BY PlusType
  <2> HIDE DEF L
  <2> QED
    BY <1>2, <2>1, <2>2
<1>4. \A r \in Idx(n) : L[X[r]] \in Span(B, Z)
  <2>1. \A r \in Idx(n) : X[r] \in Vec(C)
    BY DEF Matrices, Mat
  <2> HIDE DEF L
  <2> QED
    BY <1>2, <2>1
<1> HIDE DEF L
<1>5. L[w] \in Span(B, Z)
  <2> DEFINE D == Idx(n)
  <2>1. X \in Mat(D, C) /\ \A r \in D : L[X[r]] \in Span(B, Z)
    BY <1>0, <1>4
  <2>2. w \in Span(C, X)
    OBVIOUS
  <2> HIDE DEF C, B, D
  <2> QED
    BY ONLY Modulus, <1>1, <1>3, <2>1, <2>2, SpanMapped
<1> QED
  BY <1>0, <1>2, <1>5

-----------------------------------------------------------------------------
\* The rows span everything.
Full(n, X) == Vec(Idx(n)) \subseteq Span(Idx(n), X)

LEMMA OneFull ==
    ASSUME Modulus, NEW n \in Nat \ {0}
    PROVE  Full(n, One(n))
<1> SUFFICES ASSUME NEW w \in Vec(Idx(n)) PROVE w \in Span(Idx(n), One(n))
  BY DEF Full
<1> DEFINE C == Idx(n)
           U == Span(C, One(n))
           part(k) == [c \in C |-> IF c < k THEN w[c] ELSE 0]
           S == {k \in Nat : k <= n => part(k) \in U}
<1>0. /\ n \in Nat /\ One(n) \in Matrices(n, n) /\ 0 \in C
      /\ \A k \in C : k \in Nat /\ k < n
      /\ \A k \in Nat : k < n => k \in C
      /\ \A c \in C : w[c] \in Field
  BY OneIs DEF Idx, Vec
<1>1. \A r \in C : One(n)[r] \in U /\ One(n)[r] \in Vec(C)
  <2>1. One(n) \in Mat(Idx(n), C)
    BY <1>0 DEF Matrices
  <2> QED
    BY <2>1, SpanHolds DEF Holds, Mat
<1>2. Subspace(U)
  BY SpanIsSubspace
<1>3. \A k \in Nat : part(k) \in Vec(C)
  BY <1>0, FieldInt DEF Vec
<1>4. 0 \in S
  <2> DEFINE u == One(n)[0]
             z == Plus(u, Neg(1), u)
  <2>0. u \in Vec(C) /\ u \in U /\ 1 \in Field
    BY <1>0, <1>1, FieldInt
  <2> HIDE DEF u
  <2>1. Neg(1) \in Field /\ 1 ++ Neg(1) = 0
    BY <2>0, NegIs
  <2>2. z \in U
    BY <1>2, <2>0, <2>1 DEF Subspace
  <2>3. z \in Vec(C) /\ \A c \in C : z[c] = u[c] ++ (Neg(1) ** u[c])
    BY <2>0, <2>1, PlusType
  <2>4. ASSUME NEW c \in C PROVE z[c] = part(0)[c]
    <3>1. u[c] \in Field
      BY <2>0 DEF Vec
    <3>2. PICK a \in Field : a = u[c]
      BY <3>1
    <3>3. PICK e \in Field : e = 1
      BY <2>0
    <3>4. e ** a = a /\ (e ++ Neg(1)) ** a = (e ** a) ++ (Neg(1) ** a) /\ 0 ** a = 0
      BY <2>1, <3>3, Units, Distr
    <3>5. part(0)[c] = 0
      BY <1>0
    <3> HIDE DEF part
    <3> QED
      BY <2>1, <2>3, <3>2, <3>3, <3>4, <3>5
  <2>5. z = part(0)
    <3>1. part(0) \in Vec(C)
      BY <1>3
    <3> HIDE DEF part, z
    <3> QED
      BY <2>3, <2>4, <3>1, VecSame
  <2> QED
    BY <2>2, <2>5
<1>5. ASSUME NEW k \in S PROVE k + 1 \in S
  <2> SUFFICES ASSUME k + 1 <= n PROVE part(k + 1) \in U
    OBVIOUS
  <2>1. k \in Nat /\ k \in C /\ k <= n /\ k + 1 \in Nat
    BY <1>0
  <2>2. part(k) \in U /\ part(k) \in Vec(C)
    BY <1>3, <1>5, <2>1
  <2> DEFINE u == One(n)[k]
             g == w[k]
             z == Plus(part(k), g, u)
  <2>3. u \in U /\ u \in Vec(C) /\ g \in Field /\ \A c \in C : u[c] = IF k = c THEN 1 ELSE 0
    BY <1>0, <1>1, <2>1 DEF One
  <2> HIDE DEF u, g
  <2>4. z \in U
    BY <1>2, <2>2, <2>3 DEF Subspace
  <2>5. z \in Vec(C) /\ \A c \in C : z[c] = part(k)[c] ++ (g ** u[c])
    <3> HIDE DEF part
    <3> QED
      BY <2>2, <2>3, PlusType
  <2>6. ASSUME NEW c \in C PROVE z[c] = part(k + 1)[c]
    <3>1. c \in Nat /\ part(k)[c] = (IF c < k THEN w[c] ELSE 0) /\ part(k + 1)[c] = (IF c < k + 1 THEN w[c] ELSE 0)
      BY <1>0
    <3>2. g ** 1 = g /\ g ** 0 = 0 /\ w[c] ++ 0 = w[c] /\ 0 ++ 0 = 0 /\ 0 ++ g = g
      BY <1>0, <2>3, Units, FieldInt
    <3> HIDE DEF part, z
    <3>3. CASE c = k
      BY <2>1, <2>3, <2>5, <3>1, <3>2, <3>3 DEF g
    <3>4. CASE c # k
      <4>1. (c < k + 1) <=> (c < k)
        BY <2>1, <3>1, <3>4
      <4> QED
        BY <2>3, <2>5, <3>1, <3>2, <3>4, <4>1
    <3> QED
      BY <3>3, <3>4
  <2>7. z = part(k + 1)
    <3>1. part(k + 1) \in Vec(C)
      BY <1>3, <2>1
    <3> HIDE DEF part, z
    <3> QED
      BY <2>5, <2>6, <3>1, VecSame
  <2> QED
    BY <2>4, <2>7
<1>6. S \subseteq Nat /\ (n \in S => part(n) \in U)
  BY <1>0
<1>7. part(n) = w
  <2>1. \A c \in C : part(n)[c] = w[c]
    BY <1>0
  <2>2. part(n) \in Vec(C)
    BY <1>0, <1>3
  <2> HIDE DEF part
  <2> QED
    BY <2>1, <2>2, VecSame
<1> HIDE DEF S, part
<1>8. S = Nat
  BY <1>4, <1>5, <1>6, Induction
<1> QED
  BY <1>6, <1>7, <1>8

\* What has a matrix that makes the identity of it is full.
LEMMA InverseFull ==
    ASSUME Modulus, NEW n \in Nat \ {0}, NEW V \in Matrices(n, n), NEW X \in Matrices(n, n),
           pmod_mat_mul(V, X) = One(n)
    PROVE  Full(n, X)
<1>0. n \in Nat /\ One(n) \in Matrices(n, n)
  BY OneIs
<1>1. \A r \in Idx(n) : RowTimes(n, n, One(n)[r], X) \in Span(Idx(n), X)
  <2>1. \A r \in Idx(n) : RowTimes(n, n, One(n)[r], X) = X[r]
    BY <1>0, OneTimes
  <2>2. \A r \in Idx(n) : X[r] \in Span(Idx(n), X)
    BY SpanHolds DEF Holds, Matrices, Mat
  <2> QED
    BY <2>1, <2>2
<1>2. ASSUME NEW r \in Idx(n) PROVE One(n)[r] \in Span(Idx(n), X)
  <2>1. PICK w \in Vec(Idx(n)) : w = V[r]
    BY <1>0, MatrixIs
  <2>2. w \in Span(Idx(n), One(n))
    BY OneFull DEF Full
  <2>3. RowTimes(n, n, w, X) \in Span(Idx(n), X)
    BY <1>0, <1>1, <2>2, TimesMapped
  <2>4. One(n)[r] = RowTimes(n, n, w, X)
    BY <1>0, <2>1, MulIs
  <2> QED
    BY <2>3, <2>4
<1>3. Holds(Span(Idx(n), X), One(n))
  BY <1>0, <1>2, MatrixIs DEF Holds
<1>4. Span(Idx(n), One(n)) \subseteq Span(Idx(n), X)
  BY <1>3, SpanOf
<1> QED
  BY <1>4, OneFull DEF Full

LEMMA ProductFull ==
    ASSUME Modulus, NEW n \in Nat \ {0}, NEW X \in Matrices(n, n), NEW Y \in Matrices(n, n),
           Full(n, X), Full(n, Y)
    PROVE  Full(n, pmod_mat_mul(X, Y))
<1> DEFINE Z == pmod_mat_mul(X, Y)
<1>0. n \in Nat /\ One(n) \in Matrices(n, n)
  BY OneIs
<1>1. Z = [r \in Idx(n) |-> RowTimes(n, n, X[r], Y)] /\ Z \in Matrices(n, n)
  BY <1>0, MulIs
<1> HIDE DEF Z
<1>2. \A r \in Idx(n) : RowTimes(n, n, X[r], Y) \in Span(Idx(n), Z)
  <2>1. \A r \in Idx(n) : Z[r] \in Span(Idx(n), Z)
    BY <1>1, SpanHolds DEF Holds, Matrices, Mat
  <2> QED
    BY <1>1, <2>1
<1>3. ASSUME NEW r \in Idx(n) PROVE Y[r] \in Span(Idx(n), Z)
  <2>1. PICK w \in Vec(Idx(n)) : w = One(n)[r]
    BY <1>0, MatrixIs
  <2>2. w \in Span(Idx(n), X)
    BY DEF Full
  <2>3. RowTimes(n, n, w, Y) \in Span(Idx(n), Z)
    BY <1>0, <1>2, <2>2, TimesMapped
  <2>4. RowTimes(n, n, One(n)[r], Y) = Y[r]
    BY <1>0, OneTimes
  <2> QED
    BY <2>1, <2>3, <2>4
<1>4. Holds(Span(Idx(n), Z), Y)
  BY <1>0, <1>3, MatrixIs DEF Holds
<1>5. Span(Idx(n), Y) \subseteq Span(Idx(n), Z)
  BY <1>4, SpanOf
<1> QED
  BY <1>5 DEF Full, Z

\* The elimination of a full matrix ends, and of no other.
THEOREM FullIs ==
    ASSUME Modulus, IsField(MEDS_p), NEW n \in Nat \ {0}, NEW X \in Matrices(n, n)
    PROVE  /\ Full(n, X) <=> pmod_mat_syst_ct(X, n).ret = 0
           /\ KeepsDraw(X) <=> Full(n, X)
<1> DEFINE s == pmod_mat_syst_ct(X, n)
<1>0. n \in Nat /\ One(n) \in Matrices(n, n) /\ Systematic(One(n), n) /\ Sized(n, n, n) /\ Height(X) = n
  BY OneIs, MatrixIs DEF Sized
<1>1. /\ s \in States(n, n)
      /\ s.ret = Echelon(X, n).ret
      /\ Span(Idx(n), s.mat) = Span(Idx(n), X)
      /\ s.ret = 0 => Systematic(s.mat, n)
      /\ s.ret # 0 => Stuck(s.mat, n)
  BY <1>0, SystIs
<1>2. s.mat \in Matrices(n, n)
  BY <1>1 DEF States
<1> HIDE DEF s
<1>3. ASSUME s.ret = 0 PROVE Full(n, X)
  <2>1. \A r \in Idx(n) : s.mat[r] = One(n)[r]
    <3> TAKE r \in Idx(n)
    <3>1. s.mat[r] \in Vec(Idx(n)) /\ One(n)[r] \in Vec(Idx(n))
      BY <1>0, <1>2, MatrixIs
    <3>2. \A c \in Idx(n) : s.mat[r][c] = One(n)[r][c]
      BY <1>0, <1>1, <1>3 DEF Systematic
    <3> QED
      BY <3>1, <3>2, VecSame
  <2>2. s.mat = [r \in Idx(n) |-> s.mat[r]] /\ One(n) = [r \in Idx(n) |-> One(n)[r]]
    BY <1>0, <1>2 DEF Matrices, Mat
  <2>3. s.mat = One(n)
    BY <2>1, <2>2
  <2> QED
    BY <1>1, <2>3, OneFull DEF Full
<1>4. ASSUME Full(n, X), s.ret # 0 PROVE FALSE
  <2>1. PICK r \in Idx(n) : \A w \in Span(Idx(n), s.mat) : ~(w[r] = 1 /\ \A c \in Idx(r) : w[c] = 0)
    BY <1>0, <1>1, <1>2, <1>4, StuckMisses
  <2>2. One(n)[r] \in Vec(Idx(n))
    BY <1>0, MatrixIs
  <2>3. One(n)[r] \in Span(Idx(n), s.mat)
    BY <1>1, <1>4, <2>2 DEF Full
  <2>4. One(n)[r][r] = 1 /\ \A c \in Idx(r) : One(n)[r][c] = 0
    <3>1. \A c \in Idx(r) : c \in Idx(n) /\ c # r
      BY <1>0 DEF Idx
    <3> QED
      BY <3>1 DEF One
  <2> QED
    BY <2>1, <2>3, <2>4
<1>5. KeepsDraw(X) <=> s.ret = 0
  BY <1>0, <1>1 DEF KeepsDraw
<1> QED
  BY <1>3, <1>4, <1>5 DEF s

-----------------------------------------------------------------------------
\* Blocks of columns, and pmod_mat_inv.

\* The first R columns of a matrix.
LeftOf(X, R) == [r \in DOMAIN X |-> [c \in Idx(R) |-> X[r][c]]]

LEMMA LeftOfIs ==
    ASSUME NEW H \in Nat \ {0}, NEW N \in Nat, NEW R \in Nat, R <= N, NEW X \in Matrices(H, N)
    PROVE  /\ LeftOf(X, R) = [r \in Idx(H) |-> [c \in Idx(R) |-> X[r][c]]]
           /\ LeftOf(X, R) \in Matrices(H, R)
<1>1. DOMAIN X = Idx(H) /\ \A r \in Idx(H), c \in Idx(N) : X[r][c] \in Field
  BY MatrixIs
<1>2. Idx(R) \subseteq Idx(N)
  BY DEF Idx
<1> QED
  BY <1>1, <1>2 DEF LeftOf, Matrices, Mat, Vec

\* Every row of its span begins one of the span of the matrix.
LEMMA LeftSpan ==
    ASSUME Modulus, NEW H \in Nat \ {0}, NEW N \in Nat, NEW R \in Nat, R <= N, R # 0, NEW X \in Matrices(H, N),
           NEW u \in Span(Idx(R), LeftOf(X, R))
    PROVE  \E w \in Span(Idx(N), X) : \A c \in Idx(R) : w[c] = u[c]
<1> DEFINE U == Span(Idx(N), X)
           W == {v \in Vec(Idx(R)) : \E w \in U : \A c \in Idx(R) : w[c] = v[c]}
<1>0. Idx(R) \subseteq Idx(N)
  BY DEF Idx
<1>1. U \subseteq Vec(Idx(N)) /\ Subspace(U)
  BY SpanIsSubspace
<1> HIDE DEF U
<1>2. ASSUME NEW v1 \in W, NEW v2 \in W, NEW g \in Field PROVE Plus(v1, g, v2) \in W
  <2>0. v1 \in Vec(Idx(R)) /\ v2 \in Vec(Idx(R))
    OBVIOUS
  <2>1. PICK w1 \in U : \A c \in Idx(R) : w1[c] = v1[c]
    OBVIOUS
  <2>2. PICK w2 \in U : \A c \in Idx(R) : w2[c] = v2[c]
    OBVIOUS
  <2>3. Plus(w1, g, w2) \in U
    BY <1>1 DEF Subspace
  <2>4. Plus(v1, g, v2) \in Vec(Idx(R)) /\ \A c \in Idx(R) : Plus(v1, g, v2)[c] = v1[c] ++ (g ** v2[c])
    BY <2>0, PlusType
  <2>5. w1 \in Vec(Idx(N)) /\ w2 \in Vec(Idx(N))
    BY <1>1
  <2>6. \A c \in Idx(N) : Plus(w1, g, w2)[c] = w1[c] ++ (g ** w2[c])
    BY <2>5, PlusType
  <2>7. \A c \in Idx(R) : Plus(w1, g, w2)[c] = Plus(v1, g, v2)[c]
    BY <1>0, <2>1, <2>2, <2>4, <2>6
  <2> QED
    BY <2>3, <2>4, <2>7
<1>3. Subspace(W) /\ W \in SUBSET Vec(Idx(R))
  BY <1>2 DEF Subspace
<1>4. Holds(W, LeftOf(X, R))
  <2>1. \A r \in Idx(H) : X[r] \in U
    BY SpanHolds DEF Holds, Matrices, Mat, U
  <2>2. LeftOf(X, R) = [r \in Idx(H) |-> [c \in Idx(R) |-> X[r][c]]] /\ LeftOf(X, R) \in Matrices(H, R)
    BY LeftOfIs
  <2>3. \A r \in Idx(H) : LeftOf(X, R)[r] \in Vec(Idx(R)) /\ \A c \in Idx(R) : X[r][c] = LeftOf(X, R)[r][c]
    BY <2>2 DEF Matrices, Mat
  <2>4. \A r \in Idx(H) : LeftOf(X, R)[r] \in W
    BY <2>1, <2>3
  <2>5. DOMAIN LeftOf(X, R) = Idx(H)
    BY <2>2
  <2> HIDE DEF W
  <2> QED
    BY <2>4, <2>5 DEF Holds
<1> HIDE DEF W
<1>5. u \in W
  BY <1>3, <1>4, SpanInside
<1> QED
  BY <1>5 DEF W, U

\* A full first block cannot get the elimination stuck.
LEMMA FullNotStuck ==
    ASSUME Modulus, NEW n \in Nat \ {0}, NEW N \in Nat, n <= N, NEW X \in Matrices(n, N),
           Full(n, LeftOf(X, n)), NEW Y \in Matrices(n, N), Span(Idx(N), Y) = Span(Idx(N), X)
    PROVE  ~Stuck(Y, n)
<1> SUFFICES ASSUME Stuck(Y, n) PROVE FALSE
  OBVIOUS
<1>0. n \in Nat /\ One(n) \in Matrices(n, n)
  BY OneIs
<1>1. PICK r \in Idx(n) : \A w \in Span(Idx(N), Y) : ~(w[r] = 1 /\ \A c \in Idx(r) : w[c] = 0)
  BY StuckMisses
<1>2. PICK u \in Vec(Idx(n)) : u = One(n)[r]
  BY <1>0, MatrixIs
<1>3. u \in Span(Idx(n), LeftOf(X, n))
  BY DEF Full
<1>4. PICK w \in Span(Idx(N), X) : \A c \in Idx(n) : w[c] = u[c]
  BY <1>0, <1>3, LeftSpan
<1>5. u[r] = 1 /\ \A c \in Idx(r) : c \in Idx(n) /\ u[c] = 0
  <2>1. \A c \in Idx(r) : c \in Idx(n) /\ c # r
    BY <1>0 DEF Idx
  <2> QED
    BY <1>2, <2>1 DEF One
<1> QED
  BY <1>1, <1>4, <1>5

-----------------------------------------------------------------------------
\* pmod_mat_inv: the elimination of A with the identity beside it.
Beside(A, n) ==
    [r \in Idx(n) |-> [c \in Idx(2 * n) |->
        IF c < n THEN A[r][c] ELSE IF c - n = r THEN 1 ELSE 0]]

LEMMA BesideIs ==
    ASSUME Modulus, NEW n \in Nat \ {0}, NEW A \in Matrices(n, n)
    PROVE  /\ Beside(A, n) \in Matrices(n, 2 * n)
           /\ \A r, c \in Idx(n) : /\ c \in Idx(2 * n) /\ n + c \in Idx(2 * n)
                                   /\ Beside(A, n)[r][c] = A[r][c]
                                   /\ Beside(A, n)[r][n + c] = IF r = c THEN 1 ELSE 0
<1>1. \A r, c \in Idx(n) : A[r][c] \in Field
  BY MatrixIs
<1>2. \A c \in Idx(2 * n) : c < n => c \in Idx(n)
  BY DEF Idx
<1>3. \A r \in Idx(n), c \in Idx(2 * n) : Beside(A, n)[r][c] \in Field
  BY <1>1, <1>2, FieldInt DEF Beside
<1>4. Beside(A, n) \in Matrices(n, 2 * n)
  BY <1>3 DEF Beside, Matrices, Mat, Vec
<1>5. \A c \in Idx(n) : c \in Int /\ c \in Idx(2 * n) /\ n + c \in Idx(2 * n) /\ c < n /\ ~(n + c < n) /\ (n + c) - n = c
  BY DEF Idx
<1>6. \A r, c \in Idx(n) : Beside(A, n)[r][c] = A[r][c]
  BY <1>5 DEF Beside
<1>7. \A r, c \in Idx(n) : Beside(A, n)[r][n + c] = IF r = c THEN 1 ELSE 0
  BY <1>5 DEF Beside
<1> QED
  BY <1>4, <1>5, <1>6, <1>7

\* pmod_mat_inv returns the inverse, on both sides, of what it accepts, and it
\* accepts whatever has one.
THEOREM InvIs ==
    ASSUME Modulus, IsField(MEDS_p), NEW n \in Nat \ {0}, NEW A \in Matrices(n, n)
    PROVE  /\ pmod_mat_inv(A).ret \in {0, -1}
           /\ pmod_mat_inv(A).mat \in Matrices(n, n)
           /\ pmod_mat_inv(A).ret = 0 <=> Full(n, A)
           /\ pmod_mat_inv(A).ret = 0 =>
                  /\ pmod_mat_mul(A, pmod_mat_inv(A).mat) = One(n)
                  /\ pmod_mat_mul(pmod_mat_inv(A).mat, A) = One(n)
<1> DEFINE M == Beside(A, n)
           N == 2 * n
           s == pmod_mat_syst_ct(M, n)
           V == [r \in Idx(n) |-> [c \in Idx(n) |-> s.mat[r][n + c]]]
<1>0. n \in Nat /\ N \in Nat /\ n <= N /\ Sized(n, N, n) /\ Height(A) = n /\ DOMAIN A = Idx(n)
  BY MatrixIs DEF Sized
<1>1. M \in Matrices(n, N)
      /\ \A r, c \in Idx(n) : /\ c \in Idx(N) /\ n + c \in Idx(N)
                              /\ M[r][c] = A[r][c]
                              /\ M[r][n + c] = IF r = c THEN 1 ELSE 0
  BY BesideIs
<1>2. pmod_mat_inv(A) = [ret |-> s.ret, mat |-> V]
  <2>1. \A f : Rows(f) = [r \in DOMAIN f |-> f[r]]
    BY RowIs DEF Rows
  <2> DEFINE f == [r \in DOMAIN A |-> [c \in Idx(2 * n) |->
                 IF c < n THEN A[r][c] ELSE IF c - n = r THEN 1 ELSE 0]]
  <2>2. f = M
    BY <1>0 DEF Beside
  <2>3. Rows(f) = M
    <3>1. M = [r \in DOMAIN M |-> M[r]]
      BY DEF Beside
    <3> QED
      BY <2>1, <2>2, <3>1
  <2>4. pmod_mat_inv(A) = LET t == pmod_mat_syst_ct(Rows(f), n)
                          IN [ret |-> t.ret, mat |-> Rows([r \in DOMAIN A |-> [c \in Idx(n) |-> t.mat[r][n + c]]])]
    BY <1>0 DEF pmod_mat_inv
  <2>5. Rows(V) = V
    <3>1. Rows(V) = [r \in DOMAIN V |-> V[r]]
      BY <2>1
    <3>2. V = [r \in DOMAIN V |-> V[r]]
      OBVIOUS
    <3> QED
      BY <3>1, <3>2
  <2>6. V = [r \in DOMAIN A |-> [c \in Idx(n) |-> s.mat[r][n + c]]]
    BY <1>0
  <2> HIDE DEF f, M
  <2> QED
    BY <2>3, <2>4, <2>5, <2>6
<1> HIDE DEF M
<1>3. /\ s \in States(n, N)
      /\ Span(Idx(N), s.mat) = Span(Idx(N), M)
      /\ s.ret = 0 => Systematic(s.mat, n)
      /\ s.ret # 0 => Stuck(s.mat, n)
  BY <1>0, <1>1, SystIs
<1> DEFINE Y == s.mat
<1>4. Y \in Matrices(n, N) /\ s.ret \in {0, -1}
  BY <1>3 DEF States
<1> HIDE DEF s
<1>5. V \in Matrices(n, n)
  <2>1. \A r \in Idx(n), c \in Idx(N) : Y[r][c] \in Field
    BY <1>0, <1>4, MatrixIs
  <2>2. \A r, c \in Idx(n) : Y[r][n + c] \in Field
    BY <1>1, <2>1
  <2> QED
    BY <2>2 DEF Matrices, Mat, Vec
<1>6. \A r, c \in Idx(n) : V[r][c] = Y[r][n + c]
  OBVIOUS
<1>7. V = [r \in Idx(n) |-> V[r]] /\ \A r \in Idx(n) : V[r] = [c \in Idx(n) |-> V[r][c]]
  OBVIOUS
<1> HIDE DEF Y, V, N
<1>8. ASSUME s.ret = 0 PROVE pmod_mat_mul(A, V) = One(n) /\ pmod_mat_mul(V, A) = One(n)
  <2>0. Systematic(Y, n) /\ Span(Idx(N), Y) = Span(Idx(N), M)
    BY <1>3, <1>8 DEF Y
  <2>1. ASSUME NEW r \in Idx(n), NEW c \in Idx(n) PROVE Entry(n, A[r], V, c) = One(n)[r][c]
    <3>1. PICK w \in Span(Idx(N), Y) : w = M[r]
      <4>1. M[r] \in Span(Idx(N), M)
        BY <1>1, SpanHolds DEF Holds, Matrices, Mat
      <4> QED
        BY <2>0, <4>1
    <3>2. PICK k \in Idx(N) : k = n + c
      BY <1>1
    <3>3. w[k] = FieldSum(n, [j \in Idx(n) |-> w[j] ** Y[j][k]])
      BY <1>0, <1>4, <2>0, SystRow
    <3>4. [j \in Idx(n) |-> w[j] ** Y[j][k]] = [j \in Idx(n) |-> A[r][j] ** V[j][c]]
      <4>1. \A j \in Idx(n) : w[j] = A[r][j]
        BY <1>1, <3>1
      <4>2. \A j \in Idx(n) : Y[j][k] = V[j][c]
        BY <1>6, <3>2
      <4> QED
        BY <4>1, <4>2, Zenon
    <3>5. w[k] = One(n)[r][c]
      BY <1>1, <3>1, <3>2 DEF One
    <3> QED
      BY <3>3, <3>4, <3>5 DEF Entry
  <2>2. ASSUME NEW r \in Idx(n), NEW c \in Idx(n) PROVE Entry(n, V[r], A, c) = One(n)[r][c]
    <3> DEFINE C == Idx(N)
               e == [j \in Idx(n) |-> n + j]
               a == [j \in Idx(n) |-> A[j][c]]
               W == Combined(C, c, n, e, a)
    <3>1. c \in C /\ e \in [Idx(n) -> C] /\ a \in [Idx(n) -> Field]
      <4>1. \A j \in Idx(n) : A[j][c] \in Field
        BY MatrixIs
      <4> QED
        BY <1>1, <4>1
    <3>2. Subspace(W) /\ W \in SUBSET Vec(C)
      <4> HIDE DEF e, a, C
      <4> QED
        BY <1>0, <3>1, CombinedIs
    <3>3. ASSUME NEW q \in Idx(n) PROVE M[q] \in W
      <4> DEFINE f == [j \in Idx(n) |-> M[q][e[j]] ** a[j]]
      <4>1. M[q] \in Vec(C) /\ A[q][c] \in Field
        BY <1>0, <1>1, MatrixIs
      <4>2. \A j \in Idx(n) : M[q][e[j]] = IF q = j THEN 1 ELSE 0
        BY <1>1
      <4>3. \A j \in Idx(n) : f[j] = IF q = j THEN A[q][c] ELSE 0
        BY <3>1, <4>2, Units
      <4>4. FieldSum(n, f) = A[q][c]
        <5>1. f[q] = A[q][c] /\ f[q] \in Field /\ \A j \in Idx(n) : j # q => f[j] = 0
          BY <4>1, <4>3
        <5> HIDE DEF f
        <5> QED
          BY <1>0, <5>1, SumOne
      <4>5. M[q][c] = A[q][c]
        BY <1>1
      <4> QED
        BY <4>1, <4>4, <4>5 DEF Combined
    <3>4. Holds(W, M)
      BY <1>0, <1>1, <3>3, MatrixIs DEF Holds
    <3>5. Y[r] \in W
      <4>1. Y[r] \in Span(Idx(N), M)
        BY <1>4, <2>0, SpanHolds DEF Holds, Matrices, Mat
      <4>2. Span(C, M) \subseteq W
        <5> HIDE DEF W, C
        <5> QED
          BY <3>2, <3>4, SpanInside
      <4> QED
        BY <4>1, <4>2
    <3>6. Y[r][c] = FieldSum(n, [j \in Idx(n) |-> Y[r][e[j]] ** a[j]])
      BY <3>5 DEF Combined
    <3>7. [j \in Idx(n) |-> Y[r][e[j]] ** a[j]] = [j \in Idx(n) |-> V[r][j] ** A[j][c]]
      BY <1>6
    <3>8. Y[r][c] = One(n)[r][c]
      BY <2>0 DEF Systematic, One
    <3> QED
      BY <3>6, <3>7, <3>8 DEF Entry
  <2>3. pmod_mat_mul(A, V) = One(n)
    BY <1>0, <1>5, <2>1, MulIs DEF RowTimes, One
  <2>4. pmod_mat_mul(V, A) = One(n)
    BY <1>0, <1>5, <2>2, MulIs DEF RowTimes, One
  <2> QED
    BY <2>3, <2>4
<1>9. s.ret = 0 <=> Full(n, A)
  <2>1. s.ret = 0 => Full(n, A)
    BY <1>5, <1>8, InverseFull
  <2>2. ASSUME Full(n, A) PROVE s.ret = 0
    <3>1. LeftOf(M, n) = A
      <4>1. LeftOf(M, n) = [r \in Idx(n) |-> [c \in Idx(n) |-> A[r][c]]]
        BY <1>0, <1>1, LeftOfIs
      <4>2. A = [r \in Idx(n) |-> A[r]] /\ \A r \in Idx(n) : A[r] = [c \in Idx(n) |-> A[r][c]]
        BY DEF Matrices, Mat, Vec
      <4> QED
        BY <4>1, <4>2
    <3>2. ~Stuck(Y, n)
      BY <1>0, <1>1, <1>3, <1>4, <2>2, <3>1, FullNotStuck DEF Y
    <3> QED
      BY <1>3, <3>2 DEF Y
  <2> QED
    BY <2>1, <2>2
<1>10. pmod_mat_inv(A).ret = s.ret /\ pmod_mat_inv(A).mat = V
  BY <1>2
<1> QED
  BY <1>4, <1>5, <1>8, <1>9, <1>10

-----------------------------------------------------------------------------
\* Squares written out as rows.

\* A place of a square and its number in the row written out.
LEMMA PlaceIs ==
    ASSUME NEW n \in Nat \ {0}, NEW i \in Idx(n), NEW j \in Idx(n)
    PROVE  i * n + j \in Idx(n * n) /\ (i * n + j) \div n = i /\ (i * n + j) % n = j
<1>1. /\ n \in Int /\ n > 0 /\ i \in Int /\ j \in Int /\ 0 <= i /\ i <= n - 1 /\ 0 <= j /\ j <= n - 1
  BY DEF Idx
<1>2. i * n \in Int /\ n * n \in Int
  BY <1>1
<1>3. 0 <= i * n
  BY <1>1
<1>4. i * n <= (n * n) - n
  <2>1. (n - 1) - i >= 0 /\ n >= 0 /\ (n - 1) - i \in Int
    BY <1>1
  <2>2. \A a, b \in Int : a >= 0 /\ b >= 0 => a * b >= 0
    OBVIOUS
  <2>3. ((n - 1) - i) * n >= 0
    BY <1>1, <2>1, <2>2
  <2>4. ((n - 1) - i) * n = (n * n) - n - (i * n)
    BY <1>1
  <2> QED
    BY <1>2, <1>1, <2>3, <2>4
<1> DEFINE k == i * n + j
           q == k \div n
           r == k % n
<1>5. k \in Int /\ 0 <= k /\ k <= (n * n) - 1
  BY <1>1, <1>2, <1>3, <1>4
<1>6. q \in Int /\ r \in Int /\ 0 <= r /\ r < n /\ k = n * q + r
  BY <1>1, <1>5
<1>7. k = i * n + j
  OBVIOUS
<1> HIDE DEF k, q, r
<1>8. \A a, b, d, m \in Int : m > 0 /\ 0 <= a /\ a < m /\ 0 <= b /\ b < m /\ b - a = m * d => d = 0
  OBVIOUS
<1>9. j - r = n * (q - i) /\ q - i \in Int
  <2>1. n * (q - i) = (n * q) - (i * n)
    BY <1>1, <1>6
  <2>2. n * q \in Int
    BY <1>1, <1>6
  <2> QED
    BY <1>1, <1>2, <1>6, <1>7, <2>1, <2>2
<1>10. q - i = 0
  BY <1>1, <1>6, <1>8, <1>9
<1>11. q = i
  BY <1>1, <1>6, <1>10
<1>12. r = j
  <2>1. n * 0 = 0
    BY <1>1
  <2> QED
    BY <1>1, <1>6, <1>9, <1>10, <2>1
<1> QED
  BY <1>1, <1>2, <1>5, <1>11, <1>12 DEF Idx, k, q, r

LEMMA PlaceOf ==
    ASSUME NEW n \in Nat \ {0}, NEW c \in Idx(n * n)
    PROVE  c \div n \in Idx(n) /\ c % n \in Idx(n) /\ (c \div n) * n + (c % n) = c
<1>1. n \in Int /\ n > 0 /\ c \in Int /\ 0 <= c /\ n * n \in Int /\ c <= (n * n) - 1
  BY DEF Idx
<1> DEFINE q == c \div n
           r == c % n
<1>2. q \in Int /\ r \in Int /\ 0 <= r /\ r < n /\ c = n * q + r
  BY <1>1
<1> HIDE DEF q, r
<1>3. n * q \in Int /\ n * q = q * n
  BY <1>1, <1>2
<1>4. q >= 0
  <2> SUFFICES ASSUME q <= -1 PROVE FALSE
    BY <1>2
  <2>1. \A a, b \in Int : a > 0 /\ b <= -1 => a * b <= -a
    OBVIOUS
  <2>2. n * q <= -n
    BY <1>1, <1>2, <2>1
  <2> QED
    BY <1>1, <1>2, <1>3, <2>2
<1>5. q <= n - 1
  <2> SUFFICES ASSUME q >= n PROVE FALSE
    BY <1>1, <1>2
  <2>1. \A a, b \in Int : a > 0 /\ b >= a => a * b >= a * a
    OBVIOUS
  <2>2. n * q >= n * n
    BY <1>1, <1>2, <2>1
  <2> QED
    BY <1>1, <1>2, <1>3, <2>2
<1>6. q \in Idx(n) /\ r \in Idx(n) /\ q * n + r = c
  BY <1>1, <1>2, <1>3, <1>4, <1>5 DEF Idx
<1> QED
  BY <1>6 DEF q, r

-----------------------------------------------------------------------------
Size == MEDS_n \in Nat \ {0, 1}

Cells == Idx(MEDS_n * MEDS_n)
Squares == Matrices(MEDS_n, MEDS_n)

LEMMA RowsIs == \A f : Rows(f) = [r \in DOMAIN f |-> f[r]]
BY RowIs DEF Rows

LEMMA SquareIs ==
    ASSUME Size, NEW u \in Vec(Cells)
    PROVE  /\ Square(u) \in Squares
           /\ \A i, j \in Idx(MEDS_n) : i * MEDS_n + j \in Cells /\ Square(u)[i][j] = u[i * MEDS_n + j]
<1> DEFINE m == [i \in Idx(MEDS_n) |-> [j \in Idx(MEDS_n) |-> u[i * MEDS_n + j]]]
<1>1. \A i, j \in Idx(MEDS_n) : i * MEDS_n + j \in Cells
  BY PlaceIs DEF Size, Cells
<1>2. \A c \in Cells : u[c] \in Field
  BY DEF Vec
<1>3. m \in Squares
  BY <1>1, <1>2 DEF Squares, Matrices, Mat, Vec
<1>4. Square(u) = m
  <2>1. Square(u) = Rows(m)
    BY DEF Square
  <2>2. m = [r \in DOMAIN m |-> m[r]]
    OBVIOUS
  <2> HIDE DEF m
  <2> QED
    BY <2>1, <2>2, RowsIs
<1> QED
  BY <1>1, <1>3, <1>4

LEMMA FlatIs ==
    ASSUME Size, NEW M \in Squares
    PROVE  /\ Flat(M) \in Vec(Cells)
           /\ \A c \in Cells : /\ c \div MEDS_n \in Idx(MEDS_n) /\ c % MEDS_n \in Idx(MEDS_n)
                               /\ Flat(M)[c] = M[c \div MEDS_n][c % MEDS_n]
           /\ Square(Flat(M)) = M
<1> DEFINE w == [c \in Cells |-> M[c \div MEDS_n][c % MEDS_n]]
<1>0. MEDS_n \in Nat \ {0} /\ \A i, j \in Idx(MEDS_n) : M[i][j] \in Field
  BY MatrixIs DEF Size, Squares
<1>1. \A c \in Cells : c \div MEDS_n \in Idx(MEDS_n) /\ c % MEDS_n \in Idx(MEDS_n)
  BY <1>0, PlaceOf DEF Cells
<1>2. w \in Vec(Cells)
  BY <1>0, <1>1 DEF Vec
<1>3. Flat(M) = w
  <2>1. Flat(M) = Row(w)
    BY DEF Flat, Cells
  <2> QED
    BY <2>1, RowIs
<1>4. \A c \in Cells : w[c] = M[c \div MEDS_n][c % MEDS_n]
  OBVIOUS
<1> HIDE DEF w
<1>5. Square(w) \in Squares /\ \A i, j \in Idx(MEDS_n) : Square(w)[i][j] = M[i][j]
  <2>1. \A i, j \in Idx(MEDS_n) : i * MEDS_n + j \in Cells /\ Square(w)[i][j] = w[i * MEDS_n + j]
    BY <1>2, SquareIs
  <2>2. \A i, j \in Idx(MEDS_n) : (i * MEDS_n + j) \div MEDS_n = i /\ (i * MEDS_n + j) % MEDS_n = j
    BY <1>0, PlaceIs
  <2>3. \A i, j \in Idx(MEDS_n) : Square(w)[i][j] = M[i][j]
    <3> TAKE i, j \in Idx(MEDS_n)
    <3>1. PICK c \in Cells : c = i * MEDS_n + j
      BY <2>1
    <3>2. c \div MEDS_n = i /\ c % MEDS_n = j /\ Square(w)[i][j] = w[c]
      BY <2>1, <2>2, <3>1
    <3> QED
      BY <1>4, <3>2
  <2> QED
    BY <1>2, <2>3, SquareIs
<1>6. Square(w) = M
  <2>1. \A i \in Idx(MEDS_n) : Square(w)[i] \in Vec(Idx(MEDS_n)) /\ M[i] \in Vec(Idx(MEDS_n))
    BY <1>5 DEF Squares, Matrices, Mat
  <2>2. \A i \in Idx(MEDS_n) : Square(w)[i] = M[i]
    BY <1>5, <2>1, VecSame
  <2>3. Square(w) = [i \in Idx(MEDS_n) |-> Square(w)[i]] /\ M = [i \in Idx(MEDS_n) |-> M[i]]
    BY <1>5 DEF Squares, Matrices, Mat
  <2> QED
    BY <2>2, <2>3
<1> QED
  BY <1>1, <1>2, <1>3, <1>4, <1>6

LEMMA FlatSquare ==
    ASSUME Size, NEW u \in Vec(Cells)
    PROVE  Flat(Square(u)) = u
<1>0. MEDS_n \in Nat \ {0} /\ Square(u) \in Squares
  BY SquareIs DEF Size
<1>1. /\ Flat(Square(u)) \in Vec(Cells)
      /\ \A c \in Cells : /\ c \div MEDS_n \in Idx(MEDS_n) /\ c % MEDS_n \in Idx(MEDS_n)
                          /\ Flat(Square(u))[c] = Square(u)[c \div MEDS_n][c % MEDS_n]
  BY <1>0, FlatIs
<1>2. \A c \in Cells : (c \div MEDS_n) * MEDS_n + (c % MEDS_n) = c
  BY <1>0, PlaceOf DEF Cells
<1>3. ASSUME NEW c \in Cells PROVE Flat(Square(u))[c] = u[c]
  <2>1. PICK i \in Idx(MEDS_n) : i = c \div MEDS_n
    BY <1>1
  <2>2. PICK j \in Idx(MEDS_n) : j = c % MEDS_n
    BY <1>1
  <2>3. Square(u)[i][j] = u[i * MEDS_n + j]
    BY SquareIs
  <2> QED
    BY <1>1, <1>2, <2>1, <2>2, <2>3
<1> QED
  BY <1>1, <1>3, VecSame

\* The matrix X and g times the matrix Y.
PlusMat(X, g, Y) == [r \in DOMAIN X |-> Plus(X[r], g, Y[r])]

LEMMA PlusMatIs ==
    ASSUME Modulus, NEW n \in Nat \ {0}, NEW N \in Nat, NEW X \in Matrices(n, N), NEW Y \in Matrices(n, N), NEW g \in Field
    PROVE  /\ PlusMat(X, g, Y) \in Matrices(n, N)
           /\ \A r \in Idx(n) : PlusMat(X, g, Y)[r] = Plus(X[r], g, Y[r])
           /\ \A r \in Idx(n), c \in Idx(N) : PlusMat(X, g, Y)[r][c] = X[r][c] ++ (g ** Y[r][c])
<1>1. DOMAIN X = Idx(n)
  BY MatrixIs
<1>2. \A r \in Idx(n) : /\ Plus(X[r], g, Y[r]) \in Vec(Idx(N))
                        /\ \A c \in Idx(N) : Plus(X[r], g, Y[r])[c] = X[r][c] ++ (g ** Y[r][c])
  <2> TAKE r \in Idx(n)
  <2>1. PICK u \in Vec(Idx(N)) : u = X[r]
    BY MatrixIs
  <2>2. PICK v \in Vec(Idx(N)) : v = Y[r]
    BY MatrixIs
  <2>3. Plus(u, g, v) \in Vec(Idx(N)) /\ \A c \in Idx(N) : Plus(u, g, v)[c] = u[c] ++ (g ** v[c])
    BY PlusType
  <2> QED
    BY <2>1, <2>2, <2>3
<1>3. PlusMat(X, g, Y) = [r \in Idx(n) |-> Plus(X[r], g, Y[r])]
  BY <1>1 DEF PlusMat
<1> QED
  BY <1>2, <1>3 DEF Matrices, Mat

\* Partials are linear in either factor.
LEMMA MulPlusLeft ==
    ASSUME Modulus, NEW n \in Nat \ {0}, NEW X \in Matrices(n, n), NEW Y \in Matrices(n, n), NEW g \in Field,
           NEW N \in Nat, NEW B \in Matrices(n, N)
    PROVE  pmod_mat_mul(PlusMat(X, g, Y), B) = PlusMat(pmod_mat_mul(X, B), g, pmod_mat_mul(Y, B))
<1> DEFINE Z == PlusMat(X, g, Y)
<1>0. n \in Nat
  OBVIOUS
<1>1. Z \in Matrices(n, n) /\ \A r \in Idx(n) : Z[r] = Plus(X[r], g, Y[r])
  BY <1>0, PlusMatIs
<1> HIDE DEF Z
<1>2. pmod_mat_mul(Z, B) = [r \in Idx(n) |-> RowTimes(n, N, Z[r], B)]
  BY <1>1, MulIs
<1>3. pmod_mat_mul(X, B) = [r \in Idx(n) |-> RowTimes(n, N, X[r], B)]
  BY MulIs
<1>4. pmod_mat_mul(Y, B) = [r \in Idx(n) |-> RowTimes(n, N, Y[r], B)]
  BY MulIs
<1>5. ASSUME NEW r \in Idx(n)
      PROVE  RowTimes(n, N, Z[r], B) = Plus(RowTimes(n, N, X[r], B), g, RowTimes(n, N, Y[r], B))
  <2>1. PICK u \in Vec(Idx(n)) : u = X[r]
    BY <1>0, MatrixIs
  <2>2. PICK v \in Vec(Idx(n)) : v = Y[r]
    BY <1>0, MatrixIs
  <2>3. RowTimes(n, N, Plus(u, g, v), B) = Plus(RowTimes(n, N, u, B), g, RowTimes(n, N, v, B))
    BY RowTimesLinear
  <2> QED
    BY <1>1, <2>1, <2>2, <2>3
<1>6. pmod_mat_mul(Z, B) = PlusMat(pmod_mat_mul(X, B), g, pmod_mat_mul(Y, B))
  BY <1>2, <1>3, <1>4, <1>5 DEF PlusMat
<1> QED
  BY <1>6 DEF Z

LEMMA MulPlusRight ==
    ASSUME Modulus, NEW n \in Nat \ {0}, NEW N \in Nat, NEW A \in Matrices(n, n),
           NEW X \in Matrices(n, N), NEW Y \in Matrices(n, N), NEW g \in Field
    PROVE  pmod_mat_mul(A, PlusMat(X, g, Y)) = PlusMat(pmod_mat_mul(A, X), g, pmod_mat_mul(A, Y))
<1> DEFINE Z == PlusMat(X, g, Y)
<1>0. n \in Nat
  OBVIOUS
<1>1. Z \in Matrices(n, N) /\ \A r \in Idx(n), c \in Idx(N) : Z[r][c] = X[r][c] ++ (g ** Y[r][c])
  BY PlusMatIs
<1> HIDE DEF Z
<1>2. pmod_mat_mul(A, Z) = [r \in Idx(n) |-> RowTimes(n, N, A[r], Z)]
  BY <1>1, MulIs
<1>3. pmod_mat_mul(A, X) = [r \in Idx(n) |-> RowTimes(n, N, A[r], X)]
  BY MulIs
<1>4. pmod_mat_mul(A, Y) = [r \in Idx(n) |-> RowTimes(n, N, A[r], Y)]
  BY MulIs
<1>5. ASSUME NEW r \in Idx(n), NEW c \in Idx(N)
      PROVE  Entry(n, A[r], Z, c) = Entry(n, A[r], X, c) ++ (g ** Entry(n, A[r], Y, c))
  <2> DEFINE t(Q) == [i \in Idx(n) |-> A[r][i] ** Q[i][c]]
  <2>1. PICK u \in Vec(Idx(n)) : u = A[r]
    BY <1>0, MatrixIs
  <2>2. Terms(t(X), n) /\ Terms(t(Y), n)
    <3>1. Terms([i \in Idx(n) |-> u[i] ** X[i][c]], n) /\ Terms([i \in Idx(n) |-> u[i] ** Y[i][c]], n)
      BY TermsIs
    <3> QED
      BY <2>1, <3>1
  <2>3. \A i \in Idx(n) : t(Z)[i] = t(X)[i] ++ (g ** t(Y)[i])
    <3> TAKE i \in Idx(n)
    <3> DEFINE x == X[i][c]
               y == Y[i][c]
               b == A[r][i]
    <3>1. x \in Field /\ y \in Field /\ b \in Field /\ Z[i][c] = x ++ (g ** y)
      BY <1>0, <1>1, MatrixIs
    <3>2. t(Z)[i] = b ** Z[i][c] /\ t(X)[i] = b ** x /\ t(Y)[i] = b ** y
      OBVIOUS
    <3> HIDE DEF x, y, b, t
    <3>3. g ** y \in Field
      BY <3>1, Comm
    <3>4. b ** (x ++ (g ** y)) = (b ** x) ++ (b ** (g ** y))
      BY <3>1, <3>3, Distr
    <3>5. b ** (g ** y) = (b ** g) ** y /\ b ** g = g ** b /\ (g ** b) ** y = g ** (b ** y)
      BY <3>1, Assoc, Comm
    <3> QED
      BY <3>1, <3>2, <3>4, <3>5
  <2>4. FieldSum(n, t(Z)) = FieldSum(n, t(X)) ++ (g ** FieldSum(n, t(Y)))
    <3> HIDE DEF t
    <3> QED
      BY <1>0, <2>2, <2>3, SumLinear
  <2> QED
    BY <2>4 DEF Entry
<1>6. ASSUME NEW r \in Idx(n)
      PROVE  RowTimes(n, N, A[r], Z) = Plus(RowTimes(n, N, A[r], X), g, RowTimes(n, N, A[r], Y))
  BY <1>5 DEF RowTimes, Plus
<1>7. pmod_mat_mul(A, Z) = PlusMat(pmod_mat_mul(A, X), g, pmod_mat_mul(A, Y))
  BY <1>2, <1>3, <1>4, <1>6 DEF PlusMat
<1> QED
  BY <1>7 DEF Z

-----------------------------------------------------------------------------
\* What pi does to one row.
PiRow(A, B, u) == Flat(pmod_mat_mul(pmod_mat_mul(A, Square(u)), B))

LEMMA PiRowIs ==
    ASSUME Modulus, Size, NEW A \in Squares, NEW B \in Squares, NEW u \in Vec(Cells)
    PROVE  /\ pmod_mat_mul(A, Square(u)) \in Squares
           /\ pmod_mat_mul(pmod_mat_mul(A, Square(u)), B) \in Squares
           /\ PiRow(A, B, u) \in Vec(Cells)
           /\ Square(PiRow(A, B, u)) = pmod_mat_mul(pmod_mat_mul(A, Square(u)), B)
<1>0. MEDS_n \in Nat \ {0} /\ MEDS_n \in Nat
  BY DEF Size
<1>1. Square(u) \in Squares
  BY SquareIs
<1>2. pmod_mat_mul(A, Square(u)) \in Squares
  BY <1>0, <1>1, MulIs DEF Squares
<1>3. pmod_mat_mul(pmod_mat_mul(A, Square(u)), B) \in Squares
  BY <1>0, <1>2, MulIs DEF Squares
<1> QED
  BY <1>2, <1>3, FlatIs DEF PiRow

LEMMA PiRowLinear ==
    ASSUME Modulus, Size, NEW A \in Squares, NEW B \in Squares,
           NEW u \in Vec(Cells), NEW v \in Vec(Cells), NEW g \in Field
    PROVE  PiRow(A, B, Plus(u, g, v)) = Plus(PiRow(A, B, u), g, PiRow(A, B, v))
<1> DEFINE w == Plus(u, g, v)
           U == Square(u)
           V == Square(v)
           AU == pmod_mat_mul(A, U)
           AV == pmod_mat_mul(A, V)
           P == pmod_mat_mul(AU, B)
           Q == pmod_mat_mul(AV, B)
<1>0. MEDS_n \in Nat \ {0} /\ MEDS_n \in Nat
  BY DEF Size
<1>1. w \in Vec(Cells) /\ \A c \in Cells : w[c] = u[c] ++ (g ** v[c])
  BY PlusType
<1>2. /\ U \in Squares /\ \A i, j \in Idx(MEDS_n) : i * MEDS_n + j \in Cells /\ U[i][j] = u[i * MEDS_n + j]
      /\ V \in Squares /\ \A i, j \in Idx(MEDS_n) : V[i][j] = v[i * MEDS_n + j]
  BY SquareIs
<1> HIDE DEF w
<1>3. Square(w) \in Squares /\ \A i, j \in Idx(MEDS_n) : Square(w)[i][j] = w[i * MEDS_n + j]
  BY <1>1, SquareIs
<1>4. AU \in Squares /\ AV \in Squares /\ P \in Squares /\ Q \in Squares
  BY PiRowIs
<1> HIDE DEF U, V, AU, AV, P, Q
<1>5. Square(w) = PlusMat(U, g, V)
  <2>1. /\ PlusMat(U, g, V) \in Squares
        /\ \A i, j \in Idx(MEDS_n) : PlusMat(U, g, V)[i][j] = U[i][j] ++ (g ** V[i][j])
    BY <1>0, <1>2, PlusMatIs DEF Squares
  <2>2. \A i, j \in Idx(MEDS_n) : Square(w)[i][j] = PlusMat(U, g, V)[i][j]
    BY <1>1, <1>2, <1>3, <2>1
  <2>3. \A i \in Idx(MEDS_n) : Square(w)[i] \in Vec(Idx(MEDS_n)) /\ PlusMat(U, g, V)[i] \in Vec(Idx(MEDS_n))
    BY <1>3, <2>1 DEF Squares, Matrices, Mat
  <2>4. \A i \in Idx(MEDS_n) : Square(w)[i] = PlusMat(U, g, V)[i]
    BY <2>2, <2>3, VecSame
  <2>5. Square(w) = [i \in Idx(MEDS_n) |-> Square(w)[i]] /\ PlusMat(U, g, V) = [i \in Idx(MEDS_n) |-> PlusMat(U, g, V)[i]]
    BY <1>3, <2>1 DEF Squares, Matrices, Mat
  <2> QED
    BY <2>4, <2>5
<1>6. pmod_mat_mul(A, Square(w)) = PlusMat(AU, g, AV)
  <2>1. A \in Matrices(MEDS_n, MEDS_n) /\ U \in Matrices(MEDS_n, MEDS_n) /\ V \in Matrices(MEDS_n, MEDS_n)
    BY <1>2 DEF Squares
  <2>2. pmod_mat_mul(A, PlusMat(U, g, V)) = PlusMat(pmod_mat_mul(A, U), g, pmod_mat_mul(A, V))
    BY <1>0, <2>1, MulPlusRight
  <2> QED
    BY <1>5, <2>2 DEF AU, AV
<1>7. pmod_mat_mul(PlusMat(AU, g, AV), B) = PlusMat(P, g, Q)
  <2>1. B \in Matrices(MEDS_n, MEDS_n) /\ AU \in Matrices(MEDS_n, MEDS_n) /\ AV \in Matrices(MEDS_n, MEDS_n)
    BY <1>4 DEF Squares
  <2>2. pmod_mat_mul(PlusMat(AU, g, AV), B) = PlusMat(pmod_mat_mul(AU, B), g, pmod_mat_mul(AV, B))
    BY <1>0, <2>1, MulPlusLeft
  <2> QED
    BY <2>2 DEF P, Q
<1>8. PiRow(A, B, w) = Flat(PlusMat(P, g, Q))
  BY <1>6, <1>7 DEF PiRow
<1>9. /\ PlusMat(P, g, Q) \in Squares
      /\ \A i, j \in Idx(MEDS_n) : PlusMat(P, g, Q)[i][j] = P[i][j] ++ (g ** Q[i][j])
  BY <1>0, <1>4, PlusMatIs DEF Squares
<1>10. PiRow(A, B, u) = Flat(P) /\ PiRow(A, B, v) = Flat(Q)
  BY DEF PiRow, P, Q, AU, AV, U, V
<1>11. Flat(P) \in Vec(Cells) /\ Flat(Q) \in Vec(Cells) /\ Flat(PlusMat(P, g, Q)) \in Vec(Cells)
  BY <1>4, <1>9, FlatIs
<1>12. /\ Plus(Flat(P), g, Flat(Q)) \in Vec(Cells)
       /\ \A c \in Cells : Plus(Flat(P), g, Flat(Q))[c] = Flat(P)[c] ++ (g ** Flat(Q)[c])
  BY <1>11, PlusType
<1>13. ASSUME NEW c \in Cells PROVE Flat(PlusMat(P, g, Q))[c] = Flat(P)[c] ++ (g ** Flat(Q)[c])
  <2> DEFINE i == c \div MEDS_n
             j == c % MEDS_n
  <2>1. i \in Idx(MEDS_n) /\ j \in Idx(MEDS_n) /\ Flat(P)[c] = P[i][j]
    BY <1>4, FlatIs
  <2>2. Flat(Q)[c] = Q[i][j] /\ Flat(PlusMat(P, g, Q))[c] = PlusMat(P, g, Q)[i][j]
    BY <1>4, <1>9, FlatIs
  <2> HIDE DEF i, j
  <2> QED
    BY <1>9, <2>1, <2>2
<1>14. Flat(PlusMat(P, g, Q)) = Plus(Flat(P), g, Flat(Q))
  BY <1>11, <1>12, <1>13, VecSame
<1> QED
  BY <1>8, <1>10, <1>14 DEF w

\* Twice is once with the products.
LEMMA PiRowTwice ==
    ASSUME Modulus, Size, NEW A \in Squares, NEW A2 \in Squares, NEW B2 \in Squares, NEW B \in Squares,
           NEW u \in Vec(Cells)
    PROVE  PiRow(A, B, PiRow(A2, B2, u)) = PiRow(pmod_mat_mul(A, A2), pmod_mat_mul(B2, B), u)
<1> DEFINE n == MEDS_n
           U == Square(u)
           X == pmod_mat_mul(A2, U)
           P == pmod_mat_mul(X, B2)
           AX == pmod_mat_mul(A, X)
<1>0. n \in Nat \ {0} /\ n \in Nat /\ \A M : M \in Squares <=> M \in Matrices(n, n)
  BY DEF Size, Squares
<1>1. U \in Squares
  BY SquareIs
<1>2. Square(PiRow(A2, B2, u)) = P /\ X \in Squares /\ P \in Squares
  BY PiRowIs
<1> HIDE DEF n, U, X, P
<1>3. AX \in Squares
  BY <1>0, <1>2, MulIs
<1> HIDE DEF AX
<1>4. pmod_mat_mul(A, P) = pmod_mat_mul(AX, B2)
  <2>1. pmod_mat_mul(pmod_mat_mul(A, X), B2) = pmod_mat_mul(A, pmod_mat_mul(X, B2))
    BY <1>0, <1>2, MulAssoc
  <2> QED
    BY <2>1 DEF AX, P
<1>5. pmod_mat_mul(pmod_mat_mul(AX, B2), B) = pmod_mat_mul(AX, pmod_mat_mul(B2, B))
  BY <1>0, <1>3, MulAssoc
<1>6. pmod_mat_mul(pmod_mat_mul(A, A2), U) = AX
  <2>1. pmod_mat_mul(pmod_mat_mul(A, A2), U) = pmod_mat_mul(A, pmod_mat_mul(A2, U))
    BY <1>0, <1>1, MulAssoc
  <2> QED
    BY <2>1 DEF AX, X
<1>7. PiRow(A, B, PiRow(A2, B2, u)) = Flat(pmod_mat_mul(pmod_mat_mul(AX, B2), B))
  BY <1>2, <1>4 DEF PiRow
<1>8. PiRow(pmod_mat_mul(A, A2), pmod_mat_mul(B2, B), u) = Flat(pmod_mat_mul(AX, pmod_mat_mul(B2, B)))
  BY <1>6 DEF PiRow, U
<1> QED
  BY <1>5, <1>7, <1>8

LEMMA PiRowOne ==
    ASSUME Modulus, Size, NEW u \in Vec(Cells)
    PROVE  PiRow(One(MEDS_n), One(MEDS_n), u) = u
<1>0. MEDS_n \in Nat \ {0} /\ MEDS_n \in Nat
  BY DEF Size
<1>1. Square(u) \in Matrices(MEDS_n, MEDS_n)
  BY SquareIs DEF Squares
<1>2. pmod_mat_mul(One(MEDS_n), Square(u)) = Square(u) /\ pmod_mat_mul(Square(u), One(MEDS_n)) = Square(u)
  BY <1>0, <1>1, MulOne
<1> QED
  BY <1>2, FlatSquare DEF PiRow

-----------------------------------------------------------------------------
\* pi on a code.
Codes == Matrices(MEDS_n, MEDS_n * MEDS_n)

LEMMA PiIs ==
    ASSUME Modulus, Size, NEW A \in Squares, NEW B \in Squares, NEW G \in Codes
    PROVE  /\ pi(A, B, G) \in Codes
           /\ \A r \in Idx(MEDS_n) : pi(A, B, G)[r] = PiRow(A, B, G[r])
           /\ \A r \in Idx(MEDS_n) : G[r] \in Vec(Cells)
<1>0. MEDS_n \in Nat \ {0} /\ MEDS_n * MEDS_n \in Nat
  BY DEF Size
<1>1. DOMAIN G = Idx(MEDS_n) /\ \A r \in Idx(MEDS_n) : G[r] \in Vec(Cells)
  BY <1>0, MatrixIs DEF Codes, Cells
<1> DEFINE m == [r \in Idx(MEDS_n) |-> PiRow(A, B, G[r])]
<1>2. pi(A, B, G) = Row(m)
  BY <1>1 DEF pi, PiRow
<1>3. \A r \in Idx(MEDS_n) : PiRow(A, B, G[r]) \in Vec(Cells)
  BY <1>1, PiRowIs
<1>4. m \in Codes
  BY <1>3 DEF Codes, Cells, Matrices, Mat
<1>5. pi(A, B, G) = m
  BY <1>2, RowIs
<1> QED
  BY <1>1, <1>4, <1>5

\* Codes that are the same are mapped to the same one.
LEMMA PiSpanIn ==
    ASSUME Modulus, Size, NEW A \in Squares, NEW B \in Squares, NEW X \in Codes, NEW Y \in Codes,
           Span(Cells, X) \subseteq Span(Cells, Y)
    PROVE  Span(Cells, pi(A, B, X)) \subseteq Span(Cells, pi(A, B, Y))
<1> DEFINE L == [u \in Vec(Cells) |-> PiRow(A, B, u)]
           D == Idx(MEDS_n)
           Z == pi(A, B, Y)
<1>1. L \in [Vec(Cells) -> Vec(Cells)]
  BY PiRowIs
<1>2. \A u \in Vec(Cells) : L[u] = PiRow(A, B, u)
  OBVIOUS
<1>3. \A u, v \in Vec(Cells), g \in Field : L[Plus(u, g, v)] = Plus(L[u], g, L[v])
  <2> TAKE u, v \in Vec(Cells), g \in Field
  <2>1. PiRow(A, B, Plus(u, g, v)) = Plus(PiRow(A, B, u), g, PiRow(A, B, v))
    BY PiRowLinear
  <2>2. Plus(u, g, v) \in Vec(Cells)
    BY PlusType
  <2> HIDE DEF L
  <2> QED
    BY <1>2, <2>1, <2>2
<1>4. /\ X \in Mat(D, Cells) /\ Y \in Mat(D, Cells)
      /\ \A r \in D : X[r] \in Vec(Cells) /\ Y[r] \in Vec(Cells)
      /\ Z \in Mat(D, Cells) /\ \A r \in D : Z[r] = PiRow(A, B, Y[r])
      /\ pi(A, B, X) \in Mat(D, Cells) /\ \A r \in D : pi(A, B, X)[r] = PiRow(A, B, X[r])
  BY PiIs DEF Codes, Matrices, Cells
<1>5. \A r \in D : L[Y[r]] \in Span(Cells, Z)
  <2>1. \A r \in D : Z[r] \in Span(Cells, Z)
    BY <1>4, SpanHolds DEF Holds, Mat
  <2> HIDE DEF L, Z, D
  <2> QED
    BY <1>2, <1>4, <2>1
<1> HIDE DEF L, Z, D
<1>6. ASSUME NEW r \in D PROVE pi(A, B, X)[r] \in Span(Cells, Z)
  <2>1. PICK w : w = X[r]
    OBVIOUS
  <2>2. w \in Span(Cells, X)
    BY <1>4, <2>1, SpanHolds DEF Holds, Mat
  <2>3. w \in Span(Cells, Y) /\ w \in Vec(Cells)
    BY <1>4, <2>1, <2>2
  <2>4. Y \in Mat(D, Cells)
    BY <1>4
  <2>5. L[w] \in Span(Cells, Z)
    BY ONLY Modulus, <1>1, <1>3, <1>5, <2>3, <2>4, SpanMapped
  <2> QED
    BY <1>2, <1>4, <2>1, <2>3, <2>5
<1>7. Holds(Span(Cells, Z), pi(A, B, X))
  BY <1>4, <1>6 DEF Holds, Mat
<1> QED
  BY <1>7, SpanOf DEF Z

LEMMA PiSpan ==
    ASSUME Modulus, Size, NEW A \in Squares, NEW B \in Squares, NEW X \in Codes, NEW Y \in Codes,
           Span(Cells, X) = Span(Cells, Y)
    PROVE  Span(Cells, pi(A, B, X)) = Span(Cells, pi(A, B, Y))
<1>1. Span(Cells, pi(A, B, X)) \subseteq Span(Cells, pi(A, B, Y))
  BY PiSpanIn
<1>2. Span(Cells, pi(A, B, Y)) \subseteq Span(Cells, pi(A, B, X))
  BY PiSpanIn
<1> QED
  BY <1>1, <1>2

\* pi twice is pi once, with the products of the matrices.
THEOREM PiTwice ==
    ASSUME Modulus, Size, NEW A \in Squares, NEW A2 \in Squares, NEW B2 \in Squares, NEW B \in Squares,
           NEW G \in Codes
    PROVE  pi(A, B, pi(A2, B2, G)) = pi(pmod_mat_mul(A, A2), pmod_mat_mul(B2, B), G)
<1> DEFINE H == pi(A2, B2, G)
           AA == pmod_mat_mul(A, A2)
           BB == pmod_mat_mul(B2, B)
<1>0. MEDS_n \in Nat \ {0} /\ MEDS_n \in Nat
  BY DEF Size
<1>1. AA \in Squares /\ BB \in Squares
  BY <1>0, MulIs DEF Squares
<1>2. H \in Codes /\ \A r \in Idx(MEDS_n) : H[r] = PiRow(A2, B2, G[r]) /\ G[r] \in Vec(Cells)
  BY PiIs
<1>3. \A r \in Idx(MEDS_n) : PiRow(A, B, PiRow(A2, B2, G[r])) = PiRow(AA, BB, G[r])
  <2> TAKE r \in Idx(MEDS_n)
  <2>1. PICK u \in Vec(Cells) : u = G[r]
    BY <1>2
  <2>2. PiRow(A, B, PiRow(A2, B2, u)) = PiRow(pmod_mat_mul(A, A2), pmod_mat_mul(B2, B), u)
    BY PiRowTwice
  <2> QED
    BY <2>1, <2>2
<1> HIDE DEF H, AA, BB
<1>4. pi(A, B, H) \in Codes /\ \A r \in Idx(MEDS_n) : pi(A, B, H)[r] = PiRow(A, B, H[r])
  BY <1>2, PiIs
<1>5. pi(AA, BB, G) \in Codes /\ \A r \in Idx(MEDS_n) : pi(AA, BB, G)[r] = PiRow(AA, BB, G[r])
  BY <1>1, PiIs
<1>6. \A r \in Idx(MEDS_n) : pi(A, B, H)[r] = pi(AA, BB, G)[r]
  BY <1>2, <1>3, <1>4, <1>5
<1>7. pi(A, B, H) = pi(AA, BB, G)
  <2>1. \A M \in Codes : M = [r \in Idx(MEDS_n) |-> M[r]]
    BY DEF Codes, Matrices, Mat
  <2>2. pi(A, B, H) = [r \in Idx(MEDS_n) |-> pi(A, B, H)[r]]
    BY <1>4, <2>1
  <2>3. pi(AA, BB, G) = [r \in Idx(MEDS_n) |-> pi(AA, BB, G)[r]]
    BY <1>5, <2>1
  <2> QED
    BY <1>6, <2>2, <2>3
<1> QED
  BY <1>7 DEF H, AA, BB

LEMMA PiOne ==
    ASSUME Modulus, Size, NEW G \in Codes
    PROVE  pi(One(MEDS_n), One(MEDS_n), G) = G
<1>1. One(MEDS_n) \in Squares
  BY OneIs DEF Size, Squares
<1>2. /\ pi(One(MEDS_n), One(MEDS_n), G) \in Codes
      /\ \A r \in Idx(MEDS_n) : pi(One(MEDS_n), One(MEDS_n), G)[r] = PiRow(One(MEDS_n), One(MEDS_n), G[r]) /\ G[r] \in Vec(Cells)
  BY <1>1, PiIs
<1>3. \A r \in Idx(MEDS_n) : PiRow(One(MEDS_n), One(MEDS_n), G[r]) = G[r]
  <2> TAKE r \in Idx(MEDS_n)
  <2>1. PICK u \in Vec(Cells) : u = G[r]
    BY <1>2
  <2> QED
    BY <2>1, PiRowOne
<1>4. \A M \in Codes : M = [r \in Idx(MEDS_n) |-> M[r]]
  BY DEF Codes, Matrices, Mat
<1>5. \A r \in Idx(MEDS_n) : pi(One(MEDS_n), One(MEDS_n), G)[r] = G[r]
  BY <1>2, <1>3
<1> QED
  BY <1>2, <1>4, <1>5

-----------------------------------------------------------------------------
\* What solve works on: as many rows as the code has, two more columns than twice.
Wide == 2 * MEDS_n + 2
Systems == Matrices(MEDS_n, Wide)

LEMMA WideIs ==
    ASSUME Size
    PROVE  /\ MEDS_n \in Nat \ {0} /\ Wide \in Nat /\ Sized(MEDS_n, Wide, MEDS_n - 1)
           /\ Idx(MEDS_n) \subseteq Idx(Wide) /\ Idx(MEDS_n - 1) \subseteq Idx(MEDS_n)
           /\ MEDS_n - 1 \in Idx(MEDS_n)
           /\ 2 * MEDS_n \in Idx(Wide) /\ 2 * MEDS_n + 1 \in Idx(Wide)
           /\ \A x \in Idx(MEDS_n) : MEDS_n + x \in Idx(Wide)
BY DEF Size, Wide, Sized, Idx

LEMMA SolveMatrixType ==
    ASSUME Modulus, Size, NEW P0 \in Squares, NEW P1 \in Squares, NEW Amm \in Field
    PROVE  SolveMatrix(P0, P1, Amm) \in Systems
<1> DEFINE n == MEDS_n
           v(j, c) == IF c < n           THEN (MEDS_p - P1[c][j]) % MEDS_p
                      ELSE IF c < 2 * n  THEN P0[c - n][j]
                      ELSE IF c = 2 * n  THEN (P0[n - 1][j] * (MEDS_p - Amm)) % MEDS_p
                      ELSE                    (P1[n - 1][j] * Amm) % MEDS_p
           m == [j \in Idx(n) |-> [c \in Idx(2 * n + 2) |-> v(j, c)]]
<1>0. n \in Nat \ {0} /\ n - 1 \in Idx(n) /\ MEDS_p \in Int /\ Amm \in Int
      /\ \A c \in Idx(2 * n + 2) : (c < n => c \in Idx(n)) /\ (~(c < n) /\ c < 2 * n => c - n \in Idx(n))
  BY FieldInt DEF Size, Idx, Modulus
<1>1. \A i, j \in Idx(n) : P0[i][j] \in Field /\ P1[i][j] \in Field /\ P0[i][j] \in Int /\ P1[i][j] \in Int
  BY <1>0, MatrixIs, FieldInt DEF Squares
<1>2. ASSUME NEW j \in Idx(n), NEW c \in Idx(2 * n + 2) PROVE v(j, c) \in Field
  <2>1. CASE c < n
    <3>1. MEDS_p - P1[c][j] \in Int
      BY <1>0, <1>1, <2>1
    <3> QED
      BY <2>1, <3>1, ModIs
  <2>2. CASE ~(c < n) /\ c < 2 * n
    BY <1>0, <1>1, <2>2
  <2>3. CASE ~(c < n) /\ ~(c < 2 * n) /\ c = 2 * n
    <3>1. P0[n - 1][j] * (MEDS_p - Amm) \in Int
      <4>1. PICK x \in Int : x = P0[n - 1][j]
        BY <1>0, <1>1
      <4> QED
        BY <1>0, <4>1
    <3> QED
      BY <2>3, <3>1, ModIs
  <2>4. CASE ~(c < n) /\ ~(c < 2 * n) /\ c # 2 * n
    <3>1. P1[n - 1][j] * Amm \in Int
      <4>1. PICK x \in Int : x = P1[n - 1][j]
        BY <1>0, <1>1
      <4> QED
        BY <1>0, <4>1
    <3> QED
      BY <2>4, <3>1, ModIs
  <2> QED
    BY <2>1, <2>2, <2>3, <2>4
<1>3. SolveMatrix(P0, P1, Amm) = Rows(m)
  BY DEF SolveMatrix
<1> HIDE DEF v
<1>4. m \in Systems
  BY <1>2 DEF Systems, Matrices, Mat, Vec, Wide
<1>5. Rows(m) = m
  <2>1. m = [r \in DOMAIN m |-> m[r]]
    OBVIOUS
  <2> HIDE DEF m
  <2> QED
    BY <2>1, RowsIs
<1> QED
  BY <1>3, <1>4, <1>5

-----------------------------------------------------------------------------
LEMMA LastStepType ==
    ASSUME Modulus, Size, NEW X \in Systems, NEW r \in Idx(MEDS_n - 1)
    PROVE  LastStep(X, r) \in Systems
<1> DEFINE l == MEDS_n - 1
           K == l..(2 * MEDS_n)
<1>1. /\ MEDS_n \in Nat \ {0} /\ Wide \in Nat /\ l \in Idx(MEDS_n) /\ r \in Idx(MEDS_n) /\ r \in Idx(Wide)
  BY WideIs
<1>2. X \in Matrices(MEDS_n, Wide) /\ X[l][r] \in Int
  BY <1>1, MatrixIs, FieldInt DEF Systems
<1> DEFINE f == X[l][r]
<1>3. Minus(X, l, f, r, K) \in Vec(Idx(Wide))
  <2> HIDE DEF K, l, f
  <2> QED
    BY <1>1, <1>2, MinusType DEF f
<1>4. [Minus(X, l, f, r, K) EXCEPT ![r] = 0] \in Vec(Idx(Wide))
  <2>1. PICK u \in Vec(Idx(Wide)) : u = Minus(X, l, f, r, K)
    BY <1>3
  <2>2. [u EXCEPT ![r] = 0] \in Vec(Idx(Wide))
    BY FieldInt DEF Vec
  <2> QED
    BY <2>1, <2>2
<1>5. LastStep(X, r) = [X EXCEPT ![l] = [Minus(X, l, f, r, K) EXCEPT ![r] = 0]]
  BY DEF LastStep
<1> HIDE DEF f, l, K
<1> QED
  BY <1>1, <1>2, <1>4, <1>5 DEF Systems, Matrices, Mat

LEMMA EliminateLastType ==
    ASSUME Modulus, Size, NEW X \in Systems
    PROVE  EliminateLast(X) \in Systems
<1> DEFINE V == Systems
           n == MEDS_n - 1
           step == [k \in 1..n |-> [M \in V |-> LastStep(M, k - 1)]]
           E(g) == [k \in 0..n |-> IF k = 0 THEN X ELSE LastStep(g[k - 1], k - 1)]
<1>0. n \in Nat /\ \A k \in 1..n : k - 1 \in Idx(n)
  BY DEF Size, Idx
<1>1. \A k \in 1..n, M \in V : LastStep(M, k - 1) \in V
  BY <1>0, LastStepType
<1>2. X \in V /\ step \in [1..n -> [V -> V]]
  <2> HIDE DEF V, n
  <2>1. X \in V
    BY DEF V
  <2> QED
    BY <1>1, <2>1
<1>3. \A k \in 1..n, M \in V : step[k][M] = LastStep(M, k - 1)
  OBVIOUS
<1>4. EliminateLast(X) = (CHOOSE g : g = E(g))[n]
  BY DEF EliminateLast, Loop
<1> HIDE DEF V, n
<1>5. ASSUME NEW g, g = E(g)
      PROVE  LoopEq(g, V, X, n, step)
  <2>1. g = [k \in 0..n |-> g[k]] /\ g[0] = X
    BY <1>0, <1>5
  <2>2. \A k \in 1..n : g[k] = LastStep(g[k - 1], k - 1)
    BY <1>0, <1>5
  <2> HIDE DEF step, E
  <2> QED
    BY <2>1, <2>2, <1>3 DEF LoopEq
<1>6. ASSUME NEW g \in [0..n -> V], Iterates(g, X, n, step)
      PROVE  g = E(g)
  <2>1. \A k \in 1..n : g[k - 1] \in V
    BY <1>0
  <2>2. g[0] = X /\ \A k \in 1..n : g[k] = step[k][g[k - 1]]
    BY <1>6 DEF Iterates
  <2> HIDE DEF step
  <2>3. \A k \in 1..n : g[k] = LastStep(g[k - 1], k - 1)
    BY <2>1, <2>2, <1>3
  <2> QED
    BY <1>0, <2>2, <2>3
<1> HIDE DEF step, E
<1>7. PICK s \in [0..n -> V] : Iterates(s, X, n, step) /\ \A g : LoopEq(g, V, X, n, step) => g = s
  BY <1>0, <1>2, LoopValues
<1>8. EliminateLast(X) = s[n]
  BY <1>4, <1>5, <1>6, <1>7
<1> QED
  BY <1>0, <1>7, <1>8 DEF V

LEMMA NormalizeLastType ==
    ASSUME Modulus, IsField(MEDS_p), Size, NEW X \in Systems, X[MEDS_n - 1][MEDS_n - 1] # 0
    PROVE  NormalizeLast(X) \in Systems
<1> DEFINE l == MEDS_n - 1
           K == MEDS_n..(2 * MEDS_n)
           e == 2 * MEDS_n + 1
<1>1. /\ MEDS_n \in Nat \ {0} /\ Wide \in Nat /\ l \in Idx(MEDS_n) /\ l \in Idx(Wide) /\ e \in Idx(Wide)
      /\ X \in Matrices(MEDS_n, Wide)
  BY WideIs DEF Systems
<1>2. Normalize(X, l, K) \in Matrices(MEDS_n, Wide)
  <2> HIDE DEF K
  <2> QED
    BY <1>1, NormalizeType
<1>3. PICK Y \in Matrices(MEDS_n, Wide) : Y = Normalize(X, l, K)
  BY <1>2
<1>4. NormalizeLast(X) = [Y EXCEPT ![l][l] = 1, ![l][e] = 0]
  BY <1>3 DEF NormalizeLast
<1>5. [[Y[l] EXCEPT ![l] = 1] EXCEPT ![e] = 0] \in Vec(Idx(Wide))
  <2>1. PICK u \in Vec(Idx(Wide)) : u = Y[l]
    BY <1>1, MatrixIs
  <2>2. [u EXCEPT ![l] = 1] \in Vec(Idx(Wide))
    BY FieldInt DEF Vec
  <2>3. PICK v \in Vec(Idx(Wide)) : v = [u EXCEPT ![l] = 1]
    BY <2>2
  <2>4. [v EXCEPT ![e] = 0] \in Vec(Idx(Wide))
    BY FieldInt DEF Vec
  <2> QED
    BY <2>1, <2>3, <2>4
<1>6. NormalizeLast(X) = [Y EXCEPT ![l] = [[Y[l] EXCEPT ![l] = 1] EXCEPT ![e] = 0]]
  <2> HIDE DEF l, e
  <2> QED
    BY <1>1, <1>4 DEF Matrices, Mat
<1> HIDE DEF l, e
<1> QED
  BY <1>1, <1>5, <1>6 DEF Systems, Matrices, Mat

LEMMA SubstituteLastType ==
    ASSUME Modulus, Size, NEW X \in Systems
    PROVE  SubstituteLast(X) \in Systems
<1> DEFINE l == MEDS_n - 1
           K == MEDS_n..(2 * MEDS_n)
           m == [r \in Idx(MEDS_n) |->
                    IF r < l THEN [Minus(X, r, X[r][l], l, K) EXCEPT ![l] = 0] ELSE X[r]]
<1>1. /\ MEDS_n \in Nat \ {0} /\ Wide \in Nat /\ l \in Idx(MEDS_n) /\ l \in Idx(Wide)
      /\ X \in Matrices(MEDS_n, Wide) /\ DOMAIN X = Idx(MEDS_n)
      /\ \A r \in Idx(MEDS_n) : X[r][l] \in Int /\ X[r] \in Vec(Idx(Wide))
  BY WideIs, MatrixIs, FieldInt DEF Systems
<1>2. ASSUME NEW r \in Idx(MEDS_n) PROVE [Minus(X, r, X[r][l], l, K) EXCEPT ![l] = 0] \in Vec(Idx(Wide))
  <2>1. PICK f \in Int : f = X[r][l]
    BY <1>1
  <2>2. Minus(X, r, f, l, K) \in Vec(Idx(Wide))
    <3> HIDE DEF K, l
    <3> QED
      BY <1>1, MinusType
  <2>3. PICK u \in Vec(Idx(Wide)) : u = Minus(X, r, f, l, K)
    BY <2>2
  <2>4. [u EXCEPT ![l] = 0] \in Vec(Idx(Wide))
    BY FieldInt DEF Vec
  <2> QED
    BY <2>1, <2>3, <2>4
<1>3. SubstituteLast(X) = Row(m)
  BY <1>1 DEF SubstituteLast
<1>4. m \in Systems
  <2> HIDE DEF l, K
  <2> QED
    BY <1>1, <1>2 DEF Systems, Matrices, Mat
<1> HIDE DEF m
<1> QED
  BY <1>3, <1>4, RowIs

SquareRow == Vec(Idx(MEDS_n))

LEMMA DotType ==
    ASSUME NEW k \in Nat, NEW f \in Nat, NEW u, NEW v,
           \A x \in Idx(k) : u[f + x] \in Int /\ v[x] \in Int
    PROVE  Dot(u, f, v, k) \in Int
<1> DEFINE t == [x \in Idx(k) |-> u[f + x] * v[x]]
<1>1. \A x \in Idx(k) : t[x] \in Int
  <2> TAKE x \in Idx(k)
  <2>1. PICK a \in Int : a = u[f + x]
    OBVIOUS
  <2>2. PICK b \in Int : b = v[x]
    OBVIOUS
  <2> QED
    BY <2>1, <2>2
<1>2. Dot(u, f, v, k) = Sigma(k, t)
  BY DEF Dot
<1> HIDE DEF t
<1> QED
  BY <1>1, <1>2, SigmaType

LEMMA RowAboveType ==
    ASSUME Modulus, Size, NEW X \in Systems, NEW k \in Nat, NEW below \in SquareRow
    PROVE  RowAbove(X, k, below) \in SquareRow
<1> DEFINE n == MEDS_n
           v(i) == IF k = 0 THEN (X[i][2 * n] - Dot(X[i], n, below, n - 1)) % MEDS_p
                   ELSE (-Dot(X[i], n, below, n)) % MEDS_p
           m == [i \in Idx(n) |-> v(i)]
<1>1. /\ n \in Nat /\ n - 1 \in Nat /\ Idx(n - 1) \subseteq Idx(n) /\ 2 * n \in Idx(Wide)
      /\ \A x \in Idx(n) : n + x \in Idx(Wide) /\ below[x] \in Int
  BY WideIs, FieldInt DEF Size, SquareRow, Vec
<1>2. \A i \in Idx(n), c \in Idx(Wide) : X[i][c] \in Int
  BY WideIs, MatrixIs, FieldInt DEF Systems
<1>3. ASSUME NEW i \in Idx(n) PROVE v(i) \in Field
  <2>1. PICK u : u = X[i] /\ \A c \in Idx(Wide) : u[c] \in Int
    BY <1>2
  <2>2. Dot(u, n, below, n) \in Int /\ Dot(u, n, below, n - 1) \in Int /\ u[2 * n] \in Int
    <3> HIDE DEF n
    <3> QED
      BY <1>1, <2>1, DotType
  <2>3. PICK a \in Int : a = Dot(u, n, below, n)
    BY <2>2
  <2>4. PICK b \in Int : b = Dot(u, n, below, n - 1)
    BY <2>2
  <2>5. PICK d \in Int : d = u[2 * n]
    BY <2>2
  <2>6. (d - b) % MEDS_p \in Field /\ (-a) % MEDS_p \in Field
    BY ModIs
  <2> QED
    BY <2>1, <2>3, <2>4, <2>5, <2>6
<1>4. RowAbove(X, k, below) = Row(m)
  BY DEF RowAbove
<1> HIDE DEF v
<1>5. m \in SquareRow
  BY <1>3 DEF SquareRow, Vec
<1> HIDE DEF m
<1> QED
  BY <1>4, <1>5, RowIs

LEMMA LastRowType ==
    ASSUME Modulus, Size, NEW X \in Systems, NEW Amm \in Field
    PROVE  LastRow(X, Amm) \in SquareRow
<1>1. 2 * MEDS_n + 1 \in Idx(Wide) /\ \A i \in Idx(MEDS_n), c \in Idx(Wide) : X[i][c] \in Field
  BY WideIs, MatrixIs DEF Systems
<1> QED
  BY <1>1 DEF LastRow, SquareRow, Vec

LEMMA RowFromEndType ==
    ASSUME Modulus, Size, NEW X \in Systems, NEW Amm \in Field, NEW n \in Nat
    PROVE  RowFromEnd(X, Amm, n) \in SquareRow
<1> DEFINE V == SquareRow
           a == LastRow(X, Amm)
           step == [k \in 1..n |-> [v \in V |-> RowAbove(X, k - 1, v)]]
           E(g) == [k \in 0..n |-> IF k = 0 THEN a ELSE RowAbove(X, k - 1, g[k - 1])]
<1>0. \A k \in 1..n : k - 1 \in Nat
  OBVIOUS
<1>1. \A k \in 1..n, v \in V : RowAbove(X, k - 1, v) \in V
  BY <1>0, RowAboveType
<1>2. a \in V /\ step \in [1..n -> [V -> V]]
  <2>1. a \in V
    BY LastRowType
  <2> HIDE DEF V, a
  <2> QED
    BY <1>1, <2>1
<1>3. \A k \in 1..n, v \in V : step[k][v] = RowAbove(X, k - 1, v)
  OBVIOUS
<1>4. RowFromEnd(X, Amm, n) = (CHOOSE g : g = E(g))[n]
  BY DEF RowFromEnd, Loop
<1> HIDE DEF V, a
<1>5. ASSUME NEW g, g = E(g)
      PROVE  LoopEq(g, V, a, n, step)
  <2>1. g = [k \in 0..n |-> g[k]] /\ g[0] = a
    BY <1>0, <1>5
  <2>2. \A k \in 1..n : g[k] = RowAbove(X, k - 1, g[k - 1])
    BY <1>0, <1>5
  <2> HIDE DEF step, E
  <2> QED
    BY <2>1, <2>2, <1>3 DEF LoopEq
<1>6. ASSUME NEW g \in [0..n -> V], Iterates(g, a, n, step)
      PROVE  g = E(g)
  <2>1. \A k \in 1..n : g[k - 1] \in V
    BY <1>0
  <2>2. g[0] = a /\ \A k \in 1..n : g[k] = step[k][g[k - 1]]
    BY <1>6 DEF Iterates
  <2> HIDE DEF step
  <2>3. \A k \in 1..n : g[k] = RowAbove(X, k - 1, g[k - 1])
    BY <2>1, <2>2, <1>3
  <2> QED
    BY <1>0, <2>2, <2>3
<1> HIDE DEF step, E
<1>7. PICK s \in [0..n -> V] : Iterates(s, a, n, step) /\ \A g : LoopEq(g, V, a, n, step) => g = s
  BY <1>0, <1>2, LoopValues
<1>8. RowFromEnd(X, Amm, n) = s[n]
  BY <1>4, <1>5, <1>6, <1>7
<1> QED
  BY <1>0, <1>7, <1>8 DEF V

LEMMA SolutionType ==
    ASSUME Modulus, Size, NEW X \in Systems, NEW P0 \in Squares, NEW Amm \in Field
    PROVE  /\ Solution(X, P0, Amm).A \in Squares
           /\ Solution(X, P0, Amm).B_inv \in Squares
<1> DEFINE n == MEDS_n
           a == [r \in Idx(n) |-> RowFromEnd(X, Amm, n - 1 - r)]
           A == Row(a)
           t(r, i) == [x \in Idx(n) |-> P0[x][i] * A[r][x]]
           b == [r \in Idx(n) |-> [i \in Idx(n) |-> Sigma(n, t(r, i)) % MEDS_p]]
<1>1. Solution(X, P0, Amm).A = A /\ Solution(X, P0, Amm).B_inv = Rows(b)
  BY DEF Solution
<1>2. \A r \in Idx(n) : n - 1 - r \in Nat
  BY DEF Size, Idx
<1>3. a \in Squares
  BY <1>2, RowFromEndType DEF Squares, Matrices, Mat, SquareRow
<1>4. A \in Squares
  <2> HIDE DEF a
  <2> QED
    BY <1>3, RowIs
<1>5. n \in Nat \ {0}
  BY DEF Size
<1> HIDE DEF A
<1>6. \A r, i \in Idx(n) : A[r][i] \in Int /\ P0[r][i] \in Int
  BY <1>4, <1>5, MatrixIs, FieldInt DEF Squares
<1>7. ASSUME NEW r \in Idx(n), NEW i \in Idx(n) PROVE Sigma(n, t(r, i)) % MEDS_p \in Field
  <2>1. \A x \in Idx(n) : t(r, i)[x] \in Int
    <3> TAKE x \in Idx(n)
    <3>1. PICK y \in Int : y = P0[x][i]
      BY <1>6
    <3>2. PICK z \in Int : z = A[r][x]
      BY <1>6
    <3> QED
      BY <3>1, <3>2
  <2> HIDE DEF t
  <2>2. Sigma(n, t(r, i)) \in Int
    BY <1>5, <2>1, SigmaType
  <2> QED
    BY <2>2, ModIs
<1> HIDE DEF t
<1>8. b \in Squares
  BY <1>7 DEF Squares, Matrices, Mat, Vec
<1>9. Rows(b) = b
  <2>1. b = [r \in DOMAIN b |-> b[r]]
    OBVIOUS
  <2> HIDE DEF b
  <2> QED
    BY <2>1, RowsIs
<1> QED
  BY <1>1, <1>4, <1>8, <1>9

\* What solve finds are matrices over the field.
THEOREM SolveType ==
    ASSUME Modulus, IsField(MEDS_p), Size, NEW G \in Codes, NEW Amm \in Field
    PROVE  /\ solve(G, Amm).ret \in {0, -1}
           /\ solve(G, Amm).ret = 0 =>
                  solve(G, Amm).sol.A \in Squares /\ solve(G, Amm).sol.B_inv \in Squares
<1> DEFINE P0 == Square(G[0])
           P1 == Square(G[1])
           s == pmod_mat_syst_ct(SolveMatrix(P0, P1, Amm), MEDS_n - 1)
           M == EliminateLast(s.mat)
<1>1. G[0] \in Vec(Cells) /\ G[1] \in Vec(Cells)
  BY DEF Codes, Matrices, Mat, Cells, Size, Idx
<1>2. P0 \in Squares /\ P1 \in Squares
  BY <1>1, SquareIs
<1>3. SolveMatrix(P0, P1, Amm) \in Systems
  <2> HIDE DEF P0, P1
  <2> QED
    BY <1>2, SolveMatrixType
<1>4. s \in States(MEDS_n, Wide)
  <2>1. PICK X \in Systems : X = SolveMatrix(P0, P1, Amm)
    BY <1>3
  <2>2. pmod_mat_syst_ct(X, MEDS_n - 1) \in States(MEDS_n, Wide)
    BY WideIs, SystIs DEF Systems
  <2> QED
    BY <2>1, <2>2
<1>5. s.mat \in Systems /\ s.ret \in {0, -1}
  <2> HIDE DEF s
  <2> QED
    BY <1>4 DEF States, Systems
<1>6. M \in Systems
  <2> HIDE DEF s
  <2> QED
    BY <1>5, EliminateLastType
<1>7. solve(G, Amm) = IF s.ret < 0 THEN NoSolution
                      ELSE IF M[MEDS_n - 1][MEDS_n - 1] = 0 THEN NoSolution
                      ELSE [ret |-> 0, sol |-> Solution(SubstituteLast(NormalizeLast(M)), P0, Amm)]
  BY DEF solve
<1> HIDE DEF s, M, P0, P1
<1>8. CASE s.ret < 0 \/ M[MEDS_n - 1][MEDS_n - 1] = 0
  BY <1>7, <1>8 DEF NoSolution
<1>9. CASE ~(s.ret < 0 \/ M[MEDS_n - 1][MEDS_n - 1] = 0)
  <2>1. NormalizeLast(M) \in Systems
    BY <1>6, <1>9, NormalizeLastType
  <2>2. SubstituteLast(NormalizeLast(M)) \in Systems
    BY <2>1, SubstituteLastType
  <2>3. PICK Y \in Systems : Y = SubstituteLast(NormalizeLast(M))
    BY <2>2
  <2>4. Solution(Y, P0, Amm).A \in Squares /\ Solution(Y, P0, Amm).B_inv \in Squares
    BY <1>2, SolutionType
  <2> QED
    BY <1>7, <1>9, <2>3, <2>4
<1> QED
  BY <1>8, <1>9

-----------------------------------------------------------------------------
\* rnd_sys_mat makes a code of field elements.
LEMMA SysMatType ==
    ASSUME Modulus, Size, NEW vals,
           \A r \in Idx(MEDS_n), c \in Cells : c >= MEDS_n => vals[r][c] \in Field
    PROVE  rnd_sys_mat(vals) \in Codes
<1> DEFINE n == MEDS_n
           m == [r \in Idx(n) |-> [c \in Idx(n * n) |->
                    IF c >= n THEN vals[r][c] ELSE IF c = r THEN 1 ELSE 0]]
<1>1. m \in Codes
  BY FieldInt DEF Codes, Matrices, Mat, Vec, Cells
<1>2. rnd_sys_mat(vals) = Rows(m) /\ m = [r \in DOMAIN m |-> m[r]]
  BY DEF rnd_sys_mat
<1> HIDE DEF m
<1> QED
  BY <1>1, <1>2, RowsIs

\* The systematic form of a code.
LEMMA FormIs ==
    ASSUME Modulus, IsField(MEDS_p), Size, NEW X \in Codes
    PROVE  LET f == pmod_mat_syst_ct(X, MEDS_n)
           IN  /\ f.ret \in {0, -1} /\ f.mat \in Codes
               /\ Span(Cells, f.mat) = Span(Cells, X)
               /\ f.ret = 0 => Systematic(f.mat, MEDS_n)
               /\ f.ret # 0 => Stuck(f.mat, MEDS_n)
<1>1. Sized(MEDS_n, MEDS_n * MEDS_n, MEDS_n)
  BY DEF Size, Sized
<1> DEFINE f == pmod_mat_syst_ct(X, MEDS_n)
           N == MEDS_n * MEDS_n
<1>2. X \in Matrices(MEDS_n, N)
  BY DEF Codes
<1> HIDE DEF N
<1>3. Sized(MEDS_n, N, MEDS_n)
  BY <1>1 DEF N
<1>4. /\ f \in States(MEDS_n, N)
      /\ Span(Idx(N), f.mat) = Span(Idx(N), X)
      /\ f.ret = 0 => Systematic(f.mat, MEDS_n)
      /\ f.ret # 0 => Stuck(f.mat, MEDS_n)
  <2>1. \A H, L, R : Sized(H, L, R) => \A Z \in Matrices(H, L) :
            /\ pmod_mat_syst_ct(Z, R) \in States(H, L)
            /\ Span(Idx(L), pmod_mat_syst_ct(Z, R).mat) = Span(Idx(L), Z)
            /\ pmod_mat_syst_ct(Z, R).ret = 0 => Systematic(pmod_mat_syst_ct(Z, R).mat, R)
            /\ pmod_mat_syst_ct(Z, R).ret # 0 => Stuck(pmod_mat_syst_ct(Z, R).mat, R)
    BY SystIs
  <2> QED
    BY <1>2, <1>3, <2>1
<1> HIDE DEF f
<1>5. f.ret \in {0, -1} /\ f.mat \in Matrices(MEDS_n, N)
  BY <1>4 DEF States
<1> QED
  BY <1>4, <1>5 DEF Codes, Cells, N, f

\* Codes that are the same have the same systematic form.
THEOREM FormSame ==
    ASSUME Modulus, IsField(MEDS_p), Size, NEW X \in Codes, NEW Y \in Codes,
           Span(Cells, X) = Span(Cells, Y), pmod_mat_syst_ct(X, MEDS_n).ret = 0
    PROVE  /\ pmod_mat_syst_ct(Y, MEDS_n).ret = 0
           /\ pmod_mat_syst_ct(Y, MEDS_n).mat = pmod_mat_syst_ct(X, MEDS_n).mat
<1> DEFINE n == MEDS_n
           N == n * n
<1>0. n \in Nat \ {0} /\ N \in Nat /\ n <= N
  BY DEF Size
<1>1. PICK f : f = pmod_mat_syst_ct(X, MEDS_n)
  OBVIOUS
<1>2. PICK e : e = pmod_mat_syst_ct(Y, MEDS_n)
  OBVIOUS
<1>3. /\ f.mat \in Codes /\ e.mat \in Codes
      /\ Span(Cells, f.mat) = Span(Cells, e.mat)
      /\ f.ret = 0 /\ Systematic(f.mat, n)
      /\ e.ret = 0 => Systematic(e.mat, n)
      /\ e.ret # 0 => Stuck(e.mat, n)
  BY <1>1, <1>2, FormIs
<1>4. PICK F \in Matrices(n, N) : F = f.mat
  BY <1>3 DEF Codes
<1>5. PICK E \in Matrices(n, N) : E = e.mat
  BY <1>3 DEF Codes
<1>6. Span(Idx(N), F) = Span(Idx(N), E) /\ Systematic(F, n)
  BY <1>3, <1>4, <1>5 DEF Cells
<1> HIDE DEF n, N
<1>7. e.ret = 0
  <2> SUFFICES ASSUME Stuck(E, n) PROVE FALSE
    BY <1>3, <1>5
  <2>1. PICK r \in Idx(n) : \A w \in Span(Idx(N), E) : ~(w[r] = 1 /\ \A c \in Idx(r) : w[c] = 0)
    BY <1>0, StuckMisses
  <2>2. F[r] \in Span(Idx(N), F)
    BY SpanHolds DEF Holds, Matrices, Mat
  <2>3. F[r][r] = 1 /\ \A c \in Idx(r) : F[r][c] = 0
    <3>1. \A c \in Idx(r) : c \in Idx(n) /\ c # r
      BY <1>0 DEF Idx
    <3> QED
      BY <1>6, <3>1 DEF Systematic
  <2> QED
    BY <1>6, <2>1, <2>2, <2>3
<1>8. F = E
  BY <1>0, <1>3, <1>5, <1>6, <1>7, SystUnique
<1> QED
  BY <1>1, <1>2, <1>4, <1>5, <1>7, <1>8

-----------------------------------------------------------------------------
\* The way to a public key and the response of a round lead to the commitment.
THEOREM WayBack ==
    ASSUME Modulus, IsField(MEDS_p), Size, NEW G0 \in Codes, NEW G \in Codes,
           NEW A \in Squares, NEW V \in Squares, pmod_mat_mul(V, A) = One(MEDS_n),
           NEW B \in Squares, NEW W \in Squares, pmod_mat_mul(B, W) = One(MEDS_n),
           NEW C \in Squares, NEW D \in Squares,
           Span(Cells, G) = Span(Cells, pi(A, B, G0))
    PROVE  Span(Cells, pi(pmod_mat_mul(C, V), pmod_mat_mul(W, D), G)) = Span(Cells, pi(C, D, G0))
<1>0. MEDS_n \in Nat \ {0} /\ \A X, Y \in Squares : pmod_mat_mul(X, Y) \in Squares
  BY MulIs DEF Size, Squares
<1>1. PICK M \in Squares : M = pmod_mat_mul(C, V)
  BY <1>0
<1>2. PICK N \in Squares : N = pmod_mat_mul(W, D)
  BY <1>0
<1>3. pi(A, B, G0) \in Codes
  BY PiIs
<1>4. Span(Cells, pi(M, N, G)) = Span(Cells, pi(M, N, pi(A, B, G0)))
  BY <1>3, PiSpan
<1>5. pi(M, N, pi(A, B, G0)) = pi(pmod_mat_mul(M, A), pmod_mat_mul(B, N), G0)
  BY PiTwice
<1>6. pmod_mat_mul(M, A) = C
  BY <1>0, <1>1, MulAssoc, MulOne DEF Squares
<1>7. pmod_mat_mul(B, N) = D
  BY <1>0, <1>2, MulAssoc, MulOne DEF Squares
<1> QED
  BY <1>1, <1>2, <1>4, <1>5, <1>6, <1>7

-----------------------------------------------------------------------------
\* Finitely many rows, and the matrices that take no other row to the null row.

\* There are finitely many rows, and finitely many matrices.
LEMMA RowsFinite ==
    ASSUME NEW F, IsFiniteSet(F), NEW n \in Nat
    PROVE  IsFiniteSet([Idx(n) -> F])
<1> DEFINE S == {k \in Nat : IsFiniteSet([Idx(k) -> F])}
<1>1. 0 \in S
  <2> DEFINE e == [c \in {} |-> 0]
  <2>1. Idx(0) = {}
    BY DEF Idx
  <2>2. [Idx(0) -> F] \subseteq {e}
    BY <2>1
  <2>3. IsFiniteSet({e})
    BY FS_Singleton
  <2> HIDE DEF e
  <2>4. IsFiniteSet([Idx(0) -> F])
    BY <2>2, <2>3, FS_Subset
  <2> QED
    BY <2>4
<1>2. ASSUME NEW k \in S PROVE k + 1 \in S
  <2> DEFINE U == [Idx(k) -> F] \X F
             V == [Idx(k + 1) -> F]
             h == [x \in U |-> [c \in Idx(k + 1) |-> IF c = k THEN x[2] ELSE x[1][c]]]
  <2>1. k \in Nat /\ IsFiniteSet([Idx(k) -> F])
    OBVIOUS
  <2>2. IsFiniteSet(U)
    BY <2>1, FS_Product
  <2>3. \A c \in Idx(k + 1) : c # k => c \in Idx(k)
    BY <2>1 DEF Idx
  <2>4. Idx(k) \subseteq Idx(k + 1) /\ k \in Idx(k + 1) /\ k \notin Idx(k)
    BY <2>1 DEF Idx
  <2>5. h \in [U -> V]
    BY <2>3
  <2>6. ASSUME NEW v \in V PROVE \E x \in U : h[x] = v
    <3> DEFINE u == [c \in Idx(k) |-> v[c]]
               x == <<u, v[k]>>
    <3>1. u \in [Idx(k) -> F] /\ v[k] \in F
      BY <2>4
    <3>2. \A c \in Idx(k) : u[c] = v[c]
      OBVIOUS
    <3> HIDE DEF u
    <3>3. x \in U /\ x[1] = u /\ x[2] = v[k]
      BY <3>1
    <3>4. h[x] = [c \in Idx(k + 1) |-> IF c = k THEN v[k] ELSE u[c]]
      BY <3>3
    <3>5. v = [c \in Idx(k + 1) |-> v[c]]
      OBVIOUS
    <3>6. h[x] = v
      BY <2>3, <3>2, <3>4, <3>5
    <3> QED
      BY <3>3, <3>6
  <2> HIDE DEF h, U, V
  <2>7. h \in Surjection(U, V)
    BY <2>5, <2>6 DEF Surjection
  <2>8. IsFiniteSet(V)
    BY <2>2, <2>7, FS_Surjection
  <2> QED
    BY <2>1, <2>8 DEF V
<1> HIDE DEF S
<1>3. S = Nat
  <2>1. S \subseteq Nat
    BY DEF S
  <2> QED
    BY <1>1, <1>2, <2>1, Induction
<1> QED
  BY <1>3 DEF S

\* And finitely many rows over the field.
LEMMA VecFinite ==
    ASSUME Modulus, NEW n \in Nat
    PROVE  IsFiniteSet(Vec(Idx(n)))
<1>1. IsFiniteSet(Field)
  BY FS_Interval DEF Field, Modulus
<1> QED
  BY <1>1, RowsFinite DEF Vec

\* The null row.
Null(n) == [c \in Idx(n) |-> 0]

\* No row but the null row is taken to the null row.
OneToOne(n, X) == \A v \in Vec(Idx(n)) : RowTimes(n, n, v, X) = Null(n) => v = Null(n)

\* The null row is taken to the null row.
LEMMA NullIs ==
    ASSUME Modulus, NEW n \in Nat \ {0}, NEW N \in Nat, NEW X \in Matrices(n, N)
    PROVE  Null(n) \in Vec(Idx(n)) /\ RowTimes(n, N, Null(n), X) = Null(N)
<1>1. Null(n) \in Vec(Idx(n)) /\ Null(N) \in Vec(Idx(N))
  BY FieldInt DEF Null, Vec
<1>2. ASSUME NEW c \in Idx(N) PROVE Entry(n, Null(n), X, c) = 0
  <2> DEFINE f == [i \in Idx(n) |-> Null(n)[i] ** X[i][c]]
  <2>1. \A i \in Idx(n) : X[i][c] \in Field /\ Null(n)[i] = 0
    BY MatrixIs DEF Null
  <2>2. \A i \in Idx(n) : f[i] = 0
    BY <2>1, Units
  <2> HIDE DEF f
  <2>3. FieldSum(n, f) = 0
    BY <2>2, SumOfZeros
  <2> QED
    BY <2>3 DEF f, Entry
<1> QED
  BY <1>1, <1>2 DEF RowTimes, Null

\* A matrix is one-to-one exactly when its rows span everything.
LEMMA OneToOneFull ==
    ASSUME Modulus, IsField(MEDS_p), NEW n \in Nat \ {0}, NEW X \in Matrices(n, n)
    PROVE  OneToOne(n, X) <=> Full(n, X)
<1> DEFINE V == Vec(Idx(n))
<1>0. n \in Nat /\ One(n) \in Matrices(n, n)
  BY OneIs
<1>1. ASSUME Full(n, X) PROVE OneToOne(n, X)
  <2>1. PICK W \in Matrices(n, n) : pmod_mat_mul(X, W) = One(n)
    BY <1>1, InvIs
  <2>2. ASSUME NEW v \in V, RowTimes(n, n, v, X) = Null(n) PROVE v = Null(n)
    <3>1. RowTimes(n, n, RowTimes(n, n, v, X), W) = RowTimes(n, n, v, pmod_mat_mul(X, W))
      BY <1>0, RowTimesTwice
    <3>2. RowTimes(n, n, Null(n), W) = Null(n)
      BY <1>0, NullIs
    <3> QED
      BY <2>1, <2>2, <3>1, <3>2, RowTimesOne
  <2> QED
    BY <2>2 DEF OneToOne
<1>2. ASSUME OneToOne(n, X) PROVE Full(n, X)
  <2> DEFINE f == [v \in V |-> RowTimes(n, n, v, X)]
  <2>1. f \in [V -> V]
    BY <1>0, RowTimesType
  <2>2. ASSUME NEW u \in V, NEW v \in V, f[u] = f[v] PROVE u = v
    <3> DEFINE g == Neg(1)
               d == Plus(u, g, v)
    <3>0. g \in Field /\ 1 \in Field /\ 1 ++ g = 0
      BY FieldInt, NegIs
    <3> HIDE DEF g
    <3>1. d \in V /\ \A c \in Idx(n) : d[c] = u[c] ++ (g ** v[c])
      BY <3>0, PlusType
    <3>2. RowTimes(n, n, d, X) = Plus(RowTimes(n, n, u, X), g, RowTimes(n, n, v, X))
      BY <1>0, <3>0, RowTimesLinear
    <3>3. PICK w \in V : w = RowTimes(n, n, u, X)
      BY <1>0, RowTimesType
    <3>4. RowTimes(n, n, v, X) = w
      BY <2>2, <3>3
    <3>5. \A a \in Field : a ++ (g ** a) = 0
      <4> TAKE a \in Field
      <4>1. (1 ++ g) ** a = (1 ** a) ++ (g ** a)
        BY <3>0, Distr
      <4> QED
        BY <3>0, <4>1, Units
    <3>6. Plus(w, g, w) \in V /\ \A c \in Idx(n) : Plus(w, g, w)[c] = 0
      <4>1. Plus(w, g, w) \in V /\ \A c \in Idx(n) : Plus(w, g, w)[c] = w[c] ++ (g ** w[c])
        BY <3>0, PlusType
      <4>2. \A c \in Idx(n) : w[c] \in Field
        BY DEF Vec
      <4> QED
        BY <3>5, <4>1, <4>2
    <3>7. Plus(w, g, w) = Null(n)
      BY <3>6 DEF Null, Vec
    <3>8. d = Null(n)
      <4> HIDE DEF d
      <4> QED
        BY <1>2, <3>1, <3>2, <3>3, <3>4, <3>7 DEF OneToOne
    <3> HIDE DEF d
    <3>9. ASSUME NEW c \in Idx(n) PROVE u[c] = v[c]
      <4>1. u[c] \in Field /\ v[c] \in Field
        BY DEF Vec
      <4>2. u[c] ++ (g ** v[c]) = 0
        BY <3>1, <3>8 DEF Null
      <4>3. (u[c] ++ (g ** v[c])) ++ v[c] = u[c] ++ ((g ** v[c]) ++ v[c])
        <5>1. g ** v[c] \in Field
          BY <3>0, <4>1, Comm
        <5> QED
          BY <4>1, <5>1, Assoc
      <4>4. (g ** v[c]) ++ v[c] = 0
        BY <3>0, <3>5, <4>1, Comm
      <4> QED
        BY <4>1, <4>2, <4>3, <4>4, Units
    <3> QED
      BY <3>9, VecSame
  <2> HIDE DEF f
  <2>3. f \in Injection(V, V)
    BY <2>1, <2>2 DEF Injection, IsInjective
  <2>4. IsFiniteSet(V)
    BY <1>0, VecFinite
  <2>5. f \in Surjection(V, V)
    BY <2>3, <2>4, FS_Injection
  <2>6. ASSUME NEW w \in V PROVE w \in Span(Idx(n), X)
    <3>1. PICK v \in V : f[v] = w
      BY <2>5 DEF Surjection
    <3>2. v \in Span(Idx(n), One(n))
      BY OneFull DEF Full
    <3>3. ASSUME NEW r \in Idx(n) PROVE RowTimes(n, n, One(n)[r], X) \in Span(Idx(n), X)
      <4>1. RowTimes(n, n, One(n)[r], X) = X[r]
        BY <1>0, OneTimes
      <4> QED
        BY <4>1, SpanHolds, MatrixIs DEF Holds, Matrices
    <3>4. RowTimes(n, n, v, X) \in Span(Idx(n), X)
      BY <1>0, <3>2, <3>3, TimesMapped
    <3> QED
      BY <3>1, <3>4 DEF f
  <2> QED
    BY <2>6 DEF Full
<1> QED
  BY <1>1, <1>2

-----------------------------------------------------------------------------
\* The columns on the left: the systematic form is exact.

\* The first R entries of a row.
Leading(w, R) == [c \in Idx(R) |-> w[c]]

LEMMA LeadingIs ==
    ASSUME NEW N \in Nat, NEW R \in Nat, R <= N, NEW w \in Vec(Idx(N))
    PROVE  Leading(w, R) \in Vec(Idx(R)) /\ Idx(R) \subseteq Idx(N) /\ \A c \in Idx(R) : Leading(w, R)[c] = w[c]
<1>1. Idx(R) \subseteq Idx(N)
  BY DEF Idx
<1> QED
  BY <1>1 DEF Leading, Vec

\* Every row of the span begins with one of the span of the first columns.
LEMMA SpanLeading ==
    ASSUME Modulus, NEW H \in Nat \ {0}, NEW N \in Nat, NEW R \in Nat, R <= N, NEW X \in Matrices(H, N),
           NEW w \in Span(Idx(N), X)
    PROVE  Leading(w, R) \in Span(Idx(R), LeftOf(X, R))
<1> DEFINE C == Idx(N)
           B == Idx(R)
           D == Idx(H)
           Z == LeftOf(X, R)
           L == [u \in Vec(C) |-> Leading(u, R)]
<1>0. X \in Mat(D, C) /\ w \in Vec(C)
  BY DEF Matrices, Span
<1>1. \A u \in Vec(C) : Leading(u, R) \in Vec(B) /\ B \subseteq C /\ \A c \in B : Leading(u, R)[c] = u[c]
  BY LeadingIs
<1>2. L \in [Vec(C) -> Vec(B)]
  BY <1>1
<1>3. \A u \in Vec(C) : L[u] = Leading(u, R)
  OBVIOUS
<1>4. ASSUME NEW u \in Vec(C), NEW v \in Vec(C), NEW g \in Field
      PROVE  L[Plus(u, g, v)] = Plus(L[u], g, L[v])
  <2>1. PICK w1 \in Vec(C) : w1 = Plus(u, g, v) /\ \A c \in C : w1[c] = u[c] ++ (g ** v[c])
    BY PlusType
  <2>2. PICK u2 \in Vec(B) : u2 = Leading(u, R)
    BY <1>1
  <2>3. PICK v2 \in Vec(B) : v2 = Leading(v, R)
    BY <1>1
  <2>4. Plus(u2, g, v2) \in Vec(B) /\ \A c \in B : Plus(u2, g, v2)[c] = u2[c] ++ (g ** v2[c])
    BY PlusType
  <2>5. \A c \in B : Leading(w1, R)[c] = Plus(u2, g, v2)[c]
    BY <1>1, <2>1, <2>2, <2>3, <2>4
  <2>6. Leading(w1, R) = Plus(u2, g, v2)
    BY <1>1, <2>4, <2>5, VecSame
  <2> HIDE DEF L
  <2> QED
    BY <1>3, <2>1, <2>2, <2>3, <2>6
<1>5. ASSUME NEW r \in D PROVE L[X[r]] \in Span(B, Z)
  <2>1. X[r] \in Vec(C)
    BY <1>0 DEF Mat
  <2>2. Z = [q \in D |-> [c \in B |-> X[q][c]]] /\ Z \in Mat(D, B)
    BY LeftOfIs DEF Matrices
  <2>3. Z[r] = Leading(X[r], R)
    BY <2>2 DEF Leading
  <2>4. Z[r] \in Span(B, Z)
    BY <2>2, SpanHolds DEF Holds, Mat
  <2> HIDE DEF L, Z
  <2> QED
    BY <1>3, <2>1, <2>3, <2>4
<1> HIDE DEF L
<1>6. L[w] \in Span(B, Z)
  <2> HIDE DEF C, B, D, Z
  <2>1. w \in Span(C, X)
    BY DEF C
  <2> QED
    BY ONLY Modulus, <1>0, <1>2, <1>4, <1>5, <2>1, SpanMapped
<1> QED
  BY <1>0, <1>3, <1>6

\* The elimination of the first n columns gets through exactly when they span
\* everything, and the rows are then made of those of the systematic form.
THEOREM FormExact ==
    ASSUME Modulus, IsField(MEDS_p), NEW n \in Nat \ {0}, NEW N \in Nat, n <= N, NEW X \in Matrices(n, N)
    PROVE  LET s == pmod_mat_syst_ct(X, n)
           IN  /\ s.ret = 0 <=> Full(n, LeftOf(X, n))
               /\ s.ret = 0 => /\ LeftOf(s.mat, n) = One(n)
                               /\ \A r \in Idx(n) : RowTimes(n, N, LeftOf(X, n)[r], s.mat) = X[r]
<1> DEFINE s == pmod_mat_syst_ct(X, n)
<1>0. n \in Nat /\ One(n) \in Matrices(n, n) /\ Sized(n, N, n)
  BY OneIs DEF Sized
<1>1. /\ s \in States(n, N)
      /\ Span(Idx(N), s.mat) = Span(Idx(N), X)
      /\ s.ret = 0 => Systematic(s.mat, n)
      /\ s.ret # 0 => Stuck(s.mat, n)
  BY <1>0, SystIs
<1>2. s.mat \in Matrices(n, N)
  BY <1>1 DEF States
<1> HIDE DEF s
<1>3. PICK Y \in Matrices(n, N) : Y = s.mat
  BY <1>2
<1>4. LeftOf(X, n) \in Matrices(n, n) /\ LeftOf(X, n) = [r \in Idx(n) |-> [c \in Idx(n) |-> X[r][c]]]
  BY <1>0, LeftOfIs
<1>5. LeftOf(Y, n) \in Matrices(n, n) /\ LeftOf(Y, n) = [r \in Idx(n) |-> [c \in Idx(n) |-> Y[r][c]]]
  BY <1>0, LeftOfIs
<1>6. ASSUME Full(n, LeftOf(X, n)) PROVE s.ret = 0
  BY <1>1, <1>3, <1>6, FullNotStuck
<1>7. ASSUME s.ret = 0 PROVE LeftOf(Y, n) = One(n)
  BY <1>1, <1>3, <1>5, <1>7 DEF Systematic, One
<1>8. ASSUME s.ret = 0 PROVE Full(n, LeftOf(X, n))
  <2>1. ASSUME NEW r \in Idx(n) PROVE One(n)[r] \in Span(Idx(n), LeftOf(X, n))
    <3>1. PICK w \in Span(Idx(N), X) : w = Y[r]
      BY <1>1, <1>3, SpanHolds, MatrixIs DEF Holds, Matrices
    <3>2. Leading(w, n) \in Span(Idx(n), LeftOf(X, n))
      BY <1>0, SpanLeading
    <3>3. Leading(w, n) = LeftOf(Y, n)[r]
      BY <1>5, <3>1 DEF Leading
    <3> QED
      BY <1>7, <1>8, <3>2, <3>3
  <2>2. Holds(Span(Idx(n), LeftOf(X, n)), One(n))
    BY <1>0, <2>1, MatrixIs DEF Holds
  <2>3. Span(Idx(n), One(n)) \subseteq Span(Idx(n), LeftOf(X, n))
    BY <2>2, SpanOf
  <2> QED
    BY <2>3, OneFull DEF Full
<1>9. ASSUME s.ret = 0, NEW r \in Idx(n) PROVE RowTimes(n, N, LeftOf(X, n)[r], Y) = X[r]
  <2>1. PICK w \in Span(Idx(N), Y) : w = X[r]
    BY <1>1, <1>3, SpanHolds, MatrixIs DEF Holds, Matrices
  <2>2. Systematic(Y, n)
    BY <1>1, <1>3, <1>9
  <2>3. \A c \in Idx(N) : w[c] = FieldSum(n, [j \in Idx(n) |-> w[j] ** Y[j][c]])
    BY <2>2, SystRow
  <2>4. PICK u \in Vec(Idx(n)) : u = LeftOf(X, n)[r] /\ \A j \in Idx(n) : u[j] = w[j]
    BY <1>4, <2>1, MatrixIs
  <2>5. ASSUME NEW c \in Idx(N) PROVE RowTimes(n, N, u, Y)[c] = w[c]
    <3>1. RowTimes(n, N, u, Y)[c] = FieldSum(n, [j \in Idx(n) |-> u[j] ** Y[j][c]])
      BY DEF RowTimes, Entry
    <3>2. [j \in Idx(n) |-> u[j] ** Y[j][c]] = [j \in Idx(n) |-> w[j] ** Y[j][c]]
      BY <2>4
    <3> QED
      BY <2>3, <3>1, <3>2
  <2>6. RowTimes(n, N, u, Y) \in Vec(Idx(N)) /\ w \in Vec(Idx(N))
    BY <2>1, RowTimesType, MatrixIs
  <2>7. RowTimes(n, N, u, Y) = w
    BY <2>5, <2>6, VecSame
  <2> QED
    BY <2>1, <2>4, <2>7
<1> QED
  BY <1>3, <1>6, <1>7, <1>8, <1>9 DEF s

-----------------------------------------------------------------------------
\* The span of a systematic matrix, and that of a product.

\* A row of the span of a systematic matrix that starts like row k of the
\* identity is row k of that matrix.
LEMMA SystRowIs ==
    ASSUME Modulus, NEW n \in Nat \ {0}, NEW N \in Nat, n <= N, NEW Y \in Matrices(n, N), Systematic(Y, n),
           NEW w \in Span(Idx(N), Y), NEW k \in Idx(n), \A j \in Idx(n) : w[j] = IF j = k THEN 1 ELSE 0
    PROVE  w = Y[k]
<1>1. Y[k] \in Span(Idx(N), Y) /\ Y[k] \in Vec(Idx(N)) /\ w \in Vec(Idx(N))
  <2>1. Y \in Mat(Idx(n), Idx(N)) /\ DOMAIN Y = Idx(n)
    BY DEF Matrices, Mat
  <2> QED
    BY <2>1, SpanHolds DEF Holds, Mat, Span
<1>2. \A j \in Idx(n) : w[j] = Y[k][j]
  BY DEF Systematic
<1>3. ASSUME NEW c \in Idx(N) PROVE w[c] = Y[k][c]
  <2> DEFINE f(v) == [j \in Idx(n) |-> v[j] ** Y[j][c]]
  <2>1. w[c] = FieldSum(n, f(w))
    BY SystRow
  <2>2. Y[k][c] = FieldSum(n, f(Y[k]))
    <3>1. PICK v \in Span(Idx(N), Y) : v = Y[k]
      BY <1>1
    <3>2. v[c] = FieldSum(n, f(v))
      BY SystRow
    <3> QED
      BY <3>1, <3>2
  <2>3. f(w) = f(Y[k])
    BY <1>2
  <2> HIDE DEF f
  <2> QED
    BY <2>1, <2>2, <2>3
<1> QED
  BY <1>1, <1>3, VecSame

\* The rows of a product are in the span of its second factor.
LEMMA ProductInside ==
    ASSUME Modulus, NEW n \in Nat \ {0}, NEW N \in Nat, NEW T \in Matrices(n, n), NEW Y \in Matrices(n, N)
    PROVE  Span(Idx(N), pmod_mat_mul(T, Y)) \subseteq Span(Idx(N), Y)
<1>1. pmod_mat_mul(T, Y) = [r \in Idx(n) |-> RowTimes(n, N, T[r], Y)]
  BY MulIs
<1>2. /\ One(n) \in Matrices(n, n) /\ Full(n, One(n))
      /\ \A r \in Idx(n) : T[r] \in Vec(Idx(n))
      /\ \A r \in Idx(n) : Y[r] \in Span(Idx(N), Y)
  <2>1. Y \in Mat(Idx(n), Idx(N)) /\ DOMAIN Y = Idx(n) /\ n \in Nat
    BY DEF Matrices, Mat
  <2>2. \A r \in Idx(n) : Y[r] \in Span(Idx(N), Y)
    BY <2>1, SpanHolds DEF Holds
  <2> QED
    BY <2>1, <2>2, OneIs, OneFull, MatrixIs
<1>3. \A r \in Idx(n) : RowTimes(n, N, One(n)[r], Y) \in Span(Idx(N), Y)
  BY <1>2, OneTimes
<1>4. ASSUME NEW r \in Idx(n) PROVE RowTimes(n, N, T[r], Y) \in Span(Idx(N), Y)
  <2>1. PICK w \in Span(Idx(n), One(n)) : w = T[r]
    BY <1>2 DEF Full
  <2>2. RowTimes(n, N, w, Y) \in Span(Idx(N), Y)
    BY <1>2, <1>3, TimesMapped
  <2> QED
    BY <2>1, <2>2
<1>5. Holds(Span(Idx(N), Y), pmod_mat_mul(T, Y))
  BY <1>1, <1>4 DEF Holds
<1> QED
  BY <1>5, SpanOf
=============================================================================
