--------------------------- MODULE SeedTreeProofs ---------------------------
(***************************************************************************)
(* Proofs about SeedTree, for every number of leaves, weight and height.   *)
(* The traversal, the signer's and the verifier's, moves a frontier        *)
(* through the leaves: everything left of it is either challenged or below *)
(* a node of the path, and indices[id] is the first challenged leaf that   *)
(* is not left of it (TreeInv).  The path and what the reference takes     *)
(* from the rest of the tree are together the reference's path, of which   *)
(* the verifier has used up a prefix (PathInv), and its own tree is fresh  *)
(* left of the frontier and nowhere above a challenged leaf (GrowInv).     *)
(***************************************************************************)
EXTENDS SeedTree, SequenceTheorems, FiniteSetTheorems, WellFoundedInduction, TLAPS

-----------------------------------------------------------------------------
\* Induction over the naturals and definition by recursion, first-order: what is
\* proved by induction is a set of numbers, and the step of a recursion is a
\* function.

\* A set of naturals with 0 in it and with n + 1 for every n has them all.
THEOREM Induction ==
    ASSUME NEW S, S \subseteq Nat, 0 \in S, \A n \in S : n + 1 \in S
    PROVE  S = Nat
<1> DEFINE R == OpToRel(<, Nat)
           M == Nat \ S
<1> SUFFICES ASSUME M # {} PROVE FALSE
  OBVIOUS
<1>1. IsWellFoundedOn(R, Nat)
  BY NatLessThanWellFounded
<1>2. \A x, y \in Nat : x < y => <<x, y>> \in R
  BY DEF OpToRel
<1> HIDE DEF R
<1>3. PICK x \in M : \A y \in M : ~(<<y, x>> \in R)
  <2>1. M \subseteq Nat
    OBVIOUS
  <2> HIDE DEF M
  <2>2. QED
    BY <1>1, <2>1, WFMin
<1>4. x - 1 \in Nat /\ x - 1 < x
  OBVIOUS
<1>5. x - 1 \in S
  BY <1>2, <1>3, <1>4
<1>6. QED
  BY <1>3, <1>5

\* f takes c at 0 and goes on by step.
Iterates(f, c, N, step) == f[0] = c /\ \A m \in 1..N : f[m] = step[m][f[m - 1]]

\* A first value and a step have a function on 0 .. N that goes on by them.
THEOREM Recursion ==
    ASSUME NEW V, NEW c \in V, NEW N \in Nat, NEW step \in [1..N -> [V -> V]]
    PROVE  \E f \in [0..N -> V] : Iterates(f, c, N, step)
<1> USE DEF Iterates
<1> DEFINE Upto(f, n) == f[0] = c /\ \A m \in 1..n : f[m] = step[m][f[m - 1]]
           S == {n \in Nat : n <= N => \E f \in [0..n -> V] : Upto(f, n)}
<1>1. 0 \in S
  <2>1. [m \in 0..0 |-> c] \in [0..0 -> V] /\ Upto([m \in 0..0 |-> c], 0)
    OBVIOUS
  <2> HIDE DEF Upto
  <2>2. QED
    BY <2>1
<1>2. ASSUME NEW n \in S PROVE n + 1 \in S
  <2> SUFFICES ASSUME n + 1 <= N PROVE \E f \in [0..(n + 1) -> V] : Upto(f, n + 1)
    OBVIOUS
  <2>1. n \in Nat /\ n + 1 \in 1..N
    OBVIOUS
  <2>2. PICK f \in [0..n -> V] : Upto(f, n)
    BY <1>2, <2>1
  <2> DEFINE last == step[n + 1][f[n]]
             g == [m \in 0..(n + 1) |-> IF m = n + 1 THEN last ELSE f[m]]
  <2>3. last \in V
    BY <2>1
  <2>4. g \in [0..(n + 1) -> V]
    BY <2>1, <2>3
  <2>5. g[n + 1] = last /\ \A m \in 0..n : g[m] = f[m]
    BY <2>1
  <2> HIDE DEF g
  <2>6. g[0] = c
    BY <2>1, <2>2, <2>5
  <2>7. \A m \in 1..(n + 1) : g[m] = step[m][g[m - 1]]
    <3> TAKE m \in 1..(n + 1)
    <3>1. CASE m = n + 1
      BY <2>1, <2>5, <3>1
    <3>2. CASE m # n + 1
      <4>1. m \in 1..n /\ m \in 0..n /\ m - 1 \in 0..n
        BY <2>1, <3>2
      <4>2. QED
        BY <2>2, <2>5, <4>1
    <3>3. QED
      BY <3>1, <3>2
  <2>8. QED
    BY <2>4, <2>6, <2>7
<1>3. S = Nat
  <2>1. S \subseteq Nat
    OBVIOUS
  <2> HIDE DEF S
  <2>2. QED
    BY <1>1, <1>2, <2>1, Induction
<1>4. QED
  BY <1>3

-----------------------------------------------------------------------------
\* stree_to_path_to_stree is at work, for the signer or for the verifier.
Walking == pc \in {"scan", "back"} \/ (pc = "hash" /\ mode = "toTree")

\* The first leaf the traversal has not dealt with.
Frontier == IF pc = "scan" THEN i * Pow[H - h] ELSE (i + 1) * Pow[H - h]

\* The signer's tree is fresh down to the level t_hash has reached, and all of
\* it while the path is taken.
FreshTo(level) == \A n \in Nodes : n[1] <= level /\ First(n[1], n[2]) < T => stree[n] = n

Fresh ==
    /\ mode = "toPath" /\ pc = "hash" =>
           top = Root /\ ret \in {"commit", "scan"} /\ FreshTo(lv)
    /\ mode = "toPath" /\ pc = "commit" => FreshTo(0)
    /\ mode = "toPath" /\ pc \in {"scan", "back"} => FreshTo(H)
    /\ mode = "toTree" => pc # "commit" /\ (pc = "hash" => ret = "back")

\* Before the traversal.
NotYet ==
    mode = "toPath" /\ pc \in {"hash", "commit"} =>
        /\ path = <<>> /\ h = 0 /\ i = 0 /\ id = 0
        /\ pc = "hash" /\ ret = "scan" => indices \in Challenges

Ordered == mode = "toTree" \/ pc \notin {"hash", "commit"} => indices \in Challenges

Done(leaf) ==
    \/ leaf \in Challenged
    \/ \E p \in 1..Len(path) : path[p] \in Nodes /\ Under(leaf, path[p])

Swept ==
    Walking =>
        /\ \A n \in 0..(W - 1) : n < id => indices[n] < Frontier
        /\ id < W - 1 => indices[id] >= Frontier
        /\ \A leaf \in Leaves : leaf < Frontier => Done(leaf)

\* The traversal looks at a node only if it has a leaf below it.
AtNode == pc = "scan" => First(h, i) < T

TreeInv ==
    /\ TypeOK
    /\ Fresh
    /\ NotYet
    /\ Ordered
    /\ AtNode
    /\ Swept
    /\ NoLeak
    /\ PathCovers

-----------------------------------------------------------------------------
\* Shifting right is cutting into blocks.
LEMMA Block ==
    ASSUME NEW b \in Nat \ {0}, NEW x \in Nat, NEW k \in Nat
    PROVE  (x \div b = k) <=> (k * b <= x /\ x < (k + 1) * b)
<1>1. x = b * (x \div b) + (x % b) /\ x % b >= 0 /\ x % b < b /\ x \div b \in Int
    BY SMT
<1>2. QED  BY <1>1, SMTT(30)

\* Membership in Nodes.
LEMMA NodeOf ==
    ASSUME NEW hh \in 0..H, NEW ii \in 0..(Pow[hh] - 1)
    PROVE  <<hh, ii>> \in Nodes
BY DEF Nodes

LEMMA NodeIs ==
    ASSUME NEW n \in Nodes
    PROVE  /\ n[1] \in 0..H /\ n[2] \in 0..(Pow[n[1]] - 1)
           /\ n = <<n[1], n[2]>>
BY DEF Nodes

LEMMA NodeBack ==
    ASSUME NEW hh, NEW ii, <<hh, ii>> \in Nodes
    PROVE  hh \in 0..H /\ ii \in 0..(Pow[hh] - 1)
BY NodeIs

\* Powers of two are positive, and double from level to level.
LEMMA Powers ==
    /\ T \in Nat \ {0} /\ W \in Nat \ {0} /\ H \in Nat \ {0}
    /\ \A n \in 0..H : Pow[n] \in Nat \ {0}
    /\ \A n \in 1..H : Pow[n] = 2 * Pow[n - 1]
    /\ Pow[0] = 1
<1>1. \A n \in 1..H : Pow[n] = 2 * Pow[n - 1]
    <2>1. TAKE n \in 1..H
    <2>2. n - 1 \in 0..(H - 1) /\ (n - 1) + 1 = n /\ H \in Nat
        BY SeedTreeAssumption
    <2>3. Pow[(n - 1) + 1] = 2 * Pow[n - 1]
        BY <2>2, SeedTreeAssumption
    <2>4. QED  BY <2>2, <2>3
<1>2. QED  BY <1>1, SeedTreeAssumption

LEMMA RootNode == Root \in Nodes
BY Powers, NodeOf DEF Root

\* What an array of challenged leaves is.
LEMMA Challenge ==
    ASSUME NEW c \in Challenges
    PROVE  /\ c \in [0..(W - 1) -> Leaves]
           /\ \A m, n \in 0..(W - 1) : m < n => c[m] < c[n]
BY SeedTreeAssumption

\* First of the children and of the parent of a node.
LEMMA FirstChild ==
    ASSUME NEW hh \in 0..(H - 1), NEW ii \in Nat
    PROVE  First(hh + 1, 2 * ii) = First(hh, ii)
<1>1. H - hh \in 1..H /\ H - (hh + 1) = (H - hh) - 1
    BY Powers
<1>2. Pow[H - hh] = 2 * Pow[H - (hh + 1)] /\ Pow[H - (hh + 1)] \in Nat
    BY <1>1, Powers
<1>3. QED  BY <1>2 DEF First

LEMMA FirstParent ==
    ASSUME NEW hh \in 1..H, NEW ii \in Nat
    PROVE  /\ First(hh - 1, ii \div 2) <= First(hh, ii)
           /\ ii % 2 = 1 => First(hh - 1, (ii \div 2) + 1) = First(hh, ii + 1)
<1> DEFINE b == Pow[H - hh]
<1>1. H - (hh - 1) \in 1..H /\ (H - (hh - 1)) - 1 = H - hh /\ H - hh \in 0..H
    BY Powers
<1>2. Pow[H - (hh - 1)] = 2 * b /\ b \in Nat
    BY <1>1, Powers
<1>3. 2 * (ii \div 2) <= ii /\ ii \div 2 \in Nat /\ (ii % 2 = 1 => 2 * (ii \div 2) = ii - 1)
    OBVIOUS
<1> HIDE DEF b
<1>4. (2 * (ii \div 2)) * b <= ii * b
    BY <1>2, <1>3
<1>5. (ii \div 2) * (2 * b) = (2 * (ii \div 2)) * b
    BY <1>2, <1>3
<1>6. ASSUME ii % 2 = 1
      PROVE  ((ii \div 2) + 1) * (2 * b) = (ii + 1) * b
    <2>1. 2 * ((ii \div 2) + 1) = ii + 1
        BY <1>3, <1>6
    <2>2. ((ii \div 2) + 1) * (2 * b) = (2 * ((ii \div 2) + 1)) * b
        BY <1>2, <1>3
    <2>3. QED  BY <2>1, <2>2
<1>7. QED  BY <1>2, <1>4, <1>5, <1>6 DEF First, b

-----------------------------------------------------------------------------
LEMMA TreeInit == Init => TreeInv
<1> SUFFICES ASSUME Init PROVE TreeInv
    OBVIOUS
<1>1. TypeOK
    BY Powers, RootNode, SeedTreeAssumption DEF Init, TypeOK, Root, Leaves
<1>2. Fresh
    <2>1. ASSUME NEW n \in Nodes, n[1] <= 0
          PROVE  stree[n] = n
        <3>1. n = Root
            BY <2>1, NodeIs, Powers DEF Root
        <3>2. QED  BY <3>1 DEF Init
    <2>2. QED  BY <2>1 DEF Init, Fresh, FreshTo
<1>3. NotYet /\ Ordered /\ AtNode /\ Swept
    BY DEF Init, NotYet, Ordered, AtNode, Swept, Walking, Root
<1>4. NoLeak /\ PathCovers
    BY DEF Init, NoLeak, PathCovers, Sent
<1>5. QED  BY <1>1, <1>2, <1>3, <1>4 DEF TreeInv

\* As long as neither the path nor the challenge changes, nothing leaks.
LEMMA SamePath ==
    ASSUME TreeInv, UNCHANGED <<path, indices>>
    PROVE  NoLeak' /\ \A leaf \in Leaves : Done(leaf)' <=> Done(leaf)
BY DEF TreeInv, NoLeak, Done, Challenged, Under

LEMMA StepHashLevel == TreeInv /\ HashLevel => TreeInv'
<1> SUFFICES ASSUME TreeInv, HashLevel PROVE TreeInv'
    OBVIOUS
<1>0. TypeOK /\ Fresh /\ NotYet /\ Ordered /\ AtNode /\ Swept /\ NoLeak /\ PathCovers
    BY DEF TreeInv
<1>1. /\ pc = "hash" /\ pc' = pc /\ lv \in 0..H /\ lv < H /\ lv' = lv + 1
      /\ UNCHANGED <<mode, top, ret, indices, h, i, id, path, pos>>
    BY <1>0 DEF HashLevel, TypeOK, walk
<1>2. ASSUME NEW n \in Nodes, n[1] = lv + 1
      PROVE  <<lv, n[2] \div 2>> \in Nodes
    <2>1. n[2] \in 0..(Pow[lv + 1] - 1) /\ lv + 1 \in 1..H /\ (lv + 1) - 1 = lv
        BY <1>1, <1>2, NodeIs, Powers
    <2>2. Pow[lv + 1] = 2 * Pow[lv] /\ Pow[lv] \in Nat
        BY <2>1, <1>1, Powers
    <2>3. n[2] \div 2 \in 0..(Pow[lv] - 1)
        BY <2>1, <2>2
    <2>4. QED  BY <2>3, <1>1, NodeOf
<1>3. stree' \in [Nodes -> Nodes \cup {Zero, Spent, Junk}]
    BY <1>0, <1>2 DEF HashLevel, TypeOK, Derive
<1>4. TypeOK'
    <2>1. lv' \in 0..H
        BY <1>1, Powers
    <2>2. QED  BY <1>0, <1>1, <1>3, <2>1 DEF TypeOK
<1>5. ASSUME mode = "toPath"
      PROVE  top = Root /\ FreshTo(lv)'
    <2>1. top = Root /\ FreshTo(lv)
        BY <1>0, <1>1, <1>5 DEF Fresh
    <2>2. ASSUME NEW n \in Nodes, n[1] <= lv + 1, First(n[1], n[2]) < T
          PROVE  stree'[n] = n
        <3>1. n[1] \in 0..H /\ n[2] \in 0..(Pow[n[1]] - 1) /\ n = <<n[1], n[2]>>
            BY NodeIs
        <3>2. CASE n[1] = lv + 1
            <4>1. top[1] = 0 /\ top[2] = 0
                BY <2>1 DEF Root
            <4>2. lv + 1 - top[1] = lv + 1 /\ Pow[lv + 1] \in Nat
                BY <4>1, <1>1, Powers
            <4>3. top[2] * Pow[lv + 1 - top[1]] <= n[2] /\ n[2] < (top[2] + 1) * Pow[lv + 1 - top[1]]
                BY <3>1, <3>2, <4>1, <4>2
            <4>4. stree'[n] = Derive(stree[<<lv, n[2] \div 2>>], <<lv, n[2] \div 2>>, n)
                BY <2>2, <3>2, <4>3 DEF HashLevel
            <4>5. First(lv, n[2] \div 2) <= First(n[1], n[2]) /\ First(lv, n[2] \div 2) \in Int
                  /\ First(n[1], n[2]) \in Int
                <5>1. lv + 1 \in 1..H /\ (lv + 1) - 1 = lv /\ n[2] \in Nat
                    BY <3>1, <3>2, <1>1, Powers
                <5>2. H - lv \in 0..H /\ H - (lv + 1) \in 0..H
                    BY <1>1, Powers
                <5>3. QED  BY <5>1, <5>2, <3>2, FirstParent, Powers DEF First
            <4>6. First(lv, n[2] \div 2) < T
                BY <4>5, <2>2, Powers
            <4>7. stree[<<lv, n[2] \div 2>>] = <<lv, n[2] \div 2>>
                BY <4>6, <3>2, <1>2, <1>1, <2>1 DEF FreshTo
            <4>8. QED  BY <4>4, <4>7 DEF Derive
        <3>3. CASE n[1] # lv + 1
            <4>1. stree'[n] = stree[n]
                BY <3>3 DEF HashLevel
            <4>2. n[1] <= lv
                BY <3>1, <3>3, <2>2, <1>1
            <4>3. QED  BY <4>1, <4>2, <2>1, <2>2 DEF FreshTo
        <3>4. QED  BY <3>2, <3>3
    <2>3. QED  BY <2>1, <2>2, <1>1 DEF FreshTo, First
<1>6. Fresh'
    BY <1>0, <1>1, <1>5 DEF Fresh
<1>7. NotYet' /\ Ordered' /\ AtNode' /\ Swept'
    BY <1>0, <1>1, SamePath DEF NotYet, Ordered, AtNode, Swept, Walking, Frontier
<1>8. NoLeak' /\ PathCovers'
    BY <1>0, <1>1, SamePath DEF PathCovers, Sent, Challenged, Under
<1>9. QED  BY <1>4, <1>6, <1>7, <1>8 DEF TreeInv

LEMMA StepHashReturn == TreeInv /\ HashReturn => TreeInv'
<1> SUFFICES ASSUME TreeInv, HashReturn PROVE TreeInv'
    OBVIOUS
<1>0. TypeOK /\ Fresh /\ NotYet /\ Ordered /\ AtNode /\ Swept /\ NoLeak /\ PathCovers
    BY DEF TreeInv
<1>1. /\ pc = "hash" /\ lv = H /\ pc' = ret
      /\ UNCHANGED <<mode, stree, top, lv, ret, indices, h, i, id, path, pos>>
    BY DEF HashReturn, walk, call
<1>2. ret \in {"commit", "scan", "back"} /\ mode \in {"toPath", "toTree"} /\ T \in Nat \ {0}
    BY <1>0, Powers DEF TypeOK
<1>3. TypeOK'
    BY <1>0, <1>1 DEF TypeOK
<1>4. Fresh'
    <2>1. ASSUME mode = "toPath"
          PROVE  ret \in {"commit", "scan"} /\ FreshTo(H)
        BY <1>0, <1>1, <2>1 DEF Fresh
    <2>2. FreshTo(H) => FreshTo(0) /\ FreshTo(H)' /\ FreshTo(0)'
        <3>1. ASSUME NEW n \in Nodes PROVE n[1] <= 0 => n[1] <= H
            BY NodeIs, Powers
        <3>2. QED  BY <1>1, <3>1 DEF FreshTo, First
    <2>3. mode = "toTree" => pc' = "back"
        BY <1>0, <1>1 DEF Fresh
    <2>4. QED  BY <2>1, <2>2, <2>3, <1>1, <1>2 DEF Fresh
<1>5. mode = "toPath" => path = <<>> /\ h = 0 /\ i = 0 /\ id = 0
    BY <1>0, <1>1 DEF NotYet
<1>6. NotYet' /\ Ordered'
    BY <1>0, <1>1, <1>2 DEF NotYet, Ordered, Fresh
<1>7. H - 0 \in 0..H /\ Pow[H - 0] \in Nat \ {0} /\ 0 * Pow[H - 0] = 0
    BY Powers
<1>8. AtNode'
    <2>1. mode = "toTree" => pc' = "back"
        BY <1>0, <1>1 DEF Fresh
    <2>2. mode = "toPath" => First(h, i) = 0
        BY <1>5, <1>7 DEF First
    <2>3. QED  BY <2>1, <2>2, <1>1, <1>2 DEF AtNode, First
<1>9. Swept'
    <2>1. CASE mode = "toTree"
        <3>1. pc' = "back" /\ Walking /\ Frontier' = Frontier
            BY <2>1, <1>0, <1>1 DEF Fresh, Walking, Frontier
        <3>2. QED  BY <3>1, <1>0, <1>1, SamePath DEF Swept
    <2>2. CASE mode = "toPath" /\ pc' = "scan"
        <3>1. Frontier' = 0
            BY <2>2, <1>1, <1>5, <1>7 DEF Frontier
        <3>2. id = 0 /\ indices[0] \in Nat
            BY <2>2, <1>0, <1>5, Powers DEF TypeOK, Leaves
        <3>3. QED  BY <2>2, <3>1, <3>2, <1>1, Powers DEF Swept, Leaves
    <2>3. CASE mode = "toPath" /\ pc' # "scan"
        BY <2>3, <1>0, <1>1 DEF Swept, Walking, Fresh
    <2>4. QED  BY <2>1, <2>2, <2>3, <1>2
<1>10. NoLeak' /\ PathCovers'
    BY <1>0, <1>1, <1>2, SamePath DEF PathCovers, Sent, Challenged, Under
<1>11. QED  BY <1>3, <1>4, <1>6, <1>8, <1>9, <1>10 DEF TreeInv

LEMMA StepCommit == TreeInv /\ Commit => TreeInv'
<1> SUFFICES ASSUME TreeInv, Commit PROVE TreeInv'
    OBVIOUS
<1>0. TypeOK /\ Fresh /\ NotYet /\ Ordered /\ AtNode /\ Swept /\ NoLeak /\ PathCovers
    BY DEF TreeInv
<1>1. /\ pc = "commit" /\ pc' = "hash" /\ top' = Root /\ lv' = 0 /\ ret' = "scan"
      /\ indices' \in Challenges
      /\ UNCHANGED <<mode, h, i, id, path, pos>>
    BY DEF Commit, CallHash, walk, Root
<1>2. stree' = [n \in Nodes |-> IF n[1] = H /\ n[2] < T THEN Spent ELSE stree[n]]
    BY DEF Commit
<1>3. mode = "toPath" /\ path = <<>> /\ h = 0 /\ i = 0 /\ id = 0
    BY <1>0, <1>1 DEF NotYet, Fresh, TypeOK
<1>4. TypeOK'
    <2>1. indices' \in [0..(W - 1) -> Leaves]
        BY <1>1, Challenge
    <2>2. stree' \in [Nodes -> Nodes \cup {Zero, Spent, Junk}]
        BY <1>0, <1>2 DEF TypeOK
    <2>3. 0 \in 0..H
        BY Powers
    <2>4. QED  BY <1>0, <1>1, <2>1, <2>2, <2>3, RootNode DEF TypeOK
<1>5. Fresh'
    <2>1. ASSUME NEW n \in Nodes, n[1] <= 0, First(n[1], n[2]) < T
          PROVE  stree'[n] = n
        <3>1. n[1] # H
            BY <2>1, NodeIs, Powers
        <3>2. stree[n] = n
            BY <2>1, <1>0, <1>1, <1>3 DEF Fresh, FreshTo
        <3>3. QED  BY <3>1, <3>2, <1>2
    <2>2. QED  BY <2>1, <1>1, <1>3 DEF Fresh, FreshTo, First
<1>6. NotYet' /\ Ordered' /\ AtNode' /\ Swept'
    BY <1>1, <1>3 DEF NotYet, Ordered, AtNode, Swept, Walking
<1>7. NoLeak' /\ PathCovers'
    BY <1>1, <1>3 DEF NoLeak, PathCovers, Sent
<1>8. QED  BY <1>4, <1>5, <1>6, <1>7 DEF TreeInv

LEMMA StepDescend == TreeInv /\ Descend => TreeInv'
<1> SUFFICES ASSUME TreeInv, Descend PROVE TreeInv'
    OBVIOUS
<1>0. TypeOK /\ Fresh /\ NotYet /\ Ordered /\ AtNode /\ Swept /\ NoLeak /\ PathCovers
    BY DEF TreeInv
<1>1. /\ pc = "scan" /\ Hit /\ h < H /\ h' = h + 1 /\ i' = 2 * i
      /\ UNCHANGED <<pc, mode, stree, top, lv, ret, indices, id, path, pos>>
    BY DEF Descend, call
<1>2. h \in 0..(H - 1) /\ i \in 0..(Pow[h] - 1) /\ h + 1 \in 1..H
    BY <1>0, <1>1, NodeBack, Powers DEF TypeOK
<1>3. First(h + 1, 2 * i) = First(h, i)
    BY <1>2, FirstChild
<1>4. 2 * i \in 0..(Pow[h + 1] - 1)
    <2>1. Pow[h + 1] = 2 * Pow[h] /\ Pow[h] \in Nat
        BY <1>2, Powers
    <2>2. QED  BY <2>1, <1>2
<1>5. TypeOK'
    <2>1. <<h + 1, 2 * i>> \in Nodes
        BY <1>2, <1>4, NodeOf
    <2>2. 2 * i \in 0..Pow[h + 1]
        BY <1>2, <1>4, Powers
    <2>3. QED  BY <1>0, <1>1, <1>2, <2>1, <2>2 DEF TypeOK
<1>6. Fresh' /\ NotYet' /\ Ordered'
    BY <1>0, <1>1 DEF Fresh, FreshTo, NotYet, Ordered, First
<1>7. AtNode'
    BY <1>0, <1>1, <1>3 DEF AtNode, First
<1>8. Swept'
    <2>1. Frontier' = Frontier
        BY <1>1, <1>3 DEF Frontier, First
    <2>2. QED  BY <2>1, <1>0, <1>1, SamePath DEF Swept, Walking
<1>9. NoLeak' /\ PathCovers'
    BY <1>0, <1>1, SamePath DEF PathCovers, Sent, Challenged, Under
<1>10. QED  BY <1>5, <1>6, <1>7, <1>8, <1>9 DEF TreeInv

LEMMA StepSkipLeaf == TreeInv /\ SkipLeaf => TreeInv'
<1> SUFFICES ASSUME TreeInv, SkipLeaf PROVE TreeInv'
    OBVIOUS
<1>0. TypeOK /\ Fresh /\ NotYet /\ Ordered /\ AtNode /\ Swept /\ NoLeak /\ PathCovers
    BY DEF TreeInv
<1>1. /\ pc = "scan" /\ pc' = "back" /\ Hit /\ h = H
      /\ id' = (IF id + 1 < W THEN id + 1 ELSE id)
      /\ UNCHANGED <<mode, stree, top, lv, ret, indices, h, i, path, pos>>
    BY DEF SkipLeaf, call
<1>2. i \in Nat /\ W \in Nat \ {0} /\ id \in 0..(W - 1) /\ indices \in [0..(W - 1) -> Leaves]
      /\ mode \in {"toPath", "toTree"} /\ T \in Nat
    BY <1>0, <1>1, NodeBack, Powers DEF TypeOK
<1>3. TypeOK'
    BY <1>0, <1>1, <1>2 DEF TypeOK
<1>4. Fresh' /\ NotYet' /\ Ordered' /\ AtNode'
    BY <1>0, <1>1 DEF Fresh, FreshTo, NotYet, Ordered, First, AtNode
<1>5. H - h = 0 /\ Pow[H - h] = 1
    BY <1>1, Powers
<1>6. indices[id] = i
    <2>1. indices[id] \in Nat
        BY <1>2 DEF Leaves
    <2>2. indices[id] \div 1 = i
        BY <1>1, <1>5 DEF Hit
    <2>3. QED  BY <2>1, <2>2
<1>7. Swept'
    <2>2. Walking /\ Frontier = i /\ Frontier' = i + 1
        BY <1>1, <1>2, <1>5 DEF Walking, Frontier
    <2>3. \A n \in 0..(W - 1) : indices[n] \in Nat
        BY <1>2 DEF Leaves
    <2>4. \A m, n \in 0..(W - 1) : m < n => indices[m] < indices[n]
        BY <1>0, <1>1, Challenge DEF Ordered
    <2>5. ASSUME NEW n \in 0..(W - 1), n < id'
          PROVE  indices[n] < i + 1
        <3>1. n <= id
            BY <2>5, <1>1, <1>2
        <3>2. indices[n] <= indices[id]
            BY <3>1, <2>3, <2>4, <1>2
        <3>3. QED  BY <3>2, <1>6, <2>3, <1>2
    <2>6. ASSUME id' < W - 1
          PROVE  indices[id'] >= i + 1
        <3>1. id' = id + 1 /\ id' \in 0..(W - 1)
            BY <2>6, <1>1, <1>2
        <3>2. indices[id] < indices[id']
            BY <3>1, <2>4, <1>2
        <3>3. QED  BY <3>1, <3>2, <1>6, <2>3, <1>2
    <2>7. ASSUME NEW leaf \in Leaves, leaf < i + 1
          PROVE  Done(leaf)
        <3>1. CASE leaf = i
            BY <3>1, <1>6, <1>2 DEF Done, Challenged
        <3>2. CASE leaf # i
            BY <3>2, <2>7, <2>2, <1>0, <1>2 DEF Swept, Leaves
        <3>3. QED  BY <3>1, <3>2
    <2>8. QED  BY <2>2, <2>5, <2>6, <2>7, <1>1, SamePath DEF Swept
<1>8. NoLeak' /\ PathCovers'
    BY <1>0, <1>1, SamePath DEF PathCovers, Sent, Challenged, Under
<1>9. QED  BY <1>3, <1>4, <1>7, <1>8 DEF TreeInv

\* What ~Hit means: no challenged leaf is below the node, and the rest of the
\* order around the frontier.
LEMMA NoneBelow ==
    ASSUME TypeOK, Ordered, pc = "scan", Swept, ~Hit
    PROVE  /\ \A leaf \in Leaves : Under(leaf, <<h, i>>) <=>
                   i * Pow[H - h] <= leaf /\ leaf < (i + 1) * Pow[H - h]
           /\ \A leaf \in Challenged : ~Under(leaf, <<h, i>>)
           /\ \A n \in 0..(W - 1) : n < id => indices[n] < (i + 1) * Pow[H - h]
           /\ id < W - 1 => indices[id] >= (i + 1) * Pow[H - h]
<1> DEFINE b == Pow[H - h]
<1>1. h \in 0..H /\ i \in Nat /\ b \in Nat \ {0} /\ W \in Nat \ {0} /\ id \in 0..(W - 1)
    <2>1. h \in 0..H /\ H - h \in 0..H /\ i \in 0..(Pow[h] - 1)
        BY NodeBack, Powers DEF TypeOK
    <2>2. QED  BY <2>1, Powers DEF TypeOK
<1>2. \A n \in 0..(W - 1) : indices[n] \in Nat
    BY DEF TypeOK, Leaves
<1>3. \A m, n \in 0..(W - 1) : m < n => indices[m] < indices[n]
    BY Challenge DEF Ordered
<1>4. \A leaf \in Nat : Under(leaf, <<h, i>>) <=> i * b <= leaf /\ leaf < (i + 1) * b
    BY <1>1, Block DEF Under
<1>5. ~(i * b <= indices[id] /\ indices[id] < (i + 1) * b)
    BY <1>1, <1>2, <1>4 DEF Hit, Under
<1>6. Walking /\ Frontier = i * b
    BY DEF Walking, Frontier
<1> HIDE DEF b
<1>7. i * b \in Int /\ (i + 1) * b \in Int /\ i * b <= (i + 1) * b
    BY <1>1
<1>8. \A n \in 0..(W - 1) : n < id => indices[n] < i * b
    BY <1>6 DEF Swept
<1>9. id < W - 1 => indices[id] >= (i + 1) * b
    BY <1>1, <1>2, <1>5, <1>6, <1>7 DEF Swept
<1>10. ASSUME NEW n \in 0..(W - 1)
       PROVE  ~(i * b <= indices[n] /\ indices[n] < (i + 1) * b)
    <2>1. CASE n < id
        BY <2>1, <1>2, <1>7, <1>8
    <2>2. CASE n = id
        BY <2>2, <1>5
    <2>3. CASE n > id
        <3>1. indices[id] < indices[n] /\ id < W - 1
            BY <2>3, <1>1, <1>3
        <3>2. QED  BY <3>1, <1>1, <1>2, <1>7, <1>9
    <2>4. QED  BY <2>1, <2>2, <2>3, <1>1
<1>11. \A leaf \in Challenged : ~Under(leaf, <<h, i>>)
    BY <1>2, <1>4, <1>10 DEF Challenged
<1>12. \A n \in 0..(W - 1) : n < id => indices[n] < (i + 1) * b
    BY <1>2, <1>7, <1>8
<1>13. QED  BY <1>4, <1>9, <1>11, <1>12 DEF Leaves, b

LEMMA StepStorePath == TreeInv /\ StorePath => TreeInv'
<1> SUFFICES ASSUME TreeInv, StorePath PROVE TreeInv'
    OBVIOUS
<1>0. TypeOK /\ Fresh /\ NotYet /\ Ordered /\ AtNode /\ Swept /\ NoLeak /\ PathCovers
    BY DEF TreeInv
<1>1. /\ pc = "scan" /\ pc' = "back" /\ ~Hit /\ mode = "toPath"
      /\ path' = Append(path, stree[<<h, i>>])
      /\ UNCHANGED <<mode, stree, top, lv, ret, indices, h, i, id, pos>>
    BY DEF StorePath, call, walk
<1>2. h \in 0..H /\ i \in 0..(Pow[h] - 1) /\ <<h, i>> \in Nodes
    BY <1>0, <1>1, NodeBack DEF TypeOK
<1>3. stree[<<h, i>>] = <<h, i>>
    BY <1>0, <1>1, <1>2 DEF Fresh, FreshTo, AtNode
<1>4. path \in Seq(Nodes \cup {Zero, Spent, Junk})
    BY <1>0 DEF TypeOK
<1>5. /\ Len(path) \in Nat /\ Len(path') = Len(path) + 1
      /\ path'[Len(path) + 1] = <<h, i>>
      /\ \A p \in 1..Len(path) : path'[p] = path[p]
    BY <1>1, <1>3, <1>4, AppendProperties, LenProperties
<1>6. TypeOK'
    <2>1. path' \in Seq(Nodes \cup {Zero, Spent, Junk})
        BY <1>1, <1>2, <1>3, <1>4, AppendProperties
    <2>2. QED  BY <1>0, <1>1, <2>1 DEF TypeOK
<1>7. Fresh' /\ NotYet' /\ Ordered' /\ AtNode'
    BY <1>0, <1>1 DEF Fresh, FreshTo, NotYet, Ordered, First, AtNode
<1>8. /\ \A leaf \in Leaves : Under(leaf, <<h, i>>) <=>
              i * Pow[H - h] <= leaf /\ leaf < (i + 1) * Pow[H - h]
      /\ \A leaf \in Challenged : ~Under(leaf, <<h, i>>)
      /\ \A n \in 0..(W - 1) : n < id => indices[n] < (i + 1) * Pow[H - h]
      /\ id < W - 1 => indices[id] >= (i + 1) * Pow[H - h]
    BY <1>0, <1>1, NoneBelow
<1>9. NoLeak'
    <2>1. ASSUME NEW p \in 1..Len(path)'
          PROVE  path'[p] \in Nodes /\ \A leaf \in Challenged : ~Under(leaf, path'[p])
        <3>1. CASE p \in 1..Len(path)
            BY <3>1, <1>0, <1>5 DEF NoLeak
        <3>2. CASE p = Len(path) + 1
            BY <3>2, <1>2, <1>5, <1>8
        <3>3. QED  BY <3>1, <3>2, <1>5
    <2>2. QED  BY <2>1, <1>1 DEF NoLeak, Challenged, Under
<1>10. Swept'
    <2>1. Walking /\ Frontier = i * Pow[H - h] /\ Frontier' = (i + 1) * Pow[H - h]
        BY <1>1 DEF Walking, Frontier
    <2>2. ASSUME NEW leaf \in Leaves, leaf < (i + 1) * Pow[H - h]
          PROVE  Done(leaf)'
        <3>1. CASE leaf < i * Pow[H - h]
            <4>1. Done(leaf)
                BY <3>1, <2>1, <1>0, <1>1 DEF Swept
            <4>2. CASE leaf \in Challenged
                BY <4>2, <1>1 DEF Done, Challenged
            <4>3. ASSUME NEW p \in 1..Len(path), path[p] \in Nodes, Under(leaf, path[p])
                  PROVE  Done(leaf)'
                <5>1. p \in 1..Len(path') /\ path'[p] = path[p]
                    BY <1>5
                <5>2. (path[p] \in Nodes /\ Under(leaf, path[p]))'
                    BY <4>3, <5>1 DEF Under
                <5>3. QED  BY <5>1, <5>2 DEF Done
            <4>4. QED  BY <4>1, <4>2, <4>3, Zenon DEF Done
        <3>2. CASE ~(leaf < i * Pow[H - h])
            <4>1. leaf \in Int /\ i * Pow[H - h] \in Int
                <5>1. H - h \in 0..H
                    BY <1>2, Powers
                <5>2. QED  BY <5>1, <1>2, Powers DEF Leaves
            <4>2. Under(leaf, <<h, i>>)
                BY <4>1, <3>2, <2>2, <1>8
            <4>3. Len(path) + 1 \in 1..Len(path')
                BY <1>5
            <4>4. QED  BY <4>2, <4>3, <1>2, <1>5 DEF Done, Under
        <3>3. QED  BY <3>1, <3>2
    <2>3. QED  BY <2>1, <2>2, <1>1, <1>8 DEF Swept
<1>11. PathCovers'
    BY <1>1 DEF PathCovers, Sent
<1>12. QED  BY <1>6, <1>7, <1>9, <1>10, <1>11 DEF TreeInv

LEMMA StepLoadPath == TreeInv /\ LoadPath => TreeInv'
<1> SUFFICES ASSUME TreeInv, LoadPath PROVE TreeInv'
    OBVIOUS
<1>0. TypeOK /\ Fresh /\ NotYet /\ Ordered /\ AtNode /\ Swept /\ NoLeak /\ PathCovers
    BY DEF TreeInv
<1>1. /\ pc = "scan" /\ pc' = "hash" /\ mode = "toTree" /\ pos' = pos + 1
      /\ stree' = [stree EXCEPT ![<<h, i>>] = IF pos < Len(path) THEN path[pos + 1] ELSE Junk]
      /\ top' = <<h, i>> /\ lv' = h /\ ret' = "back"
      /\ UNCHANGED <<mode, indices, h, i, id, path>>
    BY DEF LoadPath, CallHash, walk
<1>2. <<h, i>> \in Nodes /\ h \in 0..H
    BY <1>0, <1>1 DEF TypeOK
<1>3. pos \in Nat /\ path \in Seq(Nodes \cup {Zero, Spent, Junk}) /\ Len(path) \in Nat
    BY <1>0, LenProperties DEF TypeOK
<1>4. pos < Len(path) => path[pos + 1] \in Nodes \cup {Zero, Spent, Junk}
    BY <1>3, ElementOfSeq
<1>5. TypeOK'
    <2>1. stree' \in [Nodes -> Nodes \cup {Zero, Spent, Junk}]
        BY <1>0, <1>1, <1>4 DEF TypeOK
    <2>2. QED  BY <1>0, <1>1, <1>2, <1>3, <2>1 DEF TypeOK
<1>6. Fresh' /\ NotYet' /\ Ordered' /\ AtNode'
    BY <1>0, <1>1 DEF Fresh, NotYet, Ordered, AtNode
<1>7. NoLeak' /\ PathCovers'
    BY <1>0, <1>1, SamePath DEF PathCovers, Sent, Challenged, Under
<1>8. Swept'
    <2>1. ~Hit
        BY DEF LoadPath
    <2>2. Frontier' = (i + 1) * Pow[H - h]
        BY <1>1 DEF Frontier
    <2>3. \A leaf \in Leaves : Done(leaf)
        BY <1>0, <1>1 DEF PathCovers, Sent, Done
    <2>4. QED  BY <2>1, <2>2, <2>3, <1>0, <1>1, NoneBelow, SamePath DEF Swept
<1>9. QED  BY <1>5, <1>6, <1>7, <1>8 DEF TreeInv

LEMMA StepBacktrack == TreeInv /\ Backtrack => TreeInv'
<1> SUFFICES ASSUME TreeInv, Backtrack PROVE TreeInv'
    OBVIOUS
<1>0. TypeOK /\ Fresh /\ NotYet /\ Ordered /\ AtNode /\ Swept /\ NoLeak /\ PathCovers
    BY DEF TreeInv
<1>1. /\ pc = "back" /\ i % 2 = 1 /\ h' = h - 1 /\ i' = i \div 2
      /\ UNCHANGED <<pc, mode, stree, top, lv, ret, indices, id, path, pos>>
    BY DEF Backtrack, call
<1>2. h \in 1..H /\ i \in 0..(Pow[h] - 1) /\ h - 1 \in 0..H
    <2>1. h \in 0..H /\ i \in 0..(Pow[h] - 1)
        BY <1>0, <1>1, NodeBack DEF TypeOK
    <2>2. h # 0
        BY <2>1, <1>1, Powers
    <2>3. QED  BY <2>1, <2>2, Powers
<1>3. i \div 2 \in 0..(Pow[h - 1] - 1)
    <2>1. Pow[h] = 2 * Pow[h - 1] /\ Pow[h - 1] \in Nat
        BY <1>2, Powers
    <2>2. QED  BY <2>1, <1>2
<1>4. TypeOK'
    <2>1. <<h - 1, i \div 2>> \in Nodes
        BY <1>2, <1>3, NodeOf
    <2>2. i \div 2 \in 0..Pow[h - 1]
        BY <1>2, <1>3, Powers
    <2>3. QED  BY <1>0, <1>1, <1>2, <2>1, <2>2 DEF TypeOK
<1>5. Fresh' /\ NotYet' /\ Ordered' /\ AtNode'
    BY <1>0, <1>1 DEF Fresh, FreshTo, NotYet, Ordered, First, AtNode
<1>6. Swept'
    <2>1. First(h - 1, (i \div 2) + 1) = First(h, i + 1)
        <3>1. i \in Nat
            BY <1>2
        <3>2. QED  BY <3>1, <1>1, <1>2, FirstParent
    <2>2. Frontier' = Frontier
        BY <2>1, <1>1 DEF Frontier, First
    <2>3. QED  BY <2>2, <1>0, <1>1, SamePath DEF Swept, Walking
<1>7. NoLeak' /\ PathCovers'
    BY <1>0, <1>1, SamePath DEF PathCovers, Sent, Challenged, Under
<1>8. QED  BY <1>4, <1>5, <1>6, <1>7 DEF TreeInv

LEMMA StepNextNode == TreeInv /\ NextNode => TreeInv'
<1> SUFFICES ASSUME TreeInv, NextNode PROVE TreeInv'
    OBVIOUS
<1>0. TypeOK /\ Fresh /\ NotYet /\ Ordered /\ AtNode /\ Swept /\ NoLeak /\ PathCovers
    BY DEF TreeInv
<1>1. /\ pc = "back" /\ i % 2 = 0 /\ i' = i + 1
      /\ pc' = (IF First(h, i') >= T THEN IF mode = "toPath" THEN "sent" ELSE "done" ELSE "scan")
      /\ UNCHANGED <<mode, stree, top, lv, ret, indices, h, id, path, pos>>
    BY DEF NextNode, call
<1>2. h \in 0..H /\ i \in 0..(Pow[h] - 1) /\ Pow[h] \in Nat /\ mode \in {"toPath", "toTree"}
    BY <1>0, <1>1, NodeBack, Powers DEF TypeOK
<1>3. First(h, i + 1) \in Int /\ T \in Nat
    <2>1. H - h \in 0..H
        BY <1>2, Powers
    <2>2. QED  BY <2>1, <1>2, Powers DEF First
<1>4. ASSUME First(h, i + 1) < T
      PROVE  i + 1 \in 0..(Pow[h] - 1)
    <2>1. h # 0
        <3>1. SUFFICES ASSUME h = 0 PROVE FALSE
            OBVIOUS
        <3>2. i + 1 = 1 /\ H - 0 = H /\ H \in 0..H
            BY <3>1, <1>2, Powers
        <3>3. First(h, i + 1) = Pow[H]
            BY <3>1, <3>2, Powers DEF First
        <3>4. QED  BY <3>3, <3>2, <1>3, <1>4, Powers, SeedTreeAssumption
    <2>2. Pow[h] = 2 * Pow[h - 1] /\ h - 1 \in 0..H
        BY <2>1, <1>2, Powers
    <2>3. Pow[h - 1] \in Nat
        BY <2>2, Powers
    <2>4. QED  BY <2>2, <2>3, <1>1, <1>2
<1>5. TypeOK'
    <2>1. pc' = "scan" => <<h, i + 1>> \in Nodes
        BY <1>1, <1>2, <1>3, <1>4, NodeOf
    <2>2. i + 1 \in 0..Pow[h]
        BY <1>2
    <2>3. QED  BY <1>0, <1>1, <2>1, <2>2 DEF TypeOK
<1>6. Fresh' /\ NotYet' /\ Ordered'
    BY <1>0, <1>1 DEF Fresh, FreshTo, NotYet, Ordered, First
<1>7. AtNode'
    BY <1>1, <1>3 DEF AtNode, First
<1>8. Frontier = First(h, i + 1) /\ (pc' = "scan" => Frontier' = Frontier)
    BY <1>1 DEF Frontier, First
<1>9. Swept'
    <2>1. Walking /\ (Walking' => pc' = "scan")
        BY <1>1, <1>2 DEF Walking
    <2>2. QED  BY <2>1, <1>0, <1>1, <1>8, SamePath DEF Swept
<1>10. NoLeak'
    BY <1>1, SamePath
<1>11. PathCovers'
    <2>1. CASE mode = "toTree"
        BY <2>1, <1>0, <1>1, SamePath DEF PathCovers, Sent, Challenged, Under
    <2>2. CASE mode = "toPath" /\ pc' = "sent"
        <3>1. ASSUME NEW leaf \in Leaves PROVE Done(leaf)
            BY <2>2, <1>0, <1>1, <1>3, <1>8 DEF Swept, Walking, Leaves
        <3>2. QED  BY <3>1, <1>1 DEF PathCovers, Done, Challenged, Under
    <2>3. CASE mode = "toPath" /\ pc' = "scan"
        BY <2>3, <1>1 DEF PathCovers, Sent
    <2>4. QED  BY <2>1, <2>2, <2>3, <1>1, <1>2
<1>12. QED  BY <1>5, <1>6, <1>7, <1>9, <1>10, <1>11 DEF TreeInv

LEMMA StepOpen == TreeInv /\ Open => TreeInv'
<1> SUFFICES ASSUME TreeInv, Open PROVE TreeInv'
    OBVIOUS
<1>0. TypeOK /\ Fresh /\ NotYet /\ Ordered /\ AtNode /\ Swept /\ NoLeak /\ PathCovers
    BY DEF TreeInv
<1>1. /\ pc = "sent" /\ pc' = "scan" /\ mode' = "toTree"
      /\ stree' = [n \in Nodes |-> Zero]
      /\ h' = 0 /\ i' = 0 /\ id' = 0
      /\ UNCHANGED <<top, lv, ret, indices, path, pos>>
    BY DEF Open, call
<1>2. 0 \in 0..H /\ 0 \in 0..Pow[0] /\ 0 \in 0..(W - 1)
    BY Powers
<1>3. TypeOK'
    <2>1. <<0, 0>> \in Nodes
        BY RootNode DEF Root
    <2>2. stree' \in [Nodes -> Nodes \cup {Zero, Spent, Junk}]
        BY <1>1
    <2>3. QED  BY <1>0, <1>1, <1>2, <2>1, <2>2 DEF TypeOK
<1>4. Fresh' /\ NotYet' /\ Ordered'
    BY <1>0, <1>1 DEF Fresh, NotYet, Ordered
<1>5. AtNode'
    <2>1. H - 0 \in 0..H
        BY Powers
    <2>2. QED  BY <2>1, <1>1, Powers DEF AtNode, First
<1>6. NoLeak' /\ PathCovers'
    BY <1>0, <1>1, SamePath DEF PathCovers, Sent, Challenged, Under
<1>7. Swept'
    <2>1. Frontier' = 0
        <3>1. H - 0 \in 0..H
            BY Powers
        <3>2. QED  BY <3>1, <1>1, Powers DEF Frontier
    <2>2. indices[0] \in Nat /\ 0 \in 0..(W - 1)
        BY <1>0, <1>2 DEF TypeOK, Leaves
    <2>3. QED  BY <2>1, <2>2, <1>1, Powers DEF Swept, Leaves
<1>8. QED  BY <1>3, <1>4, <1>5, <1>6, <1>7 DEF TreeInv

LEMMA StepStop == TreeInv /\ UNCHANGED vars => TreeInv'
BY DEF vars, call, walk, TreeInv, TypeOK, Fresh, FreshTo, NotYet, Ordered, AtNode, Swept,
       Walking, Done, Frontier, NoLeak, PathCovers, Sent, Challenged, Under, First

-----------------------------------------------------------------------------
\* The path of the reference, node by node.

Pairs == Int \X Int
Split(n) == \E leaf \in Challenged : Under(leaf, n)
Low(n)  == <<n[1] + 1, 2 * n[2]>>
High(n) == <<n[1] + 1, 2 * n[2] + 1>>
Parent(n) == <<n[1] - 1, n[2] \div 2>>
Right(n) == <<n[1], n[2] + 1>>

\* What the reference takes from below n, given what it takes from below others.
Walk(f, n) ==
    IF Split(n)
    THEN IF n[1] < H THEN f[Low(n)] \o f[High(n)] ELSE <<>>
    ELSE IF First(n[1], n[2]) < T THEN <<n>> ELSE <<>>

Below == CHOOSE f : f = [n \in Nodes |-> Walk(f, n)]

\* What it takes after it has left n: from the subtrees to the right.
Goes(g) ==
    \A n \in Nodes :
        g[n] = IF n[1] = 0 THEN <<>>
               ELSE IF n[2] % 2 = 1 THEN g[Parent(n)]
               ELSE Below[Right(n)] \o g[Parent(n)]

After == CHOOSE g \in [Nodes -> Seq(Pairs)] : Goes(g)

LEMMA Kids ==
    ASSUME NEW n \in Nodes, n[1] < H
    PROVE  Low(n) \in Nodes /\ High(n) \in Nodes
<1>1. n[1] \in 0..(H - 1) /\ n[2] \in 0..(Pow[n[1]] - 1) /\ n[1] + 1 \in 1..H /\ (n[1] + 1) - 1 = n[1]
  BY NodeIs, Powers
<1>2. Pow[n[1] + 1] = 2 * Pow[n[1]] /\ Pow[n[1]] \in Nat
  BY <1>1, Powers
<1>3. 2 * n[2] \in 0..(Pow[n[1] + 1] - 1) /\ 2 * n[2] + 1 \in 0..(Pow[n[1] + 1] - 1)
  BY <1>1, <1>2
<1>4. QED
  BY <1>1, <1>3, NodeOf DEF Low, High

LEMMA Parents ==
    ASSUME NEW n \in Nodes, n[1] # 0
    PROVE  /\ Parent(n) \in Nodes
           /\ n[2] % 2 = 0 => Right(n) \in Nodes
<1>1. n[1] \in 1..H /\ n[2] \in 0..(Pow[n[1]] - 1) /\ n[1] - 1 \in 0..H
  BY NodeIs, Powers
<1>2. Pow[n[1]] = 2 * Pow[n[1] - 1] /\ Pow[n[1] - 1] \in Nat
  BY <1>1, Powers
<1>3. n[2] \div 2 \in 0..(Pow[n[1] - 1] - 1)
  BY <1>1, <1>2
<1>4. n[2] % 2 = 0 => n[2] + 1 \in 0..(Pow[n[1]] - 1)
  BY <1>1, <1>2
<1>5. QED
  BY <1>1, <1>3, <1>4, NodeOf DEF Parent, Right

\* Nothing but pairs is put together.
LEMMA NodePairs == Nodes \subseteq Pairs
  BY NodeIs, Powers DEF Pairs

LEMMA Joined ==
    ASSUME NEW s \in Seq(Pairs), NEW t \in Seq(Pairs)
    PROVE  s \o t \in Seq(Pairs) /\ Len(s \o t) = Len(s) + Len(t)
  BY ConcatProperties

LEMMA Joins ==
    ASSUME NEW s \in Seq(Pairs), NEW t \in Seq(Pairs), NEW u \in Seq(Pairs)
    PROVE  (s \o t) \o u = s \o (t \o u)
  BY ConcatAssociative

LEMMA BelowExists == \E f : f = [n \in Nodes |-> Walk(f, n)]
<1> DEFINE V == [Nat -> Seq(Pairs)]
           Leaf(n) == IF First(n[1], n[2]) < T THEN <<n>> ELSE <<>>
           base == [x \in Nat |-> IF Split(<<H, x>>) THEN <<>> ELSE Leaf(<<H, x>>)]
           Level(d, v) == [x \in Nat |-> IF Split(<<H - d, x>>) THEN v[2 * x] \o v[2 * x + 1]
                                         ELSE Leaf(<<H - d, x>>)]
           step == [d \in 1..H |-> [v \in V |-> Level(d, v)]]
<1>1. H \in Nat
  BY Powers
<1>2. ASSUME NEW a \in Int, NEW x \in Nat PROVE Leaf(<<a, x>>) \in Seq(Pairs)
  <2>1. <<a, x>> \in Pairs
    BY DEF Pairs
  <2>2. <<<<a, x>>>> \in Seq(Pairs) /\ <<>> \in Seq(Pairs)
    BY <2>1
  <2>3. QED
    BY <2>2
<1> HIDE DEF Leaf
<1>3. base \in V
  <2>1. <<>> \in Seq(Pairs)
    OBVIOUS
  <2>2. QED
    BY <1>1, <1>2, <2>1
<1>4. ASSUME NEW d \in 1..H, NEW v \in V PROVE Level(d, v) \in V
  <2>1. ASSUME NEW x \in Nat PROVE v[2 * x] \o v[2 * x + 1] \in Seq(Pairs)
    <3>1. v[2 * x] \in Seq(Pairs) /\ v[2 * x + 1] \in Seq(Pairs)
      OBVIOUS
    <3>2. QED
      BY <3>1, Joined
  <2>2. H - d \in Int
    BY <1>1
  <2>3. QED
    BY <1>2, <2>1, <2>2
<1> HIDE DEF V, base, Level
<1>5. step \in [1..H -> [V -> V]] /\ \A d \in 1..H, v \in V : step[d][v] = Level(d, v)
  BY <1>4
<1> HIDE DEF step
<1>6. PICK g \in [0..H -> V] : g[0] = base /\ \A d \in 1..H : g[d] = step[d][g[d - 1]]
  BY <1>1, <1>3, <1>5, Recursion DEF Iterates
<1>7. \A d \in 1..H : g[d] = Level(d, g[d - 1])
  <2> TAKE d \in 1..H
  <2>1. g[d - 1] \in V
    BY <1>1
  <2>2. QED
    BY <1>5, <1>6, <2>1
<1> DEFINE f == [n \in Nodes |-> g[H - n[1]][n[2]]]
<1>8. ASSUME NEW n \in Nodes PROVE g[H - n[1]][n[2]] = Walk(f, n)
  <2>1. n[1] \in 0..H /\ n[2] \in Nat /\ n = <<n[1], n[2]>>
    BY NodeIs, Powers
  <2>2. CASE n[1] = H
    <3>1. H - n[1] = 0 /\ ~(n[1] < H)
      BY <1>1, <2>2
    <3>2. g[H - n[1]][n[2]] = base[n[2]]
      BY <1>6, <3>1
    <3>3. <<H, n[2]>> = n
      BY <2>1, <2>2
    <3>4. base[n[2]] = IF Split(n) THEN <<>> ELSE Leaf(n)
      BY <2>1, <3>3 DEF base
    <3>5. QED
      BY <3>1, <3>2, <3>4 DEF Walk, Leaf
  <2>3. CASE n[1] # H
    <3>1. n[1] < H /\ H - n[1] \in 1..H /\ (H - n[1]) - 1 = H - (n[1] + 1) /\ H - (H - n[1]) = n[1]
      BY <1>1, <2>1, <2>3
    <3>2. g[H - n[1]] = Level(H - n[1], g[H - (n[1] + 1)])
      BY <1>7, <3>1
    <3>3. <<H - (H - n[1]), n[2]>> = n
      BY <2>1, <3>1
    <3>4. Level(H - n[1], g[H - (n[1] + 1)])[n[2]]
            = IF Split(n) THEN g[H - (n[1] + 1)][2 * n[2]] \o g[H - (n[1] + 1)][2 * n[2] + 1]
              ELSE Leaf(n)
      BY <2>1, <3>3 DEF Level
    <3>5. Low(n) \in Nodes /\ High(n) \in Nodes
      BY <3>1, Kids
    <3>6. /\ Low(n)[1] = n[1] + 1 /\ Low(n)[2] = 2 * n[2]
          /\ High(n)[1] = n[1] + 1 /\ High(n)[2] = 2 * n[2] + 1
      BY <2>1 DEF Low, High
    <3>7. /\ f[Low(n)] = g[H - (n[1] + 1)][2 * n[2]]
          /\ f[High(n)] = g[H - (n[1] + 1)][2 * n[2] + 1]
      BY <3>5, <3>6
    <3> HIDE DEF f
    <3>8. QED
      BY <3>1, <3>2, <3>4, <3>7 DEF Walk, Leaf
  <2>4. QED
    BY <2>2, <2>3
<1>9. f = [n \in Nodes |-> Walk(f, n)]
  <2> DEFINE e(n) == g[H - n[1]][n[2]]
  <2>1. f = [n \in Nodes |-> e(n)]
    OBVIOUS
  <2>2. \A n \in Nodes : e(n) = Walk(f, n)
    BY <1>8
  <2> HIDE DEF f, e
  <2>3. QED
    BY <2>1, <2>2
<1> HIDE DEF f
<1>10. QED
  BY <1>9

LEMMA BelowIs ==
    /\ \A n \in Nodes : Below[n] = Walk(Below, n) /\ Below[n] \in Seq(Pairs)
    /\ RefPath = Below[Root]
<1>1. Below = [n \in Nodes |-> Walk(Below, n)]
  <2> DEFINE Solves(f) == f = [n \in Nodes |-> Walk(f, n)]
  <2>1. \E f : Solves(f)
    BY BelowExists
  <2>2. Below = CHOOSE f : Solves(f)
    BY DEF Below
  <2> HIDE DEF Solves
  <2>3. Solves(Below)
    BY <2>1, <2>2
  <2>4. QED
    BY <2>3 DEF Solves
<1>2. \A n \in Nodes : Below[n] = Walk(Below, n)
  BY <1>1
<1> DEFINE S == {d \in Nat : \A n \in Nodes : n[1] = H - d => Below[n] \in Seq(Pairs)}
<1>3. ASSUME NEW n \in Nodes PROVE <<n>> \in Seq(Pairs) /\ <<>> \in Seq(Pairs)
  BY NodePairs
<1>4. 0 \in S
  <2>1. ASSUME NEW n \in Nodes, n[1] = H PROVE Below[n] \in Seq(Pairs)
    <3>1. ~(n[1] < H)
      BY <2>1, Powers
    <3>2. Below[n] = <<>> \/ Below[n] = <<n>>
      BY <1>2, <3>1 DEF Walk
    <3>3. QED
      BY <1>3, <3>2
  <2>2. H - 0 = H
    BY Powers
  <2>3. QED
    BY <2>1, <2>2
<1>5. ASSUME NEW d \in S PROVE d + 1 \in S
  <2> SUFFICES ASSUME NEW n \in Nodes, n[1] = H - (d + 1) PROVE Below[n] \in Seq(Pairs)
    OBVIOUS
  <2>1. n[1] < H /\ n[1] + 1 = H - d
    BY Powers
  <2>2. Low(n) \in Nodes /\ High(n) \in Nodes
    BY <2>1, Kids
  <2>3. Low(n)[1] = H - d /\ High(n)[1] = H - d
    BY <2>1 DEF Low, High
  <2>4. Below[Low(n)] \in Seq(Pairs) /\ Below[High(n)] \in Seq(Pairs)
    BY <1>5, <2>2, <2>3
  <2> HIDE DEF S
  <2>5. Below[Low(n)] \o Below[High(n)] \in Seq(Pairs)
    BY <2>4, Joined
  <2>6. QED
    BY <1>2, <1>3, <2>1, <2>5 DEF Walk
<1>6. S = Nat
  <2>1. S \subseteq Nat
    OBVIOUS
  <2> HIDE DEF S
  <2>2. QED
    BY <1>4, <1>5, <2>1, Induction
<1>7. ASSUME NEW n \in Nodes PROVE Below[n] \in Seq(Pairs)
  <2>1. H - n[1] \in Nat /\ n[1] = H - (H - n[1])
    BY NodeIs, Powers
  <2>2. H - n[1] \in S
    BY <1>6, <2>1
  <2>3. QED
    BY <2>1, <2>2
<1>8. RefPath = Below[Root]
  BY DEF RefPath, Below, Walk, Split, Low, High
<1>9. QED
  BY <1>2, <1>7, <1>8

LEMMA AfterIs == After \in [Nodes -> Seq(Pairs)] /\ Goes(After)
<1> DEFINE V == [Nat -> Seq(Pairs)]
           nil == <<>>
           base == [x \in Nat |-> nil]
           Beside(d, x) == IF <<d, x + 1>> \in Nodes THEN Below[<<d, x + 1>>] ELSE nil
           Level(d, v) == [x \in Nat |-> IF x % 2 = 1 THEN v[x \div 2]
                                         ELSE Beside(d, x) \o v[x \div 2]]
           step == [d \in 1..H |-> [v \in V |-> Level(d, v)]]
<1>1. H \in Nat
  BY Powers
<1>2. nil \in Seq(Pairs)
  OBVIOUS
<1>3. ASSUME NEW d, NEW x PROVE Beside(d, x) \in Seq(Pairs)
  BY BelowIs, <1>2
<1> HIDE DEF Beside, nil
<1>4. base \in V
  BY <1>2
<1>5. ASSUME NEW d \in 1..H, NEW v \in V PROVE Level(d, v) \in V
  <2>1. ASSUME NEW x \in Nat
        PROVE v[x \div 2] \in Seq(Pairs) /\ Beside(d, x) \o v[x \div 2] \in Seq(Pairs)
    <3>1. v[x \div 2] \in Seq(Pairs)
      OBVIOUS
    <3>2. QED
      BY <1>3, <3>1, Joined
  <2>2. QED
    BY <2>1
<1> HIDE DEF V, base, Level
<1>6. step \in [1..H -> [V -> V]] /\ \A d \in 1..H, v \in V : step[d][v] = Level(d, v)
  BY <1>5
<1> HIDE DEF step
<1>7. PICK f \in [0..H -> V] : f[0] = base /\ \A d \in 1..H : f[d] = step[d][f[d - 1]]
  BY <1>1, <1>4, <1>6, Recursion DEF Iterates
<1>8. \A d \in 1..H : f[d] = Level(d, f[d - 1])
  <2> TAKE d \in 1..H
  <2>1. f[d - 1] \in V
    BY <1>1
  <2>2. QED
    BY <1>6, <1>7, <2>1
<1> DEFINE g == [n \in Nodes |-> f[n[1]][n[2]]]
<1>9. g \in [Nodes -> Seq(Pairs)]
  <2>1. ASSUME NEW n \in Nodes PROVE f[n[1]][n[2]] \in Seq(Pairs)
    <3>1. n[1] \in 0..H /\ n[2] \in Nat
      BY NodeIs, Powers
    <3>2. QED
      BY <3>1 DEF V
  <2>2. QED
    BY <2>1
<1>10. Goes(g)
  <2> SUFFICES ASSUME NEW n \in Nodes
               PROVE g[n] = IF n[1] = 0 THEN nil
                            ELSE IF n[2] % 2 = 1 THEN g[Parent(n)]
                            ELSE Below[Right(n)] \o g[Parent(n)]
    BY DEF Goes, nil
  <2>1. n[1] \in 0..H /\ n[2] \in Nat /\ g[n] = f[n[1]][n[2]]
    BY NodeIs, Powers
  <2>2. CASE n[1] = 0
    BY <1>7, <2>1, <2>2 DEF base
  <2>3. CASE n[1] # 0
    <3>1. n[1] \in 1..H /\ f[n[1]] = Level(n[1], f[n[1] - 1])
      BY <1>8, <2>1, <2>3
    <3>2. Parent(n) \in Nodes /\ (n[2] % 2 = 0 => Right(n) \in Nodes)
      BY <2>3, Parents
    <3>3. g[Parent(n)] = f[n[1] - 1][n[2] \div 2]
      <4>1. Parent(n)[1] = n[1] - 1 /\ Parent(n)[2] = n[2] \div 2
        BY DEF Parent
      <4>2. QED
        BY <3>2, <4>1
    <3>4. n[2] % 2 = 0 => Beside(n[1], n[2]) = Below[Right(n)]
      BY <3>2 DEF Beside, Right
    <3>5. n[2] % 2 = 0 \/ n[2] % 2 = 1
      BY <2>1
    <3>6. Level(n[1], f[n[1] - 1])[n[2]]
            = IF n[2] % 2 = 1 THEN f[n[1] - 1][n[2] \div 2]
              ELSE Beside(n[1], n[2]) \o f[n[1] - 1][n[2] \div 2]
      BY <2>1 DEF Level
    <3> HIDE DEF g
    <3>7. QED
      BY <2>1, <2>3, <3>1, <3>3, <3>4, <3>5, <3>6
  <2>4. QED
    BY <2>2, <2>3
<1> HIDE DEF g
<1>11. QED
  BY <1>9, <1>10 DEF After

\* Right of the last leaf there is nothing.
LEMMA BelowEnd ==
    ASSUME indices \in [0..(W - 1) -> Leaves], NEW n \in Nodes, First(n[1], n[2]) >= T
    PROVE  Below[n] = <<>>
<1> DEFINE b == Pow[H - n[1]]
<1>1. n[1] \in 0..H /\ n[2] \in Nat /\ H - n[1] \in 0..H
  BY NodeIs, Powers
<1>2. b \in Nat \ {0} /\ T \in Nat
  BY <1>1, Powers
<1>3. n[2] * b >= T
  BY DEF First
<1>4. ~Split(n)
  <2> SUFFICES ASSUME NEW leaf \in Challenged, Under(leaf, n) PROVE FALSE
    BY DEF Split
  <2>1. leaf \in Nat /\ leaf < T
    BY <1>2 DEF Challenged, Leaves
  <2>2. n[2] * b <= leaf
    BY <1>1, <1>2, <2>1, Block DEF Under
  <2> HIDE DEF b
  <2>3. n[2] * b \in Int
    BY <1>1, <1>2
  <2>4. QED
    BY <1>2, <1>3, <2>1, <2>2, <2>3
<1>5. ~(First(n[1], n[2]) < T)
  <2>1. First(n[1], n[2]) \in Int
    BY <1>1, <1>2 DEF First
  <2>2. QED
    BY <1>2, <2>1
<1>6. QED
  BY <1>4, <1>5, BelowIs DEF Walk

LEMMA FirstInt ==
    ASSUME NEW hh \in 0..H, NEW ii \in Nat
    PROVE  First(hh, ii) \in Nat
<1>1. H - hh \in 0..H
  BY Powers
<1>2. Pow[H - hh] \in Nat
  BY <1>1, Powers
<1>3. QED
  BY <1>2 DEF First

LEMMA AfterEnd ==
    ASSUME indices \in [0..(W - 1) -> Leaves], NEW n \in Nodes, First(n[1], n[2] + 1) >= T
    PROVE  After[n] = <<>>
<1> DEFINE S == {d \in Nat : \A m \in Nodes : m[1] = d /\ First(m[1], m[2] + 1) >= T => After[m] = <<>>}
<1>1. 0 \in S
  BY AfterIs DEF Goes
<1>2. ASSUME NEW d \in S PROVE d + 1 \in S
  <2> SUFFICES ASSUME NEW m \in Nodes, m[1] = d + 1, First(m[1], m[2] + 1) >= T
               PROVE After[m] = <<>>
    OBVIOUS
  <2>1. m[1] \in 1..H /\ m[1] # 0 /\ m[2] \in Nat /\ m[1] - 1 = d /\ m[1] \in 0..H
    BY NodeIs, Powers
  <2>2. Parent(m) \in Nodes /\ (m[2] % 2 = 0 => Right(m) \in Nodes)
    BY <2>1, Parents
  <2>3. Parent(m)[1] = d /\ Parent(m)[2] = m[2] \div 2 /\ Right(m)[1] = m[1] /\ Right(m)[2] = m[2] + 1
    BY <2>1 DEF Parent, Right
  <2>4. First(d, (m[2] \div 2) + 1) >= T
    <3>1. CASE m[2] % 2 = 1
      <4>1. First(m[1] - 1, (m[2] \div 2) + 1) = First(m[1], m[2] + 1)
        BY <2>1, <3>1, FirstParent
      <4>2. QED
        BY <2>1, <4>1
    <3>2. CASE m[2] % 2 = 0
      <4>1. (m[2] + 1) % 2 = 1 /\ (m[2] + 1) \div 2 = m[2] \div 2 /\ m[2] + 1 \in Nat
        BY <2>1, <3>2
      <4>2. First(m[1] - 1, ((m[2] + 1) \div 2) + 1) = First(m[1], (m[2] + 1) + 1)
        BY <2>1, <4>1, FirstParent
      <4>3. First(m[1], (m[2] + 1) + 1) >= First(m[1], m[2] + 1)
        <5>1. H - m[1] \in 0..H
          BY <2>1, Powers
        <5>2. Pow[H - m[1]] \in Nat
          BY <5>1, Powers
        <5>3. QED
          BY <2>1, <5>2 DEF First
      <4>4. First(m[1], (m[2] + 1) + 1) \in Nat /\ First(m[1], m[2] + 1) \in Nat
        <5>1. (m[2] + 1) + 1 \in Nat /\ m[2] + 1 \in Nat
          BY <2>1
        <5>2. QED
          BY <2>1, <5>1, FirstInt
      <4>5. QED
        BY <2>1, <4>1, <4>2, <4>3, <4>4, Powers
    <3>3. QED
      BY <2>1, <3>1, <3>2
  <2>5. After[Parent(m)] = <<>>
    BY <1>2, <2>2, <2>3, <2>4
  <2>6. m[2] % 2 = 0 => Below[Right(m)] = <<>>
    BY <2>2, <2>3, BelowEnd
  <2>7. <<>> \o <<>> = <<>>
    OBVIOUS
  <2>8. After[m] = IF m[2] % 2 = 1 THEN After[Parent(m)] ELSE Below[Right(m)] \o After[Parent(m)]
    BY <2>1, AfterIs DEF Goes
  <2>9. m[2] % 2 = 0 \/ m[2] % 2 = 1
    BY <2>1
  <2> HIDE DEF S
  <2>10. QED
    BY <2>5, <2>6, <2>7, <2>8, <2>9
<1>3. S = Nat
  <2>1. S \subseteq Nat
    OBVIOUS
  <2> HIDE DEF S
  <2>2. QED
    BY <1>1, <1>2, <2>1, Induction
<1>4. n[1] \in S
  BY <1>3, NodeIs, Powers
<1>5. QED
  BY <1>4

\* The reference's path depends on the challenge only.
LEMMA SameTree ==
    ASSUME indices' = indices
    PROVE  /\ \A n : Split(n)' = Split(n)
           /\ Below' = Below /\ After' = After /\ RefPath' = RefPath
<1>1. \A n : Split(n)' = Split(n)
  BY DEF Split, Challenged, Under
<1>2. Below' = Below
  BY DEF Below, Walk, Split, Challenged, Under, First
<1>3. After' = After
  BY <1>2 DEF After, Goes
<1>4. RefPath' = RefPath
  BY DEF RefPath, Challenged, Under, First
<1>5. QED
  BY <1>1, <1>2, <1>3, <1>4

-----------------------------------------------------------------------------
\* The path is the reference's, and the verifier uses up all of it.

Node == <<h, i>>

\* What the reference has still to take when the traversal is at Node.
Rest == IF pc = "scan" THEN Below[Node] \o After[Node] ELSE After[Node]

PathInv ==
    /\ mode = "toPath" /\ pc \in {"scan", "back"} => path \o Rest = RefPath
    /\ Sent => path = RefPath
    /\ mode = "toPath" => pos = 0
    /\ mode = "toTree" /\ Walking => \E d \in Seq(Pairs) : Len(d) = pos /\ d \o Rest = path
    /\ pc = "sent" => mode = "toPath"
    /\ pc = "done" => mode = "toTree" /\ pos = Len(path)

LEMMA HitSplits ==
    ASSUME TreeInv, pc = "scan"
    PROVE  /\ Node \in Nodes /\ Node[1] = h /\ Node[2] = i
           /\ Hit <=> Split(Node)
<1>1. TypeOK /\ Ordered /\ Swept
  BY DEF TreeInv
<1>2. Node \in Nodes /\ Node[1] = h /\ Node[2] = i
  BY <1>1 DEF TypeOK, Node
<1>3. Hit => Split(Node)
  <2>1. id \in 0..(W - 1)
    BY <1>1 DEF TypeOK
  <2>2. indices[id] \in Challenged
    BY <2>1 DEF Challenged
  <2>3. QED
    BY <1>2, <2>2 DEF Hit, Split, Under
<1>4. ~Hit => ~Split(Node)
  BY <1>1, NoneBelow DEF Split, Node
<1>5. QED
  BY <1>2, <1>3, <1>4

\* The traversal goes on without taking a seed.
LEMMA SameRest ==
    ASSUME PathInv, Walking, Walking', pc # "done",
           UNCHANGED <<mode, indices, path, pos>>, Rest' = Rest,
           mode = "toPath" => pc' \in {"scan", "back"}
    PROVE  PathInv'
<1>1. RefPath' = RefPath
  BY SameTree
<1>2. pc # "sent" /\ pc' # "sent" /\ pc' # "done"
  BY DEF Walking
<1>3. mode = "toPath" => pc \in {"scan", "back"}
  BY DEF Walking
<1>4. QED
  BY <1>1, <1>2, <1>3 DEF PathInv, Sent

LEMMA PathHash == TreeInv /\ PathInv /\ HashLevel => PathInv'
<1> SUFFICES ASSUME TreeInv, PathInv, HashLevel PROVE PathInv'
  OBVIOUS
<1>1. pc = "hash" /\ pc' = pc /\ UNCHANGED <<mode, indices, h, i, path, pos>>
  BY DEF HashLevel, walk
<1>2. Rest' = Rest /\ RefPath' = RefPath
  BY <1>1, SameTree DEF Rest, Node
<1>3. QED
  BY <1>1, <1>2 DEF PathInv, Sent, Walking

LEMMA PathReturn == TreeInv /\ PathInv /\ HashReturn => PathInv'
<1> SUFFICES ASSUME TreeInv, PathInv, HashReturn PROVE PathInv'
  OBVIOUS
<1>1. TypeOK /\ Fresh /\ NotYet
  BY DEF TreeInv
<1>2. pc = "hash" /\ pc' = ret /\ UNCHANGED <<mode, indices, h, i, path, pos>>
  BY DEF HashReturn, walk
<1>3. RefPath' = RefPath /\ Below' = Below /\ After' = After
  BY <1>2, SameTree
<1>4. CASE mode = "toTree"
  <2>1. pc' = "back"
    BY <1>1, <1>2, <1>4 DEF Fresh
  <2>2. Rest' = Rest /\ Walking
    BY <1>2, <1>3, <1>4, <2>1 DEF Rest, Node, Walking
  <2>3. QED
    BY <1>2, <1>3, <1>4, <2>1, <2>2 DEF PathInv, Sent
<1>5. CASE mode = "toPath"
  <2>1. path = <<>> /\ h = 0 /\ i = 0 /\ pc' \in {"commit", "scan"}
    BY <1>1, <1>2, <1>5 DEF NotYet, Fresh
  <2>2. Node = Root /\ Root \in Nodes /\ Root[1] = 0
    BY <2>1, RootNode DEF Node, Root
  <2>3. After[Node] = <<>>
    BY <2>2, AfterIs DEF Goes
  <2>4. Below[Node] = RefPath /\ RefPath \in Seq(Pairs)
    BY <2>2, BelowIs
  <2>5. RefPath \o <<>> = RefPath /\ <<>> \o RefPath = RefPath
    BY <2>4, ConcatEmptySeq
  <2>6. Node' = Node
    BY <1>2 DEF Node
  <2>7. pc' = "scan" => Rest' = RefPath
    BY <1>3, <2>3, <2>4, <2>5, <2>6 DEF Rest
  <2>8. QED
    BY <1>2, <1>3, <1>5, <2>1, <2>5, <2>7 DEF PathInv, Sent, Walking
<1>6. QED
  BY <1>1, <1>4, <1>5 DEF TypeOK

LEMMA PathCommit == TreeInv /\ PathInv /\ Commit => PathInv'
<1> SUFFICES ASSUME TreeInv, PathInv, Commit PROVE PathInv'
  OBVIOUS
<1>1. pc = "commit" /\ pc' = "hash" /\ UNCHANGED <<mode, pos>>
  BY DEF Commit, CallHash
<1>2. mode = "toPath"
  BY <1>1 DEF TreeInv, TypeOK, Fresh
<1>3. QED
  BY <1>1, <1>2 DEF PathInv, Sent, Walking

LEMMA PathDescend == TreeInv /\ PathInv /\ Descend => PathInv'
<1> SUFFICES ASSUME TreeInv, PathInv, Descend PROVE PathInv'
  OBVIOUS
<1>1. /\ pc = "scan" /\ Hit /\ h < H /\ h' = h + 1 /\ i' = 2 * i
      /\ UNCHANGED <<pc, mode, indices, path, pos>>
  BY DEF Descend
<1>2. Node \in Nodes /\ Node[1] = h /\ Node[2] = i /\ Split(Node)
  BY <1>1, HitSplits
<1>3. Below' = Below /\ After' = After
  BY <1>1, SameTree
<1>4. h \in 0..H /\ i \in Nat
  BY <1>2, NodeIs, Powers
<1>5. Low(Node) \in Nodes /\ High(Node) \in Nodes
  BY <1>1, <1>2, Kids
<1>6. Node' = Low(Node) /\ Low(Node) = <<h + 1, 2 * i>> /\ High(Node) = <<h + 1, 2 * i + 1>>
  BY <1>1 DEF Node, Low, High
<1>7. Parent(Low(Node)) = Node /\ Right(Low(Node)) = High(Node)
      /\ Low(Node)[1] # 0 /\ Low(Node)[2] % 2 # 1
  <2>1. (h + 1) - 1 = h /\ (2 * i) \div 2 = i /\ (2 * i) % 2 = 0 /\ h + 1 # 0
    BY <1>4
  <2>2. QED
    BY <1>6, <2>1 DEF Parent, Right, Node
<1>8. Below[Node] = Below[Low(Node)] \o Below[High(Node)]
  BY <1>1, <1>2, BelowIs DEF Walk
<1>9. After[Low(Node)] = Below[High(Node)] \o After[Node]
  BY <1>5, <1>7, AfterIs DEF Goes
<1>10. (Below[Low(Node)] \o Below[High(Node)]) \o After[Node]
         = Below[Low(Node)] \o (Below[High(Node)] \o After[Node])
  <2>1. /\ Below[Low(Node)] \in Seq(Pairs) /\ Below[High(Node)] \in Seq(Pairs)
        /\ After[Node] \in Seq(Pairs)
    BY <1>2, <1>5, BelowIs, AfterIs
  <2>2. QED
    BY ONLY <2>1, Joins
<1>11. Rest' = Rest
  BY <1>1, <1>3, <1>6, <1>8, <1>9, <1>10 DEF Rest
<1>12. QED
  BY <1>1, <1>11, SameRest DEF Walking

LEMMA PathSkip == TreeInv /\ PathInv /\ SkipLeaf => PathInv'
<1> SUFFICES ASSUME TreeInv, PathInv, SkipLeaf PROVE PathInv'
  OBVIOUS
<1>1. pc = "scan" /\ pc' = "back" /\ Hit /\ h = H /\ UNCHANGED <<mode, indices, h, i, path, pos>>
  BY DEF SkipLeaf
<1>2. Node \in Nodes /\ Node[1] = h /\ Split(Node)
  BY <1>1, HitSplits
<1>3. After' = After /\ Node' = Node
  BY <1>1, SameTree DEF Node
<1>4. Below[Node] = <<>>
  <2>1. ~(Node[1] < H)
    BY <1>1, <1>2, Powers
  <2>2. QED
    BY <1>2, <2>1, BelowIs DEF Walk
<1>5. <<>> \o After[Node] = After[Node]
  BY <1>2, AfterIs, ConcatEmptySeq
<1>6. Rest' = Rest
  BY <1>1, <1>3, <1>4, <1>5 DEF Rest
<1>7. QED
  BY <1>1, <1>6, SameRest DEF Walking

\* A subtree without a challenged leaf is taken whole.
LEMMA TakenWhole ==
    ASSUME TreeInv, pc = "scan", ~Hit
    PROVE  Rest = <<Node>> \o After[Node] /\ <<Node>> \in Seq(Pairs) /\ After[Node] \in Seq(Pairs)
<1>1. Node \in Nodes /\ Node[1] = h /\ Node[2] = i /\ ~Split(Node)
  BY HitSplits
<1>2. First(Node[1], Node[2]) < T
  BY <1>1 DEF TreeInv, AtNode
<1>3. Below[Node] = <<Node>>
  BY <1>1, <1>2, BelowIs DEF Walk
<1>4. QED
  BY <1>1, <1>3, AfterIs, BelowIs DEF Rest

LEMMA PathStore == TreeInv /\ PathInv /\ StorePath => PathInv'
<1> SUFFICES ASSUME TreeInv, PathInv, StorePath PROVE PathInv'
  OBVIOUS
<1>1. /\ pc = "scan" /\ pc' = "back" /\ ~Hit /\ mode = "toPath"
      /\ path' = Append(path, stree[<<h, i>>])
      /\ UNCHANGED <<mode, indices, h, i, pos>>
  BY DEF StorePath, walk
<1>2. TypeOK /\ Fresh /\ AtNode /\ NoLeak
  BY DEF TreeInv
<1>3. Node \in Nodes /\ Node[1] = h /\ Node[2] = i
  BY <1>1, HitSplits
<1>4. stree[<<h, i>>] = Node
  <2>1. Node[1] <= H /\ Node = <<h, i>>
    BY <1>3, NodeIs, Powers DEF Node
  <2>2. First(Node[1], Node[2]) < T
    BY <1>1, <1>2, <1>3 DEF AtNode
  <2>3. QED
    BY <1>1, <1>2, <1>3, <2>1, <2>2 DEF Fresh, FreshTo
<1>5. path \in Seq(Pairs)
  <2>1. {Zero, Spent, Junk} \subseteq Pairs
    BY DEF Zero, Spent, Junk, Pairs
  <2>2. Nodes \cup {Zero, Spent, Junk} \subseteq Pairs
    BY <2>1, NodePairs
  <2>3. path \in Seq(Nodes \cup {Zero, Spent, Junk})
    BY <1>2 DEF TypeOK
  <2>4. QED
    BY <2>2, <2>3, SeqMonotonic
<1>6. path' = path \o <<Node>>
  <2> DEFINE n == Node
  <2>1. n \in Pairs
    BY <1>3, NodePairs
  <2> HIDE DEF n
  <2>2. Append(path, n) = path \o <<n>>
    BY <1>5, <2>1
  <2>3. QED
    BY <1>1, <1>4, <2>2 DEF n
<1>7. After' = After /\ Node' = Node /\ RefPath' = RefPath
  BY <1>1, SameTree DEF Node
<1>8. Rest = <<Node>> \o After[Node] /\ <<Node>> \in Seq(Pairs) /\ After[Node] \in Seq(Pairs)
  BY <1>1, TakenWhole
<1>9. (path \o <<Node>>) \o After[Node] = path \o (<<Node>> \o After[Node])
  <2>1. path \in Seq(Pairs) /\ <<Node>> \in Seq(Pairs) /\ After[Node] \in Seq(Pairs)
    BY <1>5, <1>8
  <2>2. QED
    BY ONLY <2>1, Joins
<1>10. Rest' = After[Node]
  BY <1>1, <1>7 DEF Rest
<1>11. path \o Rest = RefPath
  BY <1>1 DEF PathInv
<1>12. path' \o Rest' = RefPath'
  BY <1>6, <1>7, <1>8, <1>9, <1>10, <1>11
<1>13. QED
  BY <1>1, <1>12 DEF PathInv, Sent

\* The next seed of the path belongs to the node the verifier is at.
LEMMA NextSeed ==
    ASSUME TreeInv, PathInv, pc = "scan", ~Hit, mode = "toTree"
    PROVE  /\ pos < Len(path) /\ path[pos + 1] = Node
           /\ \E d \in Seq(Pairs) : Len(d) = pos + 1 /\ d \o After[Node] = path
<1>1. PICK d \in Seq(Pairs) : Len(d) = pos /\ d \o Rest = path
  BY DEF PathInv, Walking
<1>2. Rest = <<Node>> \o After[Node] /\ <<Node>> \in Seq(Pairs) /\ After[Node] \in Seq(Pairs)
  BY TakenWhole
<1>3. (d \o <<Node>>) \o After[Node] = d \o (<<Node>> \o After[Node])
  <2>1. d \in Seq(Pairs) /\ <<Node>> \in Seq(Pairs) /\ After[Node] \in Seq(Pairs)
    BY <1>1, <1>2
  <2>2. QED
    BY ONLY <2>1, Joins
<1> DEFINE one == <<Node>>
           e == d \o one
           a == After[Node]
<1>4. one \in Seq(Pairs) /\ Len(one) = 1 /\ one[1] = Node
  BY <1>2
<1>5. a \in Seq(Pairs) /\ e \o a = path
  BY <1>1, <1>2, <1>3
<1> HIDE DEF one, a
<1>6. pos \in Nat /\ Len(d) = pos
  BY <1>1 DEF TreeInv, TypeOK
<1>7. /\ e \in Seq(Pairs) /\ Len(e) = Len(d) + Len(one)
      /\ \A x \in 1..(Len(d) + Len(one)) : e[x] = IF x <= Len(d) THEN d[x] ELSE one[x - Len(d)]
  BY <1>1, <1>4, ConcatProperties
<1> HIDE DEF e
<1>8. Len(e) = pos + 1 /\ e[pos + 1] = Node
  <2>1. Len(d) + Len(one) = pos + 1
    BY <1>4, <1>6
  <2>2. pos + 1 \in 1..(Len(d) + Len(one)) /\ ~(pos + 1 <= Len(d)) /\ (pos + 1) - Len(d) = 1
    BY <1>6, <2>1
  <2>3. QED
    BY <1>4, <1>7, <2>1, <2>2
<1>9. /\ Len(e \o a) = Len(e) + Len(a)
      /\ \A x \in 1..(Len(e) + Len(a)) : (e \o a)[x] = IF x <= Len(e) THEN e[x] ELSE a[x - Len(e)]
  <2>1. e \in Seq(Pairs) /\ a \in Seq(Pairs)
    BY <1>5, <1>7
  <2>2. QED
    BY ONLY <2>1, ConcatProperties
<1>10. Len(a) \in Nat
  BY <1>5, LenProperties
<1>11. pos + 1 \in 1..(Len(e) + Len(a)) /\ pos + 1 <= Len(e) /\ pos < Len(e) + Len(a)
  BY <1>6, <1>8, <1>10
<1>12. QED
  BY <1>5, <1>7, <1>8, <1>9, <1>11 DEF a

LEMMA PathLoad == TreeInv /\ PathInv /\ LoadPath => PathInv'
<1> SUFFICES ASSUME TreeInv, PathInv, LoadPath PROVE PathInv'
  OBVIOUS
<1>1. /\ pc = "scan" /\ pc' = "hash" /\ ~Hit /\ mode = "toTree" /\ pos' = pos + 1
      /\ UNCHANGED <<mode, indices, h, i, path>>
  BY DEF LoadPath, CallHash, walk
<1>2. After' = After /\ Node' = Node /\ RefPath' = RefPath
  BY <1>1, SameTree DEF Node
<1>3. Rest' = After[Node]
  BY <1>1, <1>2 DEF Rest
<1>4. \E d \in Seq(Pairs) : Len(d) = pos' /\ d \o Rest' = path'
  BY <1>1, <1>3, NextSeed
<1>5. QED
  BY <1>1, <1>2, <1>4 DEF PathInv, Sent

LEMMA PathBack == TreeInv /\ PathInv /\ Backtrack => PathInv'
<1> SUFFICES ASSUME TreeInv, PathInv, Backtrack PROVE PathInv'
  OBVIOUS
<1>1. /\ pc = "back" /\ i % 2 = 1 /\ h' = h - 1 /\ i' = i \div 2
      /\ UNCHANGED <<pc, mode, indices, path, pos>>
  BY DEF Backtrack
<1>2. Node \in Nodes /\ Node[1] = h /\ Node[2] = i
  BY <1>1 DEF TreeInv, TypeOK, Node
<1>3. h # 0
  <2>1. h = 0 => i = 0
    BY <1>2, NodeIs, Powers
  <2>2. QED
    BY <1>1, <2>1
<1>4. After[Node] = After[Parent(Node)]
  BY <1>1, <1>2, <1>3, AfterIs DEF Goes
<1>5. Node' = Parent(Node)
  BY <1>1 DEF Node, Parent
<1>6. After' = After
  BY <1>1, SameTree
<1>7. Rest' = Rest
  BY <1>1, <1>4, <1>5, <1>6 DEF Rest
<1>8. QED
  BY <1>1, <1>7, SameRest DEF Walking

LEMMA PathNext == TreeInv /\ PathInv /\ NextNode => PathInv'
<1> SUFFICES ASSUME TreeInv, PathInv, NextNode PROVE PathInv'
  OBVIOUS
<1>1. /\ pc = "back" /\ i % 2 = 0 /\ i' = i + 1
      /\ pc' = (IF First(h, i') >= T THEN IF mode = "toPath" THEN "sent" ELSE "done" ELSE "scan")
      /\ UNCHANGED <<mode, indices, h, path, pos>>
  BY DEF NextNode
<1>2. Node \in Nodes /\ Node[1] = h /\ Node[2] = i
  BY <1>1 DEF TreeInv, TypeOK, Node
<1>3. After' = After /\ Below' = Below /\ RefPath' = RefPath
  BY <1>1, SameTree
<1>4. TypeOK /\ indices \in [0..(W - 1) -> Leaves]
  BY DEF TreeInv, TypeOK
<1>5. h \in 0..H /\ i \in Nat
  BY <1>2, NodeIs, Powers
<1>6. CASE First(h, i + 1) >= T
  <2>1. After[Node] = <<>>
    BY <1>2, <1>4, <1>6, AfterEnd
  <2>2. Rest = <<>>
    BY <1>1, <2>1 DEF Rest
  <2>3. CASE mode = "toPath"
    <3>1. path \in Seq(Nodes \cup {Zero, Spent, Junk})
      BY <1>4 DEF TypeOK
    <3>2. path \o <<>> = path
      BY <3>1, ConcatEmptySeq
    <3>3. path = RefPath
      BY <1>1, <2>2, <2>3, <3>2 DEF PathInv
    <3>4. QED
      BY <1>1, <1>3, <1>6, <2>3, <3>3 DEF PathInv, Walking
  <2>4. CASE mode # "toPath"
    <3>1. mode = "toTree"
      BY <1>4, <2>4 DEF TypeOK
    <3>2. PICK d \in Seq(Pairs) : Len(d) = pos /\ d \o Rest = path
      BY <1>1, <3>1 DEF PathInv, Walking
    <3>3. path = d
      BY <2>2, <3>2, ConcatEmptySeq
    <3>4. QED
      BY <1>1, <1>3, <1>6, <3>1, <3>2, <3>3 DEF PathInv, Walking, Sent
  <2>5. QED
    BY <2>3, <2>4
<1>7. CASE ~(First(h, i + 1) >= T)
  <2>1. pc' = "scan" /\ Node' = Right(Node)
    BY <1>1, <1>7 DEF Node, Right
  <2>2. h # 0
    <3> SUFFICES ASSUME h = 0 PROVE FALSE
      OBVIOUS
    <3>1. H - 0 = H /\ Pow[H] \in Nat /\ T \in Nat /\ T <= Pow[H] /\ i = 0
      BY <1>2, NodeIs, Powers, SeedTreeAssumption
    <3>2. First(h, i + 1) = Pow[H]
      BY <3>1 DEF First
    <3>3. QED
      BY <1>7, <3>1, <3>2
  <2>3. Parent(Node) \in Nodes /\ Right(Node) \in Nodes
    BY <1>1, <1>2, <2>2, Parents
  <2>4. Parent(Right(Node)) = Parent(Node) /\ Right(Node)[1] = h /\ Right(Node)[2] % 2 = 1
    <3>1. (i + 1) \div 2 = i \div 2 /\ (i + 1) % 2 = 1
      BY <1>1, <1>5
    <3>2. QED
      BY <1>2, <3>1 DEF Parent, Right
  <2>5. After[Node] = Below[Right(Node)] \o After[Parent(Node)]
    <3>1. ~(i % 2 = 1)
      BY <1>1
    <3>2. QED
      BY <1>2, <2>2, <3>1, AfterIs DEF Goes
  <2>6. After[Right(Node)] = After[Parent(Node)]
    BY <2>2, <2>3, <2>4, AfterIs DEF Goes
  <2>7. Rest' = Rest
    BY <1>1, <1>3, <2>1, <2>5, <2>6 DEF Rest
  <2>8. QED
    BY <1>1, <2>1, <2>7, SameRest DEF Walking
<1>8. QED
  BY <1>6, <1>7

LEMMA PathOpen == TreeInv /\ PathInv /\ Open => PathInv'
<1> SUFFICES ASSUME TreeInv, PathInv, Open PROVE PathInv'
  OBVIOUS
<1>1. /\ pc = "sent" /\ pc' = "scan" /\ mode' = "toTree" /\ h' = 0 /\ i' = 0
      /\ UNCHANGED <<indices, path, pos>>
  BY DEF Open
<1>2. After' = After /\ Below' = Below /\ RefPath' = RefPath
  BY <1>1, SameTree
<1>3. Node' = Root /\ Root \in Nodes /\ Root[1] = 0
  BY <1>1, RootNode DEF Node, Root
<1>4. After[Root] = <<>>
  BY <1>3, AfterIs DEF Goes
<1>5. Below[Root] = RefPath /\ RefPath \in Seq(Pairs)
  BY <1>3, BelowIs
<1>6. Rest' = RefPath
  BY <1>1, <1>2, <1>3, <1>4, <1>5, ConcatEmptySeq DEF Rest
<1>7. path = RefPath
  BY <1>1 DEF PathInv, Sent
<1>8. pos = 0
  BY <1>1 DEF PathInv, Sent
<1>9. \E d \in Seq(Pairs) : Len(d) = pos /\ d \o Rest' = path
  BY <1>5, <1>6, <1>7, <1>8, ConcatEmptySeq, EmptySeq
<1>10. QED
  BY <1>1, <1>2, <1>7, <1>9 DEF PathInv, Sent

-----------------------------------------------------------------------------
\* What the verifier comes to know.

\* n is at the same level as Node or deeper, and below it.
Inside(n) == i * Pow[n[1] - h] <= n[2] /\ n[2] < (i + 1) * Pow[n[1] - h]

\* The first leaf whose seed is not yet there.
Start == IF pc \in {"scan", "hash"} THEN First(h, i)
         ELSE IF pc = "back" THEN First(h, i + 1) ELSE T

GrowInv ==
    mode = "toTree" =>
        /\ pc = "hash" =>
               /\ top = Node /\ h <= lv /\ ~Split(Node)
               /\ \A n \in Nodes : /\ h <= n[1] /\ n[1] <= lv
                                   /\ Inside(n) /\ First(n[1], n[2]) < T
                                   => stree[n] = n
        /\ \A leaf \in Leaves : leaf < Start /\ leaf \notin Challenged =>
               stree[<<H, leaf>>] = <<H, leaf>>
        /\ \A leaf \in Challenged : stree[<<H, leaf>>] # <<H, leaf>>

LEMMA LeafNodes ==
    ASSUME NEW leaf \in Leaves
    PROVE  /\ <<H, leaf>> \in Nodes /\ leaf \in Nat /\ leaf < T
           /\ First(H, leaf) = leaf /\ H - H = 0 /\ Pow[0] = 1
<1>1. T \in Nat /\ T <= Pow[H] /\ H \in Nat /\ Pow[H] \in Nat /\ Pow[0] = 1 /\ H - H = 0
  BY Powers, SeedTreeAssumption
<1>2. leaf \in Nat /\ leaf < T /\ leaf \in 0..(Pow[H] - 1)
  BY <1>1 DEF Leaves
<1>3. QED
  BY <1>1, <1>2, NodeOf DEF First

LEMMA ChallengedLeaves ==
    ASSUME TypeOK
    PROVE  Challenged \subseteq Leaves
  BY DEF TypeOK, Challenged

\* A leaf is under Node if and only if it is inside.
LEMMA UnderIsInside ==
    ASSUME NEW leaf \in Leaves, Node \in Nodes
    PROVE  Under(leaf, Node) <=> Inside(<<H, leaf>>)
<1>1. h \in 0..H /\ i \in Nat /\ H - h \in 0..H /\ Node[1] = h /\ Node[2] = i
  BY NodeIs, Powers DEF Node
<1>2. leaf \in Nat /\ Pow[H - h] \in Nat \ {0}
  BY <1>1, Powers, LeafNodes
<1>3. QED
  BY <1>1, <1>2, Block DEF Under, Inside

\* No challenged leaf inside a node that is hashed.
LEMMA InsideFree ==
    ASSUME NEW leaf \in Challenged, TypeOK, Node \in Nodes, ~Split(Node)
    PROVE  ~Inside(<<H, leaf>>)
<1>1. leaf \in Leaves
  BY ChallengedLeaves
<1>2. ~Under(leaf, Node)
  BY DEF Split
<1>3. QED
  BY <1>1, <1>2, UnderIsInside

LEMMA GrowHash == TreeInv /\ GrowInv /\ HashLevel => GrowInv'
<1> SUFFICES ASSUME TreeInv, GrowInv, HashLevel, mode = "toTree" PROVE GrowInv'
  BY DEF HashLevel, GrowInv
<1>1. /\ pc = "hash" /\ pc' = pc /\ lv' = lv + 1 /\ lv < H
      /\ UNCHANGED <<mode, top, indices, h, i>>
  BY DEF HashLevel, walk
<1>2. TypeOK
  BY DEF TreeInv
<1>3. /\ top = Node /\ h <= lv /\ ~Split(Node)
      /\ \A n \in Nodes : h <= n[1] /\ n[1] <= lv /\ Inside(n) /\ First(n[1], n[2]) < T => stree[n] = n
      /\ \A leaf \in Leaves : leaf < First(h, i) /\ leaf \notin Challenged => stree[<<H, leaf>>] = <<H, leaf>>
      /\ \A leaf \in Challenged : stree[<<H, leaf>>] # <<H, leaf>>
  BY <1>1 DEF GrowInv, Start
<1>4. Node \in Nodes /\ Node[1] = h /\ Node[2] = i /\ top[1] = h /\ top[2] = i
  BY <1>2, <1>3 DEF TypeOK, Node
<1>5. h \in 0..H /\ i \in Nat /\ lv \in 0..H /\ H \in Nat
  BY <1>2, <1>4, NodeIs, Powers DEF TypeOK
<1>6. ASSUME NEW n \in Nodes, n[1] = lv + 1, Inside(n), First(n[1], n[2]) < T
      PROVE  stree'[n] = n
  <2> DEFINE m == <<lv, n[2] \div 2>>
  <2>1. n[1] \in 0..H /\ n[2] \in Nat /\ n = <<n[1], n[2]>>
    BY NodeIs, Powers
  <2>2. stree'[n] = Derive(stree[m], m, n)
    <3>1. top[2] * Pow[lv + 1 - top[1]] <= n[2] /\ n[2] < (top[2] + 1) * Pow[lv + 1 - top[1]]
      <4>1. i * Pow[lv + 1 - h] <= n[2] /\ n[2] < (i + 1) * Pow[lv + 1 - h]
        <5>1. n[1] - h = lv + 1 - h
          BY <1>5, <1>6
        <5>2. QED
          BY <1>6, <5>1, Zenon DEF Inside
      <4>2. QED
        BY <1>4, <4>1
    <3>2. QED
      BY <1>6, <3>1 DEF HashLevel
  <2>3. m \in Nodes /\ m[1] = lv /\ m[2] = n[2] \div 2
    <3>1. n[1] # 0 /\ n[1] - 1 = lv
      BY <1>5, <1>6
    <3>2. Parent(n) \in Nodes
      BY <3>1, Parents
    <3>3. QED
      BY <3>1, <3>2 DEF Parent
  <2>4. Inside(m)
    <3> DEFINE P == Pow[lv - h]
               x == i * P
               y == (i + 1) * P
    <3>1. lv - h \in 0..H /\ (lv + 1) - h \in 1..H /\ ((lv + 1) - h) - 1 = lv - h
      BY <1>1, <1>3, <1>5
    <3>2. Pow[(lv + 1) - h] = 2 * P /\ P \in Nat
      BY <3>1, Powers
    <3>3. i * (2 * P) <= n[2] /\ n[2] < (i + 1) * (2 * P)
      BY <1>6, <3>2 DEF Inside
    <3> HIDE DEF P
    <3>4. i * (2 * P) = 2 * x /\ (i + 1) * (2 * P) = 2 * y /\ x \in Nat /\ y \in Nat
      BY <1>5, <3>2
    <3> HIDE DEF x, y
    <3>5. x <= n[2] \div 2 /\ n[2] \div 2 < y
      BY <2>1, <3>3, <3>4
    <3>6. QED
      BY <2>3, <3>5 DEF Inside, x, y, P
  <2>5. First(m[1], m[2]) < T
    <3>1. lv + 1 \in 1..H /\ (lv + 1) - 1 = lv /\ n[2] \div 2 \in Nat
      BY <1>1, <1>5, <2>1
    <3>2. First(lv, n[2] \div 2) <= First(lv + 1, n[2])
      BY <2>1, <3>1, FirstParent
    <3>3. First(lv, n[2] \div 2) \in Nat /\ First(lv + 1, n[2]) \in Nat
      BY <1>5, <2>1, <3>1, FirstInt
    <3>4. QED
      BY <1>6, <2>3, <3>2, <3>3, Powers
  <2>6. stree[m] = m
    BY <1>3, <1>5, <2>3, <2>4, <2>5
  <2>7. QED
    BY <2>2, <2>6 DEF Derive
<1>7. ASSUME NEW n \in Nodes, n[1] # lv + 1 \/ ~Inside(n)
      PROVE  stree'[n] = stree[n]
  <2>1. n[1] = lv + 1 => ~(top[2] * Pow[lv + 1 - top[1]] <= n[2] /\ n[2] < (top[2] + 1) * Pow[lv + 1 - top[1]])
    <3>1. n[1] = lv + 1 => ~(i * Pow[lv + 1 - h] <= n[2] /\ n[2] < (i + 1) * Pow[lv + 1 - h])
      <4>1. n[1] = lv + 1 => n[1] - h = lv + 1 - h
        BY <1>5
      <4>2. QED
        BY <1>7, <4>1, Zenon DEF Inside
    <3>2. QED
      BY <1>4, <3>1
  <2>2. QED
    BY <2>1 DEF HashLevel
<1>8. ASSUME NEW n \in Nodes, h <= n[1], n[1] <= lv + 1, Inside(n), First(n[1], n[2]) < T
      PROVE  stree'[n] = n
  <2>1. n[1] \in 0..H
    BY NodeIs
  <2>2. CASE n[1] = lv + 1
    BY <1>6, <1>8, <2>2
  <2>3. CASE n[1] # lv + 1
    <3>1. n[1] <= lv
      BY <1>5, <1>8, <2>1, <2>3
    <3>2. QED
      BY <1>3, <1>7, <1>8, <2>3, <3>1
  <2>4. QED
    BY <2>2, <2>3
<1>9. ASSUME NEW leaf \in Leaves, leaf < First(h, i)
      PROVE  stree'[<<H, leaf>>] = stree[<<H, leaf>>]
  <2>1. <<H, leaf>> \in Nodes /\ leaf \in Nat
    BY LeafNodes
  <2>2. ~Inside(<<H, leaf>>)
    <3>1. First(h, i) \in Nat
      BY <1>5, FirstInt
    <3>2. QED
      BY <1>9, <2>1, <3>1 DEF Inside, First
  <2>3. QED
    BY <1>7, <2>1, <2>2
<1>10. ASSUME NEW leaf \in Challenged
       PROVE  stree'[<<H, leaf>>] # <<H, leaf>>
  <2>1. leaf \in Leaves
    BY <1>2, ChallengedLeaves
  <2>2. ~Inside(<<H, leaf>>)
    BY <1>2, <1>3, <1>4, InsideFree
  <2>3. QED
    BY <1>3, <1>7, <2>1, <2>2, LeafNodes
<1>11. Node' = Node /\ Split(Node)' = Split(Node) /\ Challenged' = Challenged
  BY <1>1 DEF Node, Split, Challenged, Under
<1>12. h <= lv + 1
  BY <1>3, <1>5
<1>13. Start' = First(h, i)
  BY <1>1 DEF Start, First
<1>14. QED
  BY <1>1, <1>3, <1>8, <1>9, <1>10, <1>11, <1>12, <1>13 DEF GrowInv, Inside, First

LEMMA GrowReturn == TreeInv /\ GrowInv /\ HashReturn => GrowInv'
<1> SUFFICES ASSUME TreeInv, GrowInv, HashReturn, mode = "toTree" PROVE GrowInv'
  BY DEF HashReturn, GrowInv
<1>1. pc = "hash" /\ pc' = ret /\ lv = H /\ UNCHANGED <<mode, stree, indices, h, i>>
  BY DEF HashReturn, walk
<1>2. pc' = "back"
  BY <1>1 DEF TreeInv, Fresh
<1>3. Start' = First(h, i + 1) /\ Challenged' = Challenged
  BY <1>1, <1>2 DEF Start, First, Challenged
<1>4. Node \in Nodes /\ h \in 0..H /\ i \in Nat
  <2>1. Node \in Nodes
    BY <1>1 DEF TreeInv, TypeOK, Node
  <2>2. QED
    BY <2>1, NodeIs, Powers DEF Node
<1>5. ASSUME NEW leaf \in Leaves, leaf < First(h, i + 1), leaf \notin Challenged
      PROVE  stree[<<H, leaf>>] = <<H, leaf>>
  <2>1. CASE leaf < First(h, i)
    BY <1>1, <1>5, <2>1 DEF GrowInv, Start
  <2>2. CASE ~(leaf < First(h, i))
    <3>1. <<H, leaf>> \in Nodes /\ leaf \in Nat /\ leaf < T /\ First(H, leaf) = leaf
      BY LeafNodes
    <3>2. First(h, i) \in Nat
      BY <1>4, FirstInt
    <3>3. Inside(<<H, leaf>>)
      BY <1>5, <2>2, <3>1, <3>2 DEF Inside, First
    <3>4. h <= H /\ H <= H
      BY <1>4, Powers
    <3>5. QED
      BY <1>1, <3>1, <3>3, <3>4 DEF GrowInv
  <2>3. QED
    BY <2>1, <2>2
<1>6. QED
  BY <1>1, <1>2, <1>3, <1>5 DEF GrowInv

\* The verifier goes on without a new seed.
LEMMA GrowStays ==
    ASSUME GrowInv, UNCHANGED <<mode, stree, indices>>, pc' # "hash",
           \A leaf \in Leaves : mode = "toTree" /\ leaf < Start' => leaf < Start \/ leaf \in Challenged
    PROVE  GrowInv'
<1>1. Challenged' = Challenged
  BY DEF Challenged
<1>2. QED
  BY <1>1 DEF GrowInv

LEMMA GrowDescend == TreeInv /\ GrowInv /\ Descend => GrowInv'
<1> SUFFICES ASSUME TreeInv, GrowInv, Descend PROVE GrowInv'
  OBVIOUS
<1>1. /\ pc = "scan" /\ Hit /\ h < H /\ h' = h + 1 /\ i' = 2 * i
      /\ UNCHANGED <<pc, mode, stree, indices>>
  BY DEF Descend
<1>2. h \in 0..(H - 1) /\ i \in Nat
  <2>1. Node \in Nodes /\ Node[1] = h /\ Node[2] = i
    BY <1>1, HitSplits
  <2>2. QED
    BY <1>1, <2>1, NodeIs, Powers
<1>3. Start' = Start
  <2>1. First(h + 1, 2 * i) = First(h, i)
    BY <1>2, FirstChild
  <2>2. QED
    BY <1>1, <2>1 DEF Start, First
<1>4. QED
  BY <1>1, <1>3, GrowStays

LEMMA GrowSkip == TreeInv /\ GrowInv /\ SkipLeaf => GrowInv'
<1> SUFFICES ASSUME TreeInv, GrowInv, SkipLeaf PROVE GrowInv'
  OBVIOUS
<1>1. pc = "scan" /\ pc' = "back" /\ Hit /\ h = H /\ UNCHANGED <<mode, stree, indices, h, i>>
  BY DEF SkipLeaf
<1>2. Node \in Nodes /\ Node[1] = h /\ Node[2] = i /\ i \in Nat
  <2>1. Node \in Nodes /\ Node[1] = h /\ Node[2] = i
    BY <1>1, HitSplits
  <2>2. QED
    BY <2>1, NodeIs, Powers
<1>3. H - H = 0 /\ Pow[0] = 1
  BY Powers
<1>4. Start = i /\ Start' = i + 1
  BY <1>1, <1>2, <1>3 DEF Start, First
<1>5. i \in Challenged
  <2>1. id \in 0..(W - 1) /\ indices[id] \in Nat
    BY DEF TreeInv, TypeOK, Leaves
  <2>2. indices[id] = i
    BY <1>1, <1>3, <2>1 DEF Hit
  <2>3. QED
    BY <2>1, <2>2 DEF Challenged
<1>6. \A leaf \in Leaves : leaf < i + 1 => leaf < i \/ leaf = i
  BY <1>2 DEF Leaves
<1>7. QED
  BY <1>1, <1>4, <1>5, <1>6, GrowStays

LEMMA GrowStore == TreeInv /\ GrowInv /\ StorePath => GrowInv'
  BY DEF StorePath, GrowInv

LEMMA GrowLoad == TreeInv /\ PathInv /\ GrowInv /\ LoadPath => GrowInv'
<1> SUFFICES ASSUME TreeInv, PathInv, GrowInv, LoadPath PROVE GrowInv'
  OBVIOUS
<1>1. /\ pc = "scan" /\ pc' = "hash" /\ mode = "toTree" /\ ~Hit
      /\ stree' = [stree EXCEPT ![<<h, i>>] = IF pos < Len(path) THEN path[pos + 1] ELSE Junk]
      /\ top' = <<h, i>> /\ lv' = h
      /\ UNCHANGED <<mode, indices, h, i, path>>
  BY DEF LoadPath, CallHash, walk
<1>2. TypeOK
  BY DEF TreeInv
<1>3. Node \in Nodes /\ Node[1] = h /\ Node[2] = i /\ ~Split(Node) /\ Node = <<h, i>>
  BY <1>1, HitSplits DEF Node
<1>4. h \in 0..H /\ i \in Nat
  BY <1>3, NodeIs, Powers
<1>5. stree'[Node] = Node /\ \A n \in Nodes : n # Node => stree'[n] = stree[n]
  <2>1. pos < Len(path) /\ path[pos + 1] = Node
    BY <1>1, NextSeed
  <2>2. DOMAIN stree = Nodes
    BY <1>2 DEF TypeOK
  <2>3. QED
    BY <1>1, <1>3, <2>1, <2>2
<1>6. ASSUME NEW n \in Nodes, h <= n[1], n[1] <= h, Inside(n)
      PROVE  stree'[n] = n
  <2>1. n[1] \in 0..H /\ n[2] \in Nat /\ n = <<n[1], n[2]>>
    BY NodeIs, Powers
  <2>2. n[1] = h /\ n[1] - h = 0
    BY <1>4, <1>6, <2>1
  <2>3. n[2] = i
    <3>1. i * Pow[0] <= n[2] /\ n[2] < (i + 1) * Pow[0]
      BY <1>6, <2>2 DEF Inside
    <3>2. i <= n[2] /\ n[2] < i + 1
      BY <1>4, <3>1, Powers
    <3>3. QED
      BY <1>4, <2>1, <3>2
  <2>4. n = Node
    BY <1>3, <2>1, <2>2, <2>3
  <2>5. QED
    BY <1>5, <2>4
<1>7. Start' = Start /\ Node' = Node /\ Split(Node)' = Split(Node) /\ Challenged' = Challenged
  BY <1>1 DEF Start, First, Node, Split, Challenged, Under
<1>8. ASSUME NEW leaf \in Leaves, leaf < Start, leaf \notin Challenged
      PROVE  stree'[<<H, leaf>>] = <<H, leaf>>
  <2>1. stree[<<H, leaf>>] = <<H, leaf>>
    BY <1>1, <1>8 DEF GrowInv
  <2>2. QED
    BY <1>5, <2>1, LeafNodes
<1>9. ASSUME NEW leaf \in Challenged
      PROVE  stree'[<<H, leaf>>] # <<H, leaf>>
  <2>1. leaf \in Leaves /\ stree[<<H, leaf>>] # <<H, leaf>>
    BY <1>1, <1>2, ChallengedLeaves DEF GrowInv
  <2>2. <<H, leaf>> # Node
    <3> SUFFICES ASSUME <<H, leaf>> = Node PROVE FALSE
      OBVIOUS
    <3>1. Node[1] = H /\ Node[2] = leaf
      OBVIOUS
    <3>2. leaf \in Nat /\ H - H = 0 /\ Pow[0] = 1
      BY <2>1, LeafNodes
    <3>3. Under(leaf, Node)
      BY <3>1, <3>2 DEF Under
    <3>4. QED
      BY <1>3, <3>3 DEF Split
  <2>3. QED
    BY <1>5, <2>1, <2>2, LeafNodes
<1>10. h <= h
  BY <1>4
<1>11. QED
  BY <1>1, <1>3, <1>6, <1>7, <1>8, <1>9, <1>10 DEF GrowInv, Inside, First

LEMMA GrowBack == TreeInv /\ GrowInv /\ Backtrack => GrowInv'
<1> SUFFICES ASSUME TreeInv, GrowInv, Backtrack PROVE GrowInv'
  OBVIOUS
<1>1. /\ pc = "back" /\ i % 2 = 1 /\ h' = h - 1 /\ i' = i \div 2
      /\ UNCHANGED <<pc, mode, stree, indices>>
  BY DEF Backtrack
<1>2. h \in 1..H /\ i \in Nat
  <2>1. Node \in Nodes /\ Node[1] = h /\ Node[2] = i
    BY <1>1 DEF TreeInv, TypeOK, Node
  <2>2. h \in 0..H /\ i \in 0..(Pow[h] - 1)
    BY <2>1, NodeIs
  <2>3. h # 0
    BY <1>1, <2>2, Powers
  <2>4. QED
    BY <2>2, <2>3, Powers
<1>3. Start' = Start
  <2>1. First(h - 1, (i \div 2) + 1) = First(h, i + 1)
    BY <1>1, <1>2, FirstParent
  <2>2. QED
    BY <1>1, <2>1 DEF Start, First
<1>4. QED
  BY <1>1, <1>3, GrowStays

LEMMA GrowNext == TreeInv /\ GrowInv /\ NextNode => GrowInv'
<1> SUFFICES ASSUME TreeInv, GrowInv, NextNode PROVE GrowInv'
  OBVIOUS
<1>1. /\ pc = "back" /\ i' = i + 1
      /\ pc' = (IF First(h, i') >= T THEN IF mode = "toPath" THEN "sent" ELSE "done" ELSE "scan")
      /\ UNCHANGED <<mode, stree, indices, h>>
  BY DEF NextNode
<1>2. h \in 0..H /\ i \in Nat
  <2>1. Node \in Nodes /\ Node[1] = h /\ Node[2] = i
    BY <1>1 DEF TreeInv, TypeOK, Node
  <2>2. QED
    BY <2>1, NodeIs, Powers
<1>3. First(h, i + 1) \in Nat /\ T \in Nat
  <2>1. i + 1 \in Nat
    BY <1>2
  <2>2. QED
    BY <1>2, <2>1, FirstInt, Powers
<1>4. Start = First(h, i + 1)
  BY <1>1 DEF Start
<1>5. CASE First(h, i + 1) >= T
  <2>1. \A leaf \in Leaves : leaf < Start
    BY <1>3, <1>4, <1>5 DEF Leaves
  <2>2. pc' # "hash"
    BY <1>1, <1>5
  <2>3. QED
    BY <1>1, <2>1, <2>2, GrowStays
<1>6. CASE ~(First(h, i + 1) >= T)
  <2>1. pc' = "scan" /\ Start' = Start
    BY <1>1, <1>4, <1>6 DEF Start, First
  <2>2. QED
    BY <1>1, <2>1, GrowStays
<1>7. QED
  BY <1>5, <1>6

LEMMA GrowOpen == TreeInv /\ GrowInv /\ Open => GrowInv'
<1> SUFFICES ASSUME TreeInv, GrowInv, Open PROVE GrowInv'
  OBVIOUS
<1>1. /\ pc' = "scan" /\ mode' = "toTree" /\ stree' = [n \in Nodes |-> Zero]
      /\ h' = 0 /\ i' = 0 /\ UNCHANGED indices
  BY DEF Open
<1>2. Start' = 0
  <2>1. H - 0 \in 0..H /\ Pow[H - 0] \in Nat
    BY Powers
  <2>2. QED
    BY <1>1, <2>1 DEF Start, First
<1>3. Challenged' \subseteq Leaves
  BY <1>1, ChallengedLeaves DEF TreeInv, Challenged
<1>4. ASSUME NEW leaf \in Leaves PROVE stree'[<<H, leaf>>] # <<H, leaf>> /\ ~(leaf < 0)
  <2>1. stree'[<<H, leaf>>] = Zero /\ leaf \in Nat
    BY <1>1, LeafNodes
  <2>2. <<H, leaf>> # <<-1, 0>>
    BY Powers
  <2>3. QED
    BY <2>1, <2>2 DEF Zero
<1>5. QED
  BY <1>1, <1>2, <1>3, <1>4 DEF GrowInv

-----------------------------------------------------------------------------
\* How long the path can get.

Hits(n) == {leaf \in Challenged : Under(leaf, n)}

LEMMA ChallengedFinite ==
    ASSUME indices \in Challenges
    PROVE  IsFiniteSet(Challenged) /\ Cardinality(Challenged) = W
<1>1. W \in Nat \ {0}
  BY Powers
<1>2. /\ indices \in [0..(W - 1) -> Leaves]
      /\ \A m, n \in 0..(W - 1) : m < n => indices[m] < indices[n]
  BY Challenge
<1>3. \A n \in 0..(W - 1) : indices[n] \in Nat
  BY <1>2 DEF Leaves
<1>4. \A m, n \in 0..(W - 1) : indices[m] = indices[n] => m = n
  <2> SUFFICES ASSUME NEW m \in 0..(W - 1), NEW n \in 0..(W - 1), indices[m] = indices[n], m # n
               PROVE FALSE
    OBVIOUS
  <2>1. m < n \/ n < m
    BY <1>1
  <2>2. QED
    BY <1>2, <1>3, <2>1
<1>5. indices \in [0..(W - 1) -> Challenged]
  BY <1>2 DEF Challenged
<1>6. indices \in Surjection(0..(W - 1), Challenged)
  BY <1>5 DEF Surjection, Challenged
<1>7. IsFiniteSet(0..(W - 1)) /\ Cardinality(0..(W - 1)) = W
  BY <1>1, FS_Interval
<1>8. IsFiniteSet(Challenged) /\ Cardinality(Challenged) <= W
  BY <1>6, <1>7, FS_Surjection
<1>9. ~(Cardinality(Challenged) < Cardinality(0..(W - 1)))
  <2> SUFFICES ASSUME Cardinality(Challenged) < Cardinality(0..(W - 1)) PROVE FALSE
    OBVIOUS
  <2>1. IsFiniteSet(0..(W - 1)) /\ IsFiniteSet(Challenged)
    BY <1>7, <1>8
  <2>2. \E m, n \in 0..(W - 1) : m # n /\ indices[m] = indices[n]
    BY <1>5, <2>1, FS_PigeonHole, Zenon
  <2>3. QED
    BY <1>4, <2>2
<1>10. Cardinality(Challenged) \in Nat
  BY <1>8, FS_CardinalityType
<1>11. QED
  BY <1>1, <1>7, <1>8, <1>9, <1>10

LEMMA ChallengedNat ==
    ASSUME indices \in Challenges
    PROVE  Challenged \subseteq Leaves /\ Challenged \subseteq Nat
<1>1. indices \in [0..(W - 1) -> Leaves]
  BY Challenge
<1>2. Leaves \subseteq Nat
  BY DEF Leaves
<1>3. QED
  BY <1>1, <1>2 DEF Challenged

LEMMA HitsFinite ==
    ASSUME indices \in Challenges, NEW n
    PROVE  /\ IsFiniteSet(Hits(n)) /\ Cardinality(Hits(n)) \in Nat
           /\ Split(n) <=> Cardinality(Hits(n)) >= 1
<1>1. Hits(n) \in SUBSET Challenged
  BY DEF Hits
<1>2. IsFiniteSet(Hits(n)) /\ Cardinality(Hits(n)) \in Nat
  BY <1>1, ChallengedFinite, FS_Subset, FS_CardinalityType
<1>3. Cardinality(Hits(n)) = 0 <=> Hits(n) = {}
  BY <1>2, FS_EmptySet
<1>4. Split(n) <=> Hits(n) # {}
  BY DEF Split, Hits
<1>5. QED
  BY <1>2, <1>3, <1>4

\* The leaves below a node are below one of its children.
LEMMA UnderKids ==
    ASSUME NEW n \in Nodes, n[1] < H, NEW leaf \in Nat
    PROVE  /\ Under(leaf, n) <=> Under(leaf, Low(n)) \/ Under(leaf, High(n))
           /\ ~(Under(leaf, Low(n)) /\ Under(leaf, High(n)))
<1>1. n[1] \in 0..H /\ n[2] \in Nat /\ H - n[1] \in 1..H
      /\ (H - n[1]) - 1 = H - (n[1] + 1) /\ H - (n[1] + 1) \in 0..H
  BY NodeIs, Powers
<1> DEFINE b == Pow[H - (n[1] + 1)]
           k == n[2]
<1>2. Pow[H - n[1]] = 2 * b /\ b \in Nat \ {0}
  BY <1>1, Powers
<1>3. k \in Nat /\ 2 * k \in Nat /\ 2 * k + 1 \in Nat /\ 2 * b \in Nat \ {0}
  BY <1>1, <1>2
<1>4. /\ Low(n)[1] = n[1] + 1 /\ Low(n)[2] = 2 * k
      /\ High(n)[1] = n[1] + 1 /\ High(n)[2] = 2 * k + 1
  BY DEF Low, High
<1> HIDE DEF b, k
<1>5. leaf \div (2 * b) = k <=> k * (2 * b) <= leaf /\ leaf < (k + 1) * (2 * b)
  BY <1>3, Block
<1>6. leaf \div b = 2 * k <=> (2 * k) * b <= leaf /\ leaf < (2 * k + 1) * b
  BY <1>2, <1>3, Block
<1>7. leaf \div b = 2 * k + 1 <=> (2 * k + 1) * b <= leaf /\ leaf < (2 * k + 1 + 1) * b
  BY <1>2, <1>3, Block
<1> DEFINE x == k * b
<1>8. /\ k * (2 * b) = 2 * x /\ (k + 1) * (2 * b) = 2 * x + 2 * b
      /\ (2 * k) * b = 2 * x /\ (2 * k + 1) * b = 2 * x + b /\ (2 * k + 1 + 1) * b = 2 * x + 2 * b
      /\ x \in Nat
  BY <1>2, <1>3
<1> HIDE DEF x
<1>9. /\ leaf \div (2 * b) = k <=> leaf \div b = 2 * k \/ leaf \div b = 2 * k + 1
      /\ ~(leaf \div b = 2 * k /\ leaf \div b = 2 * k + 1)
  BY <1>2, <1>5, <1>6, <1>7, <1>8
<1>10. QED
  BY <1>2, <1>4, <1>9 DEF Under, b, k

LEMMA HitsSum ==
    ASSUME indices \in Challenges, NEW n \in Nodes, n[1] < H
    PROVE  Cardinality(Hits(n)) = Cardinality(Hits(Low(n))) + Cardinality(Hits(High(n)))
<1>1. Challenged \subseteq Nat
  BY ChallengedNat
<1>2. Hits(n) = Hits(Low(n)) \cup Hits(High(n)) /\ Hits(Low(n)) \cap Hits(High(n)) = {}
  BY <1>1, UnderKids DEF Hits
<1>3. IsFiniteSet(Hits(Low(n))) /\ IsFiniteSet(Hits(High(n)))
  BY HitsFinite
<1>4. Cardinality(Hits(Low(n))) \in Nat /\ Cardinality(Hits(High(n))) \in Nat
  BY HitsFinite
<1>5. Cardinality({}) = 0
  BY FS_EmptySet
<1>6. Cardinality(Hits(Low(n)) \cup Hits(High(n)))
        = Cardinality(Hits(Low(n))) + Cardinality(Hits(High(n)))
          - Cardinality(Hits(Low(n)) \cap Hits(High(n)))
  BY <1>3, FS_Union
<1> DEFINE a == Cardinality(Hits(Low(n)))
           b == Cardinality(Hits(High(n)))
           c == Cardinality(Hits(n))
<1>7. c = a + b - 0 /\ a \in Nat /\ b \in Nat
  BY <1>2, <1>4, <1>5, <1>6, Zenon
<1> HIDE DEF a, b, c
<1>8. c = a + b
  BY <1>7
<1>9. QED
  BY <1>8 DEF a, b, c

\* What one level adds: s and t are the lengths of the paths below the children,
\* a and b their challenged leaves, p and q powers of two.
LEMMA LevelAdds ==
    ASSUME NEW s \in Nat, NEW t \in Nat, NEW a \in Nat, NEW b \in Nat,
           NEW e \in Int, NEW p \in Int
    PROVE  /\ s <= p + a * e /\ t <= p + b * e => s + t <= 2 * p + (a + b) * e
           /\ a + b >= 1 => 2 + (a + b) * (e - 1) <= 1 + (a + b) * e
           /\ a >= 1 => 1 + (p + a * (e - 1)) <= p + a * e
<1>1. (a + b) * e = a * e + b * e
  BY SMT
<1>2. (a + b) * (e - 1) = (a + b) * e - (a + b)
  BY SMT
<1>3. a * (e - 1) = a * e - a
  BY SMT
<1>4. a * e \in Int /\ b * e \in Int /\ (a + b) * e \in Int
  OBVIOUS
<1>5. QED
  BY <1>1, <1>2, <1>3, <1>4

\* A bound for each l; seed_max_tree_len is the least of them.
Bound(n, d) ==
    /\ ~Split(n) => Len(Below[n]) <= 1
    /\ Split(n) => \A l \in 0..d : Len(Below[n]) <= Pow[l] + Cardinality(Hits(n)) * (d - l - 1)

LEMMA BoundLeaf ==
    ASSUME indices \in Challenges, NEW n \in Nodes, n[1] = H
    PROVE  Bound(n, 0)
<1>1. ~(n[1] < H) /\ n[2] \in Nat /\ H - H = 0 /\ Pow[0] = 1
  BY NodeIs, Powers
<1>2. Below[n] = <<>> \/ Below[n] = <<n>>
  BY <1>1, BelowIs DEF Walk
<1>3. Split(n) => Below[n] = <<>>
  BY <1>1, BelowIs DEF Walk
<1>4. Hits(n) \subseteq {n[2]}
  <2> SUFFICES ASSUME NEW leaf \in Challenged, Under(leaf, n) PROVE leaf = n[2]
    BY DEF Hits
  <2>1. leaf \in Nat
    BY ChallengedNat
  <2>2. leaf \div 1 = n[2]
    BY <1>1 DEF Under
  <2>3. QED
    BY <2>1, <2>2
<1>5. Cardinality(Hits(n)) <= 1 /\ Cardinality(Hits(n)) \in Nat
  <2>1. IsFiniteSet({n[2]}) /\ Cardinality({n[2]}) = 1
    BY FS_Singleton
  <2>2. Cardinality(Hits(n)) <= Cardinality({n[2]})
    BY <1>4, <2>1, FS_Subset
  <2>3. QED
    BY <2>1, <2>2, HitsFinite
<1>6. Len(Below[n]) <= 1 /\ (Split(n) => Len(Below[n]) = 0)
  <2>1. Len(<<n>>) = 1 /\ Len(<<>>) = 0
    OBVIOUS
  <2> DEFINE m == Len(Below[n])
  <2>2. (m = 0 \/ m = 1) /\ (Split(n) => m = 0)
    BY <1>2, <1>3, <2>1, Zenon
  <2> HIDE DEF m
  <2>3. m <= 1
    BY <2>2
  <2>4. QED
    BY <2>2, <2>3 DEF m
<1>7. Split(n) => \A l \in 0..0 : Len(Below[n]) <= Pow[l] + Cardinality(Hits(n)) * (0 - l - 1)
  <2> DEFINE c == Cardinality(Hits(n))
  <2> HIDE DEF c
  <2>1. c \in Nat /\ c <= 1
    BY <1>5 DEF c
  <2>2. c * (0 - 0 - 1) = -c
    BY <2>1
  <2>3. 0 <= Pow[0] + c * (0 - 0 - 1)
    BY <1>1, <2>1, <2>2
  <2>4. \A l \in 0..0 : l = 0
    OBVIOUS
  <2>5. QED
    BY <1>6, <2>3, <2>4 DEF c
<1>8. QED
  BY <1>6, <1>7 DEF Bound

LEMMA BoundUp ==
    ASSUME indices \in Challenges, NEW d \in Nat, NEW n \in Nodes, n[1] = H - (d + 1),
           Bound(Low(n), d), Bound(High(n), d)
    PROVE  Bound(n, d + 1)
<1> DEFINE s == Len(Below[Low(n)])
           t == Len(Below[High(n)])
           a == Cardinality(Hits(Low(n)))
           b == Cardinality(Hits(High(n)))
<1>1. n[1] < H /\ d + 1 <= H /\ H \in Nat
  BY NodeIs, Powers
<1>2. Low(n) \in Nodes /\ High(n) \in Nodes
  BY <1>1, Kids
<1>3. /\ Below[Low(n)] \in Seq(Pairs) /\ Below[High(n)] \in Seq(Pairs)
      /\ s \in Nat /\ t \in Nat
  BY <1>2, BelowIs, LenProperties
<1>4. Below[n] = IF Split(n) THEN Below[Low(n)] \o Below[High(n)]
                 ELSE IF First(n[1], n[2]) < T THEN <<n>> ELSE <<>>
  BY <1>1, BelowIs DEF Walk
<1>5. ~Split(n) => Len(Below[n]) <= 1
  <2>1. Len(<<n>>) = 1 /\ Len(<<>>) = 0
    OBVIOUS
  <2>2. ~Split(n) => Below[n] = <<n>> \/ Below[n] = <<>>
    BY <1>4
  <2> DEFINE m == Len(Below[n])
  <2>3. ~Split(n) => m = 0 \/ m = 1
    BY <2>1, <2>2, Zenon
  <2> HIDE DEF m
  <2>4. ~Split(n) => m <= 1
    BY <2>3
  <2>5. QED
    BY <2>4 DEF m
<1>6. Split(n) => Len(Below[n]) = s + t
  <2>1. Len(Below[Low(n)] \o Below[High(n)]) = s + t
    BY <1>3, Joined
  <2>2. QED
    BY <1>4, <2>1, Zenon
<1>7. Cardinality(Hits(n)) = a + b /\ a \in Nat /\ b \in Nat
  BY <1>1, HitsSum, HitsFinite
<1>8. /\ Split(Low(n)) <=> a >= 1
      /\ Split(High(n)) <=> b >= 1
      /\ Split(n) <=> a + b >= 1
  BY <1>7, HitsFinite
<1>9. /\ a = 0 => s <= 1
      /\ b = 0 => t <= 1
      /\ a >= 1 => \A l \in 0..d : s <= Pow[l] + a * (d - l - 1)
      /\ b >= 1 => \A l \in 0..d : t <= Pow[l] + b * (d - l - 1)
  BY <1>7, <1>8 DEF Bound
<1> HIDE DEF s, t, a, b
<1>10. ASSUME a + b >= 1, NEW l \in 0..(d + 1)
       PROVE  s + t <= Pow[l] + (a + b) * ((d + 1) - l - 1)
  <2>1. /\ \A m \in 0..d : Pow[m] \in Nat \ {0} /\ Pow[m + 1] = 2 * Pow[m]
        /\ Pow[0] = 1 /\ Pow[l] \in Nat
    <3>1. \A m \in 0..d : m \in 0..H /\ m + 1 \in 1..H /\ (m + 1) - 1 = m
      BY <1>1
    <3>2. l \in 0..H
      BY <1>1
    <3>3. QED
      BY <3>1, <3>2, Powers
  <2>2. (d + 1) - l - 1 = d - l
    OBVIOUS
  <2>3. CASE a >= 1 /\ b >= 1 /\ l # 0
    <3>1. l - 1 \in 0..d /\ d - (l - 1) - 1 = d - l /\ (l - 1) + 1 = l
      BY <2>3
    <3>2. s <= Pow[l - 1] + a * (d - l) /\ t <= Pow[l - 1] + b * (d - l)
      BY <1>9, <2>3, <3>1
    <3>3. Pow[l] = 2 * Pow[l - 1] /\ Pow[l - 1] \in Int /\ d - l \in Int
      BY <2>1, <3>1
    <3>4. s + t <= 2 * Pow[l - 1] + (a + b) * (d - l)
      BY <1>3, <1>7, <3>2, <3>3, LevelAdds DEF s, t
    <3>5. QED
      BY <2>2, <3>3, <3>4
  <2>4. CASE a >= 1 /\ b >= 1 /\ l = 0
    <3>1. 0 \in 0..d /\ d - 0 - 1 = d - 1 /\ d \in Int /\ d - 1 \in Int
      OBVIOUS
    <3>2. s <= 1 + a * (d - 1) /\ t <= 1 + b * (d - 1)
      BY <1>9, <2>1, <2>4, <3>1
    <3>3. s + t <= 2 * 1 + (a + b) * (d - 1)
      <4>1. /\ s \in Nat /\ t \in Nat /\ a \in Nat /\ b \in Nat
            /\ d - 1 \in Int /\ 1 \in Int
        BY <1>3, <1>7, <3>1 DEF s, t
      <4>2. QED
        BY ONLY <4>1, <3>2, LevelAdds
    <3>4. 2 + (a + b) * (d - 1) <= 1 + (a + b) * d
      BY <1>7, <1>10, <3>1, LevelAdds
    <3>5. (a + b) * (d - 1) \in Int /\ (a + b) * d \in Int /\ s \in Nat /\ t \in Nat
      BY <1>3, <1>7 DEF s, t
    <3>6. s + t <= 1 + (a + b) * d
      BY <3>3, <3>4, <3>5
    <3>7. d - l = d
      BY <2>4
    <3>8. QED
      BY <2>1, <2>2, <2>4, <3>6, <3>7
  <2>5. ASSUME NEW u \in Nat, NEW v \in Nat, NEW c \in Nat, c >= 1, v <= 1,
               \A m \in 0..d : u <= Pow[m] + c * (d - m - 1)
        PROVE  u + v <= Pow[l] + c * (d - l)
    <3>1. CASE l \in 0..d
      <4>1. u <= Pow[l] + c * ((d - l) - 1)
        <5>1. d - l - 1 = (d - l) - 1
          BY <3>1
        <5>2. QED
          BY <2>5, <3>1, <5>1
      <4>2. 1 + (Pow[l] + c * ((d - l) - 1)) <= Pow[l] + c * (d - l)
        <5>1. d - l \in Int /\ Pow[l] \in Int
          BY <2>1, <3>1
        <5>2. QED
          BY <2>5, <5>1, LevelAdds
      <4>3. c * ((d - l) - 1) \in Int /\ c * (d - l) \in Int
        BY <2>5, <3>1
      <4>4. QED
        BY <2>1, <2>5, <4>1, <4>2, <4>3
    <3>2. CASE l = d + 1
      <4>1. u <= Pow[d] + c * (d - d - 1)
        BY <2>5
      <4>2. d - d - 1 = -1 /\ d - l = -1 /\ c * (-1) = -c
        BY <3>2
      <4>3. Pow[l] = 2 * Pow[d] /\ Pow[d] \in Nat \ {0}
        BY <2>1, <3>2
      <4>4. u <= Pow[d] - c
        BY <4>1, <4>2, <4>3
      <4>5. QED
        BY <2>5, <4>2, <4>3, <4>4
    <3>3. QED
      BY <3>1, <3>2
  <2>6. s \in Nat /\ t \in Nat
    BY <1>3 DEF s, t
  <2>7. CASE a >= 1 /\ b = 0
    <3>1. s + t <= Pow[l] + a * (d - l)
      BY <1>7, <1>9, <2>5, <2>6, <2>7
    <3>2. a + b = a
      BY <1>7, <2>7
    <3>3. QED
      BY <2>2, <3>1, <3>2
  <2>8. CASE a = 0 /\ b >= 1
    <3>1. t + s <= Pow[l] + b * (d - l)
      BY <1>7, <1>9, <2>5, <2>6, <2>8
    <3>2. a + b = b /\ t + s = s + t
      BY <1>7, <2>6, <2>8
    <3>3. QED
      BY <2>2, <3>1, <3>2
  <2>9. (a >= 1 /\ b >= 1) \/ (a >= 1 /\ b = 0) \/ (a = 0 /\ b >= 1)
    BY <1>7, <1>10
  <2>10. QED
    BY <2>3, <2>4, <2>7, <2>8, <2>9
<1>11. QED
  BY <1>5, <1>6, <1>7, <1>8, <1>10 DEF Bound

LEMMA RefPathFits ==
    ASSUME indices \in Challenges
    PROVE  RefPath \in Seq(Pairs) /\ Len(RefPath) \in Nat /\ Len(RefPath) <= MaxPath
<1> DEFINE S == {d \in Nat : \A n \in Nodes : n[1] = H - d => Bound(n, d)}
<1>1. 0 \in S
  <2>1. H - 0 = H
    BY Powers
  <2>2. QED
    BY <2>1, BoundLeaf
<1>2. ASSUME NEW d \in S PROVE d + 1 \in S
  <2> SUFFICES ASSUME NEW n \in Nodes, n[1] = H - (d + 1) PROVE Bound(n, d + 1)
    OBVIOUS
  <2>1. n[1] < H /\ n[1] + 1 = H - d
    BY NodeIs, Powers
  <2>2. Low(n) \in Nodes /\ High(n) \in Nodes /\ Low(n)[1] = H - d /\ High(n)[1] = H - d
    BY <2>1, Kids DEF Low, High
  <2>3. Bound(Low(n), d) /\ Bound(High(n), d)
    BY <1>2, <2>2
  <2>4. QED
    BY <2>3, BoundUp
<1>3. S = Nat
  <2>1. S \subseteq Nat
    OBVIOUS
  <2> HIDE DEF S
  <2>2. QED
    BY <1>1, <1>2, <2>1, Induction
<1>4. Bound(Root, H)
  <2>1. Root[1] = H - H /\ H \in Nat
    BY Powers DEF Root
  <2>2. QED
    BY <1>3, <2>1, RootNode
<1>5. Hits(Root) = Challenged
  <2> SUFFICES ASSUME NEW leaf \in Challenged PROVE Under(leaf, Root)
    BY DEF Hits
  <2>1. leaf \in Nat /\ leaf < T
    BY Challenge, Powers DEF Challenged, Leaves
  <2>2. H - 0 = H /\ Pow[H] \in Nat \ {0} /\ T <= Pow[H] /\ T \in Nat
    BY Powers, SeedTreeAssumption
  <2>3. 0 * Pow[H] <= leaf /\ leaf < (0 + 1) * Pow[H]
    BY <2>1, <2>2
  <2>4. leaf \div Pow[H] = 0
    BY <2>1, <2>2, <2>3, Block
  <2>5. QED
    BY <2>2, <2>4 DEF Under, Root
<1>6. Cardinality(Hits(Root)) = W /\ W >= 1
  BY <1>5, ChallengedFinite, Powers
<1>7. Split(Root)
  BY <1>6, HitsFinite
<1>8. RefPath = Below[Root] /\ Below[Root] \in Seq(Pairs)
  BY BelowIs, RootNode
<1>9. PICK l \in 0..H : Pow[l] + W * (H - l - 1) <= MaxPath
  BY PathAssumption
<1>10. Len(RefPath) <= Pow[l] + W * (H - l - 1)
  BY <1>4, <1>6, <1>7, <1>8 DEF Bound
<1>11. Pow[l] + W * (H - l - 1) \in Int /\ MaxPath \in Nat
  <2>1. Pow[l] \in Int /\ H - l - 1 \in Int /\ W \in Int
    BY Powers
  <2>2. QED
    BY <2>1, PathAssumption
<1>12. Len(RefPath) \in Nat
  BY <1>8, LenProperties
<1>13. QED
  BY <1>8, <1>9, <1>10, <1>11, <1>12

LEMMA InvFits ==
    ASSUME TreeInv, PathInv
    PROVE  PathFits
<1>1. TypeOK /\ NotYet /\ Ordered
  BY DEF TreeInv
<1>2. CASE Sent
  <2>1. indices \in Challenges
    BY <1>1, <1>2 DEF Ordered, Sent
  <2>2. QED
    BY <1>2, <2>1, RefPathFits DEF PathInv, PathFits
<1>3. CASE mode = "toPath" /\ pc \in {"hash", "commit"}
  <2>1. path = <<>>
    BY <1>1, <1>3 DEF NotYet
  <2>2. Len(path) = 0
    BY <2>1
  <2>3. QED
    BY <2>2, PathAssumption DEF PathFits
<1>4. CASE mode = "toPath" /\ pc \in {"scan", "back"}
  <2>1. indices \in Challenges
    BY <1>1, <1>4 DEF Ordered
  <2>2. Node \in Nodes
    BY <1>1, <1>4 DEF TypeOK, Node
  <2>3. Rest \in Seq(Pairs)
    <3>1. Below[Node] \in Seq(Pairs) /\ After[Node] \in Seq(Pairs)
      BY <2>2, BelowIs, AfterIs
    <3>2. QED
      BY <3>1, Joined DEF Rest
  <2>4. path \in Seq(Pairs)
    <3>1. {Zero, Spent, Junk} \subseteq Pairs
      BY DEF Zero, Spent, Junk, Pairs
    <3>2. Nodes \cup {Zero, Spent, Junk} \subseteq Pairs
      BY <3>1, NodePairs
    <3>3. path \in Seq(Nodes \cup {Zero, Spent, Junk})
      BY <1>1 DEF TypeOK
    <3>4. QED
      BY <3>2, <3>3, SeqMonotonic
  <2>5. path \o Rest = RefPath
    BY <1>4 DEF PathInv
  <2>6. Len(path \o Rest) = Len(path) + Len(Rest)
    BY <2>3, <2>4, Joined
  <2>7. Len(path) \in Nat /\ Len(Rest) \in Nat
    BY <2>3, <2>4, LenProperties
  <2>8. Len(RefPath) \in Nat /\ Len(RefPath) <= MaxPath
    BY <2>1, RefPathFits
  <2>9. QED
    BY <2>5, <2>6, <2>7, <2>8, PathAssumption DEF PathFits
<1>5. CASE mode = "toPath" /\ pc = "done"
  BY <1>5 DEF PathInv
<1>6. QED
  BY <1>1, <1>2, <1>3, <1>4, <1>5 DEF TypeOK, Sent

-----------------------------------------------------------------------------
\* What is in path and tree, from the first state on.

LEMMA PathInit == Init => PathInv
  BY DEF Init, PathInv, Walking, Sent

LEMMA GrowInit == Init => GrowInv
  BY DEF Init, GrowInv

LEMMA PathStop == PathInv /\ UNCHANGED vars => PathInv'
<1> SUFFICES ASSUME PathInv, UNCHANGED vars PROVE PathInv'
  OBVIOUS
<1>1. UNCHANGED <<pc, mode, indices, h, i, path, pos>>
  BY DEF vars, walk
<1>2. Below' = Below /\ After' = After /\ RefPath' = RefPath
  BY <1>1, SameTree
<1>3. Rest' = Rest
  BY <1>1, <1>2 DEF Rest, Node
<1>4. QED
  BY <1>1, <1>2, <1>3 DEF PathInv, Walking, Sent

LEMMA GrowStop == GrowInv /\ UNCHANGED vars => GrowInv'
<1> SUFFICES ASSUME GrowInv, UNCHANGED vars PROVE GrowInv'
  OBVIOUS
<1>1. UNCHANGED <<pc, mode, stree, top, lv, indices, h, i>>
  BY DEF vars, walk, call
<1>2. Node' = Node /\ Start' = Start /\ Challenged' = Challenged /\ Split(Node)' = Split(Node)
  BY <1>1 DEF Node, Start, Challenged, Split, Under, First
<1>3. QED
  BY <1>1, <1>2 DEF GrowInv, Inside, First

LEMMA PathStep == TreeInv /\ PathInv /\ [Next]_vars => PathInv'
  BY PathHash, PathReturn, PathCommit, PathDescend, PathSkip, PathStore, PathLoad, PathBack,
     PathNext, PathOpen, PathStop
  DEF Next, Work, Stop

\* Before the verifier starts.
LEMMA GrowBefore == mode' = "toPath" => GrowInv'
  BY DEF GrowInv

LEMMA GrowStep == TreeInv /\ PathInv /\ GrowInv /\ [Next]_vars => GrowInv'
<1>1. TreeInv /\ Commit => GrowInv'
  <2>1. TreeInv /\ Commit => mode' = "toPath"
    BY DEF TreeInv, TypeOK, Fresh, Commit
  <2>2. QED
    BY <2>1, GrowBefore
<1>2. QED
  BY <1>1, GrowHash, GrowReturn, GrowDescend, GrowSkip, GrowStore, GrowLoad, GrowBack,
     GrowNext, GrowOpen, GrowStop
  DEF Next, Work, Stop

-----------------------------------------------------------------------------
\* What the verifier knows: the steps of SeedReveal.

LEMMA NoneOpen == mode = "toPath" => Opened = {}
  BY DEF Opened

\* Seeds the verifier has stay, and none of a challenged leaf comes.
LEMMA OpensMore ==
    ASSUME GrowInv', TypeOK', Hidden = Challenged, Hidden' = Challenged, indices' = indices,
           mode' = "toTree", \A leaf \in Opened : stree'[<<H, leaf>>] = <<H, leaf>>
    PROVE  [SR!Next]_<<Hidden, Opened>>
<1> DEFINE more == Opened' \ Opened
<1>1. Challenged' = Challenged
  BY DEF Challenged
<1>2. Opened \subseteq Opened'
  BY DEF Opened
<1>3. \A leaf \in Challenged : leaf \notin Opened'
  BY <1>1 DEF GrowInv, Opened
<1>4. more \in SUBSET ((Leaves \ Challenged) \ Opened)
  BY <1>3 DEF Opened
<1>5. Opened' = Opened \cup more
  BY <1>2
<1>6. CASE more = {}
  BY <1>5, <1>6
<1>7. CASE more # {}
  BY <1>4, <1>5, <1>7 DEF SR!Next, SR!Reveal
<1>8. QED
  BY <1>6, <1>7

\* A step that opens nothing and leaves the challenge alone.
LEMMA OpensNone ==
    ASSUME UNCHANGED <<mode, stree, indices>>, Hidden' = Hidden
    PROVE  UNCHANGED <<Hidden, Opened>>
  BY DEF Opened

LEMMA RevealHash == TreeInv /\ GrowInv /\ TreeInv' /\ GrowInv' /\ HashLevel
                       => [SR!Next]_<<Hidden, Opened>>
<1> SUFFICES ASSUME TreeInv, GrowInv, TreeInv', GrowInv', HashLevel
             PROVE  [SR!Next]_<<Hidden, Opened>>
  OBVIOUS
<1>1. pc = "hash" /\ lv' = lv + 1 /\ lv < H /\ UNCHANGED <<pc, mode, top, ret, indices, h, i>>
  BY DEF HashLevel, walk
<1>2. TypeOK /\ Fresh
  BY DEF TreeInv
<1>3. Challenged' = Challenged /\ Hidden' = Hidden
  BY <1>1 DEF Hidden, Challenged
<1>4. CASE mode = "toPath"
  <2>1. Opened = {} /\ Opened' = {}
    BY <1>1, <1>4 DEF Opened
  <2>2. QED
    BY <1>3, <2>1
<1>5. CASE mode = "toTree"
  <2>1. Hidden = Challenged
    BY <1>1, <1>2, <1>5 DEF Fresh, Hidden
  <2>2. top = Node /\ h <= lv /\ h \in 0..H /\ i \in Nat /\ lv \in 0..H
    <3>1. top = Node /\ h <= lv
      BY <1>1, <1>5 DEF GrowInv
    <3>2. Node \in Nodes /\ lv \in 0..H
      BY <1>2, <3>1 DEF TypeOK
    <3>3. QED
      BY <3>1, <3>2, NodeIs, Powers DEF Node
  <2>3. top[1] = h /\ top[2] = i
    BY <2>2 DEF Node
  <2>4. ASSUME NEW leaf \in Leaves, stree[<<H, leaf>>] = <<H, leaf>>
        PROVE  stree'[<<H, leaf>>] = <<H, leaf>>
    <3> DEFINE n == <<H, leaf>>
    <3>1. n \in Nodes /\ n[1] = H /\ n[2] = leaf /\ First(n[1], n[2]) < T
      BY LeafNodes
    <3>2. CASE n[1] = lv + 1 /\ Inside(n)
      <4>1. h <= n[1] /\ n[1] <= lv'
        BY <1>1, <2>2, <3>2
      <4>2. Inside(n)' = Inside(n) /\ (First(n[1], n[2]) < T)' = (First(n[1], n[2]) < T)
        BY <1>1 DEF Inside, First
      <4>3. QED
        BY <1>1, <1>5, <3>1, <3>2, <4>1, <4>2 DEF GrowInv, Inside, First
    <3>3. CASE ~(n[1] = lv + 1 /\ Inside(n))
      <4>1. n[1] = lv + 1 => ~(i * Pow[lv + 1 - h] <= n[2] /\ n[2] < (i + 1) * Pow[lv + 1 - h])
        <5>1. n[1] = lv + 1 => n[1] - h = lv + 1 - h
          BY <2>2
        <5>2. QED
          BY <3>3, <5>1, Zenon DEF Inside
      <4>2. n[1] = lv + 1 => ~(top[2] * Pow[lv + 1 - top[1]] <= n[2]
                               /\ n[2] < (top[2] + 1) * Pow[lv + 1 - top[1]])
        BY <2>3, <4>1
      <4>3. \A m \in Nodes : (m[1] = lv + 1 => ~(top[2] * Pow[lv + 1 - top[1]] <= m[2]
                                                 /\ m[2] < (top[2] + 1) * Pow[lv + 1 - top[1]]))
                => stree'[m] = stree[m]
        BY DEF HashLevel
      <4>4. stree'[n] = stree[n]
        BY <3>1, <4>2, <4>3
      <4>5. QED
        BY <2>4, <4>4
    <3>4. QED
      BY <3>2, <3>3
  <2>5. \A leaf \in Opened : stree'[<<H, leaf>>] = <<H, leaf>>
    BY <2>4 DEF Opened
  <2>6. TypeOK'
    BY DEF TreeInv
  <2>7. QED
    BY <1>1, <1>3, <1>5, <2>1, <2>5, <2>6, OpensMore
<1>6. QED
  BY <1>2, <1>4, <1>5 DEF TypeOK

LEMMA RevealLoad == TreeInv /\ TreeInv' /\ GrowInv' /\ LoadPath => [SR!Next]_<<Hidden, Opened>>
<1> SUFFICES ASSUME TreeInv, TreeInv', GrowInv', LoadPath PROVE [SR!Next]_<<Hidden, Opened>>
  OBVIOUS
<1>1. /\ pc = "scan" /\ mode = "toTree" /\ pc' = "hash" /\ ret' = "back" /\ lv' = h
      /\ UNCHANGED <<mode, indices, h, i>>
  BY DEF LoadPath, CallHash, walk
<1>2. Challenged' = Challenged /\ Hidden = Challenged /\ Hidden' = Challenged'
  BY <1>1 DEF Hidden, Challenged
<1>3. TypeOK /\ TypeOK' /\ stree \in [Nodes -> Nodes \cup {Zero, Spent, Junk}]
  BY DEF TreeInv, TypeOK
<1>4. Node \in Nodes /\ h \in 0..H /\ i \in Nat
  <2>1. Node \in Nodes
    BY <1>1, <1>3 DEF TypeOK, Node
  <2>2. QED
    BY <2>1, NodeIs, Powers DEF Node
<1>5. ASSUME NEW leaf \in Leaves, stree[<<H, leaf>>] = <<H, leaf>>
      PROVE  stree'[<<H, leaf>>] = <<H, leaf>>
  <2> DEFINE n == <<H, leaf>>
  <2>1. n \in Nodes /\ n[1] = H /\ n[2] = leaf /\ First(n[1], n[2]) < T
    BY LeafNodes
  <2>2. CASE n = Node
    <3>1. n[1] = h /\ n[2] = i
      BY <2>1, <2>2 DEF Node
    <3>2. Inside(n)'
      <4>1. Pow[h - h] = 1
        BY <1>4, Powers
      <4>2. i * 1 <= i /\ i < (i + 1) * 1
        BY <1>4
      <4>3. QED
        BY <1>1, <3>1, <4>1, <4>2 DEF Inside
    <3>3. h' <= n[1] /\ n[1] <= lv'
      BY <1>1, <1>4, <3>1
    <3>4. (First(n[1], n[2]) < T)'
      BY <2>1 DEF First
    <3>5. QED
      BY <1>1, <2>1, <3>2, <3>3, <3>4 DEF GrowInv
  <2>3. CASE n # Node
    BY <1>3, <1>5, <2>1, <2>3 DEF LoadPath, Node
  <2>4. QED
    BY <2>2, <2>3
<1>6. \A leaf \in Opened : stree'[<<H, leaf>>] = <<H, leaf>>
  BY <1>5 DEF Opened
<1>7. QED
  BY <1>1, <1>2, <1>3, <1>6, OpensMore

LEMMA RevealCommit == TreeInv /\ TreeInv' /\ Commit => [SR!Next]_<<Hidden, Opened>>
<1> SUFFICES ASSUME TreeInv, TreeInv', Commit PROVE [SR!Next]_<<Hidden, Opened>>
  OBVIOUS
<1>1. pc = "commit" /\ pc' = "hash" /\ ret' = "scan" /\ mode' = mode
  BY DEF Commit, CallHash
<1>2. mode = "toPath"
  BY <1>1 DEF TreeInv, TypeOK, Fresh
<1>3. Opened = {} /\ Opened' = {}
  BY <1>1, <1>2 DEF Opened
<1>4. Hidden = Leaves /\ Hidden' = Challenged'
  BY <1>1 DEF Hidden
<1>5. Challenged' \subseteq Leaves
  BY DEF TreeInv, TypeOK, Challenged
<1>6. QED
  BY <1>3, <1>4, <1>5 DEF SR!Next, SR!Choose

LEMMA RevealReturn == TreeInv /\ HashReturn => UNCHANGED <<Hidden, Opened>>
<1> SUFFICES ASSUME TreeInv, HashReturn PROVE UNCHANGED <<Hidden, Opened>>
  OBVIOUS
<1>1. pc = "hash" /\ pc' = ret /\ UNCHANGED <<mode, stree, ret, indices>>
  BY DEF HashReturn, call
<1>2. ret \in {"commit", "scan", "back"}
  BY DEF TreeInv, TypeOK
<1>3. Hidden' = Hidden
  BY <1>1, <1>2 DEF Hidden, Challenged
<1>4. QED
  BY <1>1, <1>3, OpensNone

LEMMA RevealOpen == PathInv /\ Open => UNCHANGED <<Hidden, Opened>>
<1> SUFFICES ASSUME PathInv, Open PROVE UNCHANGED <<Hidden, Opened>>
  OBVIOUS
<1>1. pc = "sent" /\ pc' = "scan" /\ stree' = [n \in Nodes |-> Zero] /\ UNCHANGED indices
  BY DEF Open
<1>2. Hidden' = Hidden
  BY <1>1 DEF Hidden, Challenged
<1>3. mode = "toPath"
  BY <1>1 DEF PathInv
<1>4. Opened' = {}
  <2> SUFFICES ASSUME NEW leaf \in Leaves, stree'[<<H, leaf>>] = <<H, leaf>> PROVE FALSE
    BY DEF Opened
  <2>1. <<H, leaf>> \in Nodes /\ H \in Nat
    BY LeafNodes, Powers
  <2>2. stree'[<<H, leaf>>] = Zero
    BY <1>1, <2>1
  <2>3. <<H, leaf>> # Zero
    BY <2>1 DEF Zero
  <2>4. QED
    BY <2>2, <2>3
<1>5. QED
  BY <1>2, <1>3, <1>4, NoneOpen

\* The rest of the traversal.
LEMMA RevealMoves ==
    ASSUME Descend \/ SkipLeaf \/ StorePath \/ Backtrack \/ NextNode \/ UNCHANGED vars
    PROVE  UNCHANGED <<Hidden, Opened>>
<1>1. UNCHANGED <<mode, stree, ret, indices>>
  BY DEF Descend, SkipLeaf, StorePath, Backtrack, NextNode, vars, call
<1>2. \/ pc \in {"scan", "back"} /\ pc' \in {"scan", "back", "sent", "done"}
      \/ pc' = pc
  BY DEF Descend, SkipLeaf, StorePath, Backtrack, NextNode, vars
<1>3. Hidden' = Hidden
  BY <1>1, <1>2 DEF Hidden, Challenged
<1>4. QED
  BY <1>1, <1>3, OpensNone

-----------------------------------------------------------------------------
\* The frontier invariant holds throughout, for every tree and challenge.
THEOREM SeedTreeInvariant == Spec => []TreeInv
<1>1. Init => TreeInv
    BY TreeInit
<1>2. TreeInv /\ [Next]_vars => TreeInv'
    BY StepHashLevel, StepHashReturn, StepCommit, StepDescend, StepSkipLeaf, StepStorePath,
       StepLoadPath, StepBacktrack, StepNextNode, StepOpen, StepStop
    DEF Next, Work, Stop
<1>3. QED  BY <1>1, <1>2, PTL DEF Spec

\* The traversal never leaves the tree, and stree, path and loop variables keep
\* their types.
THEOREM SeedTreeTypeCorrect == Spec => []TypeOK
<1>1. TreeInv => TypeOK
    BY DEF TreeInv
<1>2. QED  BY <1>1, SeedTreeInvariant, PTL

\* The path never gives away the seed of a challenged leaf, or one above it.
THEOREM SeedTreeNoLeak == Spec => []NoLeak
<1>1. TreeInv => NoLeak
    BY DEF TreeInv
<1>2. QED  BY <1>1, SeedTreeInvariant, PTL

\* The path the signer sends has a seed above every other leaf.
THEOREM SeedTreePathCovers == Spec => []PathCovers
<1>1. TreeInv => PathCovers
    BY DEF TreeInv
<1>2. QED  BY <1>1, SeedTreeInvariant, PTL

\* Throughout, what is in the path and what the reference has still to take are
\* the reference's path, and the verifier's tree is the signer's fresh tree left
\* of the frontier, its challenged leaves excepted.
THEOREM SeedTreeContents == Spec => [](PathInv /\ GrowInv)
<1>1. Init => PathInv /\ GrowInv
  BY PathInit, GrowInit
<1>2. TreeInv /\ PathInv /\ GrowInv /\ [Next]_vars => PathInv' /\ GrowInv'
  BY PathStep, GrowStep
<1>3. QED
  BY <1>1, <1>2, SeedTreeInvariant, PTL DEF Spec

\* The path sent is the one seedtree.py makes, and the verifier has taken all of
\* it when it has its leaves.
THEOREM SeedTreePathIsReference == Spec => []PathIsReference
<1>1. PathInv => PathIsReference
  BY DEF PathInv, PathIsReference
<1>2. QED
  BY <1>1, SeedTreeContents, PTL

\* The path never outgrows the room params.py gives it in the signature.
THEOREM SeedTreePathFits == Spec => []PathFits
<1>1. TreeInv /\ PathInv => PathFits
  BY InvFits
<1>2. QED
  BY <1>1, SeedTreeInvariant, SeedTreeContents, PTL

\* When path_to_stree is done the verifier has the seed of every leaf that is
\* not challenged, and of no other.
THEOREM SeedTreeOpens == Spec => [](pc = "done" => Opened = Leaves \ Challenged)
<1>1. ASSUME TreeInv, PathInv, GrowInv, pc = "done"
      PROVE  Opened = Leaves \ Challenged
  <2>1. mode = "toTree" /\ Start = T
    BY <1>1 DEF PathInv, Start
  <2>2. \A leaf \in Leaves : leaf < T
    BY LeafNodes
  <2>3. QED
    BY <1>1, <2>1, <2>2 DEF GrowInv, Opened
<1>2. TreeInv /\ PathInv /\ GrowInv => (pc = "done" => Opened = Leaves \ Challenged)
  BY <1>1
<1>3. QED
  BY <1>2, SeedTreeInvariant, SeedTreeContents, PTL

\* Path and tree are a SeedReveal, step by step: the challenge is drawn once,
\* and from then on the verifier only ever gains seeds that are not challenged.
THEOREM SeedTreeImplementsReveal == Spec => SR!Safety
<1>1. Init => SR!Init
  <2>1. Init => Opened = {}
    BY NoneOpen DEF Init
  <2>2. Init => Hidden = Leaves
    BY DEF Init, Hidden
  <2>3. QED
    BY <2>1, <2>2 DEF SR!Init
<1>2. TreeInv /\ PathInv /\ GrowInv /\ TreeInv' /\ GrowInv' /\ [Next]_vars
          => [SR!Next]_<<Hidden, Opened>>
  BY RevealHash, RevealReturn, RevealCommit, RevealLoad, RevealOpen, RevealMoves
  DEF Next, Work, Stop
<1>3. QED
  BY <1>1, <1>2, SeedTreeInvariant, SeedTreeContents, PTL DEF Spec, SR!Safety
=============================================================================
