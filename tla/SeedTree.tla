------------------------------ MODULE SeedTree ------------------------------
(***************************************************************************)
(* The seed tree of a signature (ref/seed.c): the signer grows the tree    *)
(* from its root, spends the leaves as seeds of its commitments, grows it  *)
(* again and writes the seeds of the largest subtrees without a challenged *)
(* leaf into the path (stree_to_path); the verifier starts from a tree of  *)
(* zeros and grows it from the path (path_to_stree).                       *)
(*                                                                         *)
(* A node is named <<h, i>>, level and index: SEED_TREE_ADDR gives each of *)
(* them a place of its own.  The content of a node is symbolic: a seed is  *)
(* the name of the node that has it in the signer's fresh tree.            *)
(***************************************************************************)
EXTENDS Integers, Sequences

CONSTANTS
    T,          \* MEDS_t: leaves
    W,          \* MEDS_w: challenged leaves
    H,          \* MEDS_seed_tree_height
    Pow,        \* the powers of two: Pow[n] = 1 << n
    MaxPath,    \* MEDS_max_path_len
    Challenges  \* the arrays indices, each the challenged leaves of a digest

Leaves == 0..(T - 1)

ASSUME SeedTreeAssumption ==
    /\ T \in Nat \ {0}
    /\ W \in Nat \ {0}
    /\ H \in Nat \ {0}
    /\ Pow \in [0..H -> Nat \ {0}]
    /\ Pow[0] = 1
    /\ \A n \in 0..(H - 1) : Pow[n + 1] = 2 * Pow[n]
    /\ T <= Pow[H]
    /\ Challenges \subseteq [0..(W - 1) -> Leaves]
    /\ \A c \in Challenges : \A m, n \in 0..(W - 1) : m < n => c[m] < c[n]

\* seed_max_tree_len of params.py, with l = ceil(log2(MEDS_w)).
ASSUME PathAssumption ==
    /\ MaxPath \in Nat
    /\ \E l \in 0..H : Pow[l] + W * (H - l - 1) <= MaxPath

Nodes == UNION {{<<h, i>> : i \in 0..(Pow[h] - 1)} : h \in 0..H}
Root  == <<0, 0>>

\* Contents that are no seed of the fresh tree.
Zero  == <<-1, 0>>  \* stree[...] = {0}
Spent == <<-1, 1>>  \* a leaf the commitment loop has advanced
Junk  == <<-1, 2>>  \* the hash of anything but the right seed

VARIABLES
    pc,       \* the loop: "hash" in t_hash; "scan", "back" in stree_to_path_to_stree
    mode,     \* STREE_TO_PATH, PATH_TO_STREE
    stree,
    top, lv,  \* t_hash: the node it was called for, the level it has reached
    ret,      \* where t_hash returns to
    indices,  \* the challenged leaves in order
    h, i, id, \* the node the traversal is at, the next challenged leaf
    path,
    pos       \* seeds the verifier has taken from the path

walk == <<h, i, id>>
call == <<top, lv, ret>>
vars == <<pc, mode, stree, call, indices, walk, path, pos>>

-----------------------------------------------------------------------------
\* The leftmost leaf below <<hh, ii>>: i << (MEDS_seed_tree_height - h).
First(hh, ii) == ii * Pow[H - hh]

\* Half of the hash of a node's content and address.
Derive(content, parent, child) == IF content = parent THEN child ELSE Junk

CallHash(hh, ii, to) ==
    /\ pc' = "hash"
    /\ top' = <<hh, ii>>
    /\ lv' = hh
    /\ ret' = to

\* One turn of the outer loop: the nodes start .. end - 1 of the next level
\* that have a leaf below them.
HashLevel ==
    /\ pc = "hash"
    /\ lv < H
    /\ stree' = [n \in Nodes |->
                   IF /\ n[1] = lv + 1
                      /\ top[2] * Pow[lv + 1 - top[1]] <= n[2]
                      /\ n[2] < (top[2] + 1) * Pow[lv + 1 - top[1]]
                      /\ First(n[1], n[2]) < T
                   THEN Derive(stree[<<lv, n[2] \div 2>>], <<lv, n[2] \div 2>>, n)
                   ELSE stree[n]]
    /\ lv' = lv + 1
    /\ UNCHANGED <<pc, mode, top, ret, indices, walk, path, pos>>

HashReturn ==
    /\ pc = "hash"
    /\ lv = H
    /\ pc' = ret
    /\ UNCHANGED <<mode, stree, call, indices, walk, path, pos>>

\* Mutant: the tree is not hashed again before stree_to_path.
Commit_NoHash ==
    /\ pc = "commit"
    /\ stree' = [n \in Nodes |-> IF n[1] = H /\ n[2] < T THEN Spent ELSE stree[n]]
    /\ indices' \in Challenges
    /\ pc' = "scan"
    /\ UNCHANGED <<mode, call, walk, path, pos>>

\* The commitments advance every leaf in place; then the challenge is known,
\* and t_hash is called for the second time.
Commit ==
    /\ pc = "commit"
    /\ stree' = [n \in Nodes |-> IF n[1] = H /\ n[2] < T THEN Spent ELSE stree[n]]
    /\ indices' \in Challenges
    /\ CallHash(0, 0, "scan")
    /\ UNCHANGED <<mode, walk, path, pos>>

-----------------------------------------------------------------------------
\* stree_to_path_to_stree

\* Mutant: a node left of the next challenged leaf is split as well.
Hit_Before == LET x == indices[id] \div Pow[H - h] IN x = i \/ (h < H /\ x > i)

\* The next challenged leaf is below the node.
Hit == indices[id] \div Pow[H - h] = i

Descend ==
    /\ pc = "scan"
    /\ Hit
    /\ h < H
    /\ h' = h + 1
    /\ i' = 2 * i
    /\ UNCHANGED <<pc, mode, stree, call, indices, id, path, pos>>

\* Mutant: id is not advanced.
SkipLeaf_SameId ==
    /\ pc = "scan"
    /\ Hit
    /\ h = H
    /\ pc' = "back"
    /\ UNCHANGED <<mode, stree, call, indices, walk, path, pos>>

\* Mutant: id runs past the last challenged leaf.
SkipLeaf_PastEnd ==
    /\ pc = "scan"
    /\ Hit
    /\ h = H
    /\ id' = id + 1
    /\ pc' = "back"
    /\ UNCHANGED <<mode, stree, call, indices, h, i, path, pos>>

\* A challenged leaf.
SkipLeaf ==
    /\ pc = "scan"
    /\ Hit
    /\ h = H
    /\ id' = IF id + 1 < W THEN id + 1 ELSE id
    /\ pc' = "back"
    /\ UNCHANGED <<mode, stree, call, indices, h, i, path, pos>>

StorePath ==
    /\ pc = "scan"
    /\ ~Hit
    /\ mode = "toPath"
    /\ path' = Append(path, stree[<<h, i>>])
    /\ pc' = "back"
    /\ UNCHANGED <<mode, stree, call, indices, walk, pos>>

LoadPath ==
    /\ pc = "scan"
    /\ ~Hit
    /\ mode = "toTree"
    /\ stree' = [stree EXCEPT ![<<h, i>>] = IF pos < Len(path) THEN path[pos + 1] ELSE Junk]
    /\ pos' = pos + 1
    /\ CallHash(h, i, "back")
    /\ UNCHANGED <<mode, indices, walk, path>>

Backtrack ==
    /\ pc = "back"
    /\ i % 2 = 1
    /\ h' = h - 1
    /\ i' = i \div 2
    /\ UNCHANGED <<pc, mode, stree, call, indices, id, path, pos>>

\* Mutant: the traversal ends one node early.
NextNode_Early ==
    /\ pc = "back"
    /\ i % 2 = 0
    /\ i' = i + 1
    /\ pc' = IF First(h, i') >= T - 1
             THEN IF mode = "toPath" THEN "sent" ELSE "done"
             ELSE "scan"
    /\ UNCHANGED <<mode, stree, call, indices, h, id, path, pos>>

NextNode ==
    /\ pc = "back"
    /\ i % 2 = 0
    /\ i' = i + 1
    /\ pc' = IF First(h, i') >= T
             THEN IF mode = "toPath" THEN "sent" ELSE "done"
             ELSE "scan"
    /\ UNCHANGED <<mode, stree, call, indices, h, id, path, pos>>

\* crypto_sign_open has the same digest and the path.
Open ==
    /\ pc = "sent"
    /\ mode' = "toTree"
    /\ stree' = [n \in Nodes |-> Zero]
    /\ h' = 0 /\ i' = 0 /\ id' = 0
    /\ pc' = "scan"
    /\ UNCHANGED <<call, indices, path, pos>>

\* The verifier has its leaves.
Stop == pc = "done" /\ UNCHANGED vars

-----------------------------------------------------------------------------
Init ==
    /\ pc = "hash" /\ mode = "toPath" /\ ret = "commit"
    /\ stree = [n \in Nodes |-> IF n = Root THEN Root ELSE Zero]
    /\ top = Root /\ lv = 0
    /\ indices = [n \in 0..(W - 1) |-> 0]
    /\ h = 0 /\ i = 0 /\ id = 0
    /\ path = <<>> /\ pos = 0

Work ==
    \/ HashLevel \/ HashReturn \/ Commit
    \/ Descend \/ SkipLeaf \/ StorePath \/ LoadPath \/ Backtrack \/ NextNode
    \/ Open

Next == Work \/ Stop

Spec == Init /\ [][Next]_vars

\* One program after the other, neither of them ever waits.
FairSpec == Spec /\ WF_vars(Work)

-----------------------------------------------------------------------------
Under(leaf, n) == leaf \div Pow[H - n[1]] = n[2]
Challenged     == {indices[n] : n \in 0..(W - 1)}
Sent           == pc = "sent" \/ mode = "toTree"

\* Type correctness; in particular the traversal never leaves the tree.
TypeOK ==
    /\ pc \in {"hash", "commit", "scan", "back", "sent", "done"}
    /\ mode \in {"toPath", "toTree"}
    /\ stree \in [Nodes -> Nodes \cup {Zero, Spent, Junk}]
    /\ top \in Nodes /\ lv \in 0..H
    /\ ret \in {"commit", "scan", "back"}
    /\ indices \in [0..(W - 1) -> Leaves]
    /\ h \in 0..H /\ i \in 0..Pow[h] /\ id \in 0..(W - 1)
    /\ pc \notin {"sent", "done"} => <<h, i>> \in Nodes
    /\ path \in Seq(Nodes \cup {Zero, Spent, Junk})
    /\ pos \in Nat

\* The path holds seeds of the fresh tree, and none from which the seed of a
\* challenged leaf could be derived.
NoLeak ==
    \A p \in 1..Len(path) :
        /\ path[p] \in Nodes
        /\ \A leaf \in Challenged : ~Under(leaf, path[p])

\* The finished path has a seed above every leaf that is not challenged.
PathCovers ==
    Sent => \A leaf \in Leaves \ Challenged :
                \E p \in 1..Len(path) : path[p] \in Nodes /\ Under(leaf, path[p])

\* The path never outgrows the room it has in the signature.
PathFits == Len(path) <= MaxPath

\* The path seedtree.py makes of a tree whose challenged leaves were deleted.
RefPath ==
    LET below[n \in Nodes] ==
            IF \E leaf \in Challenged : Under(leaf, n)
            THEN IF n[1] < H
                 THEN below[<<n[1] + 1, 2 * n[2]>>] \o below[<<n[1] + 1, 2 * n[2] + 1>>]
                 ELSE <<>>
            ELSE IF First(n[1], n[2]) < T THEN <<n>> ELSE <<>>
    IN  below[Root]

\* Signatures agree with the reference in their path, and the verifier takes
\* all of it.
PathIsReference ==
    /\ Sent => path = RefPath
    /\ pc = "done" => pos = Len(path)

\* Seen from the verifier's leaves: a hidden set is fixed, the other seeds
\* turn up until all are there.
Opened == {leaf \in Leaves : mode = "toTree" /\ stree[<<H, leaf>>] = <<H, leaf>>}
Hidden == IF pc = "commit" \/ (pc = "hash" /\ ret = "commit") THEN Leaves ELSE Challenged
SR == INSTANCE SeedReveal WITH Seeds <- Leaves, hidden <- Hidden, known <- Opened
ImplementsSeedReveal == SR!Spec
=============================================================================
