------------------------------ MODULE MerkleBatch ------------------------------
(***************************************************************************)
(* One batch of src/application/merkle.py from empty to closed, against    *)
(* reference definitions of the root.  Leaves are pairwise distinct, as    *)
(* the idempotency key in every leaf hash makes them.                      *)
(***************************************************************************)
EXTENDS Merkle

CONSTANTS LeafValue, MaxBatch    \* MaxBatch bounds the leaves of a batch

ASSUME MaxBatchAssumption == MaxBatch \in Nat \ {0}

VARIABLES leaves, levels         \* MerkleBatch.leaves and _levels

batchVars == <<leaves, levels>>

Closed == levels # <<>>

BatchInit == leaves = <<>> /\ levels = <<>>

AddLeaf(x) ==
  /\ ~Closed
  /\ Len(leaves) < MaxBatch
  /\ \A i \in DOMAIN leaves : leaves[i] # LeafNode(x)
  /\ leaves' = Append(leaves, LeafNode(x))
  /\ UNCHANGED levels

\* close() raises on an empty batch.
Close ==
  /\ ~Closed /\ leaves # <<>>
  /\ levels' = Levels(leaves)
  /\ UNCHANGED leaves

BatchNext == (\E x \in LeafValue : AddLeaf(x)) \/ Close

BatchSpec == BatchInit /\ [][BatchNext]_batchVars

-------------------------------------------------------------------------------
(* Reference: a tree of n leaves has the least height h with 2^h >= n.     *)
Powers(n) ==
  LET pow[h \in 0..n] == IF h = 0 THEN 1 ELSE 2 * pow[h - 1] IN pow

Height(n) ==
  CHOOSE h \in 0..n : Powers(n)[h] >= n /\ \A g \in 0..(h - 1) : Powers(n)[g] < n

\* A level of m nodes is hashed to (m + 1) / 2 nodes.
Widths(n, h) ==
  LET width[g \in 0..h] == IF g = 0 THEN n ELSE (width[g - 1] + 1) \div 2 IN width

\* A level from the level below it, nodes counted from 0: a missing right child is
\* its sibling.
LevelAbove(node, width) ==
  [k \in Nat |-> HashPair(node[2 * k], node[IF 2 * k + 1 < width THEN 2 * k + 1 ELSE 2 * k])]

Nodes(ls, h) ==
  LET node[g \in 0..h] ==
        IF g = 0 THEN [k \in Nat |-> ls[k + 1]]
        ELSE LevelAbove(node[g - 1], Widths(Len(ls), h)[g - 1])
  IN  node

(* The way down from a root to leaf k of a tree of height h: the child to  *)
(* take at depth d is the parity of the leaf's place at the level below.   *)
Side(k, h, d) == IF Indices(k, h + 1)[h - d] % 2 = 0 THEN 1 ELSE 2

Descent(root, k, h) ==
  LET node[d \in 0..h] == IF d = 0 THEN root ELSE node[d - 1][Side(k, h, d)] IN node

\* The n leaves below a root, left to right.
Unfold(root, n) == [k \in 1..n |-> Descent(root, k, Height(n))[Height(n)]]

-------------------------------------------------------------------------------
(* close() builds the tree of the reference definition, of minimal height. *)
RootMatchesReference ==
  Closed => LET h == Height(Len(leaves)) IN
              /\ Len(levels) = h + 1
              /\ RootOf(levels) = Nodes(leaves, h)[h][0]

(* I9: the proof of every leaf verifies offline against the root, at every *)
(* position of a full, odd or single-leaf batch.                           *)
EveryProofVerifies ==
  Closed => \A i \in DOMAIN leaves : Verify(leaves[i], ProofFor(levels, i), RootOf(levels))

(* A proof vouches for one leaf: it fails for every other digest, a leaf   *)
(* of the same batch or an unknown one.                                    *)
ProofBindsLeaf ==
  Closed => \A i \in DOMAIN leaves, x \in LeafValue :
    Verify(LeafNode(x), ProofFor(levels, i), RootOf(levels)) => LeafNode(x) = leaves[i]

(* The published pair (root, leaf_count) determines the batch: any edit,   *)
(* insertion, removal or reordering of its leaves changes the pair.        *)
RootDeterminesBatch == Closed => Unfold(RootOf(levels), Len(leaves)) = leaves
===============================================================================
