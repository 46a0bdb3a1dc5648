-------------------------------- MODULE Merkle --------------------------------
(***************************************************************************)
(* The tree of src/application/merkle.py as operators.  SHA-256 is taken   *)
(* to be injective: the digest of a pair is the pair itself, and a leaf    *)
(* digest is a tuple of length one, so that no leaf equals an inner node.  *)
(***************************************************************************)
EXTENDS Integers, Sequences

LeafNode(x) == <<x>>

\* _hash_pair
HashPair(l, r) == <<l, r>>

\* Mutants of Pad and HashUp.
PadWithFirst(level) == IF Len(level) % 2 = 1 THEN Append(level, level[1]) ELSE level
HashUpSwapped(level) ==
  [i \in 1..(Len(level) \div 2) |-> HashPair(level[2 * i], level[2 * i - 1])]

\* An odd level is completed by its last node.
Pad(level) == IF Len(level) % 2 = 1 THEN Append(level, level[Len(level)]) ELSE level

HashUp(level) ==
  [i \in 1..(Len(level) \div 2) |-> HashPair(level[2 * i - 1], level[2 * i])]

\* The loop of MerkleBatch.close: level after h rounds, unpadded; the same once it
\* is down to one node.
Rounds(leaves) ==
  LET level[h \in 0..Len(leaves)] ==
        IF h = 0 THEN leaves
        ELSE IF Len(level[h - 1]) > 1 THEN HashUp(Pad(level[h - 1])) ELSE level[h - 1]
  IN  level

\* The round in which the loop ends.
Top(leaves) ==
  CHOOSE h \in 0..Len(leaves) :
    Len(Rounds(leaves)[h]) = 1 /\ \A g \in 0..(h - 1) : Len(Rounds(leaves)[g]) > 1

\* MerkleBatch.close: the padded levels from the leaves upwards, then [root].
Levels(leaves) ==
  LET level == Rounds(leaves)
      top == Top(leaves)
  IN  [h \in 1..(top + 1) |-> IF h <= top THEN Pad(level[h - 1]) ELSE level[top]]

RootOf(levels) == levels[Len(levels)][1]

\* idx of MerkleBatch.proof_for at each of n levels, for leaf i counted from 1.
Indices(i, n) ==
  LET idx[h \in 0..n] == IF h = 0 THEN i - 1 ELSE idx[h - 1] \div 2 IN idx

\* Mutant: the sibling is always the right neighbour.
ProofForRightOnly(levels, i) ==
  [h \in 1..(Len(levels) - 1) |->
     LET idx == Indices(i, Len(levels))[h - 1] IN
       [sibling |-> levels[h][IF idx + 2 <= Len(levels[h]) THEN idx + 2 ELSE idx + 1],
        position |-> "RIGHT"]]

\* MerkleBatch.proof_for.
ProofFor(levels, i) ==
  [h \in 1..(Len(levels) - 1) |->
     LET idx == Indices(i, Len(levels))[h - 1]
         is_right == idx % 2 = 1
     IN  [sibling |-> levels[h][IF is_right THEN idx ELSE idx + 2],
          position |-> IF is_right THEN "LEFT" ELSE "RIGHT"]]

\* current of verify_inclusion_proof after each step of the proof.
Climb(leaf, proof) ==
  LET current[h \in 0..Len(proof)] ==
        IF h = 0 THEN leaf
        ELSE IF proof[h].position = "RIGHT"
               THEN HashPair(current[h - 1], proof[h].sibling)
               ELSE HashPair(proof[h].sibling, current[h - 1])
  IN  current

\* Mutant: an empty proof is accepted unseen.
VerifyUnlessEmpty(leaf, proof, root) ==
  proof = <<>> \/ root = Climb(leaf, proof)[Len(proof)]

\* verify_inclusion_proof
Verify(leaf, proof, root) == root = Climb(leaf, proof)[Len(proof)]
===============================================================================
