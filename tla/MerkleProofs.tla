----------------------------- MODULE MerkleProofs -----------------------------
(***************************************************************************)
(* What src/application/merkle.py computes, for batches of every size: the *)
(* rounds of close() end in one root, proof_for and verify_inclusion_proof *)
(* meet at that root, a proof binds its leaf, and root and leaf_count      *)
(* together determine the batch.  SHA-256 is injective by the abstraction  *)
(* of Merkle; nothing else is assumed.                                     *)
(***************************************************************************)
EXTENDS Merkle, WellFoundedInduction, TLAPS

-------------------------------------------------------------------------------
(* Induction over sets of naturals.                                        *)

(* A nonempty set of naturals has a least element.                         *)
LEMMA LeastNat ==
  ASSUME NEW T \in SUBSET Nat, T # {}
  PROVE  \E n \in T : \A m \in T : n <= m
<1>1. PICK n \in T : \A m \in T : ~(<<m, n>> \in OpToRel(<, Nat))
  BY WFMin, NatLessThanWellFounded
<1>2. \A m \in T : ~(m < n)
  BY <1>1 DEF OpToRel
<1> QED BY <1>2

(* A set that holds 0 and the successor of each of its members holds Nat.  *)
LEMMA SetInduction ==
  ASSUME NEW T \in SUBSET Nat, 0 \in T, \A n \in T : n + 1 \in T
  PROVE  \A n \in Nat : n \in T
<1> DEFINE U == Nat \ T
<1>1. SUFFICES ASSUME U # {} PROVE FALSE
  OBVIOUS
<1>2. PICK n \in U : \A m \in U : n <= m
  BY <1>1, LeastNat
<1>3. n \in Nat /\ n # 0 /\ n - 1 \in Nat /\ n - 1 \notin U
  BY <1>2
<1>4. (n - 1) + 1 \in T
  BY <1>3
<1> QED BY <1>3, <1>4

-------------------------------------------------------------------------------
(* Levels of a tree.                                                       *)

\* A level: a nonempty sequence of nodes.
IsLevel(s) == Len(s) \in Nat \ {0} /\ s = [i \in 1..Len(s) |-> s[i]]

\* One turn of the loop of close(), which stops at one node.
Round(level) == IF Len(level) > 1 THEN HashUp(Pad(level)) ELSE level

\* Node k of the level above.
Parent(level, k) == HashPair(Pad(level)[2 * k - 1], Pad(level)[2 * k])

(* Half of a natural, as idx //= 2 computes it.                            *)
LEMMA Halves ==
  ASSUME NEW i \in Nat
  PROVE  /\ i \div 2 \in Nat
         /\ i % 2 = 1 => i = 2 * (i \div 2) + 1
         /\ i % 2 # 1 => i = 2 * (i \div 2) /\ i = 2 * ((i + 1) \div 2)
         /\ i % 2 = 1 => i + 1 = 2 * ((i + 1) \div 2)
         /\ (i + 1) \div 2 \in Nat
         /\ i > 1 => (i + 1) \div 2 < i /\ (i + 1) \div 2 >= 1
         /\ \A n \in Nat : i < n => i \div 2 < (n + 1) \div 2
OBVIOUS

(* Padding keeps the nodes, repeats the last one on an odd level, and      *)
(* leaves an even number of them.                                          *)
LEMMA PadLevel ==
  ASSUME NEW s, IsLevel(s)
  PROVE  /\ IsLevel(Pad(s))
         /\ Len(Pad(s)) = 2 * ((Len(s) + 1) \div 2)
         /\ \A i \in 1..Len(s) : Pad(s)[i] = s[i]
         /\ Len(s) % 2 = 1 => Pad(s)[Len(s) + 1] = s[Len(s)]
<1> DEFINE n == Len(s)
<1>0. n \in Nat \ {0} /\ s = [i \in 1..n |-> s[i]]
  BY DEF IsLevel
<1>1. CASE n % 2 = 1
  <2> DEFINE p == Append(s, s[n])
  <2>1. Pad(s) = p
    BY <1>1 DEF Pad
  <2>2. /\ Len(p) = n + 1
        /\ p[n + 1] = s[n]
        /\ \A i \in 1..n : p[i] = s[i]
        /\ p = [i \in 1..(n + 1) |-> p[i]]
    BY <1>0
  <2>3. n + 1 = 2 * ((n + 1) \div 2)
    BY <1>0, <1>1
  <2> QED BY <1>0, <2>1, <2>2, <2>3 DEF IsLevel
<1>2. CASE n % 2 # 1
  <2>1. Pad(s) = s
    BY <1>2 DEF Pad
  <2>2. n = 2 * ((n + 1) \div 2)
    BY <1>0, <1>2, Halves
  <2> QED BY <1>0, <1>2, <2>1, <2>2 DEF IsLevel
<1> QED BY <1>1, <1>2

(* A round halves a level, rounding up: node k of the next level is the    *)
(* hash of nodes 2k-1 and 2k of the padded one.                            *)
LEMMA RoundLevel ==
  ASSUME NEW s, IsLevel(s)
  PROVE  /\ IsLevel(Round(s))
         /\ Len(s) = 1 => Round(s) = s
         /\ Len(s) > 1 =>
              /\ Len(Round(s)) = (Len(s) + 1) \div 2
              /\ \A k \in 1..Len(Round(s)) : Round(s)[k] = Parent(s, k)
<1>0. Len(s) \in Nat \ {0}
  BY DEF IsLevel
<1>1. CASE Len(s) = 1
  BY <1>1 DEF Round
<1>2. CASE Len(s) > 1
  <2>1. PICK m : m = (Len(s) + 1) \div 2
    OBVIOUS
  <2>2. m \in Nat \ {0} /\ (2 * m) \div 2 = m
    BY <1>0, <1>2, <2>1
  <2>3. Round(s) = [i \in 1..m |-> Parent(s, i)]
    BY <1>2, <2>1, <2>2, PadLevel DEF Round, HashUp, Parent
  <2>4. Len(Round(s)) = m
    BY <2>2, <2>3
  <2>5. \A k \in 1..m : Round(s)[k] = Parent(s, k)
    BY <2>3
  <2>6. Round(s) = [i \in 1..m |-> Round(s)[i]]
    BY <2>3
  <2>7. IsLevel(Round(s))
    BY <2>2, <2>4, <2>6 DEF IsLevel
  <2>8. Len(s) # 1 /\ Len(Round(s)) = (Len(s) + 1) \div 2
    <3>1. \A n : n > 1 => n # 1
      OBVIOUS
    <3> QED BY <1>2, <2>1, <2>4, <3>1
  <2>9. \A k \in 1..Len(Round(s)) : Round(s)[k] = Parent(s, k)
    BY <2>4, <2>5
  <2> QED BY <2>7, <2>8, <2>9
<1>3. \A n \in Nat \ {0} : n = 1 \/ n > 1
  OBVIOUS
<1> QED BY <1>0, <1>1, <1>2, <1>3

-------------------------------------------------------------------------------
(* The loops are well defined: each recursive function satisfies its       *)
(* equation.                                                               *)

(* The loop of close().                                                    *)
LEMMA RoundsDef ==
  ASSUME NEW leaves, Len(leaves) \in Nat
  PROVE  /\ Rounds(leaves)[0] = leaves
         /\ \A h \in 1..Len(leaves) :
              Rounds(leaves)[h] = Round(Rounds(leaves)[h - 1])
<1> DEFINE Eq(f, n) == f = [h \in 0..n |-> IF h = 0 THEN leaves ELSE Round(f[h - 1])]
           T == {n \in Nat : \E f : Eq(f, n)}
<1>1. 0 \in T
  <2> DEFINE f == [h \in 0..0 |-> leaves]
  <2>1. Eq(f, 0)
    OBVIOUS
  <2> QED BY <2>1
<1>2. ASSUME NEW n \in T PROVE n + 1 \in T
  <2>1. PICK f : Eq(f, n)
    BY <1>2
  <2> DEFINE g == [h \in 0..(n + 1) |-> IF h <= n THEN f[h] ELSE Round(f[n])]
  <2>2. n \in Nat
    BY <1>2
  <2>3. ASSUME NEW h \in 0..(n + 1)
        PROVE  g[h] = IF h = 0 THEN leaves ELSE Round(g[h - 1])
    <3>1. CASE h = 0
      BY <2>1, <2>2, <3>1
    <3>2. CASE h > 0 /\ h <= n
      <4>1. f[h] = Round(f[h - 1])
        BY <2>1, <2>2, <3>2
      <4>2. g[h] = f[h] /\ g[h - 1] = f[h - 1]
        BY <2>2, <3>2
      <4> QED BY <3>2, <4>1, <4>2
    <3>3. CASE h = n + 1
      <4>1. g[h] = Round(f[n]) /\ g[h - 1] = f[n]
        BY <2>2, <3>3
      <4> QED BY <2>2, <3>3, <4>1
    <3> QED BY <2>2, <3>1, <3>2, <3>3
  <2>4. Eq(g, n + 1)
    BY <2>3
  <2> HIDE DEF Eq
  <2> QED BY <2>2, <2>4
<1>3. Len(leaves) \in T
  BY <1>1, <1>2, SetInduction
<1>4. \E f : Eq(f, Len(leaves))
  BY <1>3
<1>5. Rounds(leaves) = CHOOSE f : Eq(f, Len(leaves))
  BY DEF Rounds, Round
<1>6. Eq(Rounds(leaves), Len(leaves))
  BY <1>4, <1>5
<1> QED BY <1>6

(* The indices of proof_for.                                               *)
LEMMA IndicesDef ==
  ASSUME NEW i, NEW n \in Nat
  PROVE  /\ Indices(i, n)[0] = i - 1
         /\ \A h \in 1..n : Indices(i, n)[h] = Indices(i, n)[h - 1] \div 2
<1> DEFINE Eq(f, m) == f = [h \in 0..m |-> IF h = 0 THEN i - 1 ELSE f[h - 1] \div 2]
           T == {m \in Nat : \E f : Eq(f, m)}
<1>1. 0 \in T
  <2> DEFINE f == [h \in 0..0 |-> i - 1]
  <2>1. Eq(f, 0)
    OBVIOUS
  <2> QED BY <2>1
<1>2. ASSUME NEW m \in T PROVE m + 1 \in T
  <2>1. PICK f : Eq(f, m)
    BY <1>2
  <2> DEFINE g == [h \in 0..(m + 1) |-> IF h <= m THEN f[h] ELSE f[m] \div 2]
  <2>2. m \in Nat
    BY <1>2
  <2>3. ASSUME NEW h \in 0..(m + 1)
        PROVE  g[h] = IF h = 0 THEN i - 1 ELSE g[h - 1] \div 2
    <3>1. CASE h = 0
      BY <2>1, <2>2, <3>1
    <3>2. CASE h > 0 /\ h <= m
      <4>1. f[h] = f[h - 1] \div 2
        BY <2>1, <2>2, <3>2
      <4>2. g[h] = f[h] /\ g[h - 1] = f[h - 1]
        BY <2>2, <3>2
      <4> QED BY <3>2, <4>1, <4>2
    <3>3. CASE h = m + 1
      <4>1. g[h] = f[m] \div 2 /\ g[h - 1] = f[m]
        BY <2>2, <3>3
      <4> QED BY <2>2, <3>3, <4>1
    <3> QED BY <2>2, <3>1, <3>2, <3>3
  <2>4. Eq(g, m + 1)
    BY <2>3
  <2> HIDE DEF Eq
  <2> QED BY <2>2, <2>4
<1>3. n \in T
  BY <1>1, <1>2, SetInduction
<1>4. \E f : Eq(f, n)
  BY <1>3
<1>5. Indices(i, n) = CHOOSE f : Eq(f, n)
  BY DEF Indices
<1>6. Eq(Indices(i, n), n)
  BY <1>4, <1>5
<1> QED BY <1>6

\* One step of verify_inclusion_proof.
Combine(current, step) ==
  IF step.position = "RIGHT" THEN HashPair(current, step.sibling)
                             ELSE HashPair(step.sibling, current)

(* The loop of verify_inclusion_proof.                                     *)
LEMMA ClimbDef ==
  ASSUME NEW leaf, NEW proof, Len(proof) \in Nat
  PROVE  /\ Climb(leaf, proof)[0] = leaf
         /\ \A h \in 1..Len(proof) :
              Climb(leaf, proof)[h] = Combine(Climb(leaf, proof)[h - 1], proof[h])
<1> DEFINE Eq(f, m) == f = [h \in 0..m |-> IF h = 0 THEN leaf ELSE Combine(f[h - 1], proof[h])]
           T == {m \in Nat : \E f : Eq(f, m)}
<1>1. 0 \in T
  <2> DEFINE f == [h \in 0..0 |-> leaf]
  <2>1. Eq(f, 0)
    OBVIOUS
  <2> QED BY <2>1
<1>2. ASSUME NEW m \in T PROVE m + 1 \in T
  <2>1. PICK f : Eq(f, m)
    BY <1>2
  <2> DEFINE g == [h \in 0..(m + 1) |-> IF h <= m THEN f[h] ELSE Combine(f[m], proof[m + 1])]
  <2>2. m \in Nat
    BY <1>2
  <2>3. ASSUME NEW h \in 0..(m + 1)
        PROVE  g[h] = IF h = 0 THEN leaf ELSE Combine(g[h - 1], proof[h])
    <3>1. CASE h = 0
      BY <2>1, <2>2, <3>1
    <3>2. CASE h > 0 /\ h <= m
      <4>1. f[h] = Combine(f[h - 1], proof[h])
        BY <2>1, <2>2, <3>2
      <4>2. g[h] = f[h] /\ g[h - 1] = f[h - 1]
        BY <2>2, <3>2
      <4> QED BY <3>2, <4>1, <4>2
    <3>3. CASE h = m + 1
      <4>1. g[h] = Combine(f[m], proof[m + 1]) /\ g[h - 1] = f[m]
        BY <2>2, <3>3
      <4> QED BY <2>2, <3>3, <4>1
    <3> QED BY <2>2, <3>1, <3>2, <3>3
  <2>4. Eq(g, m + 1)
    BY <2>3
  <2> HIDE DEF Eq
  <2> QED BY <2>2, <2>4
<1>3. Len(proof) \in T
  BY <1>1, <1>2, SetInduction
<1>4. \E f : Eq(f, Len(proof))
  BY <1>3
<1>5. Climb(leaf, proof) = CHOOSE f : Eq(f, Len(proof))
  BY DEF Climb, Combine
<1>6. Eq(Climb(leaf, proof), Len(proof))
  BY <1>4, <1>5
<1> QED BY <1>6

-------------------------------------------------------------------------------
(* The shape of the tree.                                                  *)

(* Every round of close() works on a level, and the level shrinks until it *)
(* is a single node.                                                       *)
LEMMA RoundsShrink ==
  ASSUME NEW leaves, IsLevel(leaves), NEW h \in 0..Len(leaves)
  PROVE  /\ IsLevel(Rounds(leaves)[h])
         /\ \/ Len(Rounds(leaves)[h]) = 1
            \/ Len(Rounds(leaves)[h]) + h <= Len(leaves)
<1> DEFINE r == Rounds(leaves)
           N == Len(leaves)
           P(k) == IsLevel(r[k]) /\ (Len(r[k]) = 1 \/ Len(r[k]) + k <= N)
<1>0. N \in Nat \ {0}
  BY DEF IsLevel
<1> PICK T \in SUBSET Nat : \A k \in Nat : k \in T <=> (k <= N => P(k))
  <2> DEFINE U == {k \in Nat : k <= N => P(k)}
  <2>1. U \in SUBSET Nat /\ \A k \in Nat : k \in U <=> (k <= N => P(k))
    OBVIOUS
  <2> QED BY <2>1
<1>1. 0 \in T
  <2>1. r[0] = leaves
    BY <1>0, RoundsDef
  <2> QED BY <1>0, <2>1
<1>2. ASSUME NEW k \in T PROVE k + 1 \in T
  <2>0. k \in Nat /\ k + 1 \in Nat
    BY <1>2
  <2>1. SUFFICES ASSUME k + 1 <= N PROVE P(k + 1)
    BY <2>0
  <2>2. k \in Nat /\ k + 1 \in 1..N /\ P(k)
    BY <1>0, <1>2, <2>1
  <2>3. r[k + 1] = Round(r[k])
    <3>1. r[k + 1] = Round(r[(k + 1) - 1])
      BY <1>0, <2>2, RoundsDef
    <3>2. (k + 1) - 1 = k
      BY <2>2
    <3> QED BY <3>1, <3>2
  <2>4. IsLevel(r[k + 1])
    BY <2>2, <2>3, RoundLevel
  <2>5. Len(r[k]) \in Nat \ {0}
    BY <2>2 DEF IsLevel
  <2>6. CASE Len(r[k]) = 1
    BY <2>2, <2>3, <2>4, <2>6, RoundLevel
  <2>7. CASE Len(r[k]) > 1
    <3>1. PICK l \in Nat : l = Len(r[k])
      BY <2>5
    <3>2. l > 1 /\ l + k <= N
      <4>1. \A n : n > 1 => n # 1
        OBVIOUS
      <4> QED BY <2>2, <2>7, <3>1, <4>1
    <3>3. Len(r[k + 1]) = (l + 1) \div 2
      BY <2>2, <2>3, <2>7, <3>1, RoundLevel
    <3>4. (l + 1) \div 2 + (k + 1) <= N
      BY <1>0, <2>2, <3>2, Halves
    <3> QED BY <2>4, <3>3, <3>4
  <2>8. \A n \in Nat \ {0} : n = 1 \/ n > 1
    OBVIOUS
  <2> QED BY <2>5, <2>6, <2>7, <2>8
<1>3. h \in Nat /\ h <= N
  BY <1>0
<1>4. h \in T
  BY <1>1, <1>2, <1>3, SetInduction
<1> QED BY <1>3, <1>4

(* The loop of close() ends after Top(leaves) rounds, with one node.       *)
LEMMA TopRound ==
  ASSUME NEW leaves, IsLevel(leaves)
  PROVE  /\ Top(leaves) \in 0..Len(leaves)
         /\ Len(Rounds(leaves)[Top(leaves)]) = 1
         /\ \A g \in 0..(Top(leaves) - 1) : Len(Rounds(leaves)[g]) > 1
<1> DEFINE r == Rounds(leaves)
           N == Len(leaves)
           S == {h \in 0..N : Len(r[h]) = 1}
<1>0. N \in Nat \ {0}
  BY DEF IsLevel
<1>1. N \in S
  <2>1. N \in 0..N
    BY <1>0
  <2>2. Len(r[N]) = 1 \/ Len(r[N]) + N <= N
    BY <2>1, RoundsShrink
  <2>3. Len(r[N]) \in Nat \ {0}
    BY <2>1, RoundsShrink DEF IsLevel
  <2>4. \A n \in Nat \ {0} : ~(n + N <= N)
    BY <1>0
  <2> QED BY <2>1, <2>2, <2>3, <2>4
<1>2. PICK h \in S : \A m \in S : h <= m
  <2>1. PICK R : R = S
    OBVIOUS
  <2>2. R \in SUBSET Nat /\ R # {}
    BY <1>0, <1>1, <2>1
  <2>3. \E n \in R : \A m \in R : n <= m
    BY <2>2, LeastNat
  <2> QED BY <2>1, <2>3
<1>3. ASSUME NEW g \in 0..(h - 1) PROVE Len(r[g]) > 1
  <2>1. g \in 0..N /\ g \notin S
    BY <1>0, <1>2
  <2>2. Len(r[g]) \in Nat \ {0} /\ Len(r[g]) # 1
    BY <2>1, RoundsShrink DEF IsLevel
  <2>3. \A n \in Nat \ {0} : n # 1 => n > 1
    OBVIOUS
  <2> QED BY <2>2, <2>3
<1>4. /\ h \in 0..N
      /\ Len(r[h]) = 1
      /\ \A g \in 0..(h - 1) : Len(r[g]) > 1
  BY <1>2, <1>3
<1> QED BY <1>4 DEF Top

(* Below the top, a level is hashed into the next one.                     *)
LEMMA RoundBelowTop ==
  ASSUME NEW leaves, IsLevel(leaves), NEW h \in 0..(Top(leaves) - 1)
  PROVE  /\ h \in Nat /\ h \in 0..Len(leaves) /\ h + 1 \in 1..Len(leaves)
         /\ IsLevel(Rounds(leaves)[h]) /\ Len(Rounds(leaves)[h]) > 1
         /\ Rounds(leaves)[h + 1] = Round(Rounds(leaves)[h])
         /\ Len(Rounds(leaves)[h + 1]) = (Len(Rounds(leaves)[h]) + 1) \div 2
         /\ \A k \in 1..Len(Rounds(leaves)[h + 1]) :
              Rounds(leaves)[h + 1][k] = Parent(Rounds(leaves)[h], k)
<1>0. Len(leaves) \in Nat
  BY DEF IsLevel
<1>1. h \in Nat /\ h \in 0..Len(leaves) /\ h + 1 \in 1..Len(leaves) /\ (h + 1) - 1 = h
  BY <1>0, TopRound
<1>2. IsLevel(Rounds(leaves)[h])
  BY <1>1, RoundsShrink
<1>3. Len(Rounds(leaves)[h]) > 1
  BY TopRound
<1>4. Rounds(leaves)[h + 1] = Round(Rounds(leaves)[(h + 1) - 1])
  BY <1>0, <1>1, RoundsDef
<1>5. Rounds(leaves)[h + 1] = Round(Rounds(leaves)[h])
  BY <1>1, <1>4
<1>6. PICK s : s = Rounds(leaves)[h]
  OBVIOUS
<1>7. /\ Len(Round(s)) = (Len(s) + 1) \div 2
      /\ \A k \in 1..Len(Round(s)) : Round(s)[k] = Parent(s, k)
  BY <1>2, <1>3, <1>6, RoundLevel
<1> QED BY <1>1, <1>2, <1>3, <1>5, <1>6, <1>7

(* _levels of a closed batch: the padded rounds and, last, the root.       *)
LEMMA LevelsShape ==
  ASSUME NEW leaves, IsLevel(leaves)
  PROVE  /\ Top(leaves) \in Nat
         /\ Len(Levels(leaves)) = Top(leaves) + 1
         /\ Levels(leaves) # <<>>
         /\ \A h \in 0..(Top(leaves) - 1) :
              Levels(leaves)[h + 1] = Pad(Rounds(leaves)[h])
         /\ RootOf(Levels(leaves)) = Rounds(leaves)[Top(leaves)][1]
<1> DEFINE r == Rounds(leaves)
<1>1. PICK t : t = Top(leaves)
  OBVIOUS
<1>2. t \in Nat
  <2>1. Len(leaves) \in Nat
    BY DEF IsLevel
  <2> QED BY <1>1, <2>1, TopRound
<1>3. Levels(leaves) = [h \in 1..(t + 1) |-> IF h <= t THEN Pad(r[h - 1]) ELSE r[t]]
  BY <1>1 DEF Levels
<1>4. Len(Levels(leaves)) = t + 1 /\ t + 1 \in 1..(t + 1)
  BY <1>2, <1>3
<1>5. Levels(leaves)[t + 1] = r[t]
  BY <1>2, <1>3
<1>6. ASSUME NEW h \in 0..(t - 1) PROVE Levels(leaves)[h + 1] = Pad(r[h])
  <2>1. h + 1 \in 1..(t + 1) /\ h + 1 <= t /\ (h + 1) - 1 = h
    BY <1>2
  <2>2. Levels(leaves)[h + 1] = Pad(r[(h + 1) - 1])
    BY <1>3, <2>1
  <2> QED BY <2>1, <2>2
<1>7. RootOf(Levels(leaves)) = r[t][1]
  BY <1>4, <1>5 DEF RootOf
<1>8. Levels(leaves) # <<>>
  <2>1. 1 \in DOMAIN Levels(leaves)
    BY <1>2, <1>3
  <2> QED BY <2>1
<1> QED BY <1>1, <1>2, <1>4, <1>6, <1>7, <1>8

-------------------------------------------------------------------------------
(* proof_for and verify_inclusion_proof.                                   *)

\* The step proof_for records at a padded level for index idx.
ProofStep(level, idx) ==
  LET is_right == idx % 2 = 1
  IN  [sibling |-> level[IF is_right THEN idx ELSE idx + 2],
       position |-> IF is_right THEN "LEFT" ELSE "RIGHT"]

(* The recorded sibling takes a node to its parent, at either side of it   *)
(* and next to the padding.                                                *)
LEMMA StepReachesParent ==
  ASSUME NEW s, IsLevel(s), NEW idx \in Nat, idx < Len(s)
  PROVE  Combine(s[idx + 1], ProofStep(Pad(s), idx)) = Parent(s, idx \div 2 + 1)
<1>0. Len(s) \in Nat
  BY DEF IsLevel
<1>1. Pad(s)[idx + 1] = s[idx + 1]
  <2>1. idx + 1 \in 1..Len(s)
    BY <1>0
  <2> QED BY <2>1, PadLevel
<1>2. PICK q \in Nat : q = idx \div 2
  BY Halves
<1>3. CASE idx % 2 = 1
  <2>1. idx = 2 * q + 1
    BY <1>2, <1>3, Halves
  <2>2. 2 * (q + 1) - 1 = idx /\ 2 * (q + 1) = idx + 1
    BY <2>1
  <2>3. Parent(s, q + 1) = HashPair(Pad(s)[idx], s[idx + 1])
    BY <1>1, <2>2 DEF Parent
  <2>4. ProofStep(Pad(s), idx) = [sibling |-> Pad(s)[idx], position |-> "LEFT"]
    BY <1>3 DEF ProofStep
  <2> QED BY <1>2, <2>3, <2>4 DEF Combine
<1>4. CASE idx % 2 # 1
  <2>1. idx = 2 * q
    BY <1>2, <1>4, Halves
  <2>2. 2 * (q + 1) - 1 = idx + 1 /\ 2 * (q + 1) = idx + 2
    BY <2>1
  <2>3. Parent(s, q + 1) = HashPair(s[idx + 1], Pad(s)[idx + 2])
    BY <1>1, <2>2 DEF Parent
  <2>4. ProofStep(Pad(s), idx) = [sibling |-> Pad(s)[idx + 2], position |-> "RIGHT"]
    BY <1>4 DEF ProofStep
  <2> QED BY <1>2, <2>3, <2>4 DEF Combine
<1> QED BY <1>3, <1>4

(* A proof has one step per level below the root.                          *)
LEMMA ProofShape ==
  ASSUME NEW leaves, IsLevel(leaves), NEW i
  PROVE  /\ Len(ProofFor(Levels(leaves), i)) = Top(leaves)
         /\ \A h \in 0..(Top(leaves) - 1) :
              ProofFor(Levels(leaves), i)[h + 1]
                = ProofStep(Pad(Rounds(leaves)[h]), Indices(i, Top(leaves) + 1)[h])
<1>1. PICK t \in Nat : t = Top(leaves)
  BY LevelsShape
<1>2. PICK L : L = Levels(leaves)
  OBVIOUS
<1>3. Len(L) = t + 1 /\ Len(L) - 1 = t
  BY <1>1, <1>2, LevelsShape
<1>4. ProofFor(L, i) = [h \in 1..t |-> ProofStep(L[h], Indices(i, t + 1)[h - 1])]
  BY <1>3 DEF ProofFor, ProofStep
<1>5. Len(ProofFor(L, i)) = t
  BY <1>4
<1>6. ASSUME NEW h \in 0..(t - 1)
      PROVE  ProofFor(L, i)[h + 1] = ProofStep(Pad(Rounds(leaves)[h]), Indices(i, t + 1)[h])
  <2>1. h + 1 \in 1..t /\ (h + 1) - 1 = h
    OBVIOUS
  <2>2. L[h + 1] = Pad(Rounds(leaves)[h])
    BY <1>1, <1>2, LevelsShape
  <2>3. ProofFor(L, i)[h + 1] = ProofStep(L[h + 1], Indices(i, t + 1)[(h + 1) - 1])
    BY <1>4, <2>1
  <2> QED BY <2>1, <2>2, <2>3
<1> QED BY <1>1, <1>2, <1>5, <1>6

(* At every level idx is the place of an ancestor of the leaf, and the     *)
(* digest that verify_inclusion_proof has computed is that ancestor.       *)
LEMMA ClimbFollowsTree ==
  ASSUME NEW leaves, IsLevel(leaves), NEW i \in 1..Len(leaves), NEW h \in 0..Top(leaves)
  PROVE  LET idx == Indices(i, Top(leaves) + 1)[h]
             node == Climb(leaves[i], ProofFor(Levels(leaves), i))[h]
         IN  /\ idx \in Nat
             /\ idx < Len(Rounds(leaves)[h])
             /\ node = Rounds(leaves)[h][idx + 1]
<1> DEFINE r == Rounds(leaves)
           idx == Indices(i, Top(leaves) + 1)
           proof == ProofFor(Levels(leaves), i)
           node == Climb(leaves[i], proof)
           P(k) == idx[k] \in Nat /\ idx[k] < Len(r[k]) /\ node[k] = r[k][idx[k] + 1]
<1>1. PICK t \in Nat : t = Top(leaves)
  BY LevelsShape
<1>2. Len(leaves) \in Nat \ {0}
  BY DEF IsLevel
<1>3. Len(proof) = t
  BY <1>1, ProofShape
<1> PICK T \in SUBSET Nat : \A k \in Nat : k \in T <=> (k <= t => P(k))
  <2> DEFINE U == {k \in Nat : k <= t => P(k)}
  <2>1. U \in SUBSET Nat /\ \A k \in Nat : k \in U <=> (k <= t => P(k))
    OBVIOUS
  <2> QED BY <2>1
<1>4. 0 \in T
  <2>1. r[0] = leaves
    BY <1>2, RoundsDef
  <2>2. idx[0] = i - 1
    BY <1>1, IndicesDef
  <2>3. node[0] = leaves[i]
    BY <1>3, ClimbDef
  <2>4. i - 1 \in Nat /\ i - 1 < Len(leaves) /\ (i - 1) + 1 = i
    BY <1>2
  <2>5. P(0)
    BY <2>1, <2>2, <2>3, <2>4
  <2> QED BY <2>5
<1>5. ASSUME NEW k \in T PROVE k + 1 \in T
  <2>0. k \in Nat /\ k + 1 \in Nat
    BY <1>5
  <2>1. SUFFICES ASSUME k + 1 <= t PROVE P(k + 1)
    BY <2>0
  <2>2. k <= t /\ k \in 0..(t - 1) /\ k + 1 \in 1..t /\ k + 1 \in 1..(t + 1) /\ (k + 1) - 1 = k
    BY <2>0, <2>1
  <2>3. P(k)
    BY <1>5, <2>0, <2>2
  <2>4. PICK j \in Nat : j = idx[k]
    BY <2>3
  <2>5. PICK s : s = r[k]
    OBVIOUS
  <2>6. /\ IsLevel(s)
        /\ Len(r[k + 1]) = (Len(s) + 1) \div 2
        /\ \A m \in 1..Len(r[k + 1]) : r[k + 1][m] = Parent(s, m)
    <3>1. k \in 0..(Top(leaves) - 1)
      BY <1>1, <2>2
    <3>2. /\ IsLevel(r[k])
          /\ Len(r[k + 1]) = (Len(r[k]) + 1) \div 2
          /\ \A m \in 1..Len(r[k + 1]) : r[k + 1][m] = Parent(r[k], m)
      BY <3>1, RoundBelowTop, Zenon
    <3> QED BY <2>5, <3>2
  <2>7. PICK n \in Nat : n = Len(s)
    BY <2>6 DEF IsLevel
  <2>8. j < n /\ node[k] = s[j + 1]
    BY <2>3, <2>4, <2>5, <2>7
  <2>9. idx[k + 1] = j \div 2
    <3>1. Top(leaves) + 1 \in Nat /\ k + 1 \in 1..(Top(leaves) + 1)
      BY <1>1, <2>2
    <3>2. \A g \in 1..(Top(leaves) + 1) : idx[g] = idx[g - 1] \div 2
      BY <3>1, IndicesDef
    <3>4. idx[k + 1] = idx[(k + 1) - 1] \div 2
      BY <3>1, <3>2, Zenon
    <3>3. idx[(k + 1) - 1] = j
      BY <2>2, <2>4
    <3> QED BY <3>3, <3>4
  <2>10. j \div 2 \in Nat /\ j \div 2 < (n + 1) \div 2 /\ (n + 1) \div 2 \in Nat
    BY <2>8, Halves
  <2>11. node[k + 1] = Combine(node[k], proof[k + 1])
    <3>1. node[k + 1] = Combine(node[(k + 1) - 1], proof[k + 1])
      BY <1>3, <2>2, ClimbDef
    <3> QED BY <2>2, <3>1
  <2>12. proof[k + 1] = ProofStep(Pad(s), j)
    BY <1>1, <2>2, <2>4, <2>5, ProofShape
  <2>13. node[k + 1] = Parent(s, j \div 2 + 1)
    <3>1. j < Len(s)
      BY <2>7, <2>8
    <3>2. Combine(s[j + 1], ProofStep(Pad(s), j)) = Parent(s, j \div 2 + 1)
      BY <2>6, <3>1, StepReachesParent, Zenon
    <3> QED BY <2>8, <2>11, <2>12, <3>2, Zenon
  <2>14. j \div 2 + 1 \in 1..((n + 1) \div 2)
    BY <2>10
  <2>15. r[k + 1][j \div 2 + 1] = Parent(s, j \div 2 + 1)
    BY <2>6, <2>7, <2>14
  <2> QED BY <2>6, <2>7, <2>9, <2>10, <2>13, <2>15
<1>6. h \in Nat /\ h <= t
  BY <1>1
<1>7. h \in T
  BY <1>4, <1>5, <1>6, SetInduction
<1> QED BY <1>6, <1>7

(* I9, for a batch of any size: the proof that proof_for returns for a     *)
(* leaf is accepted by verify_inclusion_proof against the root of close(). *)
THEOREM ProofVerifies ==
  ASSUME NEW leaves, IsLevel(leaves), NEW i \in 1..Len(leaves)
  PROVE  Verify(leaves[i], ProofFor(Levels(leaves), i), RootOf(Levels(leaves)))
<1>1. PICK t \in Nat : t = Top(leaves)
  BY LevelsShape
<1>2. PICK n : n = Indices(i, t + 1)[t]
  OBVIOUS
<1>3. PICK s : s = Rounds(leaves)[t]
  OBVIOUS
<1>4. t \in 0..t /\ Len(s) = 1
  BY <1>1, <1>3, TopRound
<1>5. n \in Nat /\ n < Len(s) /\ Climb(leaves[i], ProofFor(Levels(leaves), i))[t] = s[n + 1]
  BY <1>1, <1>2, <1>3, <1>4, ClimbFollowsTree
<1>6. n + 1 = 1
  BY <1>4, <1>5
<1>7. RootOf(Levels(leaves)) = s[1]
  BY <1>1, <1>3, LevelsShape
<1>8. Len(ProofFor(Levels(leaves), i)) = t
  BY <1>1, ProofShape
<1> QED BY <1>5, <1>6, <1>7, <1>8 DEF Verify

(* A proof that verifies against a root binds its leaf: it verifies for no *)
(* other digest, whoever made the proof.                                   *)
THEOREM ProofBinds ==
  ASSUME NEW proof, Len(proof) \in Nat, NEW root, NEW a, NEW b,
         Verify(a, proof, root), Verify(b, proof, root)
  PROVE  a = b
<1> DEFINE x == Climb(a, proof)
           y == Climb(b, proof)
<1>1. PICK n \in Nat : n = Len(proof)
  OBVIOUS
<1> DEFINE T == {k \in Nat : k <= n => x[n - k] = y[n - k]}
<1>2. 0 \in T
  <2>1. x[Len(proof)] = y[Len(proof)]
    BY Zenon DEF Verify
  <2>2. n - 0 = n
    OBVIOUS
  <2> QED BY <1>1, <2>1, <2>2
<1>3. ASSUME NEW k \in T PROVE k + 1 \in T
  <2>1. SUFFICES ASSUME k + 1 <= n PROVE x[n - (k + 1)] = y[n - (k + 1)]
    BY <1>3
  <2>2. PICK m \in 1..n : m = n - k
    BY <1>3, <2>1
  <2>3. x[m] = y[m] /\ m - 1 = n - (k + 1)
    BY <1>3, <2>1, <2>2
  <2>4. x[m] = Combine(x[m - 1], proof[m]) /\ y[m] = Combine(y[m - 1], proof[m])
    BY <1>1, ClimbDef
  <2>5. x[m - 1] = y[m - 1]
    BY <2>3, <2>4 DEF Combine, HashPair
  <2> QED BY <2>3, <2>5
<1>4. n \in T
  BY <1>2, <1>3, SetInduction
<1>5. n - n = 0
  OBVIOUS
<1>6. x[0] = y[0]
  BY <1>4, <1>5
<1> QED BY <1>6, ClimbDef

-------------------------------------------------------------------------------
(* The root commits to the batch.                                          *)

(* A level of more than one node can be read back from the next one when   *)
(* its length is known: the length says whether the last node is padding.  *)
LEMMA RoundInjective ==
  ASSUME NEW s, IsLevel(s), NEW u, IsLevel(u), Len(s) = Len(u), Len(s) > 1,
         Round(s) = Round(u)
  PROVE  s = u
<1>1. PICK n \in Nat : n = Len(s)
  BY DEF IsLevel
<1>2. Len(u) = n /\ n > 1
  BY <1>1
<1>3. PICK m \in Nat : m = (n + 1) \div 2
  BY Halves
<1>4. /\ Len(Round(s)) = m
      /\ \A k \in 1..m : Round(s)[k] = Parent(s, k)
      /\ \A k \in 1..m : Round(u)[k] = Parent(u, k)
  BY <1>1, <1>2, <1>3, RoundLevel
<1>5. ASSUME NEW i \in 1..n PROVE s[i] = u[i]
  <2>1. PICK k \in 1..m : i = 2 * k - 1 \/ i = 2 * k
    <3>1. (i + 1) \div 2 \in 1..m /\ (i = 2 * ((i + 1) \div 2) - 1 \/ i = 2 * ((i + 1) \div 2))
      BY <1>3
    <3> QED BY <3>1
  <2>2. Parent(s, k) = Parent(u, k)
    BY <1>4
  <2>3. Pad(s)[2 * k - 1] = Pad(u)[2 * k - 1] /\ Pad(s)[2 * k] = Pad(u)[2 * k]
    BY <2>2, Zenon DEF Parent, HashPair
  <2>4. Pad(s)[i] = Pad(u)[i]
    BY <2>1, <2>3
  <2>5. Pad(s)[i] = s[i] /\ Pad(u)[i] = u[i]
    BY <1>1, <1>2, PadLevel
  <2> QED BY <2>4, <2>5
<1>6. s = [i \in 1..n |-> s[i]] /\ u = [i \in 1..n |-> u[i]]
  BY <1>1, <1>2 DEF IsLevel
<1> QED BY <1>5, <1>6

(* Batches of one size go through rounds of the same sizes.                *)
LEMMA SameShape ==
  ASSUME NEW a, IsLevel(a), NEW b, IsLevel(b), Len(a) = Len(b)
  PROVE  /\ \A h \in 0..Len(a) : Len(Rounds(a)[h]) = Len(Rounds(b)[h])
         /\ Top(a) = Top(b)
<1> DEFINE x == Rounds(a)
           y == Rounds(b)
<1>1. PICK N \in Nat : N = Len(a) /\ N = Len(b)
  BY DEF IsLevel
<1> PICK T \in SUBSET Nat : \A k \in Nat : k \in T <=> (k <= N => Len(x[k]) = Len(y[k]))
  <2> DEFINE U == {k \in Nat : k <= N => Len(x[k]) = Len(y[k])}
  <2>1. U \in SUBSET Nat /\ \A k \in Nat : k \in U <=> (k <= N => Len(x[k]) = Len(y[k]))
    OBVIOUS
  <2> QED BY <2>1
<1>2. 0 \in T
  <2>1. x[0] = a /\ y[0] = b
    BY <1>1, RoundsDef
  <2> QED BY <2>1
<1>3. ASSUME NEW k \in T PROVE k + 1 \in T
  <2>0. k \in Nat /\ k + 1 \in Nat
    BY <1>3
  <2>1. SUFFICES ASSUME k + 1 <= N PROVE Len(x[k + 1]) = Len(y[k + 1])
    BY <2>0
  <2>2. k <= N /\ k \in 0..N /\ k + 1 \in 1..N /\ (k + 1) - 1 = k
    BY <2>0, <2>1
  <2>3. Len(x[k]) = Len(y[k])
    BY <1>3, <2>0, <2>2
  <2>4. IsLevel(x[k]) /\ IsLevel(y[k])
    BY <1>1, <2>2, RoundsShrink
  <2>5. x[k + 1] = Round(x[k]) /\ y[k + 1] = Round(y[k])
    <3>1. x[k + 1] = Round(x[(k + 1) - 1]) /\ y[k + 1] = Round(y[(k + 1) - 1])
      BY <1>1, <2>2, RoundsDef
    <3> QED BY <2>2, <3>1
  <2>6. PICK s, u : s = x[k] /\ u = y[k]
    OBVIOUS
  <2>7. PICK n \in Nat \ {0} : n = Len(s) /\ n = Len(u)
    BY <2>3, <2>4, <2>6 DEF IsLevel
  <2>8. n = 1 \/ n > 1
    OBVIOUS
  <2>9. Len(Round(s)) = Len(Round(u))
    BY <2>4, <2>6, <2>7, <2>8, RoundLevel
  <2> QED BY <2>5, <2>6, <2>9
<1>4. \A h \in 0..N : Len(x[h]) = Len(y[h])
  <2>1. \A h \in Nat : h \in T
    BY <1>2, <1>3, SetInduction
  <2>2. \A h \in 0..N : h \in Nat /\ h <= N
    OBVIOUS
  <2> QED BY <2>1, <2>2
<1>5. PICK t \in 0..N, v \in 0..N : t = Top(a) /\ v = Top(b)
  BY <1>1, TopRound
<1>6. /\ Len(x[t]) = 1 /\ \A g \in 0..(t - 1) : Len(x[g]) > 1
      /\ Len(y[v]) = 1 /\ \A g \in 0..(v - 1) : Len(y[g]) > 1
  BY <1>5, TopRound
<1>7. \A n : n > 1 => n # 1
  OBVIOUS
<1>8. t \notin 0..(v - 1) /\ v \notin 0..(t - 1)
  BY <1>4, <1>6, <1>7
<1>9. t = v
  BY <1>8
<1> QED BY <1>1, <1>4, <1>5, <1>9

(* The published pair (root, leaf_count) determines the batch: two batches *)
(* of one size and one root are the same sequence of leaves.  The size is  *)
(* needed: <<a, b, c>> and <<a, b, c, c>> have the same root.              *)
THEOREM RootAndCountBind ==
  ASSUME NEW a, IsLevel(a), NEW b, IsLevel(b), Len(a) = Len(b),
         RootOf(Levels(a)) = RootOf(Levels(b))
  PROVE  a = b
<1> DEFINE x == Rounds(a)
           y == Rounds(b)
<1>1. PICK t \in Nat : t = Top(a) /\ t = Top(b)
  BY SameShape, LevelsShape
<1>2. PICK N \in Nat : N = Len(a) /\ N = Len(b) /\ t \in 0..N
  <2>1. Len(a) \in Nat
    BY DEF IsLevel
  <2> QED BY <1>1, <2>1, TopRound
<1> PICK T \in SUBSET Nat : \A k \in Nat : k \in T <=> (k <= t => x[t - k] = y[t - k])
  <2> DEFINE U == {k \in Nat : k <= t => x[t - k] = y[t - k]}
  <2>1. U \in SUBSET Nat /\ \A k \in Nat : k \in U <=> (k <= t => x[t - k] = y[t - k])
    OBVIOUS
  <2> QED BY <2>1
<1>3. 0 \in T
  <2>1. IsLevel(x[t]) /\ IsLevel(y[t])
    BY <1>2, RoundsShrink
  <2>2. Len(x[t]) = 1 /\ Len(y[t]) = 1
    BY <1>1, TopRound
  <2>3. x[t][1] = y[t][1]
    <3>1. RootOf(Levels(a)) = x[Top(a)][1] /\ RootOf(Levels(b)) = y[Top(b)][1]
      BY LevelsShape, Zenon
    <3> QED BY <1>1, <3>1
  <2>4. x[t] = y[t]
    BY <2>1, <2>2, <2>3 DEF IsLevel
  <2>5. t - 0 = t
    OBVIOUS
  <2> QED BY <2>4, <2>5
<1>4. ASSUME NEW k \in T PROVE k + 1 \in T
  <2>0. k \in Nat /\ k + 1 \in Nat
    BY <1>4
  <2>1. SUFFICES ASSUME k + 1 <= t PROVE x[t - (k + 1)] = y[t - (k + 1)]
    BY <2>0
  <2>2. PICK g \in 0..(t - 1) : g = t - (k + 1) /\ g + 1 = t - k
    BY <2>0, <2>1
  <2>3. x[g + 1] = y[g + 1]
    BY <1>4, <2>0, <2>1, <2>2
  <2>4. g \in 0..(Top(a) - 1) /\ g \in 0..(Top(b) - 1) /\ g \in 0..N
    BY <1>1, <1>2
  <2>5. IsLevel(x[g]) /\ Len(x[g]) > 1 /\ x[g + 1] = Round(x[g])
    BY <2>4, RoundBelowTop
  <2>6. IsLevel(y[g]) /\ y[g + 1] = Round(y[g])
    BY <2>4, RoundBelowTop
  <2>7. Len(x[g]) = Len(y[g])
    BY <1>2, <2>4, SameShape
  <2>8. x[g] = y[g]
    BY <2>3, <2>5, <2>6, <2>7, RoundInjective
  <2> QED BY <2>2, <2>8
<1>5. t \in T /\ t - t = 0
  <2>1. \A n \in Nat : n \in T
    BY <1>3, <1>4, SetInduction, Zenon
  <2> QED BY <2>1
<1>6. x[0] = y[0]
  BY <1>5
<1> QED BY <1>2, <1>6, RoundsDef
===============================================================================
