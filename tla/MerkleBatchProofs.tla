--------------------------- MODULE MerkleBatchProofs ---------------------------
(***************************************************************************)
(* One batch from empty to closed, for any set of leaves and any bound on  *)
(* the batch: what its proofs vouch for.                                   *)
(***************************************************************************)
EXTENDS MerkleBatch, MerkleProofs

\* Inductive: what the batch holds are leaf digests, and a closed batch holds the
\* levels of all of them.
BatchInv ==
  /\ leaves \in Seq({LeafNode(x) : x \in LeafValue})
  /\ Closed => leaves # <<>> /\ levels = Levels(leaves)

(* A nonempty sequence is a level, with the index set of its leaves.       *)
LEMMA SeqIsLevel ==
  ASSUME NEW S, NEW s \in Seq(S), s # <<>>
  PROVE  IsLevel(s) /\ DOMAIN s = 1..Len(s)
BY DEF IsLevel

(* BatchInv holds of the empty batch, survives every step of the batch,    *)
(* and so holds throughout.                                                *)
THEOREM BatchInvariant == BatchSpec => []BatchInv
<1>1. BatchInit => BatchInv
  BY DEF BatchInit, BatchInv, Closed
<1>2. BatchInv /\ [BatchNext]_batchVars => BatchInv'
  <2> SUFFICES ASSUME BatchInv, [BatchNext]_batchVars PROVE BatchInv'
    OBVIOUS
  <2>1. ASSUME NEW x \in LeafValue, AddLeaf(x) PROVE BatchInv'
    BY <2>1 DEF BatchInv, AddLeaf, Closed
  <2>2. CASE Close
    BY <2>2 DEF BatchInv, Close, Closed
  <2>3. CASE UNCHANGED batchVars
    BY <2>3 DEF BatchInv, Closed, batchVars
  <2> QED BY <2>1, <2>2, <2>3 DEF BatchNext
<1> QED BY <1>1, <1>2, PTL DEF BatchSpec

(* I9: in every closed batch the proof of every leaf verifies offline      *)
(* against the root, for every number of leaves.                           *)
THEOREM ProofsVerify == BatchSpec => []EveryProofVerifies
<1>1. BatchInv => EveryProofVerifies
  <2> SUFFICES ASSUME BatchInv, Closed, NEW i \in DOMAIN leaves
               PROVE  Verify(leaves[i], ProofFor(levels, i), RootOf(levels))
    BY DEF EveryProofVerifies
  <2>1. IsLevel(leaves) /\ DOMAIN leaves = 1..Len(leaves) /\ levels = Levels(leaves)
    BY SeqIsLevel DEF BatchInv
  <2> QED BY <2>1, ProofVerifies
<1> QED BY <1>1, BatchInvariant, PTL

(* The proof of a leaf in a closed batch fails for every other digest.     *)
THEOREM ProofsBind == BatchSpec => []ProofBindsLeaf
<1>1. BatchInv => ProofBindsLeaf
  <2> SUFFICES ASSUME BatchInv, Closed, NEW i \in DOMAIN leaves, NEW x \in LeafValue,
                      Verify(LeafNode(x), ProofFor(levels, i), RootOf(levels))
               PROVE  LeafNode(x) = leaves[i]
    BY DEF ProofBindsLeaf
  <2>1. IsLevel(leaves) /\ DOMAIN leaves = 1..Len(leaves) /\ levels = Levels(leaves)
    BY SeqIsLevel DEF BatchInv
  <2>2. Verify(leaves[i], ProofFor(levels, i), RootOf(levels))
    BY <2>1, ProofVerifies
  <2>3. Len(ProofFor(levels, i)) \in Nat
    BY <2>1, ProofShape, LevelsShape
  <2> QED BY <2>2, <2>3, ProofBinds
<1> QED BY <1>1, BatchInvariant, PTL

-------------------------------------------------------------------------------
(* The reference tree: its recursive definitions satisfy their equations.  *)

(* The powers of two.                                                      *)
LEMMA PowersDef ==
  ASSUME NEW n \in Nat
  PROVE  /\ Powers(n)[0] = 1
         /\ \A g \in 1..n : Powers(n)[g] = 2 * Powers(n)[g - 1]
<1> DEFINE Eq(f, m) == f = [g \in 0..m |-> IF g = 0 THEN 1 ELSE 2 * f[g - 1]]
           T == {m \in Nat : \E f : Eq(f, m)}
<1>1. 0 \in T
  <2> DEFINE f == [g \in 0..0 |-> 1]
  <2>1. Eq(f, 0)
    OBVIOUS
  <2> QED BY <2>1
<1>2. ASSUME NEW m \in T PROVE m + 1 \in T
  <2>1. PICK f : Eq(f, m)
    BY <1>2
  <2> DEFINE e == [g \in 0..(m + 1) |-> IF g <= m THEN f[g] ELSE 2 * f[m]]
  <2>2. m \in Nat
    BY <1>2
  <2>3. ASSUME NEW g \in 0..(m + 1)
        PROVE  e[g] = IF g = 0 THEN 1 ELSE 2 * e[g - 1]
    <3>1. CASE g = 0
      BY <2>1, <2>2, <3>1
    <3>2. CASE g > 0 /\ g <= m
      <4>1. f[g] = 2 * f[g - 1]
        BY <2>1, <2>2, <3>2
      <4>2. e[g] = f[g] /\ e[g - 1] = f[g - 1]
        BY <2>2, <3>2
      <4> QED BY <3>2, <4>1, <4>2
    <3>3. CASE g = m + 1
      <4>1. e[g] = 2 * f[m] /\ e[g - 1] = f[m]
        BY <2>2, <3>3
      <4> QED BY <2>2, <3>3, <4>1
    <3> QED BY <2>2, <3>1, <3>2, <3>3
  <2>4. Eq(e, m + 1)
    BY <2>3
  <2> HIDE DEF Eq
  <2> QED BY <2>2, <2>4
<1>3. n \in T
  BY <1>1, <1>2, SetInduction
<1>4. \E f : Eq(f, n)
  BY <1>3
<1>5. Powers(n) = CHOOSE f : Eq(f, n)
  BY DEF Powers
<1>6. Eq(Powers(n), n)
  BY <1>4, <1>5
<1> QED BY <1>6

(* The widths of the levels.                                               *)
LEMMA WidthsDef ==
  ASSUME NEW n, NEW h \in Nat
  PROVE  /\ Widths(n, h)[0] = n
         /\ \A g \in 1..h : Widths(n, h)[g] = (Widths(n, h)[g - 1] + 1) \div 2
<1> DEFINE Eq(f, m) == f = [g \in 0..m |-> IF g = 0 THEN n ELSE (f[g - 1] + 1) \div 2]
           T == {m \in Nat : \E f : Eq(f, m)}
<1>1. 0 \in T
  <2> DEFINE f == [g \in 0..0 |-> n]
  <2>1. Eq(f, 0)
    OBVIOUS
  <2> QED BY <2>1
<1>2. ASSUME NEW m \in T PROVE m + 1 \in T
  <2>1. PICK f : Eq(f, m)
    BY <1>2
  <2> DEFINE e == [g \in 0..(m + 1) |-> IF g <= m THEN f[g] ELSE (f[m] + 1) \div 2]
  <2>2. m \in Nat
    BY <1>2
  <2>3. ASSUME NEW g \in 0..(m + 1)
        PROVE  e[g] = IF g = 0 THEN n ELSE (e[g - 1] + 1) \div 2
    <3>1. CASE g = 0
      BY <2>1, <2>2, <3>1
    <3>2. CASE g > 0 /\ g <= m
      <4>1. f[g] = (f[g - 1] + 1) \div 2
        BY <2>1, <2>2, <3>2
      <4>2. e[g] = f[g] /\ e[g - 1] = f[g - 1]
        BY <2>2, <3>2
      <4> QED BY <3>2, <4>1, <4>2
    <3>3. CASE g = m + 1
      <4>1. e[g] = (f[m] + 1) \div 2 /\ e[g - 1] = f[m]
        BY <2>2, <3>3
      <4> QED BY <2>2, <3>3, <4>1
    <3> QED BY <2>2, <3>1, <3>2, <3>3
  <2>4. Eq(e, m + 1)
    BY <2>3
  <2> HIDE DEF Eq
  <2> QED BY <2>2, <2>4
<1>3. h \in T
  BY <1>1, <1>2, SetInduction
<1>4. \E f : Eq(f, h)
  BY <1>3
<1>5. Widths(n, h) = CHOOSE f : Eq(f, h)
  BY DEF Widths
<1>6. Eq(Widths(n, h), h)
  BY <1>4, <1>5
<1> QED BY <1>6

(* The levels, each from the one below.                                    *)
LEMMA NodesDef ==
  ASSUME NEW ls, NEW h \in Nat
  PROVE  /\ \A k \in Nat : Nodes(ls, h)[0][k] = ls[k + 1]
         /\ \A g \in 1..h :
              Nodes(ls, h)[g] = LevelAbove(Nodes(ls, h)[g - 1], Widths(Len(ls), h)[g - 1])
<1>0. PICK bottom : bottom = [k \in Nat |-> ls[k + 1]]
  OBVIOUS
<1> DEFINE Eq(f, m) ==
             f = [g \in 0..m |-> IF g = 0 THEN bottom
                                ELSE LevelAbove(f[g - 1], Widths(Len(ls), h)[g - 1])]
           T == {m \in Nat : \E f : Eq(f, m)}
<1>1. 0 \in T
  <2> DEFINE f == [g \in 0..0 |-> bottom]
  <2>1. Eq(f, 0)
    OBVIOUS
  <2> QED BY <2>1
<1>2. ASSUME NEW m \in T PROVE m + 1 \in T
  <2>1. PICK f : Eq(f, m)
    BY <1>2
  <2> DEFINE e == [g \in 0..(m + 1) |->
                  IF g <= m THEN f[g] ELSE LevelAbove(f[m], Widths(Len(ls), h)[(m + 1) - 1])]
  <2>2. m \in Nat
    BY <1>2
  <2>3. ASSUME NEW g \in 0..(m + 1)
        PROVE  e[g] = IF g = 0 THEN bottom ELSE LevelAbove(e[g - 1], Widths(Len(ls), h)[g - 1])
    <3>1. CASE g = 0
      BY <2>1, <2>2, <3>1
    <3>2. CASE g > 0 /\ g <= m
      <4>1. f[g] = LevelAbove(f[g - 1], Widths(Len(ls), h)[g - 1])
        BY <2>1, <2>2, <3>2
      <4>2. e[g] = f[g] /\ e[g - 1] = f[g - 1]
        BY <2>2, <3>2
      <4> QED BY <3>2, <4>1, <4>2
    <3>3. CASE g = m + 1
      <4>1. e[g] = LevelAbove(f[m], Widths(Len(ls), h)[(m + 1) - 1]) /\ e[g - 1] = f[m]
        BY <2>2, <3>3
      <4> QED BY <2>2, <3>3, <4>1
    <3> QED BY <2>2, <3>1, <3>2, <3>3
  <2>4. Eq(e, m + 1)
    BY <2>3
  <2> HIDE DEF Eq
  <2> QED BY <2>2, <2>4
<1>3. h \in T
  BY <1>1, <1>2, SetInduction
<1>4. \E f : Eq(f, h)
  BY <1>3
<1>5. Nodes(ls, h) = CHOOSE f : Eq(f, h)
  BY <1>0 DEF Nodes
<1>6. Eq(Nodes(ls, h), h)
  BY <1>4, <1>5
<1>7. /\ Nodes(ls, h)[0] = bottom
      /\ \A g \in 1..h :
           Nodes(ls, h)[g] = LevelAbove(Nodes(ls, h)[g - 1], Widths(Len(ls), h)[g - 1])
  BY <1>6
<1> QED BY <1>0, <1>7

(* The way down to a leaf.                                                 *)
LEMMA DescentDef ==
  ASSUME NEW root, NEW k, NEW h \in Nat
  PROVE  /\ Descent(root, k, h)[0] = root
         /\ \A g \in 1..h : Descent(root, k, h)[g] = Descent(root, k, h)[g - 1][Side(k, h, g)]
<1> DEFINE Eq(f, m) == f = [g \in 0..m |-> IF g = 0 THEN root ELSE f[g - 1][Side(k, h, g)]]
           T == {m \in Nat : \E f : Eq(f, m)}
<1>1. 0 \in T
  <2> DEFINE f == [g \in 0..0 |-> root]
  <2>1. Eq(f, 0)
    OBVIOUS
  <2> QED BY <2>1
<1>2. ASSUME NEW m \in T PROVE m + 1 \in T
  <2>1. PICK f : Eq(f, m)
    BY <1>2
  <2> DEFINE e == [g \in 0..(m + 1) |-> IF g <= m THEN f[g] ELSE f[m][Side(k, h, m + 1)]]
  <2>2. m \in Nat
    BY <1>2
  <2>3. ASSUME NEW g \in 0..(m + 1)
        PROVE  e[g] = IF g = 0 THEN root ELSE e[g - 1][Side(k, h, g)]
    <3>1. CASE g = 0
      BY <2>1, <2>2, <3>1
    <3>2. CASE g > 0 /\ g <= m
      <4>1. f[g] = f[g - 1][Side(k, h, g)]
        BY <2>1, <2>2, <3>2
      <4>2. e[g] = f[g] /\ e[g - 1] = f[g - 1]
        BY <2>2, <3>2
      <4> QED BY <3>2, <4>1, <4>2
    <3>3. CASE g = m + 1
      <4>1. e[g] = f[m][Side(k, h, m + 1)] /\ e[g - 1] = f[m]
        BY <2>2, <3>3
      <4> QED BY <2>2, <3>3, <4>1
    <3> QED BY <2>2, <3>1, <3>2, <3>3
  <2>4. Eq(e, m + 1)
    BY <2>3
  <2> HIDE DEF Eq
  <2> QED BY <2>2, <2>4
<1>3. h \in T
  BY <1>1, <1>2, SetInduction
<1>4. \E f : Eq(f, h)
  BY <1>3
<1>5. Descent(root, k, h) = CHOOSE f : Eq(f, h)
  BY DEF Descent
<1>6. Eq(Descent(root, k, h), h)
  BY <1>4, <1>5
<1>7. PICK node : node = Descent(root, k, h)
  OBVIOUS
<1>8. Eq(node, h)
  BY <1>6, <1>7
<1>9. node[0] = root /\ \A g \in 1..h : node[g] = node[g - 1][Side(k, h, g)]
  BY <1>8
<1> QED BY <1>7, <1>9

-------------------------------------------------------------------------------
(* The tree of close() is the reference tree.                              *)

(* The powers of two are positive.                                         *)
LEMMA PowersPositive ==
  ASSUME NEW n \in Nat, NEW h \in 0..n
  PROVE  Powers(n)[h] \in Nat \ {0}
<1> DEFINE T == {k \in Nat : k <= n => Powers(n)[k] \in Nat \ {0}}
<1>1. 0 \in T
  BY PowersDef
<1>2. ASSUME NEW k \in T PROVE k + 1 \in T
  <2>1. SUFFICES ASSUME k + 1 <= n PROVE Powers(n)[k + 1] \in Nat \ {0}
    BY <1>2
  <2>2. k \in Nat /\ k + 1 \in 1..n /\ (k + 1) - 1 = k /\ Powers(n)[k] \in Nat \ {0}
    BY <1>2, <2>1
  <2>3. Powers(n)[k + 1] = 2 * Powers(n)[(k + 1) - 1]
    BY <2>2, PowersDef
  <2>4. Powers(n)[k + 1] = 2 * Powers(n)[k]
    BY <2>2, <2>3
  <2> QED BY <2>2, <2>4
<1>3. h \in Nat /\ h <= n
  OBVIOUS
<1>4. h \in T
  <2>1. T \in SUBSET Nat
    OBVIOUS
  <2> HIDE DEF T
  <2> QED BY <1>1, <1>2, <1>3, <2>1, SetInduction
<1> QED BY <1>3, <1>4

(* A round of close() makes a level of the reference width, also when the  *)
(* level is down to one node and the round leaves it.                      *)
LEMMA RoundWidth ==
  ASSUME NEW ls, IsLevel(ls), NEW h \in 0..(Len(ls) - 1)
  PROVE  /\ Len(Rounds(ls)[h]) \in Nat \ {0}
         /\ Len(Rounds(ls)[h + 1]) = (Len(Rounds(ls)[h]) + 1) \div 2
<1>0. Len(ls) \in Nat \ {0}
  BY DEF IsLevel
<1>1. h \in 0..Len(ls) /\ h + 1 \in 1..Len(ls) /\ (h + 1) - 1 = h
  BY <1>0
<1>2. PICK s : s = Rounds(ls)[h]
  OBVIOUS
<1>3. IsLevel(s) /\ Len(s) \in Nat \ {0}
  <2>1. IsLevel(s)
    BY <1>1, <1>2, RoundsShrink
  <2> QED BY <2>1 DEF IsLevel
<1>4. Rounds(ls)[h + 1] = Round(s)
  <2>1. Rounds(ls)[h + 1] = Round(Rounds(ls)[(h + 1) - 1])
    BY <1>0, <1>1, RoundsDef
  <2> QED BY <1>1, <1>2, <2>1
<1>5. Len(Round(s)) = (Len(s) + 1) \div 2
  <2>1. CASE Len(s) = 1
    <3>1. (1 + 1) \div 2 = 1
      OBVIOUS
    <3> QED BY <1>3, <2>1, <3>1, RoundLevel
  <2>2. CASE Len(s) > 1
    BY <1>3, <2>2, RoundLevel
  <2>3. \A n \in Nat \ {0} : n = 1 \/ n > 1
    OBVIOUS
  <2> QED BY <1>3, <2>1, <2>2, <2>3
<1> QED BY <1>2, <1>3, <1>4, <1>5

(* Hashing a level and halving the power of two keep the comparison of the *)
(* two: n leaves fit under 2^h exactly when the g-th round fits under      *)
(* 2^(h - g).                                                              *)
LEMMA RoundsFit ==
  ASSUME NEW ls, IsLevel(ls), NEW h \in 0..Len(ls), NEW g \in 0..h
  PROVE  /\ Len(Rounds(ls)[g]) \in Nat \ {0}
         /\ Powers(Len(ls))[h] >= Len(ls) <=> Powers(Len(ls))[h - g] >= Len(Rounds(ls)[g])
<1>0. PICK N \in Nat \ {0} : N = Len(ls)
  BY DEF IsLevel
<1> DEFINE r == Rounds(ls)
           p == Powers(N)
           T == {k \in Nat : k <= h => (p[h] >= N <=> p[h - k] >= Len(r[k]))}
<1>1. \A k \in 0..h : Len(r[k]) \in Nat \ {0}
  <2>1. \A k \in 0..h : k \in 0..Len(ls)
    BY <1>0
  <2> QED BY <2>1, RoundsShrink DEF IsLevel
<1>2. 0 \in T
  <2>1. r[0] = ls
    BY <1>0, RoundsDef
  <2>2. h - 0 = h
    BY <1>0
  <2> QED BY <1>0, <2>1, <2>2
<1>3. ASSUME NEW k \in T PROVE k + 1 \in T
  <2>0. k \in Nat /\ (k <= h => (p[h] >= N <=> p[h - k] >= Len(r[k])))
    BY <1>3
  <2>1. SUFFICES ASSUME k + 1 <= h PROVE p[h] >= N <=> p[h - (k + 1)] >= Len(r[k + 1])
    BY <2>0
  <2>2. /\ k <= h /\ k \in 0..h /\ k \in 0..(Len(ls) - 1) /\ h - k \in 1..N
        /\ h - (k + 1) \in 0..N /\ (h - k) - 1 = h - (k + 1)
    BY <1>0, <2>0, <2>1
  <2>3. PICK w \in Nat \ {0} : w = Len(r[k])
    BY <1>1, <2>2
  <2>4. Len(r[k + 1]) = (w + 1) \div 2
    BY <2>2, <2>3, RoundWidth
  <2>5. PICK q \in Nat \ {0} : q = p[h - (k + 1)]
    BY <2>2, PowersPositive
  <2>6. p[h - k] = 2 * q
    <3>1. p[h - k] = 2 * p[(h - k) - 1]
      BY <2>2, PowersDef
    <3> QED BY <2>2, <2>5, <3>1
  <2>7. 2 * q >= w <=> q >= (w + 1) \div 2
    OBVIOUS
  <2> QED BY <2>0, <2>2, <2>3, <2>4, <2>5, <2>6, <2>7
<1>4. g \in Nat /\ g <= h
  BY <1>0
<1>5. g \in T
  <2> HIDE DEF T
  <2>1. T \in SUBSET Nat
    BY DEF T
  <2> QED BY <1>2, <1>3, <1>4, <2>1, SetInduction
<1>6. p[h] >= N <=> p[h - g] >= Len(r[g])
  BY <1>4, <1>5
<1> QED BY <1>0, <1>1, <1>6

(* close() stops at the least height whose power of two covers the leaves. *)
LEMMA HeightIsTop ==
  ASSUME NEW ls, IsLevel(ls)
  PROVE  Height(Len(ls)) = Top(ls)
<1>0. PICK N \in Nat \ {0} : N = Len(ls)
  BY DEF IsLevel
<1> DEFINE p == Powers(N)
           Covers(h) == p[h] >= N /\ \A g \in 0..(h - 1) : p[g] < N
<1>1. ASSUME NEW h \in 0..N PROVE p[h] >= N <=> Len(Rounds(ls)[h]) = 1
  <2>1. h \in 0..h /\ h - h = 0
    BY <1>0
  <2>2. Len(Rounds(ls)[h]) \in Nat \ {0} /\ (p[h] >= N <=> p[0] >= Len(Rounds(ls)[h]))
    BY <1>0, <2>1, RoundsFit
  <2>3. p[0] = 1
    BY <1>0, PowersDef
  <2>4. \A n \in Nat \ {0} : 1 >= n <=> n = 1
    OBVIOUS
  <2> QED BY <2>2, <2>3, <2>4
<1>2. PICK t \in 0..N : t = Top(ls)
  BY <1>0, TopRound
<1>3. Len(Rounds(ls)[t]) = 1 /\ \A g \in 0..(t - 1) : Len(Rounds(ls)[g]) > 1
  BY <1>2, TopRound
<1>4. \A h \in 0..N : p[h] \in Nat
  BY <1>0, PowersPositive
<1>5. \A n : n > 1 => n # 1
  OBVIOUS
<1>6. \A g \in 0..(t - 1) : g \in 0..N /\ p[g] < N
  <2> TAKE g \in 0..(t - 1)
  <2>1. g \in 0..N
    BY <1>0, <1>2
  <2>2. Len(Rounds(ls)[g]) # 1
    BY <1>3, <1>5
  <2>3. ~(p[g] >= N) /\ p[g] \in Nat
    BY <1>1, <1>4, <2>1, <2>2
  <2> QED BY <1>0, <2>1, <2>3
<1>7. Covers(t)
  BY <1>1, <1>3, <1>6
<1>8. ASSUME NEW h \in 0..N, Covers(h) PROVE h = t
  <2>1. h \notin 0..(t - 1)
    BY <1>0, <1>4, <1>6, <1>8
  <2>2. t \notin 0..(h - 1)
    BY <1>0, <1>4, <1>7, <1>8
  <2> QED BY <1>0, <2>1, <2>2
<1>9. Height(N) = CHOOSE h \in 0..N : Covers(h)
  BY DEF Height
<1> HIDE DEF Covers
<1>10. Height(N) = t
  BY <1>7, <1>8, <1>9
<1> QED BY <1>0, <1>2, <1>10

(* The reference widths are the widths of the rounds.                      *)
LEMMA WidthsAreRounds ==
  ASSUME NEW ls, IsLevel(ls), NEW h \in 0..Len(ls), NEW g \in 0..h
  PROVE  Widths(Len(ls), h)[g] = Len(Rounds(ls)[g])
<1>0. PICK N \in Nat \ {0} : N = Len(ls)
  BY DEF IsLevel
<1> DEFINE r == Rounds(ls)
           w == Widths(N, h)
           T == {k \in Nat : k <= h => w[k] = Len(r[k])}
<1>1. h \in Nat
  BY <1>0
<1>2. 0 \in T
  <2>1. r[0] = ls
    BY <1>0, RoundsDef
  <2>2. w[0] = N
    BY <1>1, WidthsDef
  <2> QED BY <1>0, <2>1, <2>2
<1>3. ASSUME NEW k \in T PROVE k + 1 \in T
  <2>0. k \in Nat /\ (k <= h => w[k] = Len(r[k]))
    BY <1>3
  <2>1. SUFFICES ASSUME k + 1 <= h PROVE w[k + 1] = Len(r[k + 1])
    BY <2>0
  <2>2. k <= h /\ k \in 0..(Len(ls) - 1) /\ k + 1 \in 1..h /\ (k + 1) - 1 = k
    BY <1>0, <1>1, <2>0, <2>1
  <2>3. w[k + 1] = (w[(k + 1) - 1] + 1) \div 2
    BY <1>1, <2>2, WidthsDef
  <2>4. Len(r[k + 1]) = (Len(r[k]) + 1) \div 2
    BY <2>2, RoundWidth
  <2> QED BY <2>0, <2>2, <2>3, <2>4
<1>4. g \in Nat /\ g <= h
  BY <1>1
<1>5. g \in T
  <2>1. T \in SUBSET Nat
    OBVIOUS
  <2> HIDE DEF T
  <2> QED BY <1>2, <1>3, <1>4, <2>1, SetInduction
<1> QED BY <1>0, <1>4, <1>5

(* The children of a node: the padding of an odd level stands for a        *)
(* missing right child.                                                    *)
LEMMA ParentChildren ==
  ASSUME NEW s, IsLevel(s), NEW k \in Nat, 2 * k < Len(s)
  PROVE  Parent(s, k + 1)
           = HashPair(s[2 * k + 1], s[IF 2 * k + 1 < Len(s) THEN 2 * k + 2 ELSE 2 * k + 1])
<1>1. PICK n \in Nat \ {0} : n = Len(s)
  BY DEF IsLevel
<1>2. 2 * (k + 1) - 1 = 2 * k + 1 /\ 2 * (k + 1) = 2 * k + 2 /\ 2 * k + 1 \in 1..n
  BY <1>1
<1>3. Pad(s)[2 * k + 1] = s[2 * k + 1]
  BY <1>1, <1>2, PadLevel
<1>4. Parent(s, k + 1) = HashPair(s[2 * k + 1], Pad(s)[2 * k + 2])
  BY <1>2, <1>3 DEF Parent
<1>5. CASE 2 * k + 1 < n
  <2>1. 2 * k + 2 \in 1..n
    BY <1>5
  <2>2. Pad(s)[2 * k + 2] = s[2 * k + 2]
    BY <1>1, <2>1, PadLevel
  <2> QED BY <1>1, <1>4, <1>5, <2>2
<1>6. CASE ~(2 * k + 1 < n)
  <2>1. n = 2 * k + 1 /\ n % 2 = 1 /\ n + 1 = 2 * k + 2
    BY <1>1, <1>6
  <2>2. Pad(s)[n + 1] = s[n]
    BY <1>1, <2>1, PadLevel
  <2> QED BY <1>1, <1>4, <1>6, <2>1, <2>2
<1> QED BY <1>5, <1>6

(* A node of close() is the node of the reference tree at its place.       *)
LEMMA NodesAreRounds ==
  ASSUME NEW ls, IsLevel(ls), NEW g \in 0..Top(ls), NEW j \in 0..(Len(Rounds(ls)[g]) - 1)
  PROVE  Nodes(ls, Top(ls))[g][j] = Rounds(ls)[g][j + 1]
<1>0. PICK t \in Nat : t = Top(ls) /\ t \in 0..Len(ls)
  <2>1. Len(ls) \in Nat
    BY DEF IsLevel
  <2> QED BY <2>1, TopRound
<1> DEFINE r == Rounds(ls)
           node == Nodes(ls, t)
           P(k) == \A i \in 0..(Len(r[k]) - 1) : node[k][i] = r[k][i + 1]
<1>5. \A k \in Nat : node[0][k] = ls[k + 1]
  BY NodesDef
<1>6. \A m \in 1..t : node[m] = LevelAbove(node[m - 1], Widths(Len(ls), t)[m - 1])
  BY NodesDef
<1> PICK T \in SUBSET Nat : \A k \in Nat : k \in T <=> (k <= t => P(k))
  <2> DEFINE U == {k \in Nat : k <= t => P(k)}
  <2>1. U \in SUBSET Nat /\ \A k \in Nat : k \in U <=> (k <= t => P(k))
    OBVIOUS
  <2> QED BY <2>1
<1>1. 0 \in T
  <2>1. r[0] = ls
    <3>1. Len(ls) \in Nat
      BY DEF IsLevel
    <3> QED BY <3>1, RoundsDef
  <2>3. Len(ls) \in Nat
    BY DEF IsLevel
  <2>4. \A i \in 0..(Len(ls) - 1) : node[0][i] = ls[i + 1]
    <3>1. \A i \in 0..(Len(ls) - 1) : i \in Nat
      BY <2>3
    <3> QED BY <1>5, <3>1, Zenon
  <2> QED BY <2>1, <2>4
<1>2. ASSUME NEW k \in T PROVE k + 1 \in T
  <2>0. k \in Nat /\ k + 1 \in Nat
    BY <1>2
  <2>1. SUFFICES ASSUME k + 1 <= t PROVE P(k + 1)
    BY <2>0
  <2>2. /\ k <= t /\ k \in 0..t /\ k \in 0..(t - 1) /\ k + 1 \in 1..t /\ (k + 1) - 1 = k
    BY <2>0, <2>1
  <2>3. P(k)
    BY <1>2, <2>0, <2>2
  <2>4. PICK s : s = r[k]
    OBVIOUS
  <2>5. /\ IsLevel(s)
        /\ Len(r[k + 1]) = (Len(s) + 1) \div 2
        /\ \A m \in 1..Len(r[k + 1]) : r[k + 1][m] = Parent(s, m)
    <3>1. k \in 0..(Top(ls) - 1)
      BY <1>0, <2>2
    <3>2. /\ IsLevel(r[k])
          /\ Len(r[k + 1]) = (Len(r[k]) + 1) \div 2
          /\ \A m \in 1..Len(r[k + 1]) : r[k + 1][m] = Parent(r[k], m)
      BY <3>1, RoundBelowTop, Zenon
    <3> QED BY <2>4, <3>2
  <2>6. PICK n \in Nat \ {0} : n = Len(s)
    BY <2>5 DEF IsLevel
  <2>7. Widths(Len(ls), t)[k] = n
    BY <1>0, <2>2, <2>4, <2>6, WidthsAreRounds
  <2>8. node[k + 1] = LevelAbove(node[k], n)
    <3>1. node[k + 1] = LevelAbove(node[(k + 1) - 1], Widths(Len(ls), t)[(k + 1) - 1])
      BY <1>6, <2>2, Zenon
    <3> QED BY <2>2, <2>7, <3>1
  <2>9. ASSUME NEW i \in 0..(Len(r[k + 1]) - 1) PROVE node[k + 1][i] = r[k + 1][i + 1]
    <3>1. i \in Nat /\ i < (n + 1) \div 2 /\ 2 * i < n /\ i + 1 \in 1..Len(r[k + 1])
      BY <2>5, <2>6
    <3>2. r[k + 1][i + 1] = Parent(s, i + 1)
      BY <2>5, <3>1
    <3>3. Parent(s, i + 1)
            = HashPair(s[2 * i + 1], s[IF 2 * i + 1 < n THEN 2 * i + 2 ELSE 2 * i + 1])
      BY <2>5, <2>6, <3>1, ParentChildren
    <3>4. PICK c : c = IF 2 * i + 1 < n THEN 2 * i + 1 ELSE 2 * i
      OBVIOUS
    <3>5. node[k + 1][i] = HashPair(node[k][2 * i], node[k][c])
      BY <2>8, <3>1, <3>4 DEF LevelAbove
    <3>6. /\ 2 * i \in 0..(n - 1) /\ c \in 0..(n - 1)
          /\ c + 1 = IF 2 * i + 1 < n THEN 2 * i + 2 ELSE 2 * i + 1
      <4>1. CASE 2 * i + 1 < n
        BY <3>1, <3>4, <4>1
      <4>2. CASE ~(2 * i + 1 < n)
        BY <3>1, <3>4, <4>2
      <4> QED BY <4>1, <4>2
    <3>7. node[k][2 * i] = s[2 * i + 1] /\ node[k][c] = s[c + 1]
      BY <2>3, <2>4, <2>6, <3>6
    <3> QED BY <3>2, <3>3, <3>5, <3>6, <3>7
  <2> QED BY <2>9
<1>3. g \in Nat /\ g <= t
  BY <1>0
<1>4. g \in T
  BY <1>1, <1>2, <1>3, SetInduction
<1> QED BY <1>0, <1>3, <1>4

(* The way down from the root to leaf i passes the ancestors of the leaf.  *)
LEMMA DescentFollowsTree ==
  ASSUME NEW ls, IsLevel(ls), NEW i \in 1..Len(ls), NEW d \in 0..Top(ls)
  PROVE  Descent(RootOf(Levels(ls)), i, Top(ls))[d]
           = Rounds(ls)[Top(ls) - d][Indices(i, Top(ls) + 1)[Top(ls) - d] + 1]
<1>0. PICK t \in Nat : t = Top(ls)
  BY LevelsShape
<1> DEFINE r == Rounds(ls)
           idx == Indices(i, t + 1)
           node == Descent(RootOf(Levels(ls)), i, t)
           P(k) == node[k] = r[t - k][idx[t - k] + 1]
<1>1. \A h \in 0..t : idx[h] \in Nat /\ idx[h] < Len(r[h])
  BY <1>0, ClimbFollowsTree
<1>6. \A m \in 1..t : node[m] = node[m - 1][Side(i, t, m)]
  BY DescentDef
<1> PICK T \in SUBSET Nat : \A k \in Nat : k \in T <=> (k <= t => P(k))
  <2> DEFINE U == {k \in Nat : k <= t => P(k)}
  <2>1. U \in SUBSET Nat /\ \A k \in Nat : k \in U <=> (k <= t => P(k))
    OBVIOUS
  <2> QED BY <2>1
<1>2. 0 \in T
  <2>1. node[0] = RootOf(Levels(ls))
    BY DescentDef
  <2>2. RootOf(Levels(ls)) = r[t][1] /\ Len(r[t]) = 1
    BY <1>0, LevelsShape, TopRound
  <2>3. t - 0 = t /\ t \in 0..t
    OBVIOUS
  <2>4. idx[t] + 1 = 1
    <3>1. idx[t] \in Nat /\ idx[t] < 1
      BY <1>1, <2>2, <2>3
    <3> QED BY <3>1
  <2>5. P(0)
    BY <2>1, <2>2, <2>3, <2>4
  <2> QED BY <2>5
<1>3. ASSUME NEW k \in T PROVE k + 1 \in T
  <2>0. k \in Nat /\ k + 1 \in Nat
    BY <1>3
  <2>1. SUFFICES ASSUME k + 1 <= t PROVE P(k + 1)
    BY <2>0
  <2>2. PICK h \in 0..(t - 1) : h = t - (k + 1) /\ h + 1 = t - k
    BY <2>0, <2>1
  <2>3. /\ k <= t /\ k + 1 \in 1..t /\ (k + 1) - 1 = k
        /\ h \in 0..t /\ h + 1 \in 1..(t + 1) /\ (h + 1) - 1 = h
    BY <2>0, <2>1, <2>2
  <2>4. node[k] = r[h + 1][idx[h + 1] + 1]
    <3>1. P(k)
      BY <1>3, <2>0, <2>3
    <3> QED BY <2>2, <3>1
  <2>5. PICK s : s = r[h]
    OBVIOUS
  <2>6. /\ IsLevel(s)
        /\ Len(r[h + 1]) = (Len(s) + 1) \div 2
        /\ \A m \in 1..Len(r[h + 1]) : r[h + 1][m] = Parent(s, m)
    <3>1. h \in 0..(Top(ls) - 1)
      BY <1>0, <2>2
    <3>2. /\ IsLevel(r[h])
          /\ Len(r[h + 1]) = (Len(r[h]) + 1) \div 2
          /\ \A m \in 1..Len(r[h + 1]) : r[h + 1][m] = Parent(r[h], m)
      BY <3>1, RoundBelowTop, Zenon
    <3> QED BY <2>5, <3>2
  <2>7. PICK n \in Nat \ {0} : n = Len(s)
    BY <2>6 DEF IsLevel
  <2>8. PICK j \in Nat : j = idx[h] /\ j < n
    BY <1>1, <2>3, <2>5, <2>7
  <2>9. PICK q \in Nat : q = j \div 2
    BY Halves
  <2>10. idx[h + 1] = q
    <3>1. \A m \in 1..(t + 1) : idx[m] = idx[m - 1] \div 2
      BY IndicesDef
    <3>2. idx[h + 1] = idx[(h + 1) - 1] \div 2
      BY <2>3, <3>1
    <3> QED BY <2>3, <2>8, <2>9, <3>2
  <2>11. 2 * q < n /\ q + 1 \in 1..((n + 1) \div 2)
    <3>1. q < (n + 1) \div 2 /\ (n + 1) \div 2 \in Nat
      BY <2>8, <2>9, Halves
    <3> QED BY <2>9, <3>1
  <2>12. node[k] = HashPair(s[2 * q + 1], s[IF 2 * q + 1 < n THEN 2 * q + 2 ELSE 2 * q + 1])
    <3>1. node[k] = Parent(s, q + 1)
      BY <2>4, <2>6, <2>7, <2>10, <2>11
    <3>2. Parent(s, q + 1)
            = HashPair(s[2 * q + 1], s[IF 2 * q + 1 < n THEN 2 * q + 2 ELSE 2 * q + 1])
      BY <2>6, <2>7, <2>11, ParentChildren
    <3> QED BY <3>1, <3>2
  <2>13. node[k + 1] = node[k][IF j % 2 = 0 THEN 1 ELSE 2]
    <3>1. node[k + 1] = node[(k + 1) - 1][Side(i, t, k + 1)]
      BY <1>6, <2>3, Zenon
    <3>2. Side(i, t, k + 1) = IF j % 2 = 0 THEN 1 ELSE 2
      BY <2>2, <2>8 DEF Side
    <3> QED BY <2>3, <3>1, <3>2
  <2>14. node[k + 1] = s[j + 1]
    <3>1. CASE j % 2 = 0
      <4>1. j = 2 * q
        BY <2>9, <3>1, Halves
      <4>2. node[k + 1] = s[2 * q + 1]
        BY <2>12, <2>13, <3>1 DEF HashPair
      <4> QED BY <4>1, <4>2
    <3>2. CASE j % 2 # 0
      <4>0. j = 2 * q + 1
        <5>1. j % 2 = 1
          BY <3>2
        <5> QED BY <2>9, <5>1, Halves
      <4>1. j = 2 * q + 1 /\ 2 * q + 1 < n /\ j + 1 = 2 * q + 2
        BY <2>8, <4>0
      <4>2. node[k] = HashPair(s[2 * q + 1], s[j + 1])
        BY <2>12, <4>1
      <4> QED BY <2>13, <3>2, <4>2 DEF HashPair
    <3> QED BY <3>1, <3>2
  <2> QED BY <2>2, <2>5, <2>8, <2>14
<1>4. d \in Nat /\ d <= t
  BY <1>0
<1>5. d \in T
  BY <1>2, <1>3, <1>4, SetInduction
<1> QED BY <1>0, <1>4, <1>5

(* close() (merkle.py:80) builds the reference tree, for every number of   *)
(* leaves: it stops at the least height that covers them, and its root is  *)
(* the reference root, with the last node of an odd level hashed with      *)
(* itself.                                                                 *)
THEOREM RootIsReference == BatchSpec => []RootMatchesReference
<1>1. BatchInv => RootMatchesReference
  <2> SUFFICES ASSUME BatchInv, Closed
               PROVE  /\ Len(levels) = Height(Len(leaves)) + 1
                      /\ RootOf(levels)
                           = Nodes(leaves, Height(Len(leaves)))[Height(Len(leaves))][0]
    BY DEF RootMatchesReference
  <2>1. IsLevel(leaves) /\ levels = Levels(leaves)
    BY SeqIsLevel DEF BatchInv
  <2>2. PICK t \in Nat : t = Top(leaves) /\ t = Height(Len(leaves))
    BY <2>1, LevelsShape, HeightIsTop
  <2>3. Len(levels) = t + 1 /\ RootOf(levels) = Rounds(leaves)[t][1]
    BY <2>1, <2>2, LevelsShape
  <2>4. t \in 0..Top(leaves) /\ Len(Rounds(leaves)[t]) = 1
    <3>1. t \in 0..t
      OBVIOUS
    <3>2. Len(Rounds(leaves)[Top(leaves)]) = 1
      BY <2>1, TopRound
    <3> QED BY <2>2, <3>1, <3>2
  <2>5. 0 \in 0..(Len(Rounds(leaves)[t]) - 1) /\ 0 + 1 = 1
    BY <2>4
  <2>6. Nodes(leaves, t)[t][0] = Rounds(leaves)[t][0 + 1]
    <3>1. Nodes(leaves, Top(leaves))[t][0] = Rounds(leaves)[t][0 + 1]
      BY <2>1, <2>4, <2>5, NodesAreRounds, Zenon
    <3> QED BY <2>2, <3>1, Zenon
  <2> QED BY <2>2, <2>3, <2>5, <2>6
<1> QED BY <1>1, BatchInvariant, PTL

(* The published pair (root, leaf_count) determines the batch: from a root *)
(* of close() and the number of leaves every leaf can be read back, in     *)
(* order, so any edit, insertion, removal or reordering changes the pair.  *)
THEOREM RootAndCountDetermine == BatchSpec => []RootDeterminesBatch
<1>1. BatchInv => RootDeterminesBatch
  <2> SUFFICES ASSUME BatchInv, Closed PROVE Unfold(RootOf(levels), Len(leaves)) = leaves
    BY DEF RootDeterminesBatch
  <2>1. IsLevel(leaves) /\ levels = Levels(leaves)
    BY SeqIsLevel DEF BatchInv
  <2>2. PICK t \in Nat : t = Top(leaves) /\ t = Height(Len(leaves))
    BY <2>1, LevelsShape, HeightIsTop
  <2>3. PICK N \in Nat : N = Len(leaves) /\ leaves = [i \in 1..N |-> leaves[i]]
    BY <2>1 DEF IsLevel
  <2>4. ASSUME NEW i \in 1..N PROVE Descent(RootOf(levels), i, t)[t] = leaves[i]
    <3>1. t \in 0..t /\ t - t = 0
      OBVIOUS
    <3>2. Descent(RootOf(levels), i, t)[t] = Rounds(leaves)[0][Indices(i, t + 1)[0] + 1]
      <4>1. t \in 0..Top(leaves) /\ i \in 1..Len(leaves)
        BY <2>2, <2>3, <3>1
      <4>2. Descent(RootOf(Levels(leaves)), i, Top(leaves))[t]
              = Rounds(leaves)[Top(leaves) - t][Indices(i, Top(leaves) + 1)[Top(leaves) - t] + 1]
        BY <2>1, <4>1, DescentFollowsTree, Zenon
      <4> QED BY <2>1, <2>2, <3>1, <4>2
    <3>3. Rounds(leaves)[0] = leaves
      BY <2>3, RoundsDef
    <3>4. Indices(i, t + 1)[0] + 1 = i
      <4>1. Indices(i, t + 1)[0] = i - 1
        BY IndicesDef
      <4> QED BY <4>1
    <3> QED BY <3>2, <3>3, <3>4
  <2>5. Unfold(RootOf(levels), N) = [i \in 1..N |-> Descent(RootOf(levels), i, t)[t]]
    BY <2>2, <2>3 DEF Unfold
  <2> QED BY <2>3, <2>4, <2>5
<1> QED BY <1>1, BatchInvariant, PTL
===============================================================================
