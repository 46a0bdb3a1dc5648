----------------------------- MODULE AdapterProofs -----------------------------
(***************************************************************************)
(* Proofs about two adapters of src/infrastructure.                        *)
(*                                                                         *)
(* MemoryAuditTrail, for any events and any length of the log: the adapter *)
(* implements the port, and its three views and the marks stay in step     *)
(* with the log.                                                           *)
(*                                                                         *)
(* Rfc3161 over the codec of Der, for any digests, nonces, answers and     *)
(* damages: what the encoders write the decoders read back, a TLV that was *)
(* cut or extended is not decoded; so timestamp takes an answer exactly    *)
(* when it is an intact grant of the call, and verify binds the digest.    *)
(***************************************************************************)
EXTENDS MemoryAuditTrail, Rfc3161, SequenceTheorems, FiniteSetTheorems,
        WellFoundedInduction, TLAPS

(* A set that holds 0 and the successor of each of its members holds Nat:  *)
(* otherwise a least number would be missing.                              *)
LEMMA SetInduction ==
  ASSUME NEW T \in SUBSET Nat, 0 \in T, \A n \in T : n + 1 \in T
  PROVE  \A n \in Nat : n \in T
<1> DEFINE U == Nat \ T
<1>1. SUFFICES ASSUME U # {} PROVE FALSE
  OBVIOUS
<1>2. PICK n \in U : \A m \in U : ~(<<m, n>> \in OpToRel(<, Nat))
  BY <1>1, WFMin, NatLessThanWellFounded
<1>3. \A m \in U : ~(m < n)
  BY <1>2 DEF OpToRel
<1>4. n \in Nat /\ n # 0 /\ n - 1 \in Nat /\ n - 1 \notin U
  BY <1>3
<1>5. (n - 1) + 1 \in T
  BY <1>4
<1> QED BY <1>4, <1>5

-------------------------------------------------------------------------------
(* The in-memory audit trail.                                              *)

MemTypeOK ==
  /\ events \in Seq(Event) /\ Len(events) <= MaxEvents
  /\ by_decision \in [Decision -> Seq(Nat)]
  /\ batched \subseteq DOMAIN events

\* _idempotency_index is the inverse of the keys of _events.
IndexInverts ==
  /\ \A k \in DOMAIN idempotency_index :
       idempotency_index[k] \in DOMAIN events /\ events[idempotency_index[k]].key = k
  /\ \A i \in DOMAIN events : events[i].key # NoKey =>
       events[i].key \in DOMAIN idempotency_index /\ idempotency_index[events[i].key] = i

RangesList == \A d \in Decision : Port!IsRange(by_decision[d], d)

MemInv == MemTypeOK /\ IndexInverts /\ RangesList

-------------------------------------------------------------------------------
(* Lists of ids.                                                           *)

(* The empty list lists nothing, and a new highest id goes to the end.     *)
LEMMA ListsGrow ==
  ASSUME NEW S \in SUBSET Nat, NEW ids \in Seq(Nat), Port!Lists(ids, S),
         NEW n \in Nat, \A i \in S : i < n
  PROVE  /\ Append(ids, n) \in Seq(Nat)
         /\ Len(Append(ids, n)) = Len(ids) + 1
         /\ Port!Lists(Append(ids, n), S \cup {n})
<1> DEFINE new == Append(ids, n)
<1>1. /\ new \in Seq(Nat) /\ Len(new) = Len(ids) + 1
      /\ DOMAIN new = DOMAIN ids \cup {Len(ids) + 1}
      /\ new[Len(ids) + 1] = n
      /\ \A i \in DOMAIN ids : new[i] = ids[i] /\ i < Len(ids) + 1
  OBVIOUS
<1> HIDE DEF new
<1>2. {new[i] : i \in DOMAIN new} = S \cup {n}
  BY <1>1 DEF Port!Lists
<1>3. ASSUME NEW i \in DOMAIN new, NEW j \in DOMAIN new, i < j PROVE new[i] < new[j]
  <2>1. CASE j \in DOMAIN ids
    <3>1. i \in DOMAIN ids
      BY <1>1, <1>3, <2>1
    <3> QED BY <1>1, <1>3, <2>1, <3>1 DEF Port!Lists
  <2>2. CASE j = Len(ids) + 1
    <3>1. i \in DOMAIN ids
      BY <1>1, <1>3, <2>2
    <3>2. ids[i] \in S
      BY <3>1 DEF Port!Lists
    <3> QED BY <1>1, <2>2, <3>1, <3>2
  <2> QED BY <1>1, <2>1, <2>2
<1> QED BY <1>1, <1>2, <1>3 DEF Port!Lists, new

-------------------------------------------------------------------------------
(* The inductive invariant.                                                *)

(* What append() does to the log.                                          *)
LEMMA LogGrows ==
  ASSUME MemInv, NEW e \in Event, append(e)
  PROVE  /\ events' \in Seq(Event) /\ Len(events) \in Nat
         /\ Len(events') = Len(events) + 1 /\ Len(events') <= MaxEvents
         /\ DOMAIN events = 1..Len(events)
         /\ DOMAIN events' = DOMAIN events \cup {Len(events) + 1}
         /\ Len(events) + 1 \notin DOMAIN events
         /\ events'[Len(events) + 1] = e
         /\ \A i \in DOMAIN events : events'[i] = events[i]
         /\ e.decision \in Decision
BY MemoryAssumption DEF MemInv, MemTypeOK, append, Record

(* The index takes the new key, which it did not have.                     *)
LEMMA IndexGrows ==
  ASSUME MemInv, NEW e \in Event, append(e)
  PROVE  IndexInverts'
<1> DEFINE n == Len(events) + 1
           D == DOMAIN idempotency_index
<1>1. e.key # NoKey => e.key \notin D
  BY DEF append, Duplicate
<1>2. /\ DOMAIN idempotency_index' = D \cup ({e.key} \ {NoKey})
      /\ \A k \in D \cup ({e.key} \ {NoKey}) :
           idempotency_index'[k] = IF k = e.key THEN n ELSE idempotency_index[k]
  BY DEF append, Record, IndexWith
<1>3. PICK m : m = n
  OBVIOUS
<1>4. /\ m \notin DOMAIN events /\ DOMAIN events' = DOMAIN events \cup {m}
      /\ events'[m] = e /\ \A i \in DOMAIN events : events'[i] = events[i]
  BY <1>3, LogGrows
<1>5. \A k \in D : idempotency_index[k] \in DOMAIN events /\ events[idempotency_index[k]].key = k
  BY DEF MemInv, IndexInverts
<1>6. ASSUME NEW k \in DOMAIN idempotency_index'
      PROVE  idempotency_index'[k] \in DOMAIN events' /\ events'[idempotency_index'[k]].key = k
  <2>1. CASE k = e.key
    <3>1. idempotency_index'[k] = m
      BY <1>2, <1>3, <2>1
    <3> QED BY <1>4, <2>1, <3>1
  <2>2. CASE k # e.key
    <3>1. k \in D /\ idempotency_index'[k] = idempotency_index[k]
      BY <1>2, <2>2
    <3> QED BY <1>4, <1>5, <3>1
  <2> QED BY <2>1, <2>2
<1>7. ASSUME NEW i \in DOMAIN events', events'[i].key # NoKey
      PROVE  events'[i].key \in DOMAIN idempotency_index' /\ idempotency_index'[events'[i].key] = i
  <2>1. CASE i = m
    BY <1>2, <1>3, <1>4, <1>7, <2>1
  <2>2. CASE i \in DOMAIN events
    <3>1. events'[i] = events[i] /\ events[i].key # NoKey
      BY <1>4, <1>7, <2>2
    <3>2. events[i].key \in D /\ idempotency_index[events[i].key] = i
      BY <2>2, <3>1 DEF MemInv, IndexInverts
    <3>3. events[i].key # e.key
      BY <1>1, <3>1, <3>2
    <3> QED BY <1>2, <3>1, <3>2, <3>3
  <2> QED BY <1>4, <2>1, <2>2
<1> QED BY <1>6, <1>7 DEF IndexInverts

(* The stream of the new event's decision takes it at its end; the other   *)
(* streams are what they were.                                             *)
LEMMA RangesGrow ==
  ASSUME MemInv, NEW e \in Event, append(e)
  PROVE  RangesList' /\ by_decision' \in [Decision -> Seq(Nat)]
<1>1. PICK n \in Nat : n = Len(events) + 1
  BY LogGrows
<1>2. /\ n \notin DOMAIN events /\ DOMAIN events' = DOMAIN events \cup {n}
      /\ events'[n] = e /\ \A i \in DOMAIN events : events'[i] = events[i] /\ i \in Nat /\ i < n
      /\ e.decision \in Decision
  <2>1. /\ n \notin DOMAIN events /\ DOMAIN events' = DOMAIN events \cup {n}
        /\ events'[n] = e /\ \A i \in DOMAIN events : events'[i] = events[i]
        /\ e.decision \in Decision
    BY <1>1, LogGrows
  <2>2. Len(events) \in Nat /\ DOMAIN events = 1..Len(events)
    BY LogGrows
  <2>3. \A i \in DOMAIN events : i \in Nat /\ i < n
    BY <1>1, <2>2
  <2> QED BY <2>1, <2>3
<1>3. /\ by_decision \in [Decision -> Seq(Nat)]
      /\ by_decision' = [by_decision EXCEPT ![e.decision] = Append(by_decision[e.decision], n)]
  BY <1>1 DEF MemInv, MemTypeOK, append, Record
<1>4. ASSUME NEW d \in Decision
      PROVE  /\ by_decision'[d] \in Seq(Nat)
             /\ Port!Lists(by_decision'[d], {i \in DOMAIN events' : events'[i].decision = d})
  <2> DEFINE S == {i \in DOMAIN events : events[i].decision = d}
  <2>1. S \in SUBSET Nat /\ \A i \in S : i < n
    BY <1>2
  <2>2. by_decision[d] \in Seq(Nat) /\ Port!Lists(by_decision[d], S)
    BY <1>3 DEF MemInv, RangesList, Port!IsRange
  <2>3. CASE d = e.decision
    <3>1. by_decision'[d] = Append(by_decision[d], n)
      BY <1>3, <2>3
    <3>2. {i \in DOMAIN events' : events'[i].decision = d} = S \cup {n}
      BY <1>2, <2>3
    <3> HIDE DEF S
    <3> QED BY <2>1, <2>2, <3>1, <3>2, ListsGrow
  <2>4. CASE d # e.decision
    <3>1. by_decision'[d] = by_decision[d]
      BY <1>3, <2>4
    <3>2. {i \in DOMAIN events' : events'[i].decision = d} = S
      BY <1>2, <2>4
    <3> QED BY <2>2, <3>1, <3>2
  <2> QED BY <2>3, <2>4
<1>5. by_decision' \in [Decision -> Seq(Nat)]
  BY <1>3, <1>4
<1> QED BY <1>4, <1>5 DEF RangesList, Port!IsRange

(* The views are in step after every call.                                 *)
THEOREM MemInvariant == MemSpec => []MemInv
<1>1. MemInit => MemInv
  BY MemoryAssumption DEF MemInit, MemInv, MemTypeOK, IndexInverts, RangesList, Port!IsRange, Port!Lists
<1>2. MemInv /\ [MemNext]_memVars => MemInv'
  <2> SUFFICES ASSUME MemInv, [MemNext]_memVars PROVE MemInv'
    OBVIOUS
  <2>1. ASSUME NEW e \in Event, append(e) PROVE MemInv'
    <3>1. batched' \subseteq DOMAIN events'
      BY <2>1, LogGrows DEF append, MemInv, MemTypeOK
    <3>2. MemTypeOK'
      BY <2>1, <3>1, LogGrows, RangesGrow DEF MemTypeOK
    <3> QED BY <2>1, <3>2, IndexGrows, RangesGrow DEF MemInv
  <2>2. ASSUME NEW ids \in SUBSET DOMAIN events, mark_batched(ids) PROVE MemInv'
    BY <2>2 DEF mark_batched, MemInv, MemTypeOK, IndexInverts, RangesList, Port!IsRange
  <2>3. CASE UNCHANGED memVars
    BY <2>3 DEF memVars, MemInv, MemTypeOK, IndexInverts, RangesList, Port!IsRange
  <2> QED BY <2>1, <2>2, <2>3 DEF MemNext
<1> QED BY <1>1, <1>2, PTL DEF MemSpec

-------------------------------------------------------------------------------
(* The port.                                                               *)

(* The in-memory adapter implements the port: every append adds one event  *)
(* under a key that no event has, although only the index is looked at,    *)
(* and nothing is ever rewritten.                                          *)
THEOREM MemoryImplementsPort == MemSpec => ImplementsPort
<1>1. MemInit => Port!Init
  BY DEF MemInit, Port!Init
<1>2. MemInv /\ [MemNext]_memVars => [Port!Next]_(Port!auditVars)
  <2> SUFFICES ASSUME MemInv, [MemNext]_memVars PROVE Port!Next \/ UNCHANGED <<events, batched>>
    BY DEF Port!auditVars
  <2>1. ASSUME NEW e \in Event, append(e) PROVE Port!Extend
    <3>1. Len(events') = Len(events) + 1 /\ events'[Len(events')] = e
      BY <2>1, LogGrows
    <3>2. events' = Append(events, events'[Len(events')]) /\ batched' = batched
      BY <2>1, <3>1 DEF append, Record
    <3>3. ~Port!KeyTaken(e.key)
      BY <2>1 DEF append, Duplicate, MemInv, IndexInverts, Port!KeyTaken
    <3> QED BY <3>1, <3>2, <3>3 DEF Port!Extend
  <2>2. ASSUME NEW ids \in SUBSET DOMAIN events, mark_batched(ids) PROVE Port!Batch
    BY <2>2 DEF mark_batched, Port!Batch, MemInv, MemTypeOK
  <2> QED BY <2>1, <2>2 DEF MemNext, memVars, Port!Next
<1> QED BY <1>1, <1>2, MemInvariant, PTL DEF MemSpec, ImplementsPort, Port!Spec

-------------------------------------------------------------------------------
(* The views.                                                              *)

\* One turn of the comprehension in read_unbatched.
Wanted(i) == i \notin batched /\ events[i].type = "MetricCommitted"

Turn(out, i) == IF Wanted(i) THEN Append(out, i) ELSE out

(* The comprehension of read_unbatched, turn by turn.                      *)
LEMMA UnbatchedDef ==
  ASSUME Len(events) \in Nat
  PROVE  /\ Unbatched[0] = <<>>
         /\ \A i \in 1..Len(events) : Unbatched[i] = Turn(Unbatched[i - 1], i)
<1> DEFINE Eq(f, n) == f = [i \in 0..n |-> IF i = 0 THEN <<>> ELSE Turn(f[i - 1], i)]
           T == {n \in Nat : \E f : Eq(f, n)}
<1>1. 0 \in T
  <2> DEFINE f == [i \in 0..0 |-> <<>>]
  <2>1. Eq(f, 0)
    OBVIOUS
  <2> QED BY <2>1
<1>2. ASSUME NEW n \in T PROVE n + 1 \in T
  <2>1. PICK f : Eq(f, n)
    BY <1>2
  <2> DEFINE g == [i \in 0..(n + 1) |-> IF i <= n THEN f[i] ELSE Turn(f[n], n + 1)]
  <2>2. n \in Nat
    BY <1>2
  <2>3. ASSUME NEW i \in 0..(n + 1)
        PROVE  g[i] = IF i = 0 THEN <<>> ELSE Turn(g[i - 1], i)
    <3>1. CASE i = 0
      BY <2>1, <2>2, <3>1
    <3>2. CASE i > 0 /\ i <= n
      <4>1. f[i] = Turn(f[i - 1], i)
        BY <2>1, <2>2, <3>2
      <4>2. g[i] = f[i] /\ g[i - 1] = f[i - 1]
        BY <2>2, <3>2
      <4> QED BY <3>2, <4>1, <4>2
    <3>3. CASE i = n + 1
      <4>1. g[i] = Turn(f[n], n + 1) /\ g[i - 1] = f[n]
        BY <2>2, <3>3
      <4> QED BY <2>2, <3>3, <4>1
    <3> QED BY <2>2, <3>1, <3>2, <3>3
  <2>4. Eq(g, n + 1)
    BY <2>3
  <2> HIDE DEF Eq
  <2> QED BY <2>2, <2>4
<1>3. Len(events) \in T
  BY <1>1, <1>2, SetInduction
<1>4. \E f : Eq(f, Len(events))
  BY <1>3
<1>5. Unbatched = CHOOSE f : Eq(f, Len(events))
  BY DEF Unbatched, Turn, Wanted
<1>6. Eq(Unbatched, Len(events))
  BY <1>4, <1>5
<1> QED BY <1>6

(* After i turns the result lists the unmarked commits among the first i   *)
(* events.                                                                 *)
LEMMA UnbatchedLists ==
  ASSUME Len(events) \in Nat, NEW i \in 0..Len(events)
  PROVE  /\ Unbatched[i] \in Seq(Nat) /\ Len(Unbatched[i]) <= i
         /\ Port!Lists(Unbatched[i], {j \in 1..i : Wanted(j)})
<1> DEFINE P(n) == /\ Unbatched[n] \in Seq(Nat) /\ Len(Unbatched[n]) <= n
                   /\ Port!Lists(Unbatched[n], {j \in 1..n : Wanted(j)})
<1>0. PICK N \in Nat : N = Len(events)
  OBVIOUS
<1> PICK T \in SUBSET Nat : \A n \in Nat : n \in T <=> (n <= N => P(n))
  <2> DEFINE U == {n \in Nat : n <= N => P(n)}
  <2>1. U \in SUBSET Nat /\ \A n \in Nat : n \in U <=> (n <= N => P(n))
    OBVIOUS
  <2> QED BY <2>1
<1>1. 0 \in T
  <2>1. Unbatched[0] = <<>>
    BY UnbatchedDef
  <2>2. P(0)
    BY <2>1 DEF Port!Lists
  <2> QED BY <2>2
<1>2. ASSUME NEW n \in T PROVE n + 1 \in T
  <2>0. n \in Nat /\ n + 1 \in Nat
    BY <1>2
  <2>1. SUFFICES ASSUME n + 1 <= N PROVE P(n + 1)
    BY <2>0
  <2>2. n <= N /\ n + 1 \in 1..N /\ (n + 1) - 1 = n
    BY <2>0, <2>1
  <2>3. P(n)
    BY <1>2, <2>0, <2>2
  <2>4. PICK out : out = Unbatched[n]
    OBVIOUS
  <2>5. PICK S : S = {j \in 1..n : Wanted(j)}
    OBVIOUS
  <2>6. PICK k \in Nat : k = n + 1
    BY <2>0
  <2>7. Unbatched[k] = Turn(out, k)
    <3>1. Unbatched[n + 1] = Turn(Unbatched[(n + 1) - 1], n + 1)
      BY <1>0, <2>2, UnbatchedDef
    <3> QED BY <2>2, <2>4, <2>6, <3>1
  <2>8. out \in Seq(Nat) /\ Len(out) <= n /\ Port!Lists(out, S)
    BY <2>3, <2>4, <2>5
  <2>9. S \in SUBSET Nat /\ \A j \in S : j < k
    BY <2>0, <2>5, <2>6
  <2>10. CASE Wanted(k)
    <3>1. Unbatched[k] = Append(out, k)
      BY <2>7, <2>10 DEF Turn
    <3>2. {j \in 1..k : Wanted(j)} = S \cup {k}
      BY <2>0, <2>5, <2>6, <2>10
    <3>3. Append(out, k) \in Seq(Nat) /\ Len(Append(out, k)) = Len(out) + 1 /\ Port!Lists(Append(out, k), S \cup {k})
      BY <2>8, <2>9, ListsGrow
    <3>4. Len(out) + 1 <= k
      BY <2>0, <2>6, <2>8
    <3> QED BY <2>6, <3>1, <3>2, <3>3, <3>4
  <2>11. CASE ~Wanted(k)
    <3>1. Unbatched[k] = out
      BY <2>7, <2>11 DEF Turn
    <3>2. {j \in 1..k : Wanted(j)} = S
      BY <2>0, <2>5, <2>6, <2>11
    <3>3. Len(out) <= k
      BY <2>0, <2>6, <2>8
    <3> QED BY <2>6, <2>8, <3>1, <3>2, <3>3
  <2> QED BY <2>10, <2>11
<1>3. i \in Nat /\ i <= N
  BY <1>0
<1>4. i \in T
  BY <1>1, <1>2, <1>3, SetInduction
<1> QED BY <1>3, <1>4

(* The index answers with the event that has the key, for exactly the keys *)
(* of the log; read_range lists a decision's events in log order, and      *)
(* read_unbatched, taken to the end, the commits not marked yet.           *)
THEOREM MemoryViewsMatch == MemSpec => []ViewsMatchLog
<1>1. MemInv => ViewsMatchLog
  <2> SUFFICES ASSUME MemInv PROVE ViewsMatchLog
    OBVIOUS
  <2>1. PICK N \in Nat : N = Len(events) /\ DOMAIN events = 1..N /\ N <= MaxEvents
    BY DEF MemInv, MemTypeOK
  <2>2. PICK out : out = Unbatched[N]
    OBVIOUS
  <2>3. out \in Seq(Nat) /\ Len(out) <= N /\ Port!Lists(out, {j \in 1..N : Wanted(j)})
    <3>1. Len(events) \in Nat /\ N \in 0..Len(events)
      BY <2>1
    <3>2. /\ Unbatched[N] \in Seq(Nat) /\ Len(Unbatched[N]) <= N
          /\ Port!Lists(Unbatched[N], {j \in 1..N : Wanted(j)})
      BY <3>1, UnbatchedLists, Zenon
    <3> QED BY <2>2, <3>2
  <2>4. read_unbatched(MaxEvents) = SubSeq(out, 1, Len(out))
    <3>1. ~(MaxEvents < Len(out)) \/ MaxEvents = Len(out)
      BY <2>1, <2>3, MemoryAssumption
    <3> QED BY <2>1, <2>2, <3>1 DEF read_unbatched
  <2>5. SubSeq(out, 1, Len(out)) = out
    BY <2>3
  <2>6. {j \in 1..N : Wanted(j)} = {i \in DOMAIN events : events[i].type = "MetricCommitted"} \ batched
    BY <2>1 DEF Wanted
  <2>7. Port!IsUnbatched(read_unbatched(MaxEvents))
    BY <2>3, <2>4, <2>5, <2>6 DEF Port!IsUnbatched
  <2> QED BY <2>7 DEF MemInv, IndexInverts, RangesList, read_range, ViewsMatchLog
<1> QED BY <1>1, MemInvariant, PTL

-------------------------------------------------------------------------------
(* Numbers in base 256 and in base 128: written, and read back.            *)

(* A set that holds every number below which it holds all holds Nat.       *)
LEMMA StrongInduction ==
  ASSUME NEW T \in SUBSET Nat, \A n \in Nat : (\A m \in 0..(n - 1) : m \in T) => n \in T
  PROVE  \A n \in Nat : n \in T
<1> DEFINE U == {n \in Nat : \A m \in 0..(n - 1) : m \in T}
<1>1. U \in SUBSET Nat
  OBVIOUS
<1>2. 0 \in U
  OBVIOUS
<1>3. ASSUME NEW n \in U PROVE n + 1 \in U
  <2>1. n \in Nat /\ n \in T
    BY <1>3
  <2>2. ASSUME NEW m \in 0..((n + 1) - 1) PROVE m \in T
    <3>1. m = n \/ m \in 0..(n - 1)
      BY <2>1
    <3> QED BY <1>3, <2>1, <3>1
  <2> QED BY <2>1, <2>2
<1>4. ASSUME NEW n \in Nat PROVE n \in T
  <2>1. n \in U
    <3> HIDE DEF U
    <3> QED BY <1>1, <1>2, <1>3, SetInduction
  <2> QED BY <2>1
<1> QED BY <1>4

(* The bound on integers is one.                                           *)
LEMMA MaxIntNat == MaxInt \in Nat /\ MaxInt >= 128
BY SMT DEF MaxInt

(* Numbers of one, two, three and four bytes.                              *)
LEMMA Magnitudes ==
  ASSUME NEW k \in Nat
  PROVE  /\ k < 256 => k <= MaxInt /\ k \div 256 = 0
         /\ k < 65536 => k <= MaxInt /\ k \div 256 < 256
         /\ k < 16777216 => k <= MaxInt /\ k \div 256 < 65536
         /\ k <= MaxInt => k \div 256 < 16777216
BY SMT DEF MaxInt

(* What a byte is.                                                         *)
LEMMA ByteRange == \A b : b \in Byte <=> b \in Nat /\ b < 256
BY DEF Byte

\* One more digit of a number in base b; what the code adds to it.
Digit(s, n, b, add) == Append(s, add + (n % b))

\* f writes the numbers up to N in base b.
IsDigits(f, N, b, add) ==
  f = [n \in 0..N |-> IF n = 0 THEN <<>> ELSE Digit(f[n \div b], n, b, add)]

(* Digits are well defined.                                                *)
LEMMA DigitsExist ==
  ASSUME NEW N \in Nat, NEW b \in {128, 256}, NEW add \in {0, 128}
  PROVE  \E f : IsDigits(f, N, b, add)
<1> DEFINE T == {n \in Nat : \E f : IsDigits(f, n, b, add)}
<1>1. 0 \in T
  <2> DEFINE f == [k \in 0..0 |-> <<>>]
  <2>1. IsDigits(f, 0, b, add)
    BY DEF IsDigits
  <2> QED BY <2>1
<1>2. ASSUME NEW n \in T PROVE n + 1 \in T
  <2>1. PICK f : IsDigits(f, n, b, add)
    BY <1>2
  <2>2. n \in Nat
    BY <1>2
  <2>3. f = [k \in 0..n |-> IF k = 0 THEN <<>> ELSE Digit(f[k \div b], k, b, add)]
    BY <2>1 DEF IsDigits
  <2> DEFINE g == [k \in 0..(n + 1) |->
                     IF k = 0 THEN <<>> ELSE Digit(f[k \div b], k, b, add)]
  <2>4. \A k \in 0..n : g[k] = f[k]
    BY <2>2, <2>3
  <2>5. \A k \in 1..(n + 1) : k \div b \in 0..n
    <3>1. CASE b = 128
      BY <2>2, <3>1
    <3>2. CASE b = 256
      BY <2>2, <3>2
    <3> QED BY <3>1, <3>2
  <2>6. ASSUME NEW k \in 0..(n + 1)
        PROVE  g[k] = IF k = 0 THEN <<>> ELSE Digit(g[k \div b], k, b, add)
    <3>1. CASE k = 0
      BY <3>1
    <3>2. CASE k # 0
      <4>1. k \in 1..(n + 1)
        BY <2>2, <3>2
      <4>2. g[k] = Digit(f[k \div b], k, b, add)
        BY <3>2
      <4> HIDE DEF g
      <4>3. PICK m \in 0..n : m = k \div b
        BY <2>5, <4>1, Zenon
      <4>4. g[k \div b] = f[k \div b]
        BY <2>4, <4>3, Zenon
      <4> QED BY <3>2, <4>2, <4>4
    <3> QED BY <3>1, <3>2
  <2>7. IsDigits(g, n + 1, b, add)
    <3>1. g = [k \in 0..(n + 1) |-> IF k = 0 THEN <<>> ELSE Digit(g[k \div b], k, b, add)]
      BY <2>6
    <3> QED BY <3>1 DEF IsDigits
  <2> QED BY <2>2, <2>7
<1>3. T \in SUBSET Nat
  OBVIOUS
<1>4. N \in T
  <2> HIDE DEF T
  <2> QED BY <1>1, <1>2, <1>3, SetInduction
<1> QED BY <1>4

(* So BigEndian and HighGroups are what their definitions say.             *)
LEMMA BigEndianDef ==
  ASSUME NEW n \in 0..MaxInt
  PROVE  BigEndian[n] = IF n = 0 THEN <<>> ELSE Append(BigEndian[n \div 256], n % 256)
<1>1. MaxInt \in Nat
  BY MaxIntNat
<1>2. PICK f : IsDigits(f, MaxInt, 256, 0)
  BY <1>1, DigitsExist
<1> DEFINE E(g) == g = [k \in 0..MaxInt |-> IF k = 0 THEN <<>> ELSE Append(g[k \div 256], k % 256)]
<1>3. E(f)
  <2>1. f = [k \in 0..MaxInt |-> IF k = 0 THEN <<>> ELSE Append(f[k \div 256], 0 + (k % 256))]
    BY <1>2 DEF IsDigits, Digit
  <2>2. \A k \in 0..MaxInt : 0 + (k % 256) = k % 256
    BY <1>1
  <2> QED BY <2>1, <2>2
<1>4. BigEndian = CHOOSE g : E(g)
  BY DEF BigEndian
<1>5. E(BigEndian)
  <2> HIDE DEF E
  <2> QED BY <1>3, <1>4
<1> QED BY <1>5

(* The groups of seven bits in front of the last one, group by group.      *)
LEMMA HighGroupsDef ==
  ASSUME NEW n \in 0..MaxInt
  PROVE  HighGroups[n] = IF n = 0 THEN <<>> ELSE Append(HighGroups[n \div 128], 128 + (n % 128))
<1>1. MaxInt \in Nat
  BY MaxIntNat
<1>2. PICK f : IsDigits(f, MaxInt, 128, 128)
  BY <1>1, DigitsExist
<1> DEFINE E(g) == g = [k \in 0..MaxInt |-> IF k = 0 THEN <<>>
                                            ELSE Append(g[k \div 128], 128 + (k % 128))]
<1>3. E(f)
  BY <1>2 DEF IsDigits, Digit
<1>4. HighGroups = CHOOSE g : E(g)
  BY DEF HighGroups
<1>5. E(HighGroups)
  BY <1>3, <1>4
<1> QED BY <1>5

\* f is the running value of the first n bytes.
IsValue(f, bytes, n) ==
  f = [k \in 0..n |-> IF k = 0 THEN 0 ELSE 256 * f[k - 1] + bytes[k]]

(* int.from_bytes is well defined.                                         *)
LEMMA ValueExists ==
  ASSUME NEW bytes, NEW N \in Nat
  PROVE  \E f : IsValue(f, bytes, N)
<1> DEFINE T == {n \in Nat : \E f : IsValue(f, bytes, n)}
<1>1. 0 \in T
  <2> DEFINE f == [k \in 0..0 |-> 0]
  <2>1. IsValue(f, bytes, 0)
    BY DEF IsValue
  <2> QED BY <2>1
<1>2. ASSUME NEW n \in T PROVE n + 1 \in T
  <2>1. PICK f : IsValue(f, bytes, n)
    BY <1>2
  <2>2. n \in Nat
    BY <1>2
  <2>0. f = [k \in 0..n |-> IF k = 0 THEN 0 ELSE 256 * f[k - 1] + bytes[k]]
    BY <2>1 DEF IsValue
  <2> DEFINE g == [k \in 0..(n + 1) |-> IF k <= n THEN f[k] ELSE 256 * f[n] + bytes[n + 1]]
  <2>3. ASSUME NEW k \in 0..(n + 1)
        PROVE  g[k] = IF k = 0 THEN 0 ELSE 256 * g[k - 1] + bytes[k]
    <3>1. CASE k = 0
      BY <2>0, <2>2, <3>1
    <3>2. CASE k > 0 /\ k <= n
      <4>1. f[k] = 256 * f[k - 1] + bytes[k]
        BY <2>0, <2>2, <3>2
      <4>2. g[k] = f[k] /\ g[k - 1] = f[k - 1]
        BY <2>2, <3>2
      <4> QED BY <3>2, <4>1, <4>2
    <3>3. CASE k = n + 1
      <4>1. g[k] = 256 * f[n] + bytes[n + 1] /\ g[k - 1] = f[n]
        BY <2>2, <3>3
      <4> QED BY <2>2, <3>3, <4>1
    <3> QED BY <2>2, <3>1, <3>2, <3>3
  <2>4. IsValue(g, bytes, n + 1)
    BY <2>3 DEF IsValue
  <2> QED BY <2>2, <2>4
<1>3. T \in SUBSET Nat
  OBVIOUS
<1>4. N \in T
  <2> HIDE DEF T
  <2> QED BY <1>1, <1>2, <1>3, SetInduction
<1> QED BY <1>4

(* FromBytes is the value after the last byte.                             *)
LEMMA FromBytesValue ==
  ASSUME NEW bytes, Len(bytes) \in Nat
  PROVE  \E f : /\ f[0] = 0 /\ \A k \in 1..Len(bytes) : f[k] = 256 * f[k - 1] + bytes[k]
                /\ FromBytes(bytes) = f[Len(bytes)]
<1>1. PICK g : g = CHOOSE f : IsValue(f, bytes, Len(bytes))
  OBVIOUS
<1>2. IsValue(g, bytes, Len(bytes))
  BY <1>1, ValueExists
<1>3. FromBytes(bytes) = g[Len(bytes)]
  BY <1>1 DEF FromBytes, IsValue
<1>4. g = [k \in 0..Len(bytes) |-> IF k = 0 THEN 0 ELSE 256 * g[k - 1] + bytes[k]]
  BY <1>2 DEF IsValue
<1>5. g[0] = 0 /\ \A k \in 1..Len(bytes) : g[k] = 256 * g[k - 1] + bytes[k]
  BY <1>4
<1> QED BY <1>3, <1>5

(* No byte is zero, and one byte more shifts the value by eight bits.      *)
LEMMA FromBytesAppend ==
  ASSUME NEW s \in Seq(Byte), NEW b \in Byte
  PROVE  /\ FromBytes(<<>>) = 0
         /\ FromBytes(s) \in Nat
         /\ FromBytes(Append(s, b)) = 256 * FromBytes(s) + b
<1>0. FromBytes(<<>>) = 0
  <2>1. Len(<<>>) = 0
    OBVIOUS
  <2>2. PICK f : f[0] = 0 /\ FromBytes(<<>>) = f[Len(<<>>)]
    BY <2>1, FromBytesValue
  <2> QED BY <2>1, <2>2
<1>1. PICK new : new = Append(s, b)
  OBVIOUS
<1>2. PICK n \in Nat : /\ n = Len(s) /\ Len(new) = n + 1 /\ new[n + 1] = b
                       /\ \A i \in 1..n : new[i] = s[i]
  BY <1>1
<1>3. PICK f : /\ f[0] = 0 /\ \A k \in 1..n : f[k] = 256 * f[k - 1] + s[k]
               /\ FromBytes(s) = f[n]
  BY <1>2, FromBytesValue
<1>4. PICK g : /\ g[0] = 0 /\ \A k \in 1..(n + 1) : g[k] = 256 * g[k - 1] + new[k]
               /\ FromBytes(new) = g[n + 1]
  <2>1. Len(new) \in Nat
    BY <1>2
  <2>2. \E g : /\ g[0] = 0 /\ \A k \in 1..Len(new) : g[k] = 256 * g[k - 1] + new[k]
               /\ FromBytes(new) = g[Len(new)]
    BY <2>1, FromBytesValue
  <2> QED BY <1>2, <2>2
<1> DEFINE T == {k \in Nat : k <= n => f[k] = g[k] /\ f[k] \in Nat}
<1>5. 0 \in T
  BY <1>3, <1>4
<1>6. ASSUME NEW k \in T PROVE k + 1 \in T
  <2>1. SUFFICES ASSUME k + 1 <= n PROVE f[k + 1] = g[k + 1] /\ f[k + 1] \in Nat
    BY <1>6
  <2>2. /\ k + 1 \in 1..n /\ k + 1 \in 1..(n + 1) /\ (k + 1) - 1 = k /\ f[k] = g[k] /\ f[k] \in Nat
    BY <1>6, <2>1
  <2>3. f[k + 1] = 256 * f[(k + 1) - 1] + s[k + 1] /\ g[k + 1] = 256 * g[(k + 1) - 1] + new[k + 1]
    BY <1>3, <1>4, <2>2
  <2>4. s[k + 1] \in Byte /\ new[k + 1] = s[k + 1]
    BY <1>2, <2>2
  <2>5. s[k + 1] \in Nat
    BY <2>4, ByteRange
  <2> QED BY <2>2, <2>3, <2>4, <2>5
<1>7. T \in SUBSET Nat
  OBVIOUS
<1>8. n \in T
  <2> HIDE DEF T
  <2> QED BY <1>5, <1>6, <1>7, SetInduction
<1>9. g[n + 1] = 256 * g[(n + 1) - 1] + new[n + 1] /\ (n + 1) - 1 = n
  BY <1>4
<1>10. f[n] = g[n] /\ f[n] \in Nat
  BY <1>8
<1> QED BY <1>0, <1>1, <1>2, <1>3, <1>4, <1>9, <1>10

(* What int.to_bytes writes, int.from_bytes reads, also behind a zero.     *)
LEMMA NumberReadsBack ==
  ASSUME NEW N \in 0..MaxInt
  PROVE  /\ BigEndian[N] \in Seq(Byte)
         /\ FromBytes(BigEndian[N]) = N
         /\ FromBytes(<<0>> \o BigEndian[N]) = N
<1> DEFINE P(n) == /\ BigEndian[n] \in Seq(Byte) /\ FromBytes(BigEndian[n]) = n
                   /\ FromBytes(<<0>> \o BigEndian[n]) = n
           T == {n \in Nat : n <= MaxInt => P(n)}
<1>1. ASSUME NEW n \in Nat, \A m \in 0..(n - 1) : m \in T PROVE n \in T
  <2>1. SUFFICES ASSUME n <= MaxInt PROVE P(n)
    OBVIOUS
  <2>2. n \in 0..MaxInt
    BY <2>1, MaxIntNat
  <2>3. CASE n = 0
    <3>1. BigEndian[n] = <<>>
      BY <2>2, <2>3, BigEndianDef
    <3>2. <<>> \in Seq(Byte) /\ 0 \in Byte
      BY ByteRange
    <3>3. FromBytes(<<>>) = 0 /\ FromBytes(Append(<<>>, 0)) = 256 * FromBytes(<<>>) + 0
      BY <3>2, FromBytesAppend
    <3>4. Append(<<>>, 0) = <<0>> \o <<>>
      OBVIOUS
    <3> QED BY <2>3, <3>1, <3>2, <3>3, <3>4
  <2>4. CASE n # 0
    <3>1. PICK m \in Nat, b \in Byte : m = n \div 256 /\ b = n % 256 /\ n = 256 * m + b /\ m < n
      BY <2>4, ByteRange
    <3>2. P(m)
      BY <1>1, <2>1, <3>1, MaxIntNat
    <3>3. BigEndian[n] = Append(BigEndian[m], b)
      BY <2>2, <2>4, <3>1, BigEndianDef
    <3>4. PICK s \in Seq(Byte) : s = BigEndian[m]
      BY <3>2
    <3>5. <<0>> \o s \in Seq(Byte) /\ <<0>> \o Append(s, b) = Append(<<0>> \o s, b)
      <4>1. <<0>> \in Seq(Byte) /\ <<b>> \in Seq(Byte)
        BY ByteRange
      <4>2. Append(s, b) = s \o <<b>>
        BY AppendIsConcat
      <4>3. <<0>> \o s \in Seq(Byte)
        BY <4>1, ConcatProperties
      <4>4. Append(<<0>> \o s, b) = (<<0>> \o s) \o <<b>>
        BY <4>3, AppendIsConcat
      <4>5. (<<0>> \o s) \o <<b>> = <<0>> \o (s \o <<b>>)
        BY <4>1, ConcatAssociative
      <4> QED BY <4>2, <4>3, <4>4, <4>5
    <3>6. FromBytes(Append(s, b)) = 256 * FromBytes(s) + b
      BY FromBytesAppend
    <3>7. FromBytes(Append(<<0>> \o s, b)) = 256 * FromBytes(<<0>> \o s) + b
      BY <3>5, FromBytesAppend
    <3>8. Append(s, b) \in Seq(Byte)
      OBVIOUS
    <3>9. FromBytes(s) = m /\ FromBytes(<<0>> \o s) = m
      BY <3>2, <3>4
    <3>10. b \in Nat
      BY ByteRange
    <3>11. FromBytes(Append(s, b)) = n /\ FromBytes(Append(<<0>> \o s, b)) = n
      BY <3>1, <3>6, <3>7, <3>9, <3>10
    <3>12. BigEndian[n] = Append(s, b) /\ <<0>> \o BigEndian[n] = Append(<<0>> \o s, b)
      BY <3>3, <3>4, <3>5
    <3> QED BY <3>8, <3>11, <3>12
  <2> QED BY <2>3, <2>4
<1>2. T \in SUBSET Nat
  OBVIOUS
<1>3. N \in T
  <2>1. N \in Nat
    BY MaxIntNat
  <2> HIDE DEF T
  <2> QED BY <1>1, <1>2, <2>1, StrongInduction
<1> QED BY <1>3, MaxIntNat

(* A number below 2^31 has at most four bytes, and one if it is not zero.  *)
LEMMA NumberLength ==
  ASSUME NEW n \in 0..MaxInt
  PROVE  Len(BigEndian[n]) \in Nat /\ Len(BigEndian[n]) <= 4 /\ (n > 0 => Len(BigEndian[n]) >= 1)
<1>0. \A k \in 1..MaxInt : /\ k \div 256 \in 0..MaxInt
                           /\ Len(BigEndian[k]) = Len(BigEndian[k \div 256]) + 1
                           /\ Len(BigEndian[k \div 256]) \in Nat
  <2> SUFFICES ASSUME NEW k \in 1..MaxInt
               PROVE  /\ k \div 256 \in 0..MaxInt
                      /\ Len(BigEndian[k]) = Len(BigEndian[k \div 256]) + 1
                      /\ Len(BigEndian[k \div 256]) \in Nat
    OBVIOUS
  <2>1. PICK m \in 0..MaxInt, b \in Byte : m = k \div 256 /\ b = k % 256
    BY MaxIntNat, ByteRange
  <2>2. BigEndian[m] \in Seq(Byte)
    BY NumberReadsBack
  <2>3. BigEndian[k] = Append(BigEndian[m], b)
    <3>1. k \in 0..MaxInt /\ k # 0
      BY MaxIntNat
    <3> QED BY <2>1, <3>1, BigEndianDef
  <2>4. Len(Append(BigEndian[m], b)) = Len(BigEndian[m]) + 1 /\ Len(BigEndian[m]) \in Nat
    BY <2>2
  <2> QED BY <2>1, <2>3, <2>4
<1>1. BigEndian[0] = <<>>
  <2>1. 0 \in 0..MaxInt
    BY MaxIntNat
  <2> QED BY <2>1, BigEndianDef
<1>2. Len(BigEndian[0]) = 0
  BY <1>1
<1>3. ASSUME NEW k \in Nat, k <= MaxInt, NEW b \in Nat, Len(BigEndian[k \div 256]) <= b
      PROVE  Len(BigEndian[k]) <= b + 1
  <2>1. CASE k = 0
    BY <1>2, <2>1
  <2>2. CASE k # 0
    <3>1. k \in 1..MaxInt
      BY <1>3, <2>2, MaxIntNat
    <3> QED BY <1>0, <1>3, <3>1
  <2> QED BY <2>1, <2>2
<1>4. ASSUME NEW k \in Nat, k < 256 PROVE Len(BigEndian[k]) <= 1
  <2>1. k <= MaxInt /\ Len(BigEndian[k \div 256]) <= 0
    BY <1>2, <1>4, Magnitudes
  <2> QED BY <1>3, <2>1
<1>5. ASSUME NEW k \in Nat, k < 65536 PROVE Len(BigEndian[k]) <= 2
  <2>1. k <= MaxInt /\ k \div 256 \in Nat /\ k \div 256 < 256
    BY <1>5, Magnitudes
  <2>2. Len(BigEndian[k \div 256]) <= 1
    BY <1>4, <2>1
  <2> QED BY <1>3, <2>1, <2>2, SMT
<1>6. ASSUME NEW k \in Nat, k < 16777216 PROVE Len(BigEndian[k]) <= 3
  <2>1. k <= MaxInt /\ k \div 256 \in Nat /\ k \div 256 < 65536
    BY <1>6, Magnitudes
  <2>2. Len(BigEndian[k \div 256]) <= 2
    BY <1>5, <2>1, SMT
  <2> QED BY <1>3, <2>1, <2>2, SMT
<1>7. Len(BigEndian[n]) <= 4
  <2>1. n \in Nat /\ n <= MaxInt
    BY MaxIntNat
  <2>2. n \div 256 \in Nat /\ n \div 256 < 16777216
    BY <2>1, Magnitudes, SMT
  <2>3. Len(BigEndian[n \div 256]) <= 3
    BY <1>6, <2>2, SMT
  <2> QED BY <1>3, <2>1, <2>3, SMT
<1>8. Len(BigEndian[n]) \in Nat
  BY NumberReadsBack
<1>9. n > 0 => Len(BigEndian[n]) >= 1
  BY <1>0, MaxIntNat
<1> QED BY <1>7, <1>8, <1>9

-------------------------------------------------------------------------------
(* One TLV: tag, length octets and content are found again.                *)

(* What a decoder returned or raised.                                      *)
LEMMA Outcomes ==
  /\ Raised.ok = FALSE
  /\ \A x : Returned(x).ok = TRUE /\ Returned(x).val = x
BY DEF Raised, Returned

(* A length takes one to five bytes; the first one tells which.            *)
LEMMA LengthOctets ==
  ASSUME NEW n \in 0..MaxInt
  PROVE  /\ DerLength(n) \in Seq(Byte)
         /\ n < 128 => DerLength(n) = <<n>>
         /\ n >= 128 => /\ BigEndian[n] \in Seq(Byte)
                        /\ Len(BigEndian[n]) \in Nat /\ Len(BigEndian[n]) >= 1
                        /\ Len(BigEndian[n]) <= 4
                        /\ DerLength(n) = <<128 + Len(BigEndian[n])>> \o BigEndian[n]
<1>0. n \in Nat
  BY MaxIntNat
<1>1. CASE n < 128
  <2>1. n \in Byte
    BY <1>0, <1>1, ByteRange
  <2>2. DerLength(n) = <<n>>
    BY <1>1 DEF DerLength
  <2>3. <<n>> \in Seq(Byte)
    BY <2>1
  <2> QED BY <1>0, <1>1, <2>2, <2>3
<1>2. CASE n >= 128
  <2>1. BigEndian[n] \in Seq(Byte)
    BY NumberReadsBack
  <2>2. Len(BigEndian[n]) \in Nat /\ Len(BigEndian[n]) <= 4 /\ Len(BigEndian[n]) >= 1
    BY <1>0, <1>2, NumberLength
  <2>3. 128 + Len(BigEndian[n]) \in Byte
    BY <2>2, ByteRange
  <2>4. DerLength(n) = <<128 + Len(BigEndian[n])>> \o BigEndian[n]
    BY <1>0, <1>2 DEF DerLength
  <2>5. <<128 + Len(BigEndian[n])>> \in Seq(Byte)
    BY <2>3
  <2>6. DerLength(n) \in Seq(Byte)
    BY <2>1, <2>4, <2>5, ConcatProperties
  <2> QED BY <1>0, <1>2, <2>1, <2>2, <2>4, <2>6
<1> QED BY <1>0, <1>1, <1>2

\* Tag and length of a TLV, in front of its content.
Head2(t, n) == <<t>> \o DerLength(n)

(* They take two to six bytes.                                             *)
LEMMA HeadShape ==
  ASSUME NEW t \in Byte, NEW n \in 0..MaxInt
  PROVE  /\ Head2(t, n) \in Seq(Byte) /\ Len(Head2(t, n)) \in Nat
         /\ Len(Head2(t, n)) >= 2 /\ Len(Head2(t, n)) <= 6
         /\ Head2(t, n)[1] = t
         /\ n < 128 => Len(Head2(t, n)) = 2 /\ Head2(t, n)[2] = n
<1>0. n \in Nat /\ <<t>> \in Seq(Byte) /\ Len(<<t>>) = 1 /\ <<t>>[1] = t
  BY MaxIntNat
<1>1. PICK h : h = Head2(t, n)
  OBVIOUS
<1>2. PICK l \in Seq(Byte) : l = DerLength(n)
  BY LengthOctets
<1>3. /\ h \in Seq(Byte) /\ Len(h) = 1 + Len(l) /\ Len(l) \in Nat
      /\ \A i \in 1..(1 + Len(l)) : h[i] = IF i <= 1 THEN <<t>>[i] ELSE l[i - 1]
  BY <1>0, <1>1, <1>2, ConcatProperties DEF Head2
<1>4. CASE n < 128
  <2>1. l = <<n>>
    BY <1>2, <1>4, LengthOctets
  <2>2. Len(l) = 1 /\ l[1] = n
    BY <2>1
  <2>3. h[1] = t /\ h[2] = n
    BY <1>0, <1>3, <2>2
  <2> QED BY <1>0, <1>1, <1>3, <1>4, <2>2, <2>3
<1>5. CASE n >= 128
  <2>1. PICK k \in Nat : k >= 1 /\ k <= 4 /\ k = Len(BigEndian[n]) /\ BigEndian[n] \in Seq(Byte)
    BY <1>5, LengthOctets
  <2>2. l = <<128 + k>> \o BigEndian[n]
    BY <1>2, <1>5, <2>1, LengthOctets
  <2>3. Len(l) = 1 + k
    BY <2>1, <2>2
  <2>4. h[1] = t
    BY <1>0, <1>3, <2>3
  <2> QED BY <1>0, <1>1, <1>3, <1>5, <2>1, <2>3, <2>4
<1> QED BY <1>0, <1>4, <1>5

(* The long form: the number of length bytes, and these.                   *)
LEMMA LongHead ==
  ASSUME NEW t \in Byte, NEW n \in 0..MaxInt, n >= 128,
         NEW h \in Seq(Byte), h = Head2(t, n), NEW b \in Seq(Byte), b = BigEndian[n]
  PROVE  /\ b \in Seq(Byte) /\ Len(b) \in Nat /\ Len(b) >= 1
         /\ Len(h) = 2 + Len(b) /\ h[2] = 128 + Len(b)
         /\ \A i \in 1..Len(b) : h[i + 2] = b[i]
<1>0. n \in Nat /\ <<t>> \in Seq(Byte) /\ Len(<<t>>) = 1 /\ <<t>>[1] = t
  BY MaxIntNat
<1>2. PICK l \in Seq(Byte) : l = DerLength(n)
  BY LengthOctets
<1>3. /\ h \in Seq(Byte) /\ Len(h) = 1 + Len(l) /\ Len(l) \in Nat
      /\ \A i \in 1..(1 + Len(l)) : h[i] = IF i <= 1 THEN <<t>>[i] ELSE l[i - 1]
  BY <1>0, <1>2, ConcatProperties DEF Head2
<1>4. PICK k \in Nat : k = Len(b) /\ k >= 1 /\ k <= 4 /\ b \in Seq(Byte)
  BY LengthOctets
<1>5. l = <<128 + k>> \o b
  BY <1>2, <1>4, LengthOctets
<1>6. Len(l) = 1 + k /\ l[1] = 128 + k /\ \A i \in 1..k : l[i + 1] = b[i]
  BY <1>4, <1>5
<1>7. h[2] = 128 + k
  BY <1>0, <1>3, <1>4, <1>6
<1>8. ASSUME NEW i \in 1..k PROVE h[i + 2] = b[i]
  <2>1. i + 2 \in 1..(1 + Len(l)) /\ ~(i + 2 <= 1) /\ (i + 2) - 1 = i + 1
    BY <1>4, <1>6
  <2>2. h[i + 2] = l[(i + 2) - 1]
    BY <1>3, <2>1
  <2> QED BY <1>6, <2>1, <2>2
<1> QED BY <1>3, <1>4, <1>6, <1>7, <1>8

(* Header reads them back, whatever comes after them.                      *)
LEMMA HeaderReads ==
  ASSUME NEW t \in Byte, t % 32 # 31, NEW n \in 0..MaxInt, NEW tail \in Seq(Byte)
  PROVE  LET d == Head2(t, n) \o tail IN
         /\ d[1] = t
         /\ Header(d) = Returned([start |-> Len(Head2(t, n)), length |-> n])
<1>0. n \in Nat
  BY MaxIntNat
<1>1. PICK h \in Seq(Byte) : h = Head2(t, n)
  BY HeadShape
<1>2. PICK d : d = h \o tail
  OBVIOUS
<1>3. /\ d \in Seq(Byte) /\ Len(d) = Len(h) + Len(tail) /\ Len(tail) \in Nat
      /\ \A i \in 1..(Len(h) + Len(tail)) : d[i] = IF i <= Len(h) THEN h[i] ELSE tail[i - Len(h)]
  BY <1>2, ConcatProperties
<1>4. Len(h) \in Nat /\ Len(h) >= 2 /\ h[1] = t
  BY <1>1, HeadShape
<1>5. d[1] = t /\ d[2] = h[2] /\ Len(d) >= 2
  BY <1>3, <1>4
<1>6. CASE n < 128
  <2>1. Len(h) = 2 /\ h[2] = n
    BY <1>1, <1>6, HeadShape
  <2>2. ~(d[2] >= 128) /\ 2 + 0 <= Len(d) /\ ~(Len(d) < 2)
    BY <1>0, <1>3, <1>5, <1>6, <2>1
  <2>3. Header(d) = Returned([start |-> 2 + 0, length |-> d[2]])
    BY <1>3, <1>5, <2>2 DEF Header
  <2> QED BY <1>1, <1>2, <1>5, <2>1, <2>3
<1>7. CASE n >= 128
  <2>1. PICK b \in Seq(Byte) : b = BigEndian[n]
    BY NumberReadsBack
  <2>2. PICK k \in Nat : /\ k = Len(b) /\ k >= 1 /\ Len(h) = 2 + k /\ h[2] = 128 + k
                         /\ \A i \in 1..k : h[i + 2] = b[i]
    <3>1. /\ Len(b) \in Nat /\ Len(b) >= 1 /\ Len(h) = 2 + Len(b) /\ h[2] = 128 + Len(b)
          /\ \A i \in 1..Len(b) : h[i + 2] = b[i]
      BY <1>1, <1>7, <2>1, LongHead, SMTT(60)
    <3> QED BY <3>1
  <2>3. d[2] >= 128 /\ d[2] - 128 = k /\ k # 0 /\ 2 + k <= Len(d) /\ ~(Len(d) < 2)
    BY <1>3, <1>5, <2>2
  <2>4. SubSeq(d, 3, 2 + k) = b
    <3>1. \A i \in 3..(2 + k) : d[i] \in Byte
      BY <1>3, <2>2
    <3>2. /\ SubSeq(d, 3, 2 + k) \in Seq(Byte) /\ Len(SubSeq(d, 3, 2 + k)) = k
          /\ \A i \in 1..k : SubSeq(d, 3, 2 + k)[i] = d[3 + i - 1]
      <4>1. /\ SubSeq(d, 3, 2 + k) \in Seq(Byte)
            /\ Len(SubSeq(d, 3, 2 + k)) = IF 3 <= 2 + k THEN (2 + k) - 3 + 1 ELSE 0
            /\ \A i \in 1..((2 + k) - 3 + 1) : SubSeq(d, 3, 2 + k)[i] = d[3 + i - 1]
        BY <2>2, <3>1, SubSeqProperties
      <4> QED BY <2>2, <4>1
    <3>3. ASSUME NEW i \in 1..k PROVE d[3 + i - 1] = b[i]
      <4>1. 3 + i - 1 = i + 2 /\ i + 2 \in 1..(Len(h) + Len(tail)) /\ i + 2 <= Len(h)
        BY <1>3, <2>2
      <4>2. d[i + 2] = h[i + 2]
        BY <1>3, <4>1
      <4> QED BY <2>2, <4>1, <4>2
    <3> QED BY <2>2, <3>2, <3>3, SeqEqual
  <2>5. Header(d) = Returned([start |-> 2 + k, length |-> FromBytes(SubSeq(d, 3, 2 + k))])
    BY <1>3, <1>5, <2>3 DEF Header
  <2>6. FromBytes(SubSeq(d, 3, 2 + k)) = n
    BY <2>1, <2>4, NumberReadsBack
  <2> QED BY <1>1, <1>2, <1>5, <2>2, <2>5, <2>6
<1>8. n < 128 \/ n >= 128
  BY <1>0
<1> QED BY <1>6, <1>7, <1>8

\* The node of a TLV.
Node(t, c, children) ==
  [class |-> t \div 64, number |-> t % 32, constructed |-> IsConstructed(t),
   content |-> c, children |-> children]

(* A TLV is its head and its content.                                      *)
LEMMA TlvShape ==
  ASSUME NEW t \in Byte, NEW c \in Message
  PROVE  /\ Len(c) \in 0..MaxInt /\ c \in Seq(Byte)
         /\ Tlv(t, c) = Head2(t, Len(c)) \o c
         /\ Tlv(t, c) \in Seq(Byte)
         /\ Len(Tlv(t, c)) = Len(Head2(t, Len(c))) + Len(c)
         /\ Len(Tlv(t, c)) <= Len(c) + 6 /\ Len(Tlv(t, c)) >= 2
<1>1. c \in Seq(Byte) /\ Len(c) \in Nat /\ Len(c) <= MaxInt
  BY DEF Message
<1>2. Len(c) \in 0..MaxInt
  BY <1>1, MaxIntNat
<1>3. PICK h \in Seq(Byte) : /\ h = Head2(t, Len(c)) /\ Len(h) \in Nat
                             /\ Len(h) >= 2 /\ Len(h) <= 6
  BY <1>2, HeadShape
<1>4. Tlv(t, c) = h \o c
  BY <1>3 DEF Tlv, Head2
<1>5. h \o c \in Seq(Byte) /\ Len(h \o c) = Len(h) + Len(c)
  BY <1>1, <1>3, ConcatProperties
<1> QED BY <1>1, <1>2, <1>3, <1>4, <1>5

(* The first TLV of what starts with one is that one.                      *)
LEMMA FirstReads ==
  ASSUME NEW t \in Byte, t % 32 # 31, NEW c \in Message, NEW rest \in Seq(Byte), NEW all
  PROVE  LET r == IF IsConstructed(t) THEN all[c] ELSE Returned(<<>>) IN
         FirstTlv(Tlv(t, c) \o rest, all)
           = IF r.ok THEN Returned([node |-> Node(t, c, r.val), next |-> rest]) ELSE r
<1>1. PICK n \in 0..MaxInt : n = Len(c) /\ n \in Nat
  BY TlvShape, MaxIntNat
<1>2. PICK h \in Seq(Byte) : h = Head2(t, n) /\ Len(h) \in Nat /\ Len(h) >= 2
  BY HeadShape
<1>3. c \in Seq(Byte) /\ Tlv(t, c) = h \o c
  BY <1>1, <1>2, TlvShape
<1>4. PICK d : d = Tlv(t, c) \o rest
  OBVIOUS
<1>5. d = h \o (c \o rest) /\ c \o rest \in Seq(Byte)
  <2>1. (h \o c) \o rest = h \o (c \o rest)
    BY <1>3, ConcatAssociative
  <2>2. c \o rest \in Seq(Byte)
    BY <1>3, ConcatProperties
  <2> QED BY <1>3, <1>4, <2>1, <2>2
<1> DEFINE hd == [start |-> Len(h), length |-> n]
<1>6. d[1] = t /\ Header(d) = Returned(hd)
  BY <1>2, <1>5, HeaderReads
<1>7. /\ Len(d) = Len(h) + n + Len(rest) /\ Len(rest) \in Nat /\ d \in Seq(Byte)
      /\ \A i \in 1..n : d[Len(h) + i] = c[i]
      /\ \A i \in 1..Len(rest) : d[Len(h) + n + i] = rest[i]
  <2>1. /\ Len(h \o c) = Len(h) + n /\ h \o c \in Seq(Byte)
        /\ \A i \in 1..(Len(h) + n) : (h \o c)[i] = IF i <= Len(h) THEN h[i] ELSE c[i - Len(h)]
    BY <1>1, <1>3, ConcatProperties
  <2>2. d = (h \o c) \o rest
    BY <1>3, <1>4
  <2>3. /\ d \in Seq(Byte) /\ Len(d) = Len(h \o c) + Len(rest)
        /\ \A i \in 1..(Len(h \o c) + Len(rest)) :
             d[i] = IF i <= Len(h \o c) THEN (h \o c)[i] ELSE rest[i - Len(h \o c)]
    BY <2>1, <2>2, ConcatProperties
  <2>4. Len(rest) \in Nat
    OBVIOUS
  <2>5. ASSUME NEW i \in 1..n PROVE d[Len(h) + i] = c[i]
    <3>1. /\ Len(h) + i \in 1..(Len(h) + n) /\ ~(Len(h) + i <= Len(h)) /\ (Len(h) + i) - Len(h) = i
          /\ Len(h) + i \in 1..(Len(h \o c) + Len(rest)) /\ Len(h) + i <= Len(h \o c)
      BY <1>1, <1>2, <2>1, <2>4
    <3>2. d[Len(h) + i] = (h \o c)[Len(h) + i]
      BY <2>3, <3>1
    <3> QED BY <2>1, <3>1, <3>2
  <2>6. ASSUME NEW i \in 1..Len(rest) PROVE d[Len(h) + n + i] = rest[i]
    <3>1. /\ Len(h) + n + i \in 1..(Len(h \o c) + Len(rest)) /\ ~(Len(h) + n + i <= Len(h \o c))
          /\ (Len(h) + n + i) - Len(h \o c) = i
      BY <1>1, <1>2, <2>1, <2>4
    <3> QED BY <2>3, <3>1
  <2> QED BY <2>1, <2>3, <2>4, <2>5, <2>6
<1>8. SubSeq(d, Len(h) + 1, Len(h) + n) = c
  <2>1. \A i \in (Len(h) + 1)..(Len(h) + n) : d[i] \in Byte
    BY <1>1, <1>2, <1>7
  <2>2. /\ SubSeq(d, Len(h) + 1, Len(h) + n) \in Seq(Byte)
        /\ Len(SubSeq(d, Len(h) + 1, Len(h) + n))
             = IF Len(h) + 1 <= Len(h) + n THEN (Len(h) + n) - (Len(h) + 1) + 1 ELSE 0
        /\ \A i \in 1..((Len(h) + n) - (Len(h) + 1) + 1) :
             SubSeq(d, Len(h) + 1, Len(h) + n)[i] = d[(Len(h) + 1) + i - 1]
    BY <1>1, <1>2, <2>1, SubSeqProperties
  <2>3. Len(SubSeq(d, Len(h) + 1, Len(h) + n)) = n
    BY <1>1, <1>2, <2>2
  <2>4. ASSUME NEW i \in 1..n PROVE SubSeq(d, Len(h) + 1, Len(h) + n)[i] = c[i]
    <3>1. i \in 1..((Len(h) + n) - (Len(h) + 1) + 1) /\ (Len(h) + 1) + i - 1 = Len(h) + i
      BY <1>1, <1>2
    <3> QED BY <1>7, <2>2, <3>1
  <2> QED BY <1>1, <1>3, <2>2, <2>3, <2>4, SeqEqual
<1>9. SubSeq(d, Len(h) + n + 1, Len(d)) = rest
  <2>1. \A i \in (Len(h) + n + 1)..Len(d) : d[i] \in Byte
    BY <1>1, <1>2, <1>7
  <2>2. /\ SubSeq(d, Len(h) + n + 1, Len(d)) \in Seq(Byte)
        /\ Len(SubSeq(d, Len(h) + n + 1, Len(d)))
             = IF Len(h) + n + 1 <= Len(d) THEN Len(d) - (Len(h) + n + 1) + 1 ELSE 0
        /\ \A i \in 1..(Len(d) - (Len(h) + n + 1) + 1) :
             SubSeq(d, Len(h) + n + 1, Len(d))[i] = d[(Len(h) + n + 1) + i - 1]
    BY <1>1, <1>2, <1>7, <2>1, SubSeqProperties
  <2>3. Len(SubSeq(d, Len(h) + n + 1, Len(d))) = Len(rest)
    BY <1>1, <1>2, <1>7, <2>2
  <2>4. ASSUME NEW i \in 1..Len(rest) PROVE SubSeq(d, Len(h) + n + 1, Len(d))[i] = rest[i]
    <3>1. i \in 1..(Len(d) - (Len(h) + n + 1) + 1) /\ (Len(h) + n + 1) + i - 1 = Len(h) + n + i
      BY <1>1, <1>2, <1>7
    <3> QED BY <1>7, <2>2, <3>1
  <2> QED BY <2>2, <2>3, <2>4, SeqEqual
<1>10. hd.start = Len(h) /\ hd.length = n
  OBVIOUS
<1>11. Content(d, hd) = Returned(c)
  <2>1. Len(h) + n <= Len(d)
    BY <1>1, <1>2, <1>7
  <2> HIDE DEF hd
  <2> QED BY <1>8, <1>10, <2>1 DEF Content, When
<1> DEFINE r == IF IsConstructed(t) THEN all[c] ELSE Returned(<<>>)
<1>12. FirstTlv(d, all) = IF r.ok THEN Returned([node |-> Node(t, c, r.val), next |-> rest]) ELSE r
  <2> HIDE DEF hd
  <2>1. Header(d).ok /\ Header(d).val = hd /\ Content(d, hd).ok /\ Content(d, hd).val = c
    BY <1>6, <1>11, Outcomes
  <2>2. FirstTlv(d, all) =
          IF r.ok THEN Returned([node |-> Node(t, c, r.val),
                                 next |-> SubSeq(d, hd.start + hd.length + 1, Len(d))]) ELSE r
    BY <1>6, <2>1 DEF FirstTlv, Then, Node
  <2> HIDE DEF r
  <2> QED BY <1>9, <1>10, <2>2
<1> QED BY <1>4, <1>12

-------------------------------------------------------------------------------
(* What is read is shorter than what it is read from.                      *)

(* A header that is read leaves where the content starts and its length.   *)
LEMMA HeaderType ==
  ASSUME NEW d \in Seq(Byte), Header(d).ok
  PROVE  /\ Len(d) >= 2
         /\ Header(d).val.start \in Nat /\ Header(d).val.start >= 2
         /\ Header(d).val.length \in Nat
<1>1. Len(d) \in Nat /\ Len(d) >= 2
  BY Outcomes DEF Header
<1>2. PICK x \in Nat : x = d[2]
  BY <1>1, ByteRange
<1>3. CASE x >= 128
  <2>1. PICK k \in Nat : k = x - 128
    BY <1>3
  <2>2. ~(d[1] % 32 = 31 \/ k = 0 \/ 2 + k > Len(d))
    BY <1>1, <1>2, <1>3, <2>1, Outcomes DEF Header
  <2>3. Header(d) = Returned([start |-> 2 + k, length |-> FromBytes(SubSeq(d, 3, 2 + k))])
    BY <1>1, <1>2, <1>3, <2>1, <2>2 DEF Header
  <2>4. \A i \in 3..(2 + k) : d[i] \in Byte
    BY <1>1, <2>1, <2>2
  <2>5. SubSeq(d, 3, 2 + k) \in Seq(Byte)
    BY <2>1, <2>4, SubSeqProperties
  <2>6. 0 \in Byte
    BY ByteRange
  <2>7. FromBytes(SubSeq(d, 3, 2 + k)) \in Nat
    BY <2>5, <2>6, FromBytesAppend
  <2> QED BY <1>1, <2>1, <2>3, <2>7, Outcomes
<1>4. CASE ~(x >= 128)
  <2>1. Header(d) = Returned([start |-> 2 + 0, length |-> x])
    <3>1. ~(d[1] % 32 = 31)
      BY <1>1, <1>2, <1>4, Outcomes DEF Header
    <3>2. ~(2 + 0 > Len(d))
      BY <1>1
    <3> QED BY <1>1, <1>2, <1>4, <3>1, <3>2 DEF Header
  <2> QED BY <1>1, <1>2, <2>1, Outcomes
<1> QED BY <1>3, <1>4

\* Byte sequences up to a length.
Short(n) == {d \in Seq(Byte) : Len(d) <= n}

\* What FirstTlv reads from data, step by step.
Head1(d) == Header(d).val
Inner(d) == SubSeq(d, Head1(d).start + 1, Head1(d).start + Head1(d).length)
Behind(d) == SubSeq(d, Head1(d).start + Head1(d).length + 1, Len(d))
Fits(d) == Header(d).ok /\ Head1(d).start + Head1(d).length <= Len(d)

(* Content and remainder are shorter than what they are part of.           *)
LEMMA PartsShorter ==
  ASSUME NEW d \in Seq(Byte), Fits(d)
  PROVE  /\ Len(d) \in Nat /\ Len(d) >= 2
         /\ Inner(d) \in Short(Len(d) - 1) /\ Behind(d) \in Short(Len(d) - 1)
<1>1. PICK s \in Nat, n \in Nat, N \in Nat :
        /\ s = Head1(d).start /\ n = Head1(d).length /\ N = Len(d) /\ s >= 2 /\ s + n <= N
  <2>1. Header(d).ok
    BY DEF Fits
  <2>2. /\ Len(d) \in Nat /\ Head1(d).start \in Nat /\ Head1(d).start >= 2
        /\ Head1(d).length \in Nat
    BY <2>1, HeaderType DEF Head1
  <2> QED BY <2>2 DEF Fits
<1>2. \A i \in (s + 1)..(s + n) : d[i] \in Byte
  BY <1>1
<1>3. /\ SubSeq(d, s + 1, s + n) \in Seq(Byte)
      /\ Len(SubSeq(d, s + 1, s + n)) = IF s + 1 <= s + n THEN (s + n) - (s + 1) + 1 ELSE 0
  BY <1>1, <1>2, SubSeqProperties
<1>4. Len(SubSeq(d, s + 1, s + n)) <= N - 1
  BY <1>1, <1>3
<1>5. \A i \in (s + n + 1)..N : d[i] \in Byte
  BY <1>1
<1>6. /\ SubSeq(d, s + n + 1, N) \in Seq(Byte)
      /\ Len(SubSeq(d, s + n + 1, N)) = IF s + n + 1 <= N THEN N - (s + n + 1) + 1 ELSE 0
  BY <1>1, <1>5, SubSeqProperties
<1>7. Len(SubSeq(d, s + n + 1, N)) <= N - 1
  BY <1>1, <1>6
<1> QED BY <1>1, <1>3, <1>4, <1>6, <1>7 DEF Short, Inner, Behind

\* The children of the first TLV of d, when all reads them.
Within(d, all) == IF IsConstructed(d[1]) THEN all[Inner(d)] ELSE Returned(<<>>)

(* FirstTlv raises what a part raises.                                     *)
LEMMA FirstSteps ==
  ASSUME NEW d, NEW all
  PROVE  FirstTlv(d, all)
           = IF ~Header(d).ok THEN Header(d)
             ELSE IF ~Fits(d) THEN Raised
             ELSE IF ~Within(d, all).ok THEN Within(d, all)
             ELSE Returned([node |-> Node(d[1], Inner(d), Within(d, all).val),
                            next |-> Behind(d)])
<1>1. CASE ~Header(d).ok
  BY <1>1 DEF FirstTlv, Then
<1>2. CASE Header(d).ok /\ ~Fits(d)
  <2>1. Content(d, Header(d).val) = Raised
    BY <1>2 DEF Content, When, Fits, Head1
  <2> QED BY <1>2, <2>1, Outcomes DEF FirstTlv, Then
<1>3. CASE Header(d).ok /\ Fits(d)
  <2>1. PICK h : h = Header(d).val
    OBVIOUS
  <2>2. PICK c : c = SubSeq(d, h.start + 1, h.start + h.length)
    OBVIOUS
  <2>3. Content(d, h).ok /\ Content(d, h).val = c
    BY <1>3, <2>1, <2>2, Outcomes DEF Content, When, Fits, Head1
  <2> DEFINE r == IF IsConstructed(d[1]) THEN all[c] ELSE Returned(<<>>)
  <2>4. FirstTlv(d, all) =
          IF r.ok THEN Returned([node |-> Node(d[1], c, r.val),
                                 next |-> SubSeq(d, h.start + h.length + 1, Len(d))]) ELSE r
    BY <1>3, <2>1, <2>3 DEF FirstTlv, Then, Node
  <2>5. c = Inner(d) /\ r = Within(d, all)
        /\ SubSeq(d, h.start + h.length + 1, Len(d)) = Behind(d)
    BY <2>1, <2>2 DEF Inner, Within, Behind, Head1
  <2> HIDE DEF r
  <2> QED BY <1>3, <2>4, <2>5
<1> QED BY <1>1, <1>2, <1>3

-------------------------------------------------------------------------------
(* ParseAll is well defined: it reads a message in terms of shorter ones.  *)

\* One step of ParseAll, with f for what follows.
ReadAll(f, d) ==
  IF d = <<>> THEN Returned(<<>>)
  ELSE IF ~FirstTlv(d, f).ok THEN FirstTlv(d, f)
  ELSE IF ~f[FirstTlv(d, f).val.next].ok THEN f[FirstTlv(d, f).val.next]
  ELSE Returned(<<FirstTlv(d, f).val.node>> \o f[FirstTlv(d, f).val.next].val)

(* It reads f at shorter sequences only.                                   *)
LEMMA ReadsShorter ==
  ASSUME NEW d \in Seq(Byte), NEW f, NEW g,
         d # <<>> => \A s \in Short(Len(d) - 1) : f[s] = g[s]
  PROVE  ReadAll(f, d) = ReadAll(g, d)
<1>1. CASE d = <<>>
  BY <1>1 DEF ReadAll
<1>2. CASE d # <<>> /\ ~Fits(d)
  <2>1. FirstTlv(d, f) = FirstTlv(d, g) /\ ~FirstTlv(d, f).ok
    <3>1. CASE ~Header(d).ok
      BY <3>1, FirstSteps
    <3>2. CASE Header(d).ok
      BY <1>2, <3>2, FirstSteps, Outcomes
    <3> QED BY <3>1, <3>2
  <2> QED BY <1>2, <2>1 DEF ReadAll
<1>3. CASE d # <<>> /\ Fits(d)
  <2>1. f[Inner(d)] = g[Inner(d)] /\ f[Behind(d)] = g[Behind(d)]
    BY <1>3, PartsShorter
  <2>2. Within(d, f) = Within(d, g)
    BY <2>1 DEF Within
  <2>3. Header(d).ok
    BY <1>3 DEF Fits
  <2>4. FirstTlv(d, f) = FirstTlv(d, g)
    BY <2>2, FirstSteps
  <2>5. FirstTlv(d, f).ok => FirstTlv(d, f).val.next = Behind(d)
    <3>1. CASE ~Within(d, f).ok
      BY <1>3, <2>3, <3>1, FirstSteps
    <3>2. CASE Within(d, f).ok
      <4> DEFINE v == [node |-> Node(d[1], Inner(d), Within(d, f).val), next |-> Behind(d)]
      <4>1. FirstTlv(d, f) = Returned(v)
        BY <1>3, <2>3, <3>2, FirstSteps
      <4>2. v.next = Behind(d)
        OBVIOUS
      <4> HIDE DEF v
      <4> QED BY <4>1, <4>2, Outcomes
    <3> QED BY <3>1, <3>2
  <2> QED BY <1>3, <2>1, <2>4, <2>5 DEF ReadAll
<1> QED BY <1>1, <1>2, <1>3

\* f reads the sequences of up to n bytes.
IsReader(f, n) == f = [d \in Short(n) |-> ReadAll(f, d)]

(* ParseAll is well defined.                                               *)
LEMMA ReaderExists ==
  ASSUME NEW N \in Nat
  PROVE  \E f : IsReader(f, N)
<1> DEFINE T == {n \in Nat : \E f : IsReader(f, n)}
<1>1. 0 \in T
  <2> DEFINE f == [d \in Short(0) |-> Returned(<<>>)]
  <2>1. ASSUME NEW d \in Short(0) PROVE ReadAll(f, d) = Returned(<<>>)
    <3>1. d = <<>>
      <4>1. d \in Seq(Byte) /\ Len(d) <= 0
        BY DEF Short
      <4> QED BY <4>1, EmptySeq
    <3> QED BY <3>1 DEF ReadAll
  <2>2. IsReader(f, 0)
    BY <2>1 DEF IsReader
  <2> QED BY <2>2
<1>2. ASSUME NEW n \in T PROVE n + 1 \in T
  <2>1. PICK f : IsReader(f, n)
    BY <1>2
  <2>2. n \in Nat
    BY <1>2
  <2>3. f = [d \in Short(n) |-> ReadAll(f, d)]
    BY <2>1 DEF IsReader
  <2> DEFINE g == [d \in Short(n + 1) |-> ReadAll(f, d)]
  <2>4. \A d \in Short(n) : d \in Short(n + 1)
    BY <2>2 DEF Short
  <2>5. \A d \in Short(n) : f[d] = g[d]
    BY <2>3, <2>4
  <2>6. ASSUME NEW d \in Short(n + 1) PROVE ReadAll(f, d) = ReadAll(g, d)
    <3>1. d \in Seq(Byte) /\ Len(d) \in Nat /\ Len(d) - 1 <= n
      BY <2>2 DEF Short
    <3>2. \A s \in Short(Len(d) - 1) : s \in Short(n)
      BY <2>2, <3>1 DEF Short
    <3> HIDE DEF g
    <3> QED BY <2>5, <3>1, <3>2, ReadsShorter
  <2>7. g = [d \in Short(n + 1) |-> ReadAll(g, d)]
    <3>1. g = [d \in Short(n + 1) |-> ReadAll(f, d)]
      OBVIOUS
    <3> HIDE DEF g
    <3> QED BY <2>6, <3>1
  <2>8. IsReader(g, n + 1)
    BY <2>7 DEF IsReader
  <2> QED BY <2>2, <2>8
<1>3. T \in SUBSET Nat
  OBVIOUS
<1>4. N \in T
  <2> HIDE DEF T
  <2> QED BY <1>1, <1>2, <1>3, SetInduction
<1> QED BY <1>4

(* So ParseAll reads one TLV and goes on behind it.                        *)
LEMMA ParseAllDef ==
  ASSUME NEW d \in Message
  PROVE  ParseAll[d] = ReadAll(ParseAll, d)
<1>1. PICK f : IsReader(f, MaxInt)
  BY MaxIntNat, ReaderExists
<1>2. Message = Short(MaxInt)
  BY DEF Message, Short
<1> DEFINE E(g) == g = [x \in Message |-> ReadAll(g, x)]
<1>3. E(f)
  BY <1>1, <1>2 DEF IsReader
<1>4. ParseAll = CHOOSE g : E(g)
  BY DEF ParseAll, Then, ReadAll
<1>5. E(ParseAll)
  <2> HIDE DEF E
  <2> QED BY <1>3, <1>4
<1> QED BY <1>5

-------------------------------------------------------------------------------
(* Concatenation of the parts of a message.                                *)

\* One more element of a concatenation.
Link(joined, bytes) == joined \o bytes

\* f is the concatenation of the first i elements.
IsJoin(f, seqs, n) == f = [i \in 1..n |-> IF i = 1 THEN seqs[i] ELSE Link(f[i - 1], seqs[i])]

(* b"".join is well defined.                                               *)
LEMMA JoinExists ==
  ASSUME NEW seqs, NEW N \in Nat
  PROVE  \E f : IsJoin(f, seqs, N)
<1> DEFINE T == {n \in Nat : \E f : IsJoin(f, seqs, n)}
<1>1. 0 \in T
  <2> DEFINE f == [k \in 1..0 |-> 0]
  <2>1. f = [i \in 1..0 |-> IF i = 1 THEN seqs[i] ELSE Link(f[i - 1], seqs[i])]
    OBVIOUS
  <2>2. IsJoin(f, seqs, 0)
    BY <2>1 DEF IsJoin
  <2> QED BY <2>2
<1>2. ASSUME NEW n \in T PROVE n + 1 \in T
  <2>1. PICK f : IsJoin(f, seqs, n)
    BY <1>2
  <2>2. n \in Nat
    BY <1>2
  <2>0. f = [i \in 1..n |-> IF i = 1 THEN seqs[i] ELSE Link(f[i - 1], seqs[i])]
    BY <2>1 DEF IsJoin
  <2> DEFINE g == [i \in 1..(n + 1) |-> IF i = 1 THEN seqs[i] ELSE Link(f[i - 1], seqs[i])]
  <2>3. \A i \in 1..n : g[i] = f[i]
    BY <2>0, <2>2
  <2>4. ASSUME NEW i \in 1..(n + 1)
        PROVE  g[i] = IF i = 1 THEN seqs[i] ELSE Link(g[i - 1], seqs[i])
    <3>1. CASE i = 1
      BY <3>1
    <3>2. CASE i # 1
      <4>1. i - 1 \in 1..n
        BY <2>2, <3>2
      <4>2. g[i - 1] = f[i - 1]
        BY <2>3, <4>1
      <4>3. g[i] = Link(f[i - 1], seqs[i])
        BY <3>2
      <4> HIDE DEF g
      <4> QED BY <3>2, <4>2, <4>3
    <3> QED BY <3>1, <3>2
  <2>5. IsJoin(g, seqs, n + 1)
    <3>1. g = [i \in 1..(n + 1) |-> IF i = 1 THEN seqs[i] ELSE Link(g[i - 1], seqs[i])]
      BY <2>4
    <3> QED BY <3>1 DEF IsJoin
  <2> QED BY <2>2, <2>5
<1>3. T \in SUBSET Nat
  OBVIOUS
<1>4. N \in T
  <2> HIDE DEF T
  <2> QED BY <1>1, <1>2, <1>3, SetInduction
<1> QED BY <1>4

(* FlattenSeq is the concatenation after the last element.                 *)
LEMMA FlattenValue ==
  ASSUME NEW seqs, Len(seqs) \in Nat, Len(seqs) # 0
  PROVE  \E f : /\ f[1] = seqs[1]
                /\ \A i \in 2..Len(seqs) : f[i] = f[i - 1] \o seqs[i]
                /\ FlattenSeq(seqs) = f[Len(seqs)]
<1>1. PICK g : g = CHOOSE f : IsJoin(f, seqs, Len(seqs))
  OBVIOUS
<1>2. IsJoin(g, seqs, Len(seqs))
  BY <1>1, JoinExists
<1>3. FlattenSeq(seqs) = g[Len(seqs)]
  BY <1>1 DEF FlattenSeq, IsJoin, Link
<1>4. g = [i \in 1..Len(seqs) |-> IF i = 1 THEN seqs[i] ELSE Link(g[i - 1], seqs[i])]
  BY <1>2 DEF IsJoin
<1>5. g[1] = seqs[1] /\ \A i \in 2..Len(seqs) : g[i] = Link(g[i - 1], seqs[i])
  <2>1. 1 \in 1..Len(seqs) /\ \A i \in 2..Len(seqs) : i \in 1..Len(seqs) /\ i # 1
    OBVIOUS
  <2> QED BY <1>4, <2>1
<1> QED BY <1>3, <1>5 DEF Link

(* One more element is one more at the end.                                *)
LEMMA FlattenAppend ==
  ASSUME NEW s \in Seq(Seq(Byte)), NEW b \in Seq(Byte)
  PROVE  FlattenSeq(<<>>) = <<>> /\ FlattenSeq(Append(s, b)) = FlattenSeq(s) \o b
<1>0. FlattenSeq(<<>>) = <<>>
  BY DEF FlattenSeq
<1>1. PICK new : new = Append(s, b)
  OBVIOUS
<1>2. PICK n \in Nat : /\ n = Len(s) /\ Len(new) = n + 1 /\ new[n + 1] = b
                       /\ \A i \in 1..n : new[i] = s[i]
  BY <1>1
<1>3. PICK g : /\ g[1] = new[1] /\ \A i \in 2..(n + 1) : g[i] = g[i - 1] \o new[i]
               /\ FlattenSeq(new) = g[n + 1]
  <2>1. Len(new) \in Nat /\ Len(new) # 0
    BY <1>2
  <2>2. \E g : /\ g[1] = new[1] /\ \A i \in 2..Len(new) : g[i] = g[i - 1] \o new[i]
               /\ FlattenSeq(new) = g[Len(new)]
    BY <2>1, FlattenValue
  <2> QED BY <1>2, <2>2
<1>4. CASE n = 0
  <2>1. s = <<>>
    BY <1>2, <1>4, EmptySeq
  <2>2. g[1] = b /\ FlattenSeq(new) = g[1]
    BY <1>2, <1>3, <1>4
  <2>3. <<>> \o b = b
    OBVIOUS
  <2> QED BY <1>0, <1>1, <2>1, <2>2, <2>3
<1>5. CASE n # 0
  <2>1. PICK f : /\ f[1] = s[1] /\ \A i \in 2..n : f[i] = f[i - 1] \o s[i]
                 /\ FlattenSeq(s) = f[n]
    <3>1. Len(s) \in Nat /\ Len(s) # 0
      BY <1>2, <1>5
    <3>2. \E f : /\ f[1] = s[1] /\ \A i \in 2..Len(s) : f[i] = f[i - 1] \o s[i]
                 /\ FlattenSeq(s) = f[Len(s)]
      BY <3>1, FlattenValue
    <3> QED BY <1>2, <3>2
  <2> DEFINE T == {k \in Nat : k + 1 <= n => f[k + 1] = g[k + 1]}
  <2>2. 0 \in T
    <3>1. 1 \in 1..n
      BY <1>5
    <3> QED BY <1>2, <1>3, <2>1, <3>1
  <2>3. ASSUME NEW k \in T PROVE k + 1 \in T
    <3>1. SUFFICES ASSUME (k + 1) + 1 <= n PROVE f[(k + 1) + 1] = g[(k + 1) + 1]
      BY <2>3
    <3>2. PICK i \in Nat : i = (k + 1) + 1
      BY <2>3
    <3>3. i \in 2..n /\ i \in 1..n /\ i \in 2..(n + 1) /\ i - 1 = k + 1 /\ k + 1 <= n
      BY <3>1, <3>2
    <3>4. f[i] = f[i - 1] \o s[i] /\ g[i] = g[i - 1] \o new[i] /\ new[i] = s[i]
      BY <1>2, <1>3, <2>1, <3>3
    <3>5. f[k + 1] = g[k + 1]
      BY <2>3, <3>3
    <3> QED BY <3>2, <3>3, <3>4, <3>5
  <2>4. T \in SUBSET Nat
    OBVIOUS
  <2>5. n - 1 \in T
    <3>1. n - 1 \in Nat
      BY <1>5
    <3> HIDE DEF T
    <3> QED BY <2>2, <2>3, <2>4, <3>1, SetInduction
  <2>6. f[n] = g[n]
    <3>1. (n - 1) + 1 = n /\ n <= n
      OBVIOUS
    <3> QED BY <2>5, <3>1
  <2>7. g[n + 1] = g[(n + 1) - 1] \o new[n + 1] /\ (n + 1) - 1 = n
    <3>1. n + 1 \in 2..(n + 1)
      BY <1>5
    <3>2. (n + 1) - 1 = n
      OBVIOUS
    <3> QED BY <1>3, <3>1, <3>2
  <2> QED BY <1>0, <1>1, <1>2, <1>3, <2>1, <2>6, <2>7
<1> QED BY <1>4, <1>5

-------------------------------------------------------------------------------
(* Lists of TLVs.                                                          *)

\* s is a sequence of whatever.
AnySeq(s) == \E S : s \in Seq(S)

(* Appending to a sequence of whatever, and concatenation of three.        *)
LEMMA AnyAppend ==
  ASSUME NEW s, AnySeq(s), NEW x
  PROVE  /\ s \o <<>> = s /\ <<>> \o s = s
         /\ AnySeq(<<x>>) /\ AnySeq(<<>>) /\ AnySeq(Append(s, x))
         /\ Append(s, x) = s \o <<x>>
<1>1. PICK A : s \in Seq(A)
  BY DEF AnySeq
<1>2. PICK D : D = A \cup {x}
  OBVIOUS
<1>3. s \in Seq(D) /\ x \in D
  BY <1>1, <1>2
<1>4. s \o <<>> = s /\ <<>> \o s = s
  BY <1>3
<1>5. Append(s, x) = s \o <<x>> /\ Append(s, x) \in Seq(D)
  BY <1>3, AppendIsConcat
<1>6. <<x>> \in Seq(D) /\ <<>> \in Seq(D)
  BY <1>3
<1> QED BY <1>4, <1>5, <1>6 DEF AnySeq

(* Concatenation of sequences of whatever is associative.                  *)
LEMMA AnyConcat ==
  ASSUME NEW s, AnySeq(s), NEW t, AnySeq(t), NEW u, AnySeq(u)
  PROVE  (s \o t) \o u = s \o (t \o u)
<1>1. PICK A : s \in Seq(A)
  BY DEF AnySeq
<1>2. PICK B : t \in Seq(B)
  BY DEF AnySeq
<1>3. PICK C : u \in Seq(C)
  BY DEF AnySeq
<1>4. PICK D : D = A \cup B \cup C
  OBVIOUS
<1>5. s \in Seq(D) /\ t \in Seq(D) /\ u \in Seq(D)
  <2>1. s \in Seq(D)
    BY <1>1, <1>4
  <2>2. t \in Seq(D)
    BY <1>2, <1>4
  <2>3. u \in Seq(D)
    BY <1>3, <1>4
  <2> QED BY <2>1, <2>2, <2>3
<1> QED BY <1>5, ConcatAssociative

(* A concatenation of sequences is one.                                    *)
LEMMA AnyJoin ==
  ASSUME NEW s, AnySeq(s), NEW t, AnySeq(t)
  PROVE  AnySeq(s \o t)
<1>1. PICK A : s \in Seq(A)
  BY DEF AnySeq
<1>2. PICK B : t \in Seq(B)
  BY DEF AnySeq
<1>3. PICK D : D = A \cup B
  OBVIOUS
<1>4. s \in Seq(D)
  BY <1>1, <1>3
<1>5. t \in Seq(D)
  BY <1>2, <1>3
<1>6. s \o t \in Seq(D)
  BY <1>4, <1>5, ConcatProperties
<1> QED BY <1>6 DEF AnySeq

\* b is a TLV of at most k bytes that is read as node nd, whatever comes after it.
Reads(b, nd, k) ==
  /\ b \in Seq(Byte) /\ Len(b) \in Nat /\ Len(b) >= 1 /\ k \in Nat /\ Len(b) <= k
  /\ \A rest \in Seq(Byte) :
       FirstTlv(b \o rest, ParseAll) = Returned([node |-> nd, next |-> rest])

\* In front of what is read as a list, c is read as the nodes nds.
Goes(c, nds) ==
  \A rest \in Seq(Byte) : \A others :
    /\ c \o rest \in Message /\ AnySeq(others) /\ ParseAll[rest] = Returned(others)
    => ParseAll[c \o rest] = Returned(nds \o others)

\* The TLVs bs have at most k bytes and are read as the nodes nds.
Lists(bs, nds, k) ==
  /\ bs \in Seq(Seq(Byte)) /\ AnySeq(nds) /\ k \in Nat
  /\ FlattenSeq(bs) \in Seq(Byte) /\ Len(FlattenSeq(bs)) <= k
  /\ Goes(FlattenSeq(bs), nds)

(* The end of a message is an empty list.                                  *)
LEMMA EmptyMessage == <<>> \in Message /\ ParseAll[<<>>] = Returned(<<>>)
<1>1. <<>> \in Message
  <2>1. <<>> \in Seq(Byte) /\ Len(<<>>) = 0
    OBVIOUS
  <2> QED BY <2>1, MaxIntNat DEF Message
<1> QED BY <1>1, ParseAllDef DEF ReadAll

(* One TLV in front of a list.                                             *)
LEMMA OneMore ==
  ASSUME NEW b, NEW nd, NEW k, Reads(b, nd, k), NEW rest \in Seq(Byte), NEW others,
         b \o rest \in Message, ParseAll[rest] = Returned(others)
  PROVE  ParseAll[b \o rest] = Returned(<<nd>> \o others)
<1>1. b \in Seq(Byte) /\ Len(b) >= 1 /\ Len(b) \in Nat
  BY DEF Reads
<1>2. FirstTlv(b \o rest, ParseAll) = Returned([node |-> nd, next |-> rest])
  BY DEF Reads
<1>3. b \o rest # <<>>
  <2>1. Len(b \o rest) = Len(b) + Len(rest) /\ Len(rest) \in Nat
    BY <1>1, ConcatProperties
  <2>2. Len(b \o rest) # 0
    BY <1>1, <2>1
  <2> QED BY <2>2
<1> DEFINE v == [node |-> nd, next |-> rest]
<1>4. v.node = nd /\ v.next = rest
  OBVIOUS
<1> HIDE DEF v
<1>5. FirstTlv(b \o rest, ParseAll).ok /\ FirstTlv(b \o rest, ParseAll).val = v
  BY <1>2, Outcomes DEF v
<1>6. ParseAll[rest].ok /\ ParseAll[rest].val = others
  BY Outcomes
<1>7. ReadAll(ParseAll, b \o rest) = Returned(<<nd>> \o others)
  BY <1>3, <1>4, <1>5, <1>6 DEF ReadAll
<1> QED BY <1>7, ParseAllDef

(* Lists grow at the end.                                                  *)
LEMMA ListsEmpty == Lists(<<>>, <<>>, 0)
<1>1. FlattenSeq(<<>>) = <<>>
  <2>1. <<>> \in Seq(Seq(Byte)) /\ <<>> \in Seq(Byte)
    OBVIOUS
  <2> QED BY <2>1, FlattenAppend
<1>2. AnySeq(<<>>)
  <2>1. <<>> \in Seq({})
    OBVIOUS
  <2> QED BY <2>1 DEF AnySeq
<1>3. Goes(<<>>, <<>>)
  <2> SUFFICES ASSUME NEW rest \in Seq(Byte), NEW others, AnySeq(others),
                      ParseAll[rest] = Returned(others)
               PROVE  ParseAll[<<>> \o rest] = Returned(<<>> \o others)
    BY DEF Goes
  <2>1. <<>> \o rest = rest
    OBVIOUS
  <2>2. <<>> \o others = others
    BY AnyAppend
  <2> QED BY <2>1, <2>2
<1>4. <<>> \in Seq(Seq(Byte)) /\ <<>> \in Seq(Byte) /\ Len(<<>>) <= 0
  OBVIOUS
<1> QED BY <1>1, <1>2, <1>3, <1>4 DEF Lists

(* A list of TLVs with one more TLV is read as one more node.              *)
LEMMA ListsAppend ==
  ASSUME NEW bs, NEW nds, NEW m, Lists(bs, nds, m), NEW b, NEW nd, NEW k, Reads(b, nd, k)
  PROVE  Lists(Append(bs, b), Append(nds, nd), m + k)
<1>1. PICK c \in Seq(Byte) : c = FlattenSeq(bs) /\ Len(c) <= m /\ Len(c) \in Nat
  BY DEF Lists
<1>2. bs \in Seq(Seq(Byte)) /\ AnySeq(nds) /\ m \in Nat /\ Goes(c, nds)
  BY <1>1 DEF Lists
<1>3. b \in Seq(Byte) /\ k \in Nat /\ Len(b) <= k /\ Len(b) \in Nat
  BY DEF Reads
<1>4. FlattenSeq(Append(bs, b)) = c \o b
  BY <1>1, <1>2, <1>3, FlattenAppend
<1>5. c \o b \in Seq(Byte) /\ Len(c \o b) = Len(c) + Len(b)
  BY <1>3, ConcatProperties
<1>6. Len(c \o b) <= m + k /\ m + k \in Nat
  BY <1>1, <1>2, <1>3, <1>5
<1>7. Append(bs, b) \in Seq(Seq(Byte))
  BY <1>2, <1>3
<1>8. AnySeq(Append(nds, nd)) /\ Append(nds, nd) = nds \o <<nd>> /\ AnySeq(<<nd>>)
  BY <1>2, AnyAppend
<1>9. Goes(c \o b, Append(nds, nd))
  <2> SUFFICES ASSUME NEW rest \in Seq(Byte), NEW others, (c \o b) \o rest \in Message,
                      AnySeq(others), ParseAll[rest] = Returned(others)
               PROVE  ParseAll[(c \o b) \o rest] = Returned(Append(nds, nd) \o others)
    BY DEF Goes
  <2>1. (c \o b) \o rest = c \o (b \o rest) /\ b \o rest \in Seq(Byte)
    BY <1>3, ConcatAssociative, ConcatProperties
  <2>2. b \o rest \in Message
    <3>1. Len(c \o (b \o rest)) = Len(c) + Len(b \o rest) /\ Len(b \o rest) \in Nat
      BY <2>1, ConcatProperties
    <3>2. Len(c \o (b \o rest)) <= MaxInt
      BY <2>1 DEF Message
    <3>3. Len(b \o rest) <= MaxInt
      BY <1>1, <3>1, <3>2, MaxIntNat
    <3> QED BY <2>1, <3>3 DEF Message
  <2>3. ParseAll[b \o rest] = Returned(<<nd>> \o others)
    BY <2>2, OneMore
  <2>4. AnySeq(<<nd>> \o others) /\ (nds \o <<nd>>) \o others = nds \o (<<nd>> \o others)
    <3>1. AnySeq(<<nd>>)
      BY <1>2, AnyAppend
    <3>2. AnySeq(<<nd>> \o others)
      BY <3>1, AnyJoin
    <3>3. (nds \o <<nd>>) \o others = nds \o (<<nd>> \o others)
      BY <1>2, <3>1, AnyConcat
    <3> QED BY <3>2, <3>3
  <2>5. ParseAll[c \o (b \o rest)] = Returned(nds \o (<<nd>> \o others))
    BY <1>2, <2>1, <2>3, <2>4 DEF Goes
  <2> QED BY <1>8, <2>1, <2>4, <2>5
<1> QED BY <1>4, <1>5, <1>6, <1>7, <1>8, <1>9 DEF Lists

(* The whole content of a constructed TLV.                                 *)
LEMMA ListsRead ==
  ASSUME NEW bs, NEW nds, NEW k, Lists(bs, nds, k), k <= MaxInt
  PROVE  FlattenSeq(bs) \in Message /\ ParseAll[FlattenSeq(bs)] = Returned(nds)
<1>1. PICK c \in Seq(Byte) : c = FlattenSeq(bs) /\ Len(c) <= k /\ Len(c) \in Nat /\ k \in Nat
  BY DEF Lists
<1>2. c \in Message
  <2>1. Len(c) <= MaxInt
    BY <1>1, MaxIntNat
  <2> QED BY <2>1 DEF Message
<1>3. c \o <<>> = c /\ <<>> \in Seq(Byte)
  OBVIOUS
<1>4. AnySeq(nds) /\ Goes(c, nds)
  BY <1>1 DEF Lists
<1>5. AnySeq(<<>>) /\ nds \o <<>> = nds
  BY <1>4, AnyAppend
<1>6. ParseAll[c \o <<>>] = Returned(nds \o <<>>)
  BY <1>2, <1>3, <1>4, <1>5, EmptyMessage DEF Goes
<1> QED BY <1>1, <1>2, <1>3, <1>5, <1>6

-------------------------------------------------------------------------------
(* Nodes, and the encoders of primitive and of constructed TLVs.           *)

(* The tags the client writes and reads.                                   *)
LEMMA PrimitiveTag ==
  ASSUME NEW t \in {1, 2, 4, 5, 6, 12, 24}
  PROVE  t \in Byte /\ t % 32 # 31 /\ t \div 64 = 0 /\ t % 32 = t /\ IsConstructed(t) = FALSE
<1>1. t \in Nat /\ t < 32
  OBVIOUS
<1>2. t \in Byte
  BY <1>1, ByteRange
<1>3. t \div 64 = 0 /\ t % 32 = t /\ t \div 32 = 0 /\ t # 31
  BY <1>1
<1>4. ~IsConstructed(t)
  BY <1>3 DEF IsConstructed
<1>5. IsConstructed(t) \in BOOLEAN
  BY DEF IsConstructed
<1> QED BY <1>2, <1>3, <1>4, <1>5

(* The tags of SEQUENCE, SET and [0]: class, number, constructed.          *)
LEMMA ConstructedTag ==
  ASSUME NEW t \in {48, 49, 160}
  PROVE  /\ t \in Byte /\ t % 32 # 31 /\ IsConstructed(t) = TRUE
         /\ t = 48 => t \div 64 = 0 /\ t % 32 = 16
         /\ t = 49 => t \div 64 = 0 /\ t % 32 = 17
         /\ t = 160 => t \div 64 = 2 /\ t % 32 = 0
<1>1. t \in Nat /\ t < 256
  OBVIOUS
<1>2. t \in Byte
  BY <1>1, ByteRange
<1>3. /\ t % 32 # 31
      /\ t = 48 => t \div 64 = 0 /\ t % 32 = 16
      /\ t = 49 => t \div 64 = 0 /\ t % 32 = 17
      /\ t = 160 => t \div 64 = 2 /\ t % 32 = 0
  OBVIOUS
<1>4. IsConstructed(t)
  BY DEF IsConstructed
<1>5. IsConstructed(t) \in BOOLEAN
  BY DEF IsConstructed
<1> QED BY <1>2, <1>3, <1>4, <1>5

\* The node of a primitive TLV of the universal class, of a constructed one.
Leaf(number, c) ==
  [class |-> 0, number |-> number, constructed |-> FALSE, content |-> c, children |-> <<>>]
Branch(class, number, c, children) ==
  [class |-> class, number |-> number, constructed |-> TRUE, content |-> c,
   children |-> children]

(* Their fields.                                                           *)
LEMMA LeafFields ==
  ASSUME NEW t, NEW c
  PROVE  /\ Leaf(t, c).class = 0 /\ Leaf(t, c).number = t /\ ~Leaf(t, c).constructed
         /\ Leaf(t, c).content = c /\ Leaf(t, c).children = <<>>
BY DEF Leaf

(* The fields of a constructed node.                                       *)
LEMMA BranchFields ==
  ASSUME NEW class, NEW t, NEW c, NEW ch
  PROVE  /\ Branch(class, t, c, ch).class = class /\ Branch(class, t, c, ch).number = t
         /\ Branch(class, t, c, ch).constructed
         /\ Branch(class, t, c, ch).content = c /\ Branch(class, t, c, ch).children = ch
BY DEF Branch

(* The node of a first TLV whose children are read.                        *)
LEMMA FirstNode ==
  ASSUME NEW t \in Byte, t % 32 # 31, NEW c \in Message, NEW rest \in Seq(Byte), NEW ch,
         (IF IsConstructed(t) THEN ParseAll[c] ELSE Returned(<<>>)) = Returned(ch)
  PROVE  FirstTlv(Tlv(t, c) \o rest, ParseAll)
           = Returned([node |-> Node(t, c, ch), next |-> rest])
<1> DEFINE r == IF IsConstructed(t) THEN ParseAll[c] ELSE Returned(<<>>)
<1>1. FirstTlv(Tlv(t, c) \o rest, ParseAll)
        = IF r.ok THEN Returned([node |-> Node(t, c, r.val), next |-> rest]) ELSE r
  BY FirstReads
<1>2. r.ok /\ r.val = ch
  BY Outcomes
<1> HIDE DEF r
<1> QED BY <1>1, <1>2

(* A primitive TLV is read as its tag and its content.                     *)
LEMMA LeafReads ==
  ASSUME NEW t \in {1, 2, 4, 5, 6, 12, 24}, NEW c \in Seq(Byte), NEW k \in Nat,
         Len(c) <= k, k <= MaxInt
  PROVE  Reads(Tlv(t, c), Leaf(t, c), k + 6)
<1>0. c \in Message /\ Len(c) \in Nat
  <2>1. Len(c) <= MaxInt /\ Len(c) \in Nat
    BY MaxIntNat
  <2> QED BY <2>1 DEF Message
<1>1. t \in Byte /\ t % 32 # 31 /\ t \div 64 = 0 /\ t % 32 = t /\ IsConstructed(t) = FALSE
  BY PrimitiveTag
<1>2. Node(t, c, <<>>) = Leaf(t, c)
  BY <1>1, Zenon DEF Node, Leaf
<1>4. ASSUME NEW rest \in Seq(Byte)
      PROVE  FirstTlv(Tlv(t, c) \o rest, ParseAll) = Returned([node |-> Leaf(t, c), next |-> rest])
  <2>1. FirstTlv(Tlv(t, c) \o rest, ParseAll)
          = Returned([node |-> Node(t, c, <<>>), next |-> rest])
    BY <1>0, <1>1, FirstNode
  <2> QED BY <1>2, <2>1
<1>5. Tlv(t, c) \in Seq(Byte) /\ Len(Tlv(t, c)) <= Len(c) + 6 /\ Len(Tlv(t, c)) >= 2
  BY <1>0, <1>1, TlvShape
<1>6. Len(Tlv(t, c)) \in Nat
  BY <1>5
<1>7. Len(Tlv(t, c)) <= k + 6 /\ k + 6 \in Nat /\ Len(Tlv(t, c)) >= 1
  BY <1>0, <1>5, <1>6
<1> QED BY <1>4, <1>5, <1>6, <1>7 DEF Reads

(* A constructed TLV is read as its tag and the TLVs it holds.             *)
LEMMA BranchReads ==
  ASSUME NEW t \in {48, 49, 160}, NEW bs, NEW nds, NEW k, Lists(bs, nds, k), k <= MaxInt
  PROVE  Reads(Tlv(t, FlattenSeq(bs)), Branch(t \div 64, t % 32, FlattenSeq(bs), nds), k + 6)
<1>0. PICK c \in Message : c = FlattenSeq(bs) /\ ParseAll[c] = Returned(nds)
  BY ListsRead
<1>1. t \in Byte /\ t % 32 # 31 /\ IsConstructed(t) = TRUE
  BY ConstructedTag
<1>2. Node(t, c, nds) = Branch(t \div 64, t % 32, c, nds)
  BY <1>1, Zenon DEF Node, Branch
<1>4. ASSUME NEW rest \in Seq(Byte)
      PROVE  FirstTlv(Tlv(t, c) \o rest, ParseAll)
               = Returned([node |-> Branch(t \div 64, t % 32, c, nds), next |-> rest])
  <2>1. FirstTlv(Tlv(t, c) \o rest, ParseAll)
          = Returned([node |-> Node(t, c, nds), next |-> rest])
    BY <1>0, <1>1, FirstNode
  <2> QED BY <1>2, <2>1
<1>5. Tlv(t, c) \in Seq(Byte) /\ Len(Tlv(t, c)) <= Len(c) + 6 /\ Len(Tlv(t, c)) >= 2
  BY <1>0, <1>1, TlvShape
<1>6. Len(Tlv(t, c)) \in Nat /\ k \in Nat /\ Len(c) <= k /\ Len(c) \in Nat
  BY <1>0, <1>5 DEF Lists, Message
<1>7. Len(Tlv(t, c)) <= k + 6 /\ k + 6 \in Nat /\ Len(Tlv(t, c)) >= 1
  BY <1>5, <1>6
<1>8. Reads(Tlv(t, c), Branch(t \div 64, t % 32, c, nds), k + 6)
  BY <1>4, <1>5, <1>6, <1>7 DEF Reads
<1> QED BY <1>0, <1>8

(* The encoders of the client.                                             *)
LEMMA SequenceReads ==
  ASSUME NEW bs, NEW nds, NEW k, Lists(bs, nds, k), k <= MaxInt
  PROVE  /\ Reads(DerSequence(bs), Branch(0, 16, FlattenSeq(bs), nds), k + 6)
         /\ Reads(DerSet(bs), Branch(0, 17, FlattenSeq(bs), nds), k + 6)
<1>1. /\ Reads(Tlv(48, FlattenSeq(bs)), Branch(48 \div 64, 48 % 32, FlattenSeq(bs), nds), k + 6)
      /\ Reads(Tlv(49, FlattenSeq(bs)), Branch(49 \div 64, 49 % 32, FlattenSeq(bs), nds), k + 6)
  BY BranchReads
<1>2. 48 \div 64 = 0 /\ 48 % 32 = 16 /\ 49 \div 64 = 0 /\ 49 % 32 = 17
  OBVIOUS
<1> QED BY <1>1, <1>2 DEF DerSequence, DerSet

(* der_explicit: a [0] wrapper is read as the one node it wraps.           *)
LEMMA ExplicitReads ==
  ASSUME NEW b, NEW nd, NEW k, Reads(b, nd, k), k <= MaxInt
  PROVE  Reads(DerExplicit(0, b), Branch(2, 0, b, <<nd>>), k + 6)
<1>1. Lists(Append(<<>>, b), Append(<<>>, nd), 0 + k)
  BY ListsEmpty, ListsAppend
<1>2. b \in Seq(Byte) /\ k \in Nat
  BY DEF Reads
<1>3. FlattenSeq(Append(<<>>, b)) = b
  <2>1. <<>> \in Seq(Seq(Byte))
    OBVIOUS
  <2>2. FlattenSeq(Append(<<>>, b)) = <<>> \o b
    BY <1>2, <2>1, FlattenAppend
  <2> QED BY <1>2, <2>2
<1>4. Append(<<>>, nd) = <<nd>> /\ 0 + k = k
  BY <1>2
<1>5. Lists(Append(<<>>, b), <<nd>>, k)
  BY <1>1, <1>4
<1>6. Reads(Tlv(160, b), Branch(160 \div 64, 160 % 32, b, <<nd>>), k + 6)
  BY <1>3, <1>5, BranchReads
<1>7. 160 \div 64 = 2 /\ 160 % 32 = 0 /\ 160 + 0 = 160
  OBVIOUS
<1> QED BY <1>6, <1>7 DEF DerExplicit

-------------------------------------------------------------------------------
(* Object identifiers.                                                     *)

\* One byte of an object identifier, after what was read before it.
OidStep(prev, byte) ==
  IF byte >= 128 THEN [prev EXCEPT !.part = 128 * @ + (byte - 128)]
  ELSE [part |-> 0, arcs |-> Append(prev.arcs, 128 * prev.part + byte)]

OidStart(byte) == [part |-> 0, arcs |-> <<byte \div 40, byte % 40>>]

\* f is what the first n bytes of c hold.
IsOidRead(f, c, n) ==
  f = [k \in 1..n |-> IF k = 1 THEN OidStart(c[1]) ELSE OidStep(f[k - 1], c[k])]

(* The loop of der_decode_oid is well defined.                             *)
LEMMA OidReadExists ==
  ASSUME NEW c, NEW N \in Nat
  PROVE  \E f : IsOidRead(f, c, N)
<1> DEFINE T == {n \in Nat : \E f : IsOidRead(f, c, n)}
<1>1. 0 \in T
  <2> DEFINE f == [k \in 1..0 |-> 0]
  <2>1. f = [k \in 1..0 |-> IF k = 1 THEN OidStart(c[1]) ELSE OidStep(f[k - 1], c[k])]
    OBVIOUS
  <2>2. IsOidRead(f, c, 0)
    BY <2>1 DEF IsOidRead
  <2> QED BY <2>2
<1>2. ASSUME NEW n \in T PROVE n + 1 \in T
  <2>1. PICK f : IsOidRead(f, c, n)
    BY <1>2
  <2>2. n \in Nat
    BY <1>2
  <2>0. f = [k \in 1..n |-> IF k = 1 THEN OidStart(c[1]) ELSE OidStep(f[k - 1], c[k])]
    BY <2>1 DEF IsOidRead
  <2> DEFINE g == [k \in 1..(n + 1) |->
                     IF k = 1 THEN OidStart(c[1]) ELSE OidStep(f[k - 1], c[k])]
  <2>3. \A k \in 1..n : g[k] = f[k]
    BY <2>0, <2>2
  <2>4. ASSUME NEW k \in 1..(n + 1)
        PROVE  g[k] = IF k = 1 THEN OidStart(c[1]) ELSE OidStep(g[k - 1], c[k])
    <3>1. CASE k = 1
      BY <3>1
    <3>2. CASE k # 1
      <4>1. k - 1 \in 1..n
        BY <2>2, <3>2
      <4>2. g[k - 1] = f[k - 1]
        BY <2>3, <4>1
      <4>3. g[k] = OidStep(f[k - 1], c[k])
        BY <3>2
      <4> HIDE DEF g
      <4> QED BY <3>2, <4>2, <4>3
    <3> QED BY <3>1, <3>2
  <2>5. IsOidRead(g, c, n + 1)
    <3>1. g = [k \in 1..(n + 1) |-> IF k = 1 THEN OidStart(c[1]) ELSE OidStep(g[k - 1], c[k])]
      BY <2>4
    <3> QED BY <3>1 DEF IsOidRead
  <2> QED BY <2>2, <2>5
<1>3. T \in SUBSET Nat
  OBVIOUS
<1>4. N \in T
  <2> HIDE DEF T
  <2> QED BY <1>1, <1>2, <1>3, SetInduction
<1> QED BY <1>4

\* What the loop holds after the last byte of c.
OidRead(c) == (CHOOSE f : IsOidRead(f, c, Len(c)))[Len(c)]

(* It goes byte by byte.                                                   *)
LEMMA OidReadValue ==
  ASSUME NEW c, Len(c) \in Nat, Len(c) >= 1
  PROVE  \E f : /\ f[1] = OidStart(c[1])
                /\ \A k \in 2..Len(c) : f[k] = OidStep(f[k - 1], c[k])
                /\ OidRead(c) = f[Len(c)]
<1>1. PICK g : g = CHOOSE f : IsOidRead(f, c, Len(c))
  OBVIOUS
<1>2. IsOidRead(g, c, Len(c))
  BY <1>1, OidReadExists
<1>3. g = [k \in 1..Len(c) |-> IF k = 1 THEN OidStart(c[1]) ELSE OidStep(g[k - 1], c[k])]
  BY <1>2 DEF IsOidRead
<1>4. 1 \in 1..Len(c) /\ \A k \in 2..Len(c) : k \in 1..Len(c) /\ k # 1
  OBVIOUS
<1>5. g[1] = OidStart(c[1]) /\ \A k \in 2..Len(c) : g[k] = OidStep(g[k - 1], c[k])
  BY <1>3, <1>4
<1>6. OidRead(c) = g[Len(c)]
  BY <1>1 DEF OidRead
<1> QED BY <1>5, <1>6

(* der_decode_oid, one byte further.                                       *)
LEMMA OidReadAppend ==
  ASSUME NEW s \in Seq(Byte), Len(s) >= 1, NEW b \in Byte
  PROVE  OidRead(Append(s, b)) = OidStep(OidRead(s), b)
<1>1. PICK new : new = Append(s, b)
  OBVIOUS
<1>2. PICK n \in Nat : /\ n = Len(s) /\ n >= 1 /\ Len(new) = n + 1 /\ new[n + 1] = b
                       /\ \A i \in 1..n : new[i] = s[i]
  BY <1>1
<1>3. PICK f : /\ f[1] = OidStart(s[1]) /\ \A k \in 2..n : f[k] = OidStep(f[k - 1], s[k])
               /\ OidRead(s) = f[n]
  BY <1>2, OidReadValue
<1>4. PICK g : /\ g[1] = OidStart(new[1])
               /\ \A k \in 2..(n + 1) : g[k] = OidStep(g[k - 1], new[k])
               /\ OidRead(new) = g[n + 1]
  <2>1. Len(new) \in Nat /\ Len(new) >= 1
    BY <1>2
  <2>2. \E g : /\ g[1] = OidStart(new[1])
               /\ \A k \in 2..Len(new) : g[k] = OidStep(g[k - 1], new[k])
               /\ OidRead(new) = g[Len(new)]
    BY <2>1, OidReadValue
  <2> QED BY <1>2, <2>2
<1> DEFINE T == {k \in Nat : k + 1 <= n => f[k + 1] = g[k + 1]}
<1>5. 0 \in T
  <2>1. 1 \in 1..n
    BY <1>2
  <2> QED BY <1>2, <1>3, <1>4, <2>1
<1>6. ASSUME NEW k \in T PROVE k + 1 \in T
  <2>1. SUFFICES ASSUME (k + 1) + 1 <= n PROVE f[(k + 1) + 1] = g[(k + 1) + 1]
    BY <1>6
  <2>2. PICK i \in Nat : i = (k + 1) + 1
    BY <1>6
  <2>3. i \in 2..n /\ i \in 1..n /\ i \in 2..(n + 1) /\ i - 1 = k + 1 /\ k + 1 <= n
    BY <2>1, <2>2
  <2>4. f[i] = OidStep(f[i - 1], s[i]) /\ g[i] = OidStep(g[i - 1], new[i]) /\ new[i] = s[i]
    BY <1>2, <1>3, <1>4, <2>3
  <2>5. f[k + 1] = g[k + 1]
    BY <1>6, <2>3
  <2> QED BY <2>2, <2>3, <2>4, <2>5
<1>7. T \in SUBSET Nat
  OBVIOUS
<1>8. n - 1 \in T
  <2>1. n - 1 \in Nat
    BY <1>2
  <2> HIDE DEF T
  <2> QED BY <1>5, <1>6, <1>7, <2>1, SetInduction
<1>9. f[n] = g[n]
  <2>1. (n - 1) + 1 = n /\ n <= n
    OBVIOUS
  <2> QED BY <1>8, <2>1
<1>10. g[n + 1] = OidStep(g[(n + 1) - 1], new[n + 1]) /\ (n + 1) - 1 = n
  <2>1. n + 1 \in 2..(n + 1)
    BY <1>2
  <2>2. (n + 1) - 1 = n
    OBVIOUS
  <2> QED BY <1>4, <2>1, <2>2
<1> QED BY <1>1, <1>2, <1>3, <1>4, <1>9, <1>10

\* Numbers below these have up to two, up to three groups of seven bits.
TwoGroups == 16384
ThreeGroups == 2097152

(* Dividing by 128 leads from three groups to two and from two to one.     *)
LEMMA GroupMagnitudes ==
  /\ TwoGroups \in Nat /\ ThreeGroups \in Nat
  /\ \A n \in Nat : n < 128 => n < TwoGroups /\ n \div 128 = 0
  /\ \A n \in Nat : n < TwoGroups => n <= MaxInt /\ n \div 128 \in Nat /\ n \div 128 < 128
  /\ \A n \in Nat : n < ThreeGroups => n <= MaxInt /\ n \div 128 \in Nat /\ n \div 128 < TwoGroups
BY SMT DEF MaxInt, TwoGroups, ThreeGroups

(* Groups of seven bits are bytes, and read back to the number.            *)
LEMMA GroupsRead ==
  ASSUME NEW s \in Seq(Byte), Len(s) >= 1, NEW a, OidRead(s) = [part |-> 0, arcs |-> a],
         NEW N \in 0..MaxInt
  PROVE  /\ HighGroups[N] \in Seq(Byte)
         /\ OidRead(s \o HighGroups[N]) = [part |-> N, arcs |-> a]
<1> DEFINE P(n) == /\ HighGroups[n] \in Seq(Byte)
                   /\ OidRead(s \o HighGroups[n]) = [part |-> n, arcs |-> a]
           T == {n \in Nat : n <= MaxInt => P(n)}
<1>1. ASSUME NEW n \in Nat, \A m \in 0..(n - 1) : m \in T PROVE n \in T
  <2>1. SUFFICES ASSUME n <= MaxInt PROVE P(n)
    OBVIOUS
  <2>2. n \in 0..MaxInt
    BY <2>1, MaxIntNat
  <2>3. CASE n = 0
    <3>1. HighGroups[n] = <<>>
      BY <2>2, <2>3, HighGroupsDef
    <3>2. <<>> \in Seq(Byte) /\ s \o <<>> = s
      OBVIOUS
    <3> QED BY <2>3, <3>1, <3>2
  <2>4. CASE n # 0
    <3>1. PICK m \in Nat, b \in Byte :
            /\ m = n \div 128 /\ b = 128 + (n % 128) /\ b >= 128
            /\ n = 128 * m + (b - 128) /\ m < n
      <4>1. n \div 128 \in Nat /\ n \div 128 < n /\ n = 128 * (n \div 128) + (n % 128)
        BY <2>4
      <4>2. n % 128 \in Nat /\ n % 128 < 128
        OBVIOUS
      <4>3. 128 + (n % 128) \in Byte
        BY <4>2, ByteRange
      <4> QED BY <4>1, <4>2, <4>3
    <3>2. P(m)
      BY <1>1, <2>1, <3>1, MaxIntNat
    <3>3. HighGroups[n] = Append(HighGroups[m], b)
      BY <2>2, <2>4, <3>1, HighGroupsDef
    <3>4. PICK g \in Seq(Byte) : g = HighGroups[m]
      BY <3>2
    <3>5. /\ s \o g \in Seq(Byte) /\ s \o Append(g, b) = Append(s \o g, b)
          /\ Len(s \o g) >= 1 /\ Append(g, b) \in Seq(Byte)
      <4>1. <<b>> \in Seq(Byte) /\ Append(g, b) = g \o <<b>> /\ Append(g, b) \in Seq(Byte)
        BY AppendIsConcat
      <4>2. s \o g \in Seq(Byte) /\ Len(s \o g) = Len(s) + Len(g)
        BY ConcatProperties
      <4>3. Append(s \o g, b) = (s \o g) \o <<b>>
        BY <4>2, AppendIsConcat
      <4>4. (s \o g) \o <<b>> = s \o (g \o <<b>>)
        BY <4>1, ConcatAssociative
      <4>5. Len(s) \in Nat /\ Len(g) \in Nat
        OBVIOUS
      <4>6. Len(s \o g) >= 1
        BY <4>2, <4>5
      <4> QED BY <4>1, <4>2, <4>3, <4>4, <4>6
    <3>6. OidRead(Append(s \o g, b)) = OidStep(OidRead(s \o g), b)
      BY <3>5, OidReadAppend
    <3>7. OidRead(s \o g) = [part |-> m, arcs |-> a]
      BY <3>2, <3>4
    <3>8. OidStep([part |-> m, arcs |-> a], b) = [part |-> n, arcs |-> a]
      <4>1. b \in Nat
        BY ByteRange
      <4> QED BY <3>1, <4>1 DEF OidStep
    <3>9. HighGroups[n] = Append(g, b)
      BY <3>3, <3>4
    <3>10. OidRead(s \o HighGroups[n]) = [part |-> n, arcs |-> a]
      BY <3>5, <3>6, <3>7, <3>8, <3>9
    <3> QED BY <3>5, <3>9, <3>10
  <2> QED BY <2>3, <2>4
<1>2. T \in SUBSET Nat
  OBVIOUS
<1>3. N \in T
  <2>1. N \in Nat
    BY MaxIntNat
  <2> HIDE DEF T
  <2> QED BY <1>1, <1>2, <2>1, StrongInduction
<1> QED BY <1>3, MaxIntNat

(* A short number has few groups.                                          *)
LEMMA GroupsLength ==
  ASSUME NEW n \in Nat, n < TwoGroups
  PROVE  Len(HighGroups[n]) <= 2
<1>1. \A k \in Nat : k < TwoGroups => k \in 0..MaxInt
  BY GroupMagnitudes, MaxIntNat
<1>2. ASSUME NEW k \in Nat, k < TwoGroups
      PROVE  /\ k = 0 => HighGroups[k] = <<>>
             /\ k # 0 => HighGroups[k] = Append(HighGroups[k \div 128], 128 + (k % 128))
  <2>1. k \in 0..MaxInt
    BY <1>1, <1>2
  <2> QED BY <2>1, HighGroupsDef
<1>3. HighGroups[0] = <<>>
  <2>1. 0 < TwoGroups
    BY GroupMagnitudes
  <2> QED BY <1>2, <2>1
<1>4. ASSUME NEW k \in Nat, k < 128 PROVE HighGroups[k] = <<>> \/ \E x : HighGroups[k] = <<x>>
  <2>1. k < TwoGroups /\ k \div 128 = 0
    BY <1>4, GroupMagnitudes
  <2>2. CASE k = 0
    BY <1>3, <2>2
  <2>3. CASE k # 0
    <3>1. HighGroups[k] = Append(HighGroups[0], 128 + (k % 128))
      BY <1>2, <2>1, <2>3
    <3>2. Append(<<>>, 128 + (k % 128)) = <<128 + (k % 128)>>
      OBVIOUS
    <3> QED BY <1>3, <3>1, <3>2
  <2> QED BY <2>2, <2>3
<1>5. CASE n = 0
  <2>1. Len(<<>>) <= 2
    OBVIOUS
  <2> QED BY <1>3, <1>5, <2>1
<1>6. CASE n # 0
  <2>1. n \div 128 \in Nat /\ n \div 128 < 128
    BY GroupMagnitudes
  <2>2. PICK y : HighGroups[n] = Append(HighGroups[n \div 128], y)
    BY <1>2, <1>6
  <2>3. CASE HighGroups[n \div 128] = <<>>
    <3>1. HighGroups[n] = <<y>>
      BY <2>2, <2>3
    <3> QED BY <3>1
  <2>4. CASE \E x : HighGroups[n \div 128] = <<x>>
    <3>1. PICK x : HighGroups[n \div 128] = <<x>>
      BY <2>4
    <3>2. Len(Append(<<x>>, y)) = 2
      <4>1. <<x>> \in Seq({x, y}) /\ y \in {x, y} /\ Len(<<x>>) = 1
        OBVIOUS
      <4>2. Len(Append(<<x>>, y)) = Len(<<x>>) + 1
        BY <4>1, AppendProperties
      <4> QED BY <4>1, <4>2
    <3>3. HighGroups[n] = Append(<<x>>, y)
      BY <2>2, <3>1
    <3> QED BY <3>2, <3>3
  <2> QED BY <1>4, <2>1, <2>3, <2>4
<1> QED BY <1>5, <1>6

\* The bytes of one arc.
Arc(n) == Append(HighGroups[n \div 128], n % 128)

(* They are read as that arc.                                              *)
LEMMA ArcReads ==
  ASSUME NEW s \in Seq(Byte), Len(s) >= 1, NEW a, OidRead(s) = [part |-> 0, arcs |-> a],
         NEW n \in Nat, n < ThreeGroups
  PROVE  /\ Arc(n) \in Seq(Byte) /\ Len(Arc(n)) \in Nat /\ Len(Arc(n)) >= 1 /\ Len(Arc(n)) <= 3
         /\ Arc(n)[Len(Arc(n))] < 128
         /\ OidRead(s \o Arc(n)) = [part |-> 0, arcs |-> Append(a, n)]
<1>1. PICK m \in Nat : m = n \div 128 /\ m < TwoGroups /\ m \in 0..MaxInt
  <2>1. n <= MaxInt /\ n \div 128 \in Nat /\ n \div 128 < TwoGroups
    BY GroupMagnitudes
  <2>2. n \div 128 <= n
    OBVIOUS
  <2>3. n \div 128 \in 0..MaxInt
    BY <2>1, <2>2, MaxIntNat
  <2> QED BY <2>1, <2>3
<1>2. PICK b \in Byte : b = n % 128 /\ b < 128 /\ n = 128 * m + b /\ b \in Nat
  <2>1. n % 128 \in Nat /\ n % 128 < 128 /\ n = 128 * (n \div 128) + (n % 128)
    OBVIOUS
  <2>2. n % 128 \in Byte
    BY <2>1, ByteRange
  <2> QED BY <1>1, <2>1, <2>2
<1>3. PICK g \in Seq(Byte) : /\ g = HighGroups[m] /\ Len(g) <= 2 /\ Len(g) \in Nat
                             /\ OidRead(s \o g) = [part |-> m, arcs |-> a]
  <2>1. /\ HighGroups[m] \in Seq(Byte)
        /\ OidRead(s \o HighGroups[m]) = [part |-> m, arcs |-> a]
    BY <1>1, GroupsRead
  <2>2. Len(HighGroups[m]) <= 2
    BY <1>1, GroupsLength
  <2>3. Len(HighGroups[m]) \in Nat
    BY <2>1
  <2> QED BY <2>1, <2>2, <2>3
<1>4. Arc(n) = Append(g, b)
  BY <1>1, <1>2, <1>3 DEF Arc
<1>5. /\ Append(g, b) \in Seq(Byte) /\ Len(Append(g, b)) = Len(g) + 1
      /\ Append(g, b)[Len(g) + 1] = b
  OBVIOUS
<1>6. /\ s \o g \in Seq(Byte) /\ s \o Append(g, b) = Append(s \o g, b)
      /\ Len(s \o g) >= 1
  <2>1. <<b>> \in Seq(Byte) /\ Append(g, b) = g \o <<b>>
    BY AppendIsConcat
  <2>2. s \o g \in Seq(Byte) /\ Len(s \o g) = Len(s) + Len(g)
    BY ConcatProperties
  <2>3. Append(s \o g, b) = (s \o g) \o <<b>>
    BY <2>2, AppendIsConcat
  <2>4. (s \o g) \o <<b>> = s \o (g \o <<b>>)
    BY <2>1, ConcatAssociative
  <2>5. Len(s) \in Nat
    OBVIOUS
  <2>6. Len(s \o g) >= 1
    BY <1>3, <2>2, <2>5
  <2> QED BY <2>1, <2>2, <2>3, <2>4, <2>6
<1>7. OidRead(s \o Append(g, b)) = OidStep([part |-> m, arcs |-> a], b)
  BY <1>3, <1>6, OidReadAppend
<1>8. OidStep([part |-> m, arcs |-> a], b) = [part |-> 0, arcs |-> Append(a, n)]
  <2> DEFINE v == [part |-> m, arcs |-> a]
  <2>1. v.part = m /\ v.arcs = a
    OBVIOUS
  <2>2. ~(b >= 128) /\ 128 * m + b = n
    BY <1>2
  <2> HIDE DEF v
  <2>3. OidStep(v, b) = [part |-> 0, arcs |-> Append(v.arcs, 128 * v.part + b)]
    BY <2>2 DEF OidStep
  <2>4. OidStep(v, b) = [part |-> 0, arcs |-> Append(a, n)]
    BY <2>1, <2>2, <2>3
  <2> QED BY <2>4 DEF v
<1>9. Len(Append(g, b)) \in Nat /\ Len(Append(g, b)) >= 1 /\ Len(Append(g, b)) <= 3
      /\ Append(g, b)[Len(Append(g, b))] < 128
  BY <1>2, <1>3, <1>5
<1> QED BY <1>4, <1>5, <1>7, <1>8, <1>9

(* der_decode_oid returns what its loop holds at the end.                  *)
LEMMA OidDecoded ==
  ASSUME NEW node, IsUniversal(node, 6), node.content # <<>>
  PROVE  der_decode_oid(node)
           = IF OidRead(node.content).part = 0 /\ Last(node.content) < 128
             THEN Returned(OidRead(node.content).arcs) ELSE Raised
BY Zenon DEF der_decode_oid, When, OidRead, IsOidRead, OidStep, OidStart

(* The first byte holds two arcs.                                          *)
LEMMA FirstByte ==
  ASSUME NEW p \in Nat, p <= 2, NEW q \in Nat, q < 40
  PROVE  \E x \in Byte : x = 40 * p + q /\ OidRead(<<x>>) = [part |-> 0, arcs |-> <<p, q>>]
<1>1. 40 * p + q \in Nat /\ 40 * p + q < 256
  OBVIOUS
<1>2. (40 * p + q) \div 40 = p /\ (40 * p + q) % 40 = q
  <2>1. CASE p = 0
    BY <2>1
  <2>2. CASE p = 1
    BY <2>2
  <2>3. CASE p = 2
    BY <2>3
  <2> QED BY <2>1, <2>2, <2>3
<1>3. PICK x \in Byte : x = 40 * p + q
  BY <1>1, ByteRange
<1>4. OidStart(x) = [part |-> 0, arcs |-> <<p, q>>]
  BY <1>2, <1>3 DEF OidStart
<1>5. PICK c : c = <<x>>
  OBVIOUS
<1>6. Len(c) = 1 /\ c[1] = x
  BY <1>5
<1>7. PICK g : g[1] = OidStart(c[1]) /\ OidRead(c) = g[Len(c)]
  <2>1. Len(c) \in Nat /\ Len(c) >= 1
    BY <1>6
  <2>2. \E g : /\ g[1] = OidStart(c[1])
               /\ \A k \in 2..Len(c) : g[k] = OidStep(g[k - 1], c[k])
               /\ OidRead(c) = g[Len(c)]
    BY <2>1, OidReadValue
  <2> QED BY <2>2
<1>8. OidRead(c) = OidStart(x)
  BY <1>6, <1>7
<1> QED BY <1>3, <1>4, <1>5, <1>8

(* A prefix that is one longer.                                            *)
LEMMA PrefixGrows ==
  ASSUME NEW s \in Seq(Nat), NEW m \in Nat, m + 1 <= Len(s)
  PROVE  Append(SubSeq(s, 1, m), s[m + 1]) = SubSeq(s, 1, m + 1)
<1>1. PICK a \in Nat : a = s[m + 1]
  OBVIOUS
<1>2. (\A i \in 1..m : s[i] \in Nat) /\ (\A i \in 1..(m + 1) : s[i] \in Nat)
  OBVIOUS
<1>3. PICK t \in Seq(Nat) : t = SubSeq(s, 1, m) /\ Len(t) = m /\ \A i \in 1..m : t[i] = s[i]
  <2>1. /\ SubSeq(s, 1, m) \in Seq(Nat)
        /\ Len(SubSeq(s, 1, m)) = IF 1 <= m THEN m - 1 + 1 ELSE 0
        /\ \A i \in 1..(m - 1 + 1) : SubSeq(s, 1, m)[i] = s[1 + i - 1]
    BY <1>2, SubSeqProperties
  <2>2. Len(SubSeq(s, 1, m)) = m /\ \A i \in 1..m : SubSeq(s, 1, m)[i] = s[i]
    BY <2>1
  <2> QED BY <2>1, <2>2
<1>4. PICK u \in Seq(Nat) : /\ u = SubSeq(s, 1, m + 1) /\ Len(u) = m + 1
                            /\ \A i \in 1..(m + 1) : u[i] = s[i]
  <2>1. /\ SubSeq(s, 1, m + 1) \in Seq(Nat)
        /\ Len(SubSeq(s, 1, m + 1)) = IF 1 <= m + 1 THEN (m + 1) - 1 + 1 ELSE 0
        /\ \A i \in 1..((m + 1) - 1 + 1) : SubSeq(s, 1, m + 1)[i] = s[1 + i - 1]
    BY <1>2, SubSeqProperties
  <2>2. Len(SubSeq(s, 1, m + 1)) = m + 1 /\ \A i \in 1..(m + 1) : SubSeq(s, 1, m + 1)[i] = s[i]
    BY <2>1
  <2> QED BY <2>1, <2>2
<1>5. PICK v \in Seq(Nat) : /\ v = Append(t, a) /\ Len(v) = m + 1 /\ v[m + 1] = a
                            /\ \A i \in 1..m : v[i] = t[i]
  <2>1. /\ Append(t, a) \in Seq(Nat) /\ Len(Append(t, a)) = Len(t) + 1
        /\ \A i \in 1..Len(t) : Append(t, a)[i] = t[i]
        /\ Append(t, a)[Len(t) + 1] = a
    BY AppendProperties
  <2> QED BY <1>3, <2>1
<1>6. ASSUME NEW i \in 1..(m + 1) PROVE v[i] = u[i]
  <2>1. CASE i = m + 1
    BY <1>1, <1>4, <1>5, <2>1
  <2>2. CASE i \in 1..m
    BY <1>3, <1>4, <1>5, <2>2
  <2> QED BY <2>1, <2>2
<1>7. v = u
  BY <1>4, <1>5, <1>6, SeqEqual
<1> QED BY <1>1, <1>3, <1>4, <1>5, <1>7

\* After the first byte x, the bytes j of k arcs are read, and with them the arcs a.
Reading(x, j, a, k) ==
  /\ j \in Seq(Byte) /\ Len(j) \in Nat /\ Len(j) <= 3 * k
  /\ k > 0 => Len(j) >= 1 /\ j[Len(j)] < 128
  /\ OidRead(<<x>> \o j) = [part |-> 0, arcs |-> a]

(* Arc by arc.                                                             *)
LEMMA ReadingGrows ==
  ASSUME NEW x \in Byte, NEW j, NEW a, NEW k \in Nat, Reading(x, j, a, k),
         NEW n \in Nat, n < ThreeGroups
  PROVE  Reading(x, j \o Arc(n), Append(a, n), k + 1)
<1>1. /\ j \in Seq(Byte) /\ Len(j) \in Nat /\ Len(j) <= 3 * k
      /\ OidRead(<<x>> \o j) = [part |-> 0, arcs |-> a]
  BY DEF Reading
<1>2. <<x>> \in Seq(Byte) /\ Len(<<x>>) = 1
  OBVIOUS
<1>3. <<x>> \o j \in Seq(Byte) /\ Len(<<x>> \o j) >= 1
  <2>1. <<x>> \o j \in Seq(Byte) /\ Len(<<x>> \o j) = Len(<<x>>) + Len(j)
    BY <1>1, <1>2, ConcatProperties
  <2>2. Len(<<x>> \o j) >= 1
    BY <1>1, <1>2, <2>1
  <2> QED BY <2>1, <2>2
<1>4. PICK r : r = Arc(n)
  OBVIOUS
<1>5. /\ r \in Seq(Byte) /\ Len(r) \in Nat /\ Len(r) >= 1 /\ Len(r) <= 3 /\ r[Len(r)] < 128
      /\ OidRead((<<x>> \o j) \o r) = [part |-> 0, arcs |-> Append(a, n)]
  BY <1>1, <1>3, <1>4, ArcReads
<1>6. (<<x>> \o j) \o r = <<x>> \o (j \o r)
  BY <1>1, <1>2, <1>5, ConcatAssociative
<1>7. /\ j \o r \in Seq(Byte) /\ Len(j \o r) = Len(j) + Len(r)
      /\ (j \o r)[Len(j) + Len(r)] = r[Len(r)]
  <2>1. /\ j \o r \in Seq(Byte) /\ Len(j \o r) = Len(j) + Len(r)
        /\ \A i \in 1..(Len(j) + Len(r)) :
             (j \o r)[i] = IF i <= Len(j) THEN j[i] ELSE r[i - Len(j)]
    BY <1>1, <1>5, ConcatProperties
  <2>2. /\ Len(j) + Len(r) \in 1..(Len(j) + Len(r)) /\ ~(Len(j) + Len(r) <= Len(j))
        /\ (Len(j) + Len(r)) - Len(j) = Len(r)
    BY <1>1, <1>5
  <2> QED BY <2>1, <2>2
<1>8. Len(j \o r) >= 1 /\ Len(j \o r) <= 3 * (k + 1) /\ Len(j \o r) \in Nat
  BY <1>1, <1>5, <1>7
<1>9. (j \o r)[Len(j \o r)] < 128
  BY <1>5, <1>7
<1>10. OidRead(<<x>> \o (j \o r)) = [part |-> 0, arcs |-> Append(a, n)]
  BY <1>5, <1>6
<1> QED BY <1>4, <1>7, <1>8, <1>9, <1>10 DEF Reading

(* A content that is read like that is decoded to its arcs.                *)
LEMMA ReadingDecoded ==
  ASSUME NEW x \in Byte, NEW j, NEW a, NEW k \in Nat, k > 0, Reading(x, j, a, k)
  PROVE  /\ <<x>> \o j \in Seq(Byte) /\ Len(<<x>> \o j) <= 3 * k + 1
         /\ der_decode_oid(Leaf(6, <<x>> \o j)) = Returned(a)
<1>1. /\ j \in Seq(Byte) /\ Len(j) \in Nat /\ Len(j) <= 3 * k /\ Len(j) >= 1
      /\ j[Len(j)] < 128 /\ OidRead(<<x>> \o j) = [part |-> 0, arcs |-> a]
  BY DEF Reading
<1>2. <<x>> \in Seq(Byte) /\ Len(<<x>>) = 1
  OBVIOUS
<1>3. PICK c : c = <<x>> \o j
  OBVIOUS
<1>4. /\ c \in Seq(Byte) /\ Len(c) = Len(<<x>>) + Len(j)
      /\ \A i \in 1..(Len(<<x>>) + Len(j)) :
           c[i] = IF i <= Len(<<x>>) THEN <<x>>[i] ELSE j[i - Len(<<x>>)]
  BY <1>1, <1>2, <1>3, ConcatProperties
<1>5. 1 + Len(j) \in 1..(1 + Len(j)) /\ ~(1 + Len(j) <= 1) /\ (1 + Len(j)) - 1 = Len(j)
  BY <1>1
<1>6. Len(c) = 1 + Len(j) /\ c[1 + Len(j)] = j[Len(j)]
  BY <1>2, <1>4, <1>5
<1>7. Len(c) <= 3 * k + 1 /\ Len(c) # 0
  BY <1>1, <1>6
<1>8. Last(c) < 128 /\ c # <<>>
  BY <1>1, <1>6, <1>7 DEF Last
<1>9. OidRead(c).part = 0 /\ OidRead(c).arcs = a
  BY <1>1, <1>3
<1>10. PICK node : node = Leaf(6, c)
  OBVIOUS
<1>11. node.content = c /\ IsUniversal(node, 6)
  <2>1. Leaf(6, c).class = 0 /\ Leaf(6, c).number = 6 /\ Leaf(6, c).content = c
    BY LeafFields
  <2> QED BY <1>10, <2>1 DEF IsUniversal
<1>12. der_decode_oid(node)
         = IF OidRead(node.content).part = 0 /\ Last(node.content) < 128
           THEN Returned(OidRead(node.content).arcs) ELSE Raised
  BY <1>8, <1>11, OidDecoded
<1>13. der_decode_oid(node) = Returned(a)
  BY <1>8, <1>9, <1>11, <1>12
<1> QED BY <1>3, <1>4, <1>7, <1>10, <1>13

(* Every object identifier with small arcs is read back.                   *)
LEMMA OidReads ==
  ASSUME NEW arcs \in Seq(Nat), Len(arcs) >= 3,
         \A i \in 1..Len(arcs) : arcs[i] < ThreeGroups, arcs[1] <= 2, arcs[2] < 40
  PROVE  \E c \in Seq(Byte) : /\ DerOid(arcs) = Tlv(6, c) /\ Len(c) <= 3 * Len(arcs)
                              /\ der_decode_oid(Leaf(6, c)) = Returned(arcs)
<1>1. PICK n \in Nat : Len(arcs) = n + 2 /\ n >= 1 /\ Len(arcs) - 2 = n
  <2>1. Len(arcs) \in Nat
    OBVIOUS
  <2>2. PICK n \in Nat : n = Len(arcs) - 2
    BY <2>1
  <2> QED BY <2>1, <2>2
<1>2. arcs[1] \in Nat /\ arcs[2] \in Nat
  BY <1>1
<1>3. PICK x \in Byte : /\ x = 40 * arcs[1] + arcs[2]
                        /\ OidRead(<<x>>) = [part |-> 0, arcs |-> <<arcs[1], arcs[2]>>]
  BY <1>2, FirstByte
<1>4. PICK s : s = [i \in 1..n |-> Arc(arcs[i + 2])]
  OBVIOUS
<1>5. Len(s) = n /\ Len(s) # 0 /\ \A i \in 1..n : s[i] = Arc(arcs[i + 2])
  BY <1>1, <1>4
<1>6. PICK f : /\ f[1] = s[1] /\ \A i \in 2..n : f[i] = f[i - 1] \o s[i]
               /\ FlattenSeq(s) = f[n]
  BY <1>5, FlattenValue
<1>7. DerOid(arcs) = Tlv(6, <<x>> \o f[n])
  <2>1. DerOid(arcs) = Tlv(6, <<40 * arcs[1] + arcs[2]>> \o FlattenSeq(s))
    BY <1>1, <1>4 DEF DerOid, Arc
  <2> QED BY <1>3, <1>6, <2>1
<1>8. PICK joined : joined = [k \in 0..n |-> IF k = 0 THEN <<>> ELSE f[k]]
  OBVIOUS
<1>9. joined[0] = <<>> /\ joined[n] = f[n]
  BY <1>1, <1>8
<1>10. ASSUME NEW k \in Nat, k + 1 <= n
       PROVE  /\ k + 3 \in 1..Len(arcs) /\ arcs[k + 3] \in Nat /\ arcs[k + 3] < ThreeGroups
              /\ joined[k] \in Seq(Byte) => joined[k + 1] = joined[k] \o Arc(arcs[k + 3])
  <2>1. k + 3 \in 1..Len(arcs)
    BY <1>1, <1>10
  <2>2. arcs[k + 3] \in Nat /\ arcs[k + 3] < ThreeGroups
    BY <2>1
  <2>3. k + 1 \in 1..n /\ (k + 1) + 2 = k + 3
    BY <1>10
  <2>4. s[k + 1] = Arc(arcs[k + 3])
    BY <1>5, <2>3
  <2>5. k + 1 \in 0..n /\ k \in 0..n /\ k + 1 # 0
    BY <1>10
  <2>6. joined[k + 1] = f[k + 1]
    BY <1>8, <2>5
  <2>7. CASE k = 0
    <3>1. joined[k] = <<>> /\ f[k + 1] = s[1]
      BY <1>6, <1>9, <2>7
    <3>2. Arc(arcs[k + 3]) = s[1]
      BY <2>4, <2>7
    <3>3. <<x>> \in Seq(Byte) /\ Len(<<x>>) >= 1
      OBVIOUS
    <3>4. Arc(arcs[k + 3]) \in Seq(Byte)
      BY <1>3, <2>2, <3>3, ArcReads
    <3>5. <<>> \o Arc(arcs[k + 3]) = Arc(arcs[k + 3])
      BY <3>4
    <3> QED BY <2>1, <2>2, <2>6, <3>1, <3>2, <3>5
  <2>8. CASE k # 0
    <3>1. k + 1 \in 2..n /\ (k + 1) - 1 = k
      BY <1>10, <2>8
    <3>2. f[k + 1] = f[k] \o s[k + 1]
      BY <1>6, <3>1
    <3>3. joined[k] = f[k]
      BY <1>8, <2>5, <2>8
    <3> QED BY <2>1, <2>2, <2>4, <2>6, <3>2, <3>3
  <2> QED BY <2>7, <2>8
<1> DEFINE T == {k \in Nat : k <= n => Reading(x, joined[k], SubSeq(arcs, 1, k + 2), k)}
<1>11. 0 \in T
  <2>1. <<>> \in Seq(Byte) /\ Len(<<>>) = 0 /\ <<x>> \o <<>> = <<x>>
    OBVIOUS
  <2>2. SubSeq(arcs, 1, 0 + 2) = <<arcs[1], arcs[2]>>
    <3>1. \A i \in 1..2 : arcs[i] \in Nat
      BY <1>1
    <3>2. /\ SubSeq(arcs, 1, 2) \in Seq(Nat)
          /\ Len(SubSeq(arcs, 1, 2)) = IF 1 <= 2 THEN 2 - 1 + 1 ELSE 0
          /\ \A i \in 1..(2 - 1 + 1) : SubSeq(arcs, 1, 2)[i] = arcs[1 + i - 1]
      BY <3>1, SubSeqProperties
    <3>3. Len(SubSeq(arcs, 1, 2)) = 2 /\ \A i \in 1..2 : SubSeq(arcs, 1, 2)[i] = arcs[i]
      BY <3>2
    <3>5. SubSeq(arcs, 1, 2) = <<arcs[1], arcs[2]>>
      <4>1. PICK t \in Seq(Nat) : t = SubSeq(arcs, 1, 2)
        BY <3>2
      <4>2. Len(t) = 2 /\ t[1] = arcs[1] /\ t[2] = arcs[2]
        BY <3>3, <4>1
      <4>3. t = <<t[1], t[2]>>
        BY <4>2
      <4> QED BY <4>1, <4>2, <4>3
    <3>6. 0 + 2 = 2
      OBVIOUS
    <3> QED BY <3>5, <3>6
  <2>3. Reading(x, <<>>, SubSeq(arcs, 1, 0 + 2), 0)
    BY <1>3, <2>1, <2>2 DEF Reading
  <2> QED BY <1>9, <2>3
<1>12. ASSUME NEW k \in T PROVE k + 1 \in T
  <2>1. SUFFICES ASSUME k + 1 <= n
                 PROVE  Reading(x, joined[k + 1], SubSeq(arcs, 1, (k + 1) + 2), k + 1)
    BY <1>12
  <2>2. k \in Nat /\ Reading(x, joined[k], SubSeq(arcs, 1, k + 2), k)
    BY <1>1, <1>12, <2>1
  <2>3. joined[k] \in Seq(Byte)
    BY <2>2 DEF Reading
  <2>4. arcs[k + 3] \in Nat /\ arcs[k + 3] < ThreeGroups
        /\ joined[k + 1] = joined[k] \o Arc(arcs[k + 3])
    BY <1>10, <2>1, <2>2, <2>3
  <2>5. Reading(x, joined[k] \o Arc(arcs[k + 3]),
                Append(SubSeq(arcs, 1, k + 2), arcs[k + 3]), k + 1)
    BY <2>2, <2>4, ReadingGrows
  <2>6. k + 2 \in Nat /\ (k + 2) + 1 <= Len(arcs) /\ (k + 2) + 1 = k + 3 /\ (k + 1) + 2 = k + 3
    BY <1>1, <2>1, <2>2
  <2>7. Append(SubSeq(arcs, 1, k + 2), arcs[k + 3]) = SubSeq(arcs, 1, (k + 1) + 2)
    <3>1. Append(SubSeq(arcs, 1, k + 2), arcs[(k + 2) + 1]) = SubSeq(arcs, 1, (k + 2) + 1)
      BY <2>6, PrefixGrows
    <3> QED BY <2>6, <3>1
  <2> QED BY <2>4, <2>5, <2>7
<1>13. T \in SUBSET Nat
  OBVIOUS
<1>14. n \in T
  <2> HIDE DEF T
  <2> QED BY <1>11, <1>12, <1>13, SetInduction
<1>15. Reading(x, f[n], SubSeq(arcs, 1, n + 2), n)
  <2>1. n <= n => Reading(x, joined[n], SubSeq(arcs, 1, n + 2), n)
    BY <1>14
  <2>2. n <= n
    OBVIOUS
  <2> QED BY <1>9, <2>1, <2>2
<1>16. SubSeq(arcs, 1, n + 2) = arcs
  BY <1>1
<1> HIDE DEF T
<1>17. PICK c : c = <<x>> \o f[n]
  OBVIOUS
<1>18. c \in Seq(Byte) /\ Len(c) <= 3 * n + 1 /\ der_decode_oid(Leaf(6, c)) = Returned(arcs)
  <2>1. Reading(x, f[n], arcs, n)
    BY <1>15, <1>16, Zenon
  <2>2. n > 0
    BY <1>1
  <2> QED BY <1>17, <2>1, <2>2, ReadingDecoded
<1>19. Len(c) <= 3 * Len(arcs)
  <2>1. Len(c) \in Nat
    BY <1>18
  <2> QED BY <1>1, <1>18, <2>1
<1> QED BY <1>7, <1>17, <1>18, <1>19

-------------------------------------------------------------------------------
(* The messages of the protocol, from the inside to the outside.           *)

(* A tuple of one is the empty one with one more.                          *)
LEMMA TupleOne == ASSUME NEW a PROVE Append(<<>>, a) = <<a>>
OBVIOUS

(* A pair is a tuple of one with one more.                                 *)
LEMMA TupleTwo ==
  ASSUME NEW a, NEW b
  PROVE  Append(<<a>>, b) = <<a, b>>
<1>1. PICK S : S = {a, b}
  OBVIOUS
<1>2. a \in S /\ b \in S
  BY <1>1
<1>3. <<a, b>> = Append(<<a>>, b)
  BY <1>2
<1> QED BY <1>3

(* A triple is a pair with one more.                                       *)
LEMMA TupleThree ==
  ASSUME NEW a, NEW b, NEW c
  PROVE  Append(<<a, b>>, c) = <<a, b, c>>
<1>1. PICK S : S = {a, b, c}
  OBVIOUS
<1>2. a \in S /\ b \in S /\ c \in S
  BY <1>1
<1>3. <<a, b, c>> = Append(<<a, b>>, c)
  BY <1>2
<1> QED BY <1>3

(* A tuple of four is a triple with one more.                              *)
LEMMA TupleFour ==
  ASSUME NEW a, NEW b, NEW c, NEW d
  PROVE  Append(<<a, b, c>>, d) = <<a, b, c, d>>
<1>1. PICK S : S = {a, b, c, d}
  OBVIOUS
<1>2. a \in S /\ b \in S /\ c \in S /\ d \in S
  BY <1>1
<1>3. <<a, b, c, d>> = Append(<<a, b, c>>, d)
  BY <1>2
<1> QED BY <1>3

(* A tuple of five is one of four with one more.                           *)
LEMMA TupleFive ==
  ASSUME NEW a, NEW b, NEW c, NEW d, NEW e
  PROVE  Append(<<a, b, c, d>>, e) = <<a, b, c, d, e>>
<1>1. PICK S : S = {a, b, c, d, e}
  OBVIOUS
<1>2. a \in S /\ b \in S /\ c \in S /\ d \in S /\ e \in S
  BY <1>1
<1>3. <<a, b, c, d, e>> = Append(<<a, b, c, d>>, e)
  BY <1>2
<1> QED BY <1>3

(* The object identifiers of the protocol.                                 *)
LEMMA OidSmall ==
  ASSUME NEW oid \in {SHA256, OID_SIGNED_DATA, OID_TST_INFO, <<1, 3, 6, 1>>}
  PROVE  /\ oid \in Seq(Nat) /\ Len(oid) >= 3 /\ Len(oid) <= 9 /\ Len(oid) \in Nat
         /\ \A i \in 1..Len(oid) : oid[i] < ThreeGroups
         /\ oid[1] <= 2 /\ oid[2] < 40
<1>1. CASE oid = SHA256
  BY <1>1, SMT DEF SHA256, ThreeGroups
<1>2. CASE oid = OID_SIGNED_DATA
  BY <1>2, SMT DEF OID_SIGNED_DATA, ThreeGroups
<1>3. CASE oid = OID_TST_INFO
  BY <1>3, SMT DEF OID_TST_INFO, ThreeGroups
<1>4. CASE oid = <<1, 3, 6, 1>>
  BY <1>4, SMT DEF ThreeGroups
<1> QED BY <1>1, <1>2, <1>3, <1>4

(* Room for what is written around digests, texts and times.               *)
LEMMA MaxFieldNat ==
  /\ MaxField \in Nat /\ \A k \in Nat : k <= MaxField => k <= MaxInt
  /\ \A k \in Nat : k <= 3 * MaxField + 1000 => k <= MaxInt
BY SMT DEF MaxField, MaxInt

(* der_oid of an identifier of the protocol is decoded to it.              *)
LEMMA OidTlv ==
  ASSUME NEW oid \in {SHA256, OID_SIGNED_DATA, OID_TST_INFO, <<1, 3, 6, 1>>}
  PROVE  \E c \in Seq(Byte) : /\ Reads(DerOid(oid), Leaf(6, c), 33)
                              /\ der_decode_oid(Leaf(6, c)) = Returned(oid)
<1>1. /\ oid \in Seq(Nat) /\ Len(oid) >= 3 /\ Len(oid) <= 9 /\ Len(oid) \in Nat
      /\ \A i \in 1..Len(oid) : oid[i] < ThreeGroups
      /\ oid[1] <= 2 /\ oid[2] < 40
  BY OidSmall
<1>2. PICK c \in Seq(Byte) : /\ DerOid(oid) = Tlv(6, c) /\ Len(c) <= 3 * Len(oid)
                             /\ der_decode_oid(Leaf(6, c)) = Returned(oid)
  BY <1>1, OidReads
<1>3. Len(c) \in Nat /\ Len(c) <= 27 /\ 27 <= MaxInt
  BY <1>1, <1>2, MaxIntNat
<1>4. Reads(Tlv(6, c), Leaf(6, c), 27 + 6)
  BY <1>3, LeafReads
<1>5. 27 + 6 = 33
  OBVIOUS
<1> QED BY <1>2, <1>4, <1>5

(* der_integer and der_decode_integer.                                     *)
LEMMA SignedBytes ==
  ASSUME NEW n \in 0..MaxInt, NEW c, c = Signed(BigEndian[n])
  PROVE  /\ c \in Seq(Byte) /\ Len(c) \in Nat /\ Len(c) >= 1 /\ Len(c) <= 5
         /\ c # <<>> /\ c[1] < 128 /\ FromBytes(c) = n
<1>1. PICK b \in Seq(Byte) : /\ b = BigEndian[n] /\ Len(b) \in Nat /\ Len(b) <= 4
                             /\ FromBytes(b) = n /\ FromBytes(<<0>> \o b) = n
  <2>1. /\ BigEndian[n] \in Seq(Byte) /\ FromBytes(BigEndian[n]) = n
        /\ FromBytes(<<0>> \o BigEndian[n]) = n
    BY NumberReadsBack
  <2>2. Len(BigEndian[n]) \in Nat /\ Len(BigEndian[n]) <= 4
    BY NumberLength
  <2> QED BY <2>1, <2>2
<1>2. c = IF b = <<>> \/ b[1] >= 128 THEN <<0>> \o b ELSE b
  BY <1>1 DEF Signed
<1>3. CASE b = <<>> \/ b[1] >= 128
  <2>1. c = <<0>> \o b
    BY <1>2, <1>3
  <2>2. <<0>> \in Seq(Byte) /\ Len(<<0>>) = 1
    BY ByteRange
  <2>3. /\ c \in Seq(Byte) /\ Len(c) = Len(<<0>>) + Len(b)
        /\ \A i \in 1..(Len(<<0>>) + Len(b)) :
             c[i] = IF i <= Len(<<0>>) THEN <<0>>[i] ELSE b[i - Len(<<0>>)]
    BY <2>1, <2>2, ConcatProperties
  <2>4. c[1] = 0 /\ Len(c) = 1 + Len(b)
    BY <1>1, <2>2, <2>3
  <2>5. c # <<>>
    BY <1>1, <2>4
  <2> QED BY <1>1, <2>1, <2>3, <2>4, <2>5
<1>4. CASE ~(b = <<>> \/ b[1] >= 128)
  <2>1. c = b
    BY <1>2, <1>4
  <2>2. Len(b) >= 1
    BY <1>1, <1>4, EmptySeq
  <2>3. b[1] \in Byte
    BY <1>1, <2>2
  <2>4. b[1] < 128
    BY <1>4, <2>3, ByteRange
  <2> QED BY <1>1, <1>4, <2>1, <2>2, <2>4
<1> QED BY <1>3, <1>4

(* der_integer of a number is decoded to that number.                      *)
LEMMA IntegerReads ==
  ASSUME NEW n \in 0..MaxInt
  PROVE  /\ Reads(Tlv(2, Signed(BigEndian[n])), Leaf(2, Signed(BigEndian[n])), 11)
         /\ DerInteger(n) = Tlv(2, Signed(BigEndian[n]))
         /\ der_decode_integer(Leaf(2, Signed(BigEndian[n]))) = Returned(n)
<1>0. PICK c : c = Signed(BigEndian[n])
  OBVIOUS
<1>1. /\ c \in Seq(Byte) /\ Len(c) \in Nat /\ Len(c) >= 1 /\ Len(c) <= 5
      /\ c # <<>> /\ c[1] < 128 /\ FromBytes(c) = n
  BY <1>0, SignedBytes
<1>2. 5 <= MaxInt
  BY MaxIntNat
<1>3. Reads(Tlv(2, c), Leaf(2, c), 5 + 6)
  BY <1>1, <1>2, LeafReads
<1>4. 5 + 6 = 11
  OBVIOUS
<1>5. PICK node : node = Leaf(2, c)
  OBVIOUS
<1>6. node.content = c /\ node.class = 0 /\ node.number = 2 /\ ~node.constructed
  BY <1>5, LeafFields
<1>7. IsUniversal(node, 2)
  BY <1>6 DEF IsUniversal
<1>8. der_decode_integer(node) = Returned(FromBytes(c) - 0)
  <2>1. c[1] \in Nat /\ ~(c[1] >= 128)
    <3>1. c[1] \in Byte
      BY <1>1
    <3>2. c[1] \in Nat
      BY <3>1, ByteRange
    <3> QED BY <1>1, <3>2
  <2> QED BY <1>1, <1>6, <1>7, <2>1 DEF der_decode_integer
<1>9. FromBytes(c) - 0 = n
  BY <1>1, MaxIntNat
<1> QED BY <1>0, <1>3, <1>4, <1>5, <1>8, <1>9 DEF DerInteger

(* der_decode takes one TLV, and no bytes behind it.                       *)
LEMMA DecodeReads ==
  ASSUME NEW b, NEW nd, NEW k, Reads(b, nd, k), NEW rest \in Seq(Byte)
  PROVE  /\ der_decode(b) = Returned(nd)
         /\ rest # <<>> => der_decode(b \o rest) = Raised
<1>1. b \in Seq(Byte) /\ \A r \in Seq(Byte) :
        FirstTlv(b \o r, ParseAll) = Returned([node |-> nd, next |-> r])
  BY DEF Reads
<1>2. ASSUME NEW r \in Seq(Byte)
      PROVE  der_decode(b \o r) = IF r = <<>> THEN Returned(nd) ELSE Raised
  <2> DEFINE v == [node |-> nd, next |-> r]
  <2>1. v.node = nd /\ v.next = r
    OBVIOUS
  <2>2. ParseTlv(b \o r) = Returned(v)
    BY <1>1 DEF ParseTlv
  <2> HIDE DEF v
  <2>3. ParseTlv(b \o r).ok /\ ParseTlv(b \o r).val = v
    BY <2>2, Outcomes
  <2> QED BY <2>1, <2>3 DEF der_decode, Then, When
<1>3. b \o <<>> = b /\ <<>> \in Seq(Byte)
  BY <1>1
<1>4. der_decode(b \o <<>>) = Returned(nd)
  BY <1>2, <1>3
<1>5. rest # <<>> => der_decode(b \o rest) = Raised
  BY <1>2
<1> QED BY <1>3, <1>4, <1>5

-------------------------------------------------------------------------------
(* Damage: a TLV that is cut or extended is not decoded.                   *)

(* A prefix of a concatenation that reaches into its second part.          *)
LEMMA PrefixOfConcat ==
  ASSUME NEW h \in Seq(Byte), NEW c \in Seq(Byte), NEW m \in Nat,
         m >= Len(h), m <= Len(h) + Len(c)
  PROVE  SubSeq(h \o c, 1, m) = h \o SubSeq(c, 1, m - Len(h))
<1>1. PICK H \in Nat, C \in Nat, k \in Nat : H = Len(h) /\ C = Len(c) /\ k = m - H
  <2>1. Len(h) \in Nat /\ Len(c) \in Nat
    OBVIOUS
  <2>2. m - Len(h) \in Nat
    BY <2>1
  <2> QED BY <2>1, <2>2
<1>2. k <= C /\ m = H + k
  BY <1>1
<1>3. PICK b \in Seq(Byte) : /\ b = h \o c /\ Len(b) = H + C
                             /\ \A i \in 1..(H + C) : b[i] = IF i <= H THEN h[i] ELSE c[i - H]
  <2>1. /\ h \o c \in Seq(Byte) /\ Len(h \o c) = Len(h) + Len(c)
        /\ \A i \in 1..(Len(h) + Len(c)) :
             (h \o c)[i] = IF i <= Len(h) THEN h[i] ELSE c[i - Len(h)]
    BY ConcatProperties
  <2> QED BY <1>1, <2>1
<1>4. PICK p \in Seq(Byte) : /\ p = SubSeq(c, 1, k) /\ Len(p) = k
                             /\ \A i \in 1..k : p[i] = c[i]
  <2>1. \A i \in 1..k : c[i] \in Byte
    BY <1>1, <1>2
  <2>2. /\ SubSeq(c, 1, k) \in Seq(Byte)
        /\ Len(SubSeq(c, 1, k)) = IF 1 <= k THEN k - 1 + 1 ELSE 0
        /\ \A i \in 1..(k - 1 + 1) : SubSeq(c, 1, k)[i] = c[1 + i - 1]
    BY <2>1, SubSeqProperties
  <2>3. Len(SubSeq(c, 1, k)) = k /\ \A i \in 1..k : SubSeq(c, 1, k)[i] = c[i]
    BY <2>2
  <2> QED BY <2>2, <2>3
<1>5. PICK d \in Seq(Byte) : /\ d = SubSeq(b, 1, m) /\ Len(d) = m
                             /\ \A i \in 1..m : d[i] = b[i]
  <2>1. \A i \in 1..m : b[i] \in Byte
    BY <1>2, <1>3
  <2>2. /\ SubSeq(b, 1, m) \in Seq(Byte)
        /\ Len(SubSeq(b, 1, m)) = IF 1 <= m THEN m - 1 + 1 ELSE 0
        /\ \A i \in 1..(m - 1 + 1) : SubSeq(b, 1, m)[i] = b[1 + i - 1]
    BY <2>1, SubSeqProperties
  <2>3. Len(SubSeq(b, 1, m)) = m /\ \A i \in 1..m : SubSeq(b, 1, m)[i] = b[i]
    BY <2>2
  <2> QED BY <2>2, <2>3
<1>6. PICK e \in Seq(Byte) : /\ e = h \o p /\ Len(e) = H + k
                             /\ \A i \in 1..(H + k) : e[i] = IF i <= H THEN h[i] ELSE p[i - H]
  <2>1. /\ h \o p \in Seq(Byte) /\ Len(h \o p) = Len(h) + Len(p)
        /\ \A i \in 1..(Len(h) + Len(p)) :
             (h \o p)[i] = IF i <= Len(h) THEN h[i] ELSE p[i - Len(h)]
    BY ConcatProperties
  <2>2. Len(h) = H /\ Len(p) = k
    BY <1>1, <1>4
  <2>3. /\ Len(h \o p) = H + k
        /\ \A i \in 1..(H + k) : (h \o p)[i] = IF i <= H THEN h[i] ELSE p[i - H]
    BY <2>1, <2>2
  <2> QED BY <2>1, <2>3
<1>7. ASSUME NEW i \in 1..m PROVE d[i] = e[i]
  <2>1. d[i] = IF i <= H THEN h[i] ELSE c[i - H]
    <3>1. i \in 1..(H + C)
      BY <1>1, <1>2
    <3>2. d[i] = b[i]
      BY <1>5, <1>7
    <3>3. b[i] = IF i <= H THEN h[i] ELSE c[i - H]
      BY <1>3, <3>1
    <3> QED BY <3>2, <3>3
  <2>2. e[i] = IF i <= H THEN h[i] ELSE p[i - H]
    BY <1>2, <1>6
  <2>3. ASSUME ~(i <= H) PROVE p[i - H] = c[i - H]
    <3>1. i - H \in 1..k
      BY <1>2, <2>3
    <3> QED BY <1>4, <3>1
  <2> QED BY <2>1, <2>2, <2>3
<1>8. d = e
  BY <1>2, <1>5, <1>6, <1>7, SeqEqual
<1> QED BY <1>1, <1>3, <1>4, <1>5, <1>6, <1>8

(* What der_decode cannot read it does not return.                         *)
LEMMA DecodeRaises ==
  ASSUME NEW d, ~Header(d).ok \/ ~Fits(d)
  PROVE  ~der_decode(d).ok
<1>1. ~FirstTlv(d, ParseAll).ok
  <2>1. CASE ~Header(d).ok
    BY <2>1, FirstSteps
  <2>2. CASE Header(d).ok /\ ~Fits(d)
    BY <2>2, FirstSteps, Outcomes
  <2> QED BY <2>1, <2>2
<1> QED BY <1>1 DEF der_decode, ParseTlv, Then

(* A TLV cut short is not read.                                            *)
LEMMA CutRaises ==
  ASSUME NEW t \in Byte, t % 32 # 31, NEW c \in Message, NEW m \in Int,
         m < Len(Tlv(t, c))
  PROVE  ~der_decode(SubSeq(Tlv(t, c), 1, m)).ok
<1>1. PICK n \in 0..MaxInt : n = Len(c) /\ n \in Nat
  BY TlvShape, MaxIntNat
<1>2. PICK h \in Seq(Byte) : h = Head2(t, n) /\ Len(h) \in Nat /\ Len(h) >= 2 /\ h[1] = t
  BY HeadShape
<1>3. c \in Seq(Byte) /\ Tlv(t, c) = h \o c
  BY <1>1, <1>2, TlvShape
<1>4. PICK b \in Seq(Byte) : /\ b = Tlv(t, c) /\ Len(b) = Len(h) + n
                             /\ \A i \in 1..(Len(h) + n) :
                                  b[i] = IF i <= Len(h) THEN h[i] ELSE c[i - Len(h)]
  <2>1. /\ h \o c \in Seq(Byte) /\ Len(h \o c) = Len(h) + Len(c)
        /\ \A i \in 1..(Len(h) + Len(c)) :
             (h \o c)[i] = IF i <= Len(h) THEN h[i] ELSE c[i - Len(h)]
    BY <1>3, ConcatProperties
  <2> QED BY <1>1, <1>3, <2>1
<1>5. PICK d : d = SubSeq(b, 1, m)
  OBVIOUS
<1>6. m < Len(h) + n
  BY <1>4
<1>7. CASE m < 2
  <2>1. \A i \in 1..m : b[i] \in Byte
    BY <1>1, <1>2, <1>4, <1>6
  <2>2. Len(d) = IF 1 <= m THEN m - 1 + 1 ELSE 0
    BY <1>5, <2>1, SubSeqProperties
  <2>3. Len(d) < 2
    BY <1>7, <2>2
  <2>4. ~Header(d).ok
    BY <2>3, Outcomes DEF Header
  <2> QED BY <1>4, <1>5, <2>4, DecodeRaises
<1>8. CASE m >= 2 /\ m < Len(h)
  <2>1. n >= 128
    <3>1. n < 128 => Len(h) = 2
      BY <1>2, HeadShape
    <3>2. ASSUME n < 128 PROVE FALSE
      <4>1. Len(h) = 2
        BY <3>1, <3>2
      <4>2. m < 2
        BY <1>8, <4>1
      <4> QED BY <1>8, <4>2
    <3> QED BY <1>1, <3>2
  <2>2. PICK x \in Seq(Byte) : x = BigEndian[n]
    BY NumberReadsBack
  <2>3. Len(x) \in Nat /\ Len(x) >= 1 /\ Len(h) = 2 + Len(x) /\ h[2] = 128 + Len(x)
    BY <1>2, <2>1, <2>2, LongHead, SMTT(60)
  <2>4. \A i \in 1..m : b[i] \in Byte
    BY <1>1, <1>2, <1>4, <1>6
  <2>5. /\ d \in Seq(Byte) /\ Len(d) = IF 1 <= m THEN m - 1 + 1 ELSE 0
        /\ \A i \in 1..(m - 1 + 1) : d[i] = b[1 + i - 1]
    BY <1>5, <2>4, SubSeqProperties
  <2>6. Len(d) = m /\ d[2] = b[2]
    BY <1>8, <2>5
  <2>7. b[2] = h[2]
    BY <1>1, <1>2, <1>4
  <2>8. /\ d[2] >= 128 /\ d[2] - 128 = Len(x) /\ 2 + Len(x) > Len(d) /\ ~(Len(d) < 2)
    BY <1>8, <2>3, <2>6, <2>7
  <2>9. Header(d) = Raised
    BY <2>8 DEF Header
  <2> QED BY <1>4, <1>5, <2>9, Outcomes, DecodeRaises
<1>9. CASE m >= Len(h)
  <2>1. m \in Nat /\ m <= Len(h) + Len(c) /\ m - Len(h) \in Nat
    BY <1>1, <1>2, <1>6, <1>9
  <2>2. PICK p : p = SubSeq(c, 1, m - Len(h))
    OBVIOUS
  <2>3. d = h \o p
    <3>1. c \in Seq(Byte) /\ m >= Len(h)
      BY <1>3, <1>9
    <3>2. SubSeq(h \o c, 1, m) = h \o SubSeq(c, 1, m - Len(h))
      BY <2>1, <3>1, PrefixOfConcat
    <3>3. d = SubSeq(h \o c, 1, m)
      BY <1>3, <1>4, <1>5, Zenon
    <3> QED BY <2>2, <3>2, <3>3, Zenon
  <2>4. p \in Seq(Byte) /\ Len(p) = m - Len(h)
    <3>1. PICK k \in Nat : k = m - Len(h) /\ k <= Len(c)
      <4>1. PICK k \in Nat : k = m - Len(h)
        BY <2>1
      <4>2. k <= n
        BY <1>1, <1>2, <1>6, <4>1
      <4> QED BY <1>1, <4>1, <4>2
    <3>2. \A i \in 1..k : c[i] \in Byte
      <4>1. Len(c) \in Nat
        BY <1>3
      <4>2. \A i \in 1..k : i \in 1..Len(c)
        BY <3>1, <4>1
      <4> QED BY <1>3, <4>2
    <3>3. /\ SubSeq(c, 1, k) \in Seq(Byte)
          /\ Len(SubSeq(c, 1, k)) = IF 1 <= k THEN k - 1 + 1 ELSE 0
      BY <3>2, SubSeqProperties
    <3>4. Len(SubSeq(c, 1, k)) = k
      BY <3>3
    <3> QED BY <2>2, <3>1, <3>3, <3>4
  <2> DEFINE v == [start |-> Len(h), length |-> n]
  <2>5. Header(d) = Returned(v)
    BY <1>2, <2>3, <2>4, HeaderReads
  <2>6. v.start = Len(h) /\ v.length = n
    OBVIOUS
  <2> HIDE DEF v
  <2>7. Len(d) = m
    <3>1. Len(h \o p) = Len(h) + Len(p)
      BY <2>4, ConcatProperties
    <3> QED BY <1>2, <2>1, <2>3, <2>4, <3>1
  <2>8. ~Fits(d)
    <3>1. Header(d).val = v
      BY <2>5, Outcomes
    <3>2. ~(v.start + v.length <= Len(d))
      BY <1>1, <1>2, <1>6, <2>6, <2>7
    <3> QED BY <3>1, <3>2 DEF Fits, Head1
  <2> QED BY <1>4, <1>5, <2>8, DecodeRaises
<1>10. m < 2 \/ (m >= 2 /\ m < Len(h)) \/ m >= Len(h)
  BY <1>2
<1> QED BY <1>7, <1>8, <1>9, <1>10

(* So a damaged answer is not decoded, and an intact one is.               *)
LEMMA DamageRaises ==
  ASSUME NEW t \in {48}, NEW c \in Message, NEW nd, NEW k, Reads(Tlv(t, c), nd, k), NEW n \in Int
  PROVE  /\ n = 0 => der_decode(Damaged(Tlv(t, c), n)) = Returned(nd)
         /\ n # 0 => ~der_decode(Damaged(Tlv(t, c), n)).ok
<1>1. t \in Byte /\ t % 32 # 31
  BY ConstructedTag
<1>2. PICK b \in Seq(Byte) : b = Tlv(t, c) /\ Len(b) \in Nat
  BY <1>1, TlvShape
<1>3. CASE n = 0
  <2>1. Len(b) - 0 = Len(b)
    BY <1>2
  <2>2. SubSeq(b, 1, Len(b)) = b
    OBVIOUS
  <2>3. Damaged(b, n) = b
    BY <1>3, <2>1, <2>2 DEF Damaged
  <2>4. <<>> \in Seq(Byte)
    OBVIOUS
  <2>5. der_decode(b) = Returned(nd)
    BY <1>2, <2>4, DecodeReads
  <2> QED BY <1>2, <1>3, <2>3, <2>5
<1>4. CASE n > 0
  <2>1. Damaged(b, n) = SubSeq(b, 1, Len(b) - n)
    BY <1>4 DEF Damaged
  <2>2. Len(b) - n \in Int /\ Len(b) - n < Len(b)
    BY <1>2, <1>4
  <2>3. ~der_decode(SubSeq(Tlv(t, c), 1, Len(b) - n)).ok
    BY <1>1, <1>2, <2>2, CutRaises
  <2> QED BY <1>2, <1>4, <2>1, <2>3
<1>5. CASE n < 0
  <2>1. PICK z : z = [i \in 1..(-n) |-> 0]
    OBVIOUS
  <2>2. Damaged(b, n) = b \o z
    BY <1>5, <2>1 DEF Damaged
  <2>3. -n \in Nat /\ -n >= 1 /\ 0 \in Byte
    BY <1>5, ByteRange
  <2>4. z \in Seq(Byte) /\ Len(z) = -n
    BY <2>1, <2>3
  <2>5. z # <<>>
    BY <2>3, <2>4
  <2>6. der_decode(b \o z) = Raised
    BY <1>2, <2>4, <2>5, DecodeReads
  <2> QED BY <1>2, <1>5, <2>2, <2>6, Outcomes
<1> QED BY <1>3, <1>4, <1>5

-------------------------------------------------------------------------------
(* AlgorithmIdentifier, MessageImprint and the request.                    *)

(* A larger bound is a bound.                                              *)
LEMMA ReadsWithin ==
  ASSUME NEW b, NEW nd, NEW k, Reads(b, nd, k), NEW l \in Nat, k <= l
  PROVE  Reads(b, nd, l) /\ k \in Nat
<1>1. k \in Nat /\ Len(b) \in Nat /\ Len(b) <= k
  BY DEF Reads
<1>2. Len(b) <= l
  BY <1>1
<1> QED BY <1>1, <1>2 DEF Reads

(* A larger bound is a bound for a list too.                               *)
LEMMA ListsWithin ==
  ASSUME NEW bs, NEW nds, NEW k, Lists(bs, nds, k), NEW l \in Nat, k <= l
  PROVE  Lists(bs, nds, l) /\ k \in Nat
<1>1. k \in Nat /\ FlattenSeq(bs) \in Seq(Byte) /\ Len(FlattenSeq(bs)) <= k
  BY DEF Lists
<1>2. Len(FlattenSeq(bs)) <= l
  <2>1. Len(FlattenSeq(bs)) \in Nat
    BY <1>1
  <2> QED BY <1>1, <2>1
<1> QED BY <1>1, <1>2 DEF Lists

(* One TLV is read as a list of one node.                                  *)
LEMMA ListOne ==
  ASSUME NEW a, NEW x, NEW k, Reads(a, x, k)
  PROVE  Lists(<<a>>, <<x>>, k)
<1>1. Lists(Append(<<>>, a), Append(<<>>, x), 0 + k)
  BY ListsEmpty, ListsAppend
<1>2. Append(<<>>, a) = <<a>> /\ Append(<<>>, x) = <<x>>
  BY TupleOne
<1>3. 0 + k = k
  BY DEF Reads
<1> QED BY <1>1, <1>2, <1>3

(* Two TLVs are read as a list of two nodes.                               *)
LEMMA ListTwo ==
  ASSUME NEW a, NEW x, NEW j, Reads(a, x, j), NEW b, NEW y, NEW k, Reads(b, y, k)
  PROVE  Lists(<<a, b>>, <<x, y>>, j + k)
<1>1. PICK bs, nds : bs = <<a>> /\ nds = <<x>>
  OBVIOUS
<1>2. Lists(bs, nds, j)
  BY <1>1, ListOne
<1>3. Lists(Append(bs, b), Append(nds, y), j + k)
  BY <1>2, ListsAppend
<1>4. Append(<<a>>, b) = <<a, b>> /\ Append(<<x>>, y) = <<x, y>>
  BY TupleTwo
<1>5. Append(bs, b) = <<a, b>> /\ Append(nds, y) = <<x, y>>
  BY <1>1, <1>4, Zenon
<1> QED BY <1>3, <1>5

(* Three TLVs are read as a list of three nodes.                           *)
LEMMA ListThree ==
  ASSUME NEW a, NEW x, NEW i, Reads(a, x, i), NEW b, NEW y, NEW j, Reads(b, y, j),
         NEW c, NEW z, NEW k, Reads(c, z, k)
  PROVE  Lists(<<a, b, c>>, <<x, y, z>>, (i + j) + k)
<1>1. PICK bs, nds, m : bs = <<a, b>> /\ nds = <<x, y>> /\ m = i + j
  OBVIOUS
<1>2. Lists(bs, nds, m)
  BY <1>1, ListTwo
<1>3. Lists(Append(bs, c), Append(nds, z), m + k)
  BY <1>2, ListsAppend
<1>4. Append(<<a, b>>, c) = <<a, b, c>> /\ Append(<<x, y>>, z) = <<x, y, z>>
  BY TupleThree
<1>5. Append(bs, c) = <<a, b, c>> /\ Append(nds, z) = <<x, y, z>>
  BY <1>1, <1>4, Zenon
<1> QED BY <1>1, <1>3, <1>5

(* Four TLVs are read as a list of four nodes.                             *)
LEMMA ListFour ==
  ASSUME NEW a, NEW x, NEW h, Reads(a, x, h), NEW b, NEW y, NEW i, Reads(b, y, i),
         NEW c, NEW z, NEW j, Reads(c, z, j), NEW d, NEW u, NEW k, Reads(d, u, k)
  PROVE  Lists(<<a, b, c, d>>, <<x, y, z, u>>, ((h + i) + j) + k)
<1>1. PICK bs, nds, m : bs = <<a, b, c>> /\ nds = <<x, y, z>> /\ m = (h + i) + j
  OBVIOUS
<1>2. Lists(bs, nds, m)
  BY <1>1, ListThree
<1>3. Lists(Append(bs, d), Append(nds, u), m + k)
  BY <1>2, ListsAppend
<1>4. Append(<<a, b, c>>, d) = <<a, b, c, d>> /\ Append(<<x, y, z>>, u) = <<x, y, z, u>>
  BY TupleFour
<1>5. Append(bs, d) = <<a, b, c, d>> /\ Append(nds, u) = <<x, y, z, u>>
  BY <1>1, <1>4, Zenon
<1> QED BY <1>1, <1>3, <1>5

(* Five TLVs are read as a list of five nodes.                             *)
LEMMA ListFive ==
  ASSUME NEW a, NEW x, NEW g, Reads(a, x, g), NEW b, NEW y, NEW h, Reads(b, y, h),
         NEW c, NEW z, NEW i, Reads(c, z, i), NEW d, NEW u, NEW j, Reads(d, u, j),
         NEW e, NEW v, NEW k, Reads(e, v, k)
  PROVE  Lists(<<a, b, c, d, e>>, <<x, y, z, u, v>>, (((g + h) + i) + j) + k)
<1>1. PICK bs, nds, m : bs = <<a, b, c, d>> /\ nds = <<x, y, z, u>> /\ m = ((g + h) + i) + j
  OBVIOUS
<1>2. Lists(bs, nds, m)
  BY <1>1, ListFour
<1>3. Lists(Append(bs, e), Append(nds, v), m + k)
  BY <1>2, ListsAppend
<1>4. Append(<<a, b, c, d>>, e) = <<a, b, c, d, e>> /\ Append(<<x, y, z, u>>, v) = <<x, y, z, u, v>>
  BY TupleFive
<1>5. Append(bs, e) = <<a, b, c, d, e>> /\ Append(nds, v) = <<x, y, z, u, v>>
  BY <1>1, <1>4, Zenon
<1> QED BY <1>1, <1>3, <1>5

(* An optional TLV at the end.                                             *)
LEMMA ListMaybe ==
  ASSUME NEW bs, NEW nds, NEW m, Lists(bs, nds, m), NEW b, NEW nd, NEW k, Reads(b, nd, k),
         NEW cond
  PROVE  Lists(bs \o If(cond, b), nds \o If(cond, nd), m + k)
<1>1. AnySeq(bs) /\ AnySeq(nds) /\ m \in Nat /\ k \in Nat
  BY DEF Lists, Reads, AnySeq
<1>2. CASE cond
  <2>1. If(cond, b) = <<b>> /\ If(cond, nd) = <<nd>>
    BY <1>2 DEF If
  <2>2. bs \o <<b>> = Append(bs, b) /\ nds \o <<nd>> = Append(nds, nd)
    BY <1>1, AnyAppend
  <2>3. Lists(Append(bs, b), Append(nds, nd), m + k)
    BY ListsAppend
  <2> QED BY <2>1, <2>2, <2>3
<1>3. CASE ~cond
  <2>1. If(cond, b) = <<>> /\ If(cond, nd) = <<>>
    BY <1>3 DEF If
  <2>2. bs \o <<>> = bs /\ nds \o <<>> = nds
    BY <1>1, AnyAppend
  <2>3. m + k \in Nat /\ m <= m + k
    BY <1>1
  <2>4. Lists(bs, nds, m + k)
    BY <2>3, ListsWithin
  <2> QED BY <2>1, <2>2, <2>4
<1> QED BY <1>2, <1>3

\* nd is a SEQUENCE of the nodes nds.
IsSequence(nd, nds) ==
  IsUniversal(nd, 16) /\ nd.children = nds /\ ~IsUniversal(nd, 2)

(* der_sequence of what is read as a list.                                 *)
LEMMA SequenceNode ==
  ASSUME NEW bs, NEW nds, NEW k, Lists(bs, nds, k), k <= MaxInt, NEW l \in Nat, k + 6 <= l
  PROVE  \E nd : Reads(DerSequence(bs), nd, l) /\ IsSequence(nd, nds)
<1>1. PICK nd : nd = Branch(0, 16, FlattenSeq(bs), nds)
  OBVIOUS
<1>2. Reads(DerSequence(bs), nd, k + 6)
  BY <1>1, SequenceReads
<1>3. Reads(DerSequence(bs), nd, l)
  BY <1>2, ReadsWithin
<1>4. nd.class = 0 /\ nd.number = 16 /\ nd.children = nds
  BY <1>1, BranchFields
<1>5. IsSequence(nd, nds)
  BY <1>4 DEF IsSequence, IsUniversal
<1> QED BY <1>3, <1>5

(* AlgorithmIdentifier and MessageImprint.                                 *)
LEMMA AlgorithmReads ==
  \E nd : Reads(AlgorithmIdentifier(SHA256), nd, 45) /\ IsUniversal(nd, 16)
<1>1. PICK c \in Seq(Byte) : Reads(DerOid(SHA256), Leaf(6, c), 33)
  BY OidTlv
<1>2. <<>> \in Seq(Byte) /\ Len(<<>>) <= 0 /\ 0 <= MaxInt
  BY MaxIntNat
<1>3. Reads(DerNull, Leaf(5, <<>>), 0 + 6)
  BY <1>2, LeafReads DEF DerNull
<1>4. Lists(<<DerOid(SHA256), DerNull>>, <<Leaf(6, c), Leaf(5, <<>>)>>, 33 + (0 + 6))
  BY <1>1, <1>3, ListTwo
<1>5. 33 + (0 + 6) <= MaxInt /\ (33 + (0 + 6)) + 6 <= 45 /\ 45 \in Nat
  BY MaxIntNat
<1>6. PICK nd : /\ Reads(DerSequence(<<DerOid(SHA256), DerNull>>), nd, 45)
                /\ IsSequence(nd, <<Leaf(6, c), Leaf(5, <<>>)>>)
  BY <1>4, <1>5, SequenceNode
<1> QED BY <1>6 DEF AlgorithmIdentifier, IsSequence

\* nd is the imprint of digest d.
IsImprint(nd, d) ==
  \E alg : IsSequence(nd, <<alg, Leaf(4, d)>>) /\ IsUniversal(alg, 16)

(* A MessageImprint is read as the digest it was made from.                *)
LEMMA ImprintReads ==
  ASSUME NEW d \in Seq(Byte), Len(d) <= MaxField
  PROVE  \E nd : Reads(MessageImprint(SHA256, d), nd, MaxField + 60) /\ IsImprint(nd, d)
<1>1. PICK alg : Reads(AlgorithmIdentifier(SHA256), alg, 45) /\ IsUniversal(alg, 16)
  BY AlgorithmReads
<1>2. MaxField \in Nat /\ MaxField <= MaxInt
  BY MaxFieldNat
<1>3. Reads(DerOctetString(d), Leaf(4, d), MaxField + 6)
  BY <1>2, LeafReads DEF DerOctetString
<1>4. Lists(<<AlgorithmIdentifier(SHA256), DerOctetString(d)>>, <<alg, Leaf(4, d)>>,
            45 + (MaxField + 6))
  BY <1>1, <1>3, ListTwo
<1>5. /\ 45 + (MaxField + 6) \in Nat /\ 45 + (MaxField + 6) <= 3 * MaxField + 1000
      /\ (45 + (MaxField + 6)) + 6 <= MaxField + 60 /\ MaxField + 60 \in Nat
  BY <1>2
<1>6. 45 + (MaxField + 6) <= MaxInt
  BY <1>5, MaxFieldNat
<1>7. PICK nd : /\ Reads(DerSequence(<<AlgorithmIdentifier(SHA256), DerOctetString(d)>>), nd,
                         MaxField + 60)
                /\ IsSequence(nd, <<alg, Leaf(4, d)>>)
  BY <1>4, <1>5, <1>6, SequenceNode
<1> QED BY <1>1, <1>7 DEF MessageImprint, IsImprint

(* der_integer of a number, whatever its content octets are.               *)
LEMMA SomeInteger ==
  ASSUME NEW n \in 0..MaxInt
  PROVE  \E nd : Reads(DerInteger(n), nd, 11)
BY IntegerReads

(* The TSA reads the digest and the nonce of a request from its bytes.     *)
LEMMA RequestReads ==
  ASSUME NEW d \in Seq(Byte), Len(d) <= MaxField, NEW n \in 0..MaxInt, NEW ch,
         ch = der_decode(build_timestamp_req(SHA256, d, n)).val.children
  PROVE  ch[2].children[2].content = d /\ ch[3].content = Signed(BigEndian[n])
<1>1. PICK x : Reads(DerInteger(1), x, 11)
  <2>1. 1 \in 0..MaxInt
    BY MaxIntNat
  <2> QED BY <2>1, SomeInteger
<1>2. PICK y : Reads(MessageImprint(SHA256, d), y, MaxField + 60) /\ IsImprint(y, d)
  BY ImprintReads
<1>3. PICK z : Reads(DerInteger(n), z, 11) /\ z = Leaf(2, Signed(BigEndian[n]))
  BY IntegerReads
<1>4. PICK u : Reads(DerBoolean(FALSE), u, 7)
  <2>1. <<0>> \in Seq(Byte) /\ Len(<<0>>) <= 1 /\ 1 <= MaxInt
    BY ByteRange, MaxIntNat
  <2>2. Reads(Tlv(1, <<0>>), Leaf(1, <<0>>), 1 + 6)
    BY <2>1, LeafReads
  <2>3. Reads(Tlv(1, <<0>>), Leaf(1, <<0>>), 7)
    <3>1. 1 + 6 = 7
      OBVIOUS
    <3> QED BY <2>2, <3>1
  <2>4. Tlv(1, <<0>>) = DerBoolean(FALSE)
    BY DEF DerBoolean
  <2> QED BY <2>3, <2>4
<1>5. PICK bs, nds : /\ bs = <<DerInteger(1), MessageImprint(SHA256, d), DerInteger(n),
                               DerBoolean(FALSE)>>
                     /\ nds = <<x, y, z, u>>
  OBVIOUS
<1>6. Lists(bs, nds, ((11 + (MaxField + 60)) + 11) + 7)
  BY <1>1, <1>2, <1>3, <1>4, <1>5, ListFour
<1>7. PICK k : k = ((11 + (MaxField + 60)) + 11) + 7
  OBVIOUS
<1>8. k <= MaxInt /\ k + 6 \in Nat
  <2>1. MaxField \in Nat
    BY MaxFieldNat
  <2>2. k \in Nat /\ k <= 3 * MaxField + 1000
    BY <1>7, <2>1
  <2> QED BY <2>2, MaxFieldNat
<1>9. PICK nd : Reads(DerSequence(bs), nd, k + 6) /\ IsSequence(nd, nds)
  BY <1>6, <1>7, <1>8, SequenceNode
<1>10. der_decode(DerSequence(bs)) = Returned(nd)
  BY <1>9, DecodeReads
<1>11. DerSequence(bs) = build_timestamp_req(SHA256, d, n)
  BY <1>5 DEF build_timestamp_req
<1>12. Returned(nd).val = nd
  BY Outcomes
<1>13. ch = nds
  BY <1>9, <1>10, <1>11, <1>12 DEF IsSequence
<1>14. ch[2] = y /\ ch[3] = z
  BY <1>5, <1>13
<1>15. PICK alg : y.children = <<alg, Leaf(4, d)>>
  BY <1>2 DEF IsImprint, IsSequence
<1>16. y.children[2] = Leaf(4, d)
  BY <1>15
<1> QED BY <1>3, <1>14, <1>16, LeafFields

-------------------------------------------------------------------------------
(* TSTInfo and its optional fields.                                        *)

(* What comes after the first five children.                               *)
LEMMA ExtrasBehind ==
  ASSUME NEW b, AnySeq(b), Len(b) = 5, NEW e, AnySeq(e)
  PROVE  /\ SubSeq(b \o e, 6, Len(b \o e)) = e
         /\ \A i \in 1..5 : (b \o e)[i] = b[i]
         /\ Len(b \o e) \in Nat /\ Len(b \o e) >= 5
<1>1. PICK S : b \in Seq(S) /\ e \in Seq(S)
  <2>1. PICK A : b \in Seq(A)
    BY DEF AnySeq
  <2>2. PICK B : e \in Seq(B)
    BY DEF AnySeq
  <2>3. PICK S : S = A \cup B
    OBVIOUS
  <2>4. b \in Seq(S)
    BY <2>1, <2>3
  <2>5. e \in Seq(S)
    BY <2>2, <2>3
  <2> QED BY <2>4, <2>5
<1>2. PICK E \in Nat : E = Len(e)
  BY <1>1
<1>3. PICK c : c = b \o e
  OBVIOUS
<1>4. /\ c \in Seq(S) /\ Len(c) = 5 + E
      /\ \A i \in 1..(5 + E) : c[i] = IF i <= 5 THEN b[i] ELSE e[i - 5]
  <2>1. /\ b \o e \in Seq(S) /\ Len(b \o e) = Len(b) + Len(e)
        /\ \A i \in 1..(Len(b) + Len(e)) :
             (b \o e)[i] = IF i <= Len(b) THEN b[i] ELSE e[i - Len(b)]
    BY <1>1, ConcatProperties
  <2> QED BY <1>2, <1>3, <2>1
<1>5. PICK s : s = SubSeq(c, 6, 5 + E)
  OBVIOUS
<1>6. s \in Seq(S) /\ Len(s) = E /\ \A i \in 1..E : s[i] = c[6 + i - 1]
  <2>1. \A i \in 6..(5 + E) : i \in 1..Len(c)
    BY <1>4
  <2>2. /\ SubSeq(c, 6, 5 + E) \in Seq(S)
        /\ Len(SubSeq(c, 6, 5 + E)) = IF 6 <= 5 + E THEN 5 + E - 6 + 1 ELSE 0
        /\ \A i \in 1..(5 + E - 6 + 1) : SubSeq(c, 6, 5 + E)[i] = c[6 + i - 1]
    BY <1>2, <1>4, <2>1, SubSeqProperties
  <2> QED BY <1>2, <1>5, <2>2
<1>7. \A i \in 1..E : s[i] = e[i]
  <2> SUFFICES ASSUME NEW i \in 1..E PROVE s[i] = e[i]
    OBVIOUS
  <2>1. 6 + i - 1 \in 1..(5 + E) /\ 6 + i - 1 > 5 /\ (6 + i - 1) - 5 = i
    BY <1>2
  <2> QED BY <1>4, <1>6, <2>1
<1>8. s = e
  BY <1>1, <1>2, <1>6, <1>7, SeqEqual
<1>9. \A i \in 1..5 : c[i] = b[i]
  BY <1>2, <1>4
<1>10. 5 + E \in Nat /\ 5 + E >= 5
  BY <1>2
<1> QED BY <1>3, <1>4, <1>5, <1>8, <1>9, <1>10

(* The nonce is the only INTEGER there, or there is none.                  *)
LEMMA OneInteger ==
  ASSUME NEW e, NEW i \in Nat, i \in DOMAIN e, IsUniversal(e[i], 2),
         \A j \in DOMAIN e : j # i => ~IsUniversal(e[j], 2)
  PROVE  NonceOf(e) = der_decode_integer(e[i])
<1>1. {j \in DOMAIN e : IsUniversal(e[j], 2)} = {i}
  OBVIOUS
<1>2. Min({i}) = i
  BY DEF Min
<1>3. {i} # {}
  OBVIOUS
<1> QED BY <1>1, <1>2, <1>3 DEF NonceOf

(* Without an INTEGER after genTime there is no nonce.                     *)
LEMMA NoInteger ==
  ASSUME NEW e, \A j \in DOMAIN e : ~IsUniversal(e[j], 2)
  PROVE  NonceOf(e) = Returned(NoNonce)
<1>1. {j \in DOMAIN e : IsUniversal(e[j], 2)} = {}
  OBVIOUS
<1> QED BY <1>1 DEF NonceOf

(* Concatenations of short tuples, and their indexes.                      *)
LEMMA Joins ==
  ASSUME NEW a, NEW b, NEW c
  PROVE  <<a>> \o <<b>> = <<a, b>> /\ <<a, b>> \o <<c>> = <<a, b, c>>
<1>1. AnySeq(<<a>>) /\ AnySeq(Append(<<a>>, b))
  <2>1. AnySeq(<<>>)
    BY DEF AnySeq
  <2>2. AnySeq(<<a>>)
    BY <2>1, AnyAppend
  <2> QED BY <2>2, AnyAppend
<1>2. Append(<<a>>, b) = <<a, b>>
  BY TupleTwo
<1>3. Append(<<a, b>>, c) = <<a, b, c>>
  BY TupleThree
<1>4. PICK s, t : s = <<a>> /\ t = <<a, b>>
  OBVIOUS
<1>5. AnySeq(s) /\ AnySeq(t)
  BY <1>1, <1>2, <1>4
<1>6. s \o <<b>> = Append(s, b) /\ t \o <<c>> = Append(t, c)
  BY <1>5, AnyAppend
<1> QED BY <1>2, <1>3, <1>4, <1>6

(* Tuples of up to three are sequences, with these indexes.                *)
LEMMA ShortTuples ==
  ASSUME NEW a, NEW b, NEW c
  PROVE  /\ AnySeq(<<>>) /\ AnySeq(<<a>>) /\ AnySeq(<<a, b>>) /\ AnySeq(<<a, b, c>>)
         /\ DOMAIN <<>> = {} /\ DOMAIN <<a>> = {1}
         /\ DOMAIN <<a, b>> = {1, 2} /\ DOMAIN <<a, b, c>> = {1, 2, 3}
<1>1. AnySeq(<<>>)
  BY DEF AnySeq
<1>2. PICK S : S = {a, b, c}
  OBVIOUS
<1>3. <<a>> \in Seq(S) /\ <<a, b>> \in Seq(S) /\ <<a, b, c>> \in Seq(S)
  BY <1>2
<1>4. AnySeq(<<a>>) /\ AnySeq(<<a, b>>) /\ AnySeq(<<a, b, c>>)
  BY <1>3, Zenon DEF AnySeq
<1>5. DOMAIN <<>> = {} /\ DOMAIN <<a>> = {1}
  OBVIOUS
<1>6. DOMAIN <<a, b>> = {1, 2}
  OBVIOUS
<1>7. DOMAIN <<a, b, c>> = {1, 2, 3}
  OBVIOUS
<1> QED BY <1>1, <1>4, <1>5, <1>6, <1>7

\* The optional nodes after genTime.
Extras(A, N, T, x, y, z) == (If(A, x) \o If(N, y)) \o If(T, z)

(* The first INTEGER after genTime is the nonce, whatever stands around it. *)
LEMMA NonceAmong ==
  ASSUME NEW A, NEW N, NEW T, NEW x, NEW y, NEW z,
         ~IsUniversal(x, 2), IsUniversal(y, 2), ~IsUniversal(z, 2)
  PROVE  NonceOf(Extras(A, N, T, x, y, z))
           = IF N THEN der_decode_integer(y) ELSE Returned(NoNonce)
<1>1. /\ A => If(A, x) = <<x>>
      /\ ~A => If(A, x) = <<>>
      /\ N => If(N, y) = <<y>>
      /\ ~N => If(N, y) = <<>>
      /\ T => If(T, z) = <<z>>
      /\ ~T => If(T, z) = <<>>
  BY DEF If
<1>2. PICK p, q, r : p = <<x>> /\ q = <<y>> /\ r = <<z>>
  OBVIOUS
<1>3. AnySeq(p) /\ AnySeq(q) /\ AnySeq(r)
  BY <1>2, ShortTuples
<1>4. /\ p \o <<>> = p /\ <<>> \o p = p /\ q \o <<>> = q /\ <<>> \o q = q
      /\ r \o <<>> = r /\ <<>> \o r = r /\ <<>> \o <<>> = <<>>
  BY <1>3, AnyAppend
<1>5. /\ p \o q = <<x, y>> /\ p \o r = <<x, z>> /\ q \o r = <<y, z>>
      /\ <<x, y>> \o r = <<x, y, z>>
  BY <1>2, Joins
<1>6. PICK xy : xy = <<x, y>>
  OBVIOUS
<1>7. xy \o <<>> = xy
  <2>1. AnySeq(xy)
    BY <1>6, ShortTuples
  <2> QED BY <2>1, AnyAppend
<1>8. PICK e : e = Extras(A, N, T, x, y, z) /\ e = (If(A, x) \o If(N, y)) \o If(T, z)
  BY DEF Extras
<1>9. ~N => e = <<>> \/ e = p \/ e = r \/ e = <<x, z>>
  BY <1>1, <1>2, <1>4, <1>5, <1>8, Zenon
<1>10. N => e = q \/ e = xy \/ e = <<y, z>> \/ e = <<x, y, z>>
  BY <1>1, <1>2, <1>4, <1>5, <1>6, <1>7, <1>8, Zenon
<1>11. CASE ~N
  <2>2. \A j \in DOMAIN e : ~IsUniversal(e[j], 2)
    <3>1. CASE e = <<>>
      BY <3>1, ShortTuples
    <3>2. CASE e = p
      <4>1. DOMAIN e = {1} /\ e[1] = x
        BY <1>2, <3>2, ShortTuples
      <4> QED BY <4>1
    <3>3. CASE e = r
      <4>1. DOMAIN e = {1} /\ e[1] = z
        BY <1>2, <3>3, ShortTuples
      <4> QED BY <4>1
    <3>4. CASE e = <<x, z>>
      <4>1. DOMAIN e = {1, 2} /\ e[1] = x /\ e[2] = z
        BY <3>4, ShortTuples
      <4> QED BY <4>1
    <3> QED BY <1>9, <1>11, <3>1, <3>2, <3>3, <3>4
  <2> QED BY <1>8, <1>11, <2>2, NoInteger
<1>12. CASE N
  <2>2. PICK i \in Nat : /\ i \in DOMAIN e /\ e[i] = y
                         /\ \A j \in DOMAIN e : j # i => ~IsUniversal(e[j], 2)
    <3>1. CASE e = q
      <4>1. DOMAIN e = {1} /\ e[1] = y
        BY <1>2, <3>1, ShortTuples
      <4> QED BY <4>1
    <3>2. CASE e = xy
      <4>1. DOMAIN e = {1, 2} /\ e[1] = x /\ e[2] = y
        BY <1>6, <3>2, ShortTuples
      <4> QED BY <4>1
    <3>3. CASE e = <<y, z>>
      <4>1. DOMAIN e = {1, 2} /\ e[1] = y /\ e[2] = z
        BY <3>3, ShortTuples
      <4> QED BY <4>1
    <3>4. CASE e = <<x, y, z>>
      <4>1. DOMAIN e = {1, 2, 3} /\ e[1] = x /\ e[2] = y /\ e[3] = z
        BY <3>4, ShortTuples
      <4> QED BY <4>1
    <3> QED BY <1>10, <1>12, <3>1, <3>2, <3>3, <3>4
  <2> QED BY <1>8, <1>12, <2>2, OneInteger
<1> QED BY <1>8, <1>11, <1>12

\* Result r of reading a TSTInfo with time t: what it says, or DerError for a time that
\* is not ASCII.
ReadsInfo(r, t, info) ==
  /\ IsAscii(t) => r = Returned(info)
  /\ ~IsAscii(t) => ~r.ok

(* parse_tst_info of a well-formed node.                                   *)
LEMMA ParseTst ==
  ASSUME NEW nd, NEW ch, IsSequence(nd, ch), Len(ch) >= 5, IsUniversal(ch[2], 6),
         NEW d, IsImprint(ch[3], d), NEW t, ch[5] = Leaf(24, t), NEW v,
         NonceOf(SubSeq(ch, 6, Len(ch))) = Returned(v)
  PROVE  ReadsInfo(parse_tst_info(nd), t,
                   [hashed_message |-> d, nonce |-> v, gen_time |-> t])
<1>1. nd.children = ch /\ Has(nd, 5)
  BY DEF IsSequence, Has
<1>2. PICK alg : IsSequence(ch[3], <<alg, Leaf(4, d)>>) /\ IsUniversal(alg, 16)
  BY DEF IsImprint
<1>3. HasExactly(ch[3], 2)
  <2>1. Len(<<alg, Leaf(4, d)>>) = 2
    OBVIOUS
  <2>2. IsUniversal(ch[3], 16) /\ ch[3].children = <<alg, Leaf(4, d)>>
    BY <1>2 DEF IsSequence
  <2>3. Len(ch[3].children) = 2
    BY <2>1, <2>2
  <2> QED BY <2>2, <2>3 DEF HasExactly, Has
<1>4. ch[3].children[1] = alg /\ ch[3].children[2] = Leaf(4, d)
  <2>1. ch[3].children = <<alg, Leaf(4, d)>>
    BY <1>2 DEF IsSequence
  <2> QED BY <2>1
<1>5. IsUniversal(ch[5], 24) /\ ch[5].content = t
  BY LeafFields DEF IsUniversal
<1>6. der_decode_octet_string(Leaf(4, d)) = Returned(d)
  BY LeafFields DEF der_decode_octet_string, IsUniversal, When
<1>7. PICK n : n = NonceOf(SubSeq(ch, 6, Len(ch)))
  OBVIOUS
<1>8. n.ok /\ n.val = v
  BY <1>7, Outcomes
<1>9. PICK o : o = der_decode_octet_string(ch[3].children[2]) /\ o.ok /\ o.val = d
  BY <1>4, <1>6, Outcomes
<1>10. PICK w : w = When(Has(nd, 5), nd.children) /\ w.ok /\ w.val = ch
  BY <1>1, Outcomes DEF When
<1>11. PICK h : /\ h = When(/\ IsUniversal(ch[2], 6)
                            /\ HasExactly(ch[3], 2) /\ IsUniversal(ch[3].children[1], 16),
                            ch[3].children[2])
                /\ h.ok /\ h.val = ch[3].children[2]
  BY <1>2, <1>3, <1>4, Outcomes DEF When
<1>12. PICK g : g = der_decode_generalized_time(ch[5])
  OBVIOUS
<1>13. ASSUME IsAscii(t)
       PROVE  parse_tst_info(nd)
                = Returned([hashed_message |-> d, nonce |-> v, gen_time |-> t])
  <2>1. g.ok /\ g.val = t
    BY <1>5, <1>12, <1>13, Outcomes DEF der_decode_generalized_time, When
  <2> QED BY <1>7, <1>8, <1>9, <1>10, <1>11, <1>12, <2>1 DEF parse_tst_info, Then
<1>14. ASSUME ~IsAscii(t) PROVE ~parse_tst_info(nd).ok
  <2>1. ~g.ok
    BY <1>5, <1>12, <1>14, Outcomes DEF der_decode_generalized_time, When
  <2>2. parse_tst_info(nd) = g
    BY <1>9, <1>10, <1>11, <1>12, <2>1 DEF parse_tst_info, Then
  <2> QED BY <2>1, <2>2
<1> QED BY <1>13, <1>14 DEF ReadsInfo

\* An answer of the protocol that echoes nonce k.
WellFormed(a, k) ==
  /\ k \in 0..MaxInt /\ a.nonce = Signed(BigEndian[k])
  /\ a.digest \in Seq(Byte) /\ Len(a.digest) <= MaxField
  /\ a.shape.time \in Seq(Byte) /\ Len(a.shape.time) <= MaxField
  /\ a.shape.status \in 0..5 /\ a.shape.text \in 0..MaxField

\* What its TSTInfo says.
Info(a, k) ==
  [hashed_message |-> a.digest, nonce |-> IF a.shape.nonce THEN k ELSE NoNonce,
   gen_time |-> a.shape.time]

(* The optional fields after genTime.                                      *)
LEMMA OptionalFields ==
  /\ \E nd : Reads(DerSequence(<<DerInteger(1)>>), nd, 17) /\ ~IsUniversal(nd, 2)
  /\ \E nd : Reads(DerExplicit(0, DerOctetString(<<1>>)), nd, 13) /\ ~IsUniversal(nd, 2)
<1>1. \E nd : Reads(DerSequence(<<DerInteger(1)>>), nd, 17) /\ ~IsUniversal(nd, 2)
  <2>1. 1 \in 0..MaxInt /\ 11 <= MaxInt /\ 17 \in Nat /\ 11 + 6 <= 17
    BY MaxIntNat
  <2>2. PICK x : Reads(DerInteger(1), x, 11)
    BY <2>1, SomeInteger
  <2>3. PICK bs, nds : bs = <<DerInteger(1)>> /\ nds = <<x>>
    OBVIOUS
  <2>4. Lists(bs, nds, 11)
    BY <2>2, <2>3, ListOne
  <2>5. PICK nd : Reads(DerSequence(bs), nd, 17) /\ IsSequence(nd, nds)
    BY <2>1, <2>4, SequenceNode
  <2> QED BY <2>3, <2>5 DEF IsSequence
<1>2. \E nd : Reads(DerExplicit(0, DerOctetString(<<1>>)), nd, 13) /\ ~IsUniversal(nd, 2)
  <2>1. <<1>> \in Seq(Byte) /\ Len(<<1>>) <= 1 /\ 1 <= MaxInt /\ 1 + 6 <= MaxInt
    BY ByteRange, MaxIntNat
  <2>2. PICK b : b = DerOctetString(<<1>>)
    OBVIOUS
  <2>3. Reads(b, Leaf(4, <<1>>), 1 + 6)
    BY <2>1, <2>2, LeafReads DEF DerOctetString
  <2>4. Reads(DerExplicit(0, b), Branch(2, 0, b, <<Leaf(4, <<1>>)>>), (1 + 6) + 6)
    BY <2>1, <2>3, ExplicitReads
  <2>5. (1 + 6) + 6 = 13
    OBVIOUS
  <2>6. Branch(2, 0, b, <<Leaf(4, <<1>>)>>).class = 2
    BY BranchFields
  <2>7. ~IsUniversal(Branch(2, 0, b, <<Leaf(4, <<1>>)>>), 2)
    BY <2>6 DEF IsUniversal
  <2> QED BY <2>2, <2>4, <2>5, <2>7
<1> QED BY <1>1, <1>2

(* A TSTInfo is read back as what it says, whatever optional fields it has. *)
LEMMA TstReads ==
  ASSUME NEW a, NEW k, WellFormed(a, k)
  PROVE  \E nd : /\ Reads(TstInfo(a), nd, 2 * MaxField + 168)
                 /\ ReadsInfo(parse_tst_info(nd), a.shape.time, Info(a, k))
<1> DEFINE F == MaxField
           A == a.shape.accuracy
           N == a.shape.nonce
           T == a.shape.tsa
<1>1. PICK x1 : Reads(DerInteger(1), x1, 11)
  <2>1. 1 \in 0..MaxInt
    BY MaxIntNat
  <2> QED BY <2>1, SomeInteger
<1>2. PICK x2 : Reads(DerOid(<<1, 3, 6, 1>>), x2, 33) /\ IsUniversal(x2, 6)
  <2>1. PICK c \in Seq(Byte) : Reads(DerOid(<<1, 3, 6, 1>>), Leaf(6, c), 33)
    BY OidTlv
  <2>2. IsUniversal(Leaf(6, c), 6)
    BY LeafFields DEF IsUniversal
  <2> QED BY <2>1, <2>2
<1>3. PICK x3 : Reads(MessageImprint(SHA256, a.digest), x3, F + 60) /\ IsImprint(x3, a.digest)
  BY ImprintReads DEF WellFormed
<1>4. PICK x4 : Reads(DerInteger(7), x4, 11)
  <2>1. 7 \in 0..MaxInt
    BY MaxIntNat
  <2> QED BY <2>1, SomeInteger
<1>5. F \in Nat /\ F <= MaxInt
  BY MaxFieldNat
<1>6. PICK x5 : Reads(DerGeneralizedTime(a.shape.time), x5, F + 6) /\ x5 = Leaf(24, a.shape.time)
  <2>1. Reads(Tlv(24, a.shape.time), Leaf(24, a.shape.time), F + 6)
    BY <1>5, LeafReads DEF WellFormed
  <2> QED BY <2>1 DEF DerGeneralizedTime
<1>7. PICK x : Reads(DerSequence(<<DerInteger(1)>>), x, 17) /\ ~IsUniversal(x, 2)
  BY OptionalFields
<1>8. PICK y : /\ Reads(Tlv(2, a.nonce), y, 11) /\ IsUniversal(y, 2)
               /\ der_decode_integer(y) = Returned(k)
  <2>1. k \in 0..MaxInt /\ a.nonce = Signed(BigEndian[k])
    BY DEF WellFormed
  <2>2. PICK y : y = Leaf(2, a.nonce)
    OBVIOUS
  <2>3. Reads(Tlv(2, a.nonce), y, 11) /\ der_decode_integer(y) = Returned(k)
    BY <2>1, <2>2, IntegerReads
  <2>4. IsUniversal(y, 2)
    BY <2>2, LeafFields DEF IsUniversal
  <2> QED BY <2>3, <2>4
<1>9. PICK z : Reads(DerExplicit(0, DerOctetString(<<1>>)), z, 13) /\ ~IsUniversal(z, 2)
  BY OptionalFields
<1>10. PICK bs, nds : /\ bs = <<DerInteger(1), DerOid(<<1, 3, 6, 1>>),
                                MessageImprint(SHA256, a.digest), DerInteger(7),
                                DerGeneralizedTime(a.shape.time)>>
                      /\ nds = <<x1, x2, x3, x4, x5>>
  OBVIOUS
<1>11. Lists(bs, nds, (((11 + 33) + (F + 60)) + 11) + (F + 6))
  BY <1>1, <1>2, <1>3, <1>4, <1>6, <1>10, ListFive
<1>12. PICK m : m = (((11 + 33) + (F + 60)) + 11) + (F + 6)
  OBVIOUS
<1>13. PICK p, q, r : /\ p = DerSequence(<<DerInteger(1)>>) /\ q = Tlv(2, a.nonce)
                      /\ r = DerExplicit(0, DerOctetString(<<1>>))
  OBVIOUS
<1>14. Lists(bs \o If(A, p), nds \o If(A, x), m + 17)
  BY <1>7, <1>11, <1>12, <1>13, ListMaybe
<1>15. Lists((bs \o If(A, p)) \o If(N, q), (nds \o If(A, x)) \o If(N, y), (m + 17) + 11)
  BY <1>8, <1>13, <1>14, ListMaybe
<1>16. PICK all, ch : /\ all = ((bs \o If(A, p)) \o If(N, q)) \o If(T, r)
                      /\ ch = ((nds \o If(A, x)) \o If(N, y)) \o If(T, z)
  OBVIOUS
<1>17. Lists(all, ch, ((m + 17) + 11) + 13)
  BY <1>9, <1>13, <1>15, <1>16, ListMaybe
<1>18. /\ ((m + 17) + 11) + 13 \in Nat
       /\ ((m + 17) + 11) + 13 <= 3 * MaxField + 1000
       /\ (((m + 17) + 11) + 13) + 6 <= 2 * MaxField + 168
       /\ 2 * MaxField + 168 \in Nat
  BY <1>5, <1>12
<1>19. ((m + 17) + 11) + 13 <= MaxInt
  BY <1>18, MaxFieldNat
<1>20. PICK nd : Reads(DerSequence(all), nd, 2 * MaxField + 168) /\ IsSequence(nd, ch)
  BY <1>17, <1>18, <1>19, SequenceNode
<1>21. DerSequence(all) = TstInfo(a)
  BY <1>10, <1>13, <1>16, Zenon DEF TstInfo
<1>22. PICK e : e = (If(A, x) \o If(N, y)) \o If(T, z)
  OBVIOUS
<1> HIDE DEF A, N, T
<1>23. NonceOf(e) = IF N THEN der_decode_integer(y) ELSE Returned(NoNonce)
  <2>1. IsUniversal(y, 2) /\ ~IsUniversal(x, 2) /\ ~IsUniversal(z, 2)
    BY <1>7, <1>8, <1>9
  <2>2. e = Extras(A, N, T, x, y, z)
    BY <1>22 DEF Extras
  <2> QED BY <2>1, <2>2, NonceAmong, Zenon
<1> USE DEF A, N, T
<1>24. NonceOf(e) = Returned(Info(a, k).nonce)
  <2>1. Info(a, k).nonce = IF N THEN k ELSE NoNonce
    BY DEF Info
  <2> QED BY <1>8, <1>23, <2>1
<1>25. AnySeq(nds) /\ Len(nds) = 5
  <2>1. AnySeq(nds)
    BY <1>11 DEF Lists
  <2> QED BY <1>10, <2>1
<1>26. ch = nds \o e /\ AnySeq(e)
  <2>1. AnySeq(If(A, x)) /\ AnySeq(If(N, y)) /\ AnySeq(If(T, z))
    BY ShortTuples DEF If
  <2>2. PICK s, t, u : s = If(A, x) /\ t = If(N, y) /\ u = If(T, z)
    OBVIOUS
  <2>3. AnySeq(s) /\ AnySeq(t) /\ AnySeq(u)
    BY <2>1, <2>2
  <2>4. PICK st : st = s \o t
    OBVIOUS
  <2>5. AnySeq(st)
    BY <2>3, <2>4, AnyJoin
  <2>6. AnySeq(st \o u)
    BY <2>3, <2>5, AnyJoin
  <2>7. (nds \o s) \o t = nds \o (s \o t)
    BY <1>25, <2>3, AnyConcat
  <2>8. (nds \o st) \o u = nds \o (st \o u)
    BY <1>25, <2>3, <2>5, AnyConcat
  <2> QED BY <1>16, <1>22, <2>2, <2>4, <2>6, <2>7, <2>8
<1>27. /\ SubSeq(ch, 6, Len(ch)) = e /\ \A i \in 1..5 : ch[i] = nds[i]
       /\ Len(ch) \in Nat /\ Len(ch) >= 5
  BY <1>25, <1>26, ExtrasBehind
<1>28. ch[2] = x2 /\ ch[3] = x3 /\ ch[5] = x5
  BY <1>10, <1>27
<1>29. PICK v : v = Info(a, k).nonce
  OBVIOUS
<1>30. NonceOf(SubSeq(ch, 6, Len(ch))) = Returned(v)
  BY <1>24, <1>27, <1>29
<1>31. /\ IsSequence(nd, ch) /\ Len(ch) >= 5 /\ IsUniversal(ch[2], 6)
       /\ IsImprint(ch[3], a.digest) /\ ch[5] = Leaf(24, a.shape.time)
  BY <1>2, <1>3, <1>6, <1>20, <1>27, <1>28
<1>32. ReadsInfo(parse_tst_info(nd), a.shape.time,
                 [hashed_message |-> a.digest, nonce |-> v, gen_time |-> a.shape.time])
  BY <1>30, <1>31, ParseTst
<1>33. [hashed_message |-> a.digest, nonce |-> v, gen_time |-> a.shape.time] = Info(a, k)
  BY <1>29 DEF Info
<1> QED BY <1>20, <1>21, <1>32, <1>33

-------------------------------------------------------------------------------
(* The token, the status and the whole answer.                             *)

(* An object identifier and a [0] wrapper: what is wrapped is read back.   *)
LEMMA WrapperReads ==
  ASSUME NEW oid \in {SHA256, OID_SIGNED_DATA, OID_TST_INFO, <<1, 3, 6, 1>>},
         NEW b, NEW nd, NEW k, Reads(b, nd, k), k + 45 <= MaxInt
  PROVE  \E w : /\ Reads(DerSequence(<<DerOid(oid), DerExplicit(0, b)>>), w, k + 45)
                /\ Wrapped(w, oid) = Returned(nd)
<1>1. PICK c \in Seq(Byte) : /\ Reads(DerOid(oid), Leaf(6, c), 33)
                             /\ der_decode_oid(Leaf(6, c)) = Returned(oid)
  BY OidTlv
<1>2. k \in Nat
  BY DEF Reads
<1>3. k <= MaxInt /\ 33 + (k + 6) <= MaxInt /\ (33 + (k + 6)) + 6 <= k + 45 /\ k + 45 \in Nat
  BY <1>2, MaxIntNat
<1>4. PICK x, y : x = Leaf(6, c) /\ y = Branch(2, 0, b, <<nd>>)
  OBVIOUS
<1>5. Reads(DerExplicit(0, b), y, k + 6)
  BY <1>3, <1>4, ExplicitReads
<1>6. PICK bs, nds : bs = <<DerOid(oid), DerExplicit(0, b)>> /\ nds = <<x, y>>
  OBVIOUS
<1>7. Lists(bs, nds, 33 + (k + 6))
  BY <1>1, <1>4, <1>5, <1>6, ListTwo
<1>8. PICK w : Reads(DerSequence(bs), w, k + 45) /\ IsSequence(w, nds)
  BY <1>3, <1>7, SequenceNode
<1>9. w.children = nds /\ IsUniversal(w, 16)
  BY <1>8 DEF IsSequence
<1>10. nds[1] = x /\ nds[2] = y /\ Len(nds) = 2
  BY <1>6
<1>11. HasExactly(w, 2)
  BY <1>9, <1>10 DEF HasExactly, Has
<1>12. y.class = 2 /\ y.number = 0 /\ y.constructed /\ y.children = <<nd>>
  BY <1>4, BranchFields
<1>13. IsContext(y, 0)
  BY <1>12 DEF IsContext
<1>14. y.children # <<>> /\ y.children[1] = nd
  <2>1. <<nd>> # <<>> /\ <<nd>>[1] = nd
    OBVIOUS
  <2> QED BY <1>12, <2>1
<1>15. der_decode_oid(w.children[1]) = Returned(oid)
  BY <1>1, <1>4, <1>9, <1>10
<1>16. w.children[2] = y
  BY <1>9, <1>10
<1>17. Wrapped(w, oid) = Returned(nd)
  BY <1>11, <1>13, <1>14, <1>15, <1>16 DEF Wrapped, When
<1> QED BY <1>6, <1>8, <1>17

(* A token is read back as what its TSTInfo says.                          *)
LEMMA TokenReads ==
  ASSUME NEW a, NEW k, WellFormed(a, k)
  PROVE  \E nd : /\ Reads(TimeStampToken(a), nd, 2 * MaxField + 338)
                 /\ ReadsInfo(ParseToken(nd), a.shape.time, Info(a, k))
<1> DEFINE F == MaxField
<1>0. F \in Nat
  BY MaxFieldNat
<1>1. PICK tst : /\ Reads(TstInfo(a), tst, 2 * F + 168)
                 /\ ReadsInfo(parse_tst_info(tst), a.shape.time, Info(a, k))
  BY TstReads
<1>2. PICK data : data = TstInfo(a)
  OBVIOUS
<1>3. data \in Seq(Byte) /\ Len(data) <= 2 * F + 168 /\ 2 * F + 168 \in Nat
  BY <1>0, <1>1, <1>2 DEF Reads
<1>4. 2 * F + 168 <= MaxInt /\ (2 * F + 174) + 45 <= MaxInt
  <2>1. 2 * F + 168 <= 3 * F + 1000
    BY <1>0
  <2>2. (2 * F + 174) + 45 \in Nat /\ (2 * F + 174) + 45 <= 3 * F + 1000
    BY <1>0
  <2> QED BY <1>3, <2>1, <2>2, MaxFieldNat
<1>5. Reads(DerOctetString(data), Leaf(4, data), 2 * F + 174)
  <2>1. Reads(Tlv(4, data), Leaf(4, data), (2 * F + 168) + 6)
    BY <1>3, <1>4, LeafReads
  <2>2. (2 * F + 168) + 6 = 2 * F + 174
    BY <1>0
  <2> QED BY <2>1, <2>2 DEF DerOctetString
<1>6. PICK encap :
        encap = DerSequence(<<DerOid(OID_TST_INFO), DerExplicit(0, DerOctetString(data))>>)
  OBVIOUS
<1>7. PICK e : /\ Reads(encap, e, (2 * F + 174) + 45)
               /\ Wrapped(e, OID_TST_INFO) = Returned(Leaf(4, data))
  BY <1>4, <1>5, <1>6, WrapperReads
<1>8. PICK v : Reads(DerInteger(3), v, 11)
  <2>1. 3 \in 0..MaxInt
    BY MaxIntNat
  <2> QED BY <2>1, SomeInteger
<1>9. PICK algs : Reads(DerSet(<<AlgorithmIdentifier(SHA256)>>), algs, 51)
  <2>1. PICK alg : Reads(AlgorithmIdentifier(SHA256), alg, 45)
    BY AlgorithmReads
  <2>2. PICK bs, nds : bs = <<AlgorithmIdentifier(SHA256)>> /\ nds = <<alg>>
    OBVIOUS
  <2>3. Lists(bs, nds, 45)
    BY <2>1, <2>2, ListOne
  <2>4. 45 <= MaxInt /\ 45 + 6 = 51
    BY MaxIntNat
  <2>5. Reads(DerSet(bs), Branch(0, 17, FlattenSeq(bs), nds), 45 + 6)
    BY <2>3, <2>4, SequenceReads
  <2> QED BY <2>2, <2>4, <2>5
<1>10. PICK signers : Reads(DerSet(<<>>), signers, 6)
  <2>1. 0 <= MaxInt /\ 0 + 6 = 6
    BY MaxIntNat
  <2>2. Reads(DerSet(<<>>), Branch(0, 17, FlattenSeq(<<>>), <<>>), 0 + 6)
    BY <2>1, ListsEmpty, SequenceReads
  <2> QED BY <2>1, <2>2
<1>11. PICK bs, nds : /\ bs = <<DerInteger(3), DerSet(<<AlgorithmIdentifier(SHA256)>>), encap,
                                DerSet(<<>>)>>
                      /\ nds = <<v, algs, e, signers>>
  OBVIOUS
<1>12. Lists(bs, nds, ((11 + 51) + ((2 * F + 174) + 45)) + 6)
  BY <1>7, <1>8, <1>9, <1>10, <1>11, ListFour
<1>13. PICK m : m = ((11 + 51) + ((2 * F + 174) + 45)) + 6
  OBVIOUS
<1>14. /\ m <= MaxInt /\ m + 6 <= 2 * F + 293 /\ 2 * F + 293 \in Nat
       /\ (2 * F + 293) + 45 <= MaxInt /\ (2 * F + 293) + 45 = 2 * F + 338
  <2>1. m \in Nat /\ m <= 3 * F + 1000
    BY <1>0, <1>13
  <2>2. (2 * F + 293) + 45 \in Nat /\ (2 * F + 293) + 45 <= 3 * F + 1000
    BY <1>0
  <2>3. m <= MaxInt
    BY <2>1, MaxFieldNat
  <2>4. (2 * F + 293) + 45 <= MaxInt
    BY <2>2, MaxFieldNat
  <2>5. /\ m + 6 <= 2 * F + 293 /\ 2 * F + 293 \in Nat
        /\ (2 * F + 293) + 45 = 2 * F + 338
    BY <1>0, <1>13
  <2> QED BY <2>3, <2>4, <2>5
<1>15. PICK sd : Reads(DerSequence(bs), sd, 2 * F + 293) /\ IsSequence(sd, nds)
  BY <1>12, <1>13, <1>14, SequenceNode
<1>16. PICK signed : signed = DerSequence(bs)
  OBVIOUS
<1>17. PICK w : /\ Reads(DerSequence(<<DerOid(OID_SIGNED_DATA), DerExplicit(0, signed)>>), w,
                         (2 * F + 293) + 45)
                /\ Wrapped(w, OID_SIGNED_DATA) = Returned(sd)
  BY <1>14, <1>15, <1>16, WrapperReads
<1>18. DerSequence(<<DerOid(OID_SIGNED_DATA), DerExplicit(0, signed)>>) = TimeStampToken(a)
  BY <1>2, <1>6, <1>11, <1>16 DEF TimeStampToken
<1>19. Reads(TimeStampToken(a), w, 2 * F + 338)
  BY <1>14, <1>17, <1>18
<1>20. sd.children = nds /\ Has(sd, 3) /\ nds[3] = e
  <2>1. Len(nds) = 4 /\ nds[3] = e
    BY <1>11
  <2>2. sd.children = nds /\ IsUniversal(sd, 16)
    BY <1>15 DEF IsSequence
  <2>3. Len(sd.children) >= 3
    BY <2>1, <2>2
  <2> QED BY <2>1, <2>2, <2>3 DEF Has
<1>21. der_decode_octet_string(Leaf(4, data)) = Returned(data)
  BY LeafFields DEF der_decode_octet_string, IsUniversal, When
<1>22. der_decode(data) = Returned(tst)
  <2>1. Reads(data, tst, 2 * F + 168) /\ data \in Seq(Byte)
    BY <1>1, <1>2, <1>3
  <2> QED BY <2>1, DecodeReads
<1>23. PICK r1 : r1 = Wrapped(w, OID_SIGNED_DATA) /\ r1.ok /\ r1.val = sd
  BY <1>17, Outcomes
<1>24. PICK r2 : r2 = When(Has(sd, 3), sd.children) /\ r2.ok /\ r2.val = nds
  BY <1>20, Outcomes DEF When
<1>25. PICK r3 : r3 = Wrapped(nds[3], OID_TST_INFO) /\ r3.ok /\ r3.val = Leaf(4, data)
  BY <1>7, <1>20, Outcomes
<1>26. PICK r4 : r4 = der_decode_octet_string(Leaf(4, data)) /\ r4.ok /\ r4.val = data
  BY <1>21, Outcomes
<1>27. PICK r5 : r5 = der_decode(data) /\ r5.ok /\ r5.val = tst
  BY <1>22, Outcomes
<1>28. ParseToken(w) = parse_tst_info(tst)
  BY <1>23, <1>24, <1>25, <1>26, <1>27 DEF ParseToken, Then
<1> QED BY <1>1, <1>19, <1>28

(* The status is read back, whatever the length of the text.               *)
LEMMA StatusReads ==
  ASSUME NEW status \in 0..5, NEW text \in 0..MaxField, NEW info,
         info = DerSequence(<<DerInteger(status),
                              DerSequence(<<Tlv(12, [i \in 1..text |-> 65])>>)>>)
  PROVE  \E nd : /\ Reads(info, nd, MaxField + 29)
                 /\ parse_pki_status_info(nd) = Returned(status)
<1> DEFINE F == MaxField
<1>0. F \in Nat
  BY MaxFieldNat
<1>1. PICK t : t = [i \in 1..text |-> 65]
  OBVIOUS
<1>2. t \in Seq(Byte) /\ Len(t) <= F
  <2>1. text \in Nat /\ text <= F /\ 65 \in Byte
    BY <1>0, ByteRange
  <2>2. t \in [1..text -> Byte]
    BY <1>1, <2>1
  <2>3. t \in Seq(Byte) /\ Len(t) = text
    BY <2>1, <2>2
  <2> QED BY <2>1, <2>3
<1>3. F <= MaxInt /\ F + 6 <= MaxInt /\ 11 + (F + 12) <= MaxInt
  <2>1. F <= 3 * F + 1000 /\ F + 6 \in Nat /\ F + 6 <= 3 * F + 1000
    BY <1>0
  <2>2. 11 + (F + 12) \in Nat /\ 11 + (F + 12) <= 3 * F + 1000
    BY <1>0
  <2>3. F <= MaxInt /\ F + 6 <= MaxInt
    BY <1>0, <2>1, MaxFieldNat
  <2>4. 11 + (F + 12) <= MaxInt
    BY <2>2, MaxFieldNat
  <2> QED BY <2>3, <2>4
<1>4. Reads(Tlv(12, t), Leaf(12, t), F + 6)
  BY <1>0, <1>2, <1>3, LeafReads
<1>5. PICK us, vs : us = <<Tlv(12, t)>> /\ vs = <<Leaf(12, t)>>
  OBVIOUS
<1>6. Lists(us, vs, F + 6)
  BY <1>4, <1>5, ListOne
<1>7. F + 12 \in Nat /\ (F + 6) + 6 <= F + 12 /\ F + 29 \in Nat /\ (11 + (F + 12)) + 6 <= F + 29
  BY <1>0
<1>8. PICK y : Reads(DerSequence(us), y, F + 12)
  BY <1>3, <1>6, <1>7, SequenceNode
<1>9. PICK x : /\ Reads(DerInteger(status), x, 11)
               /\ der_decode_integer(x) = Returned(status)
  <2>1. status \in 0..MaxInt
    BY MaxIntNat
  <2> QED BY <2>1, IntegerReads
<1>10. PICK bs, nds : bs = <<DerInteger(status), DerSequence(us)>> /\ nds = <<x, y>>
  OBVIOUS
<1>11. Lists(bs, nds, 11 + (F + 12))
  BY <1>8, <1>9, <1>10, ListTwo
<1>12. PICK nd : Reads(DerSequence(bs), nd, F + 29) /\ IsSequence(nd, nds)
  BY <1>3, <1>7, <1>11, SequenceNode
<1>13. DerSequence(bs) = info
  BY <1>1, <1>5, <1>10
<1>14. nd.children = nds /\ Has(nd, 1) /\ nds[1] = x
  <2>1. Len(nds) = 2 /\ nds[1] = x
    BY <1>10
  <2>2. nd.children = nds /\ IsUniversal(nd, 16)
    BY <1>12 DEF IsSequence
  <2>3. Len(nd.children) >= 1
    <3>1. Len(nd.children) = 2
      BY <2>1, <2>2, Zenon
    <3> QED BY ONLY <3>1
  <2> QED BY <2>1, <2>2, <2>3 DEF Has
<1>15. PICK r : r = When(Has(nd, 1), nd.children) /\ r.ok /\ r.val = nds
  BY <1>14, Outcomes DEF When
<1>16. parse_pki_status_info(nd) = Returned(status)
  BY <1>9, <1>14, <1>15 DEF parse_pki_status_info, Then
<1> QED BY <1>12, <1>13, <1>16

\* What the client reads from an intact answer.
Reply(a, k) ==
  [status |-> a.shape.status, tst_info |-> IF a.shape.token THEN Info(a, k) ELSE NoToken]

(* parse_timestamp_resp after der_decode.                                  *)
LEMMA ParseRoot ==
  ASSUME NEW data, NEW root, der_decode(data) = Returned(root),
         NEW ch, IsSequence(root, ch), NEW status, NEW info,
         parse_pki_status_info(ch[1]) = Returned(status),
         \/ Len(ch) = 1 /\ info = NoToken
         \/ Len(ch) = 2 /\ ParseToken(ch[2]) = Returned(info)
  PROVE  parse_timestamp_resp(data) = Returned([status |-> status, tst_info |-> info])
<1>1. root.children = ch /\ Has(root, 1)
  <2>1. root.children = ch /\ IsUniversal(root, 16)
    BY DEF IsSequence
  <2>2. Len(ch) >= 1
    OBVIOUS
  <2> QED BY <2>1, <2>2 DEF Has
<1>2. PICK r1 : r1 = der_decode(data) /\ r1.ok /\ r1.val = root
  BY Outcomes
<1>3. PICK r2 : r2 = When(Has(root, 1), root.children) /\ r2.ok /\ r2.val = ch
  BY <1>1, Outcomes DEF When
<1>4. PICK r3 : r3 = parse_pki_status_info(ch[1]) /\ r3.ok /\ r3.val = status
  BY Outcomes
<1>5. PICK r4 : /\ r4 = IF Len(ch) = 1 THEN Returned(NoToken) ELSE ParseToken(ch[2])
                /\ r4.ok /\ r4.val = info
  <2>1. CASE Len(ch) = 1 /\ info = NoToken
    BY <2>1, Outcomes
  <2>2. CASE Len(ch) = 2 /\ ParseToken(ch[2]) = Returned(info)
    BY <2>2, Outcomes
  <2> QED BY <2>1, <2>2
<1> QED BY <1>2, <1>3, <1>4, <1>5 DEF parse_timestamp_resp, Then

(* It raises when the token cannot be read.                                *)
LEMMA ParseRootRaises ==
  ASSUME NEW data, NEW root, der_decode(data) = Returned(root),
         NEW ch, IsSequence(root, ch), NEW status,
         parse_pki_status_info(ch[1]) = Returned(status),
         Len(ch) = 2, ~ParseToken(ch[2]).ok
  PROVE  ~parse_timestamp_resp(data).ok
<1>1. root.children = ch /\ Has(root, 1)
  <2>1. root.children = ch /\ IsUniversal(root, 16)
    BY DEF IsSequence
  <2>2. Len(ch) >= 1
    OBVIOUS
  <2> QED BY <2>1, <2>2 DEF Has
<1>2. PICK r1 : r1 = der_decode(data) /\ r1.ok /\ r1.val = root
  BY Outcomes
<1>3. PICK r2 : r2 = When(Has(root, 1), root.children) /\ r2.ok /\ r2.val = ch
  BY <1>1, Outcomes DEF When
<1>4. PICK r3 : r3 = parse_pki_status_info(ch[1]) /\ r3.ok /\ r3.val = status
  BY Outcomes
<1>5. PICK r4 : /\ r4 = IF Len(ch) = 1 THEN Returned(NoToken) ELSE ParseToken(ch[2])
                /\ ~r4.ok
  OBVIOUS
<1>6. parse_timestamp_resp(data) = r4
  BY <1>2, <1>3, <1>4, <1>5 DEF parse_timestamp_resp, Then
<1> QED BY <1>5, <1>6

\* The token of answer a, if there is one, has a time the parser reads.
Readable(a) == a.shape.token => IsAscii(a.shape.time)

\* Result r of reading an intact answer.
ReadsReply(r, a, k) ==
  /\ Readable(a) => r = Returned(Reply(a, k))
  /\ ~Readable(a) => ~r.ok

(* The bytes of an answer are one TLV, read back as the answer.            *)
LEMMA EncodedReads ==
  ASSUME NEW a, NEW k, WellFormed(a, k)
  PROVE  \E c \in Message : \E nd :
           /\ Encoded(a) = Tlv(48, c) /\ Reads(Tlv(48, c), nd, 3 * MaxField + 373)
           /\ \A data : der_decode(data) = Returned(nd)
                => ReadsReply(parse_timestamp_resp(data), a, k)
<1> DEFINE F == MaxField
<1>0. F \in Nat
  BY MaxFieldNat
<1>1. PICK info : info = DerSequence(<<DerInteger(a.shape.status),
                           DerSequence(<<Tlv(12, [i \in 1..a.shape.text |-> 65])>>)>>)
  OBVIOUS
<1>2. PICK x : /\ Reads(info, x, F + 29)
               /\ parse_pki_status_info(x) = Returned(a.shape.status)
  <2>1. a.shape.status \in 0..5 /\ a.shape.text \in 0..F
    BY DEF WellFormed
  <2> QED BY <1>1, <2>1, StatusReads
<1>3. PICK y : /\ Reads(TimeStampToken(a), y, 2 * F + 338)
               /\ ReadsInfo(ParseToken(y), a.shape.time, Info(a, k))
  BY TokenReads
<1>4. PICK us, vs : us = <<info>> /\ vs = <<x>>
  OBVIOUS
<1>5. Lists(us, vs, F + 29)
  BY <1>2, <1>4, ListOne
<1>6. PICK bs, ch : /\ bs = us \o If(a.shape.token, TimeStampToken(a))
                    /\ ch = vs \o If(a.shape.token, y)
  OBVIOUS
<1>7. Lists(bs, ch, (F + 29) + (2 * F + 338))
  BY <1>3, <1>5, <1>6, ListMaybe
<1>8. PICK m : m = (F + 29) + (2 * F + 338)
  OBVIOUS
<1>9. m <= MaxInt /\ m + 6 <= 3 * F + 373 /\ 3 * F + 373 \in Nat
  <2>1. m \in Nat /\ m <= 3 * F + 1000 /\ m + 6 <= 3 * F + 373 /\ 3 * F + 373 \in Nat
    BY <1>0, <1>8
  <2>2. m <= MaxInt
    BY <2>1, MaxFieldNat
  <2> QED BY <2>1, <2>2
<1>10. PICK c \in Message : c = FlattenSeq(bs)
  BY <1>7, <1>8, <1>9, ListsRead
<1>11. PICK nd : Reads(DerSequence(bs), nd, 3 * F + 373) /\ IsSequence(nd, ch)
  BY <1>7, <1>8, <1>9, SequenceNode
<1>12. Encoded(a) = DerSequence(bs) /\ DerSequence(bs) = Tlv(48, c)
  <2>1. Encoded(a) = DerSequence(bs)
    BY <1>1, <1>4, <1>6 DEF Encoded
  <2> QED BY <1>10, <2>1 DEF DerSequence
<1>13. PICK tst : tst = IF a.shape.token THEN Info(a, k) ELSE NoToken
  OBVIOUS
<1>14. /\ ch[1] = x
       /\ Readable(a) => \/ Len(ch) = 1 /\ tst = NoToken
                         \/ Len(ch) = 2 /\ ParseToken(ch[2]) = Returned(tst)
       /\ ~Readable(a) => Len(ch) = 2 /\ ~ParseToken(ch[2]).ok
  <2>1. CASE a.shape.token
    <3>1. ch = <<x, y>>
      <4>1. ch = <<x>> \o <<y>>
        BY <1>4, <1>6, <2>1 DEF If
      <4> QED BY <4>1, Joins
    <3>2. ch[1] = x /\ ch[2] = y /\ Len(ch) = 2
      BY <3>1
    <3> QED BY <1>3, <1>13, <2>1, <3>2 DEF Readable, ReadsInfo
  <2>2. CASE ~a.shape.token
    <3>1. ch = <<x>> \o <<>>
      BY <1>4, <1>6, <2>2 DEF If
    <3>2. ch = <<x>>
      BY <3>1, ShortTuples, AnyAppend
    <3>3. ch[1] = x /\ Len(ch) = 1
      BY <3>2
    <3> QED BY <1>13, <2>2, <3>3 DEF Readable
  <2> QED BY <2>1, <2>2
<1>15. ASSUME NEW data, der_decode(data) = Returned(nd)
       PROVE  ReadsReply(parse_timestamp_resp(data), a, k)
  <2>1. parse_pki_status_info(ch[1]) = Returned(a.shape.status)
    BY <1>2, <1>14
  <2>2. Readable(a) => parse_timestamp_resp(data)
                         = Returned([status |-> a.shape.status, tst_info |-> tst])
    BY <1>11, <1>14, <1>15, <2>1, ParseRoot
  <2>3. [status |-> a.shape.status, tst_info |-> tst] = Reply(a, k)
    BY <1>13 DEF Reply
  <2>4. ~Readable(a) => ~parse_timestamp_resp(data).ok
    BY <1>11, <1>14, <1>15, <2>1, ParseRootRaises
  <2> QED BY <2>2, <2>3, <2>4 DEF ReadsReply
<1> QED BY <1>11, <1>12, <1>15

(* An intact answer is read when its time can be, a damaged one is not.    *)
LEMMA ResponseReads ==
  ASSUME NEW a, NEW k, WellFormed(a, k), NEW n \in Int, NEW p,
         p = parse_timestamp_resp(Damaged(Encoded(a), n))
  PROVE  /\ n = 0 /\ Readable(a) => p = Returned(Reply(a, k))
         /\ n # 0 \/ ~Readable(a) => ~p.ok
<1>1. PICK c \in Message : \E nd :
           /\ Encoded(a) = Tlv(48, c) /\ Reads(Tlv(48, c), nd, 3 * MaxField + 373)
           /\ \A data : der_decode(data) = Returned(nd)
                => ReadsReply(parse_timestamp_resp(data), a, k)
  BY EncodedReads
<1>2. PICK nd :
           /\ Encoded(a) = Tlv(48, c) /\ Reads(Tlv(48, c), nd, 3 * MaxField + 373)
           /\ \A data : der_decode(data) = Returned(nd)
                => ReadsReply(parse_timestamp_resp(data), a, k)
  BY <1>1
<1>3. PICK t : t = 48
  OBVIOUS
<1>4. PICK data : data = Damaged(Tlv(t, c), n) /\ data = Damaged(Encoded(a), n)
  BY <1>2, <1>3
<1>5. t \in {48} /\ Reads(Tlv(t, c), nd, 3 * MaxField + 373)
  BY <1>2, <1>3
<1>6. n = 0 => der_decode(data) = Returned(nd)
  <2>1. PICK l : Reads(Tlv(t, c), nd, l)
    BY <1>5
  <2>2. n = 0 => der_decode(Damaged(Tlv(t, c), n)) = Returned(nd)
    BY <1>5, <2>1, DamageRaises, Zenon
  <2> QED BY <1>4, <2>2, Zenon
<1>7. n # 0 => ~der_decode(data).ok
  <2>1. PICK l : Reads(Tlv(t, c), nd, l)
    BY <1>5
  <2>2. n # 0 => ~der_decode(Damaged(Tlv(t, c), n)).ok
    BY <1>5, <2>1, DamageRaises, Zenon
  <2> QED BY <1>4, <2>2, Zenon
<1>8. n = 0 => ReadsReply(p, a, k)
  BY <1>2, <1>4, <1>6
<1>9. ASSUME n # 0 PROVE ~p.ok
  <2>1. PICK r : r = der_decode(data) /\ ~r.ok
    BY <1>7, <1>9
  <2>2. p = r
    BY <1>4, <2>1 DEF parse_timestamp_resp, Then
  <2> QED BY <2>1, <2>2
<1> QED BY <1>8, <1>9 DEF ReadsReply

-------------------------------------------------------------------------------
(* What the client makes of an answer.                                     *)

(* An answer is granted when the TSA granted it and sent a token.          *)
LEMMA GrantReads ==
  ASSUME NEW a, NEW k, WellFormed(a, k)
  PROVE  Granted(Reply(a, k)) <=> Grants(a.shape)
<1>1. Info(a, k) # NoToken
  <2>1. a.shape.time \in Seq(Byte) /\ Info(a, k).gen_time = a.shape.time
    BY DEF WellFormed, Info
  <2>2. NoToken.gen_time = <<-1>>
    BY DEF NoToken
  <2>3. PICK t : t = <<-1>>
    OBVIOUS
  <2>4. t \notin Seq(Byte)
    <3>1. Len(t) = 1 /\ t[1] = -1
      BY <2>3
    <3>2. -1 \notin Byte
      BY ByteRange
    <3>3. t \in Seq(Byte) => t[1] \in Byte
      <4> HAVE t \in Seq(Byte)
      <4>1. 1 \in 1..Len(t)
        BY <3>1
      <4> QED BY <4>1
    <3> QED BY <3>1, <3>2, <3>3
  <2> QED BY <2>1, <2>2, <2>3, <2>4
<1>2. /\ Reply(a, k).status = a.shape.status
      /\ Reply(a, k).tst_info = IF a.shape.token THEN Info(a, k) ELSE NoToken
  BY DEF Reply
<1>3. Reply(a, k).tst_info # NoToken <=> a.shape.token
  BY <1>1, <1>2
<1> QED BY <1>2, <1>3 DEF Granted, Grants

(* verify binds the digest.                                                *)
LEMMA VerifyReads ==
  ASSUME NEW a, NEW k, WellFormed(a, k), NEW n \in Int, NEW d
  PROVE  verify(d, Damaged(Encoded(a), n))
           <=> d = a.digest /\ n = 0 /\ Grants(a.shape) /\ IsAscii(a.shape.time)
<1>1. PICK raw : raw = Damaged(Encoded(a), n)
  OBVIOUS
<1>2. PICK p : p = parse_timestamp_resp(raw)
  OBVIOUS
<1>3. n = 0 /\ Readable(a) => p = Returned(Reply(a, k))
  BY <1>1, <1>2, ResponseReads
<1>4. n # 0 \/ ~Readable(a) => ~p.ok
  BY <1>1, <1>2, ResponseReads
<1>5. CASE n # 0 \/ ~Readable(a)
  <2>1. ~p.ok
    BY <1>4, <1>5
  <2>2. verify(d, raw) <=> p.ok
    BY <1>2, <2>1 DEF verify, Then
  <2> QED BY <1>1, <1>5, <2>1, <2>2 DEF Readable, Grants
<1>6. CASE n = 0 /\ Readable(a)
  <2>1. PICK q : q = Reply(a, k)
    OBVIOUS
  <2>2. p.ok /\ p.val = q
    BY <1>3, <1>6, <2>1, Outcomes
  <2>3. verify(d, raw) <=> When(Granted(q) /\ q.tst_info.hashed_message = d, TRUE).ok
    BY <1>2, <2>2 DEF verify, Then
  <2>4. When(Granted(q) /\ q.tst_info.hashed_message = d, TRUE).ok
          <=> Granted(q) /\ q.tst_info.hashed_message = d
    BY Outcomes DEF When
  <2>5. Granted(q) <=> Grants(a.shape)
    BY <2>1, GrantReads
  <2>6. Grants(a.shape) => q.tst_info.hashed_message = a.digest
    BY <2>1 DEF Grants, Reply, Info
  <2>7. Grants(a.shape) => IsAscii(a.shape.time)
    BY <1>6 DEF Grants, Readable
  <2> QED BY <1>1, <1>6, <2>3, <2>4, <2>5, <2>6, <2>7
<1> QED BY <1>5, <1>6

(* A time that is a time is ASCII.                                         *)
LEMMA IsoAscii ==
  ASSUME NEW t, generalized_time_to_iso(t) = "ok", t \in Seq(Byte)
  PROVE  IsAscii(t)
<1>1. /\ Len(t) = 5 /\ t[1] \in 1..12 /\ t[2] \in 1..31 /\ t[3] \in 0..23
      /\ t[4] \in 0..59 /\ t[5] \in 0..59
  BY DEF generalized_time_to_iso
<1>2. ASSUME NEW i \in DOMAIN t PROVE t[i] < 128
  <2>1. i \in 1..5
    BY <1>1
  <2>2. i = 1 \/ i = 2 \/ i = 3 \/ i = 4 \/ i = 5
    BY <2>1
  <2>3. t[1] < 128 /\ t[2] < 128 /\ t[3] < 128 /\ t[4] < 128 /\ t[5] < 128
    <3>1. \A x \in 0..59 : x < 128
      OBVIOUS
    <3>2. t[1] \in 0..59 /\ t[2] \in 0..59 /\ t[3] \in 0..59
      BY <1>1
    <3> QED BY <1>1, <3>1, <3>2, Zenon
  <2> QED BY <2>2, <2>3
<1> QED BY <1>2 DEF IsAscii

(* timestamp takes an answer when it is intact, granted, for the digest    *)
(* and with the nonce of the request, and its time is a time.              *)
LEMMA AcceptReads ==
  ASSUME NEW a, NEW k, WellFormed(a, k), NEW n \in Int, NEW d, NEW nonce \in Nat
  PROVE  Accept(d, nonce, Damaged(Encoded(a), n)) = "token"
           <=> /\ n = 0 /\ Grants(a.shape) /\ a.digest = d /\ a.shape.nonce /\ k = nonce
               /\ generalized_time_to_iso(a.shape.time) = "ok"
<1>1. PICK raw : raw = Damaged(Encoded(a), n)
  OBVIOUS
<1>2. PICK p : p = parse_timestamp_resp(raw)
  OBVIOUS
<1>3. n = 0 /\ Readable(a) => p = Returned(Reply(a, k))
  BY <1>1, <1>2, ResponseReads
<1>4. n # 0 \/ ~Readable(a) => ~p.ok
  BY <1>1, <1>2, ResponseReads
<1>5. PICK iso : iso = Then(p, LAMBDA v :
                         When(/\ Granted(v)
                              /\ v.tst_info.hashed_message = d
                              /\ NonceMatches(v.tst_info, nonce),
                              generalized_time_to_iso(v.tst_info.gen_time)))
  OBVIOUS
<1>6. Accept(d, nonce, raw) = "token" <=> iso = Returned("ok")
  <2>1. Returned("ok") # Returned("ValueError")
    BY Outcomes
  <2>2. Accept(d, nonce, raw) = CASE iso = Returned("ok") -> "token"
                                  [] iso = Returned("ValueError") -> "ValueError"
                                  [] OTHER -> "TsaError"
    BY <1>2, <1>5 DEF Accept
  <2> QED BY <2>1, <2>2
<1>7. CASE n # 0 \/ ~Readable(a)
  <2>1. ~p.ok
    BY <1>4, <1>7
  <2>2. iso = p
    BY <1>5, <2>1 DEF Then
  <2>3. iso # Returned("ok")
    BY <2>1, <2>2, Outcomes
  <2>4. generalized_time_to_iso(a.shape.time) = "ok" => Readable(a)
    BY IsoAscii DEF Readable, WellFormed
  <2> QED BY <1>1, <1>6, <1>7, <2>3, <2>4
<1>8. CASE n = 0 /\ Readable(a)
  <2>1. PICK q : q = Reply(a, k)
    OBVIOUS
  <2>2. p.ok /\ p.val = q
    BY <1>3, <1>8, <2>1, Outcomes
  <2>3. PICK t : t = generalized_time_to_iso(q.tst_info.gen_time)
    OBVIOUS
  <2>4. iso = When(/\ Granted(q)
                   /\ q.tst_info.hashed_message = d
                   /\ NonceMatches(q.tst_info, nonce), t)
    BY <1>5, <2>2, <2>3 DEF Then
  <2>5. iso = Returned("ok") <=> /\ Granted(q) /\ q.tst_info.hashed_message = d
                                 /\ NonceMatches(q.tst_info, nonce) /\ t = "ok"
    <3>1. Returned(t) = Returned("ok") <=> t = "ok"
      BY Outcomes
    <3>2. Raised # Returned("ok")
      BY Outcomes
    <3> QED BY <2>4, <3>1, <3>2 DEF When
  <2>6. Granted(q) <=> Grants(a.shape)
    BY <2>1, GrantReads
  <2>7. CASE Grants(a.shape)
    <3>1. q.tst_info = Info(a, k)
      BY <2>1, <2>7 DEF Grants, Reply
    <3>2. /\ q.tst_info.hashed_message = a.digest /\ q.tst_info.gen_time = a.shape.time
          /\ q.tst_info.nonce = IF a.shape.nonce THEN k ELSE NoNonce
      BY <3>1 DEF Info
    <3>3. NoNonce # nonce
      BY DEF NoNonce
    <3>4. NonceMatches(q.tst_info, nonce) <=> a.shape.nonce /\ k = nonce
      BY <3>2, <3>3 DEF NonceMatches
    <3> QED BY <1>1, <1>6, <1>8, <2>3, <2>5, <2>6, <2>7, <3>2, <3>4
  <2>8. CASE ~Grants(a.shape)
    BY <1>1, <1>6, <2>5, <2>6, <2>8
  <2> QED BY <2>7, <2>8
<1> QED BY <1>7, <1>8

-------------------------------------------------------------------------------
(* Client, TSA and network.                                                *)

\* Answer a echoes nonce k; while a call waits, the answers to it are those with its nonce.
Echo(a, k) ==
  /\ a.nonce = Signed(BigEndian[k])
  /\ request # NoRequest => /\ a.call = Call <=> k = request.nonce
                            /\ a.call = Call => a.digest = request.digest

Known(a) ==
  /\ a.call \in 1..Call /\ a.digest \in Digest /\ a.shape \in Shape
  /\ \E k \in used : Echo(a, k)

UsedInv == used \subseteq Nonce /\ IsFiniteSet(used)
RequestInv == request # NoRequest => request.digest \in Digest /\ request.nonce \in used
IssuedInv == \A a \in issued : Known(a)
ResultInv ==
  /\ Received => result.given \in issued /\ result.damage \in Damage
  /\ TokenAnswersCall /\ GrantIsAccepted

RfcInv == UsedInv /\ RequestInv /\ IssuedInv /\ ResultInv

(* A call is counted by the nonce it draws.                                *)
LEMMA CallCounts ==
  ASSUME UsedInv
  PROVE  /\ Call \in Nat
         /\ \A n \in used : Call >= 1
         /\ \A n : n \notin used =>
              IsFiniteSet(used \cup {n}) /\ Cardinality(used \cup {n}) = Call + 1
<1>1. Call \in Nat
  BY FS_CardinalityType DEF UsedInv, Call
<1>2. Call = 0 <=> used = {}
  BY FS_EmptySet DEF UsedInv, Call
<1>3. ASSUME NEW n \in used PROVE Call >= 1
  <2>1. Call # 0
    BY <1>2, <1>3
  <2> QED BY <1>1, <2>1
<1>4. ASSUME NEW n, n \notin used
      PROVE  IsFiniteSet(used \cup {n}) /\ Cardinality(used \cup {n}) = Call + 1
  BY <1>4, FS_AddElement DEF UsedInv, Call
<1> QED BY <1>1, <1>3, <1>4

(* An answer that echoes a drawn nonce is one the codec is for.            *)
LEMMA KnownWellFormed ==
  ASSUME UsedInv, NEW a, a.digest \in Digest, a.shape \in Shape, NEW k \in used,
         a.nonce = Signed(BigEndian[k])
  PROVE  WellFormed(a, k)
<1>1. k \in 1..MaxInt
  BY RfcAssumption DEF UsedInv
<1>2. k \in 0..MaxInt
  BY <1>1, MaxIntNat
<1>3. a.digest \in Seq(Byte) /\ Len(a.digest) <= MaxField
  BY RfcAssumption
<1>4. /\ a.shape.time \in Seq(Byte) /\ a.shape.status \in 0..5
      /\ a.shape.text \in 0..MaxField
  BY RfcAssumption
<1>5. Len(a.shape.time) <= MaxField
  BY RfcAssumption
<1> QED BY <1>2, <1>3, <1>4, <1>5 DEF WellFormed

(* The inductive invariant holds at the start.                             *)
LEMMA RfcInitInv == RfcInit => RfcInv
<1> SUFFICES ASSUME RfcInit PROVE RfcInv
  OBVIOUS
<1>1. UsedInv
  BY FS_EmptySet DEF RfcInit, UsedInv
<1>2. RequestInv /\ IssuedInv
  BY DEF RfcInit, RequestInv, IssuedInv
<1>3. result.given = NoAnswer /\ result.outcome = "none"
  BY DEF RfcInit, NoResult, Ended
<1>4. ResultInv
  BY <1>3 DEF ResultInv, Received, TokenAnswersCall, GrantIsAccepted
<1> QED BY <1>1, <1>2, <1>4 DEF RfcInv

(* A call that ends without an answer.                                     *)
LEMMA NothingGiven ==
  ASSUME result'.given = NoAnswer, result'.outcome # "token"
  PROVE  ResultInv'
BY DEF ResultInv, Received, TokenAnswersCall, GrantIsAccepted

(* A digest of the wrong size changes nothing but the result.              *)
LEMMA RefuseKeeps ==
  ASSUME RfcInv, NEW d \in Digest, RefuseDigest(d)
  PROVE  RfcInv'
<1>1. request' = request /\ issued' = issued /\ used' = used
  BY DEF RefuseDigest
<1>2. UsedInv' /\ RequestInv' /\ IssuedInv'
  BY <1>1 DEF RfcInv, UsedInv, RequestInv, IssuedInv, Known, Echo, Call
<1>3. result'.given = NoAnswer /\ result'.outcome = "ValueError"
  BY DEF RefuseDigest, Ended
<1>4. ResultInv'
  BY <1>3, NothingGiven
<1> QED BY <1>2, <1>4 DEF RfcInv

(* A failed post ends the call without an answer.                          *)
LEMMA FailKeeps ==
  ASSUME RfcInv, PostFails
  PROVE  RfcInv'
<1>1. request' = NoRequest /\ issued' = issued /\ used' = used
  BY DEF PostFails
<1>2. UsedInv' /\ RequestInv' /\ IssuedInv'
  BY <1>1 DEF RfcInv, UsedInv, RequestInv, IssuedInv, Known, Echo, Call
<1>3. result'.given = NoAnswer /\ result'.outcome = "TsaError"
  BY DEF PostFails, Ended
<1>4. ResultInv'
  BY <1>3, NothingGiven
<1> QED BY <1>2, <1>4 DEF RfcInv

(* A new call: none of the answers so far has its number or its nonce.     *)
LEMMA AskKeeps ==
  ASSUME RfcInv, NEW d \in Digest, NEW n \in Nonce, Ask(d, n)
  PROVE  RfcInv'
<1>1. /\ n \notin used /\ used' = used \cup {n} /\ issued' = issued
      /\ request' = [digest |-> d, nonce |-> n] /\ result' = NoResult
  BY DEF Ask
<1>2. Call \in Nat /\ IsFiniteSet(used') /\ Call' = Call + 1
  BY <1>1, CallCounts DEF RfcInv, Call
<1>3. UsedInv'
  BY <1>1, <1>2 DEF RfcInv, UsedInv
<1>4. request'.digest = d /\ request'.nonce = n
  BY <1>1
<1>5. RequestInv'
  BY <1>1, <1>4 DEF RequestInv
<1>6. ASSUME NEW a \in issued' PROVE Known(a)'
  <2>1. a.call \in 1..Call /\ a.digest \in Digest /\ a.shape \in Shape
    BY <1>1, <1>6 DEF RfcInv, IssuedInv, Known
  <2>2. PICK k \in used : a.nonce = Signed(BigEndian[k])
    BY <1>1, <1>6 DEF RfcInv, IssuedInv, Known, Echo
  <2>3. a.call \in 1..Call' /\ a.call # Call'
    BY <1>2, <2>1
  <2>4. k \in used' /\ k # request'.nonce
    BY <1>1, <1>4
  <2>5. Echo(a, k)'
    BY <2>2, <2>3, <2>4 DEF Echo
  <2> QED BY <2>1, <2>3, <2>4, <2>5 DEF Known
<1>7. IssuedInv'
  BY <1>6 DEF IssuedInv
<1>8. result'.given = NoAnswer /\ result'.outcome = "none"
  BY <1>1 DEF NoResult, Ended
<1>9. ResultInv'
  BY <1>8, NothingGiven
<1> QED BY <1>3, <1>5, <1>7, <1>9 DEF RfcInv

(* The TSA answers the waiting call with the digest and the nonce it reads. *)
LEMMA AnswerKeeps ==
  ASSUME RfcInv, NEW shape \in Shape, Answer(shape)
  PROVE  RfcInv'
<1>1. request # NoRequest /\ request' = request /\ used' = used /\ result' = result
  BY DEF Answer
<1>2. PICK ch : /\ ch = der_decode(
                     build_timestamp_req(SHA256, request.digest, request.nonce)).val.children
                /\ issued' = issued \cup {[call |-> Call, digest |-> ch[2].children[2].content,
                                           nonce |-> ch[3].content, shape |-> shape]}
  BY DEF Answer
<1>3. request.digest \in Digest /\ request.nonce \in used
  BY <1>1 DEF RfcInv, RequestInv
<1>4. PICK d, n : d = request.digest /\ n = request.nonce
  OBVIOUS
<1>5. d \in Seq(Byte) /\ Len(d) <= MaxField
  BY <1>3, <1>4, RfcAssumption
<1>6. n \in 0..MaxInt
  <2>1. n \in 1..MaxInt
    BY <1>3, <1>4, RfcAssumption DEF RfcInv, UsedInv
  <2> QED BY <2>1, MaxIntNat
<1>7. ch[2].children[2].content = d /\ ch[3].content = Signed(BigEndian[n])
  BY <1>2, <1>4, <1>5, <1>6, RequestReads
<1>8. PICK b : b = [call |-> Call, digest |-> d, nonce |-> Signed(BigEndian[n]), shape |-> shape]
  OBVIOUS
<1>9. issued' = issued \cup {b}
  BY <1>2, <1>7, <1>8
<1>10. Call' = Call /\ Call \in Nat /\ Call >= 1
  BY <1>1, <1>3, CallCounts DEF RfcInv, Call
<1>11. Known(b)'
  <2>1. /\ b.call = Call /\ b.digest = d /\ b.nonce = Signed(BigEndian[n])
        /\ b.shape = shape
    BY <1>8
  <2>2. b.call \in 1..Call'
    BY <1>10, <2>1
  <2>3. n \in used' /\ request' # NoRequest /\ request'.nonce = n /\ request'.digest = d
    BY <1>1, <1>3, <1>4
  <2>4. Echo(b, n)'
    BY <1>10, <2>1, <2>3 DEF Echo
  <2> QED BY <1>3, <1>4, <2>1, <2>2, <2>3, <2>4 DEF Known
<1>12. ASSUME NEW a \in issued PROVE Known(a)'
  <2>1. Known(a)
    BY DEF RfcInv, IssuedInv
  <2> QED BY <1>1, <1>10, <2>1 DEF Known, Echo
<1>13. IssuedInv'
  BY <1>9, <1>11, <1>12 DEF IssuedInv
<1>14. UsedInv' /\ RequestInv'
  BY <1>1 DEF RfcInv, UsedInv, RequestInv
<1>15. ResultInv'
  BY <1>1, <1>9, <1>10 DEF RfcInv, ResultInv, Received, TokenAnswersCall, GrantIsAccepted, Own
<1> QED BY <1>13, <1>14, <1>15 DEF RfcInv

(* The call ends with an answer: the checks of timestamp.                  *)
LEMMA ReceiveKeeps ==
  ASSUME RfcInv, NEW a \in issued, NEW n \in Damage, Receive(a, n)
  PROVE  RfcInv'
<1>1. request # NoRequest /\ request' = NoRequest /\ used' = used /\ issued' = issued
  BY DEF Receive
<1>2. PICK d, nonce : d = request.digest /\ nonce = request.nonce
  OBVIOUS
<1>3. /\ result'.outcome = Accept(d, nonce, Damaged(Encoded(a), n))
      /\ result'.given = a /\ result'.damage = n
  BY <1>2 DEF Receive, Ended
<1>4. Known(a) /\ UsedInv
  BY DEF RfcInv, IssuedInv
<1>5. PICK k \in used : Echo(a, k)
  BY <1>4 DEF Known
<1>6. WellFormed(a, k)
  BY <1>4, <1>5, KnownWellFormed DEF Known, Echo
<1>7. n \in Int /\ nonce \in Nat
  <2>1. nonce \in 1..MaxInt
    BY <1>1, <1>2, RfcAssumption DEF RfcInv, RequestInv, UsedInv
  <2>2. nonce \in Nat
    BY <2>1, MaxIntNat
  <2> QED BY <2>2, RfcAssumption
<1>8. result'.outcome = "token"
        <=> /\ n = 0 /\ Grants(a.shape) /\ a.digest = d /\ a.shape.nonce /\ k = nonce
            /\ generalized_time_to_iso(a.shape.time) = "ok"
  BY <1>3, <1>6, <1>7, AcceptReads
<1>9. a.call = Call <=> k = nonce
  BY <1>1, <1>2, <1>5 DEF Echo
<1>10. a.call = Call => a.digest = d
  BY <1>1, <1>2, <1>5 DEF Echo
<1>11. Call' = Call
  BY <1>1 DEF Call
<1>12. TokenAnswersCall'
  BY <1>3, <1>8, <1>9, <1>11 DEF TokenAnswersCall, Own
<1>13. GrantIsAccepted'
  BY <1>3, <1>8, <1>9, <1>10, <1>11 DEF GrantIsAccepted, Own
<1>14. ResultInv'
  BY <1>1, <1>3, <1>12, <1>13 DEF ResultInv, Received
<1>15. UsedInv' /\ RequestInv'
  BY <1>1 DEF RfcInv, UsedInv, RequestInv
<1>16. ASSUME NEW b \in issued PROVE Known(b)'
  <2>1. Known(b)
    BY DEF RfcInv, IssuedInv
  <2> QED BY <1>1, <1>11, <2>1 DEF Known, Echo
<1>17. IssuedInv'
  BY <1>1, <1>16 DEF IssuedInv
<1> QED BY <1>14, <1>15, <1>17 DEF RfcInv

(* Every step of client, TSA and network keeps the inductive invariant.    *)
LEMMA RfcStepKeeps == RfcInv /\ [RfcNext]_rfcVars => RfcInv'
<1> SUFFICES ASSUME RfcInv, [RfcNext]_rfcVars PROVE RfcInv'
  OBVIOUS
<1>1. CASE \E d \in Digest : RefuseDigest(d)
  BY <1>1, RefuseKeeps
<1>2. CASE \E d \in Digest, n \in Nonce : Ask(d, n)
  BY <1>2, AskKeeps
<1>3. CASE \E shape \in Shape : Answer(shape)
  BY <1>3, AnswerKeeps
<1>4. CASE \E a \in issued, n \in Damage : Receive(a, n)
  BY <1>4, ReceiveKeeps
<1>5. CASE PostFails
  BY <1>5, FailKeeps
<1>6. CASE UNCHANGED rfcVars
  <2>1. request' = request /\ issued' = issued /\ used' = used /\ result' = result
    BY <1>6 DEF rfcVars
  <2> QED BY <2>1 DEF RfcInv, UsedInv, RequestInv, IssuedInv, Known, Echo, Call, ResultInv,
            Received, TokenAnswersCall, GrantIsAccepted, Own
<1> QED BY <1>1, <1>2, <1>3, <1>4, <1>5, <1>6 DEF RfcNext

(* The inductive invariant of client, TSA and network.                     *)
LEMMA RfcInvariant == RfcSpec => []RfcInv
BY RfcInitInv, RfcStepKeeps, PTL DEF RfcSpec

(* timestamp returns a token only from an intact answer that the TSA gave  *)
(* to this very call, granted, with the nonce: for any digests, nonces,    *)
(* answers and damages.                                                    *)
THEOREM TokenIsForCall == RfcSpec => []TokenAnswersCall
<1>1. RfcInv => TokenAnswersCall
  BY DEF RfcInv, ResultInv
<1> QED BY <1>1, RfcInvariant, PTL

(* An intact granted answer to the call that carries the nonce and a time  *)
(* is taken, whatever its optional fields and the lengths of its parts     *)
(* are: what the encoders write, the decoders read back.                   *)
THEOREM IntactGrantIsTaken == RfcSpec => []GrantIsAccepted
<1>1. RfcInv => GrantIsAccepted
  BY DEF RfcInv, ResultInv
<1> QED BY <1>1, RfcInvariant, PTL

(* verify is true of the bytes the client was handed for the stamped       *)
(* digest and for no other, and false when they were cut, extended or      *)
(* refused, or when the time in the token is not ASCII.                    *)
THEOREM VerifyIsForDigest == RfcSpec => []VerifyBindsDigest
<1>1. RfcInv => VerifyBindsDigest
  <2> SUFFICES ASSUME RfcInv, Received, NEW d \in Digest
               PROVE  verify(d, Damaged(Encoded(result.given), result.damage))
                 <=> /\ d = result.given.digest /\ result.damage = 0
                     /\ Grants(result.given.shape) /\ IsAscii(result.given.shape.time)
    BY DEF VerifyBindsDigest
  <2>1. PICK a, n : a = result.given /\ n = result.damage
    OBVIOUS
  <2>2. a \in issued /\ n \in Damage
    BY <2>1 DEF RfcInv, ResultInv
  <2>3. Known(a) /\ UsedInv
    BY <2>2 DEF RfcInv, IssuedInv
  <2>4. PICK k \in used : Echo(a, k)
    BY <2>3 DEF Known
  <2>5. WellFormed(a, k)
    BY <2>3, <2>4, KnownWellFormed DEF Known, Echo
  <2>6. n \in Int
    BY <2>2, RfcAssumption
  <2> QED BY <2>1, <2>5, <2>6, VerifyReads
<1> QED BY <1>1, RfcInvariant, PTL
===============================================================================
