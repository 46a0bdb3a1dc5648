----------------------- MODULE PostgresAuditTrailProofs -----------------------
(***************************************************************************)
(* Proofs about PostgresAuditTrail, for any number of concurrent append()  *)
(* calls, any set of events and any pool: the adapter implements the port, *)
(* and what append() answers is true of the table.                         *)
(***************************************************************************)
EXTENDS PostgresAuditTrail, FiniteSetTheorems, TLAPS

State ==
  {"idle", "acquire", "insert", "inserting", "committed", "reacquire", "select",
   "done", "failed"}

Row == [seq : Nat \ {0}, event : Event]

\* The part of the state the properties speak of; reads, lost and before are not in it.
PgTypeOK ==
  /\ pc \in [Client -> State]
  /\ event \in [Client -> Event \cup {NoEvent}]
  /\ seq \in [Client -> Nat]
  /\ result \in [Client -> [event_id : Nat, deduplicated : BOOLEAN]]
  /\ rows \in Seq(Row)
  /\ nextSeq \in Nat \ {0}
  /\ batched \subseteq DOMAIN rows
  /\ \A c \in Client : pc[c] # "idle" => event[c] \in Event

\* The BIGSERIAL column: a number is drawn once, by one call, and is on at most one row.
SeqsDrawnOnce ==
  /\ \A c \in Client : seq[c] < nextSeq
  /\ \A i \in DOMAIN rows : rows[i].seq < nextSeq
  /\ \A b, c \in Client : seq[b] = seq[c] /\ seq[b] # 0 => b = c
  /\ \A i, j \in DOMAIN rows : rows[i].seq = rows[j].seq => i = j

\* The UNIQUE constraint.
KeysUnique ==
  \A i, j \in DOMAIN rows :
    rows[i].event.key # NoKey /\ rows[i].event.key = rows[j].event.key => i = j

\* A call's row: the row with the number that the call drew.
HasRow(c) == \E i \in DOMAIN rows : rows[i].seq = seq[c]

\* What the table holds for a call, by where the call is.
ClientKnows(c) ==
  /\ pc[c] \in {"idle", "acquire", "insert"} => seq[c] = 0
  /\ pc[c] = "inserting" => seq[c] # 0 /\ ~HasRow(c)
  /\ pc[c] = "committed" =>
       \E i \in DOMAIN rows : rows[i] = [seq |-> seq[c], event |-> event[c]]
  /\ pc[c] \in {"reacquire", "select"} =>
       /\ ~HasRow(c)
       /\ event[c].key # NoKey
       /\ \E i \in DOMAIN rows : rows[i].event.key = event[c].key
  /\ pc[c] = "done" =>
       /\ result[c].event_id \in DOMAIN rows
       /\ rows[result[c].event_id].event.key = event[c].key
       /\ (rows[result[c].event_id].seq = seq[c]) = ~result[c].deduplicated
       /\ result[c].deduplicated => ~HasRow(c)

PgInv == PgTypeOK /\ SeqsDrawnOnce /\ KeysUnique /\ \A c \in Client : ClientKnows(c)

-------------------------------------------------------------------------------
(* The inductive invariant.                                                *)

(* Before the first call the table is empty and no number is drawn.        *)
LEMMA PgInvInit == PgInit => PgInv
  BY DEF PgInit, PgInv, PgTypeOK, SeqsDrawnOnce, KeysUnique, ClientKnows, State, NoResult

(* A step of one call that leaves the table and the numbers alone changes  *)
(* nothing of what the other calls know.                                   *)
LEMMA OwnStep ==
  ASSUME PgInv, NEW c \in Client, NEW s \in State, Goto(c, s),
         UNCHANGED <<seq, rows, nextSeq, batched>>,
         event' \in [Client -> Event \cup {NoEvent}],
         s # "idle" => event'[c] \in Event,
         result' \in [Client -> [event_id : Nat, deduplicated : BOOLEAN]],
         \A b \in Client \ {c} : event'[b] = event[b] /\ result'[b] = result[b],
         ClientKnows(c)'
  PROVE  PgInv'
<1> USE DEF PgInv, Goto
<1>1. PgTypeOK'
  BY DEF PgTypeOK
<1>2. SeqsDrawnOnce' /\ KeysUnique'
  BY DEF SeqsDrawnOnce, KeysUnique
<1>3. ASSUME NEW b \in Client PROVE ClientKnows(b)'
  <2>1. CASE b # c
    <3>1. pc'[b] = pc[b] /\ event'[b] = event[b] /\ result'[b] = result[b]
      BY <2>1 DEF PgTypeOK
    <3> QED BY <3>1 DEF ClientKnows, HasRow
  <2> QED BY <2>1
<1> QED BY <1>1, <1>2, <1>3

(* Call, Acquire, Violate, ReturnInserted, Select and Lose are steps of    *)
(* one call that leave the table alone.                                    *)
LEMMA OwnStepKeeps ==
  ASSUME PgInv, NEW c \in Client,
         \/ \E e \in Event : Call(c, e)
         \/ Acquire(c) \/ Violate(c) \/ ReturnInserted(c) \/ Select(c) \/ Lose(c)
  PROVE  PgInv'
<1>0. PgTypeOK /\ ClientKnows(c)
  BY DEF PgInv
<1>1. ASSUME NEW e \in Event, Call(c, e) PROVE PgInv'
  <2>1. event'[c] = e /\ pc'[c] = "acquire" /\ pc[c] = "idle"
    BY <1>0, <1>1 DEF Call, Goto, PgTypeOK
  <2>2. ClientKnows(c)'
    BY <1>0, <1>1, <2>1 DEF Call, ClientKnows
  <2> QED BY <1>0, <1>1, <2>1, <2>2, OwnStep DEF Call, State, PgTypeOK
<1>2. CASE Acquire(c)
  <2> DEFINE s == IF pc[c] = "acquire" THEN "insert" ELSE "select"
  <2>1. pc'[c] = s /\ pc[c] \in {"acquire", "reacquire"}
    BY <1>0, <1>2 DEF Acquire, Goto, PgTypeOK
  <2>2. ClientKnows(c)'
    BY <1>0, <1>2, <2>1 DEF Acquire, ClientKnows, HasRow
  <2> QED BY <1>0, <1>2, <2>1, <2>2, OwnStep DEF Acquire, State, PgTypeOK
<1>3. CASE Violate(c)
  <2>1. pc'[c] = "reacquire" /\ pc[c] = "inserting"
    BY <1>0, <1>3 DEF Violate, Goto, PgTypeOK
  <2>2. event[c].key # NoKey /\ \E i \in DOMAIN rows : rows[i].event.key = event[c].key
    BY <1>3 DEF Violate, KeyHeld, Holds
  <2>3. ClientKnows(c)'
    BY <1>0, <1>3, <2>1, <2>2 DEF Violate, ClientKnows, HasRow
  <2> QED BY <1>0, <1>3, <2>1, <2>3, OwnStep DEF Violate, State, PgTypeOK
<1>4. CASE ReturnInserted(c)
  <2> DEFINE id == CHOOSE i \in DOMAIN rows : rows[i].seq = seq[c]
  <2>1. PICK j \in DOMAIN rows : rows[j] = [seq |-> seq[c], event |-> event[c]]
    BY <1>0, <1>4 DEF ReturnInserted, ClientKnows
  <2>2. id \in DOMAIN rows /\ rows[id].seq = seq[c]
    BY <2>1
  <2>3. id = j
    BY <2>1, <2>2 DEF PgInv, SeqsDrawnOnce
  <2>4. id \in Nat
    BY <1>0, <2>2 DEF PgTypeOK
  <2> HIDE DEF id
  <2>5. /\ pc'[c] = "done" /\ result'[c] = [event_id |-> id, deduplicated |-> FALSE]
        /\ result' = [result EXCEPT ![c] = [event_id |-> id, deduplicated |-> FALSE]]
    BY <1>0, <1>4 DEF ReturnInserted, Goto, PgTypeOK, id
  <2>6. rows[id].event.key = event[c].key
    BY <2>1, <2>3
  <2>7. ClientKnows(c)'
    <3>1. rows' = rows /\ seq' = seq /\ event' = event
      BY <1>4 DEF ReturnInserted
    <3> QED BY <2>2, <2>5, <2>6, <3>1 DEF ClientKnows
  <2>8. result' \in [Client -> [event_id : Nat, deduplicated : BOOLEAN]]
    BY <1>0, <2>4, <2>5 DEF PgTypeOK
  <2> QED BY <1>0, <1>4, <2>5, <2>7, <2>8, OwnStep DEF ReturnInserted, State, PgTypeOK
<1>5. CASE Select(c)
  <2>1. PICK j \in DOMAIN rows : rows[j].event.key = event[c].key
    BY <1>0, <1>5 DEF Select, ClientKnows
  <2>2. event[c].key # NoKey /\ ~HasRow(c)
    BY <1>0, <1>5 DEF Select, ClientKnows
  <2>3. Holds(event[c].key) # {}
    BY <2>1, <2>2 DEF Holds
  <2>4. PICK id \in Holds(event[c].key) :
          result' = [result EXCEPT ![c] = [event_id |-> id, deduplicated |-> TRUE]]
    BY <1>5, <2>3 DEF Select
  <2>5. id \in DOMAIN rows /\ rows[id].event.key = event[c].key
    BY <2>4 DEF Holds
  <2>6. rows[id].seq # seq[c]
    BY <2>2, <2>5 DEF HasRow
  <2>7. pc'[c] = "done" /\ result'[c] = [event_id |-> id, deduplicated |-> TRUE]
    BY <1>0, <1>5, <2>4 DEF Select, Goto, PgTypeOK
  <2>8. ClientKnows(c)'
    BY <1>5, <2>2, <2>5, <2>6, <2>7 DEF Select, ClientKnows, HasRow
  <2>9. result' \in [Client -> [event_id : Nat, deduplicated : BOOLEAN]]
    BY <1>0, <2>4, <2>5 DEF PgTypeOK
  <2> QED BY <1>0, <1>5, <2>4, <2>7, <2>8, <2>9, OwnStep DEF Select, State, PgTypeOK
<1>6. CASE Lose(c)
  <2>1. pc'[c] = "failed" /\ pc[c] # "idle"
    BY <1>0, <1>6 DEF Lose, Connected, Goto, PgTypeOK
  <2>2. ClientKnows(c)'
    BY <1>6, <2>1 DEF Lose, ClientKnows
  <2> QED BY <1>0, <1>6, <2>1, <2>2, OwnStep DEF Lose, State, PgTypeOK
<1> QED BY <1>1, <1>2, <1>3, <1>4, <1>5, <1>6

(* An INSERT draws a number that nobody has.                               *)
LEMMA InsertKeeps ==
  ASSUME PgInv, NEW c \in Client, Insert(c)
  PROVE  PgInv'
<1> USE DEF PgInv, Insert, Goto
<1>1. PgTypeOK'
  BY DEF PgTypeOK, State
<1>2. SeqsDrawnOnce'
  <2>1. \A b \in Client : seq'[b] = IF b = c THEN nextSeq ELSE seq[b]
    BY DEF PgTypeOK
  <2>2. \A b \in Client : seq[b] \in Nat /\ seq[b] < nextSeq
    BY DEF SeqsDrawnOnce, PgTypeOK
  <2>3. \A i \in DOMAIN rows : rows[i].seq \in Nat /\ rows[i].seq < nextSeq
    <3>1. \A i \in DOMAIN rows : rows[i] \in Row
      BY DEF PgTypeOK
    <3> QED BY <3>1 DEF SeqsDrawnOnce, Row
  <2>4. nextSeq \in Nat /\ nextSeq' = nextSeq + 1 /\ rows' = rows
    BY DEF PgTypeOK
  <2>5. \A a, b \in Client : seq'[a] = seq'[b] /\ seq'[a] # 0 => a = b
    BY <2>1, <2>2, <2>4 DEF SeqsDrawnOnce
  <2>6. (\A b \in Client : seq'[b] < nextSeq') /\ \A i \in DOMAIN rows' : rows'[i].seq < nextSeq'
    BY <2>1, <2>2, <2>3, <2>4
  <2>7. \A i, j \in DOMAIN rows' : rows'[i].seq = rows'[j].seq => i = j
    BY <2>4 DEF SeqsDrawnOnce
  <2> QED BY <2>5, <2>6, <2>7 DEF SeqsDrawnOnce
<1>3. KeysUnique'
  BY DEF KeysUnique
<1>4. ASSUME NEW b \in Client PROVE ClientKnows(b)'
  <2>1. CASE b = c
    <3>1. pc'[c] = "inserting" /\ seq'[c] = nextSeq
      BY DEF PgTypeOK
    <3>2. \A i \in DOMAIN rows : rows[i].seq # nextSeq
      BY DEF SeqsDrawnOnce, PgTypeOK
    <3> QED BY <2>1, <3>1, <3>2 DEF ClientKnows, HasRow, PgTypeOK
  <2>2. CASE b # c
    <3>1. pc'[b] = pc[b] /\ seq'[b] = seq[b]
      BY <2>2 DEF PgTypeOK
    <3> QED BY <3>1 DEF ClientKnows, HasRow
  <2> QED BY <2>1, <2>2
<1> QED BY <1>1, <1>2, <1>3, <1>4

(* A commit adds a row under a free key, with a number that is the call's  *)
(* own: the rows that other calls know stay, and none of them gets one.    *)
LEMMA CommitKeeps ==
  ASSUME PgInv, NEW c \in Client, Commit(c)
  PROVE  PgInv'
<1> DEFINE r == [seq |-> seq[c], event |-> event[c]]
<1>0. /\ PgTypeOK /\ SeqsDrawnOnce /\ ClientKnows(c) /\ pc[c] = "inserting"
      /\ seq[c] # 0 /\ ~HasRow(c) /\ event[c] \in Event
  BY DEF PgInv, Commit, ClientKnows, PgTypeOK
<1>1. r \in Row /\ r.seq = seq[c] /\ r.event = event[c]
  BY <1>0 DEF Row, PgTypeOK
<1> HIDE DEF r
<1>2. /\ rows' = Append(rows, r) /\ rows' \in Seq(Row)
      /\ DOMAIN rows' = DOMAIN rows \cup {Len(rows) + 1}
      /\ rows'[Len(rows) + 1] = r
      /\ \A i \in DOMAIN rows : rows'[i] = rows[i]
      /\ Len(rows) + 1 \notin DOMAIN rows
  BY <1>0, <1>1 DEF Commit, PgTypeOK, r
<1>3. PgTypeOK'
  BY <1>0, <1>2 DEF Commit, Goto, PgTypeOK, State
<1>4. SeqsDrawnOnce'
  <2>1. \A i \in DOMAIN rows : rows[i].seq # r.seq
    BY <1>0, <1>1 DEF HasRow
  <2>2. seq' = seq /\ nextSeq' = nextSeq
    BY DEF Commit
  <2>3. \A i \in DOMAIN rows' : rows'[i].seq < nextSeq'
    BY <1>0, <1>1, <1>2, <2>2 DEF SeqsDrawnOnce
  <2>4. \A i, j \in DOMAIN rows' : rows'[i].seq = rows'[j].seq => i = j
    BY <1>0, <1>2, <2>1 DEF SeqsDrawnOnce
  <2> QED BY <1>0, <2>2, <2>3, <2>4 DEF SeqsDrawnOnce
<1>5. KeysUnique'
  <2>1. r.event.key # NoKey => \A i \in DOMAIN rows : rows[i].event.key # r.event.key
    BY <1>1 DEF Commit, KeyFree, Holds
  <2> QED BY <1>2, <2>1 DEF KeysUnique, PgInv
<1>6. ASSUME NEW b \in Client PROVE ClientKnows(b)'
  <2>0. ClientKnows(b) /\ seq' = seq /\ event' = event /\ result' = result
    BY DEF PgInv, Commit
  <2>1. CASE b = c
    <3>1. pc'[c] = "committed"
      BY <1>0 DEF Commit, Goto, PgTypeOK
    <3> QED BY <1>2, <2>0, <2>1, <3>1 DEF ClientKnows, r
  <2>2. CASE b # c
    <3>1. pc'[b] = pc[b]
      BY <1>0, <2>2 DEF Commit, Goto, PgTypeOK
    <3>2. seq[b] # seq[c]
      BY <1>0, <2>2 DEF SeqsDrawnOnce
    <3>3. ~HasRow(b) => ~HasRow(b)'
      BY <1>1, <1>2, <2>0, <3>2 DEF HasRow
    <3> QED BY <1>2, <2>0, <3>1, <3>3 DEF ClientKnows
  <2> QED BY <2>1, <2>2
<1> QED BY <1>3, <1>4, <1>5, <1>6 DEF PgInv

(* mark_batched gets the ids of appends that inserted a row.               *)
LEMMA MarkBatchedKeeps ==
  ASSUME PgInv, NEW cs \in SUBSET Client, MarkBatched(cs)
  PROVE  PgInv'
<1>1. \A c \in cs : result[c].event_id \in DOMAIN rows
  BY DEF MarkBatched, PgInv, ClientKnows
<1>2. batched' \subseteq DOMAIN rows'
  BY <1>1 DEF MarkBatched, PgInv, PgTypeOK
<1>3. PgTypeOK'
  BY <1>2 DEF MarkBatched, PgInv, PgTypeOK
<1> QED BY <1>3 DEF MarkBatched, PgInv, SeqsDrawnOnce, KeysUnique, ClientKnows, HasRow

(* Every step keeps the invariant.                                         *)
LEMMA PgInvNext == PgInv /\ [PgNext]_pgVars => PgInv'
<1> SUFFICES ASSUME PgInv, [PgNext]_pgVars PROVE PgInv'
  OBVIOUS
<1>1. ASSUME NEW c \in Client, Step(c) PROVE PgInv'
  BY <1>1, OwnStepKeeps, InsertKeeps, CommitKeeps DEF Step
<1>2. ASSUME NEW c \in Client, Lose(c) \/ \E e \in Event : Call(c, e) PROVE PgInv'
  BY <1>2, OwnStepKeeps
<1>3. ASSUME NEW cs \in SUBSET Client, MarkBatched(cs) PROVE PgInv'
  BY <1>3, MarkBatchedKeeps
<1>4. CASE UNCHANGED <<pc, event, seq, result, rows, nextSeq, batched>>
  BY <1>4 DEF PgInv, PgTypeOK, SeqsDrawnOnce, KeysUnique, ClientKnows, HasRow
<1> QED BY <1>1, <1>2, <1>3, <1>4 DEF PgNext, ReadRange, pgVars

(* The invariant holds in every state of the adapter.                      *)
THEOREM PgInvariant == PgSpec => []PgInv
  BY PgInvInit, PgInvNext, PTL DEF PgSpec

-------------------------------------------------------------------------------
(* What append() answers.                                                  *)

(* The id that append() returns is the id of a row with the caller's key;  *)
(* the row is the caller's own exactly when append() says it was not       *)
(* deduplicated (postgres_audit_trail.py:append), whatever the calls, the  *)
(* pool and the connections that break.                                    *)
THEOREM ResultsNameRows == PgSpec => []ResultNamesRow
<1>1. PgInv => ResultNamesRow
  BY DEF PgInv, ClientKnows, ResultNamesRow
<1> QED BY <1>1, PgInvariant, PTL

(* Two appends of one key are never both told that they inserted: their    *)
(* results name rows with that key, the key is on one row, and the row has *)
(* the number of one call.                                                 *)
THEOREM OneWinner == PgSpec => []OneWinnerPerKey
<1>1. PgInv => OneWinnerPerKey
  <2> SUFFICES ASSUME PgInv, NEW b \in Client, NEW c \in Client,
                      pc[b] = "done", ~result[b].deduplicated,
                      pc[c] = "done", ~result[c].deduplicated,
                      event[b].key = event[c].key, event[b].key # NoKey
               PROVE  b = c
    BY DEF OneWinnerPerKey
  <2> DEFINE i == result[b].event_id
             j == result[c].event_id
  <2>1. /\ i \in DOMAIN rows /\ rows[i].event.key = event[b].key /\ rows[i].seq = seq[b]
        /\ j \in DOMAIN rows /\ rows[j].event.key = event[c].key /\ rows[j].seq = seq[c]
    BY DEF PgInv, ClientKnows
  <2>2. i = j
    BY <2>1 DEF PgInv, KeysUnique
  <2>3. rows[i] \in Row
    BY <2>1 DEF PgInv, PgTypeOK
  <2>4. seq[b] = seq[c] /\ seq[b] # 0
    BY <2>1, <2>2, <2>3 DEF Row
  <2> QED BY <2>4 DEF PgInv, SeqsDrawnOnce
<1> QED BY <1>1, PgInvariant, PTL

-------------------------------------------------------------------------------
(* The order of a replay.                                                  *)

\* The elements of S whose number is below that of i: ORDER BY puts them before i.
Below(f, S, i) == {j \in S : f[j] < f[i]}

(* Of two elements with different numbers the one with the smaller number  *)
(* has fewer elements before it.                                           *)
LEMMA RankMonotone ==
  ASSUME NEW S, IsFiniteSet(S), NEW f \in [S -> Int], NEW i \in S, NEW j \in S, f[i] < f[j]
  PROVE  Cardinality(Below(f, S, i)) < Cardinality(Below(f, S, j))
<1>1. Below(f, S, i) \subseteq Below(f, S, j) /\ Below(f, S, j) \subseteq S
  BY DEF Below
<1>2. i \in Below(f, S, j) /\ i \notin Below(f, S, i)
  BY DEF Below
<1>3. IsFiniteSet(Below(f, S, j))
  BY <1>1, FS_Subset
<1>4. /\ Cardinality(Below(f, S, i)) <= Cardinality(Below(f, S, j))
      /\ Cardinality(Below(f, S, i)) # Cardinality(Below(f, S, j))
      /\ IsFiniteSet(Below(f, S, i))
  BY <1>1, <1>2, <1>3, FS_Subset
<1>5. Cardinality(Below(f, S, i)) \in Nat /\ Cardinality(Below(f, S, j)) \in Nat
  BY <1>3, <1>4, FS_CardinalityType
<1> QED BY <1>4, <1>5

(* When no two elements share a number, every place of the ordered list    *)
(* has its element: as many ranks as elements, and no rank twice.          *)
LEMMA EveryRankTaken ==
  ASSUME NEW S, IsFiniteSet(S), NEW f \in [S -> Int],
         \A i, j \in S : f[i] = f[j] => i = j,
         NEW n \in 1..Cardinality(S)
  PROVE  \E i \in S : Cardinality(Below(f, S, i)) = n - 1
<1> DEFINE T == 0..(Cardinality(S) - 1)
           rank == [i \in S |-> Cardinality(Below(f, S, i))]
<1>1. Cardinality(S) \in Nat
  BY FS_CardinalityType
<1>2. IsFiniteSet(T) /\ Cardinality(T) = Cardinality(S)
  <2>1. \A b \in Int : IsFiniteSet(0..b) /\ Cardinality(0..b) = IF 0 > b THEN 0 ELSE b - 0 + 1
    BY FS_Interval
  <2>2. Cardinality(S) - 1 \in Int
    BY <1>1
  <2> QED BY <1>1, <2>1, <2>2
<1>3. ASSUME NEW i \in S PROVE Cardinality(Below(f, S, i)) \in T
  <2>1. Below(f, S, i) \subseteq S /\ i \notin Below(f, S, i)
    BY DEF Below
  <2>2. /\ IsFiniteSet(Below(f, S, i)) /\ Cardinality(Below(f, S, i)) <= Cardinality(S)
        /\ Cardinality(Below(f, S, i)) # Cardinality(S)
    BY <2>1, FS_Subset
  <2>3. Cardinality(Below(f, S, i)) \in Nat
    BY <2>2, FS_CardinalityType
  <2> QED BY <1>1, <2>2, <2>3
<1>4. ASSUME NEW i \in S, NEW j \in S, rank[i] = rank[j] PROVE i = j
  <2>1. Cardinality(Below(f, S, i)) = Cardinality(Below(f, S, j))
    BY <1>4
  <2>2. Cardinality(Below(f, S, i)) \in Nat /\ Cardinality(Below(f, S, j)) \in Nat
    BY <1>1, <1>3
  <2>3. ~(f[i] < f[j]) /\ ~(f[j] < f[i])
    BY <2>1, <2>2, RankMonotone
  <2>4. f[i] \in Int /\ f[j] \in Int
    OBVIOUS
  <2>5. f[i] = f[j]
    BY <2>3, <2>4
  <2> QED BY <2>5
<1>5. SUFFICES ASSUME \A i \in S : rank[i] # n - 1 PROVE FALSE
  OBVIOUS
<1>6. n - 1 \in T
  BY <1>1
<1>7. IsFiniteSet(T \ {n - 1}) /\ Cardinality(T \ {n - 1}) = Cardinality(S) - 1
  <2> HIDE DEF T
  <2> QED BY <1>2, <1>6, FS_RemoveElement
<1>8. rank \in [S -> T \ {n - 1}]
  BY <1>3, <1>5
<1>9. \E x, y \in S : x # y /\ rank[x] = rank[y]
  <2>1. Cardinality(T \ {n - 1}) < Cardinality(S)
    BY <1>1, <1>7
  <2> HIDE DEF T, rank
  <2> QED BY <1>7, <1>8, <2>1, FS_PigeonHole
<1> QED BY <1>4, <1>9

(* read_range (ORDER BY seq ASC) lists rows of the table, by their number. *)
LEMMA ReadRowsSorted ==
  ASSUME PgInv, NEW d \in Decision
  PROVE  /\ ReadRows(d) \in [1..Cardinality(RowsOf(d)) -> Row]
         /\ \A m, n \in DOMAIN ReadRows(d) : m < n => ReadRows(d)[m].seq < ReadRows(d)[n].seq
         /\ Cardinality(RowsOf(d)) \in Nat
<1> DEFINE S == RowsOf(d)
           f == [i \in S |-> rows[i].seq]
           at(n) == CHOOSE i \in S : Cardinality({j \in S : rows[j].seq < rows[i].seq}) = n - 1
<1>1. rows \in Seq(Row) /\ S \subseteq DOMAIN rows /\ S \subseteq 1..Len(rows)
  BY DEF PgInv, PgTypeOK, RowsOf
<1>2. IsFiniteSet(S) /\ Cardinality(S) \in Nat
  <2>1. Len(rows) \in Nat
    BY <1>1
  <2>2. IsFiniteSet(1..Len(rows))
    BY <2>1, FS_Interval
  <2>3. IsFiniteSet(S)
    <3> HIDE DEF S
    <3> QED BY <1>1, <2>2, FS_Subset
  <2> QED BY <2>3, FS_CardinalityType
<1>3. \A i \in S : rows[i] \in Row /\ rows[i].seq \in Nat
  <2>1. \A i \in S : rows[i] \in Row
    BY <1>1
  <2> QED BY <2>1 DEF Row
<1>4. f \in [S -> Int] /\ \A i \in S : f[i] = rows[i].seq
  BY <1>3
<1>5. \A i, j \in S : f[i] = f[j] => i = j
  BY <1>1, <1>4 DEF PgInv, SeqsDrawnOnce
<1>6. \A i \in S : {j \in S : rows[j].seq < rows[i].seq} = Below(f, S, i)
  BY <1>4 DEF Below
<1> HIDE DEF S, f
<1>7. ASSUME NEW n \in 1..Cardinality(S)
      PROVE  at(n) \in S /\ Cardinality(Below(f, S, at(n))) = n - 1
  <2>1. PICK i \in S : Cardinality(Below(f, S, i)) = n - 1
    BY <1>2, <1>4, <1>5, EveryRankTaken
  <2>2. Cardinality({j \in S : rows[j].seq < rows[i].seq}) = n - 1
    BY <1>6, <2>1
  <2>3. at(n) \in S /\ Cardinality({j \in S : rows[j].seq < rows[at(n)].seq}) = n - 1
    BY <2>2
  <2> HIDE DEF at
  <2> QED BY <1>6, <2>3
<1>8. ReadRows(d) = [n \in 1..Cardinality(S) |-> rows[at(n)]]
  BY DEF ReadRows, S
<1> HIDE DEF at
<1>9. ReadRows(d) \in [1..Cardinality(S) -> Row]
  BY <1>3, <1>7, <1>8
<1>10. ASSUME NEW m \in 1..Cardinality(S), NEW n \in 1..Cardinality(S), m < n
       PROVE  ReadRows(d)[m].seq < ReadRows(d)[n].seq
  <2>1. /\ at(m) \in S /\ Cardinality(Below(f, S, at(m))) = m - 1
        /\ at(n) \in S /\ Cardinality(Below(f, S, at(n))) = n - 1
    BY <1>7
  <2>2. ~(n - 1 < m - 1) /\ m - 1 # n - 1
    BY <1>2, <1>10
  <2>3. ~(f[at(n)] < f[at(m)])
    BY <1>2, <1>4, <2>1, <2>2, RankMonotone
  <2>4. f[at(n)] # f[at(m)]
    BY <1>5, <2>1, <2>2
  <2>5. f[at(n)] \in Int /\ f[at(m)] \in Int
    BY <1>4, <2>1
  <2>6. f[at(m)] < f[at(n)]
    BY <2>3, <2>4, <2>5
  <2> QED BY <1>4, <1>8, <2>1, <2>6
<1> QED BY <1>2, <1>9, <1>10 DEF S

\* What a reader has: rows in the order of their numbers.
ReadsSorted ==
  \A d \in Decision :
    /\ \A m \in DOMAIN reads[d] : m \in Nat /\ reads[d][m].seq \in Nat \ {0}
    /\ \A m, n \in DOMAIN reads[d] : m < n => reads[d][m].seq < reads[d][n].seq

\* An append that had returned when c was called drew its number before c does.
CallsDrawInOrder ==
  \A c \in Client : \A b \in before[c] :
    b \in Client /\ pc[b] = "done" /\ (seq[c] # 0 => seq[b] < seq[c])

ReplayInv ==
  /\ reads \in [Decision -> {reads[d] : d \in Decision}]     \* a function on Decision
  /\ before \in [Client -> SUBSET Client]
  /\ ReadsSorted
  /\ CallsDrawInOrder

(* Before the first call nothing is read and nobody has returned.          *)
LEMMA ReplayInvInit == PgInit => ReplayInv
  BY DEF PgInit, ReplayInv, ReadsSorted, CallsDrawInOrder

(* A read leaves a reader with rows in the order of their numbers.         *)
LEMMA ReadRangeSorted ==
  ASSUME PgInv, ReplayInv, NEW d \in Decision, ReadRange(d)
  PROVE  ReplayInv'
<1>1. reads' = [reads EXCEPT ![d] = ReadRows(d)] /\ reads'[d] = ReadRows(d)
      /\ \A e \in Decision \ {d} : reads'[e] = reads[e]
  BY DEF ReadRange, ReplayInv
<1>2. /\ \A m \in DOMAIN ReadRows(d) : m \in Nat /\ ReadRows(d)[m].seq \in Nat \ {0}
      /\ \A m, n \in DOMAIN ReadRows(d) : m < n => ReadRows(d)[m].seq < ReadRows(d)[n].seq
  BY ReadRowsSorted DEF Row
<1>3. ReadsSorted'
  BY <1>1, <1>2 DEF ReplayInv, ReadsSorted
<1>4. reads' \in [Decision -> {reads'[e] : e \in Decision}]
  BY <1>1 DEF ReplayInv
<1> QED BY <1>3, <1>4 DEF ReplayInv, CallsDrawInOrder, ReadRange

(* A call starts with nothing drawn, after the calls that have returned;   *)
(* a number drawn later is above all that were drawn; a call that has      *)
(* returned takes no further step.                                         *)
LEMMA CallsKeepOrder ==
  ASSUME PgInv, ReplayInv, NEW c \in Client,
         \/ \E e \in Event : Call(c, e)
         \/ Step(c)
         \/ Lose(c)
  PROVE  ReplayInv'
<1>0. PgTypeOK /\ SeqsDrawnOnce /\ (\A b \in Client : ClientKnows(b)) /\ CallsDrawInOrder
  BY DEF PgInv, ReplayInv
<1>1. reads' = reads
  BY DEF Call, Step, Acquire, Insert, Commit, Violate, ReturnInserted, Select, Lose
<1>2. pc[c] # "done" /\ \A b \in Client \ {c} : pc'[b] = pc[b]
  BY <1>0 DEF Call, Step, Acquire, Insert, Commit, Violate, ReturnInserted, Select, Lose,
    Connected, Goto, PgTypeOK
<1>3. \A a \in Client : \A b \in before[a] : b # c /\ pc'[b] = "done"
  BY <1>0, <1>2 DEF CallsDrawInOrder
<1>4. ASSUME NEW e \in Event, Call(c, e) PROVE ReplayInv'
  <2>1. before'[c] = {b \in Client : pc[b] = "done"} /\ seq[c] = 0 /\ seq' = seq
        /\ (\A a \in Client \ {c} : before'[a] = before[a]) /\ before' \in [Client -> SUBSET Client]
    BY <1>0, <1>4 DEF Call, ReplayInv, ClientKnows
  <2>2. ASSUME NEW a \in Client, NEW b \in before'[a]
        PROVE  b \in Client /\ pc'[b] = "done" /\ (seq'[a] # 0 => seq'[b] < seq'[a])
    <3>1. CASE a = c
      <4>1. b \in Client /\ pc[b] = "done" /\ b # c
        BY <1>2, <2>1, <2>2, <3>1
      <4> QED BY <1>2, <2>1, <3>1, <4>1
    <3>2. CASE a # c
      <4>1. b \in before[a]
        BY <2>1, <2>2, <3>2
      <4> QED BY <1>0, <1>3, <2>1, <4>1 DEF CallsDrawInOrder
    <3> QED BY <3>1, <3>2
  <2> QED BY <1>1, <2>1, <2>2 DEF ReplayInv, CallsDrawInOrder, ReadsSorted
<1>5. CASE Insert(c)
  <2>1. seq'[c] = nextSeq /\ (\A a \in Client \ {c} : seq'[a] = seq[a]) /\ before' = before
    BY <1>0, <1>5 DEF Insert, PgTypeOK
  <2>2. ASSUME NEW a \in Client, NEW b \in before[a]
        PROVE  b \in Client /\ pc'[b] = "done" /\ (seq'[a] # 0 => seq'[b] < seq'[a])
    <3>1. b \in Client /\ b # c /\ pc'[b] = "done" /\ seq'[b] = seq[b] /\ seq[b] < nextSeq
      BY <1>0, <1>3, <2>1 DEF CallsDrawInOrder, SeqsDrawnOnce
    <3>2. CASE a = c
      BY <2>1, <3>1, <3>2
    <3>3. CASE a # c
      BY <1>0, <2>1, <3>1, <3>3 DEF CallsDrawInOrder
    <3> QED BY <3>2, <3>3
  <2> QED BY <1>1, <2>1, <2>2 DEF ReplayInv, CallsDrawInOrder, ReadsSorted
<1>6. CASE UNCHANGED <<seq, before>>
  <2>1. CallsDrawInOrder'
    BY <1>0, <1>3, <1>6 DEF CallsDrawInOrder
  <2> QED BY <1>1, <1>6, <2>1 DEF ReplayInv, ReadsSorted
<1> QED BY <1>4, <1>5, <1>6
  DEF Step, Acquire, Commit, Violate, ReturnInserted, Select, Lose

(* Every step keeps the order of reads and of calls.                       *)
LEMMA ReplayInvNext == PgInv /\ ReplayInv /\ [PgNext]_pgVars => ReplayInv'
<1> SUFFICES ASSUME PgInv, ReplayInv, [PgNext]_pgVars PROVE ReplayInv'
  OBVIOUS
<1>1. CASE UNCHANGED <<pc, seq, reads, before>>
  BY <1>1 DEF ReplayInv, ReadsSorted, CallsDrawInOrder
<1> QED BY <1>1, ReadRangeSorted, CallsKeepOrder DEF PgNext, MarkBatched, pgVars

(* If an append had returned when another was called, every replay that    *)
(* has both events has them in that order (postgres_audit_trail.py:append, *)
(* read_range): the numbers are drawn in call order, and a read is sorted  *)
(* by them.  For any number of calls, any table and any pool.              *)
THEOREM ReplayInCallOrder == PgSpec => []ReplayKeepsCallOrder
<1>1. PgInv /\ ReplayInv => ReplayKeepsCallOrder
  <2> SUFFICES ASSUME PgInv, ReplayInv, NEW d \in Decision,
                      NEW m \in DOMAIN reads[d], NEW n \in DOMAIN reads[d],
                      NEW c \in Client, NEW b \in before[c],
                      reads[d][m].seq = seq[b], reads[d][n].seq = seq[c]
               PROVE  m < n
    BY DEF ReplayKeepsCallOrder
  <2>1. /\ m \in Nat /\ n \in Nat /\ seq[c] \in Nat \ {0} /\ seq[b] \in Nat
        /\ (n < m => seq[c] < seq[b])
    BY DEF ReplayInv, ReadsSorted
  <2>2. seq[b] < seq[c]
    BY <2>1 DEF ReplayInv, CallsDrawInOrder
  <2>3. m # n
    BY <2>1, <2>2
  <2> QED BY <2>1, <2>2, <2>3
<1>2. PgSpec => []ReplayInv
  BY ReplayInvInit, ReplayInvNext, PgInvariant, PTL DEF PgSpec
<1> QED BY <1>1, <1>2, PgInvariant, PTL

-------------------------------------------------------------------------------
(* The adapter implements the port.                                        *)

\* The events of the rows, in commit order: the trail of the port.
EventsOf == [i \in DOMAIN rows |-> rows[i].event]

(* A commit is the port's Extend: one event more, at the end, under a key  *)
(* that nobody used.                                                       *)
LEMMA CommitExtends ==
  ASSUME PgInv, NEW c \in Client, Commit(c)
  PROVE  Port!Extend
<1> DEFINE n == Len(rows)
<1>0. rows \in Seq(Row) /\ event[c] \in Event /\ seq[c] \in Nat \ {0}
  BY DEF PgInv, Commit, ClientKnows, PgTypeOK
<1>1. /\ n \in Nat /\ DOMAIN rows = 1..n /\ DOMAIN rows' = 1..(n + 1)
      /\ rows'[n + 1] = [seq |-> seq[c], event |-> event[c]]
      /\ \A i \in 1..n : rows'[i] = rows[i]
  BY <1>0 DEF Commit
<1>2. EventsOf \in Seq(Event) /\ Len(EventsOf) = n
  <2>1. \A i \in 1..n : rows[i].event \in Event
    <3>1. \A i \in 1..n : rows[i] \in Row
      BY <1>0, <1>1
    <3> QED BY <3>1 DEF Row
  <2>2. EventsOf \in [1..n -> Event]
    BY <1>1, <2>1 DEF EventsOf
  <2> HIDE DEF n
  <2> QED BY <1>1, <2>2
<1>3. EventsOf' = Append(EventsOf, event[c])
  <2>1. Append(EventsOf, event[c]) = [i \in 1..(n + 1) |-> IF i = n + 1 THEN event[c] ELSE EventsOf[i]]
    BY <1>0, <1>2
  <2>2. EventsOf' = [i \in 1..(n + 1) |-> rows'[i].event]
    BY <1>1 DEF EventsOf
  <2>3. \A i \in 1..(n + 1) : rows'[i].event = IF i = n + 1 THEN event[c] ELSE EventsOf[i]
    BY <1>1 DEF EventsOf
  <2> HIDE DEF n
  <2> QED BY <2>1, <2>2, <2>3
<1>4. Len(EventsOf') = n + 1 /\ EventsOf'[n + 1] = event[c]
  BY <1>0, <1>2, <1>3
<1>5. ~(event[c].key # NoKey /\ \E i \in DOMAIN EventsOf : EventsOf[i].key = event[c].key)
  BY DEF EventsOf, Commit, KeyFree, Holds
<1>6. batched' = batched
  BY DEF Commit
<1> QED BY <1>2, <1>3, <1>4, <1>5, <1>6 DEF Port!Extend, Port!KeyTaken, EventsOf

(* mark_batched is the port's Batch: it folds ids of the table.            *)
LEMMA MarkBatchedBatches ==
  ASSUME PgInv, PgInv', NEW cs \in SUBSET Client, MarkBatched(cs)
  PROVE  Port!Batch
  BY DEF PgInv, PgTypeOK, MarkBatched, Port!Batch

(* Under concurrent duplicates, waiting calls and broken connections the   *)
(* table in commit order behaves as the port promises: a step of the       *)
(* adapter adds one event under a fresh key, marks ids of the trail, or    *)
(* is not seen.                                                            *)
THEOREM PostgresImplementsPort == PgSpec => ImplementsPort
<1>1. PgInit => Port!Init
  BY DEF PgInit, Port!Init
<1>2. PgInv /\ PgInv' /\ [PgNext]_pgVars => [Port!Next]_(Port!auditVars)
  <2> SUFFICES ASSUME PgInv, PgInv', [PgNext]_pgVars
               PROVE  Port!Next \/ UNCHANGED <<rows, batched>>
    BY DEF Port!auditVars
  <2>1. ASSUME NEW c \in Client, Commit(c) PROVE Port!Next
    BY <2>1, CommitExtends DEF Port!Next
  <2>2. ASSUME NEW cs \in SUBSET Client, MarkBatched(cs) PROVE Port!Next
    BY <2>2, MarkBatchedBatches DEF Port!Next
  <2> QED BY <2>1, <2>2
    DEF PgNext, pgVars, Call, Step, Acquire, Insert, Violate, ReturnInserted, Select, Lose,
        ReadRange
<1> QED BY <1>1, <1>2, PgInvariant, PTL DEF PgSpec, ImplementsPort, Port!Spec
===============================================================================
