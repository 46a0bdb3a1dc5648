--------------------------- MODULE ScoreboardProofs ---------------------------
(***************************************************************************)
(* Proofs about Scoreboard, for any stream of events and any number of     *)
(* concurrent queries: what the replay of a stream decides, and what the   *)
(* queries serve while the stream grows under them.                        *)
(***************************************************************************)
EXTENDS Scoreboard, FiniteSetTheorems, WellFoundedInduction, TLAPS

-------------------------------------------------------------------------------
(* Least elements.                                                         *)

(* A nonempty set of naturals has a least element.                         *)
LEMMA LeastNat ==
  ASSUME NEW T \in SUBSET Nat, T # {}
  PROVE  \E n \in T : \A m \in T : n <= m
<1>1. PICK n \in T : \A m \in T : ~(<<m, n>> \in OpToRel(<, Nat))
  BY WFMin, NatLessThanWellFounded
<1>2. \A m \in T : ~(m < n)
  BY <1>1 DEF OpToRel
<1> QED BY <1>2

(* Min picks it.                                                           *)
LEMMA MinIsLeast ==
  ASSUME NEW T \in SUBSET Nat, T # {}
  PROVE  Min(T) \in T /\ \A m \in T : Min(T) <= m
BY LeastNat DEF Min

(* A set that holds 0 and the successor of each of its members holds Nat.  *)
LEMMA SetInduction ==
  ASSUME NEW T \in SUBSET Nat, 0 \in T, \A n \in T : n + 1 \in T
  PROVE  \A n \in Nat : n \in T
<1> DEFINE U == Nat \ T
<1>1. SUFFICES ASSUME U # {} PROVE FALSE
  OBVIOUS
<1>2. PICK n \in U : \A m \in U : n <= m
  BY <1>1, LeastNat
<1>3. n \in Nat /\ n # 0 /\ n - 1 \in Nat /\ n - 1 \notin U
  BY <1>2
<1>4. (n - 1) + 1 \in T
  BY <1>3
<1> QED BY <1>3, <1>4

(* A set of at most one element has no two.                                *)
LEMMA AtMostOne ==
  ASSUME NEW T, IsFiniteSet(T), Cardinality(T) <= 1, NEW x \in T, NEW y \in T
  PROVE  x = y
<1>1. IsFiniteSet({x, y}) /\ Cardinality({x, y}) <= Cardinality(T)
  BY FS_Subset
<1>2. SUFFICES ASSUME x # y PROVE FALSE
  OBVIOUS
<1>3. Cardinality({x}) = 1 /\ IsFiniteSet({x})
  BY FS_Singleton
<1>4. Cardinality({x} \cup {y}) = 2
  BY <1>2, <1>3, FS_AddElement
<1>5. {x} \cup {y} = {x, y}
  OBVIOUS
<1>6. Cardinality(T) \in Nat
  BY FS_CardinalityType
<1> QED BY <1>1, <1>4, <1>5, <1>6

-------------------------------------------------------------------------------
(* The replay of metrics_registry.reconstruct.                             *)

\* The metrics that have a record once n events are read.
Names(evts, n) ==
  {evts[i].metric : i \in {j \in 1..n : evts[j].type \in {"MetricCommitted", "MetricRejected"}}}

(* A record is COMMITTED only when it comes from a commit and no           *)
(* supersession that was read is of its metric; its status is terminal.    *)
LEMMA MetricsShape ==
  ASSUME NEW evts
  PROVE  /\ DOMAIN Metrics(evts) = Names(evts, EventsRead(evts))
         /\ \A m \in DOMAIN Metrics(evts) :
              /\ Metrics(evts)[m].status \in TerminalStatus
              /\ Metrics(evts)[m].status = "COMMITTED" =>
                   /\ evts[Recorded(evts, EventsRead(evts), m)].type = "MetricCommitted"
                   /\ \A i \in Supersessions(evts) \cap (1..EventsRead(evts)) : evts[i].metric # m
<1> DEFINE n == EventsRead(evts)
           superseded == {evts[i].metric : i \in Supersessions(evts) \cap (1..n)}
           e(m) == evts[Recorded(evts, n, m)]
           rec(m) == [value |-> e(m).value, leaf |-> e(m).leaf, evidence |-> e(m).evidence,
                      status |-> IF m \in superseded THEN "SUPERSEDED"
                                 ELSE IF e(m).type = "MetricCommitted" THEN "COMMITTED" ELSE "REJECTED"]
<1>1. Metrics(evts) = [m \in Names(evts, n) |-> rec(m)]
  BY DEF Metrics, Names
<1>2. ASSUME NEW m \in Names(evts, n)
      PROVE  /\ Metrics(evts)[m].status \in TerminalStatus
             /\ Metrics(evts)[m].status = "COMMITTED" => m \notin superseded /\ e(m).type = "MetricCommitted"
  <2>1. Metrics(evts)[m].status = IF m \in superseded THEN "SUPERSEDED"
                                  ELSE IF e(m).type = "MetricCommitted" THEN "COMMITTED" ELSE "REJECTED"
    BY <1>1
  <2> HIDE DEF superseded, e
  <2> QED BY <2>1 DEF TerminalStatus
<1>3. DOMAIN Metrics(evts) = Names(evts, n)
  BY <1>1
<1> QED BY <1>2, <1>3

(* The record of a metric comes from an event of it among those read.      *)
LEMMA RecordedIsOfMetric ==
  ASSUME NEW evts, NEW n \in Nat, NEW m \in Names(evts, n)
  PROVE  Recorded(evts, n, m) \in 1..n /\ evts[Recorded(evts, n, m)].metric = m
<1> DEFINE i == Recorded(evts, n, m)
           C == OfMetric(evts, n, "MetricCommitted", m)
           K == Known(evts, n, m)
<1>0. /\ C \in SUBSET Nat /\ \A j \in C : j \in 1..n /\ evts[j].metric = m
      /\ K \in SUBSET Nat /\ \A j \in K : j \in 1..n /\ evts[j].metric = m
  BY DEF OfMetric, Known
<1>1. CASE C # {}
  <2>1. i = Max(C)
    BY <1>1 DEF Recorded
  <2>2. \E a \in C : \A b \in C : a >= b
    <3> DEFINE T == {n - c : c \in C}
    <3>1. T \in SUBSET Nat /\ T # {}
      BY <1>0, <1>1
    <3>2. PICK t \in T : \A u \in T : t <= u
      BY <3>1, LeastNat
    <3>3. PICK a \in C : t = n - a
      BY <3>2
    <3>4. ASSUME NEW b \in C PROVE a >= b
      <4>1. n - a <= n - b
        BY <3>2, <3>3
      <4> QED BY <1>0, <4>1
    <3> QED BY <3>4
  <2>3. i \in C
    BY <2>1, <2>2 DEF Max
  <2> QED BY <1>0, <2>3
<1>2. CASE C = {}
  <2>1. i = Min(K)
    BY <1>2 DEF Recorded
  <2>2. K # {}
    BY DEF Names, Known, OfMetric
  <2>3. i \in K
    BY <1>0, <2>1, <2>2, MinIsLeast
  <2> QED BY <1>0, <2>3
<1> QED BY <1>1, <1>2

(* Supersessions are positions of the stream, and the replay reads up to   *)
(* the first of them.                                                      *)
LEMMA ReadUpTo ==
  ASSUME NEW S, NEW evts \in Seq(S)
  PROVE  /\ Len(evts) \in Nat /\ DOMAIN evts = 1..Len(evts)
         /\ Supersessions(evts) \in SUBSET Nat
         /\ Supersessions(evts) \subseteq 1..Len(evts)
         /\ EventsRead(evts) \in 0..Len(evts)
         /\ \A i \in Supersessions(evts) : EventsRead(evts) <= i
         /\ Supersessions(evts) # {} => EventsRead(evts) \in Supersessions(evts)
         /\ Supersessions(evts) = {} => EventsRead(evts) = Len(evts)
<1>1. Len(evts) \in Nat /\ DOMAIN evts = 1..Len(evts)
  OBVIOUS
<1>2. Supersessions(evts) \in SUBSET Nat /\ Supersessions(evts) \subseteq 1..Len(evts)
  BY <1>1 DEF Supersessions
<1>3. CASE Supersessions(evts) = {}
  BY <1>1, <1>2, <1>3 DEF EventsRead
<1>4. CASE Supersessions(evts) # {}
  <2>1. EventsRead(evts) = Min(Supersessions(evts))
    BY <1>4 DEF EventsRead
  <2>2. EventsRead(evts) \in Supersessions(evts) /\ \A i \in Supersessions(evts) : EventsRead(evts) <= i
    BY <1>2, <1>4, <2>1, MinIsLeast
  <2> QED BY <1>1, <1>2, <1>4, <2>2
<1> QED BY <1>3, <1>4

-------------------------------------------------------------------------------
(* A stream with one event more in it.                                     *)

\* new is old with x behind its first p elements.
IsInserted(new, old, p, x) ==
  /\ Len(old) \in Nat /\ p \in 0..Len(old) /\ Len(new) = Len(old) + 1
  /\ DOMAIN old = 1..Len(old) /\ DOMAIN new = 1..(Len(old) + 1)
  /\ new[p + 1] = x
  /\ \A i \in 1..p : new[i] = old[i]
  /\ \A i \in (p + 1)..Len(old) : new[i + 1] = old[i]

\* Where the i-th element of old is in new.
Shift(p, i) == IF i <= p THEN i ELSE i + 1

Shifted(p, T) == {Shift(p, i) : i \in T}

(* InsertAt does that.                                                     *)
LEMMA InsertIs ==
  ASSUME NEW S, NEW old \in Seq(S), NEW x \in S, NEW p \in 0..Len(old)
  PROVE  InsertAt(old, p + 1, x) \in Seq(S) /\ IsInserted(InsertAt(old, p + 1, x), old, p, x)
<1>1. PICK n \in Nat : n = Len(old) /\ DOMAIN old = 1..n
  OBVIOUS
<1>2. PICK a : a = SubSeq(old, 1, p)
  OBVIOUS
<1>3. PICK b : b = SubSeq(old, p + 1, n)
  OBVIOUS
<1>4. a \in Seq(S) /\ Len(a) = p /\ \A i \in 1..p : a[i] = old[i]
  BY <1>1, <1>2
<1>5. b \in Seq(S) /\ Len(b) = n - p /\ \A i \in 1..(n - p) : b[i] = old[p + i]
  BY <1>1, <1>3
<1>6. PICK c : c = a \o <<x>>
  OBVIOUS
<1>7. c \in Seq(S) /\ Len(c) = p + 1 /\ c[p + 1] = x /\ \A i \in 1..p : c[i] = a[i]
  BY <1>4, <1>6
<1>8. PICK new : new = c \o b
  OBVIOUS
<1>9. /\ new \in Seq(S) /\ Len(new) = n + 1 /\ DOMAIN new = 1..(n + 1)
      /\ \A i \in 1..(p + 1) : new[i] = c[i]
      /\ \A i \in 1..(n - p) : new[(p + 1) + i] = b[i]
  <2>1. PICK k \in Nat : k = p + 1 /\ k = Len(c)
    BY <1>1, <1>7
  <2>2. PICK l \in Nat : l = n - p /\ l = Len(b)
    <3>1. n - p \in Nat
      BY <1>1
    <3> QED BY <1>5, <3>1
  <2>3. k + l = n + 1
    BY <1>1, <2>1, <2>2
  <2>4. new \in Seq(S) /\ Len(new) = k + l /\ DOMAIN new = 1..(k + l)
    <3>1. new \in Seq(S)
      BY <1>5, <1>7, <1>8
    <3>2. Len(new) = k + l
      <4>1. \A u \in Seq(S), v \in Seq(S) : Len(u \o v) = Len(u) + Len(v)
        OBVIOUS
      <4> QED BY <1>5, <1>7, <1>8, <2>1, <2>2, <4>1
    <3>3. DOMAIN new = 1..Len(new)
      BY <3>1
    <3> QED BY <3>1, <3>2, <3>3
  <2>5. \A i \in 1..k : new[i] = c[i]
    BY <1>5, <1>7, <1>8, <2>1, <2>2
  <2>6. \A i \in 1..l : new[k + i] = b[i]
    BY <1>5, <1>7, <1>8, <2>1, <2>2
  <2> QED BY <2>1, <2>2, <2>3, <2>4, <2>5, <2>6
<1>10. new = InsertAt(old, p + 1, x)
  <2>1. (p + 1) - 1 = p
    OBVIOUS
  <2> QED BY <1>1, <1>2, <1>3, <1>6, <1>8, <2>1 DEF InsertAt
<1>11. \A i \in 1..p : new[i] = old[i]
  BY <1>4, <1>7, <1>9
<1>12. ASSUME NEW i \in (p + 1)..n PROVE new[i + 1] = old[i]
  <2>1. i - p \in 1..(n - p) /\ (p + 1) + (i - p) = i + 1 /\ p + (i - p) = i
    BY <1>1
  <2>2. new[(p + 1) + (i - p)] = b[i - p] /\ b[i - p] = old[p + (i - p)]
    BY <1>5, <1>9, <2>1
  <2> QED BY <2>1, <2>2
<1>13. new[p + 1] = x
  BY <1>1, <1>7, <1>9
<1> QED BY <1>1, <1>9, <1>10, <1>11, <1>12, <1>13 DEF IsInserted

(* And RemoveAt undoes it.                                                 *)
LEMMA RemoveIs ==
  ASSUME NEW S, NEW new \in Seq(S), NEW i \in DOMAIN new
  PROVE  IsInserted(new, RemoveAt(new, i), i - 1, new[i])
<1>1. PICK n \in Nat : n = Len(new) /\ DOMAIN new = 1..n /\ i \in 1..n
  OBVIOUS
<1>2. PICK a : a = SubSeq(new, 1, i - 1)
  OBVIOUS
<1>3. PICK b : b = SubSeq(new, i + 1, n)
  OBVIOUS
<1>4. a \in Seq(S) /\ Len(a) = i - 1 /\ \A k \in 1..(i - 1) : a[k] = new[k]
  BY <1>1, <1>2
<1>5. b \in Seq(S) /\ Len(b) = n - i /\ \A k \in 1..(n - i) : b[k] = new[i + k]
  BY <1>1, <1>3
<1>6. PICK old : old = a \o b
  OBVIOUS
<1>7. /\ Len(old) = n - 1 /\ DOMAIN old = 1..(n - 1)
      /\ \A k \in 1..(i - 1) : old[k] = a[k]
      /\ \A k \in 1..(n - i) : old[(i - 1) + k] = b[k]
  BY <1>1, <1>4, <1>5, <1>6
<1>8. old = RemoveAt(new, i)
  BY <1>1, <1>2, <1>3, <1>6 DEF RemoveAt
<1>9. \A k \in 1..(i - 1) : new[k] = old[k]
  BY <1>4, <1>7
<1>10. ASSUME NEW k \in ((i - 1) + 1)..(n - 1) PROVE new[k + 1] = old[k]
  <2>1. k - (i - 1) \in 1..(n - i) /\ (i - 1) + (k - (i - 1)) = k /\ i + (k - (i - 1)) = k + 1
    BY <1>1
  <2>2. old[(i - 1) + (k - (i - 1))] = b[k - (i - 1)] /\ b[k - (i - 1)] = new[i + (k - (i - 1))]
    BY <1>5, <1>7, <2>1
  <2> QED BY <2>1, <2>2
<1>11. (i - 1) + 1 = i /\ i - 1 \in 0..(n - 1) /\ n = (n - 1) + 1 /\ n - 1 \in Nat
  BY <1>1
<1> QED BY <1>1, <1>7, <1>8, <1>9, <1>10, <1>11 DEF IsInserted

(* Every element keeps its place up to the shift, and only x is new.       *)
LEMMA ShiftFacts ==
  ASSUME NEW new, NEW old, NEW p, NEW x, IsInserted(new, old, p, x)
  PROVE  /\ \A i \in DOMAIN old : /\ Shift(p, i) \in DOMAIN new /\ Shift(p, i) # p + 1
                                  /\ new[Shift(p, i)] = old[i]
         /\ \A j \in DOMAIN new : j # p + 1 => \E i \in DOMAIN old : j = Shift(p, i)
         /\ \A i \in Nat, k \in Nat : i <= k <=> Shift(p, i) <= Shift(p, k)
         /\ \A i \in Nat : Shift(p, i) \in Nat /\ (i >= 1 => Shift(p, i) >= 1)
<1>1. PICK n \in Nat : /\ n = Len(old) /\ p \in 0..n /\ DOMAIN old = 1..n /\ DOMAIN new = 1..(n + 1)
                       /\ \A i \in 1..p : new[i] = old[i]
                       /\ \A i \in (p + 1)..n : new[i + 1] = old[i]
  BY DEF IsInserted
<1>2. ASSUME NEW i \in 1..n
      PROVE  Shift(p, i) \in 1..(n + 1) /\ Shift(p, i) # p + 1 /\ new[Shift(p, i)] = old[i]
  BY <1>1 DEF Shift
<1>3. ASSUME NEW j \in 1..(n + 1), j # p + 1 PROVE \E i \in 1..n : j = Shift(p, i)
  <2>1. CASE j <= p
    <3>1. j \in 1..n /\ j = Shift(p, j)
      BY <1>1, <2>1 DEF Shift
    <3> QED BY <3>1
  <2>2. CASE ~(j <= p)
    <3>1. j - 1 \in 1..n /\ j = Shift(p, j - 1)
      BY <1>1, <1>3, <2>2 DEF Shift
    <3> QED BY <3>1
  <2> QED BY <2>1, <2>2
<1>4. \A i \in Nat, k \in Nat : i <= k <=> Shift(p, i) <= Shift(p, k)
  BY <1>1 DEF Shift
<1>5. \A i \in Nat : Shift(p, i) \in Nat /\ (i >= 1 => Shift(p, i) >= 1)
  BY <1>1 DEF Shift
<1> QED BY <1>1, <1>2, <1>3, <1>4, <1>5

(* A supersession that counted still does.                                 *)
LEMMA SupersessionsStay ==
  ASSUME NEW new, NEW old, NEW p, NEW x, IsInserted(new, old, p, x)
  PROVE  \A i \in Supersessions(old) : Shift(p, i) \in Supersessions(new)
<1>0. PICK n \in Nat : n = Len(old) /\ DOMAIN old = 1..n
  BY DEF IsInserted
<1>1. ASSUME NEW i \in Supersessions(old) PROVE Shift(p, i) \in Supersessions(new)
  <2>1. i \in 1..n /\ old[i].type = "MetricSuperseded" /\ Known(old, i, old[i].metric) # {}
    BY <1>0 DEF Supersessions
  <2>2. PICK k \in 1..i : /\ old[k].type \in {"MetricCommitted", "MetricRejected"}
                          /\ old[k].metric = old[i].metric
    BY <2>1 DEF Known, OfMetric
  <2>3. k \in 1..n /\ k \in Nat /\ i \in Nat /\ k >= 1 /\ k <= i
    BY <1>0, <2>1, <2>2
  <2>4. /\ Shift(p, i) \in DOMAIN new /\ new[Shift(p, i)] = old[i]
        /\ new[Shift(p, k)] = old[k]
    <3>1. \A j \in DOMAIN old : Shift(p, j) \in DOMAIN new /\ new[Shift(p, j)] = old[j]
      BY ShiftFacts
    <3> QED BY <1>0, <2>1, <2>3, <3>1
  <2>5. Shift(p, k) \in Nat /\ Shift(p, i) \in Nat /\ Shift(p, k) >= 1 /\ Shift(p, k) <= Shift(p, i)
    BY <2>3, ShiftFacts
  <2>6. Shift(p, k) \in 1..Shift(p, i)
    BY <2>5
  <2>7. Shift(p, k) \in Known(new, Shift(p, i), new[Shift(p, i)].metric)
    BY <2>2, <2>4, <2>6 DEF Known, OfMetric
  <2> QED BY <2>1, <2>4, <2>7 DEF Supersessions
<1> QED BY <1>1

(* So a metric that has a record keeps one, unless a supersession that     *)
(* counts has events behind it.                                            *)
LEMMA NamesGrow ==
  ASSUME NEW S, NEW old \in Seq(S), NEW new \in Seq(S), NEW p, NEW x, IsInserted(new, old, p, x),
         Supersessions(new) \subseteq {Len(new)}
  PROVE  DOMAIN Metrics(old) \subseteq DOMAIN Metrics(new)
<1>1. PICK n \in Nat : n = Len(old) /\ Len(new) = n + 1 /\ DOMAIN old = 1..n /\ DOMAIN new = 1..(n + 1)
  BY DEF IsInserted
<1>2. EventsRead(new) = n + 1
  <2>1. CASE Supersessions(new) = {}
    BY <1>1, <2>1, ReadUpTo
  <2>2. CASE Supersessions(new) # {}
    <3>1. EventsRead(new) \in Supersessions(new)
      BY <2>2, ReadUpTo
    <3> QED BY <1>1, <3>1
  <2> QED BY <2>1, <2>2
<1>3. PICK a \in 0..n : a = EventsRead(old)
  BY <1>1, ReadUpTo
<1>4. ASSUME NEW i \in 1..a PROVE Shift(p, i) \in 1..(n + 1) /\ new[Shift(p, i)] = old[i]
  <2>1. i \in 1..n
    BY <1>3
  <2>2. \A j \in DOMAIN old : Shift(p, j) \in DOMAIN new /\ new[Shift(p, j)] = old[j]
    BY ShiftFacts
  <2> QED BY <1>1, <2>1, <2>2
<1>5. Names(old, a) \subseteq Names(new, n + 1)
  BY <1>4 DEF Names
<1> QED BY <1>2, <1>3, <1>5, MetricsShape

-------------------------------------------------------------------------------
(* The gate of I4.                                                         *)

(* A number is served only for a full set of COMMITTED records.            *)
LEMMA ScoreMeansCommitted ==
  ASSUME NEW required, NEW metrics, NEW risks,
         EvaluatePolicy(required, metrics, risks).trust_score # NoScore
  PROVE  \A m \in required : m \in DOMAIN metrics /\ metrics[m].status = "COMMITTED"
<1>1. CASE required \ CommittedOf(required, metrics) # {}
  <2>1. EvaluatePolicy(required, metrics, risks).trust_score = NoScore
    BY <1>1 DEF EvaluatePolicy
  <2> QED BY <2>1
<1>2. CASE required \ CommittedOf(required, metrics) = {}
  BY <1>2 DEF CommittedOf
<1> QED BY <1>1, <1>2

(* With one supersession in the stream, a metric whose record is COMMITTED *)
(* was committed after it or is not the one superseded.                    *)
LEMMA CommittedRecordIsNow ==
  ASSUME NEW S, events \in Seq(S), Cardinality(Supersessions(events)) <= 1,
         NEW m \in DOMAIN Metrics(events), Metrics(events)[m].status = "COMMITTED"
  PROVE  CommittedNow(m)
<1>1. PICK n : n = EventsRead(events)
  OBVIOUS
<1>2. PICK N \in Nat : N = Len(events) /\ DOMAIN events = 1..N /\ n \in 0..N
  BY <1>1, ReadUpTo
<1>3. PICK i : i = Recorded(events, n, m)
  OBVIOUS
<1>4. /\ events[i].type = "MetricCommitted" /\ m \in Names(events, n)
      /\ \A j \in Supersessions(events) \cap (1..n) : events[j].metric # m
  BY <1>1, <1>3, MetricsShape
<1>5. i \in 1..n /\ events[i].metric = m
  BY <1>2, <1>3, <1>4, RecordedIsOfMetric
<1>6. ASSUME NEW j \in (i + 1)..N, events[j].type = "MetricSuperseded", events[j].metric = m
      PROVE  FALSE
  <2>1. j \in 1..N /\ i \in 1..j
    BY <1>2, <1>5
  <2>2. j \in Supersessions(events)
    BY <1>2, <1>4, <1>5, <1>6, <2>1 DEF Supersessions, Known, OfMetric
  <2>3. n \in Supersessions(events)
    BY <1>1, <2>2, ReadUpTo
  <2>4. IsFiniteSet(Supersessions(events))
    <3>1. IsFiniteSet(1..N) /\ Supersessions(events) \subseteq 1..N
      BY <1>2, FS_Interval, ReadUpTo
    <3> QED BY <3>1, FS_Subset
  <2>5. j = n
    BY <2>2, <2>3, <2>4, AtMostOne
  <2>6. j \in 1..n
    BY <2>1, <2>5
  <2> QED BY <1>4, <1>6, <2>2, <2>6
<1>7. i \in DOMAIN events
  BY <1>2, <1>5
<1> QED BY <1>2, <1>4, <1>5, <1>6, <1>7 DEF CommittedNow

(* I4, for a stream with at most one supersession.                         *)
LEMMA GateHolds ==
  ASSUME NEW S, events \in Seq(S)
  PROVE  ScoreNeedsCommits
<1> SUFFICES ASSUME Cardinality(Supersessions(events)) <= 1, Now.trust_score # NoScore,
                    NEW m \in RequiredFor({})
             PROVE  CommittedNow(m)
  BY DEF ScoreNeedsCommits, NoScoreFromIncomplete
<1>1. CASE RisksValid(events)
  <2>1. Now = Project(events, RequiredFor({}))
    BY <1>1 DEF Now, Served
  <2>2. Now.trust_score = EvaluatePolicy(RequiredFor({}), Metrics(events), Risks(events)).trust_score
    BY <2>1 DEF Project
  <2>3. m \in DOMAIN Metrics(events) /\ Metrics(events)[m].status = "COMMITTED"
    BY <2>2, ScoreMeansCommitted
  <2> QED BY <2>3, CommittedRecordIsNow
<1>2. CASE ~RisksValid(events)
  BY <1>2 DEF Now, Served
<1> QED BY <1>1, <1>2

-------------------------------------------------------------------------------
(* Risk signals.                                                           *)

\* One turn of the loop of risk_matrix.reconstruct.
Signal(signals, e) == IF e.type = "RiskSignal" THEN Append(signals, e) ELSE signals

\* f is that loop over evts, n events long.
IsLoop(f, evts, n) ==
  f = [k \in 0..n |-> IF k = 0 THEN <<>> ELSE Signal(f[k - 1], evts[k])]

(* The loop is well defined.                                               *)
LEMMA LoopExists ==
  ASSUME NEW evts, NEW N \in Nat
  PROVE  \E f : IsLoop(f, evts, N)
<1> DEFINE T == {n \in Nat : \E f : IsLoop(f, evts, n)}
<1>1. 0 \in T
  <2> DEFINE f == [k \in 0..0 |-> <<>>]
  <2>1. IsLoop(f, evts, 0)
    BY DEF IsLoop
  <2> QED BY <2>1
<1>2. ASSUME NEW n \in T PROVE n + 1 \in T
  <2>1. PICK f : IsLoop(f, evts, n)
    BY <1>2
  <2>2. n \in Nat
    BY <1>2
  <2>0. f = [k \in 0..n |-> IF k = 0 THEN <<>> ELSE Signal(f[k - 1], evts[k])]
    BY <2>1 DEF IsLoop
  <2> DEFINE g == [k \in 0..(n + 1) |-> IF k <= n THEN f[k] ELSE Signal(f[n], evts[n + 1])]
  <2>3. ASSUME NEW k \in 0..(n + 1)
        PROVE  g[k] = IF k = 0 THEN <<>> ELSE Signal(g[k - 1], evts[k])
    <3>1. CASE k = 0
      BY <2>0, <2>2, <3>1
    <3>2. CASE k > 0 /\ k <= n
      <4>1. f[k] = Signal(f[k - 1], evts[k])
        BY <2>0, <2>2, <3>2
      <4>2. g[k] = f[k] /\ g[k - 1] = f[k - 1]
        BY <2>2, <3>2
      <4> QED BY <3>2, <4>1, <4>2
    <3>3. CASE k = n + 1
      <4>1. g[k] = Signal(f[n], evts[n + 1]) /\ g[k - 1] = f[n]
        BY <2>2, <3>3
      <4> QED BY <2>2, <3>3, <4>1
    <3> QED BY <2>2, <3>1, <3>2, <3>3
  <2>4. IsLoop(g, evts, n + 1)
    BY <2>3 DEF IsLoop
  <2> QED BY <2>2, <2>4
<1>3. T \in SUBSET Nat
  OBVIOUS
<1>4. N \in T
  <2> HIDE DEF T
  <2> QED BY <1>1, <1>2, <1>3, SetInduction
<1> QED BY <1>4

(* Risks is what the loop has after the last event.                        *)
LEMMA RisksLoop ==
  ASSUME NEW evts, Len(evts) \in Nat
  PROVE  \E f : IsLoop(f, evts, Len(evts)) /\ Risks(evts) = f[Len(evts)]
<1>1. PICK g : g = CHOOSE f : IsLoop(f, evts, Len(evts))
  OBVIOUS
<1>2. IsLoop(g, evts, Len(evts))
  BY <1>1, LoopExists
<1>3. Risks(evts) = g[Len(evts)]
  BY <1>1 DEF Risks, IsLoop, Signal
<1> QED BY <1>2, <1>3

(* Its first and its next turn.                                            *)
LEMMA LoopTurns ==
  ASSUME NEW f, NEW evts, NEW n \in Nat, IsLoop(f, evts, n)
  PROVE  f[0] = <<>> /\ \A k \in 1..n : f[k] = Signal(f[k - 1], evts[k])
<1>1. f = [k \in 0..n |-> IF k = 0 THEN <<>> ELSE Signal(f[k - 1], evts[k])]
  BY DEF IsLoop
<1> QED BY <1>1

(* The signals are events of the stream.                                   *)
LEMMA RisksType ==
  ASSUME NEW S, NEW evts \in Seq(S)
  PROVE  Risks(evts) \in Seq(S)
<1>1. PICK n \in Nat : n = Len(evts)
  OBVIOUS
<1>2. PICK f : IsLoop(f, evts, n) /\ Risks(evts) = f[n]
  BY <1>1, RisksLoop
<1> DEFINE T == {k \in Nat : k <= n => f[k] \in Seq(S)}
<1>3. 0 \in T
  <2>1. f[0] = <<>>
    BY <1>2, LoopTurns
  <2>2. <<>> \in Seq(S)
    OBVIOUS
  <2> QED BY <2>1, <2>2
<1>4. ASSUME NEW k \in T PROVE k + 1 \in T
  <2>1. SUFFICES ASSUME k + 1 <= n PROVE f[k + 1] \in Seq(S)
    BY <1>4
  <2>2. k + 1 \in 1..n /\ (k + 1) - 1 = k /\ f[k] \in Seq(S)
    BY <1>4, <2>1
  <2>3. f[k + 1] = Signal(f[(k + 1) - 1], evts[k + 1])
    BY <1>2, <2>2, LoopTurns
  <2>4. evts[k + 1] \in S
    BY <1>1, <2>2
  <2> QED BY <2>2, <2>3, <2>4 DEF Signal
<1>5. T \in SUBSET Nat
  OBVIOUS
<1>6. n \in T
  <2> HIDE DEF T
  <2> QED BY <1>3, <1>4, <1>5, SetInduction
<1> QED BY <1>2, <1>6

(* One event more in front of the same end.                                *)
LEMMA InsertedGrows ==
  ASSUME NEW S, NEW new \in Seq(S), NEW old \in Seq(S), NEW q, NEW x, NEW y \in S,
         IsInserted(new, old, q, x)
  PROVE  IsInserted(Append(new, y), Append(old, y), q, x)
<1>1. PICK n \in Nat : /\ n = Len(old) /\ q \in 0..n /\ Len(new) = n + 1 /\ new[q + 1] = x
                       /\ \A i \in 1..q : new[i] = old[i]
                       /\ \A i \in (q + 1)..n : new[i + 1] = old[i]
  BY DEF IsInserted
<1>2. PICK a : a = Append(old, y)
  OBVIOUS
<1>3. PICK b : b = Append(new, y)
  OBVIOUS
<1>4. Len(a) = n + 1 /\ DOMAIN a = 1..(n + 1) /\ a[n + 1] = y /\ \A i \in 1..n : a[i] = old[i]
  BY <1>1, <1>2
<1>5. /\ Len(b) = (n + 1) + 1 /\ DOMAIN b = 1..((n + 1) + 1) /\ b[(n + 1) + 1] = y
      /\ \A i \in 1..(n + 1) : b[i] = new[i]
  BY <1>1, <1>3
<1>6. b[q + 1] = x /\ \A i \in 1..q : b[i] = a[i]
  BY <1>1, <1>4, <1>5
<1>7. ASSUME NEW i \in (q + 1)..(n + 1) PROVE b[i + 1] = a[i]
  <2>1. CASE i = n + 1
    BY <1>4, <1>5, <2>1
  <2>2. CASE i # n + 1
    <3>1. i \in (q + 1)..n /\ i \in 1..n /\ i + 1 \in 1..(n + 1)
      BY <1>1, <2>2
    <3> QED BY <1>1, <1>4, <1>5, <3>1
  <2> QED BY <2>1, <2>2
<1>8. q \in 0..(n + 1) /\ n + 1 \in Nat
  BY <1>1
<1> QED BY <1>2, <1>3, <1>4, <1>5, <1>6, <1>7, <1>8 DEF IsInserted

(* The loop over a stream with a signal more collects that signal more.    *)
LEMMA RisksInsert ==
  ASSUME NEW S, NEW evts \in Seq(S), NEW new \in Seq(S), NEW p, NEW x \in S, x.type = "RiskSignal",
         IsInserted(new, evts, p, x)
  PROVE  \E q : IsInserted(Risks(new), Risks(evts), q, x)
<1>2. PICK n \in Nat : /\ n = Len(evts) /\ p \in 0..n /\ Len(new) = n + 1 /\ new[p + 1] = x
                       /\ \A i \in 1..p : new[i] = evts[i]
                       /\ \A i \in (p + 1)..n : new[i + 1] = evts[i]
  BY DEF IsInserted
<1>3. PICK f : IsLoop(f, evts, n) /\ Risks(evts) = f[n]
  BY <1>2, RisksLoop
<1>4. PICK g : IsLoop(g, new, n + 1) /\ Risks(new) = g[n + 1]
  <2>1. Len(new) \in Nat
    BY <1>2
  <2>2. \E g : IsLoop(g, new, Len(new)) /\ Risks(new) = g[Len(new)]
    BY <2>1, RisksLoop
  <2> QED BY <1>2, <2>2
<1>5. /\ f[0] = <<>> /\ g[0] = <<>>
      /\ \A k \in 1..n : f[k] = Signal(f[k - 1], evts[k])
      /\ \A k \in 1..(n + 1) : g[k] = Signal(g[k - 1], new[k])
  BY <1>3, <1>4, LoopTurns
<1>6. \A k \in 1..n : evts[k] \in S
  BY <1>2
<1> DEFINE q == Len(f[p])
           T == {k \in Nat : k <= n =>
                  /\ f[k] \in Seq(S)
                  /\ k <= p => g[k] = f[k]
                  /\ k >= p => g[k + 1] \in Seq(S) /\ IsInserted(g[k + 1], f[k], q, x)}
\* The turn that meets the signal.
<1>7. ASSUME f[p] \in Seq(S), g[p] = f[p]
      PROVE  g[p + 1] \in Seq(S) /\ IsInserted(g[p + 1], f[p], q, x)
  <2>1. p + 1 \in 1..(n + 1) /\ (p + 1) - 1 = p
    BY <1>2
  <2>2. g[p + 1] = Signal(g[(p + 1) - 1], new[p + 1])
    BY <1>5, <2>1
  <2>3. g[p + 1] = Append(f[p], x)
    BY <1>2, <1>7, <2>1, <2>2 DEF Signal
  <2>4. PICK s \in Seq(S) : s = f[p]
    BY <1>7
  <2>5. Append(s, x) \in Seq(S) /\ IsInserted(Append(s, x), s, Len(s), x)
    BY DEF IsInserted
  <2> QED BY <2>3, <2>4, <2>5
<1>8. 0 \in T
  <2>1. f[0] \in Seq(S) /\ g[0] = f[0]
    BY <1>5
  <2>2. 0 >= p => g[0 + 1] \in Seq(S) /\ IsInserted(g[0 + 1], f[0], q, x)
    <3>1. SUFFICES ASSUME 0 >= p PROVE g[0 + 1] \in Seq(S) /\ IsInserted(g[0 + 1], f[0], q, x)
      OBVIOUS
    <3>2. p = 0
      BY <1>2, <3>1
    <3> QED BY <1>7, <2>1, <3>2
  <2> QED BY <2>1, <2>2
<1>9. ASSUME NEW k \in T PROVE k + 1 \in T
  <2>1. SUFFICES ASSUME k + 1 <= n
                 PROVE  /\ f[k + 1] \in Seq(S)
                        /\ k + 1 <= p => g[k + 1] = f[k + 1]
                        /\ k + 1 >= p => /\ g[(k + 1) + 1] \in Seq(S)
                                         /\ IsInserted(g[(k + 1) + 1], f[k + 1], q, x)
    BY <1>9
  <2>2. /\ k \in Nat /\ k + 1 \in 1..n /\ k + 1 \in 1..(n + 1) /\ (k + 1) - 1 = k
        /\ (k + 1) + 1 \in 1..(n + 1) /\ ((k + 1) + 1) - 1 = k + 1
    BY <1>2, <1>9, <2>1
  <2>3. /\ f[k] \in Seq(S) /\ (k <= p => g[k] = f[k])
        /\ (k >= p => g[k + 1] \in Seq(S) /\ IsInserted(g[k + 1], f[k], q, x))
    BY <1>9, <2>2
  <2>4. PICK y \in S : y = evts[k + 1]
    BY <1>6, <2>2
  <2>5. f[k + 1] = Signal(f[k], y)
    BY <1>5, <2>2, <2>4
  <2>6. f[k + 1] \in Seq(S)
    BY <2>3, <2>5 DEF Signal
  <2>7. ASSUME k + 1 <= p PROVE g[k + 1] = f[k + 1]
    <3>1. g[k] = f[k] /\ new[k + 1] = y /\ g[k + 1] = Signal(g[k], new[k + 1])
      BY <1>2, <1>5, <2>2, <2>3, <2>4, <2>7
    <3> QED BY <2>5, <3>1
  <2>8. CASE k + 1 = p
    <3>1. g[p] = f[p] /\ f[p] \in Seq(S)
      BY <2>2, <2>6, <2>7, <2>8
    <3> QED BY <1>7, <2>6, <2>7, <2>8, <3>1
  <2>9. CASE k + 1 > p
    <3>1. k >= p /\ k + 1 \in (p + 1)..n
      BY <1>2, <2>2, <2>9
    <3>2. new[(k + 1) + 1] = y
      BY <1>2, <2>4, <3>1
    <3>3. g[(k + 1) + 1] = Signal(g[k + 1], y)
      BY <1>5, <2>2, <3>2
    <3>4. PICK a \in Seq(S), b \in Seq(S) : a = f[k] /\ b = g[k + 1] /\ IsInserted(b, a, q, x)
      BY <2>3, <3>1
    <3>5. IsInserted(Append(b, y), Append(a, y), q, x) /\ Append(b, y) \in Seq(S)
      <4> HIDE DEF q
      <4>1. IsInserted(Append(b, y), Append(a, y), q, x)
        BY <3>4, InsertedGrows
      <4> QED BY <4>1
    <3>6. Signal(b, y) \in Seq(S) /\ IsInserted(Signal(b, y), Signal(a, y), q, x)
      BY <3>4, <3>5 DEF Signal
    <3>7. ~(k + 1 <= p)
      BY <1>2, <2>2, <2>9
    <3> QED BY <2>5, <2>6, <3>3, <3>4, <3>6, <3>7
  <2>10. CASE k + 1 < p
    <3>1. ~(k + 1 >= p)
      BY <1>2, <2>2, <2>10
    <3> QED BY <2>6, <2>7, <3>1
  <2> QED BY <1>2, <2>2, <2>8, <2>9, <2>10
<1>10. T \in SUBSET Nat
  OBVIOUS
<1>11. n \in T
  <2> HIDE DEF T
  <2> QED BY <1>8, <1>9, <1>10, SetInduction
<1>12. IsInserted(g[n + 1], f[n], q, x)
  BY <1>2, <1>11
<1> HIDE DEF q
<1> QED BY <1>3, <1>4, <1>12

\* What one signal takes from the score.
Takes(r) == r.severity * RiskWeight(r.category)

\* f is the running sum of the penalty over the first n signals.
IsSum(f, risks, n) ==
  f = [k \in 0..n |-> IF k = 0 THEN 0 ELSE f[k - 1] + Takes(risks[k])]

(* The sum is well defined.                                                *)
LEMMA SumExists ==
  ASSUME NEW risks, NEW N \in Nat
  PROVE  \E f : IsSum(f, risks, N)
<1> DEFINE T == {n \in Nat : \E f : IsSum(f, risks, n)}
<1>1. 0 \in T
  <2> DEFINE f == [k \in 0..0 |-> 0]
  <2>1. IsSum(f, risks, 0)
    BY DEF IsSum
  <2> QED BY <2>1
<1>2. ASSUME NEW n \in T PROVE n + 1 \in T
  <2>1. PICK f : IsSum(f, risks, n)
    BY <1>2
  <2>2. n \in Nat
    BY <1>2
  <2>0. f = [k \in 0..n |-> IF k = 0 THEN 0 ELSE f[k - 1] + Takes(risks[k])]
    BY <2>1 DEF IsSum
  <2> DEFINE g == [k \in 0..(n + 1) |-> IF k <= n THEN f[k] ELSE f[n] + Takes(risks[n + 1])]
  <2>3. ASSUME NEW k \in 0..(n + 1)
        PROVE  g[k] = IF k = 0 THEN 0 ELSE g[k - 1] + Takes(risks[k])
    <3>1. CASE k = 0
      BY <2>0, <2>2, <3>1
    <3>2. CASE k > 0 /\ k <= n
      <4>1. f[k] = f[k - 1] + Takes(risks[k])
        BY <2>0, <2>2, <3>2
      <4>2. g[k] = f[k] /\ g[k - 1] = f[k - 1]
        BY <2>2, <3>2
      <4> QED BY <3>2, <4>1, <4>2
    <3>3. CASE k = n + 1
      <4>1. g[k] = f[n] + Takes(risks[n + 1]) /\ g[k - 1] = f[n]
        BY <2>2, <3>3
      <4> QED BY <2>2, <3>3, <4>1
    <3> QED BY <2>2, <3>1, <3>2, <3>3
  <2>4. IsSum(g, risks, n + 1)
    BY <2>3 DEF IsSum
  <2> QED BY <2>2, <2>4
<1>3. T \in SUBSET Nat
  OBVIOUS
<1>4. N \in T
  <2> HIDE DEF T
  <2> QED BY <1>1, <1>2, <1>3, SetInduction
<1> QED BY <1>4

(* RiskPenalty is the sum over all signals.                                *)
LEMMA PenaltySum ==
  ASSUME NEW risks, Len(risks) \in Nat
  PROVE  \E f : /\ f[0] = 0 /\ \A k \in 1..Len(risks) : f[k] = f[k - 1] + Takes(risks[k])
                /\ RiskPenalty(risks) = f[Len(risks)]
<1>1. PICK g : g = CHOOSE f : IsSum(f, risks, Len(risks))
  OBVIOUS
<1>2. IsSum(g, risks, Len(risks))
  BY <1>1, SumExists
<1>3. RiskPenalty(risks) = g[Len(risks)]
  BY <1>1 DEF RiskPenalty, IsSum, Takes
<1>4. g = [k \in 0..Len(risks) |-> IF k = 0 THEN 0 ELSE g[k - 1] + Takes(risks[k])]
  BY <1>2 DEF IsSum
<1>5. g[0] = 0 /\ \A k \in 1..Len(risks) : g[k] = g[k - 1] + Takes(risks[k])
  BY <1>4
<1> QED BY <1>3, <1>5

(* Weights are positive.                                                   *)
LEMMA WeightPositive == \A c : RiskWeight(c) \in {5, 10, 15, 30, 50}
  BY DEF RiskWeight

(* One signal more, wherever, adds what it takes.                          *)
LEMMA PenaltyInsert ==
  ASSUME NEW S, NEW risks \in Seq(S), NEW more, NEW q, NEW r \in S,
         IsInserted(more, risks, q, r), \A e \in S : e.severity \in Int
  PROVE  /\ RiskPenalty(risks) \in Int
         /\ RiskPenalty(more) = RiskPenalty(risks) + Takes(r)
<1>2. PICK n \in Nat : /\ n = Len(risks) /\ q \in 0..n /\ Len(more) = n + 1 /\ more[q + 1] = r
                       /\ \A i \in 1..q : more[i] = risks[i]
                       /\ \A i \in (q + 1)..n : more[i + 1] = risks[i]
  BY DEF IsInserted
<1>3. PICK f : /\ f[0] = 0 /\ \A k \in 1..n : f[k] = f[k - 1] + Takes(risks[k])
               /\ RiskPenalty(risks) = f[n]
  BY <1>2, PenaltySum
<1>4. PICK g : /\ g[0] = 0 /\ \A k \in 1..(n + 1) : g[k] = g[k - 1] + Takes(more[k])
               /\ RiskPenalty(more) = g[n + 1]
  <2>1. Len(more) \in Nat
    BY <1>2
  <2>2. \E g : /\ g[0] = 0 /\ \A k \in 1..Len(more) : g[k] = g[k - 1] + Takes(more[k])
               /\ RiskPenalty(more) = g[Len(more)]
    BY <2>1, PenaltySum
  <2> QED BY <1>2, <2>2
<1>5. \A e \in S : Takes(e) \in Int
  BY WeightPositive DEF Takes
<1>6. PICK t \in Int : t = Takes(r)
  BY <1>5
<1>7. g[q + 1] = g[q] + t
  <2>1. q + 1 \in 1..(n + 1) /\ (q + 1) - 1 = q
    BY <1>2
  <2>2. g[q + 1] = g[(q + 1) - 1] + Takes(more[q + 1])
    BY <1>4, <2>1
  <2> QED BY <1>2, <1>6, <2>1, <2>2
<1> DEFINE T == {k \in Nat : k <= n => /\ f[k] \in Int /\ (k <= q => g[k] = f[k])
                                       /\ (k >= q => g[k + 1] = f[k] + t)}
<1>8. 0 \in T
  BY <1>2, <1>3, <1>4, <1>7
<1>9. ASSUME NEW k \in T PROVE k + 1 \in T
  <2>1. SUFFICES ASSUME k + 1 <= n
                 PROVE  /\ f[k + 1] \in Int /\ (k + 1 <= q => g[k + 1] = f[k + 1])
                        /\ (k + 1 >= q => g[(k + 1) + 1] = f[k + 1] + t)
    BY <1>9
  <2>2. /\ k \in Nat /\ k + 1 \in 1..n /\ k + 1 \in 1..(n + 1) /\ (k + 1) - 1 = k
        /\ (k + 1) + 1 \in 1..(n + 1) /\ ((k + 1) + 1) - 1 = k + 1
    BY <1>2, <1>9, <2>1
  <2>3. f[k] \in Int /\ (k <= q => g[k] = f[k]) /\ (k >= q => g[k + 1] = f[k] + t)
    BY <1>9, <2>2
  <2>4. PICK u \in Int : u = Takes(risks[k + 1])
    <3>1. risks[k + 1] \in S
      BY <1>2, <2>2
    <3> QED BY <1>5, <3>1
  <2>5. f[k + 1] = f[k] + u /\ f[k + 1] \in Int
    <3>1. f[k + 1] = f[(k + 1) - 1] + Takes(risks[k + 1])
      BY <1>3, <2>2
    <3> QED BY <2>2, <2>3, <2>4, <3>1
  <2>6. ASSUME k + 1 <= q PROVE g[k + 1] = f[k + 1]
    <3>1. more[k + 1] = risks[k + 1] /\ g[k] = f[k]
      BY <1>2, <2>2, <2>3, <2>6
    <3>2. g[k + 1] = g[(k + 1) - 1] + Takes(more[k + 1])
      BY <1>4, <2>2
    <3> QED BY <2>2, <2>4, <2>5, <3>1, <3>2
  <2>7. CASE k + 1 = q
    <3>1. g[q] = f[q]
      BY <2>2, <2>6, <2>7
    <3> QED BY <1>7, <2>5, <2>6, <2>7, <3>1
  <2>8. CASE k + 1 > q
    <3>1. k >= q /\ k + 1 \in (q + 1)..n /\ ~(k + 1 <= q)
      BY <1>2, <2>2, <2>8
    <3>2. more[(k + 1) + 1] = risks[k + 1]
      BY <1>2, <3>1
    <3>3. g[(k + 1) + 1] = g[((k + 1) + 1) - 1] + Takes(more[(k + 1) + 1])
      BY <1>4, <2>2
    <3>4. g[(k + 1) + 1] = (f[k] + t) + u
      BY <2>2, <2>3, <2>4, <3>1, <3>2, <3>3
    <3> QED BY <2>3, <2>5, <3>1, <3>4
  <2>9. CASE k + 1 < q
    <3>1. ~(k + 1 >= q)
      BY <1>2, <2>2, <2>9
    <3> QED BY <2>5, <2>6, <3>1
  <2> QED BY <1>2, <2>2, <2>7, <2>8, <2>9
<1>10. T \in SUBSET Nat
  OBVIOUS
<1>11. n \in T
  <2> HIDE DEF T
  <2> QED BY <1>8, <1>9, <1>10, SetInduction
<1>12. f[n] \in Int /\ g[n + 1] = f[n] + t
  BY <1>2, <1>11
<1> QED BY <1>3, <1>4, <1>6, <1>12

(* The least position moves with the others.                               *)
LEMMA MinShifted ==
  ASSUME NEW p \in Nat, NEW T \in SUBSET Nat, T # {}
  PROVE  Min(Shifted(p, T)) = Shift(p, Min(T))
<1>1. Min(T) \in T /\ \A i \in T : Min(T) <= i
  BY MinIsLeast
<1>2. PICK a \in Nat : a = Min(T) /\ a \in T /\ \A i \in T : a <= i
  BY <1>1
<1>3. Shift(p, a) \in Shifted(p, T) /\ Shifted(p, T) \in SUBSET Nat
  BY <1>2 DEF Shifted, Shift
<1>4. \A j \in Shifted(p, T) : Shift(p, a) <= j
  BY <1>2 DEF Shifted, Shift
<1>5. PICK b : b = Min(Shifted(p, T)) /\ b \in Shifted(p, T) /\ \A j \in Shifted(p, T) : b <= j
  BY <1>3, MinIsLeast
<1>6. b \in Nat /\ Shift(p, a) \in Nat /\ Shift(p, a) <= b /\ b <= Shift(p, a)
  BY <1>3, <1>4, <1>5
<1> QED BY <1>2, <1>5, <1>6

(* And so does the greatest.                                               *)
LEMMA MaxShifted ==
  ASSUME NEW p \in Nat, NEW T \in SUBSET Nat, NEW a \in T, \A i \in T : a >= i
  PROVE  Max(T) = a /\ Max(Shifted(p, T)) = Shift(p, a)
<1>1. Max(T) \in T /\ \A i \in T : Max(T) >= i
  BY DEF Max
<1>2. Max(T) = a
  <2>1. Max(T) \in Nat /\ a \in Nat /\ Max(T) >= a /\ a >= Max(T)
    BY <1>1
  <2> QED BY <2>1
<1>3. Shift(p, a) \in Shifted(p, T) /\ Shifted(p, T) \in SUBSET Nat
  BY DEF Shifted, Shift
<1>4. \A j \in Shifted(p, T) : Shift(p, a) >= j
  <2>1. \A i \in T : i \in Nat /\ a \in Nat /\ a >= i
    OBVIOUS
  <2> QED BY <2>1 DEF Shifted, Shift
<1>5. PICK b : b = Max(Shifted(p, T)) /\ b \in Shifted(p, T) /\ \A j \in Shifted(p, T) : b >= j
  BY <1>3, <1>4 DEF Max
<1>6. b \in Nat /\ Shift(p, a) \in Nat /\ Shift(p, a) <= b /\ b <= Shift(p, a)
  BY <1>3, <1>4, <1>5
<1> QED BY <1>2, <1>5, <1>6

(* A nonempty set of positions has a greatest one.                         *)
LEMMA GreatestNat ==
  ASSUME NEW n \in Nat, NEW T \in SUBSET (1..n), T # {}
  PROVE  \E a \in T : \A b \in T : a >= b
<1> DEFINE U == {n - c : c \in T}
<1>0. \A c \in T : n - c \in Nat
  OBVIOUS
<1>1. U \in SUBSET Nat /\ U # {}
  BY <1>0
<1>2. PICK t \in U : \A u \in U : t <= u
  BY <1>1, LeastNat
<1>3. PICK a \in T : t = n - a
  BY <1>2
<1>4. ASSUME NEW b \in T PROVE a >= b
  <2>1. n - a <= n - b
    BY <1>2, <1>3
  <2> QED BY <2>1
<1> QED BY <1>4

(* The commits and rejections of a metric move with a signal in front.     *)
LEMMA OfMetricShifted ==
  ASSUME NEW new, NEW old, NEW p, NEW x, IsInserted(new, old, p, x), x.type = "RiskSignal",
         NEW a \in 0..Len(old), NEW b \in 0..Len(new),
         \A i \in DOMAIN old : i <= a <=> Shift(p, i) <= b,
         NEW t \in {"MetricCommitted", "MetricRejected"}, NEW m
  PROVE  OfMetric(new, b, t, m) = Shifted(p, OfMetric(old, a, t, m))
<1>1. PICK n \in Nat : /\ n = Len(old) /\ Len(new) = n + 1 /\ new[p + 1] = x
                       /\ DOMAIN old = 1..n /\ DOMAIN new = 1..(n + 1)
  BY DEF IsInserted
<1>2. \A i \in 1..n : Shift(p, i) \in 1..(n + 1) /\ new[Shift(p, i)] = old[i]
  <2>1. \A i \in DOMAIN old : Shift(p, i) \in DOMAIN new /\ new[Shift(p, i)] = old[i]
    BY ShiftFacts
  <2> QED BY <1>1, <2>1
<1>3. \A j \in 1..(n + 1) : j # p + 1 => \E i \in 1..n : j = Shift(p, i)
  <2>1. \A j \in DOMAIN new : j # p + 1 => \E i \in DOMAIN old : j = Shift(p, i)
    BY ShiftFacts
  <2> QED BY <1>1, <2>1
<1>4. ASSUME NEW j \in OfMetric(new, b, t, m) PROVE j \in Shifted(p, OfMetric(old, a, t, m))
  <2>1. j \in 1..b /\ new[j].type = t /\ new[j].metric = m
    BY <1>4 DEF OfMetric
  <2>2. j \in 1..(n + 1) /\ j # p + 1
    <3>1. j \in 1..(n + 1)
      BY <1>1, <2>1
    <3>2. x.type # t
      OBVIOUS
    <3> QED BY <1>1, <2>1, <3>1, <3>2
  <2>3. PICK i \in 1..n : j = Shift(p, i)
    BY <1>3, <2>2
  <2>4. i <= a
    BY <1>1, <2>1, <2>3
  <2>5. i \in 1..a
    BY <1>1, <2>3, <2>4
  <2>6. old[i] = new[j]
    BY <1>2, <2>3
  <2>7. i \in OfMetric(old, a, t, m)
    BY <2>1, <2>5, <2>6 DEF OfMetric
  <2> QED BY <2>3, <2>7 DEF Shifted
<1>5. ASSUME NEW i \in OfMetric(old, a, t, m) PROVE Shift(p, i) \in OfMetric(new, b, t, m)
  <2>1. i \in 1..a /\ old[i].type = t /\ old[i].metric = m
    BY <1>5 DEF OfMetric
  <2>2. i \in 1..n /\ i <= a
    BY <1>1, <2>1
  <2>3. Shift(p, i) \in 1..b
    BY <1>1, <1>2, <2>2
  <2>4. new[Shift(p, i)] = old[i]
    BY <1>2, <2>2
  <2> QED BY <2>1, <2>3, <2>4 DEF OfMetric
<1> QED BY <1>4, <1>5 DEF Shifted

(* And so do the supersessions.                                            *)
LEMMA SupersessionsShifted ==
  ASSUME NEW new, NEW old, NEW p, NEW x, IsInserted(new, old, p, x), x.type = "RiskSignal"
  PROVE  Supersessions(new) = Shifted(p, Supersessions(old))
<1>1. PICK n \in Nat : /\ n = Len(old) /\ Len(new) = n + 1 /\ new[p + 1] = x /\ p \in 0..n
                       /\ DOMAIN old = 1..n /\ DOMAIN new = 1..(n + 1)
  BY DEF IsInserted
<1>2. \A i \in DOMAIN old : new[Shift(p, i)] = old[i]
  BY ShiftFacts
<1>3. \A j \in DOMAIN new : j # p + 1 => \E i \in DOMAIN old : j = Shift(p, i)
  BY ShiftFacts
<1>4. ASSUME NEW j \in Supersessions(new) PROVE j \in Shifted(p, Supersessions(old))
  <2>1. j \in DOMAIN new /\ new[j].type = "MetricSuperseded" /\ Known(new, j, new[j].metric) # {}
    BY <1>4 DEF Supersessions
  <2>2. j # p + 1
    BY <1>1, <2>1
  <2>3. PICK i \in DOMAIN old : j = Shift(p, i)
    BY <1>3, <2>1, <2>2
  <2>4. old[i] = new[j]
    BY <1>2, <2>3
  <2>5. i \in 0..Len(old) /\ j \in 0..Len(new) /\ i \in Nat
    BY <1>1, <2>1, <2>3
  <2>6. \A k \in DOMAIN old : k <= i <=> Shift(p, k) <= j
    <3>1. \A k \in Nat, l \in Nat : k <= l <=> Shift(p, k) <= Shift(p, l)
      BY ShiftFacts
    <3> QED BY <1>1, <2>3, <2>5, <3>1
  <2>7. PICK m : m = new[j].metric
    OBVIOUS
  <2>8. ASSUME NEW t \in {"MetricCommitted", "MetricRejected"}
        PROVE  OfMetric(new, j, t, m) = Shifted(p, OfMetric(old, i, t, m))
    BY <2>5, <2>6, OfMetricShifted
  <2>9. Known(old, i, m) # {}
    <3>1. \/ OfMetric(new, j, "MetricCommitted", m) # {}
          \/ OfMetric(new, j, "MetricRejected", m) # {}
      BY <2>1, <2>7 DEF Known
    <3>2. \A T : Shifted(p, T) # {} => T # {}
      BY DEF Shifted
    <3>3. \/ OfMetric(old, i, "MetricCommitted", m) # {}
          \/ OfMetric(old, i, "MetricRejected", m) # {}
      BY <2>8, <3>1, <3>2
    <3> QED BY <3>3 DEF Known
  <2>10. i \in Supersessions(old)
    BY <2>1, <2>3, <2>4, <2>7, <2>9 DEF Supersessions
  <2> QED BY <2>3, <2>10 DEF Shifted
<1>5. \A i \in Supersessions(old) : Shift(p, i) \in Supersessions(new)
  BY SupersessionsStay
<1> QED BY <1>4, <1>5 DEF Shifted

(* A signal changes no record of a metric.                                 *)
LEMMA SignalKeepsMetrics ==
  ASSUME NEW S, NEW evts \in Seq(S), NEW new \in Seq(S), NEW p, NEW x, x.type = "RiskSignal",
         IsInserted(new, evts, p, x)
  PROVE  Metrics(new) = Metrics(evts)
<1>1. PICK n \in Nat : /\ n = Len(evts) /\ Len(new) = n + 1 /\ p \in 0..n /\ new[p + 1] = x
                       /\ DOMAIN evts = 1..n /\ DOMAIN new = 1..(n + 1)
  BY DEF IsInserted
<1>2. \A i \in DOMAIN evts : Shift(p, i) \in DOMAIN new /\ new[Shift(p, i)] = evts[i]
  BY ShiftFacts
<1>3. Supersessions(new) = Shifted(p, Supersessions(evts))
  BY SupersessionsShifted
<1>4. Supersessions(evts) \in SUBSET Nat /\ Supersessions(evts) \subseteq 1..n
  BY <1>1, ReadUpTo
<1>5. \A k \in Nat, l \in Nat : k <= l <=> Shift(p, k) <= Shift(p, l)
  BY ShiftFacts
<1>6. PICK a \in 0..n, b \in 0..(n + 1) :
        a = EventsRead(evts) /\ b = EventsRead(new) /\ \A i \in 1..n : i <= a <=> Shift(p, i) <= b
  <2>1. EventsRead(evts) \in 0..n /\ EventsRead(new) \in 0..(n + 1)
    BY <1>1, ReadUpTo
  <2>2. CASE Supersessions(evts) = {}
    <3>1. Supersessions(new) = {}
      BY <1>3, <2>2 DEF Shifted
    <3>2. EventsRead(evts) = n /\ EventsRead(new) = n + 1
      BY <1>1, <2>2, <3>1, ReadUpTo
    <3>3. \A i \in 1..n : i <= n /\ Shift(p, i) <= n + 1
      BY <1>1 DEF Shift
    <3> QED BY <2>1, <3>2, <3>3
  <2>3. CASE Supersessions(evts) # {}
    <3>1. Supersessions(new) # {}
      BY <1>3, <2>3 DEF Shifted
    <3>2. EventsRead(evts) = Min(Supersessions(evts)) /\ EventsRead(new) = Min(Supersessions(new))
      BY <2>3, <3>1 DEF EventsRead
    <3>3. p \in Nat
      BY <1>1
    <3>4. EventsRead(new) = Shift(p, EventsRead(evts))
      BY <1>3, <1>4, <2>3, <3>2, <3>3, MinShifted
    <3>5. PICK c \in 0..n : c = EventsRead(evts)
      BY <2>1
    <3>6. \A i \in 1..n : i <= c <=> Shift(p, i) <= Shift(p, c)
      BY <1>5
    <3> QED BY <2>1, <3>4, <3>5, <3>6
  <2> QED BY <2>2, <2>3
<1>7. ASSUME NEW m, NEW t \in {"MetricCommitted", "MetricRejected"}
      PROVE  OfMetric(new, b, t, m) = Shifted(p, OfMetric(evts, a, t, m))
  <2>1. a \in 0..Len(evts) /\ b \in 0..Len(new) /\ \A i \in DOMAIN evts : i <= a <=> Shift(p, i) <= b
    BY <1>1, <1>6
  <2> QED BY <2>1, OfMetricShifted
<1>8. \A m : Known(new, b, m) = Shifted(p, Known(evts, a, m))
  <2>1. ASSUME NEW m PROVE Known(new, b, m) = Shifted(p, Known(evts, a, m))
    <3>1. /\ OfMetric(new, b, "MetricCommitted", m) = Shifted(p, OfMetric(evts, a, "MetricCommitted", m))
          /\ OfMetric(new, b, "MetricRejected", m) = Shifted(p, OfMetric(evts, a, "MetricRejected", m))
      BY <1>7
    <3> QED BY <3>1 DEF Known, Shifted
  <2> QED BY <2>1
<1>9. \A evs, k : Names(evs, k) = {m \in Names(evs, k) : Known(evs, k, m) # {}}
  BY DEF Names, Known, OfMetric
<1>10. \A evs, k, m : Known(evs, k, m) # {} => m \in Names(evs, k)
  BY DEF Names, Known, OfMetric
<1>11. Names(new, b) = Names(evts, a)
  <2>1. \A m : Known(new, b, m) # {} <=> Known(evts, a, m) # {}
    <3>1. \A T : Shifted(p, T) # {} <=> T # {}
      BY DEF Shifted
    <3>2. ASSUME NEW m PROVE Known(new, b, m) # {} <=> Known(evts, a, m) # {}
      <4>1. Known(new, b, m) = Shifted(p, Known(evts, a, m))
        BY <1>8
      <4> QED BY <3>1, <4>1
    <3> QED BY <3>2
  <2> QED BY <1>9, <1>10, <2>1
<1>12. ASSUME NEW m \in Names(evts, a)
       PROVE  new[Recorded(new, b, m)] = evts[Recorded(evts, a, m)]
  <2>1. PICK C : C = OfMetric(evts, a, "MetricCommitted", m)
    OBVIOUS
  <2>2. C \in SUBSET (1..a) /\ C \in SUBSET Nat /\ Known(evts, a, m) \in SUBSET Nat
    BY <2>1 DEF OfMetric, Known
  <2>3. OfMetric(new, b, "MetricCommitted", m) = Shifted(p, C)
    BY <1>7, <2>1
  <2>4. p \in Nat /\ a \in Nat
    BY <1>1
  <2>5. Recorded(new, b, m) = Shift(p, Recorded(evts, a, m))
    <3>1. CASE C # {}
      <4>1. PICK k \in C : \A i \in C : k >= i
        BY <2>2, <2>4, <3>1, GreatestNat
      <4>2. Max(C) = k /\ Max(Shifted(p, C)) = Shift(p, k)
        BY <2>2, <2>4, <4>1, MaxShifted
      <4>3. Shifted(p, C) # {}
        BY <3>1 DEF Shifted
      <4> QED BY <2>1, <2>3, <3>1, <4>2, <4>3 DEF Recorded
    <3>2. CASE C = {}
      <4>1. Shifted(p, C) = {}
        BY <3>2 DEF Shifted
      <4>2. Known(evts, a, m) # {}
        BY <1>9
      <4>3. Min(Shifted(p, Known(evts, a, m))) = Shift(p, Min(Known(evts, a, m)))
        BY <2>2, <2>4, <4>2, MinShifted
      <4>4. Recorded(evts, a, m) = Min(Known(evts, a, m)) /\ Recorded(new, b, m) = Min(Known(new, b, m))
        BY <2>1, <2>3, <3>2, <4>1 DEF Recorded
      <4> QED BY <1>8, <4>3, <4>4
    <3> QED BY <3>1, <3>2
  <2>6. Recorded(evts, a, m) \in 1..a
    BY <2>4, RecordedIsOfMetric
  <2>7. Recorded(evts, a, m) \in DOMAIN evts
    BY <1>1, <2>6
  <2> QED BY <1>2, <2>5, <2>7
<1> DEFINE rec(e, m, sup) ==
      [value |-> e.value, leaf |-> e.leaf, evidence |-> e.evidence,
       status |-> IF m \in sup THEN "SUPERSEDED"
                  ELSE IF e.type = "MetricCommitted" THEN "COMMITTED" ELSE "REJECTED"]
    supNew == {new[i].metric : i \in Supersessions(new) \cap (1..b)}
    supOld == {evts[i].metric : i \in Supersessions(evts) \cap (1..a)}
<1>13. supNew = supOld
  <2>1. ASSUME NEW i \in Supersessions(evts) \cap (1..a) PROVE evts[i].metric \in supNew
    <3>1. i \in 1..n /\ i <= a /\ Shift(p, i) \in Supersessions(new)
      BY <1>3, <1>4, <2>1 DEF Shifted
    <3>2. Shift(p, i) \in 1..b /\ new[Shift(p, i)] = evts[i]
      BY <1>1, <1>2, <1>6, <3>1
    <3> QED BY <3>1, <3>2
  <2>2. ASSUME NEW j \in Supersessions(new) \cap (1..b) PROVE new[j].metric \in supOld
    <3>1. PICK i \in Supersessions(evts) : j = Shift(p, i)
      BY <1>3, <2>2 DEF Shifted
    <3>2. i \in 1..n /\ Shift(p, i) <= b
      BY <1>4, <2>2, <3>1
    <3>3. i \in 1..a /\ new[j] = evts[i]
      BY <1>1, <1>2, <1>6, <3>1, <3>2
    <3> QED BY <3>1, <3>3
  <2> QED BY <2>1, <2>2
<1>14. Metrics(new) = [m \in Names(new, b) |-> rec(new[Recorded(new, b, m)], m, supNew)]
  BY <1>6 DEF Metrics, Names
<1>15. Metrics(evts) = [m \in Names(evts, a) |-> rec(evts[Recorded(evts, a, m)], m, supOld)]
  BY <1>6 DEF Metrics, Names
<1> HIDE DEF rec, supNew, supOld
<1>16. \A m \in Names(evts, a) :
         rec(new[Recorded(new, b, m)], m, supNew) = rec(evts[Recorded(evts, a, m)], m, supOld)
  BY <1>12, <1>13
<1> QED BY <1>11, <1>14, <1>15, <1>16

-------------------------------------------------------------------------------
(* The base of the score.                                                  *)

\* The member of a set that a fold takes next.
Pick(s) == CHOOSE x \in s : TRUE

\* f folds the values of the metrics of every set in D.
IsFold(f, metrics, D) ==
  f = [s \in D |-> IF s = {} THEN 0
                   ELSE NumericValue(metrics[Pick(s)]) + f[s \ {Pick(s)}]]

\* The subsets of S of at most n members.
UpTo(S, n) == {s \in SUBSET S : Cardinality(s) <= n}

(* A nonempty subset without its next member is a smaller one.             *)
LEMMA PickShrinks ==
  ASSUME NEW S, IsFiniteSet(S), NEW s \in SUBSET S, s # {}
  PROVE  /\ Pick(s) \in s /\ s \ {Pick(s)} \in SUBSET S
         /\ IsFiniteSet(s) /\ Cardinality(s) \in Nat \ {0}
         /\ Cardinality(s \ {Pick(s)}) = Cardinality(s) - 1
<1>1. Pick(s) \in s
  BY DEF Pick
<1>2. IsFiniteSet(s) /\ Cardinality(s) \in Nat
  BY FS_Subset, FS_CardinalityType
<1>3. Cardinality(s \ {Pick(s)}) = Cardinality(s) - 1
  BY <1>1, <1>2, FS_RemoveElement
<1>4. Cardinality(s) # 0
  BY <1>2, FS_EmptySet
<1> QED BY <1>1, <1>2, <1>3, <1>4

(* The fold over the values of a finite set of metrics is well defined.    *)
LEMMA FoldExists ==
  ASSUME NEW metrics, NEW S, IsFiniteSet(S)
  PROVE  \E f : IsFold(f, metrics, SUBSET S)
<1> DEFINE T == {n \in Nat : \E f : IsFold(f, metrics, UpTo(S, n))}
           step(f, s) == NumericValue(metrics[Pick(s)]) + f[s \ {Pick(s)}]
<1>0. ASSUME NEW n \in Nat, NEW s \in UpTo(S, n), s # {}
      PROVE  s \ {Pick(s)} \in UpTo(S, n) /\ s \ {Pick(s)} \in UpTo(S, n - 1)
  <2>1. s \in SUBSET S /\ Cardinality(s) <= n
    BY DEF UpTo
  <2>2. /\ s \ {Pick(s)} \in SUBSET S /\ Cardinality(s) \in Nat
        /\ Cardinality(s \ {Pick(s)}) = Cardinality(s) - 1
    BY <1>0, <2>1, PickShrinks
  <2>3. Cardinality(s \ {Pick(s)}) <= n /\ Cardinality(s \ {Pick(s)}) <= n - 1
    BY <2>1, <2>2
  <2> QED BY <2>2, <2>3 DEF UpTo
<1>1. 0 \in T
  <2> DEFINE f == [s \in UpTo(S, 0) |-> 0]
  <2>1. ASSUME NEW s \in UpTo(S, 0) PROVE s = {}
    <3>1. SUFFICES ASSUME s # {} PROVE FALSE
      OBVIOUS
    <3>2. s \in SUBSET S /\ Cardinality(s) <= 0
      BY DEF UpTo
    <3>3. Cardinality(s) \in Nat \ {0}
      BY <3>1, <3>2, PickShrinks
    <3> QED BY <3>2, <3>3
  <2>2. f = [s \in UpTo(S, 0) |-> IF s = {} THEN 0 ELSE step(f, s)]
    BY <2>1
  <2>3. IsFold(f, metrics, UpTo(S, 0))
    BY <2>2 DEF IsFold
  <2> QED BY <2>3
<1>2. ASSUME NEW n \in T PROVE n + 1 \in T
  <2>1. PICK f : IsFold(f, metrics, UpTo(S, n))
    BY <1>2
  <2>2. n \in Nat /\ n + 1 \in Nat /\ (n + 1) - 1 = n
    BY <1>2
  <2> DEFINE g == [s \in UpTo(S, n + 1) |-> IF s = {} THEN 0 ELSE step(f, s)]
  <2>3. f = [s \in UpTo(S, n) |-> IF s = {} THEN 0 ELSE step(f, s)]
    BY <2>1 DEF IsFold
  <2>4. ASSUME NEW s \in UpTo(S, n) PROVE s \in UpTo(S, n + 1) /\ f[s] = g[s]
    <3>1. s \in SUBSET S /\ Cardinality(s) <= n
      BY DEF UpTo
    <3>2. Cardinality(s) \in Nat
      BY <3>1, FS_Subset, FS_CardinalityType
    <3>3. s \in UpTo(S, n + 1)
      BY <2>2, <3>1, <3>2 DEF UpTo
    <3>4. f[s] = IF s = {} THEN 0 ELSE step(f, s)
      BY <2>3
    <3>5. g[s] = IF s = {} THEN 0 ELSE step(f, s)
      BY <3>3
    <3> QED BY <3>3, <3>4, <3>5
  <2>5. ASSUME NEW s \in UpTo(S, n + 1) PROVE g[s] = IF s = {} THEN 0 ELSE step(g, s)
    <3>1. CASE s = {}
      BY <3>1
    <3>2. CASE s # {}
      <4>1. s \ {Pick(s)} \in UpTo(S, n)
        BY <1>0, <2>2, <3>2
      <4>2. f[s \ {Pick(s)}] = g[s \ {Pick(s)}]
        BY <2>4, <4>1
      <4>3. g[s] = step(f, s)
        BY <3>2
      <4> HIDE DEF g
      <4> QED BY <3>2, <4>2, <4>3
    <3> QED BY <3>1, <3>2
  <2>6. g = [s \in UpTo(S, n + 1) |-> IF s = {} THEN 0 ELSE step(g, s)]
    BY <2>5
  <2>7. IsFold(g, metrics, UpTo(S, n + 1))
    BY <2>6 DEF IsFold
  <2> QED BY <2>2, <2>7
<1>3. T \in SUBSET Nat
  OBVIOUS
<1>4. PICK N \in Nat : N = Cardinality(S)
  BY FS_CardinalityType
<1>5. N \in T
  <2> HIDE DEF T
  <2> QED BY <1>1, <1>2, <1>3, SetInduction
<1>6. UpTo(S, N) = SUBSET S
  <2>1. \A s \in SUBSET S : Cardinality(s) <= Cardinality(S)
    BY FS_Subset
  <2> QED BY <1>4, <2>1 DEF UpTo
<1> QED BY <1>5, <1>6

\* What BaseScore divides.
Total(metrics, S) == MapThenSumSet(LAMBDA m : NumericValue(metrics[m]), S)

(* The sum of the values of a finite set of metrics is an integer.         *)
LEMMA SumIsInt ==
  ASSUME NEW metrics, NEW S, IsFiniteSet(S), \A m \in S : NumericValue(metrics[m]) \in Int
  PROVE  Total(metrics, S) \in Int
<1>1. PICK g : g = CHOOSE f : IsFold(f, metrics, SUBSET S)
  OBVIOUS
<1>2. IsFold(g, metrics, SUBSET S)
  BY <1>1, FoldExists
<1>3. Total(metrics, S) = g[S]
  BY <1>1 DEF Total, MapThenSumSet, MapThenFoldSet, IsFold, Pick
<1>4. ASSUME NEW s \in SUBSET S
      PROVE  g[s] = IF s = {} THEN 0 ELSE NumericValue(metrics[Pick(s)]) + g[s \ {Pick(s)}]
  <2>1. g = [u \in SUBSET S |-> IF u = {} THEN 0
                                ELSE NumericValue(metrics[Pick(u)]) + g[u \ {Pick(u)}]]
    BY <1>2 DEF IsFold
  <2> QED BY <2>1
<1> DEFINE T == {n \in Nat : \A s \in UpTo(S, n) : g[s] \in Int}
<1>5. ASSUME NEW s \in SUBSET S, s # {} => g[s \ {Pick(s)}] \in Int
      PROVE  g[s] \in Int
  <2>0. g[s] = IF s = {} THEN 0 ELSE NumericValue(metrics[Pick(s)]) + g[s \ {Pick(s)}]
    BY <1>4
  <2>1. CASE s = {}
    BY <2>0, <2>1
  <2>2. CASE s # {}
    <3>1. Pick(s) \in s
      BY <2>2 DEF Pick
    <3>2. NumericValue(metrics[Pick(s)]) \in Int
      BY <3>1
    <3>3. g[s \ {Pick(s)}] \in Int
      BY <1>5, <2>2
    <3> QED BY <2>0, <2>2, <3>2, <3>3
  <2> QED BY <2>1, <2>2
<1>6. 0 \in T
  <2>1. ASSUME NEW s \in UpTo(S, 0) PROVE g[s] \in Int
    <3>1. s \in SUBSET S /\ Cardinality(s) <= 0
      BY DEF UpTo
    <3>2. s = {}
      <4>1. ASSUME s # {} PROVE FALSE
        <5>1. Cardinality(s) \in Nat \ {0}
          BY <3>1, <4>1, PickShrinks
        <5> QED BY <3>1, <5>1
      <4> QED BY <4>1
    <3> QED BY <1>5, <3>1, <3>2
  <2> QED BY <2>1
<1>7. ASSUME NEW n \in T PROVE n + 1 \in T
  <2>1. n \in Nat /\ \A s \in UpTo(S, n) : g[s] \in Int
    BY <1>7
  <2>2. ASSUME NEW s \in UpTo(S, n + 1) PROVE g[s] \in Int
    <3>1. s \in SUBSET S /\ Cardinality(s) <= n + 1
      BY DEF UpTo
    <3>2. ASSUME s # {} PROVE g[s \ {Pick(s)}] \in Int
      <4>1. /\ s \ {Pick(s)} \in SUBSET S /\ Cardinality(s) \in Nat
            /\ Cardinality(s \ {Pick(s)}) = Cardinality(s) - 1
        BY <3>1, <3>2, PickShrinks
      <4>2. s \ {Pick(s)} \in UpTo(S, n)
        BY <2>1, <3>1, <4>1 DEF UpTo
      <4> QED BY <2>1, <4>2
    <3> QED BY <1>5, <3>1, <3>2
  <2> QED BY <2>1, <2>2
<1>8. T \in SUBSET Nat
  OBVIOUS
<1>9. PICK N \in Nat : N = Cardinality(S)
  BY FS_CardinalityType
<1>10. N \in T
  <2> HIDE DEF T
  <2> QED BY <1>6, <1>7, <1>8, SetInduction
<1>11. S \in UpTo(S, N)
  BY <1>9 DEF UpTo
<1> QED BY <1>3, <1>10, <1>11

-------------------------------------------------------------------------------
(* The queries.                                                            *)

Stamped == {[e EXCEPT !.leaf = n] : e \in Input, n \in Nat}

SbTypeOK ==
  /\ events \in Seq(Stamped)
  /\ pc \in [Client -> {"idle", "store", "proof", "row", "done"}]
  /\ asked \in [Client -> Question]
  /\ DOMAIN seen = Client /\ DOMAIN answer = Client

\* The stream has a commit of the metric with this leaf.
HasCommit(m, l) ==
  \E i \in DOMAIN events :
    events[i].type = "MetricCommitted" /\ events[i].metric = m /\ events[i].leaf = l

\* What a scoreboard shows as committed is a commit of the stream.
ShowsCommits(s) ==
  \A m \in DOMAIN s.metrics :
    s.metrics[m].status = "COMMITTED" => HasCommit(m, s.metrics[m].leaf)

\* A read returned events of the stream, perhaps not the first ones.
OfStream(s) ==
  s \in Seq(Stamped) /\ \A k \in DOMAIN s : \E i \in DOMAIN events : events[i] = s[k]

\* A query that has not been served has no answer, and only one for a proof goes on.
ClientInv(c) ==
  /\ pc[c] \in {"idle", "store"} => answer[c] = NoRow
  /\ pc[c] = "store" => OfStream(seen[c])
  /\ pc[c] \in {"proof", "row"} => asked[c] # {}
  /\ answer[c] # NoRow /\ (pc[c] \in {"proof", "row"} \/ asked[c] = {}) => ShowsCommits(answer[c])

SbInv == SbTypeOK /\ (row # NoRow => ShowsCommits(row)) /\ \A c \in Client : ClientInv(c)

(* What appears in the stream is an input with its leaf filled in, behind  *)
(* any number of events.                                                   *)
LEMMA InsertsStamped ==
  ASSUME events \in Seq(Stamped), NEW e \in Input, NEW n \in 0..Len(events), AppendInput(e, n)
  PROVE  /\ Stamp(e) \in Stamped /\ events' \in Seq(Stamped)
         /\ IsInserted(events', events, n, Stamp(e))
<1>1. Len(events) + 1 \in Nat /\ 0 \in Nat
  OBVIOUS
<1>2. PICK l \in Nat : Stamp(e) = [e EXCEPT !.leaf = l]
  BY <1>1 DEF Stamp
<1>3. Stamp(e) \in Stamped
  BY <1>2 DEF Stamped
<1>4. events' = InsertAt(events, n + 1, Stamp(e))
  BY DEF AppendInput
<1>5. PICK x \in Stamped : x = Stamp(e)
  BY <1>3
<1>6. InsertAt(events, n + 1, x) \in Seq(Stamped) /\ IsInserted(InsertAt(events, n + 1, x), events, n, x)
  <2> HIDE DEF Stamped
  <2>1. InsertAt(events, n + 1, x) \in Seq(Stamped)
    BY InsertIs
  <2>2. IsInserted(InsertAt(events, n + 1, x), events, n, x)
    BY InsertIs
  <2> QED BY <2>1, <2>2
<1> QED BY <1>3, <1>4, <1>5, <1>6

(* No event of the stream is lost when one appears.                        *)
LEMMA StreamGrows ==
  ASSUME NEW n, NEW x, IsInserted(events', events, n, x)
  PROVE  \A i \in DOMAIN events : \E j \in DOMAIN events' : events'[j] = events[i]
<1>1. \A i \in DOMAIN events : Shift(n, i) \in DOMAIN events' /\ events'[Shift(n, i)] = events[i]
  BY ShiftFacts
<1> QED BY <1>1

(* So what is shown, and what was read, stays what it is.                  *)
LEMMA ShownStays ==
  ASSUME \A i \in DOMAIN events : \E j \in DOMAIN events' : events'[j] = events[i]
  PROVE  /\ \A m, l : HasCommit(m, l) => HasCommit(m, l)'
         /\ \A s : ShowsCommits(s) => ShowsCommits(s)'
         /\ \A s : OfStream(s) => OfStream(s)'
<1>1. ASSUME NEW m, NEW l, HasCommit(m, l)
      PROVE  \E j \in DOMAIN events' : /\ events'[j].type = "MetricCommitted"
                                       /\ events'[j].metric = m /\ events'[j].leaf = l
  BY <1>1 DEF HasCommit
<1>2. \A m, l : HasCommit(m, l) => HasCommit(m, l)'
  BY <1>1 DEF HasCommit
<1>3. ASSUME NEW s, ShowsCommits(s) PROVE ShowsCommits(s)'
  BY <1>1, <1>3 DEF ShowsCommits, HasCommit
<1>4. ASSUME NEW s, OfStream(s) PROVE OfStream(s)'
  BY <1>4 DEF OfStream
<1> QED BY <1>2, <1>3, <1>4

(* A record is that of the event it comes from.                            *)
LEMMA RecordOf ==
  ASSUME NEW s \in Seq(Stamped), NEW m \in DOMAIN Metrics(s)
  PROVE  \E k \in DOMAIN s : /\ k = Recorded(s, EventsRead(s), m)
                             /\ s[k].metric = m /\ Metrics(s)[m].leaf = s[k].leaf
<1>1. PICK n \in 0..Len(s) : n = EventsRead(s)
  BY ReadUpTo
<1>2. m \in Names(s, n)
  BY <1>1, MetricsShape
<1>3. PICK k : k = Recorded(s, n, m)
  OBVIOUS
<1>4. k \in 1..n /\ s[k].metric = m
  BY <1>2, <1>3, RecordedIsOfMetric
<1>5. Metrics(s)[m].leaf = s[k].leaf
  BY <1>1, <1>2, <1>3 DEF Metrics, Names
<1>6. k \in DOMAIN s
  BY <1>1, <1>4
<1> QED BY <1>1, <1>3, <1>4, <1>5, <1>6

(* A rebuild shows commits of what it read, so of the stream.              *)
LEMMA RebuildShows ==
  ASSUME NEW s, OfStream(s), NEW required
  PROVE  ShowsCommits(Project(s, required))
<1>1. Project(s, required).metrics = Metrics(s)
  BY DEF Project
<1>2. ASSUME NEW m \in DOMAIN Metrics(s), Metrics(s)[m].status = "COMMITTED"
      PROVE  HasCommit(m, Metrics(s)[m].leaf)
  <2>1. s \in Seq(Stamped)
    BY DEF OfStream
  <2>2. PICK k \in DOMAIN s : /\ k = Recorded(s, EventsRead(s), m)
                              /\ s[k].metric = m /\ Metrics(s)[m].leaf = s[k].leaf
    BY <1>2, <2>1, RecordOf
  <2>3. s[k].type = "MetricCommitted"
    BY <1>2, <2>2, MetricsShape
  <2>4. PICK i \in DOMAIN events : events[i] = s[k]
    BY DEF OfStream
  <2> QED BY <2>2, <2>3, <2>4 DEF HasCommit
<1> QED BY <1>1, <1>2 DEF ShowsCommits

(* A step of the environment disturbs no query and no row.                 *)
LEMMA EnvironmentKeeps ==
  ASSUME SbInv, events' \in Seq(Stamped), UNCHANGED <<pc, asked, seen, answer, row, configured>>,
         \A i \in DOMAIN events : \E j \in DOMAIN events' : events'[j] = events[i]
  PROVE  SbInv'
<1>1. SbTypeOK'
  BY DEF SbInv, SbTypeOK
<1>2. (row # NoRow => ShowsCommits(row))'
  <2>1. row # NoRow => ShowsCommits(row)
    BY DEF SbInv
  <2>2. ShowsCommits(row) => ShowsCommits(row)'
    <3>1. ASSUME NEW s, s = row, ShowsCommits(s) PROVE ShowsCommits(s)'
      BY <3>1, ShownStays
    <3> QED BY <3>1 DEF ShowsCommits, HasCommit
  <2> QED BY <2>1, <2>2
<1>3. ASSUME NEW c \in Client PROVE ClientInv(c)'
  <2>0. ClientInv(c)
    BY DEF SbInv
  <2>1. ShowsCommits(answer[c]) => ShowsCommits(answer[c])'
    <3>1. ASSUME NEW s, s = answer[c], ShowsCommits(s) PROVE ShowsCommits(s)'
      BY <3>1, ShownStays
    <3> QED BY <3>1 DEF ShowsCommits, HasCommit
  <2>2. OfStream(seen[c]) => OfStream(seen[c])'
    <3>1. ASSUME NEW s, s = seen[c], OfStream(s) PROVE OfStream(s)'
      BY <3>1, ShownStays
    <3> QED BY <3>1 DEF OfStream
  <2> QED BY <2>0, <2>1, <2>2 DEF ClientInv
<1> QED BY <1>1, <1>2, <1>3 DEF SbInv

(* A step of one query leaves the others as they were.                     *)
LEMMA QueryKeeps ==
  ASSUME SbInv, NEW c \in Client, UNCHANGED events,
         pc' \in [Client -> {"idle", "store", "proof", "row", "done"}],
         asked' \in [Client -> Question],
         DOMAIN seen' = Client, DOMAIN answer' = Client,
         \A b \in Client \ {c} : /\ pc'[b] = pc[b] /\ asked'[b] = asked[b]
                                 /\ seen'[b] = seen[b] /\ answer'[b] = answer[b],
         row' # NoRow => ShowsCommits(row)', ClientInv(c)'
  PROVE  SbInv'
<1>1. SbTypeOK'
  BY DEF SbInv, SbTypeOK
<1>2. ASSUME NEW b \in Client PROVE ClientInv(b)'
  <2>1. CASE b # c
    <3>1. pc'[b] = pc[b] /\ asked'[b] = asked[b] /\ seen'[b] = seen[b] /\ answer'[b] = answer[b]
      BY <2>1
    <3>2. ClientInv(b)
      BY DEF SbInv
    <3>3. OfStream(seen[b]) => OfStream(seen[b])'
      BY <3>1 DEF OfStream
    <3>4. ShowsCommits(answer[b]) => ShowsCommits(answer[b])'
      BY <3>1 DEF ShowsCommits, HasCommit
    <3> QED BY <3>1, <3>2, <3>3, <3>4 DEF ClientInv
  <2> QED BY <2>1
<1> QED BY <1>1, <1>2 DEF SbInv

(* The row of a query that does not write it.                              *)
LEMMA RowKeeps ==
  ASSUME SbInv, UNCHANGED <<events, row>>
  PROVE  row' # NoRow => ShowsCommits(row)'
BY DEF SbInv, ShowsCommits, HasCommit

(* A query starts: REST and gRPC reads, and the one that raises.           *)
LEMMA StartKeeps ==
  ASSUME SbInv, NEW c \in Client, NEW ms \in Question,
         Read(c, ms) \/ ReadFails(c, ms) \/ \E m \in Metric : GetMerkleProof(c, m)
  PROVE  SbInv'
<1>0. SbTypeOK /\ ClientInv(c)
  BY DEF SbInv
<1>1. CASE Read(c, ms)
  <2>1. pc[c] = "idle" /\ pc'[c] = "store" /\ seen'[c] = events /\ answer'[c] = NoRow
    BY <1>0, <1>1 DEF Read, SbTypeOK, ClientInv
  <2>2. events' = events /\ events \in Seq(Stamped)
    BY <1>0, <1>1 DEF Read, SbTypeOK
  <2>3. ClientInv(c)'
    BY <2>1, <2>2 DEF ClientInv, OfStream
  <2>4. row' # NoRow => ShowsCommits(row)'
    BY <1>1, RowKeeps DEF Read
  <2> QED BY <1>0, <1>1, <2>3, <2>4, QueryKeeps DEF Read, SbTypeOK
<1>2. CASE ReadFails(c, ms)
  <2>1. pc'[c] = "done" /\ answer'[c] = NoRow
    BY <1>0, <1>2 DEF ReadFails, SbTypeOK, ClientInv
  <2>2. ClientInv(c)'
    BY <2>1 DEF ClientInv
  <2>3. row' # NoRow => ShowsCommits(row)'
    BY <1>2, RowKeeps DEF ReadFails
  <2> QED BY <1>0, <1>2, <2>2, <2>3, QueryKeeps DEF ReadFails, SbTypeOK
<1>3. ASSUME NEW m \in Metric, GetMerkleProof(c, m) PROVE SbInv'
  <2>1. pc'[c] = "proof" /\ {m} \in Question /\ asked'[c] = {m} /\ answer'[c] = NoRow
    BY <1>0, <1>3 DEF GetMerkleProof, SbTypeOK, Question, ClientInv
  <2>2. ClientInv(c)'
    BY <2>1 DEF ClientInv
  <2>3. row' # NoRow => ShowsCommits(row)'
    BY <1>3, RowKeeps DEF GetMerkleProof
  <2> QED BY <1>0, <1>3, <2>1, <2>2, <2>3, QueryKeeps DEF GetMerkleProof, SbTypeOK
<1> QED BY <1>1, <1>2, <1>3

(* A rebuild stores and serves what it read, although events may have      *)
(* appeared behind it or in the middle of it since.                        *)
LEMMA StoreKeeps ==
  ASSUME SbInv, NEW c \in Client, NEW found \in BOOLEAN, StoreRow(c, found)
  PROVE  SbInv'
<1>0. SbTypeOK /\ ClientInv(c)
  BY DEF SbInv
<1>1. OfStream(seen[c]) /\ UNCHANGED <<events, asked>>
  BY <1>0 DEF StoreRow, ClientInv
<1>2. ShowsCommits(Rebuilt(c))
  BY <1>1, RebuildShows DEF Rebuilt
<1>3. PICK r : r = Rebuilt(c)
  OBVIOUS
<1>4. ShowsCommits(r)'
  BY <1>1, <1>2, <1>3 DEF ShowsCommits, HasCommit
<1>5. /\ row' = r
      /\ pc'[c] = IF found /\ asked[c] # {} THEN "proof" ELSE "done"
      /\ answer'[c] = IF found THEN r ELSE NoRow
  BY <1>0, <1>3 DEF StoreRow, SbTypeOK
<1>6. row' # NoRow => ShowsCommits(row)'
  BY <1>4, <1>5 DEF ShowsCommits, HasCommit
<1>7. ClientInv(c)'
  <2>1. answer'[c] # NoRow => ShowsCommits(answer[c])'
    BY <1>4, <1>5 DEF ShowsCommits, HasCommit
  <2> QED BY <1>1, <1>5, <2>1 DEF ClientInv
<1> QED BY <1>0, <1>1, <1>6, <1>7, QueryKeeps DEF StoreRow, SbTypeOK

(* The second read, and the row of the proof.                              *)
LEMMA ServeKeeps ==
  ASSUME SbInv, NEW c \in Client, ReadCommit(c) \/ ServeProof(c)
  PROVE  SbInv'
<1>0. SbTypeOK /\ ClientInv(c)
  BY DEF SbInv
<1>1. CASE ReadCommit(c)
  <2>1. pc[c] = "proof" /\ pc'[c] = "row" /\ UNCHANGED <<events, asked, answer, row>>
    BY <1>0, <1>1 DEF ReadCommit, SbTypeOK
  <2>2. ShowsCommits(answer[c]) => ShowsCommits(answer[c])'
    BY <2>1 DEF ShowsCommits, HasCommit
  <2>3. ClientInv(c)'
    BY <1>0, <2>1, <2>2 DEF ClientInv
  <2>4. row' # NoRow => ShowsCommits(row)'
    BY <2>1, RowKeeps
  <2> QED BY <1>0, <1>1, <2>3, <2>4, QueryKeeps DEF ReadCommit, SbTypeOK
<1>2. CASE ServeProof(c)
  <2>1. pc[c] = "row" /\ pc'[c] = "done" /\ UNCHANGED <<events, asked, row>>
    BY <1>0, <1>2 DEF ServeProof, SbTypeOK
  <2>2. asked'[c] # {}
    BY <1>0, <2>1 DEF ClientInv
  <2>3. ClientInv(c)'
    BY <2>1, <2>2 DEF ClientInv
  <2>4. row' # NoRow => ShowsCommits(row)'
    BY <2>1, RowKeeps
  <2> QED BY <1>0, <1>2, <2>3, <2>4, QueryKeeps DEF ServeProof, SbTypeOK
<1> QED BY <1>1, <1>2

(* The invariant holds whatever appears, is anchored and asked meanwhile.  *)
THEOREM ScoreboardInvariant == SbSpec => []SbInv
<1>1. SbInit => SbInv
  BY DEF SbInit, SbInv, SbTypeOK, ClientInv, Question
<1>2. SbInv /\ [SbNext]_sbVars => SbInv'
  <2> SUFFICES ASSUME SbInv, [SbNext]_sbVars PROVE SbInv'
    OBVIOUS
  <2>0. events \in Seq(Stamped)
    BY DEF SbInv, SbTypeOK
  <2>1. ASSUME NEW e \in Input, NEW n \in 0..Len(events), AppendInput(e, n) PROVE SbInv'
    <3>1. events' \in Seq(Stamped) /\ IsInserted(events', events, n, Stamp(e))
      BY <2>0, <2>1, InsertsStamped
    <3>2. \A i \in DOMAIN events : \E j \in DOMAIN events' : events'[j] = events[i]
      BY <3>1, StreamGrows
    <3>3. UNCHANGED <<pc, asked, seen, answer, row, configured>>
      BY <2>1 DEF AppendInput
    <3> QED BY <3>1, <3>2, <3>3, EnvironmentKeeps
  <2>2. ASSUME NEW i \in DOMAIN events, AnchorLeaf(i) PROVE SbInv'
    <3>1. UNCHANGED <<events, pc, asked, seen, answer, row, configured>>
      BY <2>2 DEF AnchorLeaf
    <3> QED BY <2>0, <3>1, EnvironmentKeeps
  <2>3. ASSUME NEW c \in Client, NEW ms \in Question, Read(c, ms) \/ ReadFails(c, ms) PROVE SbInv'
    BY <2>3, StartKeeps
  <2>4. ASSUME NEW c \in Client, NEW m \in Metric, GetMerkleProof(c, m) PROVE SbInv'
    <3>1. {} \in Question
      BY DEF Question
    <3> QED BY <2>4, <3>1, StartKeeps
  <2>5. ASSUME NEW c \in Client, RestAnswers(c) \/ GetScoreboard(c) PROVE SbInv'
    <3>1. PICK found \in BOOLEAN : StoreRow(c, found)
      BY <2>5 DEF RestAnswers, GetScoreboard
    <3> QED BY <3>1, StoreKeeps
  <2>6. ASSUME NEW c \in Client, ReadCommit(c) \/ ServeProof(c) PROVE SbInv'
    BY <2>6, ServeKeeps
  <2>7. CASE UNCHANGED sbVars
    <3>1. UNCHANGED <<events, pc, asked, seen, answer, row, configured>>
      BY <2>7 DEF sbVars
    <3> QED BY <2>0, <3>1, EnvironmentKeeps
  <2> QED BY <2>1, <2>2, <2>3, <2>4, <2>5, <2>6, <2>7 DEF SbNext
<1> QED BY <1>1, <1>2, PTL DEF SbSpec

-------------------------------------------------------------------------------
(* What the queries may be relied on for.                                  *)

(* I4: no number from incomplete data, in every stream with at most one    *)
(* supersession of a known metric, whatever its length, metrics and risks. *)
THEOREM GateNeedsCommits == SbSpec => []ScoreNeedsCommits
<1>1. SbInv => ScoreNeedsCommits
  BY GateHolds DEF SbInv, SbTypeOK
<1> QED BY <1>1, ScoreboardInvariant, PTL

(* A commit of the stream is recorded, or replaced by one further on, as   *)
(* long as no supersession counts.                                         *)
LEMMA CommitIsRecorded ==
  ASSUME events \in Seq(Stamped), Supersessions(events) = {}, NEW m, NEW l, HasCommit(m, l)
  PROVE  /\ m \in DOMAIN Metrics(events) /\ Metrics(events)[m].status = "COMMITTED"
         /\ Metrics(events)[m].leaf = l \/ Ahead(l, Metrics(events)[m].leaf)
<1>1. PICK n \in Nat : n = Len(events) /\ n = EventsRead(events) /\ DOMAIN events = 1..n
  BY ReadUpTo
<1>2. PICK i \in 1..n : events[i].type = "MetricCommitted" /\ events[i].metric = m /\ events[i].leaf = l
  BY <1>1 DEF HasCommit
<1>3. PICK C : C = OfMetric(events, n, "MetricCommitted", m)
  OBVIOUS
<1>4. i \in C /\ C \in SUBSET (1..n) /\ C \in SUBSET Nat
  BY <1>2, <1>3 DEF OfMetric
<1>5. PICK k \in C : \A j \in C : k >= j
  BY <1>4, GreatestNat
<1>6. Recorded(events, n, m) = k
  <2>1. 0 \in Nat
    OBVIOUS
  <2>2. Max(C) = k
    BY <1>4, <1>5, <2>1, MaxShifted
  <2> QED BY <1>3, <1>4, <2>2 DEF Recorded
<1>7. k \in 1..n /\ events[k].type = "MetricCommitted" /\ k >= i
  BY <1>3, <1>4, <1>5 DEF OfMetric
<1>8. m \in Names(events, n)
  BY <1>2 DEF Names
<1> DEFINE superseded == {events[j].metric : j \in Supersessions(events) \cap (1..n)}
           rec(e, a) == [value |-> e.value, leaf |-> e.leaf, evidence |-> e.evidence,
                         status |-> IF a \in superseded THEN "SUPERSEDED"
                                    ELSE IF e.type = "MetricCommitted" THEN "COMMITTED" ELSE "REJECTED"]
<1>9. Metrics(events) = [a \in Names(events, n) |-> rec(events[Recorded(events, n, a)], a)]
  BY <1>1 DEF Metrics, Names
<1>10. m \notin superseded
  OBVIOUS
<1> HIDE DEF superseded
<1>11. m \in DOMAIN Metrics(events) /\ Metrics(events)[m] = rec(events[k], m)
  <2> HIDE DEF rec
  <2> QED BY <1>6, <1>8, <1>9
<1>12. Metrics(events)[m].status = "COMMITTED" /\ Metrics(events)[m].leaf = events[k].leaf
  BY <1>7, <1>10, <1>11
<1>13. i = k \/ i < k
  BY <1>7
<1>14. events[k].leaf = l \/ Ahead(l, events[k].leaf)
  BY <1>1, <1>2, <1>7, <1>13 DEF Ahead
<1> QED BY <1>11, <1>12, <1>14

(* Neither stale reads nor late events take a commit back: for any number  *)
(* of queries in flight and any stream, what an answer or the stored row   *)
(* shows as committed stays so until a supersession counts.                *)
THEOREM CommitsStay == SbSpec => []CommitsStayShown
<1>1. SbInv => CommitsStayShown
  <2> SUFFICES ASSUME SbInv, Supersessions(events) = {},
                      NEW s \in Scoreboards \cup ({row} \ {NoRow}), NEW m \in DOMAIN s.metrics,
                      s.metrics[m].status = "COMMITTED"
               PROVE  /\ m \in DOMAIN Metrics(events) /\ Metrics(events)[m].status = "COMMITTED"
                      /\ \/ Metrics(events)[m].leaf = s.metrics[m].leaf
                         \/ Ahead(s.metrics[m].leaf, Metrics(events)[m].leaf)
    BY DEF CommitsStayShown
  <2>1. events \in Seq(Stamped)
    BY DEF SbInv, SbTypeOK
  <2>2. ShowsCommits(s)
    BY DEF SbInv, ClientInv, Scoreboards
  <2>3. HasCommit(m, s.metrics[m].leaf)
    BY <2>2 DEF ShowsCommits
  <2> QED BY <2>1, <2>3, CommitIsRecorded
<1> QED BY <1>1, ScoreboardInvariant, PTL

(* A decision that is_ready_to_publish stays so unless a supersession that *)
(* counts has events behind it: no other event takes a record from a       *)
(* metric, and every status a record can have is terminal.                 *)
THEOREM ReadyStays == SbSpec => ReadyIsStable
<1>1. SbInv /\ [SbNext]_sbVars =>
        [events' # events /\ Supersessions(events') \subseteq {Len(events')}
           => (is_ready_to_publish(Required, Metrics(events))
                 => is_ready_to_publish(Required, Metrics(events')))]_sbVars
  <2> SUFFICES ASSUME SbInv, SbNext, events' # events,
                      Supersessions(events') \subseteq {Len(events')},
                      is_ready_to_publish(Required, Metrics(events))
               PROVE  is_ready_to_publish(Required, Metrics(events'))
    BY DEF sbVars
  <2>1. PICK e \in Input, n \in 0..Len(events) : AppendInput(e, n)
    BY DEF SbNext, AnchorLeaf, Read, ReadFails, GetMerkleProof, RestAnswers, GetScoreboard,
           StoreRow, ReadCommit, ServeProof
  <2>2. events \in Seq(Stamped)
    BY DEF SbInv, SbTypeOK
  <2>3. events' \in Seq(Stamped) /\ IsInserted(events', events, n, Stamp(e))
    BY <2>1, <2>2, InsertsStamped
  <2>4. DOMAIN Metrics(events) \subseteq DOMAIN Metrics(events')
    BY <2>2, <2>3, NamesGrow
  <2>5. \A m \in DOMAIN Metrics(events') : Metrics(events')[m].status \in TerminalStatus
    BY MetricsShape
  <2> QED BY <2>4, <2>5 DEF is_ready_to_publish
<1> QED BY <1>1, ScoreboardInvariant, PTL DEF SbSpec, ReadyIsStable

-------------------------------------------------------------------------------
(* What a signal does to a decision.                                       *)

(* A clamped number is a score.                                            *)
LEMMA ClampIsScore == \A x \in Int : Clamp(x) \in 0..One
BY DEF Clamp, One

(* Clamping keeps order.                                                   *)
LEMMA ClampMonotone == \A x, y \in Int : x <= y => Clamp(x) <= Clamp(y)
BY DEF Clamp, One

(* What an event of the stream carries.                                    *)
LEMMA StampedFields ==
  ASSUME NEW x \in Stamped
  PROVE  x.value \in Int \cup {Text} /\ x.severity \in Int
<1>1. PICK e \in Input, n \in Nat : x = [e EXCEPT !.leaf = n]
  BY DEF Stamped
<1>2. /\ DOMAIN e = {"type", "metric", "value", "leaf", "category", "severity", "evidence"}
      /\ e.value \in Int \cup {Text} /\ e.severity \in Int
  BY ScoreboardAssumption
<1>3. x.value = e.value /\ x.severity = e.severity
  BY <1>1, <1>2
<1> QED BY <1>2, <1>3

(* A record counts as an integer.                                          *)
LEMMA RecordsNumeric ==
  ASSUME NEW evts \in Seq(Stamped), NEW m \in DOMAIN Metrics(evts)
  PROVE  NumericValue(Metrics(evts)[m]) \in Int
<1>1. PICK n \in 0..Len(evts) : n = EventsRead(evts)
  BY ReadUpTo
<1>2. m \in Names(evts, n)
  BY <1>1, MetricsShape
<1>3. Recorded(evts, n, m) \in 1..n
  BY <1>2, RecordedIsOfMetric
<1>4. evts[Recorded(evts, n, m)] \in Stamped
  BY <1>1, <1>3
<1>5. Metrics(evts)[m].value = evts[Recorded(evts, n, m)].value
  BY <1>1, <1>2 DEF Metrics, Names
<1>6. Metrics(evts)[m].value \in Int \cup {Text}
  BY <1>4, <1>5, StampedFields
<1> QED BY <1>6 DEF NumericValue, One

(* So the base of the score is one.                                        *)
LEMMA BaseIsScore ==
  ASSUME NEW metrics, NEW S, IsFiniteSet(S), \A m \in S : NumericValue(metrics[m]) \in Int
  PROVE  BaseScore(metrics, S) \in 0..One
<1>1. CASE S = {}
  BY <1>1 DEF BaseScore, One
<1>2. CASE S # {}
  <2>1. Total(metrics, S) \in Int
    BY SumIsInt
  <2>2. Cardinality(S) \in Nat \ {0}
    BY <1>2, FS_CardinalityType, FS_EmptySet
  <2>3. Total(metrics, S) \div Cardinality(S) \in Int
    BY <2>1, <2>2
  <2>4. BaseScore(metrics, S) = Clamp(Total(metrics, S) \div Cardinality(S))
    BY <1>2 DEF BaseScore, Total, MapThenSumSet, MapThenFoldSet
  <2> QED BY <2>3, <2>4, ClampIsScore
<1> QED BY <1>1, <1>2

(* A verdict has one of three ranks.                                       *)
LEMMA RankRange == \A v : Rank(v) \in 0..2
BY DEF Rank

(* No lower score and no critical signal more moves a verdict up.          *)
LEMMA VerdictFalls ==
  ASSUME NEW s \in Int, NEW t \in Int, t <= s, NEW c \in BOOLEAN, NEW d \in BOOLEAN, c => d
  PROVE  Rank(Verdict(t, d)) <= Rank(Verdict(s, c))
<1>1. CASE d
  <2>1. Verdict(t, d) = "REJECT"
    BY <1>1 DEF Verdict
  <2>2. Rank("REJECT") = 0
    BY DEF Rank
  <2>3. Rank(Verdict(s, c)) \in 0..2
    BY RankRange
  <2> QED BY <2>1, <2>2, <2>3
<1>2. CASE ~d
  <2>1. ~c
    BY <1>2
  <2>2. Verdict(s, c) = IF s >= approve_at THEN "APPROVE"
                        ELSE IF s < reject_below THEN "REJECT" ELSE "MANUAL_REVIEW"
    BY <2>1 DEF Verdict, approve_at, reject_below
  <2>3. Verdict(t, d) = IF t >= approve_at THEN "APPROVE"
                        ELSE IF t < reject_below THEN "REJECT" ELSE "MANUAL_REVIEW"
    BY <1>2 DEF Verdict, approve_at, reject_below
  <2>4. Rank("APPROVE") = 2 /\ Rank("MANUAL_REVIEW") = 1 /\ Rank("REJECT") = 0
    BY DEF Rank
  <2> QED BY <2>2, <2>3, <2>4 DEF approve_at, reject_below
<1> QED BY <1>1, <1>2

(* What evaluate_policy decides behind the gate.                           *)
LEMMA GateOpen ==
  ASSUME NEW required, NEW metrics, NEW risks, required \ CommittedOf(required, metrics) = {}
  PROVE  LET score == Clamp(BaseScore(metrics, CommittedOf(required, metrics)) - RiskPenalty(risks))
             out == EvaluatePolicy(required, metrics, risks)
         IN  /\ out.trust_score = score
             /\ out.status = Verdict(score, \E i \in DOMAIN risks : risks[i].category = "CRITICAL")
BY DEF EvaluatePolicy

(* And in front of it.                                                     *)
LEMMA GateShut ==
  ASSUME NEW required, NEW metrics, NEW risks, required \ CommittedOf(required, metrics) # {}
  PROVE  /\ EvaluatePolicy(required, metrics, risks).trust_score = NoScore
         /\ EvaluatePolicy(required, metrics, risks).status = "INSUFFICIENT_DATA"
BY DEF EvaluatePolicy

(* A decision has a score or none, and one signal more whose severity is   *)
(* not negative raises neither the score nor the verdict.                  *)
LEMMA SignalLowersPolicy ==
  ASSUME NEW required, IsFiniteSet(required), NEW evts \in Seq(Stamped), NEW r \in Stamped,
         NEW risks \in Seq(Stamped), NEW more, NEW q, IsInserted(more, risks, q, r)
  PROVE  LET old == EvaluatePolicy(required, Metrics(evts), risks)
             new == EvaluatePolicy(required, Metrics(evts), more)
         IN  /\ old.trust_score \in -1..One
             /\ r.severity >= 0 => /\ new.trust_score <= old.trust_score
                                   /\ Rank(new.status) <= Rank(old.status)
<1>1. PICK metrics : metrics = Metrics(evts)
  OBVIOUS
<1> DEFINE C == CommittedOf(required, metrics)
           old == EvaluatePolicy(required, metrics, risks)
           new == EvaluatePolicy(required, metrics, more)
           base == BaseScore(metrics, C)
           was == \E i \in DOMAIN risks : risks[i].category = "CRITICAL"
           is == \E i \in DOMAIN more : more[i].category = "CRITICAL"
<1>3. base \in 0..One
  <2>1. C \subseteq required /\ C \subseteq DOMAIN metrics
    BY DEF CommittedOf
  <2>2. IsFiniteSet(C)
    BY <2>1, FS_Subset
  <2>3. \A m \in C : NumericValue(metrics[m]) \in Int
    BY <1>1, <2>1, RecordsNumeric
  <2> QED BY <2>2, <2>3, BaseIsScore
<1>4. RiskPenalty(risks) \in Int /\ RiskPenalty(more) = RiskPenalty(risks) + Takes(r)
  <2>1. \A e \in Stamped : e.severity \in Int
    BY StampedFields
  <2>2. RiskPenalty(risks) \in Int
    BY <2>1, PenaltyInsert
  <2>3. RiskPenalty(more) = RiskPenalty(risks) + Takes(r)
    BY <2>1, PenaltyInsert
  <2> QED BY <2>2, <2>3
<1>5. Takes(r) \in Int /\ (r.severity >= 0 => Takes(r) \in Nat)
  <2>1. r.severity \in Int
    BY StampedFields
  <2>2. RiskWeight(r.category) \in Nat
    BY WeightPositive
  <2> QED BY <2>1, <2>2 DEF Takes
<1>6. was => is
  <2>1. \A i \in DOMAIN risks : Shift(q, i) \in DOMAIN more /\ more[Shift(q, i)] = risks[i]
    BY ShiftFacts
  <2> QED BY <2>1
<1>7. CASE required \ C # {}
  <2>1. /\ old.trust_score = NoScore /\ old.status = "INSUFFICIENT_DATA"
        /\ new.trust_score = NoScore /\ new.status = "INSUFFICIENT_DATA"
    BY <1>7, GateShut
  <2>2. Rank("INSUFFICIENT_DATA") \in 0..2
    BY RankRange
  <2> HIDE DEF old, new
  <2>3. old.trust_score \in -1..One /\ new.trust_score <= old.trust_score
    BY <2>1 DEF NoScore, One
  <2>4. Rank(new.status) <= Rank(old.status)
    BY <2>1, <2>2
  <2> QED BY <1>1, <2>3, <2>4 DEF old, new
<1>8. CASE required \ C = {}
  <2> DEFINE s == Clamp(base - RiskPenalty(risks))
             t == Clamp(base - RiskPenalty(more))
  <2>1. /\ old.trust_score = s /\ old.status = Verdict(s, was)
        /\ new.trust_score = t /\ new.status = Verdict(t, is)
    BY <1>8, GateOpen
  <2>2. PICK a \in Int, b \in Int : /\ a = base - RiskPenalty(risks) /\ b = base - RiskPenalty(more)
                                    /\ r.severity >= 0 => b <= a
    <3> HIDE DEF base
    <3> QED BY <1>3, <1>4, <1>5 DEF One
  <2>3. s \in 0..One /\ t \in 0..One /\ (r.severity >= 0 => t <= s)
    BY <2>2, ClampIsScore, ClampMonotone
  <2> HIDE DEF s, t, was, is, old, new
  <2>4. s \in Int /\ t \in Int
    BY <2>3 DEF One
  <2>5. was \in BOOLEAN /\ is \in BOOLEAN
    BY DEF was, is
  <2>6. r.severity >= 0 => Rank(Verdict(t, is)) <= Rank(Verdict(s, was))
    BY <1>6, <2>3, <2>4, <2>5, VerdictFalls
  <2>7. old.trust_score \in -1..One /\ (r.severity >= 0 => new.trust_score <= old.trust_score)
    BY <2>1, <2>3 DEF One
  <2>8. r.severity >= 0 => Rank(new.status) <= Rank(old.status)
    BY <2>1, <2>6
  <2> QED BY <1>1, <2>7, <2>8 DEF old, new
<1> QED BY <1>7, <1>8

(* What get_scoreboard serves before and after a signal, valid or not.     *)
LEMMA SignalLowersServed ==
  ASSUME NEW evts \in Seq(Stamped), NEW new \in Seq(Stamped), NEW x \in Stamped, x.type = "RiskSignal",
         NEW p, IsInserted(new, evts, p, x)
  PROVE  /\ Served(new).trust_score <= Served(evts).trust_score
         /\ Rank(Served(new).policy_verdict) <= Rank(Served(evts).policy_verdict)
<1>1. PICK risks \in Seq(Stamped) : risks = Risks(evts)
  BY RisksType
<1>2. PICK more, q : more = Risks(new) /\ IsInserted(more, risks, q, x)
  <2>1. \E q : IsInserted(Risks(new), Risks(evts), q, x)
    BY RisksInsert
  <2> QED BY <1>1, <2>1
<1>3. Metrics(new) = Metrics(evts)
  BY SignalKeepsMetrics
<1>4. PICK required : required = RequiredFor({}) /\ IsFiniteSet(required)
  BY ScoreboardAssumption, FS_EmptySet DEF RequiredFor
<1> DEFINE was == EvaluatePolicy(required, Metrics(evts), risks)
           is == EvaluatePolicy(required, Metrics(evts), more)
<1>5. RisksValid(evts) => /\ Served(evts).trust_score = was.trust_score
                          /\ Served(evts).policy_verdict = was.status
  BY <1>1, <1>4 DEF Served, Project
<1>6. RisksValid(new) => /\ Served(new).trust_score = is.trust_score
                         /\ Served(new).policy_verdict = is.status
  BY <1>2, <1>3, <1>4 DEF Served, Project
<1>7. \A evs : ~RisksValid(evs) =>
        Served(evs).trust_score = NoScore /\ Served(evs).policy_verdict = "error"
  BY DEF Served
<1>8. RisksValid(new) => RisksValid(evts) /\ x.severity >= 0
  <2>1. SUFFICES ASSUME RisksValid(new) PROVE RisksValid(evts) /\ x.severity >= 0
    OBVIOUS
  <2>2. \A i \in DOMAIN more : SeverityInRange(more[i].severity)
    BY <1>2, <2>1 DEF RisksValid
  <2>3. \A i \in DOMAIN risks : Shift(q, i) \in DOMAIN more /\ more[Shift(q, i)] = risks[i]
    BY <1>2, ShiftFacts
  <2>4. q + 1 \in DOMAIN more /\ more[q + 1] = x
    BY <1>2 DEF IsInserted
  <2>5. RisksValid(evts)
    BY <1>1, <2>2, <2>3 DEF RisksValid
  <2>6. x.severity \in 0..10
    BY <2>2, <2>4 DEF SeverityInRange
  <2> QED BY <2>5, <2>6
<1>9. was.trust_score \in -1..One
  <2>1. EvaluatePolicy(required, Metrics(evts), risks).trust_score \in -1..One
    BY <1>2, <1>4, SignalLowersPolicy
  <2> QED BY <2>1
<1> HIDE DEF was, is
<1>10. CASE RisksValid(new)
  <2>1. is.trust_score <= was.trust_score /\ Rank(is.status) <= Rank(was.status)
    BY <1>2, <1>4, <1>8, <1>10, SignalLowersPolicy DEF was, is
  <2> QED BY <1>5, <1>6, <1>8, <1>10, <2>1
<1>11. CASE ~RisksValid(new)
  <2>1. Served(new).trust_score = -1 /\ Served(new).policy_verdict = "error"
    BY <1>7, <1>11 DEF NoScore
  <2>2. PICK s \in -1..One : s = Served(evts).trust_score
    <3>1. CASE RisksValid(evts)
      BY <1>5, <1>9, <3>1
    <3>2. CASE ~RisksValid(evts)
      BY <1>7, <3>2 DEF NoScore, One
    <3> QED BY <3>1, <3>2
  <2>3. Rank("error") = 0
    BY DEF Rank
  <2>4. Rank(Served(evts).policy_verdict) \in 0..2
    BY RankRange
  <2>5. Served(new).trust_score <= Served(evts).trust_score
    <3>1. -1 <= s
      BY DEF One
    <3> QED BY <2>1, <2>2, <3>1
  <2>6. Rank(Served(new).policy_verdict) <= Rank(Served(evts).policy_verdict)
    BY <2>1, <2>3, <2>4
  <2> QED BY <2>5, <2>6
<1> QED BY <1>10, <1>11

(* A signal of the critic never improves a decision (risk_matrix.py,       *)
(* policy_evaluator.py), for streams of any length, and wherever in the    *)
(* stream it appears.                                                      *)
THEOREM RiskLowers == SbSpec => RiskOnlyLowers
<1>1. SbInv /\ SbInv' =>
        [SignalAppears => LET old == Served(events)
                              new == Served(events')
                          IN  /\ new.trust_score <= old.trust_score
                              /\ Rank(new.policy_verdict) <= Rank(old.policy_verdict)]_sbVars
  <2> SUFFICES ASSUME SbInv', SbInv, SignalAppears
               PROVE  /\ Served(events').trust_score <= Served(events).trust_score
                      /\ Rank(Served(events').policy_verdict) <= Rank(Served(events).policy_verdict)
    OBVIOUS
  <2>1. events' \in Seq(Stamped) /\ events \in Seq(Stamped)
    BY DEF SbInv, SbTypeOK
  <2>2. PICK i \in DOMAIN events' : events'[i].type = "RiskSignal" /\ events = RemoveAt(events', i)
    BY DEF SignalAppears
  <2>3. IsInserted(events', events, i - 1, events'[i])
    BY <2>1, <2>2, RemoveIs
  <2>4. events'[i] \in Stamped
    BY <2>1, <2>2
  <2> QED BY <2>1, <2>2, <2>3, <2>4, SignalLowersServed
<1> QED BY <1>1, ScoreboardInvariant, PTL DEF SbSpec, RiskOnlyLowers
===============================================================================
