------------------------- MODULE KafkaEventBusProofs -------------------------
(***************************************************************************)
(* Proofs about KafkaEventBus, for any number of processes, topics,        *)
(* partitions and messages, and any number of failures.                    *)
(***************************************************************************)
EXTENDS KafkaEventBus, CommandHandlerProofs

BusTypeOK ==
  /\ published \in Seq(Payload)
  /\ owner \in [Partition -> Api \cup {Nobody}]
  /\ loop \in [Task -> {"none", "polling", "handling", "failed", "dead"}]
  /\ current \in [Task -> Nat]
  /\ cause \in Seq(Nat) /\ Len(cause) = Len(trail)
  /\ \A j \in DOMAIN trail : cause[j] \in DOMAIN published
  /\ offset \in [Partition -> Int] /\ position \in [Partition -> Int]
  /\ \A k \in Partition : offset[k] <= Len(published) /\ position[k] <= Len(published)

Handling(t) == loop[t] = "handling"

\* An event of type e was appended on behalf of message i.
Caused(i, e) == \E j \in DOMAIN trail : cause[j] = i /\ trail[j].type = e

\* What the handler of a bus message appends: the message's own event, and for a
\* reconciled decision the rejection or the commit that follows it.
Fits(m, e) ==
  \/ e.type = m.kind /\ e.key = NoKey
  \/ /\ m.kind = "ReconciledDecision" /\ m.evidence = {}
     /\ e.type = "MetricRejected" /\ e.key = NoKey
  \/ /\ m.kind = "ReconciledDecision" /\ m.evidence # {}
     /\ e.type = "MetricCommitted" /\ e.key = m.key

\* How far the handler of message i has come, and what is in the trail by then.
KnowsMessage(t, i) ==
  /\ i \in DOMAIN published
  /\ msg[t] = published[i].msg /\ msg[t].kind = t[2]
  /\ pc[t] # "idle"
  /\ Running(t) => Fits(msg[t], out[t])
  /\ Running(t) /\ (pc[t] = "appended" \/ out[t].type # msg[t].kind) => Recorded(i)
  /\ pc[t] = "appended" /\ out[t].type = "MetricRejected" => Caused(i, "MetricRejected")
  /\ pc[t] = "appended" /\ out[t].type = "MetricCommitted" => KeyTaken(msg[t].key)
  /\ pc[t] = "done" => Effective(i)

\* No message before i in its partition is outstanding.
InTurn(i) ==
  \A h \in InPartition(PartitionOf(published[i].msg)) : h < i => Recorded(h) \/ Excused(h)

TaskInv(t) ==
  /\ ~Handling(t) => pc[t] = "idle"
  /\ Handling(t) => KnowsMessage(t, current[t]) /\ InTurn(current[t])

TasksKnow == \A t \in Task : TaskInv(t)

Through(i) == Effective(i) \/ Excused(i)

\* What the group has committed is through.
Durable(k) == \A i \in InPartition(k) : i <= offset[k] => Through(i)

\* What the owner has taken is through, but for the message it is handling.
Covered(k) ==
  LET t == <<owner[k], k[1]>> IN
    owner[k] # Nobody =>
      \A i \in InPartition(k) : i <= position[k] => Through(i) \/ (Handling(t) /\ current[t] = i)

BusInv ==
  /\ TypeInv /\ BusTypeOK /\ TasksKnow
  /\ \A k \in Partition : Durable(k) /\ Covered(k)
  /\ PartitionInOrder

-------------------------------------------------------------------------------
(* Partitions, consumers, offsets.                                         *)

(* A partition belongs to a topic, and a consumer to a process and a topic. *)
LEMMA TopicsAndConsumers ==
  /\ \A k \in Partition : k[1] \in Topic
  /\ \A m \in Message : PartitionOf(m) \in Partition /\ PartitionOf(m)[1] = m.kind
  /\ \A t \in Task : t[1] \in Api /\ t[2] \in Topic /\ t = <<t[1], t[2]>>
  /\ \A p \in Api, c \in Topic : <<p, c>> \in Task
  /\ \A t \in Task : t[1] # Nobody
BY BusAssumption, ProcAssumption DEF Partition, PartitionOf, Topic

(* A nonempty set of naturals has a least element.                         *)
LEMMA LeastNumber ==
  ASSUME NEW T \in SUBSET Nat, T # {}
  PROVE  \E n \in T : \A m \in T : n <= m
<1>1. PICK n \in T : \A m \in T : ~(<<m, n>> \in OpToRel(<, Nat))
  BY WFMin, NatLessThanWellFounded
<1>2. \A m \in T : ~(m < n)
  BY <1>1 DEF OpToRel
<1> QED BY <1>2

(* The next message of a partition is the first one its owner has not      *)
(* taken.                                                                  *)
LEMMA NextIsFirst ==
  ASSUME BusTypeOK, NEW k \in Partition, Ahead(k) # {}
  PROVE  /\ NextIn(k) \in InPartition(k) /\ NextIn(k) \in DOMAIN published
         /\ NextIn(k) \in Nat /\ NextIn(k) <= Len(published)
         /\ NextIn(k) > position[k]
         /\ \A i \in InPartition(k) : i < NextIn(k) => i <= position[k]
         /\ published[NextIn(k)] \in Payload /\ published[NextIn(k)].msg \in Message
         /\ PartitionOf(published[NextIn(k)].msg) = k
<1>1. Ahead(k) \in SUBSET Nat
  BY DEF Ahead, InPartition, BusTypeOK
<1>2. \E n \in Ahead(k) : \A m \in Ahead(k) : n <= m
  BY <1>1, LeastNumber
<1>3. NextIn(k) \in Ahead(k) /\ \A m \in Ahead(k) : NextIn(k) <= m
  BY <1>2 DEF NextIn, Min
<1>4. /\ NextIn(k) \in DOMAIN published /\ NextIn(k) > position[k]
      /\ PartitionOf(published[NextIn(k)].msg) = k
  BY <1>3 DEF Ahead, InPartition
<1>5. \A i \in InPartition(k) : i < NextIn(k) => i <= position[k]
  <2> SUFFICES ASSUME NEW i \in InPartition(k), i < NextIn(k), ~(i <= position[k]) PROVE FALSE
    OBVIOUS
  <2>1. i \in Nat /\ position[k] \in Int /\ NextIn(k) \in Nat
    BY <1>1, <1>3 DEF InPartition, BusTypeOK
  <2>2. i \in Ahead(k)
    BY <2>1 DEF Ahead
  <2> QED BY <1>3, <2>1, <2>2
<1>6. published[NextIn(k)] \in Payload
  BY <1>4 DEF BusTypeOK
<1> QED BY <1>1, <1>3, <1>4, <1>5, <1>6, BusAssumption DEF Ahead, BusTypeOK

-------------------------------------------------------------------------------
(* What has happened stays so.                                             *)

\* The log of the broker, the trail and the log file only grow.
BusGrows ==
  /\ \A i \in DOMAIN published : i \in DOMAIN published' /\ published'[i] = published[i]
  /\ \A j \in DOMAIN trail : /\ j \in DOMAIN trail' /\ trail'[j] = trail[j]
                             /\ cause'[j] = cause[j]
  /\ logged \subseteq logged' /\ missed \subseteq missed'

(* What is recorded, effective or excused remains it.                      *)
LEMMA FactsStay ==
  ASSUME BusGrows, NEW i \in DOMAIN published
  PROVE  /\ Recorded(i) => Recorded(i)'
         /\ \A e : Caused(i, e) => Caused(i, e)'
         /\ \A x : KeyTaken(x) => KeyTaken(x)'
         /\ Effective(i) => Effective(i)'
         /\ Excused(i) => Excused(i)'
         /\ Through(i) => Through(i)'
<1>0. published'[i] = published[i]
  BY DEF BusGrows
<1>1. Recorded(i) => Recorded(i)'
  BY <1>0 DEF BusGrows, Recorded
<1>2. \A e : Caused(i, e) => Caused(i, e)'
  BY DEF BusGrows, Caused
<1>3. \A x : KeyTaken(x) => KeyTaken(x)'
  BY DEF BusGrows, KeyTaken
<1>4. Effective(i) => Effective(i)'
  BY <1>0, <1>1, <1>2, <1>3 DEF Effective, Caused
<1>5. Excused(i) => Excused(i)'
  BY <1>0 DEF BusGrows, Excused
<1> QED BY <1>1, <1>2, <1>3, <1>4, <1>5 DEF Through

(* A message's partition does not change, and a message before a published *)
(* one is published.                                                       *)
LEMMA PartitionsStay ==
  ASSUME BusTypeOK, BusTypeOK', BusGrows, NEW k \in Partition
  PROVE  /\ InPartition(k) \subseteq InPartition(k)'
         /\ \A i \in InPartition(k)' : i <= Len(published) => i \in InPartition(k)
         /\ \A i \in InPartition(k)', j \in DOMAIN published : i < j => i \in InPartition(k)
<1>1. DOMAIN published = 1..Len(published) /\ DOMAIN published' = 1..Len(published')
      /\ Len(published) \in Nat /\ Len(published') \in Nat
  BY DEF BusTypeOK
<1>2. \A i \in DOMAIN published : published'[i] = published[i] /\ i \in DOMAIN published'
  BY DEF BusGrows
<1>3. \A i \in InPartition(k)' : i <= Len(published) => i \in InPartition(k)
  BY <1>1, <1>2 DEF InPartition
<1> QED BY <1>1, <1>2, <1>3 DEF InPartition

(* A consumer that did not move knows what it knew.                        *)
LEMMA TaskStays ==
  ASSUME BusTypeOK, BusTypeOK', BusGrows, NEW t \in Task, TaskInv(t),
         loop'[t] = loop[t], current'[t] = current[t],
         pc'[t] = pc[t], msg'[t] = msg[t], out'[t] = out[t],
         Handling(t) => msg[t] \in Message
  PROVE  TaskInv(t)'
<1>1. CASE ~Handling(t)
  BY <1>1 DEF TaskInv, Handling
<1>2. CASE Handling(t)
  <2>0. PICK i : i = current[t]
    OBVIOUS
  <2>1. KnowsMessage(t, i) /\ InTurn(i) /\ i \in DOMAIN published /\ current'[t] = i
    BY <1>2, <2>0 DEF TaskInv, KnowsMessage
  <2>2. i \in DOMAIN published' /\ published'[i] = published[i]
    BY <2>1 DEF BusGrows
  <2>3. KnowsMessage(t, i)'
    BY <2>1, <2>2, FactsStay DEF KnowsMessage, Running
  <2>4. PartitionOf(published[i].msg) \in Partition
    BY <1>2, <2>1, TopicsAndConsumers DEF KnowsMessage
  <2>5. InTurn(i)'
    <3>0. PICK k \in Partition : k = PartitionOf(published[i].msg)
      BY <2>4
    <3>1. PartitionOf(published[i].msg)' = k
      BY <2>2, <3>0 DEF PartitionOf
    <3> SUFFICES ASSUME NEW h \in InPartition(k)', h < i
                 PROVE  Recorded(h)' \/ Excused(h)'
      BY <3>1 DEF InTurn
    <3>2. h \in InPartition(k) /\ h \in DOMAIN published
      BY <2>1, PartitionsStay DEF InPartition
    <3>3. Recorded(h) \/ Excused(h)
      BY <2>1, <3>0, <3>2 DEF InTurn
    <3> QED BY <3>2, <3>3, FactsStay
  <2> QED BY <1>2, <2>0, <2>1, <2>3, <2>5 DEF TaskInv, Handling
<1> QED BY <1>1, <1>2

(* An offset that did not move still covers messages that are through.     *)
LEMMA DurableStays ==
  ASSUME BusTypeOK, BusTypeOK', BusGrows, NEW k \in Partition, Durable(k),
         offset'[k] = offset[k]
  PROVE  Durable(k)'
<1> SUFFICES ASSUME NEW i \in InPartition(k)', i <= offset'[k] PROVE Through(i)'
  BY DEF Durable
<1>1. i \in Nat /\ offset[k] \in Int /\ Len(published) \in Nat /\ offset[k] <= Len(published)
  BY DEF InPartition, BusTypeOK
<1>2. i \in InPartition(k) /\ i \in DOMAIN published
  BY <1>1, PartitionsStay DEF InPartition
<1>3. Through(i)
  BY <1>2 DEF Durable
<1> QED BY <1>2, <1>3, FactsStay

(* A position that did not move still covers messages that are through,    *)
(* when the consumer leaves none behind.                                   *)
LEMMA CoveredStays ==
  ASSUME BusTypeOK, BusTypeOK', BusGrows, NEW k \in Partition, Covered(k),
         owner'[k] = owner[k], position'[k] = position[k],
         NEW t, t = <<owner[k], k[1]>>,
         \A i : Handling(t) /\ current[t] = i =>
                  (Handling(t)' /\ current'[t] = i) \/ Through(i)'
  PROVE  Covered(k)'
<1> SUFFICES ASSUME owner[k] # Nobody, NEW i \in InPartition(k)', i <= position[k]
             PROVE  Through(i)' \/ (Handling(t)' /\ current'[t] = i)
  BY DEF Covered
<1>1. i \in Nat /\ position[k] \in Int /\ Len(published) \in Nat /\ position[k] <= Len(published)
  BY DEF InPartition, BusTypeOK
<1>2. i \in InPartition(k) /\ i \in DOMAIN published
  BY <1>1, PartitionsStay DEF InPartition
<1>3. CASE Through(i)
  BY <1>2, <1>3, FactsStay
<1>4. CASE Handling(t) /\ current[t] = i
  BY <1>4
<1> QED BY <1>2, <1>3, <1>4 DEF Covered

(* A step that appends nothing keeps the order.                            *)
LEMMA OrderStays ==
  ASSUME BusTypeOK, BusTypeOK', BusGrows, PartitionInOrder, UNCHANGED <<trail, cause>>
  PROVE  PartitionInOrder'
<1> SUFFICES ASSUME NEW k \in Partition, NEW i \in InPartition(k)', NEW j \in InPartition(k)',
                    i < j, Recorded(j)'
             PROVE  Recorded(i)' \/ Excused(i)'
  BY DEF PartitionInOrder
<1>1. j \in DOMAIN published
  BY DEF Recorded, BusTypeOK
<1>2. i \in InPartition(k) /\ j \in InPartition(k) /\ i \in DOMAIN published
  BY <1>1, PartitionsStay DEF InPartition, BusGrows
<1>3. Recorded(j)
  BY <1>1 DEF Recorded, BusGrows
<1>4. Recorded(i) \/ Excused(i)
  BY <1>2, <1>3 DEF PartitionInOrder
<1> QED BY <1>2, <1>4, FactsStay

(* A consumer handles a message of the type its handlers expect.           *)
LEMMA HandledMessage ==
  ASSUME BusTypeOK, NEW t \in Task, TaskInv(t), Handling(t)
  PROVE  /\ current[t] \in DOMAIN published /\ current[t] \in Nat
         /\ msg[t] = published[current[t]].msg /\ msg[t] \in Message
         /\ msg[t].kind \in Kind
<1>1. current[t] \in DOMAIN published /\ msg[t] = published[current[t]].msg
  BY DEF TaskInv, KnowsMessage
<1>2. published[current[t]] \in Payload
  BY <1>1 DEF BusTypeOK
<1> QED BY <1>1, <1>2, BusAssumption, MessageAssumption DEF BusTypeOK, MessageType

SameTask(t) ==
  /\ loop'[t] = loop[t] /\ current'[t] = current[t]
  /\ pc'[t] = pc[t] /\ msg'[t] = msg[t] /\ out'[t] = out[t]

\* The owner of k took nothing, and leaves nothing unsettled behind.
SameOwnership(k) ==
  LET t == <<owner[k], k[1]>> IN
    /\ owner'[k] = owner[k] /\ position'[k] = position[k]
    /\ \A i : Handling(t) /\ current[t] = i =>
                (Handling(t)' /\ current'[t] = i) \/ Through(i)'

(* A step keeps the invariant when it keeps the part of each consumer and  *)
(* each partition that it touches.                                         *)
LEMMA StepKeeps ==
  ASSUME BusInv, TypeInv', BusTypeOK', BusGrows,
         \A t \in Task : TaskInv(t)' \/ SameTask(t),
         \A k \in Partition : Durable(k)' \/ offset'[k] = offset[k],
         \A k \in Partition : Covered(k)' \/ SameOwnership(k),
         PartitionInOrder' \/ UNCHANGED <<trail, cause>>
  PROVE  BusInv'
<1>0. BusTypeOK /\ PartitionInOrder
  BY DEF BusInv
<1>1. TasksKnow'
  <2> SUFFICES ASSUME NEW t \in Task, SameTask(t) PROVE TaskInv(t)'
    BY DEF TasksKnow
  <2>1. TaskInv(t)
    BY DEF BusInv, TasksKnow
  <2> QED BY <1>0, <2>1, HandledMessage, TaskStays DEF SameTask
<1>2. \A k \in Partition : Durable(k)'
  BY <1>0, DurableStays DEF BusInv
<1>3. ASSUME NEW k \in Partition PROVE Covered(k)'
  <2>1. CASE SameOwnership(k)
    <3>1. PICK t : t = <<owner[k], k[1]>>
      OBVIOUS
    <3>2. /\ owner'[k] = owner[k] /\ position'[k] = position[k]
          /\ \A i : Handling(t) /\ current[t] = i =>
                      (Handling(t)' /\ current'[t] = i) \/ Through(i)'
      BY <2>1, <3>1 DEF SameOwnership, Handling
    <3>3. Covered(k)
      BY DEF BusInv
    <3> QED BY <1>0, <3>1, <3>2, <3>3, CoveredStays
  <2> QED BY <2>1
<1>4. PartitionInOrder'
  BY <1>0, OrderStays
<1> QED BY <1>1, <1>2, <1>3, <1>4 DEF BusInv

-------------------------------------------------------------------------------
(* The broker's steps.                                                     *)

(* Publish adds a message nobody has taken.                                *)
LEMMA PublishKeeps ==
  ASSUME BusInv, NEW payload \in Payload, Publish(payload)
  PROVE  BusInv'
<1>0. BusTypeOK /\ TypeInv
  BY DEF BusInv
<1>1. TypeInv'
  BY <1>0, TypeStutter DEF Publish
<1>2. /\ published' \in Seq(Payload) /\ Len(published') = Len(published) + 1
      /\ \A i \in DOMAIN published : i \in DOMAIN published' /\ published'[i] = published[i]
  BY <1>0 DEF Publish, BusTypeOK
<1>3. UNCHANGED <<trail, pc, msg, out, offset, owner, position, loop, current, logged, missed, cause>>
  BY DEF Publish, chVars, coreVars, handlerVars
<1>4. BusGrows
  BY <1>2, <1>3 DEF BusGrows
<1>5. BusTypeOK'
  <2>1. \A k \in Partition : offset[k] <= Len(published') /\ position[k] <= Len(published')
    <3>1. Len(published) \in Nat /\ offset \in [Partition -> Int] /\ position \in [Partition -> Int]
      BY <1>0 DEF BusTypeOK
    <3> QED BY <1>0, <1>2, <3>1 DEF BusTypeOK
  <2>2. \A j \in DOMAIN trail : cause[j] \in DOMAIN published'
    BY <1>0, <1>2 DEF BusTypeOK
  <2> QED BY <1>0, <1>2, <1>3, <2>1, <2>2 DEF BusTypeOK
<1>6. \A t \in Task : SameTask(t)
  BY <1>3 DEF SameTask
<1>7. \A k \in Partition : SameOwnership(k) /\ offset'[k] = offset[k]
  BY <1>3 DEF SameOwnership, Handling
<1> QED BY <1>1, <1>3, <1>4, <1>5, <1>6, <1>7, StepKeeps

(* A new owner starts at the committed offset, which is durable, or at the *)
(* end, and then all before it is missed.                                  *)
LEMMA GiveKeeps ==
  ASSUME BusInv, NEW k \in Partition, NEW p \in Api, Give(k, p), faults' \in 0..MaxFaults
  PROVE  BusInv'
<1>0. BusTypeOK /\ TypeInv
  BY DEF BusInv
<1>1. UNCHANGED <<trail, batched, pending, first_leaf_ts, life, now, pc, home, msg, out, res,
                  reply, staging, published, offset, loop, current, logged, cause>>
  BY DEF Give, handlerVars
<1>2. TypeInv'
  BY <1>0, <1>1 DEF TypeInv, CHTypeOK, CoreTypeOK, TasksWellFormed, WellFormed, Running
<1>3. /\ owner' = [owner EXCEPT ![k] = p] /\ position' = [position EXCEPT ![k] = StartAt(k)]
      /\ missed \subseteq missed'
      /\ offset[k] = NoOffset => InPartition(k) \subseteq missed'
  BY DEF Give
<1>4. StartAt(k) \in Int /\ StartAt(k) <= Len(published)
  BY <1>0 DEF StartAt, BusTypeOK
<1>5. BusTypeOK'
  <2>1. position' \in [Partition -> Int] /\ \A x \in Partition : position'[x] <= Len(published)
    BY <1>0, <1>3, <1>4 DEF BusTypeOK
  <2>2. owner' \in [Partition -> Api \cup {Nobody}]
    BY <1>0, <1>3 DEF BusTypeOK
  <2> QED BY <1>0, <1>1, <2>1, <2>2 DEF BusTypeOK
<1>6. BusGrows
  BY <1>1, <1>3 DEF BusGrows
<1>7. Covered(k)'
  <2> SUFFICES ASSUME NEW i \in InPartition(k)', i <= position'[k] PROVE Through(i)'
    BY DEF Covered
  <2>1. i \in InPartition(k) /\ i \in DOMAIN published
    BY <1>1 DEF InPartition
  <2>2. position'[k] = StartAt(k)
    BY <1>0, <1>3 DEF BusTypeOK
  <2>3. CASE offset[k] = NoOffset
    BY <1>3, <2>1, <2>3 DEF Through, Excused
  <2>4. CASE offset[k] # NoOffset
    <3>1. Through(i)
      BY <2>1, <2>2, <2>4 DEF StartAt, BusInv, Durable
    <3> QED BY <1>6, <2>1, <3>1, FactsStay
  <2> QED BY <2>3, <2>4
<1>8. \A x \in Partition : x = k \/ SameOwnership(x)
  BY <1>0, <1>1, <1>3 DEF SameOwnership, Handling, BusTypeOK
<1>9. \A t \in Task : SameTask(t)
  BY <1>1 DEF SameTask
<1> QED BY <1>1, <1>2, <1>5, <1>6, <1>7, <1>8, <1>9, StepKeeps

-------------------------------------------------------------------------------
(* The consumers' steps.                                                   *)

\* A step of the loop that moves no offset, no position and no owner.
LoopOnly == UNCHANGED <<published, offset, owner, position, missed>>

(* A consumer that is not in a handler may start, fail or die.             *)
LEMMA IdleLoopKeeps ==
  ASSUME BusInv, NEW t \in Task, ~Handling(t), TypeInv', LoopOnly,
         UNCHANGED <<trail, pc, msg, out, current, logged, cause>>,
         NEW l \in {"polling", "failed", "dead"}, loop' = [loop EXCEPT ![t] = l]
  PROVE  BusInv'
<1>0. BusTypeOK /\ TaskInv(t)
  BY DEF BusInv, TasksKnow
<1>1. loop' \in [Task -> {"none", "polling", "handling", "failed", "dead"}]
      /\ loop'[t] = l /\ \A u \in Task : u = t \/ loop'[u] = loop[u]
  BY <1>0 DEF BusTypeOK
<1>2. BusTypeOK'
  BY <1>0, <1>1 DEF BusTypeOK, LoopOnly
<1>3. BusGrows
  BY DEF BusGrows, LoopOnly
<1>4. TaskInv(t)'
  BY <1>0, <1>1 DEF TaskInv, Handling
<1>5. \A u \in Task : u = t \/ SameTask(u)
  BY <1>1 DEF SameTask
<1>6. ASSUME NEW k \in Partition PROVE Covered(k)' \/ SameOwnership(k)
  <2>1. CASE owner[k] = Nobody
    BY <2>1 DEF Covered, LoopOnly
  <2>2. CASE owner[k] # Nobody
    <3>1. <<owner[k], k[1]>> \in Task
      BY <1>0, <2>2, TopicsAndConsumers DEF BusTypeOK
    <3> QED BY <1>1, <3>1 DEF SameOwnership, LoopOnly, Handling
  <2> QED BY <2>1, <2>2
<1>7. \A k \in Partition : offset'[k] = offset[k]
  BY DEF LoopOnly
<1> QED BY <1>2, <1>3, <1>4, <1>5, <1>6, <1>7, StepKeeps

(* subscribe, and a subscription that fails.                               *)
LEMMA SubscribeKeeps ==
  ASSUME BusInv, NEW t \in Task, Subscribe(t) \/ SubscribeFails(t)
  PROVE  BusInv'
<1>0. TypeInv
  BY DEF BusInv
<1>1. CASE Subscribe(t)
  <2>1. TypeInv'
    BY <1>0, <1>1, TypeStutter DEF Subscribe
  <2> QED BY <1>1, <2>1, IdleLoopKeeps
      DEF Subscribe, Handling, LoopOnly, chVars, coreVars, handlerVars
<1>2. CASE SubscribeFails(t)
  <2>0. UNCHANGED <<trail, batched, pending, first_leaf_ts, life, now, pc, home, msg, out, res,
                    reply, staging>>
    BY <1>2 DEF SubscribeFails, handlerVars
  <2>1. faults' \in 0..MaxFaults
    BY <1>0, <1>2, BoundAssumption DEF SubscribeFails, Fault, TypeInv, CHTypeOK, CoreTypeOK
  <2>2. TypeInv'
    BY <1>0, <2>0, <2>1 DEF TypeInv, CHTypeOK, CoreTypeOK, TasksWellFormed, WellFormed, Running
  <2> QED BY <1>2, <2>0, <2>2, IdleLoopKeeps DEF SubscribeFails, Handling, LoopOnly
<1> QED BY <1>1, <1>2

(* The value_deserializer raises: the loop dies, and has taken nothing.    *)
LEMMA GarbageKeeps ==
  ASSUME BusInv, NEW t \in Task, NEW k \in Partition, DeliverGarbage(t, k)
  PROVE  BusInv'
<1>1. TypeInv'
  BY TypeStutter DEF DeliverGarbage, BusInv
<1> QED BY <1>1, IdleLoopKeeps
    DEF DeliverGarbage, CanDeliver, Handling, LoopOnly, chVars, coreVars, handlerVars

(* A consumer that polls has only messages behind it that are through, so  *)
(* those before the next one are, too.                                     *)
LEMMA BehindNext ==
  ASSUME BusInv, NEW t \in Task, NEW k \in Partition, NEW form, CanDeliver(t, k, form)
  PROVE  /\ Ahead(k) # {} /\ ~Handling(t) /\ owner[k] # Nobody /\ t = <<owner[k], k[1]>>
         /\ \A i \in InPartition(k) : i < NextIn(k) => Through(i)
<1>1. /\ Ahead(k) # {} /\ ~Handling(t) /\ owner[k] = t[1] /\ k[1] = t[2]
  BY DEF CanDeliver, Handling
<1>2. owner[k] # Nobody /\ t = <<owner[k], k[1]>>
  BY <1>1, TopicsAndConsumers
<1>3. \A i \in InPartition(k) : i <= position[k] => Through(i)
  BY <1>1, <1>2 DEF BusInv, Covered
<1> QED BY <1>1, <1>2, <1>3, NextIsFirst DEF BusInv

(* Taking the next message keeps the types.                                *)
LEMMA TakeTypes ==
  ASSUME BusTypeOK, NEW k \in Partition, Ahead(k) # {}, Take(k)
  PROVE  /\ position' \in [Partition -> Int] /\ position'[k] = NextIn(k)
         /\ \A x \in Partition : position'[x] <= Len(published)
         /\ \A x \in Partition : x = k \/ position'[x] = position[x]
<1>1. NextIn(k) \in Int /\ NextIn(k) <= Len(published)
  BY NextIsFirst
<1> QED BY <1>1 DEF Take, BusTypeOK

(* The KeyError of an incomplete payload is logged: the message is excused. *)
LEMMA IncompleteKeeps ==
  ASSUME BusInv, NEW t \in Task, NEW k \in Partition, DeliverIncomplete(t, k)
  PROVE  BusInv'
<1>0. BusTypeOK /\ TypeInv /\ CanDeliver(t, k, {"incomplete"})
  BY DEF BusInv, DeliverIncomplete
<1>1. /\ Take(k) /\ logged' = logged \cup {NextIn(k)}
      /\ UNCHANGED <<trail, pc, msg, out, published, offset, owner, loop, current, missed, cause>>
  BY DEF DeliverIncomplete, chVars, coreVars, handlerVars
<1>2. TypeInv'
  BY <1>0, TypeStutter DEF DeliverIncomplete
<1>3. Ahead(k) # {} /\ owner[k] # Nobody /\ t = <<owner[k], k[1]>>
      /\ \A i \in InPartition(k) : i < NextIn(k) => Through(i)
  BY <1>0, BehindNext
<1>4. BusTypeOK'
  BY <1>0, <1>1, <1>3, TakeTypes DEF BusTypeOK
<1>5. BusGrows
  BY <1>1 DEF BusGrows
<1>6. Covered(k)'
  <2> SUFFICES ASSUME NEW i \in InPartition(k)', i <= position'[k] PROVE Through(i)'
    BY DEF Covered
  <2>1. i \in InPartition(k) /\ i \in DOMAIN published /\ i \in Nat
    BY <1>0, <1>1 DEF InPartition, BusTypeOK
  <2>2. i <= NextIn(k) /\ NextIn(k) \in Nat
    BY <1>0, <1>1, <1>3, TakeTypes, NextIsFirst
  <2>3. CASE i < NextIn(k)
    BY <1>3, <1>5, <2>1, <2>3, FactsStay
  <2>4. CASE i = NextIn(k)
    BY <1>1, <2>4 DEF Through, Excused
  <2> QED BY <2>1, <2>2, <2>3, <2>4
<1>7. \A x \in Partition : x = k \/ SameOwnership(x)
  BY <1>0, <1>1, <1>3, TakeTypes DEF SameOwnership, Handling
<1>8. \A u \in Task : SameTask(u)
  BY <1>1 DEF SameTask
<1> QED BY <1>1, <1>2, <1>4, <1>5, <1>6, <1>7, <1>8, StepKeeps

(* A handler starts with the message's own event, under no key.            *)
LEMMA HandlerStarts ==
  ASSUME TypeInv, NEW t \in Task, NEW m \in Message, Handler(t, m)
  PROVE  /\ TypeInv'
         /\ pc' = [pc EXCEPT ![t] = "append"] /\ msg' = [msg EXCEPT ![t] = m]
         /\ out' = [out EXCEPT ![t] = EventOf(m.kind, m.decision, NoKey, NoLeaf)]
         /\ trail' = trail
<1>1. t[1] \in Proc
  BY TopicsAndConsumers, ProcAssumption
<1>2. Arrival(t, t[1], m)
  BY DEF Handler, Arrival
<1>3. TypeInv'
  BY <1>1, <1>2, TypeArrival
<1>4. \E kind : FromBus(t, t[1], m, kind)
  BY DEF Handler, OnMetricProposed, OnDebateOutcome, OnRiskSignal, OnReconciledDecision, OnRecorded
<1>5. Arrive(t, t[1], m, EventOf(m.kind, m.decision, NoKey, NoLeaf))
  BY <1>4 DEF FromBus
<1> QED BY <1>3, <1>5 DEF Arrive, Send, coreVars

(* A delivery: the consumer is in turn, and has appended nothing yet.      *)
LEMMA DeliverKeeps ==
  ASSUME BusInv, NEW t \in Task, NEW k \in Partition, Deliver(t, k)
  PROVE  BusInv'
<1>0. BusTypeOK /\ TypeInv /\ CanDeliver(t, k, {"good", "partial"})
  BY DEF BusInv, Deliver
<1>1. /\ Take(k)
      /\ loop' = [loop EXCEPT ![t] = "handling"] /\ current' = [current EXCEPT ![t] = NextIn(k)]
      /\ UNCHANGED <<published, offset, owner, logged, missed, cause>>
  BY DEF Deliver
<1>2. /\ Ahead(k) # {} /\ owner[k] # Nobody /\ t = <<owner[k], k[1]>> /\ ~Handling(t)
      /\ \A i \in InPartition(k) : i < NextIn(k) => Through(i)
  BY <1>0, BehindNext
<1>3. PICK n : n = NextIn(k)
  OBVIOUS
<1>4. /\ n \in InPartition(k) /\ n \in DOMAIN published /\ n \in Nat
      /\ published[n].msg \in Message /\ PartitionOf(published[n].msg) = k
  BY <1>0, <1>2, <1>3, NextIsFirst
<1>5. PICK m \in Message : m = published[n].msg
  BY <1>4
<1>6. Handler(t, m)
  BY <1>3, <1>5 DEF Deliver
<1>7. /\ TypeInv' /\ trail' = trail
      /\ pc' = [pc EXCEPT ![t] = "append"] /\ msg' = [msg EXCEPT ![t] = m]
      /\ out' = [out EXCEPT ![t] = EventOf(m.kind, m.decision, NoKey, NoLeaf)]
  BY <1>0, <1>6, HandlerStarts
<1>8. /\ pc'[t] = "append" /\ msg'[t] = m /\ out'[t].type = m.kind /\ out'[t].key = NoKey
      /\ loop'[t] = "handling" /\ current'[t] = n
      /\ \A u \in Task : u = t \/ SameTask(u)
  BY <1>0, <1>1, <1>3, <1>7 DEF TypeInv, CHTypeOK, BusTypeOK, SameTask, EventOf
<1>9. BusTypeOK'
  <2>1. loop' \in [Task -> {"none", "polling", "handling", "failed", "dead"}]
        /\ current' \in [Task -> Nat]
    BY <1>0, <1>1, <1>3, <1>4 DEF BusTypeOK
  <2> QED BY <1>0, <1>1, <1>2, <1>7, <2>1, TakeTypes DEF BusTypeOK
<1>10. BusGrows
  BY <1>1, <1>7 DEF BusGrows
<1>11. TaskInv(t)'
  <2>1. m.kind = t[2]
    BY <1>2, <1>4, <1>5, TopicsAndConsumers
  <2>2. KnowsMessage(t, n)'
    BY <1>1, <1>4, <1>5, <1>8, <2>1 DEF KnowsMessage, Fits, Running
  <2>3. InTurn(n)'
    <3> SUFFICES ASSUME NEW h \in InPartition(k)', h < n PROVE Recorded(h)' \/ Excused(h)'
      BY <1>1, <1>4 DEF InTurn, PartitionOf
    <3>1. h \in InPartition(k) /\ h \in DOMAIN published
      BY <1>1 DEF InPartition
    <3>2. Through(h)'
      BY <1>2, <1>3, <1>10, <3>1, FactsStay
    <3> QED BY <3>2 DEF Through, Effective
  <2> QED BY <1>8, <2>2, <2>3 DEF TaskInv, Handling
<1>12. Covered(k)'
  <2> SUFFICES ASSUME NEW i \in InPartition(k)', i <= position'[k]
               PROVE  Through(i)' \/ (Handling(t)' /\ current'[t] = i)
    BY <1>1, <1>2 DEF Covered
  <2>1. i \in InPartition(k) /\ i \in DOMAIN published /\ i \in Nat
    BY <1>0, <1>1 DEF InPartition, BusTypeOK
  <2>2. i <= n
    BY <1>0, <1>1, <1>2, <1>3, TakeTypes
  <2>3. CASE i < n
    BY <1>2, <1>3, <1>10, <2>1, <2>3, FactsStay
  <2>4. CASE i = n
    BY <1>8, <2>4 DEF Handling
  <2> QED BY <1>4, <2>1, <2>2, <2>3, <2>4
<1>13. ASSUME NEW x \in Partition, x # k PROVE Covered(x)' \/ SameOwnership(x)
  <2>1. owner'[x] = owner[x] /\ position'[x] = position[x]
    BY <1>0, <1>1, <1>2, <1>13, TakeTypes
  <2>2. CASE owner[x] = Nobody
    BY <2>1, <2>2 DEF Covered
  <2>3. CASE owner[x] # Nobody
    <3>1. PICK u \in Task : u = <<owner[x], x[1]>>
      BY <1>0, <2>3, TopicsAndConsumers DEF BusTypeOK
    <3>2. u = t \/ SameTask(u)
      BY <1>8
    <3> QED BY <1>2, <2>1, <3>1, <3>2 DEF SameOwnership, SameTask, Handling
  <2> QED BY <2>2, <2>3
<1> QED BY <1>1, <1>7, <1>8, <1>9, <1>10, <1>11, <1>12, <1>13, StepKeeps

-------------------------------------------------------------------------------
(* The handlers' steps.                                                    *)

(* A step of a handler keeps the invariant when it keeps what its own      *)
(* consumer knows and, if it appends, the order of its partition.          *)
LEMMA OwnStepKeeps ==
  ASSUME BusInv, TypeInv', BusTypeOK', BusGrows, NEW t \in Task, Handling(t),
         KnowsMessage(t, current[t])', LoopOnly, UNCHANGED <<loop, current, logged>>,
         \A u \in Task \ {t} : pc'[u] = pc[u] /\ msg'[u] = msg[u] /\ out'[u] = out[u],
         PartitionInOrder' \/ UNCHANGED <<trail, cause>>
  PROVE  BusInv'
<1>0. BusTypeOK /\ TaskInv(t)
  BY DEF BusInv, TasksKnow
<1>1. PICK i : i = current[t]
  OBVIOUS
<1>2. /\ i \in DOMAIN published /\ InTurn(i) /\ published' = published
      /\ PartitionOf(published[i].msg) \in Partition
  BY <1>0, <1>1, HandledMessage, TopicsAndConsumers DEF TaskInv, LoopOnly
<1>3. InTurn(i)'
  <2> SUFFICES ASSUME NEW h \in InPartition(PartitionOf(published[i].msg))', h < i
               PROVE  Recorded(h)' \/ Excused(h)'
    BY DEF InTurn
  <2>1. h \in InPartition(PartitionOf(published[i].msg)) /\ h \in DOMAIN published
    BY <1>2 DEF InPartition, PartitionOf
  <2> QED BY <1>2, <2>1, FactsStay DEF InTurn
<1>4. TaskInv(t)'
  BY <1>1, <1>3 DEF TaskInv, Handling
<1>5. \A u \in Task : u = t \/ SameTask(u)
  BY DEF SameTask
<1>6. \A k \in Partition : SameOwnership(k) /\ offset'[k] = offset[k]
  BY DEF SameOwnership, Handling, LoopOnly
<1> QED BY <1>4, <1>5, <1>6, StepKeeps

(* The append of a handler that runs: the event is in the trail on behalf  *)
(* of the message, or its key was there before.                            *)
LEMMA AppendRunsKeeps ==
  ASSUME BusInv, NEW t \in Task, Handling(t), AppendStep(t), LoopOnly,
         cause' = IF trail' = trail THEN cause ELSE Append(cause, current[t]),
         UNCHANGED <<loop, current, logged>>
  PROVE  BusInv'
<1>0. BusTypeOK /\ TypeInv /\ TaskInv(t) /\ PartitionInOrder
  BY DEF BusInv, TasksKnow
<1>1. PICK i : i = current[t]
  OBVIOUS
<1>2. /\ i \in DOMAIN published /\ i \in Nat /\ msg[t] = published[i].msg /\ msg[t] \in Message
      /\ msg[t].kind \in Kind /\ KnowsMessage(t, i) /\ InTurn(i)
  BY <1>0, <1>1, HandledMessage DEF TaskInv
<1>3. TypeInv'
  BY <1>0, TypeAppendStep
<1>4. /\ pc[t] = "append" /\ AppendEvent(out[t]) /\ pc' = [pc EXCEPT ![t] = "appended"]
      /\ UNCHANGED <<msg, out>> /\ pc'[t] = "appended"
  BY <1>0 DEF AppendStep, TypeInv, CHTypeOK
<1>5. trail \in Seq(Event) /\ out[t] \in Event /\ Fits(msg[t], out[t])
  BY <1>0, <1>2, <1>4 DEF TypeInv, CHTypeOK, CoreTypeOK, TasksWellFormed, WellFormed, Running,
                          KnowsMessage
<1>6. CASE KeyTaken(out[t].key)
  <2>1. trail' = trail /\ cause' = cause
    BY <1>4, <1>6 DEF AppendEvent
  <2>2. out[t].type = "MetricCommitted" /\ out[t].key = msg[t].key /\ out[t].type # msg[t].kind
    BY <1>2, <1>5, <1>6 DEF KeyTaken, Fits, Kind
  <2>3. Recorded(i)
    BY <1>2, <1>4, <2>2 DEF KnowsMessage, Running
  <2>4. KnowsMessage(t, i)'
    BY <1>2, <1>4, <1>5, <1>6, <2>1, <2>2, <2>3
    DEF KnowsMessage, Running, Recorded, KeyTaken, LoopOnly
  <2>5. BusTypeOK'
    BY <1>0, <2>1 DEF BusTypeOK, LoopOnly
  <2>6. BusGrows
    BY <2>1 DEF BusGrows, LoopOnly
  <2>7. KnowsMessage(t, current[t])'
    BY <1>1, <2>4
  <2> QED BY <1>0, <1>3, <1>4, <2>1, <2>5, <2>6, <2>7, OwnStepKeeps DEF TypeInv, CHTypeOK
<1>7. CASE ~KeyTaken(out[t].key)
  <2>1. /\ trail' = Append(trail, out[t])
        /\ Len(trail') = Len(trail) + 1 /\ trail' # trail
    BY <1>4, <1>5, <1>7 DEF AppendEvent
  <2>2. PICK n \in Nat : n = Len(trail) + 1
    BY <1>5
  <2>3. cause' = Append(cause, i) /\ Len(cause) = Len(trail) /\ cause \in Seq(Nat)
    BY <1>0, <1>1, <2>1 DEF BusTypeOK
  <2>4. /\ n \in DOMAIN trail' /\ trail'[n] = out[t] /\ cause'[n] = i
        /\ \A j \in DOMAIN trail : j \in DOMAIN trail' /\ trail'[j] = trail[j] /\ cause'[j] = cause[j]
        /\ \A j \in DOMAIN trail' : j = n \/ j \in DOMAIN trail
        /\ cause' \in Seq(Nat) /\ Len(cause') = Len(trail')
    BY <1>2, <1>5, <2>1, <2>2, <2>3
  <2>5. BusTypeOK'
    BY <1>0, <1>2, <2>4 DEF BusTypeOK, LoopOnly
  <2>6. BusGrows
    BY <2>4 DEF BusGrows, LoopOnly
  <2>7. Caused(i, out[t].type)'
    BY <1>4, <2>4 DEF Caused
  <2>8. Recorded(i)'
    <3>1. CASE out[t].type = msg[t].kind
      BY <1>2, <2>4, <3>1 DEF Recorded, LoopOnly
    <3>2. CASE out[t].type # msg[t].kind
      BY <1>2, <1>4, <2>6, <3>2, FactsStay DEF KnowsMessage, Running
    <3> QED BY <3>1, <3>2
  <2>9. out[t].type = "MetricCommitted" => KeyTaken(msg[t].key)'
    <3> SUFFICES ASSUME out[t].type = "MetricCommitted" PROVE KeyTaken(msg[t].key)'
      OBVIOUS
    <3>1. out[t].key = msg[t].key
      BY <1>2, <1>5 DEF Fits, Kind
    <3>2. msg[t].key # NoKey
      BY <1>2, MessageAssumption, KeyAssumption DEF MessageType
    <3> QED BY <1>4, <2>4, <3>1, <3>2 DEF KeyTaken
  <2>10. KnowsMessage(t, i)'
    BY <1>2, <1>4, <1>5, <2>7, <2>8, <2>9 DEF KnowsMessage, Running, LoopOnly
  <2>11. PartitionInOrder'
    <3> SUFFICES ASSUME NEW k \in Partition, NEW h \in InPartition(k)', NEW j \in InPartition(k)',
                        h < j, Recorded(j)'
                 PROVE  Recorded(h)' \/ Excused(h)'
      BY DEF PartitionInOrder
    <3>1. /\ h \in InPartition(k) /\ j \in InPartition(k)
          /\ h \in DOMAIN published /\ j \in DOMAIN published
      BY DEF InPartition, LoopOnly
    <3>2. CASE j = i
      <4>1. k = PartitionOf(published[i].msg)
        BY <3>1, <3>2 DEF InPartition
      <4> QED BY <1>2, <2>6, <3>1, <3>2, <4>1, FactsStay DEF InTurn
    <3>3. CASE j # i
      <4>1. Recorded(j)
        BY <2>4, <3>3 DEF Recorded, LoopOnly
      <4>2. Recorded(h) \/ Excused(h)
        BY <1>0, <3>1, <4>1 DEF PartitionInOrder
      <4> QED BY <2>6, <3>1, <4>2, FactsStay
    <3> QED BY <3>2, <3>3
  <2>12. KnowsMessage(t, current[t])'
    BY <1>1, <2>10
  <2> QED BY <1>0, <1>3, <1>4, <2>5, <2>6, <2>11, <2>12, OwnStepKeeps DEF TypeInv, CHTypeOK
<1> QED BY <1>6, <1>7

(* A handler that misses a field after its append raises.                  *)
LEMMA TypeMissesField ==
  ASSUME TypeInv, NEW t \in Task, HandlerMissesField(t)
  PROVE  TypeInv'
<1>1. TasksWellFormed'
  BY EndedWellFormed DEF HandlerMissesField
<1>2. CHTypeOK'
  BY DEF HandlerMissesField, TypeInv, CHTypeOK, CoreTypeOK, coreVars
<1> QED BY <1>1, <1>2 DEF TypeInv

(* A handler goes on to its second event, ends, or raises.                 *)
LEMMA RunsKeeps ==
  ASSUME BusInv, NEW t \in Task, Handling(t), LoopOnly, UNCHANGED <<loop, current, logged, cause>>,
         \/ ResumeReconciled(t) \/ FinishCommit(t) \/ FinishOther(t) \/ AppendFails(t)
         \/ HandlerMissesField(t)
  PROVE  BusInv'
<1>0. BusTypeOK /\ TypeInv /\ TaskInv(t)
  BY DEF BusInv, TasksKnow
<1>1. PICK i : i = current[t]
  OBVIOUS
<1>2. /\ i \in DOMAIN published /\ msg[t] = published[i].msg /\ msg[t] \in Message
      /\ msg[t].kind \in Kind /\ KnowsMessage(t, i)
  BY <1>0, <1>1, HandledMessage DEF TaskInv
<1>3. TypeInv'
  BY <1>0, TypeResumeReconciled, TypeFinishCommit, TypeOther, TypeMissesField
<1>4. trail' = trail /\ msg' = msg /\ Running(t)
  BY DEF ResumeReconciled, FinishCommit, FinishOther, AppendFails, HandlerMissesField, MissesField,
         coreVars, Running
<1>5. \A u \in Task \ {t} : pc'[u] = pc[u] /\ msg'[u] = msg[u] /\ out'[u] = out[u]
  BY <1>0 DEF ResumeReconciled, FinishCommit, FinishOther, AppendFails, HandlerMissesField, Send,
              TypeInv, CHTypeOK
<1>6. BusTypeOK' /\ BusGrows
  BY <1>0, <1>4 DEF BusTypeOK, BusGrows, LoopOnly
<1>7. /\ Recorded(i)' <=> Recorded(i)
      /\ \A e : Caused(i, e)' <=> Caused(i, e)
      /\ \A x : KeyTaken(x)' <=> KeyTaken(x)
  BY <1>2, <1>4 DEF Recorded, Caused, KeyTaken, LoopOnly
<1>8. CASE ResumeReconciled(t)
  <2>1. /\ pc[t] = "appended" /\ pc'[t] = "append" /\ out'[t] = Outcome(msg[t])
        /\ out[t].type = "ReconciledDecision"
    BY <1>0, <1>8 DEF ResumeReconciled, Send, TypeInv, CHTypeOK
  <2>2. msg[t].kind = "ReconciledDecision" /\ Recorded(i)
    BY <1>2, <2>1 DEF KnowsMessage, Running, Fits
  <2>3. Fits(msg[t], Outcome(msg[t]))
    BY <2>2 DEF Fits, Outcome, RejectedEvent, CommittedEvent, EventOf
  <2>4. KnowsMessage(t, i)'
    BY <1>2, <1>4, <1>7, <2>1, <2>2, <2>3 DEF KnowsMessage, Running, LoopOnly, Fits
  <2> QED BY <1>1, <1>3, <1>4, <1>5, <1>6, <2>4, OwnStepKeeps
<1>9. CASE FinishCommit(t)
  <2>1. pc[t] = "appended" /\ pc'[t] = "done" /\ out[t].type = "MetricCommitted"
    BY <1>0, <1>9 DEF FinishCommit, TypeInv, CHTypeOK
  <2>2. /\ msg[t].evidence # {} /\ KeyTaken(msg[t].key) /\ Recorded(i)
    BY <1>2, <2>1 DEF KnowsMessage, Running, Fits, Kind
  <2>3. Effective(i)'
    BY <1>2, <1>7, <2>2 DEF Effective, LoopOnly
  <2>4. KnowsMessage(t, i)'
    BY <1>2, <1>4, <2>1, <2>3 DEF KnowsMessage, Running, LoopOnly
  <2> QED BY <1>1, <1>3, <1>4, <1>5, <1>6, <2>4, OwnStepKeeps
<1>10. CASE FinishOther(t)
  <2>1. /\ pc[t] = "appended" /\ pc'[t] = "done"
        /\ out[t].type \notin {"ReconciledDecision", "MetricCommitted"}
    BY <1>0, <1>10 DEF FinishOther, TypeInv, CHTypeOK
  <2>2. Recorded(i) /\ Fits(msg[t], out[t])
    BY <1>2, <2>1 DEF KnowsMessage, Running
  <2>3. Effective(i)
    <3>1. CASE msg[t].kind # "ReconciledDecision"
      BY <1>2, <2>2, <3>1 DEF Effective
    <3>2. CASE msg[t].kind = "ReconciledDecision"
      <4>1. msg[t].evidence = {} /\ Caused(i, "MetricRejected")
        BY <1>2, <2>1, <2>2, <3>2 DEF Fits, KnowsMessage
      <4> QED BY <1>2, <2>2, <4>1 DEF Effective, Caused
    <3> QED BY <3>1, <3>2
  <2>4. Effective(i)'
    BY <1>2, <1>6, <2>3, FactsStay
  <2>5. KnowsMessage(t, i)'
    BY <1>2, <1>4, <2>1, <2>4 DEF KnowsMessage, Running, LoopOnly
  <2> QED BY <1>1, <1>3, <1>4, <1>5, <1>6, <2>5, OwnStepKeeps
<1>11. CASE AppendFails(t) \/ HandlerMissesField(t)
  <2>1. pc'[t] = "failed"
    BY <1>0, <1>11 DEF AppendFails, HandlerMissesField, TypeInv, CHTypeOK
  <2>2. KnowsMessage(t, i)'
    BY <1>2, <1>4, <2>1 DEF KnowsMessage, Running, LoopOnly
  <2> QED BY <1>1, <1>3, <1>4, <1>5, <1>6, <2>2, OwnStepKeeps
<1> QED BY <1>8, <1>9, <1>10, <1>11

(* Every step of a running handler keeps the invariant.                    *)
LEMMA HandlerKeeps ==
  ASSUME BusInv, NEW t \in Task, HandlerRuns(t) \/ HandlerRaises(t) \/ HandlerMissesField(t)
  PROVE  BusInv'
<1>1. Handling(t)
  BY DEF BusInv, TasksKnow, TaskInv, HandlerRuns, HandlerRaises, HandlerMissesField, MissesField,
         Progress, AppendStep, ResumeReconciled, FinishCommit, FinishOther, AppendFails
<1>2. LoopOnly /\ UNCHANGED <<loop, current, logged>>
  BY DEF HandlerRuns, HandlerRaises, HandlerMissesField, LoopOnly, busVars
<1>3. CASE HandlerRuns(t) /\ AppendStep(t)
  BY <1>1, <1>2, <1>3, AppendRunsKeeps DEF HandlerRuns
<1>4. CASE HandlerRuns(t) /\ (ResumeReconciled(t) \/ FinishCommit(t) \/ FinishOther(t))
  <2>1. trail' = trail
    BY <1>4 DEF ResumeReconciled, FinishCommit, FinishOther, coreVars
  <2> QED BY <1>1, <1>2, <1>4, <2>1, RunsKeeps DEF HandlerRuns
<1>5. CASE HandlerRaises(t) \/ HandlerMissesField(t)
  BY <1>1, <1>2, <1>5, RunsKeeps DEF HandlerRaises, HandlerMissesField, busVars
<1> QED BY <1>3, <1>4, <1>5 DEF HandlerRuns, Progress

-------------------------------------------------------------------------------
(* Ends of handlers and of processes.                                      *)

(* Free resets the tasks of S and leaves the others alone.                 *)
LEMMA FreeEffect ==
  ASSUME TypeInv, BusTypeOK, NEW S, Free(S)
  PROVE  /\ \A t \in Task : t \in S => pc'[t] = "idle" /\ current'[t] = 0
         /\ \A t \in Task : t \notin S =>
              /\ pc'[t] = pc[t] /\ msg'[t] = msg[t] /\ out'[t] = out[t]
              /\ current'[t] = current[t]
         /\ current' \in [Task -> Nat]
         /\ pc' \in [Task -> {"idle", "append", "appended", "done", "failed"}]
         /\ msg' \in [Task -> Message \cup {NoMessage}]
         /\ out' \in [Task -> Event \cup {NoEvent}]
         /\ res' \in [Task -> AppendResult]
         /\ reply' \in [Task -> Reply]
<1>1. /\ pc' = [t \in Task |-> IF t \in S THEN "idle" ELSE pc[t]]
      /\ msg' = [t \in Task |-> IF t \in S THEN NoMessage ELSE msg[t]]
      /\ out' = [t \in Task |-> IF t \in S THEN NoEvent ELSE out[t]]
      /\ res' = [t \in Task |-> IF t \in S THEN NoResult ELSE res[t]]
      /\ reply' = [t \in Task |-> IF t \in S THEN "none" ELSE reply[t]]
      /\ current' = [t \in Task |-> IF t \in S THEN 0 ELSE current[t]]
  BY DEF Free
<1>2. NoResult \in AppendResult /\ "none" \in Reply
  BY DEF NoResult, AppendResult, Reply
<1> QED BY <1>1, <1>2 DEF TypeInv, CHTypeOK, BusTypeOK

(* Resetting tasks keeps the handlers' invariant.                          *)
LEMMA FreeTypes ==
  ASSUME TypeInv, BusTypeOK, NEW S, Free(S), UNCHANGED <<trail, batched, now, home>>,
         pending' \in [Proc -> Seq(PendingLeaf)],
         first_leaf_ts' \in [Proc -> (0..MaxTime) \cup {NoTime}],
         life' \in [Proc -> {"up", "stopping", "down"}],
         staging' \in [Proc -> [Decision \X Metric -> Status]],
         faults' \in 0..MaxFaults
  PROVE  TypeInv'
<1>1. CHTypeOK'
  BY FreeEffect DEF TypeInv, CHTypeOK, CoreTypeOK
<1>2. ASSUME NEW t \in Task PROVE WellFormed(t)'
  <2>1. CASE t \in S
    BY <2>1, FreeEffect DEF WellFormed, Running
  <2>2. CASE t \notin S
    <3>1. pc'[t] = pc[t] /\ msg'[t] = msg[t] /\ out'[t] = out[t]
      BY <2>2, FreeEffect
    <3> QED BY <3>1 DEF TypeInv, TasksWellFormed, WellFormed, Running
  <2> QED BY <2>1, <2>2
<1> QED BY <1>1, <1>2 DEF TypeInv, TasksWellFormed

(* The loop awaits the next message: what it leaves behind is through, and *)
(* an offset it commits covers nothing else.                               *)
LEMMA NextMessageKeeps ==
  ASSUME BusInv, NEW t \in Task, Handling(t), NextMessage(t), faults' \in 0..MaxFaults,
         logged \subseteq logged',
         CommitOffsets(t) \/ offset' = offset,
         Effective(current[t]) \/ current[t] \in logged'
  PROVE  BusInv'
<1>0. BusTypeOK /\ TypeInv /\ TaskInv(t)
  BY DEF BusInv, TasksKnow
<1>1. /\ Free({t}) /\ loop' = [loop EXCEPT ![t] = "polling"]
      /\ UNCHANGED <<trail, batched, pending, first_leaf_ts, life, now, home, staging,
                     published, owner, position, missed, cause>>
  BY DEF NextMessage
<1>2. TypeInv'
  BY <1>0, <1>1, FreeTypes DEF TypeInv, CHTypeOK, CoreTypeOK
<1>3. /\ loop' \in [Task -> {"none", "polling", "handling", "failed", "dead"}]
      /\ loop'[t] = "polling" /\ \A u \in Task : u = t \/ loop'[u] = loop[u]
  BY <1>0, <1>1 DEF BusTypeOK
<1>4. BusTypeOK'
  <2>1. offset' \in [Partition -> Int] /\ \A k \in Partition : offset'[k] <= Len(published)
    BY <1>0 DEF CommitOffsets, BusTypeOK
  <2> QED BY <1>0, <1>1, <1>3, <2>1, FreeEffect DEF BusTypeOK
<1>5. BusGrows
  BY <1>1 DEF BusGrows
<1>6. TaskInv(t)'
  BY <1>0, <1>1, <1>3, FreeEffect DEF TaskInv, Handling
<1>7. \A u \in Task : u = t \/ SameTask(u)
  BY <1>0, <1>1, <1>3, FreeEffect DEF SameTask
<1>8. PICK n : n = current[t]
  OBVIOUS
<1>9. Through(n)' /\ n \in DOMAIN published
  <2>1. n \in DOMAIN published
    BY <1>0, <1>8, HandledMessage
  <2> QED BY <1>5, <1>8, <2>1, FactsStay DEF Through, Excused
<1>10. ASSUME NEW k \in Partition PROVE Covered(k)' \/ SameOwnership(k)
  <2>1. CASE owner[k] = Nobody
    BY <1>1, <2>1 DEF Covered
  <2>2. CASE owner[k] # Nobody
    <3>1. PICK u \in Task : u = <<owner[k], k[1]>>
      BY <1>0, <2>2, TopicsAndConsumers DEF BusTypeOK
    <3>2. \A i : Handling(u) /\ current[u] = i =>
                   (Handling(u)' /\ current'[u] = i) \/ Through(i)'
      BY <1>7, <1>8, <1>9 DEF SameTask, Handling
    <3> QED BY <1>1, <3>1, <3>2 DEF SameOwnership, Handling
  <2> QED BY <2>1, <2>2
<1>11. ASSUME NEW k \in Partition PROVE Durable(k)' \/ offset'[k] = offset[k]
  <2>1. CASE CommitOffsets(t) /\ k[1] = t[2] /\ owner[k] = t[1]
    <3>1. offset'[k] = position[k]
      BY <2>1 DEF CommitOffsets
    <3>2. t = <<owner[k], k[1]>> /\ owner[k] # Nobody
      BY <2>1, TopicsAndConsumers
    <3> SUFFICES ASSUME NEW i \in InPartition(k)', i <= position[k] PROVE Through(i)'
      BY <3>1 DEF Durable
    <3>3. i \in InPartition(k) /\ i \in DOMAIN published
      BY <1>1 DEF InPartition
    <3>4. Through(i) \/ i = n
      BY <1>8, <3>2, <3>3 DEF BusInv, Covered
    <3> QED BY <1>5, <1>9, <3>3, <3>4, FactsStay
  <2>2. CASE ~(CommitOffsets(t) /\ k[1] = t[2] /\ owner[k] = t[1])
    BY <2>2 DEF CommitOffsets
  <2> QED BY <2>1, <2>2
<1> QED BY <1>1, <1>2, <1>4, <1>5, <1>6, <1>7, <1>10, <1>11, StepKeeps

(* commit(), a commit() that raises, and a handler that raised.            *)
LEMMA LoopKeeps ==
  ASSUME BusInv, NEW t \in Task, LoopCommits(t) \/ CommitFails(t) \/ LoopLogs(t)
  PROVE  BusInv'
<1>0. TypeInv /\ TaskInv(t) /\ Handling(t)
  BY DEF BusInv, TasksKnow, LoopCommits, CommitFails, LoopLogs, Handling
<1>1. faults \in 0..MaxFaults
  BY <1>0 DEF TypeInv, CHTypeOK, CoreTypeOK
<1>2. CASE LoopCommits(t)
  <2>1. Effective(current[t])
    BY <1>0, <1>2 DEF LoopCommits, TaskInv, KnowsMessage
  <2> QED BY <1>0, <1>1, <1>2, <2>1, NextMessageKeeps DEF LoopCommits
<1>3. CASE CommitFails(t)
  <2>1. faults' \in 0..MaxFaults
    BY <1>1, <1>3, BoundAssumption DEF CommitFails, Fault
  <2> QED BY <1>0, <1>3, <2>1, NextMessageKeeps DEF CommitFails
<1>4. CASE LoopLogs(t)
  BY <1>0, <1>1, <1>4, NextMessageKeeps DEF LoopLogs
<1> QED BY <1>2, <1>3, <1>4

(* A process ends: its partitions have no owner, and its handlers are      *)
(* gone; nothing it took and did not finish is committed.                  *)
LEMMA EndKeeps ==
  ASSUME BusInv, NEW p \in Api, End(p)
  PROVE  BusInv'
<1>0. BusTypeOK /\ TypeInv /\ p \in Proc /\ p # Nobody
  BY ProcAssumption, BusAssumption DEF BusInv
<1>1. PICK S : S = {t \in Task : t[1] = p}
  OBVIOUS
<1>2. /\ Free(S) /\ Fault
      /\ life' = [life EXCEPT ![p] = "down"]
      /\ pending' = [pending EXCEPT ![p] = <<>>]
      /\ first_leaf_ts' = [first_leaf_ts EXCEPT ![p] = NoTime]
      /\ staging' = [staging EXCEPT ![p] = [x \in Decision \X Metric |-> "none"]]
      /\ loop' = [t \in Task |-> IF t[1] = p THEN "none" ELSE loop[t]]
      /\ owner' = [k \in Partition |-> IF owner[k] = p THEN Nobody ELSE owner[k]]
      /\ position' = [k \in Partition |-> IF owner[k] = p THEN NoOffset ELSE position[k]]
      /\ UNCHANGED <<trail, batched, now, home, published, offset, logged, missed, cause>>
  BY <1>1 DEF End, ResetBuilder
<1>3. TypeInv'
  <2>1. /\ pending' \in [Proc -> Seq(PendingLeaf)]
        /\ first_leaf_ts' \in [Proc -> (0..MaxTime) \cup {NoTime}]
        /\ life' \in [Proc -> {"up", "stopping", "down"}]
    BY <1>0, <1>2 DEF TypeInv, CHTypeOK, CoreTypeOK
  <2>2. [x \in Decision \X Metric |-> "none"] \in [Decision \X Metric -> Status]
    BY DEF Status
  <2>3. staging' \in [Proc -> [Decision \X Metric -> Status]]
    BY <1>0, <1>2, <2>2 DEF TypeInv, CHTypeOK
  <2>4. faults' \in 0..MaxFaults
    BY <1>0, <1>2, BoundAssumption DEF Fault, TypeInv, CHTypeOK, CoreTypeOK
  <2> QED BY <1>0, <1>2, <2>1, <2>3, <2>4, FreeTypes
<1>4. BusTypeOK'
  <2>1. position' \in [Partition -> Int] /\ \A k \in Partition : position'[k] <= Len(published)
    BY <1>0, <1>2 DEF BusTypeOK, NoOffset
  <2>2. /\ owner' \in [Partition -> Api \cup {Nobody}]
        /\ loop' \in [Task -> {"none", "polling", "handling", "failed", "dead"}]
    BY <1>0, <1>2 DEF BusTypeOK
  <2> QED BY <1>0, <1>2, <2>1, <2>2, FreeEffect DEF BusTypeOK
<1>5. BusGrows
  BY <1>2 DEF BusGrows
<1>6. \A t \in Task : t[1] # p => SameTask(t)
  BY <1>0, <1>1, <1>2, FreeEffect DEF SameTask
<1>7. \A t \in Task : t[1] = p => TaskInv(t)'
  BY <1>0, <1>1, <1>2, FreeEffect DEF TaskInv, Handling
<1>8. ASSUME NEW k \in Partition PROVE Covered(k)' \/ SameOwnership(k)
  <2>1. CASE owner[k] = p \/ owner[k] = Nobody
    BY <1>2, <2>1 DEF Covered
  <2>2. CASE owner[k] # p /\ owner[k] # Nobody
    <3>1. PICK u \in Task : u = <<owner[k], k[1]>>
      BY <1>0, <2>2, TopicsAndConsumers DEF BusTypeOK
    <3>2. SameTask(u)
      BY <1>6, <2>2, <3>1
    <3> QED BY <1>2, <2>2, <3>1, <3>2 DEF SameOwnership, SameTask, Handling
  <2> QED BY <2>1, <2>2
<1> QED BY <1>2, <1>3, <1>4, <1>5, <1>6, <1>7, <1>8, StepKeeps

(* A step that leaves the bus and the handlers alone.                      *)
LEMMA RestKeeps ==
  ASSUME BusInv, TypeInv', UNCHANGED <<trail, pc, msg, out, busVars>>
  PROVE  BusInv'
<1>0. BusTypeOK
  BY DEF BusInv
<1>1. BusTypeOK' /\ BusGrows
  BY <1>0 DEF BusTypeOK, BusGrows, busVars
<1>2. \A t \in Task : SameTask(t)
  BY DEF SameTask, busVars
<1>3. \A k \in Partition : SameOwnership(k) /\ offset'[k] = offset[k]
  BY DEF SameOwnership, Handling, busVars
<1>4. UNCHANGED <<trail, cause>>
  BY DEF busVars
<1> QED BY <1>1, <1>2, <1>3, <1>4, StepKeeps

(* lifespan starts a process again.                                        *)
LEMMA RestartKeeps ==
  ASSUME BusInv, NEW p \in Api, Restart(p)
  PROVE  BusInv'
<1>0. TypeInv
  BY DEF BusInv
<1>1. life' \in [Proc -> {"up", "stopping", "down"}]
  BY <1>0, ProcAssumption DEF Restart, TypeInv, CHTypeOK, CoreTypeOK
<1>2. UNCHANGED <<trail, batched, pending, first_leaf_ts, now, faults, pc, home, msg, out, res,
                  reply, staging>> /\ UNCHANGED busVars
  BY DEF Restart, handlerVars
<1>3. TypeInv'
  BY <1>0, <1>1, <1>2 DEF TypeInv, CHTypeOK, CoreTypeOK, TasksWellFormed, WellFormed, Running
<1> QED BY <1>2, <1>3, RestKeeps

-------------------------------------------------------------------------------
(* The bus.                                                                *)

(* BusInv is inductive.                                                    *)
LEMMA BusNext == BusInv /\ [KafkaNext]_kafkaVars => BusInv'
<1> SUFFICES ASSUME BusInv, [KafkaNext]_kafkaVars PROVE BusInv'
  OBVIOUS
<1>1. ASSUME NEW payload \in Payload, Publish(payload) PROVE BusInv'
  BY <1>1, PublishKeeps
<1>2. ASSUME NEW t \in Task, Subscribe(t) \/ SubscribeFails(t) PROVE BusInv'
  BY <1>2, SubscribeKeeps
<1>3. ASSUME NEW t \in Task, LoopStep(t) PROVE BusInv'
  BY <1>3, DeliverKeeps, IncompleteKeeps, GarbageKeeps, HandlerKeeps, LoopKeeps DEF LoopStep
<1>4. ASSUME NEW t \in Task, HandlerRaises(t) \/ CommitFails(t) PROVE BusInv'
  BY <1>4, HandlerKeeps, LoopKeeps
<1>5. ASSUME NEW k \in Partition, Assign(k) \/ Rebalance(k) PROVE BusInv'
  <2>1. PICK p \in Api : Give(k, p)
    BY <1>5 DEF Assign, Rebalance
  <2>2. faults' \in 0..MaxFaults
    BY <1>5, BoundAssumption DEF Assign, Rebalance, Fault, BusInv, TypeInv, CHTypeOK, CoreTypeOK
  <2> QED BY <2>1, <2>2, GiveKeeps
<1>6. ASSUME NEW p \in Api, End(p) \/ Restart(p) PROVE BusInv'
  BY <1>6, EndKeeps, RestartKeeps
<1>7. CASE UNCHANGED kafkaVars
  <2>1. UNCHANGED <<trail, pc, msg, out, busVars>> /\ UNCHANGED chVars
    BY <1>7 DEF kafkaVars, chVars, coreVars, handlerVars
  <2> QED BY <2>1, TypeStutter, RestKeeps DEF BusInv
<1> QED BY <1>1, <1>2, <1>3, <1>4, <1>5, <1>6, <1>7 DEF KafkaNext

(* The invariant of the bus holds through every crash, rebalance and       *)
(* redelivery.                                                             *)
THEOREM BusInvariant == KafkaSpec => []BusInv
<1>1. KafkaInit => BusInv
  <2> SUFFICES ASSUME KafkaInit PROVE BusInv
    OBVIOUS
  <2>1. TypeInv /\ trail = <<>> /\ \A t \in Task : pc[t] = "idle"
    BY TypeInit DEF KafkaInit, CHInit, CoreInit, Init
  <2>2. BusTypeOK
    BY <2>1 DEF KafkaInit, BusTypeOK, NoOffset
  <2>3. TasksKnow
    BY <2>1 DEF KafkaInit, TasksKnow, TaskInv, Handling
  <2>4. \A k : InPartition(k) = {}
    BY DEF KafkaInit, InPartition
  <2> QED BY <2>1, <2>2, <2>3, <2>4 DEF BusInv, Durable, Covered, PartitionInOrder
<1> QED BY <1>1, BusNext, PTL DEF KafkaSpec

(* at-least-once (kafka_adapter.py): an offset the group has committed     *)
(* covers no message without its full effect in the trail, unless that     *)
(* message was logged as failed or was never the group's to read.          *)
THEOREM CommittedIsDurable == KafkaSpec => []OffsetIsDurable
<1>1. BusInv => OffsetIsDurable
  BY DEF BusInv, Durable, Through, OffsetIsDurable
<1> QED BY <1>1, BusInvariant, PTL

(* Events of one partition enter the trail in publication order the first  *)
(* time, also when a partition moves while its handler is still running.   *)
THEOREM OrderWithinPartition == KafkaSpec => []PartitionInOrder
<1>1. BusInv => PartitionInOrder
  BY DEF BusInv
<1> QED BY <1>1, BusInvariant, PTL

-------------------------------------------------------------------------------
(* Repetitions.  A redelivery is paid for by a failure: per partition, the *)
(* events in the trail, those being appended for the first time by their   *)
(* handler, and the messages that may be delivered once more are together  *)
(* no more than the messages begun and the failures so far.                *)

\* The message's own event is still to be appended.
First(t) == pc[t] = "append" /\ out[t].type = msg[t].kind

Copies(k) == {j \in DOMAIN trail : cause[j] \in Whole(k) /\ trail[j].type = k[1]}

Copying(k) == {t \in Task : Handling(t) /\ current[t] \in Whole(k) /\ First(t)}

Begun(k) == {i \in Whole(k) : Recorded(i) \/ \E t \in Copying(k) : current[t] = i}

\* The owner is handling message i, and will pass it unless it fails.
Shielded(k, i) ==
  LET t == <<owner[k], k[1]>> IN
    /\ owner[k] # Nobody /\ i <= position[k]
    /\ Handling(t) /\ current[t] = i /\ pc[t] # "failed"

Again(k) == {i \in Begun(k) : i > offset[k] /\ ~Shielded(k, i)}

Tally(copies, copying, begun, again, n) ==
  /\ IsFiniteSet(copies) /\ IsFiniteSet(copying) /\ IsFiniteSet(begun) /\ IsFiniteSet(again)
  /\ Cardinality(copies) + Cardinality(copying) + Cardinality(again) <= Cardinality(begun) + n

Counted(k) ==
  /\ owner[k] # Nobody => offset[k] <= position[k]
  /\ Tally(Copies(k), Copying(k), Begun(k), Again(k), faults)

RepeatInv == \A k \in Partition : Counted(k)

(* The tally when nothing begins.                                          *)
LEMMA TallySame ==
  ASSUME NEW A, NEW B, NEW C, NEW D, NEW f \in Nat, Tally(A, B, C, D, f),
         NEW E \in SUBSET D, NEW g \in Nat, g >= f
  PROVE  Tally(A, B, C, E, g)
<1>1. IsFiniteSet(E) /\ Cardinality(E) <= Cardinality(D)
  BY FS_Subset DEF Tally
<1>2. /\ Cardinality(A) \in Nat /\ Cardinality(B) \in Nat /\ Cardinality(C) \in Nat
      /\ Cardinality(D) \in Nat /\ Cardinality(E) \in Nat
  BY <1>1, FS_CardinalityType DEF Tally
<1> QED BY <1>1, <1>2 DEF Tally

(* The tally when a failure makes one more message repeatable, or takes a  *)
(* message back that nobody has recorded.                                  *)
LEMMA TallyFailure ==
  ASSUME NEW A, NEW B, NEW C, NEW D, NEW f \in Nat, Tally(A, B, C, D, f),
         NEW t, NEW i, NEW G, NEW E,
         E \subseteq D \cup {i},
         G = C \/ (t \in B /\ G = C \ {i} /\ i \notin E)
  PROVE  Tally(A, B \ {t}, G, E, f + 1)
<1>0. IsFiniteSet(A) /\ IsFiniteSet(B) /\ IsFiniteSet(C) /\ IsFiniteSet(D)
  BY DEF Tally
<1>1. /\ IsFiniteSet(D \cup {i}) /\ Cardinality(D \cup {i}) <= Cardinality(D) + 1
  <2>1. /\ IsFiniteSet(D \cup {i})
        /\ Cardinality(D \cup {i}) = IF i \in D THEN Cardinality(D) ELSE Cardinality(D) + 1
    BY <1>0, FS_AddElement
  <2>2. Cardinality(D) \in Nat
    BY <1>0, FS_CardinalityType
  <2> QED BY <2>1, <2>2
<1>2. IsFiniteSet(E) /\ Cardinality(E) <= Cardinality(D \cup {i})
  BY <1>1, FS_Subset
<1>3. /\ IsFiniteSet(B \ {t})
      /\ Cardinality(B \ {t}) = IF t \in B THEN Cardinality(B) - 1 ELSE Cardinality(B)
  BY <1>0, FS_RemoveElement
<1>4. /\ Cardinality(A) \in Nat /\ Cardinality(B) \in Nat /\ Cardinality(C) \in Nat
      /\ Cardinality(D) \in Nat /\ Cardinality(E) \in Nat /\ Cardinality(D \cup {i}) \in Nat
      /\ Cardinality(B \ {t}) \in Nat
  BY <1>0, <1>1, <1>2, <1>3, FS_CardinalityType
<1>5. CASE G = C
  <2>1. Cardinality(A) + Cardinality(B \ {t}) + Cardinality(E) <= Cardinality(C) + (f + 1)
    BY <1>1, <1>2, <1>3, <1>4 DEF Tally
  <2> QED BY <1>0, <1>2, <1>3, <1>5, <2>1 DEF Tally
<1>6. CASE t \in B /\ G = C \ {i} /\ i \notin E
  <2>1. /\ IsFiniteSet(G) /\ Cardinality(G) \in Nat
        /\ Cardinality(G) = IF i \in C THEN Cardinality(C) - 1 ELSE Cardinality(C)
    BY <1>0, <1>6, FS_RemoveElement, FS_CardinalityType
  <2>2. E \subseteq D
    BY <1>6
  <2>3. Cardinality(E) <= Cardinality(D)
    BY <1>0, <2>2, FS_Subset
  <2>4. Cardinality(A) + Cardinality(B \ {t}) + Cardinality(E) <= Cardinality(G) + (f + 1)
    BY <1>3, <1>4, <1>6, <2>1, <2>3 DEF Tally
  <2> QED BY <1>0, <1>2, <1>3, <2>1, <2>4 DEF Tally
<1> QED BY <1>5, <1>6

(* The tally when a message is delivered: the first time it is begun, then *)
(* it is one that could be repeated.                                       *)
LEMMA TallyDelivery ==
  ASSUME NEW A, NEW B, NEW C, NEW D, NEW f \in Nat, Tally(A, B, C, D, f),
         NEW t, t \notin B, NEW n, n \in C => n \in D
  PROVE  Tally(A, B \cup {t}, C \cup {n}, D \ {n}, f)
<1>0. IsFiniteSet(A) /\ IsFiniteSet(B) /\ IsFiniteSet(C) /\ IsFiniteSet(D)
  BY DEF Tally
<1>1. /\ IsFiniteSet(B \cup {t}) /\ Cardinality(B \cup {t}) = Cardinality(B) + 1
      /\ IsFiniteSet(C \cup {n})
      /\ Cardinality(C \cup {n}) = IF n \in C THEN Cardinality(C) ELSE Cardinality(C) + 1
      /\ IsFiniteSet(D \ {n})
      /\ Cardinality(D \ {n}) = IF n \in D THEN Cardinality(D) - 1 ELSE Cardinality(D)
  BY <1>0, FS_AddElement, FS_RemoveElement
<1>2. /\ Cardinality(A) \in Nat /\ Cardinality(B) \in Nat /\ Cardinality(C) \in Nat
      /\ Cardinality(D) \in Nat
  BY <1>0, FS_CardinalityType
<1>3. Cardinality(A) + Cardinality(B \cup {t}) + Cardinality(D \ {n}) <= Cardinality(C \cup {n}) + f
  BY <1>1, <1>2 DEF Tally
<1> QED BY <1>0, <1>1, <1>3 DEF Tally

(* The tally when a handler appends its message's own event.               *)
LEMMA TallyAppend ==
  ASSUME NEW A, NEW B, NEW C, NEW D, NEW f \in Nat, Tally(A, B, C, D, f),
         NEW t \in B, NEW n, n \notin A
  PROVE  Tally(A \cup {n}, B \ {t}, C, D, f)
<1>0. IsFiniteSet(A) /\ IsFiniteSet(B) /\ IsFiniteSet(C) /\ IsFiniteSet(D)
  BY DEF Tally
<1>1. /\ IsFiniteSet(A \cup {n}) /\ Cardinality(A \cup {n}) = Cardinality(A) + 1
      /\ IsFiniteSet(B \ {t}) /\ Cardinality(B \ {t}) = Cardinality(B) - 1
  BY <1>0, FS_AddElement, FS_RemoveElement
<1>2. /\ Cardinality(A) \in Nat /\ Cardinality(B) \in Nat /\ Cardinality(C) \in Nat
      /\ Cardinality(D) \in Nat
  BY <1>0, FS_CardinalityType
<1>3. Cardinality(A \cup {n}) + Cardinality(B \ {t}) + Cardinality(D) <= Cardinality(C) + f
  BY <1>1, <1>2 DEF Tally
<1> QED BY <1>0, <1>1, <1>3 DEF Tally

(* The tally bounds the repetitions: what is begun is recorded, or is the  *)
(* message of a handler that has appended nothing.                         *)
LEMMA TallyBounds ==
  ASSUME BusTypeOK, NEW k \in Partition, faults \in Nat,
         Tally(Copies(k), Copying(k), Begun(k), Again(k), faults)
  PROVE  Cardinality(Copies(k)) <= Cardinality({i \in Whole(k) : Recorded(i)}) + faults
<1>1. PICK R : R = {i \in Whole(k) : Recorded(i)}
  OBVIOUS
<1>2. PICK B : B = Copying(k)
  OBVIOUS
<1>3. PICK I : I = {current[t] : t \in B}
  OBVIOUS
<1>4. IsFiniteSet(Copies(k)) /\ IsFiniteSet(B) /\ IsFiniteSet(Begun(k)) /\ IsFiniteSet(Again(k))
  BY <1>2 DEF Tally
<1>5. R \subseteq Begun(k) /\ Begun(k) \subseteq R \cup I
  BY <1>1, <1>2, <1>3 DEF Begun
<1>6. IsFiniteSet(R)
  BY <1>4, <1>5, FS_Subset
<1>7. IsFiniteSet(I) /\ Cardinality(I) <= Cardinality(B)
  <2> DEFINE f == [t \in B |-> current[t]]
  <2>1. f \in Surjection(B, I)
    BY <1>3 DEF Surjection
  <2> HIDE DEF f
  <2> QED BY <1>4, <2>1, FS_Surjection
<1>8. Cardinality(R) \in Nat /\ Cardinality(I) \in Nat /\ Cardinality(R \cap I) \in Nat
  BY <1>6, <1>7, FS_CardinalityType, FS_Intersection
<1>9. IsFiniteSet(R \cup I) /\ Cardinality(R \cup I) = Cardinality(R) + Cardinality(I) - Cardinality(R \cap I)
  BY <1>6, <1>7, FS_Union
<1>10. Cardinality(Begun(k)) <= Cardinality(R \cup I) /\ Cardinality(R \cup I) \in Nat
  BY <1>5, <1>9, FS_Subset, FS_CardinalityType
<1>11. /\ Cardinality(Copies(k)) \in Nat /\ Cardinality(B) \in Nat
       /\ Cardinality(Begun(k)) \in Nat /\ Cardinality(Again(k)) \in Nat
  BY <1>4, FS_CardinalityType
<1>12. Cardinality(Copies(k)) + Cardinality(B) + Cardinality(Again(k)) <= Cardinality(Begun(k)) + faults
  BY <1>2 DEF Tally
<1>13. Cardinality(Copies(k)) <= Cardinality(R) + faults
  BY <1>7, <1>8, <1>9, <1>10, <1>11, <1>12
<1> QED BY <1>1, <1>13

(* The well-formed messages of a partition stay the same, and more follow. *)
LEMMA WholeStays ==
  ASSUME BusGrows, NEW k
  PROVE  /\ Whole(k) \subseteq InPartition(k) /\ Whole(k) \subseteq DOMAIN published
         /\ Whole(k)' \subseteq InPartition(k)'
         /\ \A i \in DOMAIN published : i \in Whole(k)' <=> i \in Whole(k)
  BY DEF BusGrows, Whole, InPartition

(* A message of partition k that a consumer handles is of its topic.       *)
LEMMA HandledTopic ==
  ASSUME BusTypeOK, NEW t \in Task, TaskInv(t), Handling(t),
         NEW k \in Partition, current[t] \in InPartition(k)
  PROVE  k[1] = t[2] /\ k = PartitionOf(msg[t]) /\ msg[t].kind = t[2]
<1>1. k = PartitionOf(msg[t]) /\ msg[t] \in Message /\ msg[t].kind = t[2]
  BY HandledMessage DEF InPartition, TaskInv, KnowsMessage
<1> QED BY <1>1, TopicsAndConsumers

(* The same after a step.                                                  *)
LEMMA HandledTopicNext ==
  ASSUME BusInv', NEW k \in Partition
  PROVE  \A t \in Task : Handling(t)' /\ current'[t] \in InPartition(k)' => t[2] = k[1]
<1> SUFFICES ASSUME NEW t \in Task, Handling(t)', current'[t] \in InPartition(k)'
             PROVE  t[2] = k[1]
  OBVIOUS
<1>1. TaskInv(t)'
  BY DEF BusInv, TasksKnow
<1>2. msg'[t] = published'[current'[t]].msg /\ msg'[t].kind = t[2]
  BY <1>1 DEF TaskInv, KnowsMessage
<1>3. PartitionOf(published'[current'[t]].msg) = k
  BY DEF InPartition, PartitionOf
<1> QED BY <1>2, <1>3 DEF PartitionOf

\* The step neither puts t before its first append nor takes it from there.
SameFirst(t) ==
  /\ (Handling(t) /\ First(t)) <=> (Handling(t)' /\ First(t)')
  /\ Handling(t) /\ First(t) => current'[t] = current[t]

(* Then the same consumers are at the first append of a message of k.      *)
LEMMA SameCopying ==
  ASSUME BusInv, BusInv', BusGrows, NEW k \in Partition,
         \A t \in Task : t[2] = k[1] => SameFirst(t)
  PROVE  Copying(k)' = Copying(k) /\ \A t \in Copying(k) : current'[t] = current[t]
<1>0. BusTypeOK /\ \A t \in Task : TaskInv(t)
  BY DEF BusInv, TasksKnow
<1>1. \A i \in DOMAIN published : i \in Whole(k)' <=> i \in Whole(k)
  BY WholeStays
<1>2. \A t \in Task : Handling(t) => current[t] \in DOMAIN published
  BY <1>0, HandledMessage
<1>3. \A t \in Task : Handling(t) /\ current[t] \in Whole(k) => t[2] = k[1]
  BY <1>0, HandledTopic, WholeStays
<1>4. \A t \in Task : Handling(t)' /\ current'[t] \in Whole(k)' => t[2] = k[1]
  BY HandledTopicNext, WholeStays
<1>5. \A t \in Task : t \in Copying(k)' <=> t \in Copying(k)
  BY <1>1, <1>2, <1>3, <1>4 DEF Copying, SameFirst
<1>6. Copying(k)' = Copying(k)
  BY <1>5 DEF Copying
<1>7. \A t \in Copying(k) : current'[t] = current[t]
  BY <1>3 DEF Copying, SameFirst
<1> QED BY <1>6, <1>7

(* When nothing is appended either, the same messages are begun.           *)
LEMMA SameBegun ==
  ASSUME BusInv, BusInv', BusGrows, UNCHANGED <<trail, cause>>, NEW k \in Partition,
         Copying(k)' = Copying(k), \A t \in Copying(k) : current'[t] = current[t]
  PROVE  Copies(k)' = Copies(k) /\ Begun(k)' = Begun(k)
<1>0. BusTypeOK /\ BusTypeOK' /\ \A t \in Task : TaskInv(t)
  BY DEF BusInv, TasksKnow
<1>1. \A i \in DOMAIN published : i \in Whole(k)' <=> i \in Whole(k)
  BY WholeStays
<1>2. Copies(k)' = Copies(k)
  BY <1>0, <1>1 DEF Copies, BusTypeOK
<1>3. \A t \in Copying(k) : current[t] \in DOMAIN published
  BY <1>0, HandledMessage DEF Copying
<1>4. ASSUME NEW i PROVE i \in Begun(k)' <=> i \in Begun(k)
  <2>1. i \in DOMAIN published => (Recorded(i)' <=> Recorded(i))
    BY DEF Recorded, BusGrows
  <2>2. Recorded(i)' => i \in DOMAIN published
    BY <1>0 DEF Recorded, BusTypeOK
  <2>3. i \in Whole(k) => i \in DOMAIN published
    BY WholeStays
  <2> QED BY <1>1, <1>3, <2>1, <2>2, <2>3 DEF Begun
<1> QED BY <1>2, <1>4 DEF Begun

(* A step that begins nothing and after which nothing more can be repeated *)
(* in partition k.                                                         *)
LEMMA UnseenCounted ==
  ASSUME BusInv, BusInv', BusGrows, UNCHANGED <<trail, cause>>, NEW k \in Partition, Counted(k),
         faults' = faults \/ faults' = faults + 1,
         offset[k] <= offset'[k], owner'[k] # Nobody => offset'[k] <= position'[k],
         Copying(k)' = Copying(k), \A t \in Copying(k) : current'[t] = current[t],
         \A i \in Whole(k) : Shielded(k, i) => Shielded(k, i)' \/ i <= offset'[k]
  PROVE  Counted(k)'
<1>0. BusTypeOK /\ BusTypeOK' /\ TypeInv
  BY DEF BusInv
<1>1. Copies(k)' = Copies(k) /\ Begun(k)' = Begun(k)
  BY SameBegun
<1>2. faults \in Nat /\ faults' \in Nat /\ faults' >= faults
  BY <1>0, BoundAssumption DEF TypeInv, CHTypeOK, CoreTypeOK
<1>3. Again(k)' \subseteq Again(k)
  <2> SUFFICES ASSUME NEW i \in Again(k)' PROVE i \in Again(k)
    OBVIOUS
  <2>1. i \in Begun(k) /\ i > offset'[k] /\ ~Shielded(k, i)'
    BY <1>1 DEF Again
  <2>2. i \in Whole(k) /\ i \in Nat /\ offset[k] \in Int /\ offset'[k] \in Int
    BY <1>0, <2>1 DEF Begun, Whole, InPartition, BusTypeOK
  <2> QED BY <2>1, <2>2 DEF Again
<1>4. Tally(Copies(k), Copying(k), Begun(k), Again(k)', faults')
  BY <1>2, <1>3, TallySame DEF Counted
<1> QED BY <1>1, <1>4 DEF Counted

(* A failure that ends a handler, or takes a partition from its owner.     *)
LEMMA FailureCounted ==
  ASSUME BusInv, BusInv', BusGrows, UNCHANGED <<trail, cause, published, offset>>,
         NEW k \in Partition, Counted(k), faults' = faults + 1,
         owner'[k] # Nobody => offset[k] <= position'[k],
         NEW t \in Task,
         \A u \in Task : u = t \/ u[2] # k[1] \/ SameTask(u),
         t[2] = k[1],
         SameTask(t) \/ (Handling(t) /\ ~(Handling(t)' /\ First(t)')) \/ ~(Handling(t) \/ Handling(t)'),
         \A i : Shielded(k, i) => Shielded(k, i)' \/ (Handling(t) /\ current[t] = i)
  PROVE  Counted(k)'
<1>0. BusTypeOK /\ BusTypeOK' /\ TypeInv /\ \A u \in Task : TaskInv(u) /\ TaskInv(u)'
  BY DEF BusInv, TasksKnow
<1>1. faults \in Nat /\ faults + 1 \in Nat
  BY <1>0, BoundAssumption DEF TypeInv, CHTypeOK, CoreTypeOK
<1>2. Whole(k)' = Whole(k) /\ Copies(k)' = Copies(k) /\ \A i : Recorded(i)' <=> Recorded(i)
  BY DEF Whole, InPartition, Copies, Recorded
<1>3. \A u \in Task : Handling(u) /\ current[u] \in Whole(k) => u[2] = k[1]
  BY <1>0, HandledTopic, WholeStays
<1>4. \A u \in Task : Handling(u)' /\ current'[u] \in Whole(k)' => u[2] = k[1]
  BY HandledTopicNext, WholeStays
<1>5. \A u \in Task : u # t => (u \in Copying(k)' <=> u \in Copying(k))
  BY <1>2, <1>3, <1>4 DEF Copying, SameTask, Handling, First
<1>6. PICK i : i = current[t]
  OBVIOUS
<1>7. CASE SameTask(t) \/ ~(Handling(t) \/ Handling(t)')
  <2>1. t \in Copying(k)' <=> t \in Copying(k)
    BY <1>2, <1>7 DEF Copying, SameTask, Handling, First
  <2>2. Copying(k)' = Copying(k)
    BY <1>5, <2>1 DEF Copying
  <2>3. \A u \in Copying(k) : current'[u] = current[u]
    BY <1>3, <1>7 DEF Copying, SameTask
  <2>4. Begun(k)' = Begun(k)
    BY <1>2, <2>2, <2>3 DEF Begun
  <2>5. Again(k)' \subseteq Again(k) \cup {i}
    BY <1>6, <2>4 DEF Again
  <2>6. PICK x : x \notin Copying(k)
    <3>1. <<0, 0, 0>> \notin Task
      BY BusAssumption
    <3> QED BY <3>1 DEF Copying
  <2>7. Tally(Copies(k), Copying(k) \ {x}, Begun(k), Again(k)', faults + 1)
    BY <1>1, <2>5, TallyFailure DEF Counted
  <2>8. Copying(k) \ {x} = Copying(k)
    BY <2>6
  <2> QED BY <1>2, <2>2, <2>4, <2>7, <2>8 DEF Counted
<1>8. CASE Handling(t) /\ ~(Handling(t)' /\ First(t)')
  <2>1. t \notin Copying(k)'
    BY <1>8 DEF Copying
  <2>2. Copying(k)' = Copying(k) \ {t}
    BY <1>5, <2>1 DEF Copying
  <2>3. \A u \in Copying(k) : u # t => current'[u] = current[u]
    BY <1>3 DEF Copying, SameTask
  <2>4. \A h : h # i => (h \in Begun(k)' <=> h \in Begun(k))
    BY <1>2, <1>6, <2>2, <2>3 DEF Begun
  <2>5. Begun(k)' \subseteq Begun(k)
    BY <1>2, <2>2, <2>3 DEF Begun
  <2>6. Begun(k)' = Begun(k) \/ (t \in Copying(k) /\ Begun(k)' = Begun(k) \ {i})
    <3>1. CASE i \in Begun(k) /\ i \notin Begun(k)'
      <4>1. t \in Copying(k)
        BY <1>2, <1>6, <2>2, <2>3, <3>1 DEF Begun
      <4>2. Begun(k)' = Begun(k) \ {i}
        BY <2>4, <2>5, <3>1
      <4> QED BY <4>1, <4>2
    <3>2. CASE ~(i \in Begun(k) /\ i \notin Begun(k)')
      BY <2>4, <2>5, <3>2
    <3> QED BY <3>1, <3>2
  <2>7. Again(k)' \subseteq Again(k) \cup {i}
    BY <1>6, <2>5 DEF Again
  <2>8. Begun(k)' = Begun(k) \ {i} => i \notin Again(k)'
    BY DEF Again
  <2>9. Tally(Copies(k), Copying(k) \ {t}, Begun(k)', Again(k)', faults + 1)
    BY <1>1, <2>6, <2>7, <2>8, TallyFailure DEF Counted
  <2> QED BY <1>2, <2>2, <2>9 DEF Counted
<1> QED BY <1>7, <1>8

(* Consumers and partitions that a step left alone are counted as before.  *)
LEMMA SameCounted ==
  ASSUME BusInv, BusInv', BusGrows, UNCHANGED <<trail, cause>>, NEW k \in Partition, Counted(k),
         faults' = faults \/ faults' = faults + 1,
         offset'[k] = offset[k], owner'[k] = owner[k],
         \A t \in Task : t[2] = k[1] => SameFirst(t),
         NEW u, u = <<owner[k], k[1]>>,
         \/ owner[k] = Nobody
         \/ position'[k] >= position[k] /\ ~Handling(u)
         \/ /\ position'[k] = position[k]
            /\ Handling(u) => /\ Handling(u)' /\ current'[u] = current[u]
                              /\ pc[u] # "failed" => pc'[u] # "failed"
  PROVE  Counted(k)'
<1>0. BusTypeOK /\ BusTypeOK'
  BY DEF BusInv
<1>1. Copying(k)' = Copying(k) /\ \A t \in Copying(k) : current'[t] = current[t]
  BY SameCopying
<1>2. offset[k] \in Int /\ position[k] \in Int /\ position'[k] \in Int
  BY <1>0 DEF BusTypeOK
<1>3. offset[k] <= offset'[k] /\ (owner'[k] # Nobody => offset'[k] <= position'[k])
  BY <1>2 DEF Counted
<1>4. \A i : Shielded(k, i) => Shielded(k, i)'
  BY DEF Shielded, Handling
<1> QED BY <1>1, <1>3, <1>4, UnseenCounted

(* Steps of the broker and of consumers outside their handlers.            *)
LEMMA QuietRepeats ==
  ASSUME BusInv, BusInv', BusGrows, RepeatInv, UNCHANGED <<trail, cause, offset, owner>>,
         faults' = faults \/ faults' = faults + 1,
         \A t \in Task : /\ Handling(t)' <=> Handling(t)
                         /\ Handling(t) => SameTask(t),
         \A k \in Partition : \/ position'[k] = position[k]
                              \/ position'[k] >= position[k] /\ ~Handling(<<owner[k], k[1]>>)
  PROVE  RepeatInv'
<1> SUFFICES ASSUME NEW k \in Partition PROVE Counted(k)'
  BY DEF RepeatInv
<1>0. BusTypeOK /\ Counted(k)
  BY DEF BusInv, RepeatInv
<1>1. \A t \in Task : SameFirst(t)
  BY DEF SameFirst, SameTask, First
<1>2. PICK u : u = <<owner[k], k[1]>>
  OBVIOUS
<1>3. owner[k] = Nobody \/ u \in Task
  BY <1>0, <1>2, TopicsAndConsumers DEF BusTypeOK
<1>4. \/ owner[k] = Nobody
      \/ position'[k] >= position[k] /\ ~Handling(u)
      \/ /\ position'[k] = position[k]
         /\ Handling(u) => /\ Handling(u)' /\ current'[u] = current[u]
                           /\ pc[u] # "failed" => pc'[u] # "failed"
  BY <1>2, <1>3 DEF SameTask
<1> QED BY <1>0, <1>1, <1>2, <1>4, SameCounted

(* Every step lets the logs grow.                                          *)
LEMMA BusGrowsNext == BusInv /\ [KafkaNext]_kafkaVars => BusGrows
<1> SUFFICES ASSUME BusInv, [KafkaNext]_kafkaVars PROVE BusGrows
  OBVIOUS
<1>0. published \in Seq(Payload) /\ trail \in Seq(Event) /\ cause \in Seq(Nat) /\ Len(cause) = Len(trail)
  BY DEF BusInv, BusTypeOK, TypeInv, CHTypeOK, CoreTypeOK
<1>1. ASSUME NEW payload \in Payload, Publish(payload) PROVE BusGrows
  BY <1>0, <1>1 DEF Publish, BusGrows, chVars, coreVars
<1>2. ASSUME NEW t \in Task,
             \/ Subscribe(t) \/ SubscribeFails(t) \/ HandlerRaises(t) \/ CommitFails(t)
             \/ LoopCommits(t) \/ LoopLogs(t) \/ HandlerMissesField(t)
      PROVE BusGrows
  BY <1>2 DEF Subscribe, SubscribeFails, HandlerRaises, CommitFails, LoopCommits, LoopLogs,
              HandlerMissesField, AppendFails, NextMessage, busVars, chVars, coreVars, BusGrows
<1>3. ASSUME NEW t \in Task, NEW k \in Partition,
             Deliver(t, k) \/ DeliverIncomplete(t, k) \/ DeliverGarbage(t, k)
      PROVE BusGrows
  <2>1. trail' = trail
    <3>1. CASE Deliver(t, k)
      BY <3>1 DEF Deliver, Handler, OnMetricProposed, OnDebateOutcome, OnRiskSignal,
                  OnReconciledDecision, OnRecorded, FromBus, Arrive, coreVars
    <3>2. CASE DeliverIncomplete(t, k) \/ DeliverGarbage(t, k)
      BY <3>2 DEF DeliverIncomplete, DeliverGarbage, chVars, coreVars
    <3> QED BY <1>3, <3>1, <3>2
  <2> QED BY <1>3, <2>1 DEF Deliver, DeliverIncomplete, DeliverGarbage, BusGrows
<1>4. ASSUME NEW t \in Task, HandlerRuns(t) PROVE BusGrows
  <2>1. CASE trail' = trail
    BY <1>4, <2>1 DEF HandlerRuns, BusGrows
  <2>2. CASE trail' # trail
    <3>1. trail' = Append(trail, out[t])
      BY <1>4, <2>2 DEF HandlerRuns, Progress, AppendStep, AppendEvent, ResumeReconciled,
                        FinishCommit, FinishOther, coreVars
    <3>2. cause' = Append(cause, current[t])
      BY <1>4, <2>2 DEF HandlerRuns
    <3>3. \A j \in DOMAIN trail : /\ j \in DOMAIN trail' /\ trail'[j] = trail[j]
                                  /\ cause'[j] = cause[j]
      BY <1>0, <3>1, <3>2
    <3> QED BY <1>4, <3>3 DEF HandlerRuns, BusGrows
  <2> QED BY <2>1, <2>2
<1>5. ASSUME NEW k \in Partition, Assign(k) \/ Rebalance(k) PROVE BusGrows
  BY <1>5 DEF Assign, Rebalance, Give, BusGrows
<1>6. ASSUME NEW p \in Api, End(p) \/ Restart(p) PROVE BusGrows
  BY <1>6 DEF End, Restart, busVars, BusGrows
<1>7. CASE UNCHANGED kafkaVars
  BY <1>7 DEF kafkaVars, busVars, chVars, coreVars, BusGrows
<1> QED BY <1>1, <1>2, <1>3, <1>4, <1>5, <1>6, <1>7 DEF KafkaNext, LoopStep

(* Publishing, subscribing, a start, and payloads no handler runs for.     *)
LEMMA OutsideRepeats ==
  ASSUME BusInv, BusInv', BusGrows, RepeatInv,
         \/ \E payload \in Payload : Publish(payload)
         \/ \E t \in Task : \/ Subscribe(t) \/ SubscribeFails(t)
                            \/ \E k \in Partition : DeliverIncomplete(t, k) \/ DeliverGarbage(t, k)
         \/ \E p \in Api : Restart(p)
         \/ UNCHANGED kafkaVars
  PROVE  RepeatInv'
<1>0. BusTypeOK
  BY DEF BusInv
<1>1. CASE \/ \E payload \in Payload : Publish(payload)
           \/ \E p \in Api : Restart(p)
           \/ UNCHANGED kafkaVars
  <2>1. UNCHANGED <<trail, faults, pc, msg, out, offset, owner, position, loop, current, cause>>
    BY <1>1 DEF Publish, Restart, kafkaVars, busVars, chVars, coreVars, handlerVars
  <2>2. \A t \in Task : (Handling(t)' <=> Handling(t)) /\ SameTask(t)
    BY <2>1 DEF Handling, SameTask
  <2> QED BY <2>1, <2>2, QuietRepeats
<1>2. ASSUME NEW t \in Task, Subscribe(t) \/ SubscribeFails(t) PROVE RepeatInv'
  <2>1. /\ UNCHANGED <<trail, pc, msg, out, offset, owner, position, current, cause>>
        /\ faults' = faults \/ faults' = faults + 1
        /\ loop[t] = "none" /\ \E l \in {"polling", "failed"} : loop' = [loop EXCEPT ![t] = l]
    BY <1>2 DEF Subscribe, SubscribeFails, Fault, chVars, coreVars, handlerVars
  <2>2. \A u \in Task : /\ Handling(u)' <=> Handling(u)
                        /\ Handling(u) => SameTask(u)
    BY <1>0, <2>1 DEF Handling, SameTask, BusTypeOK
  <2> QED BY <2>1, <2>2, QuietRepeats
<1>3. ASSUME NEW t \in Task, NEW k \in Partition, DeliverGarbage(t, k) PROVE RepeatInv'
  <2>1. /\ UNCHANGED <<trail, faults, pc, msg, out, offset, owner, position, current, cause>>
        /\ loop[t] = "polling" /\ loop' = [loop EXCEPT ![t] = "dead"]
    BY <1>3 DEF DeliverGarbage, CanDeliver, chVars, coreVars, handlerVars
  <2>2. \A u \in Task : /\ Handling(u)' <=> Handling(u)
                        /\ Handling(u) => SameTask(u)
    BY <1>0, <2>1 DEF Handling, SameTask, BusTypeOK
  <2> QED BY <2>1, <2>2, QuietRepeats
<1>4. ASSUME NEW t \in Task, NEW k \in Partition, DeliverIncomplete(t, k) PROVE RepeatInv'
  <2>1. /\ UNCHANGED <<trail, faults, pc, msg, out, offset, owner, loop, current, cause>>
        /\ CanDeliver(t, k, {"incomplete"}) /\ Take(k)
    BY <1>4 DEF DeliverIncomplete, chVars, coreVars, handlerVars
  <2>2. \A u \in Task : (Handling(u)' <=> Handling(u)) /\ SameTask(u)
    BY <2>1 DEF Handling, SameTask
  <2>3. Ahead(k) # {} /\ ~Handling(<<owner[k], k[1]>>)
    BY <2>1, BehindNext
  <2>4. \A x \in Partition : x = k \/ position'[x] = position[x]
    BY <1>0, <2>1, <2>3, TakeTypes
  <2>5. position'[k] >= position[k]
    <3>1. position'[k] = NextIn(k) /\ NextIn(k) > position[k] /\ NextIn(k) \in Nat
      BY <1>0, <2>1, <2>3, TakeTypes, NextIsFirst
    <3>2. position[k] \in Int
      BY <1>0 DEF BusTypeOK
    <3> QED BY <3>1, <3>2
  <2> QED BY <2>1, <2>2, <2>3, <2>4, <2>5, QuietRepeats
<1> QED BY <1>1, <1>2, <1>3, <1>4

(* A partition gets an owner, or is taken from one.                        *)
LEMMA GiveRepeats ==
  ASSUME BusInv, BusInv', BusGrows, RepeatInv, NEW k \in Partition, Assign(k) \/ Rebalance(k)
  PROVE  RepeatInv'
<1>0. BusTypeOK /\ BusTypeOK'
  BY DEF BusInv
<1>1. PICK p \in Api : Give(k, p)
  BY DEF Assign, Rebalance
<1>2. /\ UNCHANGED <<trail, pc, msg, out, published, offset, loop, current, cause>>
      /\ owner' = [owner EXCEPT ![k] = p] /\ position' = [position EXCEPT ![k] = StartAt(k)]
  BY <1>1 DEF Give, handlerVars
<1>3. faults' = faults \/ faults' = faults + 1
  BY DEF Assign, Rebalance, Fault
<1>4. \A t \in Task : SameTask(t) /\ SameFirst(t) /\ (Handling(t)' <=> Handling(t))
  BY <1>2 DEF SameTask, SameFirst, First, Handling
<1>5. offset[k] <= position'[k] /\ offset[k] \in Int
  <2>1. offset[k] \in Int /\ Len(published) \in Nat /\ offset[k] <= Len(published)
    BY <1>0 DEF BusTypeOK
  <2>2. position'[k] = StartAt(k)
    BY <1>0, <1>2 DEF BusTypeOK
  <2> QED BY <2>1, <2>2 DEF StartAt
<1>6. ASSUME NEW x \in Partition, x # k PROVE Counted(x)'
  <2>1. Counted(x) /\ owner'[x] = owner[x] /\ position'[x] = position[x]
    BY <1>0, <1>2, <1>6 DEF RepeatInv, BusTypeOK
  <2>2. PICK u : u = <<owner[x], x[1]>>
    OBVIOUS
  <2>3. Handling(u) => Handling(u)' /\ current'[u] = current[u] /\ (pc[u] # "failed" => pc'[u] # "failed")
    BY <1>2 DEF Handling
  <2> QED BY <1>2, <1>3, <1>4, <2>1, <2>2, <2>3, SameCounted
<1>7. CASE Assign(k)
  <2>1. owner[k] = Nobody
    BY <1>7 DEF Assign
  <2>2. Copying(k)' = Copying(k) /\ \A t \in Copying(k) : current'[t] = current[t]
    BY <1>4, SameCopying
  <2>3. Counted(k) /\ offset[k] <= offset'[k] /\ offset'[k] <= position'[k]
    BY <1>2, <1>5 DEF RepeatInv
  <2>4. \A i : ~Shielded(k, i)
    BY <2>1 DEF Shielded
  <2> QED BY <1>2, <1>3, <1>6, <2>2, <2>3, <2>4, UnseenCounted DEF RepeatInv
<1>8. CASE Rebalance(k)
  <2>1. owner[k] # Nobody /\ faults' = faults + 1
    BY <1>8 DEF Rebalance, Fault
  <2>2. PICK t \in Task : t = <<owner[k], k[1]>>
    BY <1>0, <2>1, TopicsAndConsumers DEF BusTypeOK
  <2>3. \A i : Shielded(k, i) => Handling(t) /\ current[t] = i
    BY <2>2 DEF Shielded
  <2>4. Counted(k)
    BY DEF RepeatInv
  <2>5. t[2] = k[1]
    BY <2>2
  <2>6. Counted(k)'
    BY <1>2, <1>4, <1>5, <2>1, <2>3, <2>4, <2>5, FailureCounted
  <2> QED BY <1>6, <2>6 DEF RepeatInv
<1> QED BY <1>7, <1>8

(* A delivery begins a message, or uses up one of its repetitions.         *)
LEMMA DeliverRepeats ==
  ASSUME BusInv, BusInv', BusGrows, RepeatInv,
         NEW t \in Task, NEW k \in Partition, Deliver(t, k)
  PROVE  RepeatInv'
<1>0. /\ BusTypeOK /\ BusTypeOK' /\ TypeInv /\ CanDeliver(t, k, {"good", "partial"}) /\ Counted(k)
      /\ \A u \in Task : TaskInv(u)
  BY DEF BusInv, Deliver, RepeatInv, TasksKnow
<1>1. /\ Take(k)
      /\ loop' = [loop EXCEPT ![t] = "handling"] /\ current' = [current EXCEPT ![t] = NextIn(k)]
      /\ UNCHANGED <<published, offset, owner, cause>>
  BY DEF Deliver
<1>2. /\ Ahead(k) # {} /\ owner[k] # Nobody /\ t = <<owner[k], k[1]>> /\ ~Handling(t)
  BY <1>0, BehindNext
<1>3. PICK n : n = NextIn(k)
  OBVIOUS
<1>4. /\ n \in InPartition(k) /\ n \in Nat /\ n > position[k]
      /\ published[n].msg \in Message /\ PartitionOf(published[n].msg) = k
  BY <1>0, <1>2, <1>3, NextIsFirst
<1>5. /\ trail' = trail /\ faults' = faults
      /\ pc' = [pc EXCEPT ![t] = "append"] /\ msg' = [msg EXCEPT ![t] = published[n].msg]
      /\ out' = [out EXCEPT ![t] = EventOf(published[n].msg.kind, published[n].msg.decision, NoKey, NoLeaf)]
  <2>1. PICK m \in Message : m = published[n].msg
    BY <1>4
  <2>2. Handler(t, m)
    BY <1>3, <2>1 DEF Deliver
  <2>3. faults' = faults
    BY <2>2 DEF Handler, OnMetricProposed, OnDebateOutcome, OnRiskSignal, OnReconciledDecision,
                OnRecorded, FromBus, Arrive, coreVars
  <2> QED BY <1>0, <2>1, <2>2, <2>3, HandlerStarts
<1>6. /\ pc'[t] = "append" /\ out'[t].type = msg'[t].kind /\ Handling(t)' /\ First(t)'
      /\ current'[t] = n /\ \A u \in Task : u = t \/ SameTask(u)
  BY <1>0, <1>1, <1>3, <1>5 DEF TypeInv, CHTypeOK, BusTypeOK, SameTask, EventOf, Handling, First
<1>7. \A x : Whole(x)' = Whole(x)
  BY <1>1 DEF Whole, InPartition
<1>8. position'[k] = n /\ \A x \in Partition : x = k \/ position'[x] = position[x]
  BY <1>0, <1>1, <1>2, <1>3, TakeTypes
<1>9. \A u \in Task \ {t} : /\ Handling(u)' <=> Handling(u)
                            /\ First(u)' <=> First(u)
                            /\ current'[u] = current[u]
  BY <1>6 DEF SameTask, Handling, First
<1>10. ASSUME NEW x \in Partition, x # k PROVE Counted(x)'
  <2>1. n \notin Whole(x)
    BY <1>4, <1>10 DEF Whole, InPartition
  <2>2. Copying(x)' = Copying(x)
    BY <1>2, <1>6, <1>7, <1>9, <2>1 DEF Copying
  <2>3. \A u \in Copying(x) : current'[u] = current[u]
    BY <1>2, <1>9 DEF Copying
  <2>4. Counted(x) /\ offset[x] \in Int /\ offset'[x] = offset[x] /\ owner'[x] = owner[x]
        /\ position'[x] = position[x]
    BY <1>0, <1>1, <1>8, <1>10 DEF RepeatInv, BusTypeOK
  <2>5. ASSUME NEW i, Shielded(x, i) PROVE Shielded(x, i)'
    <3>1. PICK u \in Task : u = <<owner[x], x[1]>>
      BY <1>0, <2>5, TopicsAndConsumers DEF Shielded, BusTypeOK
    <3>2. Handling(u) /\ current[u] = i /\ pc[u] # "failed" /\ i <= position[x] /\ owner[x] # Nobody
      BY <2>5, <3>1 DEF Shielded
    <3>3. SameTask(u)
      BY <1>2, <1>6, <3>2
    <3> QED BY <2>4, <3>1, <3>2, <3>3 DEF Shielded, SameTask, Handling
  <2>6. offset[x] <= offset'[x] /\ (owner'[x] # Nobody => offset'[x] <= position'[x])
    BY <2>4 DEF Counted
  <2> QED BY <1>1, <1>5, <2>2, <2>3, <2>4, <2>5, <2>6, UnseenCounted
<1>11. CASE n \in Whole(k)
  <2>1. Copying(k)' = Copying(k) \cup {t} /\ t \notin Copying(k)
    BY <1>2, <1>6, <1>7, <1>9, <1>11 DEF Copying
  <2>2. Copies(k)' = Copies(k) /\ \A i : Recorded(i)' <=> Recorded(i)
    BY <1>1, <1>5, <1>7 DEF Copies, Recorded
  <2>3. \A u \in Copying(k) : current'[u] = current[u]
    BY <1>9, <2>1 DEF Copying
  <2>4. Begun(k)' = Begun(k) \cup {n}
    <3>1. \A i : i \in Begun(k)' <=> i \in Begun(k) \cup {n}
      BY <1>6, <1>7, <1>11, <2>1, <2>2, <2>3 DEF Begun
    <3> QED BY <3>1
  <2>5. \A i : ~Shielded(k, i)
    BY <1>2 DEF Shielded
  <2>6. \A i : Shielded(k, i)' <=> i = n
    <3>1. <<owner'[k], k[1]>> = t /\ owner'[k] # Nobody
      BY <1>1, <1>2
    <3>2. n <= position'[k]
      BY <1>4, <1>8
    <3> QED BY <1>6, <3>1, <3>2 DEF Shielded
  <2>7. Again(k)' = Again(k) \ {n}
    <3>1. \A i : i \in Again(k)' <=> i \in Again(k) \ {n}
      BY <1>1, <2>4, <2>5, <2>6 DEF Again
    <3> QED BY <3>1
  <2>8. offset[k] \in Int /\ position[k] \in Int /\ offset[k] <= position[k]
    BY <1>0, <1>2 DEF Counted, BusTypeOK
  <2>9. n \in Begun(k) => n \in Again(k)
    BY <1>4, <2>5, <2>8 DEF Again
  <2>10. faults \in Nat
    BY <1>0, BoundAssumption DEF TypeInv, CHTypeOK, CoreTypeOK
  <2>11. Tally(Copies(k), Copying(k) \cup {t}, Begun(k) \cup {n}, Again(k) \ {n}, faults)
    BY <1>0, <2>1, <2>9, <2>10, TallyDelivery DEF Counted
  <2>12. offset'[k] <= position'[k]
    BY <1>1, <1>4, <1>8, <2>8
  <2>13. Counted(k)'
    BY <1>5, <2>1, <2>2, <2>4, <2>7, <2>11, <2>12 DEF Counted
  <2> QED BY <1>10, <2>13 DEF RepeatInv
<1>12. CASE n \notin Whole(k)
  <2>1. Copying(k)' = Copying(k)
    BY <1>2, <1>6, <1>7, <1>9, <1>12 DEF Copying
  <2>2. \A u \in Copying(k) : current'[u] = current[u]
    BY <1>2, <1>9 DEF Copying
  <2>3. \A i : ~Shielded(k, i)
    BY <1>2 DEF Shielded
  <2>4. /\ offset[k] \in Int /\ position[k] \in Int /\ offset[k] <= position[k]
        /\ offset'[k] = offset[k]
    BY <1>0, <1>1, <1>2 DEF Counted, BusTypeOK
  <2>5. offset[k] <= offset'[k] /\ offset'[k] <= position'[k]
    BY <1>4, <1>8, <2>4
  <2>6. Counted(k)'
    BY <1>0, <1>1, <1>5, <2>1, <2>2, <2>3, <2>5, UnseenCounted
  <2> QED BY <1>10, <2>6 DEF RepeatInv
<1> QED BY <1>11, <1>12

(* A handler's append.                                                     *)
LEMMA AppendRepeats ==
  ASSUME BusInv, BusInv', BusGrows, RepeatInv, NEW t \in Task, HandlerRuns(t), AppendStep(t),
         trail' # trail
  PROVE  RepeatInv'
<1>0. /\ BusTypeOK /\ BusTypeOK' /\ TypeInv /\ TaskInv(t) /\ Handling(t)
      /\ \A u \in Task : TaskInv(u)
  BY DEF BusInv, TasksKnow, AppendStep, TaskInv
<1>1. /\ pc[t] = "append" /\ pc' = [pc EXCEPT ![t] = "appended"]
      /\ trail' = Append(trail, out[t])
      /\ UNCHANGED <<msg, out, faults>>
  BY DEF AppendStep, AppendEvent
<1>2. /\ cause' = Append(cause, current[t])
      /\ UNCHANGED <<published, offset, owner, position, loop, current>>
  BY DEF HandlerRuns
<1>3. PICK i : i = current[t]
  OBVIOUS
<1>4. /\ i \in DOMAIN published /\ i \in Nat /\ msg[t] = published[i].msg /\ msg[t] \in Message
      /\ KnowsMessage(t, i)
  BY <1>0, <1>3, HandledMessage DEF TaskInv
<1>5. trail \in Seq(Event) /\ out[t] \in Event /\ cause \in Seq(Nat) /\ Len(cause) = Len(trail)
  BY <1>0, <1>1 DEF TypeInv, CHTypeOK, CoreTypeOK, TasksWellFormed, WellFormed, Running, BusTypeOK
<1>6. PICK n \in Nat : n = Len(trail) + 1
  BY <1>5
<1>7. /\ n \notin DOMAIN trail /\ DOMAIN trail' = DOMAIN trail \cup {n}
      /\ trail'[n] = out[t] /\ cause'[n] = i
      /\ \A j \in DOMAIN trail : trail'[j] = trail[j] /\ cause'[j] = cause[j]
  BY <1>1, <1>2, <1>3, <1>4, <1>5, <1>6
<1>8. /\ pc'[t] = "appended" /\ ~First(t)' /\ \A u \in Task : Handling(u)' <=> Handling(u)
      /\ \A u \in Task \ {t} : pc'[u] = pc[u] /\ (First(u)' <=> First(u))
  BY <1>0, <1>1, <1>2 DEF First, Handling, TypeInv, CHTypeOK
<1>9. \A x : Whole(x)' = Whole(x) /\ Whole(x) \subseteq InPartition(x)
  BY <1>2 DEF Whole, InPartition
<1>10. \A x \in Partition : \A h : Shielded(x, h)' <=> Shielded(x, h)
  <2> SUFFICES ASSUME NEW x \in Partition, NEW h PROVE Shielded(x, h)' <=> Shielded(x, h)
    OBVIOUS
  <2>1. CASE owner[x] = Nobody
    BY <1>2, <2>1 DEF Shielded
  <2>2. CASE owner[x] # Nobody
    <3>1. PICK u \in Task : u = <<owner[x], x[1]>>
      BY <1>0, <2>2, TopicsAndConsumers DEF BusTypeOK
    <3>2. pc[u] # "failed" <=> pc'[u] # "failed"
      BY <1>1, <1>8
    <3> QED BY <1>2, <3>1, <3>2 DEF Shielded, Handling
  <2> QED BY <2>1, <2>2
<1>11. \A h : h # i => (Recorded(h)' <=> Recorded(h))
  BY <1>2, <1>7 DEF Recorded
<1>12. Recorded(i)'
  BY <1>0, <1>2, <1>3, <1>8 DEF BusInv, TasksKnow, TaskInv, KnowsMessage, Running, Handling
<1>13. ASSUME NEW x \in Partition PROVE Counted(x)'
  <2>0. Counted(x) /\ faults \in Nat
    BY <1>0, BoundAssumption DEF RepeatInv, TypeInv, CHTypeOK, CoreTypeOK
  <2>1. CASE First(t) /\ i \in Whole(x)
    <3>1. t \in Copying(x) /\ Copying(x)' = Copying(x) \ {t}
      BY <1>0, <1>2, <1>3, <1>8, <1>9, <2>1 DEF Copying
    <3>2. out[t].type = x[1]
      BY <1>0, <1>3, <1>9, <2>1, HandledTopic DEF First
    <3>3. Copies(x)' = Copies(x) \cup {n} /\ n \notin Copies(x)
      BY <1>7, <1>9, <2>1, <3>2 DEF Copies
    <3>4. Begun(x)' = Begun(x)
      <4>1. \A h : h \in Begun(x)' <=> h \in Begun(x)
        BY <1>2, <1>3, <1>9, <1>11, <1>12, <3>1 DEF Begun
      <4> QED BY <4>1
    <3>5. Again(x)' = Again(x)
      BY <1>2, <1>10, <3>4 DEF Again
    <3>6. Tally(Copies(x) \cup {n}, Copying(x) \ {t}, Begun(x), Again(x), faults)
      BY <2>0, <3>1, <3>3, TallyAppend DEF Counted
    <3> QED BY <1>1, <1>2, <2>0, <3>1, <3>3, <3>4, <3>5, <3>6 DEF Counted
  <2>2. CASE ~(First(t) /\ i \in Whole(x))
    <3>1. Copying(x)' = Copying(x)
      BY <1>2, <1>3, <1>8, <1>9, <2>2 DEF Copying
    <3>2. i \in Whole(x) => out[t].type # x[1] /\ Recorded(i)
      <4> SUFFICES ASSUME i \in Whole(x) PROVE out[t].type # x[1] /\ Recorded(i)
        OBVIOUS
      <4>1. x[1] = t[2] /\ msg[t].kind = t[2]
        BY <1>0, <1>3, <1>9, HandledTopic
      <4>2. out[t].type # msg[t].kind
        BY <1>1, <2>2 DEF First
      <4> QED BY <1>1, <1>4, <4>1, <4>2 DEF KnowsMessage, Running
    <3>3. Copies(x)' = Copies(x)
      BY <1>7, <1>9, <3>2 DEF Copies
    <3>4. Begun(x)' = Begun(x)
      <4>1. \A h : h \in Begun(x)' <=> h \in Begun(x)
        BY <1>2, <1>9, <1>11, <3>1, <3>2, <1>12 DEF Begun
      <4> QED BY <4>1
    <3>5. Again(x)' = Again(x)
      BY <1>2, <1>10, <3>4 DEF Again
    <3> QED BY <1>1, <1>2, <2>0, <3>1, <3>3, <3>4, <3>5 DEF Counted
  <2> QED BY <2>1, <2>2
<1> QED BY <1>13 DEF RepeatInv

(* A handler that goes on without a new event in the trail.                *)
LEMMA OnwardRepeats ==
  ASSUME BusInv, BusInv', BusGrows, RepeatInv, NEW t \in Task, HandlerRuns(t), trail' = trail
  PROVE  RepeatInv'
<1>0. BusTypeOK /\ TypeInv /\ TaskInv(t)
  BY DEF BusInv, TasksKnow
<1>1. pc[t] \in {"append", "appended"} /\ Handling(t)
  BY <1>0 DEF HandlerRuns, Progress, AppendStep, ResumeReconciled, FinishCommit, FinishOther, TaskInv
<1>2. /\ UNCHANGED <<trail, cause, published, offset, owner, position, loop, current, faults, msg>>
      /\ \A u \in Task : u = t \/ (pc'[u] = pc[u] /\ out'[u] = out[u])
      /\ pc'[t] # "failed"
  BY <1>0 DEF HandlerRuns, Progress, AppendStep, ResumeReconciled, FinishCommit, FinishOther,
              coreVars, Send, TypeInv, CHTypeOK
<1>3. KnowsMessage(t, current[t]) /\ msg[t] \in Message /\ msg[t].kind \in Kind
  BY <1>0, <1>1, HandledMessage DEF TaskInv
<1>4. ~First(t)
  <2> SUFFICES ASSUME First(t) PROVE FALSE
    OBVIOUS
  <2>1. AppendStep(t)
    BY DEF First, HandlerRuns, Progress, ResumeReconciled, FinishCommit, FinishOther
  <2>2. trail \in Seq(Event) /\ out[t] \in Event
    BY <1>0, <1>1 DEF TypeInv, CHTypeOK, CoreTypeOK, TasksWellFormed, WellFormed, Running
  <2>3. out[t].key = NoKey
    BY <1>1, <1>3 DEF First, KnowsMessage, Running, Fits, Kind
  <2>4. trail' = Append(trail, out[t])
    BY <2>1, <2>3 DEF AppendStep, AppendEvent, KeyTaken
  <2> QED BY <2>2, <2>4
<1>5. ~First(t)'
  <2>1. CASE AppendStep(t) \/ FinishCommit(t) \/ FinishOther(t)
    BY <1>0, <2>1 DEF AppendStep, FinishCommit, FinishOther, First, TypeInv, CHTypeOK
  <2>2. CASE ResumeReconciled(t)
    <3>1. out'[t] = Outcome(msg[t]) /\ out[t].type = "ReconciledDecision"
      BY <1>0, <2>2 DEF ResumeReconciled, Send, TypeInv, CHTypeOK
    <3>2. msg[t].kind = "ReconciledDecision"
      BY <1>1, <1>3, <3>1 DEF KnowsMessage, Running, Fits
    <3> QED BY <1>2, <3>1, <3>2 DEF First, Outcome, RejectedEvent, CommittedEvent, EventOf
  <2> QED BY <2>1, <2>2 DEF HandlerRuns, Progress
<1>6. \A u \in Task : SameFirst(u)
  BY <1>2, <1>4, <1>5 DEF SameFirst, First, Handling
<1> SUFFICES ASSUME NEW k \in Partition PROVE Counted(k)'
  BY DEF RepeatInv
<1>7. PICK u : u = <<owner[k], k[1]>>
  OBVIOUS
<1>8. owner[k] = Nobody \/ u \in Task
  BY <1>0, <1>7, TopicsAndConsumers DEF BusTypeOK
<1>9. \/ owner[k] = Nobody
      \/ /\ position'[k] = position[k]
         /\ Handling(u) => /\ Handling(u)' /\ current'[u] = current[u]
                           /\ pc[u] # "failed" => pc'[u] # "failed"
  BY <1>2, <1>8 DEF Handling
<1> QED BY <1>2, <1>6, <1>7, <1>9, SameCounted DEF RepeatInv

(* A handler that misses a field: its message may be repeated, but is none *)
(* of those that are counted.                                              *)
LEMMA MissesRepeats ==
  ASSUME BusInv, BusInv', BusGrows, RepeatInv, NEW t \in Task, HandlerMissesField(t)
  PROVE  RepeatInv'
<1>0. BusTypeOK /\ TypeInv
  BY DEF BusInv
<1>1. /\ UNCHANGED <<trail, cause, published, offset, owner, position, loop, current, faults, msg, out>>
      /\ \A u \in Task : u = t \/ pc'[u] = pc[u]
      /\ pc[t] = "appended" /\ pc'[t] = "failed" /\ published[current[t]].form = "partial"
  BY <1>0 DEF HandlerMissesField, MissesField, busVars, coreVars, TypeInv, CHTypeOK
<1>2. \A u \in Task : SameFirst(u)
  BY <1>1 DEF SameFirst, First, Handling
<1> SUFFICES ASSUME NEW k \in Partition PROVE Counted(k)'
  BY DEF RepeatInv
<1>3. Counted(k) /\ offset[k] \in Int /\ current[t] \notin Whole(k)
  BY <1>0, <1>1 DEF RepeatInv, BusTypeOK, Whole
<1>4. Copying(k)' = Copying(k) /\ \A u \in Copying(k) : current'[u] = current[u]
  BY <1>2, SameCopying
<1>5. ASSUME NEW i \in Whole(k), Shielded(k, i) PROVE Shielded(k, i)'
  <2>1. PICK u \in Task : u = <<owner[k], k[1]>>
    BY <1>0, <1>5, TopicsAndConsumers DEF Shielded, BusTypeOK
  <2>2. u # t
    BY <1>3, <1>5, <2>1 DEF Shielded
  <2> QED BY <1>1, <1>5, <2>1, <2>2 DEF Shielded, Handling
<1>6. offset[k] <= offset'[k] /\ (owner'[k] # Nobody => offset'[k] <= position'[k])
  BY <1>1, <1>3 DEF Counted
<1> QED BY <1>1, <1>3, <1>4, <1>5, <1>6, UnseenCounted

(* A failure that only ends the handler of t: its message may be repeated. *)
LEMMA FailedRepeats ==
  ASSUME BusInv, BusInv', BusGrows, RepeatInv,
         UNCHANGED <<trail, cause, published, offset, owner, position>>, faults' = faults + 1,
         NEW t \in Task, Handling(t), ~(Handling(t)' /\ First(t)'),
         \A u \in Task : u = t \/ SameTask(u)
  PROVE  RepeatInv'
<1> SUFFICES ASSUME NEW k \in Partition PROVE Counted(k)'
  BY DEF RepeatInv
<1>0. BusTypeOK /\ Counted(k)
  BY DEF BusInv, RepeatInv
<1>1. ASSUME NEW i, Shielded(k, i) PROVE Shielded(k, i)' \/ (Handling(t) /\ current[t] = i)
  <2>1. PICK u \in Task : u = <<owner[k], k[1]>>
    BY <1>0, <1>1, TopicsAndConsumers DEF Shielded, BusTypeOK
  <2>2. CASE u = t
    BY <1>1, <2>1, <2>2 DEF Shielded
  <2>3. CASE u # t
    BY <1>1, <2>1, <2>3 DEF Shielded, SameTask, Handling
  <2> QED BY <2>2, <2>3
<1>2. owner'[k] # Nobody => offset[k] <= position'[k]
  BY <1>0 DEF Counted
<1>3. CASE t[2] = k[1]
  BY <1>0, <1>1, <1>2, <1>3, FailureCounted
<1>4. CASE t[2] # k[1]
  <2>1. \A u \in Task : u[2] = k[1] => SameFirst(u)
    BY <1>4 DEF SameTask, SameFirst, First, Handling
  <2>2. PICK u : u = <<owner[k], k[1]>>
    OBVIOUS
  <2>3. owner[k] = Nobody \/ SameTask(u)
    BY <1>0, <1>4, <2>2, TopicsAndConsumers DEF BusTypeOK
  <2>4. \/ owner[k] = Nobody
        \/ /\ position'[k] = position[k]
           /\ Handling(u) => /\ Handling(u)' /\ current'[u] = current[u]
                             /\ pc[u] # "failed" => pc'[u] # "failed"
    BY <2>3 DEF SameTask, Handling
  <2> QED BY <1>0, <2>1, <2>2, <2>4, SameCounted
<1> QED BY <1>3, <1>4

(* The loop goes on after a handler.                                       *)
LEMMA LoopRepeats ==
  ASSUME BusInv, BusInv', BusGrows, RepeatInv, NEW t \in Task,
         LoopCommits(t) \/ CommitFails(t) \/ LoopLogs(t)
  PROVE  RepeatInv'
<1>0. BusTypeOK /\ BusTypeOK' /\ TypeInv
  BY DEF BusInv
<1>1. /\ Handling(t) /\ pc[t] \in {"done", "failed"} /\ Free({t})
      /\ loop' = [loop EXCEPT ![t] = "polling"]
      /\ UNCHANGED <<trail, cause, published, owner, position>>
  BY DEF LoopCommits, CommitFails, LoopLogs, NextMessage, Handling
<1>2. ~Handling(t)' /\ \A u \in Task : u = t \/ SameTask(u)
  BY <1>0, <1>1, FreeEffect DEF SameTask, Handling, BusTypeOK
<1>3. \A u \in Task : SameFirst(u)
  BY <1>1, <1>2 DEF SameTask, SameFirst, First, Handling
<1>4. CASE CommitFails(t)
  BY <1>1, <1>2, <1>4, FailedRepeats DEF CommitFails, Fault
<1>5. CASE LoopCommits(t) \/ LoopLogs(t)
  <2>1. faults' = faults
    BY <1>5 DEF LoopCommits, LoopLogs
  <2> SUFFICES ASSUME NEW k \in Partition PROVE Counted(k)'
    BY DEF RepeatInv
  <2>2. Counted(k) /\ offset[k] \in Int /\ position[k] \in Int
    BY <1>0 DEF RepeatInv, BusTypeOK
  <2>3. Copying(k)' = Copying(k) /\ \A u \in Copying(k) : current'[u] = current[u]
    BY <1>3, SameCopying
  <2>4. \/ offset'[k] = offset[k] /\ ~(owner[k] = t[1] /\ k[1] = t[2] /\ pc[t] = "done")
        \/ offset'[k] = position[k] /\ owner[k] = t[1] /\ k[1] = t[2]
    BY <1>5 DEF LoopCommits, LoopLogs, CommitOffsets
  <2>5. offset[k] <= offset'[k] /\ (owner'[k] # Nobody => offset'[k] <= position'[k])
    BY <1>1, <2>2, <2>4, TopicsAndConsumers DEF Counted
  <2>6. ASSUME NEW i, Shielded(k, i) PROVE Shielded(k, i)' \/ i <= offset'[k]
    <3>1. PICK u \in Task : u = <<owner[k], k[1]>>
      BY <1>0, <2>6, TopicsAndConsumers DEF Shielded, BusTypeOK
    <3>2. CASE u # t
      BY <1>1, <1>2, <2>6, <3>1, <3>2 DEF Shielded, SameTask, Handling
    <3>3. CASE u = t
      <4>1. pc[t] = "done" /\ i <= position[k] /\ owner[k] = t[1] /\ k[1] = t[2]
        BY <1>1, <2>6, <3>1, <3>3 DEF Shielded
      <4> QED BY <2>4, <4>1
    <3> QED BY <3>2, <3>3
  <2> QED BY <1>1, <2>1, <2>2, <2>3, <2>5, <2>6, UnseenCounted
<1> QED BY <1>4, <1>5

(* A process ends: one message of each of its consumers may be repeated.   *)
LEMMA EndRepeats ==
  ASSUME BusInv, BusInv', BusGrows, RepeatInv, NEW p \in Api, End(p)
  PROVE  RepeatInv'
<1>0. BusTypeOK /\ TypeInv
  BY DEF BusInv
<1>1. /\ Free({t \in Task : t[1] = p}) /\ faults' = faults + 1
      /\ loop' = [t \in Task |-> IF t[1] = p THEN "none" ELSE loop[t]]
      /\ owner' = [k \in Partition |-> IF owner[k] = p THEN Nobody ELSE owner[k]]
      /\ position' = [k \in Partition |-> IF owner[k] = p THEN NoOffset ELSE position[k]]
      /\ UNCHANGED <<trail, cause, published, offset>>
  BY DEF End, Fault
<1>2. \A u \in Task : (u[1] = p => ~Handling(u)') /\ (u[1] # p => SameTask(u))
  BY <1>0, <1>1, FreeEffect DEF SameTask, Handling
<1> SUFFICES ASSUME NEW k \in Partition PROVE Counted(k)'
  BY DEF RepeatInv
<1>3. Counted(k)
  BY DEF RepeatInv
<1>4. PICK t \in Task : t = <<p, k[1]>>
  BY TopicsAndConsumers
<1>5. t[1] = p /\ t[2] = k[1] /\ ~Handling(t)'
  BY <1>2, <1>4
<1>6. \A u \in Task : u = t \/ u[2] # k[1] \/ SameTask(u)
  BY <1>2, <1>4, TopicsAndConsumers
<1>7. owner'[k] # Nobody => offset[k] <= position'[k]
  BY <1>1, <1>3 DEF Counted
<1>8. ASSUME NEW i, Shielded(k, i) PROVE Shielded(k, i)' \/ (Handling(t) /\ current[t] = i)
  <2>1. PICK u \in Task : u = <<owner[k], k[1]>>
    BY <1>0, <1>8, TopicsAndConsumers DEF Shielded, BusTypeOK
  <2>2. CASE owner[k] = p
    BY <1>4, <1>8, <2>2 DEF Shielded
  <2>3. CASE owner[k] # p
    <3>1. SameTask(u) /\ owner'[k] = owner[k] /\ position'[k] = position[k]
      BY <1>1, <1>2, <2>1, <2>3
    <3> QED BY <1>8, <2>1, <3>1 DEF Shielded, SameTask, Handling
  <2> QED BY <2>2, <2>3
<1> QED BY <1>1, <1>3, <1>5, <1>6, <1>7, <1>8, FailureCounted

(* RepeatInv is inductive, given BusInv.                                   *)
LEMMA RepeatNext == BusInv /\ BusInv' /\ RepeatInv /\ [KafkaNext]_kafkaVars => RepeatInv'
<1> SUFFICES ASSUME BusInv, BusInv', RepeatInv, [KafkaNext]_kafkaVars PROVE RepeatInv'
  OBVIOUS
<1>0. BusGrows
  BY BusGrowsNext
<1>1. CASE \/ \E payload \in Payload : Publish(payload)
           \/ \E t \in Task : \/ Subscribe(t) \/ SubscribeFails(t)
                              \/ \E k \in Partition : DeliverIncomplete(t, k) \/ DeliverGarbage(t, k)
           \/ \E p \in Api : Restart(p)
           \/ UNCHANGED kafkaVars
  BY <1>0, <1>1, OutsideRepeats
<1>2. ASSUME NEW t \in Task, NEW k \in Partition, Deliver(t, k) PROVE RepeatInv'
  BY <1>0, <1>2, DeliverRepeats
<1>3. ASSUME NEW t \in Task, HandlerRuns(t) PROVE RepeatInv'
  <2>1. CASE trail' = trail
    BY <1>0, <1>3, <2>1, OnwardRepeats
  <2>2. CASE trail' # trail
    <3>1. AppendStep(t)
      BY <1>3, <2>2 DEF HandlerRuns, Progress, ResumeReconciled, FinishCommit, FinishOther, coreVars
    <3> QED BY <1>0, <1>3, <2>2, <3>1, AppendRepeats
  <2> QED BY <2>1, <2>2
<1>4. ASSUME NEW t \in Task, HandlerRaises(t) PROVE RepeatInv'
  <2>0. BusTypeOK /\ TypeInv /\ TaskInv(t)
    BY DEF BusInv, TasksKnow
  <2>1. /\ Handling(t) /\ ~First(t)' /\ faults' = faults + 1
        /\ UNCHANGED <<trail, cause, published, offset, owner, position>>
        /\ \A u \in Task : u = t \/ SameTask(u)
    BY <1>4, <2>0 DEF HandlerRaises, AppendFails, Fault, busVars, TaskInv, First, SameTask,
                      TypeInv, CHTypeOK
  <2> QED BY <1>0, <2>1, FailedRepeats
<1>5. ASSUME NEW t \in Task, LoopCommits(t) \/ CommitFails(t) \/ LoopLogs(t) PROVE RepeatInv'
  BY <1>0, <1>5, LoopRepeats
<1>6. ASSUME NEW k \in Partition, Assign(k) \/ Rebalance(k) PROVE RepeatInv'
  BY <1>0, <1>6, GiveRepeats
<1>7. ASSUME NEW p \in Api, End(p) PROVE RepeatInv'
  BY <1>0, <1>7, EndRepeats
<1>8. ASSUME NEW t \in Task, HandlerMissesField(t) PROVE RepeatInv'
  BY <1>0, <1>8, MissesRepeats
<1> QED BY <1>1, <1>2, <1>3, <1>4, <1>5, <1>6, <1>7, <1>8 DEF KafkaNext, LoopStep

-------------------------------------------------------------------------------
(* Each message by itself, whatever its payload: its copies, the consumers *)
(* about to append one more, and the delivery it may still have are no     *)
(* more than one and the failures so far.                                  *)

CopyingOf(i) == {t \in Task : Handling(t) /\ current[t] = i /\ First(t)}

\* Message i has not been taken by the owner of its partition.
DueAgain(i) ==
  {h \in {i} : LET k == PartitionOf(published[h].msg)
               IN  owner[k] = Nobody \/ ~(h <= position[k])}

OnceOf(i) == Tally(CopiesOf(i), CopyingOf(i), {i}, DueAgain(i), faults)

OnceInv == \A i \in DOMAIN published : OnceOf(i)

(* Fewer consumers about to append, and nothing more that can be delivered *)
(* or one failure more.                                                    *)
LEMMA TallyShrinks ==
  ASSUME NEW A, NEW B, NEW i, NEW D, NEW f \in Nat, Tally(A, B, {i}, D, f),
         NEW E \in SUBSET B, NEW F \in SUBSET {i}, NEW g \in Nat,
         (g >= f /\ F \subseteq D) \/ g = f + 1
  PROVE  Tally(A, E, {i}, F, g)
<1>0. IsFiniteSet(A) /\ IsFiniteSet(B) /\ IsFiniteSet({i}) /\ IsFiniteSet(D)
  BY DEF Tally
<1>1. IsFiniteSet(E) /\ Cardinality(E) <= Cardinality(B)
  BY <1>0, FS_Subset
<1>2. IsFiniteSet(F) /\ Cardinality(F) <= Cardinality({i}) /\ Cardinality({i}) = 1
  BY <1>0, FS_Subset, FS_Singleton
<1>3. F \subseteq D => Cardinality(F) <= Cardinality(D)
  BY <1>0, FS_Subset
<1>4. /\ Cardinality(A) \in Nat /\ Cardinality(B) \in Nat /\ Cardinality(D) \in Nat
      /\ Cardinality(E) \in Nat /\ Cardinality(F) \in Nat
  BY <1>0, <1>1, <1>2, FS_CardinalityType
<1>5. Cardinality(A) + Cardinality(B) + Cardinality(D) <= Cardinality({i}) + f
  BY DEF Tally
<1>6. Cardinality(A) + Cardinality(E) + Cardinality(F) <= Cardinality({i}) + g
  BY <1>1, <1>2, <1>3, <1>4, <1>5
<1> QED BY <1>0, <1>1, <1>2, <1>6 DEF Tally

\* The step puts no consumer before its first append.
NoNewFirst ==
  \A t \in Task : Handling(t)' /\ First(t)' =>
                    Handling(t) /\ First(t) /\ current'[t] = current[t]

\* No partition loses its owner or goes back.
NoneTakenBack ==
  \A k \in Partition : owner[k] # Nobody => owner'[k] # Nobody /\ position'[k] >= position[k]

(* faults counts.                                                          *)
LEMMA FaultsCounted == BusInv => faults \in Nat /\ faults >= faults
<1> SUFFICES ASSUME BusInv PROVE faults \in Nat /\ faults >= faults
  OBVIOUS
<1>1. faults \in 0..MaxFaults
  BY DEF BusInv, TypeInv, CHTypeOK, CoreTypeOK
<1> QED BY <1>1, BoundAssumption

(* Taking a message takes none back.                                       *)
LEMMA TakeGoesOn ==
  ASSUME BusTypeOK, NEW k \in Partition, Ahead(k) # {}, Take(k), owner' = owner
  PROVE  NoneTakenBack
<1> SUFFICES ASSUME NEW x \in Partition PROVE position'[x] >= position[x]
  BY DEF NoneTakenBack
<1>1. position[x] \in Int
  BY DEF BusTypeOK
<1>2. CASE x = k
  <2>1. position'[k] = NextIn(k) /\ NextIn(k) > position[k] /\ NextIn(k) \in Nat
    BY TakeTypes, NextIsFirst
  <2> QED BY <1>1, <1>2, <2>1
<1>3. CASE x # k
  <2>1. position'[x] = position[x]
    BY <1>3, TakeTypes
  <2> QED BY <1>1, <2>1
<1> QED BY <1>2, <1>3

(* A message that was not taken back can be delivered no more often.       *)
LEMMA DueShrinks ==
  ASSUME BusTypeOK, BusTypeOK', BusGrows, NEW i \in DOMAIN published, NoneTakenBack
  PROVE  DueAgain(i)' \subseteq DueAgain(i)
<1>1. PICK k \in Partition : k = PartitionOf(published[i].msg)
  BY BusAssumption, TopicsAndConsumers DEF BusTypeOK
<1>2. PartitionOf(published[i].msg)' = k
  BY <1>1 DEF BusGrows, PartitionOf
<1>3. i \in Nat /\ position[k] \in Int /\ position'[k] \in Int
  BY DEF BusTypeOK
<1>4. i \in DueAgain(i)' => i \in DueAgain(i)
  BY <1>1, <1>2, <1>3 DEF DueAgain, NoneTakenBack
<1> QED BY <1>4 DEF DueAgain

(* A step that appends nothing and begins nothing, and either takes        *)
(* nothing back or is a failure.                                           *)
LEMMA QuietOnce ==
  ASSUME BusInv, BusInv', BusGrows, OnceInv, UNCHANGED <<trail, cause, published>>, NoNewFirst,
         (NoneTakenBack /\ (faults' = faults \/ faults' = faults + 1)) \/ faults' = faults + 1
  PROVE  OnceInv'
<1> SUFFICES ASSUME NEW i \in DOMAIN published PROVE OnceOf(i)'
  BY DEF OnceInv
<1>0. BusTypeOK /\ BusTypeOK' /\ faults \in Nat /\ faults' \in Nat
  BY BoundAssumption DEF BusInv, TypeInv, CHTypeOK, CoreTypeOK
<1>1. CopiesOf(i)' = CopiesOf(i)
  BY DEF CopiesOf
<1>2. CopyingOf(i)' \subseteq CopyingOf(i)
  BY DEF CopyingOf, NoNewFirst
<1>3. DueAgain(i)' \subseteq {i}
  BY DEF DueAgain
<1>4. faults' = faults + 1 \/ (faults' >= faults /\ DueAgain(i)' \subseteq DueAgain(i))
  BY <1>0, DueShrinks
<1>5. Tally(CopiesOf(i), CopyingOf(i), {i}, DueAgain(i), faults)
  BY DEF OnceInv, OnceOf
<1>6. Tally(CopiesOf(i), CopyingOf(i)', {i}, DueAgain(i)', faults')
  BY <1>0, <1>2, <1>3, <1>4, <1>5, TallyShrinks
<1> QED BY <1>1, <1>6 DEF OnceOf

(* A message that was just published has one delivery before it.           *)
LEMMA PublishOnce ==
  ASSUME BusInv, BusInv', BusGrows, OnceInv, NEW payload \in Payload, Publish(payload)
  PROVE  OnceInv'
<1>0. BusTypeOK /\ BusTypeOK' /\ faults \in Nat /\ \A t \in Task : TaskInv(t)
  BY BoundAssumption DEF BusInv, TypeInv, CHTypeOK, CoreTypeOK, TasksKnow
<1>1. UNCHANGED <<trail, faults, pc, msg, out, offset, owner, position, loop, current, cause>>
  BY DEF Publish, chVars, coreVars, handlerVars
<1>2. \A t \in Task : (Handling(t)' <=> Handling(t)) /\ (First(t)' <=> First(t))
  BY <1>1 DEF Handling, First
<1> SUFFICES ASSUME NEW i \in DOMAIN published' PROVE OnceOf(i)'
  BY DEF OnceInv
<1>3. DueAgain(i)' \subseteq {i}
  BY DEF DueAgain
<1>4. CopyingOf(i)' = CopyingOf(i)
  BY <1>1, <1>2 DEF CopyingOf
<1>5. CASE i \in DOMAIN published
  <2>1. published'[i] = published[i]
    BY <1>5 DEF BusGrows
  <2>2. CopiesOf(i)' = CopiesOf(i)
    BY <1>1, <2>1 DEF CopiesOf
  <2>3. DueAgain(i)' = DueAgain(i)
    BY <1>1, <2>1 DEF DueAgain, PartitionOf
  <2> QED BY <1>1, <1>4, <1>5, <2>2, <2>3 DEF OnceInv, OnceOf
<1>6. CASE i \notin DOMAIN published
  <2>1. CopiesOf(i)' = {}
    BY <1>0, <1>1, <1>6 DEF CopiesOf, BusTypeOK
  <2>2. CopyingOf(i)' = {}
    BY <1>0, <1>4, <1>6, HandledMessage DEF CopyingOf
  <2>3. IsFiniteSet({i}) /\ Cardinality({i}) = 1 /\ IsFiniteSet({}) /\ Cardinality({}) = 0
    BY FS_Singleton, FS_EmptySet
  <2>4. IsFiniteSet(DueAgain(i)') /\ Cardinality(DueAgain(i)') <= 1
    BY <1>3, <2>3, FS_Subset
  <2>5. Cardinality(DueAgain(i)') \in Nat
    BY <2>4, FS_CardinalityType
  <2>6. Tally({}, {}, {i}, DueAgain(i)', faults)
    BY <1>0, <2>3, <2>4, <2>5 DEF Tally
  <2> QED BY <1>1, <2>1, <2>2, <2>6 DEF OnceOf
<1> QED BY <1>5, <1>6

(* A delivery: the message was due, and now a consumer is about to append. *)
LEMMA DeliverOnce ==
  ASSUME BusInv, BusInv', BusGrows, OnceInv, NEW t \in Task, NEW k \in Partition, Deliver(t, k)
  PROVE  OnceInv'
<1>0. /\ BusTypeOK /\ BusTypeOK' /\ TypeInv /\ CanDeliver(t, k, {"good", "partial"})
      /\ faults \in Nat /\ faults >= faults
  BY FaultsCounted DEF BusInv, Deliver
<1>1. /\ Take(k)
      /\ loop' = [loop EXCEPT ![t] = "handling"] /\ current' = [current EXCEPT ![t] = NextIn(k)]
      /\ UNCHANGED <<published, offset, owner, cause>>
  BY DEF Deliver
<1>2. /\ Ahead(k) # {} /\ owner[k] # Nobody /\ t = <<owner[k], k[1]>> /\ ~Handling(t)
  BY <1>0, BehindNext
<1>3. PICK n : n = NextIn(k)
  OBVIOUS
<1>4. /\ n \in DOMAIN published /\ n \in Nat /\ n > position[k] /\ position[k] \in Int
      /\ published[n].msg \in Message /\ PartitionOf(published[n].msg) = k
  BY <1>0, <1>2, <1>3, NextIsFirst DEF BusTypeOK
<1>5. /\ trail' = trail /\ faults' = faults
      /\ pc' = [pc EXCEPT ![t] = "append"] /\ msg' = [msg EXCEPT ![t] = published[n].msg]
      /\ out' = [out EXCEPT ![t] = EventOf(published[n].msg.kind, published[n].msg.decision, NoKey, NoLeaf)]
  <2>1. PICK m \in Message : m = published[n].msg
    BY <1>4
  <2>2. Handler(t, m)
    BY <1>3, <2>1 DEF Deliver
  <2>3. faults' = faults
    BY <2>2 DEF Handler, OnMetricProposed, OnDebateOutcome, OnRiskSignal, OnReconciledDecision,
                OnRecorded, FromBus, Arrive, coreVars
  <2> QED BY <1>0, <2>1, <2>2, <2>3, HandlerStarts
<1>6. /\ Handling(t)' /\ First(t)' /\ current'[t] = n
      /\ \A u \in Task : u = t \/ SameTask(u)
  BY <1>0, <1>1, <1>3, <1>5 DEF TypeInv, CHTypeOK, BusTypeOK, SameTask, EventOf, Handling, First
<1>7. \A u \in Task \ {t} : /\ Handling(u)' <=> Handling(u)
                            /\ First(u)' <=> First(u)
                            /\ current'[u] = current[u]
  BY <1>6 DEF SameTask, Handling, First
<1>8. position'[k] = n
  BY <1>0, <1>1, <1>2, <1>3, TakeTypes
<1>9. NoneTakenBack
  BY <1>0, <1>1, <1>2, TakeGoesOn
<1> SUFFICES ASSUME NEW i \in DOMAIN published PROVE OnceOf(i)'
  BY <1>1 DEF OnceInv
<1>10. CopiesOf(i)' = CopiesOf(i) /\ Tally(CopiesOf(i), CopyingOf(i), {i}, DueAgain(i), faults)
  BY <1>1, <1>5 DEF CopiesOf, OnceInv, OnceOf
<1>11. CASE i = n
  <2>1. CopyingOf(n)' = CopyingOf(n) \cup {t} /\ t \notin CopyingOf(n)
    BY <1>2, <1>6, <1>7 DEF CopyingOf
  <2>2. n \in DueAgain(n)
    BY <1>4 DEF DueAgain
  <2>3. DueAgain(n)' = {}
    BY <1>1, <1>2, <1>4, <1>8 DEF DueAgain, PartitionOf
  <2>4. DueAgain(n) \ {n} = {} /\ {n} \cup {n} = {n}
    BY DEF DueAgain
  <2>5. Tally(CopiesOf(n), CopyingOf(n) \cup {t}, {n} \cup {n}, DueAgain(n) \ {n}, faults)
    BY <1>0, <1>10, <1>11, <2>1, <2>2, TallyDelivery
  <2> QED BY <1>5, <1>10, <1>11, <2>1, <2>3, <2>4, <2>5 DEF OnceOf
<1>12. CASE i # n
  <2>1. CopyingOf(i)' = CopyingOf(i)
    BY <1>2, <1>6, <1>7, <1>12 DEF CopyingOf
  <2>2. DueAgain(i)' \subseteq DueAgain(i) /\ DueAgain(i)' \subseteq {i}
    BY <1>0, <1>9, DueShrinks DEF DueAgain
  <2>3. Tally(CopiesOf(i), CopyingOf(i), {i}, DueAgain(i)', faults)
    BY <1>0, <1>10, <2>2, TallyShrinks
  <2> QED BY <1>5, <1>10, <2>1, <2>3 DEF OnceOf
<1> QED BY <1>11, <1>12

(* An append: a consumer that was about to has one copy more in the trail. *)
LEMMA AppendOnce ==
  ASSUME BusInv, BusInv', BusGrows, OnceInv, NEW t \in Task, HandlerRuns(t), AppendStep(t),
         trail' # trail
  PROVE  OnceInv'
<1>0. /\ BusTypeOK /\ BusTypeOK' /\ TypeInv /\ TaskInv(t) /\ Handling(t) /\ faults \in Nat
  BY FaultsCounted DEF BusInv, TasksKnow, AppendStep, TaskInv
<1>1. /\ pc[t] = "append" /\ pc' = [pc EXCEPT ![t] = "appended"]
      /\ trail' = Append(trail, out[t])
      /\ UNCHANGED <<msg, out, faults>>
  BY DEF AppendStep, AppendEvent
<1>2. /\ cause' = Append(cause, current[t])
      /\ UNCHANGED <<published, offset, owner, position, loop, current>>
  BY DEF HandlerRuns
<1>3. PICK c : c = current[t]
  OBVIOUS
<1>4. c \in DOMAIN published /\ c \in Nat /\ msg[t] = published[c].msg
  BY <1>0, <1>3, HandledMessage
<1>5. trail \in Seq(Event) /\ out[t] \in Event /\ cause \in Seq(Nat) /\ Len(cause) = Len(trail)
  BY <1>0, <1>1 DEF TypeInv, CHTypeOK, CoreTypeOK, TasksWellFormed, WellFormed, Running, BusTypeOK
<1>6. PICK n \in Nat : n = Len(trail) + 1
  BY <1>5
<1>7. /\ n \notin DOMAIN trail /\ DOMAIN trail' = DOMAIN trail \cup {n}
      /\ trail'[n] = out[t] /\ cause'[n] = c
      /\ \A j \in DOMAIN trail : trail'[j] = trail[j] /\ cause'[j] = cause[j]
  BY <1>1, <1>2, <1>3, <1>4, <1>5, <1>6
<1>8. /\ ~First(t)' /\ \A u \in Task : Handling(u)' <=> Handling(u)
      /\ \A u \in Task \ {t} : First(u)' <=> First(u)
  BY <1>0, <1>1, <1>2 DEF First, Handling, TypeInv, CHTypeOK
<1> SUFFICES ASSUME NEW i \in DOMAIN published PROVE OnceOf(i)'
  BY <1>2 DEF OnceInv
<1>9. DueAgain(i)' = DueAgain(i) /\ Tally(CopiesOf(i), CopyingOf(i), {i}, DueAgain(i), faults)
  BY <1>2 DEF DueAgain, PartitionOf, OnceInv, OnceOf
<1>10. CASE i = c /\ First(t)
  <2>1. t \in CopyingOf(i) /\ CopyingOf(i)' = CopyingOf(i) \ {t}
    BY <1>0, <1>2, <1>3, <1>8, <1>10 DEF CopyingOf
  <2>2. CopiesOf(i)' = CopiesOf(i) \cup {n} /\ n \notin CopiesOf(i)
    BY <1>2, <1>4, <1>7, <1>10 DEF CopiesOf, First
  <2>3. Tally(CopiesOf(i) \cup {n}, CopyingOf(i) \ {t}, {i}, DueAgain(i), faults)
    BY <1>0, <1>9, <2>1, <2>2, TallyAppend
  <2> QED BY <1>1, <1>9, <2>1, <2>2, <2>3 DEF OnceOf
<1>11. CASE ~(i = c /\ First(t))
  <2>1. CopyingOf(i)' = CopyingOf(i)
    BY <1>2, <1>3, <1>8, <1>11 DEF CopyingOf
  <2>2. i = c => out[t].type # published[i].msg.kind
    BY <1>1, <1>4, <1>11 DEF First
  <2>3. CopiesOf(i)' = CopiesOf(i)
    BY <1>2, <1>7, <2>2 DEF CopiesOf
  <2> QED BY <1>1, <1>9, <2>1, <2>3 DEF OnceOf
<1> QED BY <1>10, <1>11

(* A handler that goes on does not come back to its first append.          *)
LEMMA OnwardOnce ==
  ASSUME BusInv, BusInv', BusGrows, OnceInv, NEW t \in Task, HandlerRuns(t), trail' = trail
  PROVE  OnceInv'
<1>0. BusTypeOK /\ TypeInv /\ TaskInv(t)
  BY DEF BusInv, TasksKnow
<1>1. pc[t] \in {"append", "appended"} /\ Handling(t)
  BY <1>0 DEF HandlerRuns, Progress, AppendStep, ResumeReconciled, FinishCommit, FinishOther, TaskInv
<1>2. /\ UNCHANGED <<trail, cause, published, offset, owner, position, loop, current, faults, msg>>
      /\ \A u \in Task : u = t \/ (pc'[u] = pc[u] /\ out'[u] = out[u])
  BY <1>0 DEF HandlerRuns, Progress, AppendStep, ResumeReconciled, FinishCommit, FinishOther,
              coreVars, Send, TypeInv, CHTypeOK
<1>3. KnowsMessage(t, current[t]) /\ msg[t] \in Message /\ msg[t].kind \in Kind
  BY <1>0, <1>1, HandledMessage DEF TaskInv
<1>4. ~First(t)'
  <2>1. CASE AppendStep(t) \/ FinishCommit(t) \/ FinishOther(t)
    BY <1>0, <2>1 DEF AppendStep, FinishCommit, FinishOther, First, TypeInv, CHTypeOK
  <2>2. CASE ResumeReconciled(t)
    <3>1. out'[t] = Outcome(msg[t]) /\ out[t].type = "ReconciledDecision"
      BY <1>0, <2>2 DEF ResumeReconciled, Send, TypeInv, CHTypeOK
    <3>2. msg[t].kind = "ReconciledDecision"
      BY <1>1, <1>3, <3>1 DEF KnowsMessage, Running, Fits
    <3> QED BY <1>2, <3>1, <3>2 DEF First, Outcome, RejectedEvent, CommittedEvent, EventOf
  <2> QED BY <2>1, <2>2 DEF HandlerRuns, Progress
<1>5. NoNewFirst
  BY <1>2, <1>4 DEF NoNewFirst, First, Handling
<1>6. NoneTakenBack
  BY <1>0, <1>2 DEF NoneTakenBack, BusTypeOK
<1> QED BY <1>2, <1>5, <1>6, QuietOnce

(* The consumers' other steps.                                             *)
LEMMA LoopOnce ==
  ASSUME BusInv, BusInv', BusGrows, OnceInv, NEW t \in Task,
         \/ Subscribe(t) \/ SubscribeFails(t) \/ HandlerRaises(t) \/ HandlerMissesField(t)
         \/ LoopCommits(t) \/ CommitFails(t) \/ LoopLogs(t)
  PROVE  OnceInv'
<1>0. BusTypeOK /\ TypeInv /\ TaskInv(t)
  BY DEF BusInv, TasksKnow
<1>1. /\ UNCHANGED <<trail, cause, published, owner, position>>
      /\ faults' = faults \/ faults' = faults + 1
  BY DEF Subscribe, SubscribeFails, HandlerRaises, HandlerMissesField, LoopCommits, CommitFails,
         LoopLogs, NextMessage, AppendFails, Fault, busVars, chVars, coreVars
<1>2. NoneTakenBack
  BY <1>0, <1>1 DEF NoneTakenBack, BusTypeOK
<1>3. CASE LoopCommits(t) \/ CommitFails(t) \/ LoopLogs(t)
  <2>1. /\ Free({t}) /\ loop' = [loop EXCEPT ![t] = "polling"]
    BY <1>3 DEF LoopCommits, CommitFails, LoopLogs, NextMessage
  <2>2. ~Handling(t)' /\ \A u \in Task : u = t \/ SameTask(u)
    BY <1>0, <2>1, FreeEffect DEF SameTask, Handling, BusTypeOK
  <2>3. NoNewFirst
    BY <2>2 DEF NoNewFirst, SameTask, First, Handling
  <2> QED BY <1>1, <1>2, <2>3, QuietOnce
<1>4. CASE HandlerRaises(t) \/ HandlerMissesField(t)
  <2>1. /\ UNCHANGED <<loop, current, msg, out>> /\ pc' = [pc EXCEPT ![t] = "failed"]
    BY <1>4 DEF HandlerRaises, HandlerMissesField, AppendFails, busVars
  <2>2. NoNewFirst
    BY <1>0, <2>1 DEF NoNewFirst, First, Handling, TypeInv, CHTypeOK
  <2> QED BY <1>1, <1>2, <2>2, QuietOnce
<1>5. CASE Subscribe(t) \/ SubscribeFails(t)
  <2>1. /\ UNCHANGED <<pc, msg, out, current>>
        /\ \E l \in {"polling", "failed"} : loop' = [loop EXCEPT ![t] = l]
    BY <1>5 DEF Subscribe, SubscribeFails, chVars, handlerVars
  <2>2. NoNewFirst
    BY <1>0, <2>1 DEF NoNewFirst, First, Handling, BusTypeOK
  <2> QED BY <1>1, <1>2, <2>2, QuietOnce
<1> QED BY <1>3, <1>4, <1>5

(* Payloads no handler runs for.                                           *)
LEMMA OtherPayloadOnce ==
  ASSUME BusInv, BusInv', BusGrows, OnceInv, NEW t \in Task, NEW k \in Partition,
         DeliverIncomplete(t, k) \/ DeliverGarbage(t, k)
  PROVE  OnceInv'
<1>0. BusTypeOK
  BY DEF BusInv
<1>1. UNCHANGED <<trail, cause, published, owner, faults, pc, msg, out, current>>
  BY DEF DeliverIncomplete, DeliverGarbage, chVars, coreVars, handlerVars
<1>2. loop' = loop \/ loop' = [loop EXCEPT ![t] = "dead"]
  BY DEF DeliverIncomplete, DeliverGarbage
<1>3. NoNewFirst
  BY <1>0, <1>1, <1>2 DEF NoNewFirst, First, Handling, BusTypeOK
<1>4. NoneTakenBack
  <2>1. CASE DeliverGarbage(t, k)
    BY <1>0, <1>1, <2>1 DEF DeliverGarbage, NoneTakenBack, BusTypeOK
  <2>2. CASE DeliverIncomplete(t, k)
    <3>1. Take(k) /\ Ahead(k) # {}
      BY <2>2 DEF DeliverIncomplete, CanDeliver
    <3> QED BY <1>0, <1>1, <3>1, TakeGoesOn
  <2> QED BY <2>1, <2>2
<1> QED BY <1>1, <1>3, <1>4, QuietOnce

(* A partition gets an owner, or is taken from one; a process ends or      *)
(* starts.                                                                 *)
LEMMA OwnersOnce ==
  ASSUME BusInv, BusInv', BusGrows, OnceInv,
         \/ \E k \in Partition : Assign(k) \/ Rebalance(k)
         \/ \E p \in Api : End(p) \/ Restart(p)
  PROVE  OnceInv'
<1>0. BusTypeOK /\ TypeInv
  BY DEF BusInv
<1>1. ASSUME NEW k \in Partition, NEW p \in Api, Give(k, p),
             (owner[k] = Nobody /\ faults' = faults) \/ faults' = faults + 1
      PROVE  OnceInv'
  <2>1. UNCHANGED <<trail, cause, published, loop, current, pc, msg, out>>
    BY <1>1 DEF Give, handlerVars
  <2>2. NoNewFirst
    BY <2>1 DEF NoNewFirst, First, Handling
  <2>3. owner[k] = Nobody => NoneTakenBack
    BY <1>0, <1>1 DEF Give, NoneTakenBack, BusTypeOK
  <2> QED BY <1>1, <2>1, <2>2, <2>3, QuietOnce
<1>2. ASSUME NEW k \in Partition, Assign(k) \/ Rebalance(k) PROVE OnceInv'
  <2>1. PICK p \in Api : Give(k, p)
    BY <1>2 DEF Assign, Rebalance
  <2> QED BY <1>1, <1>2, <2>1 DEF Assign, Rebalance, Fault
<1>3. ASSUME NEW p \in Api, End(p) PROVE OnceInv'
  <2>1. /\ Free({t \in Task : t[1] = p}) /\ faults' = faults + 1
        /\ loop' = [t \in Task |-> IF t[1] = p THEN "none" ELSE loop[t]]
        /\ UNCHANGED <<trail, cause, published>>
    BY <1>3 DEF End, Fault
  <2>2. \A u \in Task : (u[1] = p => ~Handling(u)') /\ (u[1] # p => SameTask(u))
    BY <1>0, <2>1, FreeEffect DEF SameTask, Handling
  <2>3. NoNewFirst
    BY <2>2 DEF NoNewFirst, SameTask, First, Handling
  <2> QED BY <2>1, <2>3, QuietOnce
<1>4. ASSUME NEW p \in Api, Restart(p) PROVE OnceInv'
  <2>1. UNCHANGED <<trail, cause, published, owner, position, loop, current, faults, pc, msg, out>>
    BY <1>4 DEF Restart, busVars, handlerVars
  <2>2. NoNewFirst /\ NoneTakenBack
    BY <1>0, <2>1 DEF NoNewFirst, NoneTakenBack, First, Handling, BusTypeOK
  <2> QED BY <2>1, <2>2, QuietOnce
<1> QED BY <1>2, <1>3, <1>4

(* OnceInv is inductive, given BusInv.                                     *)
LEMMA OnceNext == BusInv /\ BusInv' /\ OnceInv /\ [KafkaNext]_kafkaVars => OnceInv'
<1> SUFFICES ASSUME BusInv, BusInv', OnceInv, [KafkaNext]_kafkaVars PROVE OnceInv'
  OBVIOUS
<1>0. BusGrows
  BY BusGrowsNext
<1>1. ASSUME NEW payload \in Payload, Publish(payload) PROVE OnceInv'
  BY <1>0, <1>1, PublishOnce
<1>2. ASSUME NEW t \in Task, NEW k \in Partition,
             Deliver(t, k) \/ DeliverIncomplete(t, k) \/ DeliverGarbage(t, k)
      PROVE  OnceInv'
  BY <1>0, <1>2, DeliverOnce, OtherPayloadOnce
<1>3. ASSUME NEW t \in Task, HandlerRuns(t) PROVE OnceInv'
  <2>1. CASE trail' = trail
    BY <1>0, <1>3, <2>1, OnwardOnce
  <2>2. CASE trail' # trail
    <3>1. AppendStep(t)
      BY <1>3, <2>2 DEF HandlerRuns, Progress, ResumeReconciled, FinishCommit, FinishOther, coreVars
    <3> QED BY <1>0, <1>3, <2>2, <3>1, AppendOnce
  <2> QED BY <2>1, <2>2
<1>4. ASSUME NEW t \in Task,
             \/ Subscribe(t) \/ SubscribeFails(t) \/ HandlerRaises(t) \/ HandlerMissesField(t)
             \/ LoopCommits(t) \/ CommitFails(t) \/ LoopLogs(t)
      PROVE  OnceInv'
  BY <1>0, <1>4, LoopOnce
<1>5. CASE \/ \E k \in Partition : Assign(k) \/ Rebalance(k)
           \/ \E p \in Api : End(p) \/ Restart(p)
  BY <1>0, <1>5, OwnersOnce
<1>6. CASE UNCHANGED kafkaVars
  <2>1. UNCHANGED <<trail, cause, published, owner, position, loop, current, faults, pc, msg, out>>
    BY <1>6 DEF kafkaVars, busVars, chVars, coreVars, handlerVars
  <2>2. BusTypeOK
    BY DEF BusInv
  <2>3. NoNewFirst /\ NoneTakenBack
    BY <2>1, <2>2 DEF NoNewFirst, NoneTakenBack, First, Handling, BusTypeOK
  <2> QED BY <1>0, <2>1, <2>3, QuietOnce
<1> QED BY <1>1, <1>2, <1>3, <1>4, <1>5, <1>6 DEF KafkaNext, LoopStep

(* A message has at most one copy and one for each failure.                *)
LEMMA OnceBounds ==
  ASSUME NEW i, faults \in Nat, OnceOf(i)
  PROVE  Cardinality(CopiesOf(i)) <= 1 + faults
<1>1. /\ Cardinality(CopiesOf(i)) \in Nat /\ Cardinality(CopyingOf(i)) \in Nat
      /\ Cardinality(DueAgain(i)) \in Nat
  BY FS_CardinalityType DEF OnceOf, Tally
<1>2. Cardinality({i}) = 1
  BY FS_Singleton
<1>3. Cardinality(CopiesOf(i)) + Cardinality(CopyingOf(i)) + Cardinality(DueAgain(i))
        <= Cardinality({i}) + faults
  BY DEF OnceOf, Tally
<1> QED BY <1>1, <1>2, <1>3

(* kafka_adapter.py's commit after the handler: however often partitions   *)
(* move and processes crash, a partition's well-formed messages are in the *)
(* trail more often than once only as often as something failed, and so is *)
(* every single message, also one whose handler raises after its append    *)
(* each time it runs.                                                      *)
THEOREM RepeatsBounded == KafkaSpec => []RepeatsNeedFailures
<1>1. KafkaInit => RepeatInv
  <2> SUFFICES ASSUME KafkaInit, NEW k \in Partition PROVE Counted(k)
    BY DEF RepeatInv
  <2>1. trail = <<>> /\ published = <<>> /\ faults = 0 /\ owner[k] = Nobody
    BY DEF KafkaInit, CHInit, CoreInit, Init
  <2>2. Copies(k) = {} /\ Copying(k) = {} /\ Begun(k) = {} /\ Again(k) = {}
    BY <2>1 DEF Copies, Copying, Begun, Again, Whole, InPartition
  <2> QED BY <2>1, <2>2, FS_EmptySet DEF Counted, Tally
<1>2. KafkaInit => OnceInv
  BY DEF KafkaInit, OnceInv
<1>3. BusInv /\ RepeatInv /\ OnceInv => RepeatsNeedFailures
  <2> SUFFICES ASSUME BusInv, RepeatInv, OnceInv PROVE RepeatsNeedFailures
    OBVIOUS
  <2>1. BusTypeOK /\ faults \in Nat
    BY BoundAssumption DEF BusInv, TypeInv, CHTypeOK, CoreTypeOK
  <2>2. ASSUME NEW k \in Partition
        PROVE  Cardinality(Copies(k)) <= Cardinality({i \in Whole(k) : Recorded(i)}) + faults
    BY <2>1, TallyBounds DEF RepeatInv, Counted
  <2>3. \A i \in DOMAIN published : Cardinality(CopiesOf(i)) <= 1 + faults
    BY <2>1, OnceBounds DEF OnceInv
  <2> QED BY <2>2, <2>3 DEF RepeatsNeedFailures, Copies
<1> QED BY <1>1, <1>2, <1>3, BusInvariant, RepeatNext, OnceNext, PTL DEF KafkaSpec
===============================================================================
