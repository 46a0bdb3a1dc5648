---------------------------- MODULE KafkaEventBus ----------------------------
(***************************************************************************)
(* src/infrastructure/kafka_adapter.py under the routes of api/main.py:    *)
(* every API process has one consumer per topic, all in one group, and     *)
(* each consumer's _loop awaits the handler and then commit().  The        *)
(* handlers are those of CommandHandler; a task is the handler call of one *)
(* consumer, used again for each message.  The broker (partitions, group   *)
(* assignment, committed offsets) is external, as the adapter uses it:     *)
(* manual commits, default reset of a group without an offset to the end.  *)
(***************************************************************************)
EXTENDS CommandHandler, FiniteSetsExt

CONSTANTS
  PartOf,                 \* the partition a topic's message of a decision goes to
  Payload,                \* what producers send
  Nobody,
  MaxPublished            \* bound: messages published

Topic == {m.kind : m \in Message}

\* publish: the key is the decision id.
PartitionOf(m) == <<m.kind, PartOf[m.decision]>>
Partition == {PartitionOf(m) : m \in Message}

ASSUME BusAssumption ==
  /\ Task = Api \X Topic
  /\ Nobody \notin Proc
  /\ Payload \subseteq [msg : Message, form : {"good", "incomplete", "partial", "garbage"}]
  /\ \A x \in Payload : x.form = "partial" => x.msg.kind = "ReconciledDecision"
  /\ MaxPublished \in Nat

VARIABLES
  published,        \* every message in publication order; an offset is an index
  offset,           \* committed offset of the group: the last index passed
  owner,            \* the process the group assigned a partition to
  position,         \* the last index the owner has taken from a partition
  loop,             \* state of each consumer
  current,          \* the message a consumer is handling
  logged,           \* messages whose handler raised: "handler failed" was logged
  missed,           \* history: passed by a reset to the end of the log
  cause             \* history: the message behind each event of the trail

busVars == <<published, offset, owner, position, loop, current, logged, missed, cause>>
kafkaVars == <<chVars, busVars>>

NoOffset == -1

\* The group may be new or have committed offsets in an earlier life of the system.
KafkaInit ==
  /\ CHInit
  /\ published = <<>>
  /\ offset \in [Partition -> {NoOffset, 0}]
  /\ owner = [k \in Partition |-> Nobody]
  /\ position = [k \in Partition |-> NoOffset]
  /\ loop = [t \in Task |-> "none"]
  /\ current = [t \in Task |-> 0]
  /\ logged = {}
  /\ missed = {}
  /\ cause = <<>>

InPartition(k) == {i \in DOMAIN published : PartitionOf(published[i].msg) = k}

\* An event of message i's own type is in the trail.
Recorded(i) ==
  \E j \in DOMAIN trail : cause[j] = i /\ trail[j].type = published[i].msg.kind

-------------------------------------------------------------------------------
(* The broker.                                                             *)

Publish(payload) ==
  /\ Len(published) < MaxPublished
  /\ published' = Append(published, payload)
  /\ UNCHANGED <<chVars, offset, owner, position, loop, current, logged, missed, cause>>

\* Mutant of StartAt.
StartAtEnd(k) == Len(published)

\* Where a new owner of a partition starts to read.
StartAt(k) == IF offset[k] = NoOffset THEN Len(published) ELSE offset[k]

Member(t) == loop[t] \in {"polling", "handling", "dead"}

Give(k, p) ==
  /\ Member(<<p, k[1]>>) /\ owner[k] # p
  /\ owner' = [owner EXCEPT ![k] = p]
  /\ position' = [position EXCEPT ![k] = StartAt(k)]
  /\ missed' = IF offset[k] = NoOffset THEN missed \cup InPartition(k) ELSE missed
  /\ UNCHANGED <<trail, batched, pending, first_leaf_ts, life, now, handlerVars,
                 published, offset, loop, current, logged, cause>>

Assign(k) == owner[k] = Nobody /\ (\E p \in Api : Give(k, p)) /\ UNCHANGED faults

\* The partition is taken from a consumer that may be in the middle of a handler.
Rebalance(k) == owner[k] # Nobody /\ (\E p \in Api : Give(k, p)) /\ Fault

-------------------------------------------------------------------------------
(* subscribe and _loop.                                                    *)

\* subscribe runs in a future of its own, some time after the start.
Subscribe(t) ==
  /\ life[t[1]] = "up" /\ loop[t] = "none"
  /\ loop' = [loop EXCEPT ![t] = "polling"]
  /\ UNCHANGED <<chVars, published, offset, owner, position, current, logged, missed, cause>>

\* consumer.start() raises: nobody awaits the future, the topic is not consumed here.
SubscribeFails(t) ==
  /\ life[t[1]] = "up" /\ loop[t] = "none"
  /\ Fault
  /\ loop' = [loop EXCEPT ![t] = "failed"]
  /\ UNCHANGED <<trail, batched, pending, first_leaf_ts, life, now, handlerVars,
                 published, offset, owner, position, current, logged, missed, cause>>

\* Messages of partition k its owner has not taken; the next is the first of them.
Ahead(k) == {i \in InPartition(k) : i > position[k]}

NextIn(k) == Min(Ahead(k))

CanDeliver(t, k, forms) ==
  /\ loop[t] = "polling" /\ life[t[1]] = "up"
  /\ k[1] = t[2] /\ owner[k] = t[1]
  /\ Ahead(k) # {}
  /\ published[NextIn(k)].form \in forms

Take(k) == position' = [position EXCEPT ![k] = NextIn(k)]

Handler(t, m) ==
  \/ OnMetricProposed(t, t[1], m)
  \/ OnDebateOutcome(t, t[1], m)
  \/ OnRiskSignal(t, t[1], m)
  \/ OnReconciledDecision(t, t[1], m)
  \/ OnRecorded(t, t[1], m)

Deliver(t, k) ==
  /\ CanDeliver(t, k, {"good", "partial"})
  /\ Take(k)
  /\ Handler(t, published[NextIn(k)].msg)
  /\ loop' = [loop EXCEPT ![t] = "handling"]
  /\ current' = [current EXCEPT ![t] = NextIn(k)]
  /\ UNCHANGED <<published, offset, owner, logged, missed, cause>>

\* A payload without a field the handler starts from: KeyError before any effect.
DeliverIncomplete(t, k) ==
  /\ CanDeliver(t, k, {"incomplete"})
  /\ Take(k)
  /\ logged' = logged \cup {NextIn(k)}
  /\ UNCHANGED <<chVars, published, offset, owner, loop, current, missed, cause>>

\* A value that is no JSON: value_deserializer raises in the "async for", outside the
\* try, and _loop ends; the consumer stays in the group and keeps its partitions.
DeliverGarbage(t, k) ==
  /\ CanDeliver(t, k, {"garbage"})
  /\ loop' = [loop EXCEPT ![t] = "dead"]
  /\ UNCHANGED <<chVars, published, offset, owner, position, current, logged, missed, cause>>

\* on_reconciled_decision reads idempotency_key and final_value after its first append.
MissesField(t) ==
  /\ pc[t] = "appended" /\ out[t].type = "ReconciledDecision"
  /\ published[current[t]].form = "partial"

\* A payload without them raises KeyError with its own event in the trail.
HandlerMissesField(t) ==
  /\ MissesField(t)
  /\ pc' = [pc EXCEPT ![t] = "failed"]
  /\ UNCHANGED <<coreVars, home, msg, out, res, reply, staging, busVars>>

\* The handler runs up to its next await, or ends.
HandlerRuns(t) ==
  /\ ~MissesField(t)
  /\ Progress(t)
  /\ cause' = IF trail' = trail THEN cause ELSE Append(cause, current[t])
  /\ UNCHANGED <<published, offset, owner, position, loop, current, logged, missed>>

HandlerRaises(t) == AppendFails(t) /\ UNCHANGED busVars

\* Tasks S are free for the next message.
Free(S) ==
  LET clear(f, x) == [t \in Task |-> IF t \in S THEN x ELSE f[t]]
  IN  /\ pc' = clear(pc, "idle")
      /\ msg' = clear(msg, NoMessage)
      /\ out' = clear(out, NoEvent)
      /\ res' = clear(res, NoResult)
      /\ reply' = clear(reply, "none")
      /\ current' = clear(current, 0)

NextMessage(t) ==
  /\ Free({t})
  /\ loop' = [loop EXCEPT ![t] = "polling"]
  /\ UNCHANGED <<trail, batched, pending, first_leaf_ts, life, now, home, staging,
                 published, owner, position, missed, cause>>

\* Mutants of CommitOffsets and LoopLogs.
CommitOffsetsBehind(t) ==
  offset' = [k \in Partition |->
               IF k[1] = t[2] /\ owner[k] = t[1] THEN position[k] - 1 ELSE offset[k]]
CommitOffsetsAhead(t) ==
  offset' = [k \in Partition |->
               IF k[1] = t[2] /\ owner[k] = t[1] THEN position[k] + 1 ELSE offset[k]]
LoopLogsAndEnds(t) ==
  /\ loop[t] = "handling" /\ pc[t] = "failed"
  /\ Free({t})
  /\ loop' = [loop EXCEPT ![t] = "dead"]
  /\ logged' = logged \cup {current[t]}
  /\ UNCHANGED <<coreVars, home, staging, published, offset, owner, position, missed, cause>>

\* commit(): the positions of all partitions the consumer still owns.
CommitOffsets(t) ==
  offset' = [k \in Partition |->
               IF k[1] = t[2] /\ owner[k] = t[1] THEN position[k] ELSE offset[k]]

LoopCommits(t) ==
  /\ loop[t] = "handling" /\ pc[t] = "done"
  /\ CommitOffsets(t)
  /\ NextMessage(t)
  /\ UNCHANGED <<faults, logged>>

\* commit() raises: the except branch logs it like a failed handler.
CommitFails(t) ==
  /\ loop[t] = "handling" /\ pc[t] = "done"
  /\ Fault
  /\ logged' = logged \cup {current[t]}
  /\ NextMessage(t)
  /\ UNCHANGED offset

\* The handler raised: logged, and the next message is awaited.
LoopLogs(t) ==
  /\ loop[t] = "handling" /\ pc[t] = "failed"
  /\ logged' = logged \cup {current[t]}
  /\ NextMessage(t)
  /\ UNCHANGED <<faults, offset>>

-------------------------------------------------------------------------------
\* stop() or a crash: neither commits an offset.
End(p) ==
  /\ life[p] = "up"
  /\ Fault
  /\ life' = [life EXCEPT ![p] = "down"]
  /\ ResetBuilder(p)
  /\ staging' = [staging EXCEPT ![p] = [x \in Decision \X Metric |-> "none"]]
  /\ Free({t \in Task : t[1] = p})
  /\ loop' = [t \in Task |-> IF t[1] = p THEN "none" ELSE loop[t]]
  /\ owner' = [k \in Partition |-> IF owner[k] = p THEN Nobody ELSE owner[k]]
  /\ position' = [k \in Partition |-> IF owner[k] = p THEN NoOffset ELSE position[k]]
  /\ UNCHANGED <<trail, batched, now, home, published, offset, logged, missed, cause>>

\* lifespan: a new bus, and the routes are subscribed again.
Restart(p) ==
  /\ life[p] = "down"
  /\ life' = [life EXCEPT ![p] = "up"]
  /\ UNCHANGED <<trail, batched, pending, first_leaf_ts, now, faults, handlerVars, busVars>>

LoopStep(t) ==
  \/ \E k \in Partition : Deliver(t, k) \/ DeliverIncomplete(t, k) \/ DeliverGarbage(t, k)
  \/ HandlerRuns(t)
  \/ HandlerMissesField(t)
  \/ LoopCommits(t)
  \/ LoopLogs(t)

KafkaNext ==
  \/ \E payload \in Payload : Publish(payload)
  \/ \E t \in Task : \/ Subscribe(t) \/ SubscribeFails(t)
                     \/ LoopStep(t) \/ HandlerRaises(t) \/ CommitFails(t)
  \/ \E k \in Partition : Assign(k) \/ Rebalance(k)
  \/ \E p \in Api : End(p) \/ Restart(p)

\* Coroutines that can run do, the group gives every partition an owner, and a
\* process that ended is started again.
KafkaFairness ==
  /\ \A t \in Task : WF_kafkaVars(Subscribe(t)) /\ WF_kafkaVars(LoopStep(t))
  /\ \A k \in Partition : WF_kafkaVars(Assign(k))
  /\ \A p \in Api : WF_kafkaVars(Restart(p))

KafkaSpec == KafkaInit /\ [][KafkaNext]_kafkaVars /\ KafkaFairness

-------------------------------------------------------------------------------
\* What a reader of the logs has been told about, or never belonged to the group.
Excused(i) == i \in logged \cup missed

\* The whole handler of message i has run, in this delivery or another.
Effective(i) ==
  LET m == published[i].msg IN
  /\ Recorded(i)
  /\ m.kind = "ReconciledDecision" =>
       IF m.evidence = {}
         THEN \E j \in DOMAIN trail : cause[j] = i /\ trail[j].type = "MetricRejected"
         ELSE KeyTaken(m.key)

(* commit() after the handler: an offset the group has committed covers no *)
(* message without its full effect in the audit trail, unless that message *)
(* was logged as failed, whatever crashes, rebalances and handlers in      *)
(* flight there were.                                                      *)
OffsetIsDurable ==
  \A k \in Partition : \A i \in InPartition(k) :
    i <= offset[k] => Effective(i) \/ Excused(i)

(* "key = decision_id -> guarantees single-partition ordering per          *)
(* decision" (publish), for one topic: events of a partition enter the     *)
(* trail in publication order the first time, also when a partition moves  *)
(* to another process while its handler is still running.                  *)
PartitionInOrder ==
  \A k \in Partition : \A i, j \in InPartition(k) :
    i < j /\ Recorded(j) => Recorded(i) \/ Excused(i)

\* The messages of partition k whose handler fails only when something around it does.
Whole(k) == {i \in InPartition(k) : published[i].form = "good"}

\* The copies of message i's own event in the trail.
CopiesOf(i) == {j \in DOMAIN trail : cause[j] = i /\ trail[j].type = published[i].msg.kind}

(* Appends without a key (a risk signal is one) are repeated when _loop is *)
(* given a message again.  The well-formed messages of a partition are     *)
(* repeated together no more often than something failed, and no message   *)
(* more often than that, not even one that raises after its first append   *)
(* at every delivery and whose offset is never committed on its own.       *)
RepeatsNeedFailures ==
  /\ \A k \in Partition :
       Cardinality({j \in DOMAIN trail : cause[j] \in Whole(k) /\ trail[j].type = k[1]})
         <= Cardinality({i \in Whole(k) : Recorded(i)}) + faults
  /\ \A i \in DOMAIN published : Cardinality(CopiesOf(i)) <= 1 + faults

\* A value that cannot be decoded was published to the topic, or no process subscribed.
Stalled(topic) ==
  \/ \E i \in DOMAIN published : published[i].msg.kind = topic /\ published[i].form = "garbage"
  \/ \A p \in Api : loop[<<p, topic>>] = "failed"

Settled(i) == i \in DOMAIN published => Recorded(i) \/ Excused(i)

(* Every published message is eventually in the trail or in the log, also  *)
(* the ones behind a failed handler, behind a crash or handed over by a    *)
(* rebalance, unless the topic has stalled.                                *)
EveryMessageSettled ==
  \A i \in 1..MaxPublished :
    (i \in DOMAIN published) ~> (Settled(i) \/ Stalled(published[i].msg.kind))

(* "log and keep consuming" (_loop): the same without the exception for a  *)
(* topic that has stalled.                                                 *)
KeepsConsuming == \A i \in 1..MaxPublished : (i \in DOMAIN published) ~> Settled(i)

(* "all events for one decision land on one partition and are processed in *)
(* order" (kafka_adapter.py): as PartitionInOrder, over the topics, for a  *)
(* message of a partition that has a consumer.                             *)
DecisionInOrder ==
  \A i, j \in DOMAIN published :
    /\ i < j /\ Recorded(j)
    /\ published[i].msg.decision = published[j].msg.decision
    /\ owner[PartitionOf(published[i].msg)] # Nobody
    => Recorded(i) \/ Excused(i)
===============================================================================
