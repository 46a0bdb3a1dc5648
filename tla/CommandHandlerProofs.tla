------------------------- MODULE CommandHandlerProofs -------------------------
(***************************************************************************)
(* Proofs about CommandHandler, for any number of processes, tasks, keys   *)
(* and messages.                                                           *)
(***************************************************************************)
EXTENDS CommandHandler, FiniteSetTheorems, TLAPS

\* What a task holds while it runs: a well-formed message and event.
WellFormed(t) ==
  Running(t) =>
    /\ msg[t] \in Message
    /\ out[t] \in Event
    /\ out[t].type = "MetricCommitted" =>
         /\ out[t].leaf \in Leaf
         /\ out[t].leaf = compute_leaf_hash(msg[t], out[t].leaf.at)
         /\ out[t].leaf.evidence # {}
         /\ out[t].key = msg[t].key
         /\ out[t].decision = msg[t].decision

TasksWellFormed == \A t \in Task : WellFormed(t)

TypeInv == CHTypeOK /\ TasksWellFormed

-------------------------------------------------------------------------------
(* Events the handlers build.                                              *)

(* An event built by EventOf from typed parts is an event of the trail.    *)
LEMMA EventOfType ==
  ASSUME NEW type \in (Kind \ {"UpdateMetric", "SupersedeMetric"})
                        \cup {"MetricRejected", "MetricCommitted", "MetricSuperseded"},
         NEW d \in Decision, NEW k \in Key \cup {NoKey}, NEW l \in Leaf \cup {NoLeaf}
  PROVE  EventOf(type, d, k, l) \in Event
  BY DEF EventOf, Event

(* compute_leaf_hash of a message at a legal time is a leaf.               *)
LEMMA LeafHashType ==
  ASSUME NEW m \in Message, NEW at \in 0..MaxTime
  PROVE  compute_leaf_hash(m, at) \in Leaf
  BY MessageAssumption DEF compute_leaf_hash, Leaf, MessageType

(* The event that follows a command or a reconciled decision (Outcome) is  *)
(* a rejection, or a commit with evidence, its own key and its own leaf.   *)
LEMMA OutcomeShape ==
  ASSUME NEW m \in Message, now \in 0..MaxTime
  PROVE  /\ Outcome(m) \in Event
         /\ Outcome(m).type \in {"MetricRejected", "MetricCommitted"}
         /\ Outcome(m).type = "MetricCommitted" =>
              /\ Outcome(m).leaf \in Leaf
              /\ Outcome(m).leaf = compute_leaf_hash(m, Outcome(m).leaf.at)
              /\ Outcome(m).leaf.evidence # {}
              /\ Outcome(m).key = m.key
              /\ Outcome(m).decision = m.decision
<1>0. m.decision \in Decision /\ m.key \in Key
  BY MessageAssumption DEF MessageType
<1>1. CASE m.evidence = {}
  <2>1. Outcome(m) = EventOf("MetricRejected", m.decision, NoKey, NoLeaf)
    BY <1>1 DEF Outcome, RejectedEvent
  <2>2. Outcome(m).type = "MetricRejected"
    BY <2>1 DEF EventOf
  <2> QED BY <1>0, <2>1, <2>2, EventOfType
<1>2. CASE m.evidence # {}
  <2> DEFINE l == compute_leaf_hash(m, now)
  <2>1. Outcome(m) = EventOf("MetricCommitted", m.decision, m.key, l)
    BY <1>2 DEF Outcome, CommittedEvent
  <2>2. l \in Leaf
    BY LeafHashType
  <2>3. l.at = now /\ l.evidence # {}
    BY <1>2 DEF compute_leaf_hash
  <2>4. /\ Outcome(m).type = "MetricCommitted" /\ Outcome(m).leaf = l
        /\ Outcome(m).key = m.key /\ Outcome(m).decision = m.decision
    BY <2>1 DEF EventOf
  <2>5. Outcome(m) \in Event
    BY <1>0, <2>1, <2>2, EventOfType
  <2> QED BY <2>2, <2>3, <2>4, <2>5
<1> QED BY <1>1, <1>2

-------------------------------------------------------------------------------
(* Type correctness.                                                       *)

(* The initial state is typed and no task runs.                            *)
LEMMA TypeInit == CHInit => TypeInv
  BY ProcAssumption, BoundAssumption
  DEF CHInit, CoreInit, Init, TypeInv, CHTypeOK, CoreTypeOK, TasksWellFormed, WellFormed,
      Running, Status, Reply, AppendResult, NoResult, NoTime

(* An arrival stores a message and a well-formed event in its task.        *)
LEMMA TypeArrive ==
  ASSUME TypeInv, NEW t \in Task, NEW p \in Proc, NEW m \in Message, NEW e \in Event,
         e.type = "MetricCommitted" =>
           /\ e.leaf \in Leaf
           /\ e.leaf = compute_leaf_hash(m, e.leaf.at)
           /\ e.leaf.evidence # {}
           /\ e.key = m.key
           /\ e.decision = m.decision,
         Arrive(t, p, m, e), staging' \in [Proc -> [Decision \X Metric -> Status]]
  PROVE  TypeInv'
<1> USE DEF TypeInv, Arrive, Send
<1>1. CHTypeOK'
  BY DEF CHTypeOK, CoreTypeOK, coreVars
<1>2. TasksWellFormed'
  <2> SUFFICES ASSUME NEW u \in Task PROVE WellFormed(u)'
    BY DEF TasksWellFormed
  <2>1. CASE u = t
    BY <2>1 DEF WellFormed, Running, CHTypeOK
  <2>2. CASE u # t
    <3>1. pc'[u] = pc[u] /\ msg'[u] = msg[u] /\ out'[u] = out[u]
      BY <2>2 DEF CHTypeOK
    <3> QED BY <3>1 DEF TasksWellFormed, WellFormed, Running
  <2> QED BY <2>1, <2>2
<1> QED BY <1>1, <1>2

(* SetStaging writes a status.                                             *)
LEMMA StagingType ==
  ASSUME CHTypeOK, NEW p \in Proc, NEW d \in Decision, NEW m \in Metric, NEW s \in Status,
         SetStaging(p, d, m, s)
  PROVE  staging' \in [Proc -> [Decision \X Metric -> Status]]
<1>1. staging \in [Proc -> [Decision \X Metric -> Status]]
  BY DEF CHTypeOK
<1>2. [staging[p] EXCEPT ![<<d, m>>] = s] \in [Decision \X Metric -> Status]
  BY <1>1
<1> QED BY <1>1, <1>2 DEF SetStaging

(* Every arrival keeps the types.                                          *)
LEMMA TypeArrival ==
  ASSUME TypeInv, NEW t \in Task, NEW p \in Proc, NEW m \in Message, Arrival(t, p, m)
  PROVE  TypeInv'
<1>0. /\ now \in 0..MaxTime /\ trail \in Seq(Event)
      /\ staging \in [Proc -> [Decision \X Metric -> Status]]
      /\ m.decision \in Decision /\ m.metric \in Metric /\ m.key \in Key
  BY MessageAssumption DEF TypeInv, CHTypeOK, CoreTypeOK, MessageType
<1>1. CASE HandleUpdateMetric(t, p, m)
  <2>1. Arrive(t, p, m, Outcome(m)) /\ staging' = staging
    BY <1>1 DEF HandleUpdateMetric
  <2> QED BY <1>0, <2>1, OutcomeShape, TypeArrive
<1>2. ASSUME NEW kind \in Kind \ {"UpdateMetric", "SupersedeMetric"}, FromBus(t, p, m, kind),
             staging' \in [Proc -> [Decision \X Metric -> Status]]
      PROVE  TypeInv'
  <2> DEFINE e == EventOf(kind, m.decision, NoKey, NoLeaf)
  <2>1. Arrive(t, p, m, e)
    BY <1>2 DEF FromBus
  <2>2. e \in Event
    BY <1>0, EventOfType
  <2>3. e.type # "MetricCommitted"
    BY DEF EventOf, Kind
  <2> HIDE DEF e
  <2> QED BY <1>2, <2>1, <2>2, <2>3, TypeArrive
<1>3. CASE OnMetricProposed(t, p, m)
  <2>1. staging' \in [Proc -> [Decision \X Metric -> Status]]
    BY <1>0, <1>3, StagingType DEF OnMetricProposed, TypeInv, Status
  <2> QED BY <1>2, <1>3, <2>1 DEF OnMetricProposed, Kind
<1>4. CASE OnDebateOutcome(t, p, m)
  <2>1. staging' \in [Proc -> [Decision \X Metric -> Status]]
    BY <1>0, <1>4, StagingType DEF OnDebateOutcome, TypeInv, Status
  <2> QED BY <1>2, <1>4, <2>1 DEF OnDebateOutcome, Kind
<1>5. CASE OnRiskSignal(t, p, m)
  <2>1. staging' \in [Proc -> [Decision \X Metric -> Status]]
    BY <1>0, <1>5, StagingType DEF OnRiskSignal, TypeInv, Status
  <2> QED BY <1>2, <1>5, <2>1 DEF OnRiskSignal, Kind
<1>6. CASE OnReconciledDecision(t, p, m)
  <2>1. staging' \in [Proc -> [Decision \X Metric -> Status]]
    BY <1>0, <1>6, StagingType DEF OnReconciledDecision, TypeInv, Status
  <2> QED BY <1>2, <1>6, <2>1 DEF OnReconciledDecision, Kind
<1>7. CASE OnRecorded(t, p, m)
  BY <1>0, <1>2, <1>7 DEF OnRecorded, Kind
<1>8. CASE SupersedeMetric(t, p, m)
  <2>1. PICK i \in Committed :
          Arrive(t, p, m, EventOf("MetricSuperseded", m.decision, m.key, trail[i].leaf))
    BY <1>8 DEF SupersedeMetric
  <2> DEFINE e == EventOf("MetricSuperseded", m.decision, m.key, trail[i].leaf)
  <2>2. trail[i].leaf \in Leaf \cup {NoLeaf}
    <3>1. i \in DOMAIN trail
      BY DEF Committed
    <3>2. trail[i] \in Event
      BY <1>0, <3>1
    <3> QED BY <3>2 DEF Event
  <2>3. e \in Event
    BY <1>0, <2>2, EventOfType
  <2>4. e.type # "MetricCommitted"
    BY DEF EventOf
  <2>5. staging' = staging
    BY <1>8 DEF SupersedeMetric
  <2> HIDE DEF e
  <2>6. Arrive(t, p, m, e)
    BY <2>1 DEF e
  <2> QED BY <1>0, <2>3, <2>4, <2>5, <2>6, TypeArrive
<1> QED BY <1>1, <1>3, <1>4, <1>5, <1>6, <1>7, <1>8
  DEF Arrival, RestUpdateMetric, GrpcUpdateMetric

(* The id an append answers with is a natural number.                      *)
LEMMA EventIdType ==
  ASSUME CHTypeOK, NEW e \in Event
  PROVE  EventIdOf(e) \in Nat
<1>0. trail \in Seq(Event)
  BY DEF CHTypeOK, CoreTypeOK
<1>1. CASE KeyTaken(e.key)
  <2>1. ExistingId(e.key) \in DOMAIN trail
    BY <1>1 DEF KeyTaken, ExistingId
  <2> QED BY <1>0, <1>1, <2>1 DEF EventIdOf
<1>2. CASE ~KeyTaken(e.key)
  BY <1>0, <1>2 DEF EventIdOf
<1> QED BY <1>1, <1>2

(* The append takes effect: the trail grows by an event or not at all.     *)
LEMMA TypeAppendStep ==
  ASSUME TypeInv, NEW t \in Task, AppendStep(t)
  PROVE  TypeInv'
<1>0. out[t] \in Event
  BY DEF TypeInv, TasksWellFormed, WellFormed, Running, AppendStep, ResultOf
<1>1. trail' \in Seq(Event) /\ batched' \subseteq DOMAIN trail'
  BY <1>0 DEF TypeInv, CHTypeOK, CoreTypeOK, AppendStep, ResultOf, AppendEvent
<1>2. EventIdOf(out[t]) \in Nat
  BY <1>0, EventIdType DEF TypeInv
<1>3. KeyTaken(out[t].key) \in BOOLEAN
  BY DEF KeyTaken
<1>4. res' \in [Task -> AppendResult]
  BY <1>2, <1>3 DEF TypeInv, CHTypeOK, AppendStep, ResultOf, AppendResult
<1>5. CHTypeOK'
  BY <1>1, <1>4 DEF TypeInv, CHTypeOK, CoreTypeOK, AppendStep, ResultOf
<1>6. TasksWellFormed'
  BY DEF TypeInv, CHTypeOK, TasksWellFormed, WellFormed, Running, AppendStep, ResultOf
<1> QED BY <1>5, <1>6 DEF TypeInv

(* The second append of on_reconciled_decision.                            *)
LEMMA TypeResumeReconciled ==
  ASSUME TypeInv, NEW t \in Task, ResumeReconciled(t)
  PROVE  TypeInv'
<1>0. msg[t] \in Message /\ now \in 0..MaxTime
  BY DEF TypeInv, TasksWellFormed, WellFormed, Running, ResumeReconciled, CHTypeOK, CoreTypeOK
<1> DEFINE e == Outcome(msg[t])
<1>1. /\ e \in Event
      /\ e.type = "MetricCommitted" =>
           /\ e.leaf \in Leaf
           /\ e.leaf = compute_leaf_hash(msg[t], e.leaf.at)
           /\ e.leaf.evidence # {}
           /\ e.key = msg[t].key
           /\ e.decision = msg[t].decision
  BY <1>0, OutcomeShape
<1>2. pc' = [pc EXCEPT ![t] = "append"] /\ out' = [out EXCEPT ![t] = e]
  BY DEF ResumeReconciled, Send
<1> HIDE DEF e
<1>3. CHTypeOK'
  BY <1>1, <1>2 DEF TypeInv, CHTypeOK, CoreTypeOK, ResumeReconciled, coreVars
<1>4. TasksWellFormed'
  <2> SUFFICES ASSUME NEW u \in Task PROVE WellFormed(u)'
    BY DEF TasksWellFormed
  <2>1. msg' = msg
    BY DEF ResumeReconciled
  <2>2. CASE u = t
    BY <1>0, <1>1, <1>2, <2>1, <2>2 DEF WellFormed, TypeInv, CHTypeOK
  <2>3. CASE u # t
    <3>1. pc'[u] = pc[u] /\ out'[u] = out[u]
      BY <1>2, <2>3 DEF TypeInv, CHTypeOK
    <3> QED BY <2>1, <3>1 DEF TypeInv, TasksWellFormed, WellFormed, Running
  <2> QED BY <2>2, <2>3
<1> QED BY <1>3, <1>4 DEF TypeInv

(* A task that ends runs no more, and the others are untouched.            *)
LEMMA EndedWellFormed ==
  ASSUME TypeInv, NEW t \in Task, NEW s \in {"done", "failed"},
         pc' = [pc EXCEPT ![t] = s], msg' = msg, out' = out
  PROVE  TasksWellFormed'
  BY DEF TypeInv, CHTypeOK, TasksWellFormed, WellFormed, Running

(* The tail of _commit: the leaf goes to the builder of the task's process. *)
LEMMA TypeFinishCommit ==
  ASSUME TypeInv, NEW t \in Task, FinishCommit(t)
  PROVE  TypeInv'
<1>0. /\ out[t].leaf \in Leaf /\ msg[t] \in Message /\ home[t] \in Proc
      /\ res[t] \in AppendResult /\ msg[t].decision \in Decision /\ msg[t].metric \in Metric
  BY MessageAssumption DEF TypeInv, TasksWellFormed, WellFormed, Running, FinishCommit, Duplicate,
                           CHTypeOK, MessageType
<1>1. TasksWellFormed'
  BY EndedWellFormed DEF FinishCommit, Duplicate
<1>2. /\ pending' \in [Proc -> Seq(PendingLeaf)]
      /\ first_leaf_ts' \in [Proc -> (0..MaxTime) \cup {NoTime}]
      /\ staging' \in [Proc -> [Decision \X Metric -> Status]]
  <2>1. CASE res[t].deduplicated
    BY <2>1 DEF FinishCommit, Duplicate, TypeInv, CHTypeOK, CoreTypeOK
  <2>2. CASE ~res[t].deduplicated
    <3>1. AddLeaf(home[t], out[t].leaf, res[t].event_id)
      BY <2>2 DEF FinishCommit, Duplicate
    <3>2. [leaf_hash |-> out[t].leaf, event_id |-> res[t].event_id,
           decision_id |-> out[t].leaf.decision] \in PendingLeaf
      BY <1>0 DEF PendingLeaf, AppendResult, Leaf
    <3>3. out[t].leaf.at \in 0..MaxTime
      BY <1>0 DEF Leaf
    <3>4. pending' \in [Proc -> Seq(PendingLeaf)]
      BY <1>0, <3>1, <3>2 DEF AddLeaf, FirstLeafTs, TypeInv, CHTypeOK, CoreTypeOK
    <3>5. first_leaf_ts' \in [Proc -> (0..MaxTime) \cup {NoTime}]
      BY <1>0, <3>1, <3>3 DEF AddLeaf, FirstLeafTs, TypeInv, CHTypeOK, CoreTypeOK
    <3>6. staging' \in [Proc -> [Decision \X Metric -> Status]]
      BY <1>0, <2>2, StagingType DEF FinishCommit, Duplicate, TypeInv, Status
    <3> QED BY <3>4, <3>5, <3>6
  <2> QED BY <2>1, <2>2
<1>3. reply' \in [Task -> Reply]
  BY DEF FinishCommit, Duplicate, TypeInv, CHTypeOK, Reply
<1>4. CHTypeOK'
  BY <1>2, <1>3 DEF FinishCommit, Duplicate, TypeInv, CHTypeOK, CoreTypeOK
<1> QED BY <1>1, <1>4 DEF TypeInv

(* The other ends of a task, and the clock.                                *)
LEMMA TypeOther ==
  ASSUME TypeInv
  PROVE  /\ \A t \in Task : FinishOther(t) \/ AppendFails(t) => TypeInv'
         /\ CHTick => TypeInv'
<1>1. ASSUME NEW t \in Task, FinishOther(t) PROVE TypeInv'
  <2>1. TasksWellFormed'
    BY <1>1, EndedWellFormed DEF FinishOther
  <2>2. CHTypeOK'
    BY <1>1 DEF FinishOther, TypeInv, CHTypeOK, CoreTypeOK, coreVars, Reply
  <2> QED BY <2>1, <2>2 DEF TypeInv
<1>2. ASSUME NEW t \in Task, AppendFails(t) PROVE TypeInv'
  <2>1. TasksWellFormed'
    BY <1>2, EndedWellFormed DEF AppendFails
  <2>2. faults' \in 0..MaxFaults
    BY <1>2, BoundAssumption DEF AppendFails, Fault, TypeInv, CHTypeOK, CoreTypeOK
  <2>3. CHTypeOK'
    BY <1>2, <2>2 DEF AppendFails, TypeInv, CHTypeOK, CoreTypeOK
  <2> QED BY <2>1, <2>3 DEF TypeInv
<1>3. ASSUME CHTick PROVE TypeInv'
  <2>1. now' \in 0..MaxTime
    BY <1>3, BoundAssumption DEF CHTick, Tick, TypeInv, CHTypeOK, CoreTypeOK
  <2>2. CHTypeOK'
    BY <1>3, <2>1 DEF CHTick, Tick, handlerVars, TypeInv, CHTypeOK, CoreTypeOK
  <2>3. TasksWellFormed'
    BY <1>3 DEF CHTick, handlerVars, TypeInv, TasksWellFormed, WellFormed, Running
  <2> QED BY <2>2, <2>3 DEF TypeInv
<1> QED BY <1>1, <1>2, <1>3

(* A stuttering step changes nothing the invariant speaks of.              *)
LEMMA TypeStutter == TypeInv /\ UNCHANGED chVars => TypeInv'
  BY DEF TypeInv, chVars, coreVars, handlerVars, CHTypeOK, CoreTypeOK, TasksWellFormed,
         WellFormed, Running

(* TypeInv is inductive.                                                   *)
LEMMA TypeNext == TypeInv /\ [CHNext]_chVars => TypeInv'
<1> SUFFICES ASSUME TypeInv, CHNext PROVE TypeInv'
  BY TypeStutter
<1>1. ASSUME NEW t \in Task, NEW p \in Proc, NEW m \in Message, Arrival(t, p, m) PROVE TypeInv'
  BY <1>1, TypeArrival
<1>2. ASSUME NEW t \in Task, Progress(t) PROVE TypeInv'
  BY <1>2, TypeAppendStep, TypeResumeReconciled, TypeFinishCommit, TypeOther DEF Progress
<1>3. ASSUME NEW t \in Task, AppendFails(t) PROVE TypeInv'
  BY <1>3, TypeOther
<1>4. ASSUME CHTick PROVE TypeInv'
  BY <1>4, TypeOther
<1> QED BY <1>1, <1>2, <1>3, <1>4 DEF CHNext

(* Type correctness of the command handler: the trail, the builders and    *)
(* the staging area keep their shape under every interleaving of handlers. *)
THEOREM TypeCorrect == CHSpec => []CHTypeOK
<1>1. CHInit => TypeInv
  BY TypeInit
<1>2. TypeInv /\ [CHNext]_chVars => TypeInv'
  BY TypeNext
<1>3. TypeInv => CHTypeOK
  BY DEF TypeInv
<1> QED BY <1>1, <1>2, <1>3, PTL DEF CHSpec

-------------------------------------------------------------------------------
(* The trail.  Only AppendStep changes it, and only by a new event whose   *)
(* key is free.                                                            *)

(* Every step leaves the trail alone or is the append of one task.         *)
LEMMA TrailSteps ==
  ASSUME [CHNext]_chVars
  PROVE  trail' = trail \/ \E t \in Task : AppendStep(t)
<1>1. CASE UNCHANGED chVars
  BY <1>1 DEF chVars, coreVars
<1>2. ASSUME NEW t \in Task, NEW p \in Proc, NEW m \in Message, Arrival(t, p, m)
      PROVE  trail' = trail
  BY <1>2 DEF Arrival, RestUpdateMetric, GrpcUpdateMetric, HandleUpdateMetric,
              OnMetricProposed, OnDebateOutcome, OnRiskSignal,
              OnReconciledDecision, OnRecorded, SupersedeMetric, FromBus, Arrive, coreVars
<1>3. ASSUME NEW t \in Task, Progress(t) \/ AppendFails(t)
      PROVE  trail' = trail \/ AppendStep(t)
  BY <1>3 DEF Progress, AppendFails, ResumeReconciled, FinishCommit, Duplicate, FinishOther, coreVars
<1>4. CHTick => trail' = trail
  BY DEF CHTick, Tick
<1> QED BY <1>1, <1>2, <1>3, <1>4 DEF CHNext

\* I6: no two events carry one key.  The port keeps it so, and what follows rests on it.
OneEventPerKey ==
  \A i, j \in DOMAIN trail :
    trail[i].key # NoKey /\ trail[i].key = trail[j].key => i = j

(* A new event is added only when no event of the trail has its key.       *)
LEMMA AppendKeepsKeysUnique ==
  ASSUME trail \in Seq(Event), OneEventPerKey, NEW e \in Event, AppendEvent(e)
  PROVE  OneEventPerKey'
<1>1. CASE KeyTaken(e.key)
  BY <1>1 DEF AppendEvent, OneEventPerKey
<1>2. CASE ~KeyTaken(e.key)
  <2>1. trail' = Append(trail, e)
    BY <1>2 DEF AppendEvent
  <2>2. \A i \in DOMAIN trail : e.key # NoKey => trail[i].key # e.key
    BY <1>2 DEF KeyTaken
  <2> QED BY <2>1, <2>2 DEF OneEventPerKey
<1> QED BY <1>1, <1>2

(* The inductive step of I6.                                               *)
LEMMA KeysNext == TypeInv /\ OneEventPerKey /\ [CHNext]_chVars => OneEventPerKey'
<1> SUFFICES ASSUME TypeInv, OneEventPerKey, [CHNext]_chVars PROVE OneEventPerKey'
  OBVIOUS
<1>1. CASE trail' = trail
  BY <1>1 DEF OneEventPerKey
<1>2. ASSUME NEW t \in Task, AppendStep(t) PROVE OneEventPerKey'
  <2>1. trail \in Seq(Event) /\ out[t] \in Event
    BY <1>2 DEF TypeInv, CHTypeOK, CoreTypeOK, TasksWellFormed, WellFormed, Running, AppendStep, ResultOf
  <2> QED BY <1>2, <2>1, AppendKeepsKeysUnique DEF AppendStep, ResultOf
<1> QED BY <1>1, <1>2, TrailSteps

(* The inductive step of I3.                                               *)
LEMMA EvidenceNext == TypeInv /\ CommitsAreEvidenced /\ [CHNext]_chVars => CommitsAreEvidenced'
<1> SUFFICES ASSUME TypeInv, CommitsAreEvidenced, [CHNext]_chVars PROVE CommitsAreEvidenced'
  OBVIOUS
<1>1. CASE trail' = trail
  BY <1>1 DEF CommitsAreEvidenced, Committed
<1>2. ASSUME NEW t \in Task, AppendStep(t), trail' # trail PROVE CommitsAreEvidenced'
  <2>1. trail \in Seq(Event) /\ out[t] \in Event /\ WellFormed(t) /\ Running(t)
    BY <1>2 DEF TypeInv, CHTypeOK, CoreTypeOK, TasksWellFormed, WellFormed, Running, AppendStep, ResultOf
  <2>2. trail' = Append(trail, out[t])
    BY <1>2 DEF AppendStep, ResultOf, AppendEvent
  <2>3. out[t].type = "MetricCommitted" =>
          /\ out[t].leaf # NoLeaf
          /\ out[t].leaf.evidence # {}
          /\ out[t].leaf.key = out[t].key
          /\ out[t].leaf.decision = out[t].decision
    <3>1. SUFFICES ASSUME out[t].type = "MetricCommitted"
                   PROVE  /\ out[t].leaf # NoLeaf
                          /\ out[t].leaf.evidence # {}
                          /\ out[t].leaf.key = out[t].key
                          /\ out[t].leaf.decision = out[t].decision
      OBVIOUS
    <3>2. out[t].leaf # NoLeaf
      BY <2>1, <3>1, NoLeafAssumption DEF WellFormed
    <3>3. out[t].leaf.key = msg[t].key /\ out[t].leaf.decision = msg[t].decision
      BY <2>1, <3>1 DEF WellFormed, compute_leaf_hash
    <3> QED BY <2>1, <3>1, <3>2, <3>3 DEF WellFormed
  <2> SUFFICES ASSUME NEW i \in DOMAIN trail', trail'[i].type = "MetricCommitted"
               PROVE  /\ trail'[i].leaf # NoLeaf
                      /\ trail'[i].leaf.evidence # {}
                      /\ trail'[i].leaf.key = trail'[i].key
                      /\ trail'[i].leaf.decision = trail'[i].decision
    BY DEF CommitsAreEvidenced, Committed
  <2>4. CASE i \in DOMAIN trail
    <3>1. trail'[i] = trail[i]
      BY <2>1, <2>2, <2>4
    <3> QED BY <2>4, <3>1 DEF CommitsAreEvidenced, Committed
  <2>5. CASE i \notin DOMAIN trail
    <3>1. trail'[i] = out[t]
      BY <2>1, <2>2, <2>5
    <3> QED BY <2>3, <3>1
  <2> QED BY <2>4, <2>5
<1> QED BY <1>1, <1>2, TrailSteps

(* I3 (README): a metric is committed only with evidence and under its own *)
(* key, by UpdateMetric and by the reconciled path alike.                  *)
THEOREM Evidenced == CHSpec => []CommitsAreEvidenced
<1>1. CHInit => TypeInv /\ CommitsAreEvidenced
  BY TypeInit DEF CHInit, CoreInit, Init, CommitsAreEvidenced, Committed
<1>2. TypeInv /\ CommitsAreEvidenced /\ [CHNext]_chVars => (TypeInv /\ CommitsAreEvidenced)'
  BY TypeNext, EvidenceNext
<1> QED BY <1>1, <1>2, PTL DEF CHSpec

-------------------------------------------------------------------------------
(* Answers.  A task wins when its append was not a duplicate; it is told   *)
(* ACCEPTED one step later.  The invariant ties a winner to the event it   *)
(* appended from the moment of the append, because the answer is computed  *)
(* only after other tasks have had the chance to run.                      *)

Won(t) ==
  \/ pc[t] = "appended" /\ out[t].type = "MetricCommitted" /\ ~res[t].deduplicated
  \/ reply[t] = "ACCEPTED"

AnswersEnd == \A t \in Task : reply[t] # "none" => pc[t] = "done"

WinnersOwnEvents ==
  /\ \A t \in Task : Won(t) =>
       /\ res[t].event_id \in Committed
       /\ trail[res[t].event_id].key = msg[t].key
       /\ msg[t].key # NoKey
       /\ trail[res[t].event_id].leaf = compute_leaf_hash(msg[t], trail[res[t].event_id].leaf.at)
  /\ \A t, u \in Task : Won(t) /\ Won(u) /\ res[t].event_id = res[u].event_id => t = u

AnswerInv == TypeInv /\ OneEventPerKey /\ AnswersEnd /\ WinnersOwnEvents

(* A step that appends nothing and makes no new winner keeps the invariant. *)
LEMMA WinnersKept ==
  ASSUME WinnersOwnEvents, trail' = trail,
         \A u \in Task : Won(u)' => Won(u) /\ res'[u] = res[u] /\ msg'[u] = msg[u]
  PROVE  WinnersOwnEvents'
  BY DEF WinnersOwnEvents, Committed, compute_leaf_hash

(* An arrival touches an idle task only, and an idle task has no answer.   *)
LEMMA AnswerArrival ==
  ASSUME AnswerInv, NEW t \in Task, NEW p \in Proc, NEW m \in Message, Arrival(t, p, m)
  PROVE  AnswersEnd' /\ WinnersOwnEvents'
<1>1. /\ pc[t] = "idle" /\ pc' = [pc EXCEPT ![t] = "append"]
      /\ trail' = trail /\ res' = res /\ reply' = reply
      /\ \A u \in Task \ {t} : msg'[u] = msg[u] /\ out'[u] = out[u]
  BY DEF AnswerInv, TypeInv, CHTypeOK, Arrival, RestUpdateMetric, GrpcUpdateMetric,
         HandleUpdateMetric, OnMetricProposed,
         OnDebateOutcome, OnRiskSignal, OnReconciledDecision, OnRecorded, SupersedeMetric,
         FromBus, Arrive, Send, coreVars
<1>2. reply[t] = "none"
  BY <1>1 DEF AnswerInv, AnswersEnd
<1>3. AnswersEnd'
  BY <1>1, <1>2 DEF AnswerInv, TypeInv, CHTypeOK, AnswersEnd
<1>4. \A u \in Task : Won(u)' => Won(u) /\ res'[u] = res[u] /\ msg'[u] = msg[u]
  BY <1>1, <1>2 DEF AnswerInv, TypeInv, CHTypeOK, Won
<1> QED BY <1>1, <1>3, <1>4, WinnersKept DEF AnswerInv

(* The append: a duplicate makes no winner, and the id of a new event is   *)
(* no other winner's id.                                                   *)
LEMMA AnswerAppendStep ==
  ASSUME AnswerInv, NEW t \in Task, AppendStep(t)
  PROVE  AnswersEnd' /\ WinnersOwnEvents'
<1>0. /\ pc[t] = "append" /\ pc' = [pc EXCEPT ![t] = "appended"]
      /\ msg' = msg /\ out' = out /\ reply' = reply
      /\ res' = [res EXCEPT ![t] = [event_id |-> EventIdOf(out[t]),
                                    deduplicated |-> KeyTaken(out[t].key)]]
  BY DEF AppendStep, ResultOf
<1>1. /\ trail \in Seq(Event) /\ pc \in [Task -> {"idle", "append", "appended", "done", "failed"}]
      /\ res \in [Task -> AppendResult]
  BY DEF AnswerInv, TypeInv, CHTypeOK, CoreTypeOK
<1>2. reply[t] = "none"
  BY <1>0 DEF AnswerInv, AnswersEnd
<1>3. AnswersEnd'
  BY <1>0, <1>1, <1>2 DEF AnswerInv, AnswersEnd
<1>4. \A u \in Task \ {t} : res'[u] = res[u] /\ (Won(u)' <=> Won(u))
  BY <1>0, <1>1 DEF Won
<1>5. CASE KeyTaken(out[t].key)
  <2>1. trail' = trail
    BY <1>5 DEF AppendStep, ResultOf, AppendEvent
  <2>2. res'[t].deduplicated
    BY <1>0, <1>1, <1>5
  <2>3. ~Won(t)'
    BY <1>0, <1>2, <2>2 DEF Won
  <2> QED BY <1>0, <1>3, <1>4, <2>1, <2>3, WinnersKept DEF AnswerInv
<1>6. CASE ~KeyTaken(out[t].key)
  <2>1. trail' = Append(trail, out[t]) /\ res'[t].event_id = Len(trail) + 1
    BY <1>0, <1>1, <1>6 DEF AppendStep, ResultOf, AppendEvent, EventIdOf
  <2>2. ASSUME NEW u \in Task \ {t}, Won(u)'
        PROVE  /\ res'[u].event_id \in DOMAIN trail
               /\ res'[u].event_id \in Committed'
               /\ trail'[res'[u].event_id] = trail[res[u].event_id]
    <3>1. res'[u] = res[u] /\ res[u].event_id \in Committed
      BY <1>4, <2>2 DEF AnswerInv, WinnersOwnEvents
    <3>2. res[u].event_id \in DOMAIN trail /\ trail[res[u].event_id].type = "MetricCommitted"
      BY <3>1 DEF Committed
    <3>3. trail'[res[u].event_id] = trail[res[u].event_id] /\ res[u].event_id \in DOMAIN trail'
      BY <1>1, <2>1, <3>2
    <3> QED BY <3>1, <3>2, <3>3 DEF Committed
  <2>3. ASSUME Won(t)'
        PROVE  /\ res'[t].event_id \in Committed'
               /\ trail'[res'[t].event_id] = out[t]
               /\ out[t].key = msg[t].key /\ msg[t].key # NoKey
               /\ out[t].leaf = compute_leaf_hash(msg[t], out[t].leaf.at)
    <3>1. out[t].type = "MetricCommitted"
      BY <1>0, <1>2, <2>3 DEF Won
    <3>2. /\ out[t].key = msg[t].key /\ msg[t] \in Message
          /\ out[t].leaf = compute_leaf_hash(msg[t], out[t].leaf.at)
      BY <1>0, <3>1 DEF AnswerInv, TypeInv, TasksWellFormed, WellFormed, Running
    <3>3. msg[t].key # NoKey
      BY <3>2, MessageAssumption, KeyAssumption DEF MessageType
    <3>4. trail'[Len(trail) + 1] = out[t] /\ Len(trail) + 1 \in DOMAIN trail'
      BY <1>1, <2>1
    <3> QED BY <2>1, <3>1, <3>2, <3>3, <3>4 DEF Committed
  <2>4. \A u \in Task : Won(u)' =>
          /\ res'[u].event_id \in Committed'
          /\ trail'[res'[u].event_id].key = msg'[u].key
          /\ msg'[u].key # NoKey
          /\ trail'[res'[u].event_id].leaf
               = compute_leaf_hash(msg'[u], trail'[res'[u].event_id].leaf.at)
    <3> SUFFICES ASSUME NEW u \in Task, Won(u)'
                 PROVE  /\ res'[u].event_id \in Committed'
                        /\ trail'[res'[u].event_id].key = msg'[u].key
                        /\ msg'[u].key # NoKey
                        /\ trail'[res'[u].event_id].leaf
                             = compute_leaf_hash(msg'[u], trail'[res'[u].event_id].leaf.at)
      OBVIOUS
    <3>1. CASE u = t
      BY <1>0, <2>3, <3>1
    <3>2. CASE u # t
      BY <1>0, <1>4, <2>2, <3>2 DEF AnswerInv, WinnersOwnEvents
    <3> QED BY <3>1, <3>2
  <2>5. ASSUME NEW u \in Task, NEW v \in Task, Won(u)', Won(v)',
               res'[u].event_id = res'[v].event_id
        PROVE  u = v
    <3>1. Len(trail) + 1 \notin DOMAIN trail
      BY <1>1
    <3>2. CASE u = t \/ v = t
      BY <2>1, <2>2, <2>5, <3>1, <3>2
    <3>3. CASE u # t /\ v # t
      BY <1>4, <2>5, <3>3 DEF AnswerInv, WinnersOwnEvents
    <3> QED BY <3>2, <3>3
  <2>6. WinnersOwnEvents'
    BY <2>4, <2>5 DEF WinnersOwnEvents, compute_leaf_hash
  <2> QED BY <1>3, <2>6
<1> QED BY <1>5, <1>6

(* The remaining steps append nothing and make no new winner.              *)
LEMMA AnswerOther ==
  ASSUME AnswerInv, NEW t \in Task,
         ResumeReconciled(t) \/ FinishCommit(t) \/ FinishOther(t) \/ AppendFails(t)
  PROVE  AnswersEnd' /\ WinnersOwnEvents'
<1>0. /\ trail' = trail /\ res' = res /\ msg' = msg
      /\ pc[t] \in {"append", "appended"}
      /\ \A u \in Task \ {t} : pc'[u] = pc[u] /\ out'[u] = out[u] /\ reply'[u] = reply[u]
  BY DEF AnswerInv, TypeInv, CHTypeOK, ResumeReconciled, FinishCommit, Duplicate, FinishOther,
         AppendFails, Send, coreVars
<1>1. reply[t] = "none"
  BY <1>0 DEF AnswerInv, AnswersEnd
<1>2. \/ reply'[t] = "none" /\ pc'[t] # "appended"
      \/ pc'[t] = "done" /\ (reply'[t] = "ACCEPTED" => Won(t))
  BY <1>1 DEF AnswerInv, TypeInv, CHTypeOK, ResumeReconciled, FinishCommit, Duplicate, FinishOther,
              AppendFails, Send, Won
<1>3. AnswersEnd'
  BY <1>0, <1>2 DEF AnswerInv, AnswersEnd
<1>4. \A u \in Task : Won(u)' => Won(u)
  BY <1>0, <1>2 DEF Won
<1> QED BY <1>0, <1>3, <1>4, WinnersKept DEF AnswerInv

(* AnswerInv is inductive.                                                 *)
LEMMA AnswerNext == AnswerInv /\ [CHNext]_chVars => AnswerInv'
<1> SUFFICES ASSUME AnswerInv, [CHNext]_chVars PROVE AnswersEnd' /\ WinnersOwnEvents'
  BY TypeNext, KeysNext DEF AnswerInv
<1>1. CASE UNCHANGED chVars \/ CHTick
  <2>1. trail' = trail /\ pc' = pc /\ msg' = msg /\ out' = out /\ res' = res /\ reply' = reply
    BY <1>1 DEF chVars, coreVars, handlerVars, CHTick, Tick
  <2> QED BY <2>1, WinnersKept DEF AnswerInv, AnswersEnd, Won
<1>2. ASSUME NEW t \in Task, NEW p \in Proc, NEW m \in Message, Arrival(t, p, m)
      PROVE  AnswersEnd' /\ WinnersOwnEvents'
  BY <1>2, AnswerArrival
<1>3. ASSUME NEW t \in Task, Progress(t) \/ AppendFails(t)
      PROVE  AnswersEnd' /\ WinnersOwnEvents'
  BY <1>3, AnswerAppendStep, AnswerOther DEF Progress
<1> QED BY <1>1, <1>2, <1>3 DEF CHNext

(* Two winners of one key would own the same event.                        *)
LEMMA AnswerInvImplies == AnswerInv => AcceptedOnce
<1> SUFFICES ASSUME AnswerInv, NEW t \in Task, reply[t] = "ACCEPTED"
             PROVE  /\ \E i \in Committed :
                         /\ i = res[t].event_id
                         /\ trail[i].leaf = compute_leaf_hash(msg[t], trail[i].leaf.at)
                    /\ \A u \in Task : reply[u] = "ACCEPTED" /\ msg[u].key = msg[t].key => u = t
  BY DEF AcceptedOnce
<1>1. Won(t)
  BY DEF Won
<1>2. ASSUME NEW u \in Task, reply[u] = "ACCEPTED", msg[u].key = msg[t].key PROVE u = t
  <2>1. Won(u)
    BY <1>2 DEF Won
  <2>2. /\ res[t].event_id \in DOMAIN trail /\ res[u].event_id \in DOMAIN trail
        /\ trail[res[t].event_id].key = trail[res[u].event_id].key
        /\ trail[res[t].event_id].key # NoKey
    BY <1>1, <1>2, <2>1 DEF AnswerInv, WinnersOwnEvents, Committed
  <2>3. res[t].event_id = res[u].event_id
    BY <2>2 DEF AnswerInv, OneEventPerKey
  <2> QED BY <1>1, <2>1, <2>3 DEF AnswerInv, WinnersOwnEvents
<1> QED BY <1>1, <1>2 DEF AnswerInv, WinnersOwnEvents

(* Exactly one of the retries and redeliveries of a key can be told        *)
(* ACCEPTED, and then the metric of that very command is in the trail,     *)
(* whatever other handlers did between its append and its answer.          *)
THEOREM AcceptedAtMostOnce == CHSpec => []AcceptedOnce
<1>1. CHInit => AnswerInv
  BY TypeInit
  DEF CHInit, CoreInit, Init, AnswerInv, OneEventPerKey, AnswersEnd, WinnersOwnEvents, Won
<1>2. AnswerInv /\ [CHNext]_chVars => AnswerInv'
  BY AnswerNext
<1>3. AnswerInv => AcceptedOnce
  BY AnswerInvImplies
<1> QED BY <1>1, <1>2, <1>3, PTL DEF CHSpec

-------------------------------------------------------------------------------
(* Owners.  A task owns the commit it appended until _commit files the     *)
(* leaf with the builder.  What a step of the handlers does to the trail,  *)
(* the builders and the owners is one of three things.                     *)

Owner(t) == pc[t] = "appended" /\ out[t].type = "MetricCommitted" /\ ~res[t].deduplicated

OwnersKnow == \A t \in Task : Owner(t) => trail[res[t].event_id] = out[t]

OwnerInv == AnswerInv /\ OwnersKnow

SameOwner(u) == (Owner(u)' <=> Owner(u)) /\ res'[u] = res[u] /\ out'[u] = out[u]

\* A new event is in the trail and, if it is a commit, has an owner.
Appended(t) ==
  /\ pc[t] = "append"
  /\ trail' = Append(trail, out[t]) /\ out[t] \in Event /\ ~KeyTaken(out[t].key)
  /\ out[t].type = "MetricCommitted" <=> Owner(t)'
  /\ res'[t] = [event_id |-> Len(trail) + 1, deduplicated |-> FALSE] /\ out'[t] = out[t]
  /\ \A u \in Task \ {t} : SameOwner(u)
  /\ UNCHANGED <<pending, first_leaf_ts, faults>>

\* An owner files its leaf.
Filed(t) ==
  /\ Owner(t) /\ ~Owner(t)'
  /\ AddLeaf(home[t], out[t].leaf, res[t].event_id)
  /\ \A u \in Task \ {t} : SameOwner(u)
  /\ UNCHANGED <<trail, faults>>

\* Neither; an owner is lost only by a fault.
Quiet ==
  /\ \A u \in Task : Owner(u)' => SameOwner(u)
  /\ faults' = 0 => faults = 0 /\ \A u \in Task : Owner(u) => SameOwner(u)
  /\ UNCHANGED <<trail, pending, first_leaf_ts>>

(* The append of one task is an addition, or is quiet when its key is      *)
(* taken.                                                                  *)
LEMMA EffectOfAppend ==
  ASSUME OwnerInv, NEW t \in Task, AppendStep(t)
  PROVE  Appended(t) \/ Quiet
<1>0. /\ pc[t] = "append" /\ pc' = [pc EXCEPT ![t] = "appended"] /\ out' = out
      /\ res' = [res EXCEPT ![t] = [event_id |-> EventIdOf(out[t]),
                                    deduplicated |-> KeyTaken(out[t].key)]]
      /\ UNCHANGED <<pending, first_leaf_ts, faults>>
  BY DEF AppendStep, ResultOf
<1>1. /\ pc \in [Task -> {"idle", "append", "appended", "done", "failed"}]
      /\ res \in [Task -> AppendResult] /\ out[t] \in Event
  BY <1>0 DEF OwnerInv, AnswerInv, TypeInv, CHTypeOK, TasksWellFormed, WellFormed, Running
<1>2. \A u \in Task \ {t} : SameOwner(u)
  BY <1>0, <1>1 DEF SameOwner, Owner
<1>3. ~Owner(t) /\ pc'[t] = "appended"
  BY <1>0, <1>1 DEF Owner
<1>4. res'[t] = [event_id |-> EventIdOf(out[t]), deduplicated |-> KeyTaken(out[t].key)]
  BY <1>0, <1>1
<1>5. CASE KeyTaken(out[t].key)
  <2>1. ~Owner(t)'
    BY <1>4, <1>5 DEF Owner
  <2>2. trail' = trail
    BY <1>5 DEF AppendStep, AppendEvent
  <2> QED BY <1>0, <1>2, <1>3, <2>1, <2>2 DEF Quiet
<1>6. CASE ~KeyTaken(out[t].key)
  <2>1. trail' = Append(trail, out[t]) /\ EventIdOf(out[t]) = Len(trail) + 1
    BY <1>6 DEF AppendStep, AppendEvent, EventIdOf
  <2>2. res'[t] = [event_id |-> Len(trail) + 1, deduplicated |-> FALSE]
    <3>1. KeyTaken(out[t].key) = FALSE
      BY <1>6 DEF KeyTaken
    <3> QED BY <1>4, <2>1, <3>1
  <2>3. out[t].type = "MetricCommitted" <=> Owner(t)'
    BY <1>0, <1>3, <2>2 DEF Owner
  <2> QED BY <1>0, <1>1, <1>2, <1>6, <2>1, <2>2, <2>3 DEF Appended
<1> QED BY <1>5, <1>6

(* FinishCommit files the leaf of an owner and answers a duplicate.        *)
LEMMA EffectOfFinish ==
  ASSUME OwnerInv, NEW t \in Task, FinishCommit(t)
  PROVE  Filed(t) \/ Quiet
<1>0. /\ pc[t] = "appended" /\ out[t].type = "MetricCommitted"
      /\ pc' = [pc EXCEPT ![t] = "done"] /\ UNCHANGED <<trail, faults, out, res>>
  BY DEF FinishCommit
<1>1. pc \in [Task -> {"idle", "append", "appended", "done", "failed"}]
  BY DEF OwnerInv, AnswerInv, TypeInv, CHTypeOK
<1>2. (\A u \in Task \ {t} : SameOwner(u)) /\ ~Owner(t)'
  BY <1>0, <1>1 DEF SameOwner, Owner
<1>3. CASE Duplicate(t)
  <2>1. ~Owner(t)
    BY <1>3 DEF Owner, Duplicate
  <2> QED BY <1>0, <1>2, <1>3, <2>1 DEF FinishCommit, Quiet
<1>4. CASE ~Duplicate(t)
  <2>1. Owner(t)
    BY <1>0, <1>4 DEF Owner, Duplicate
  <2> QED BY <1>0, <1>2, <1>4, <2>1 DEF FinishCommit, Filed
<1> QED BY <1>3, <1>4

(* What a step of the handlers does to the trail, builders and owners.     *)
LEMMA HandlerEffect ==
  ASSUME OwnerInv, [CHNext]_chVars
  PROVE  \/ \E t \in Task : Appended(t) \/ Filed(t)
         \/ Quiet
<1>0. pc \in [Task -> {"idle", "append", "appended", "done", "failed"}]
  BY DEF OwnerInv, AnswerInv, TypeInv, CHTypeOK
<1>1. CASE UNCHANGED chVars \/ CHTick
  BY <1>1 DEF chVars, coreVars, handlerVars, CHTick, Tick, Quiet, Owner, SameOwner
<1>2. ASSUME NEW t \in Task, NEW p \in Proc, NEW m \in Message, Arrival(t, p, m) PROVE Quiet
  <2>1. /\ pc[t] = "idle" /\ pc' = [pc EXCEPT ![t] = "append"] /\ res' = res
        /\ \A u \in Task \ {t} : out'[u] = out[u]
        /\ UNCHANGED <<trail, pending, first_leaf_ts, faults>>
    BY <1>2 DEF OwnerInv, AnswerInv, TypeInv, CHTypeOK, Arrival, RestUpdateMetric,
         GrpcUpdateMetric, HandleUpdateMetric, OnMetricProposed, OnDebateOutcome, OnRiskSignal,
         OnReconciledDecision, OnRecorded, SupersedeMetric, FromBus, Arrive, Send, coreVars
  <2> QED BY <1>0, <2>1 DEF Quiet, Owner, SameOwner
<1>3. ASSUME NEW t \in Task, ResumeReconciled(t) PROVE Quiet
  <2>1. /\ ~Owner(t) /\ pc' = [pc EXCEPT ![t] = "append"] /\ res' = res
        /\ \A u \in Task \ {t} : out'[u] = out[u]
        /\ UNCHANGED <<trail, pending, first_leaf_ts, faults>>
    BY <1>3 DEF ResumeReconciled, Send, Owner, coreVars, OwnerInv, AnswerInv, TypeInv, CHTypeOK
  <2> QED BY <1>0, <2>1 DEF Quiet, Owner, SameOwner
<1>4. ASSUME NEW t \in Task, FinishOther(t) PROVE Quiet
  <2>1. /\ ~Owner(t) /\ pc' = [pc EXCEPT ![t] = "done"] /\ res' = res /\ out' = out
        /\ UNCHANGED <<trail, pending, first_leaf_ts, faults>>
    BY <1>4 DEF FinishOther, Owner, coreVars
  <2> QED BY <1>0, <2>1 DEF Quiet, Owner, SameOwner
<1>5. ASSUME NEW t \in Task, AppendFails(t) PROVE Quiet
  <2>1. faults' # 0
    BY <1>5 DEF AppendFails, Fault, OwnerInv, AnswerInv, TypeInv, CHTypeOK, CoreTypeOK
  <2>2. /\ pc' = [pc EXCEPT ![t] = "failed"] /\ res' = res /\ out' = out
        /\ UNCHANGED <<trail, pending, first_leaf_ts>>
    BY <1>5 DEF AppendFails
  <2> QED BY <1>0, <2>1, <2>2 DEF Quiet, Owner, SameOwner
<1>6. ASSUME NEW t \in Task, Progress(t) PROVE Appended(t) \/ Filed(t) \/ Quiet
  BY <1>3, <1>4, <1>6, EffectOfAppend, EffectOfFinish DEF Progress
<1> QED BY <1>1, <1>2, <1>5, <1>6 DEF CHNext

(* Owners are winners: the ids they hold are ids of commits, and differ.   *)
LEMMA OwnersDiffer ==
  ASSUME OwnerInv
  PROVE  /\ \A t \in Task : Owner(t) =>
              /\ res[t].event_id \in Committed /\ res[t].event_id \in DOMAIN trail
              /\ out[t].leaf \in Leaf /\ out[t].leaf.decision = out[t].decision
         /\ \A t, u \in Task : Owner(t) /\ Owner(u) /\ res[t].event_id = res[u].event_id => t = u
<1>1. \A t \in Task : Owner(t) => Won(t)
  BY DEF Owner, Won
<1>2. ASSUME NEW t \in Task, Owner(t)
      PROVE  out[t].leaf \in Leaf /\ out[t].leaf.decision = out[t].decision
  <2>1. /\ out[t].leaf \in Leaf /\ out[t].leaf = compute_leaf_hash(msg[t], out[t].leaf.at)
        /\ out[t].decision = msg[t].decision
    BY <1>2 DEF Owner, OwnerInv, AnswerInv, TypeInv, TasksWellFormed, WellFormed, Running
  <2> QED BY <2>1 DEF compute_leaf_hash
<1> QED BY <1>1, <1>2 DEF OwnerInv, AnswerInv, WinnersOwnEvents, Committed

(* The trail only grows, so what is known of an id stays true.             *)
LEMMA TrailGrows ==
  ASSUME trail \in Seq(Event), NEW e \in Event, trail' = Append(trail, e)
  PROVE  /\ Len(trail) \in Nat /\ Len(trail') = Len(trail) + 1
         /\ DOMAIN trail' = DOMAIN trail \cup {Len(trail) + 1}
         /\ Len(trail) + 1 \notin DOMAIN trail
         /\ trail'[Len(trail) + 1] = e
         /\ \A i \in DOMAIN trail : trail'[i] = trail[i]
         /\ Committed' = Committed \cup {i \in {Len(trail) + 1} : e.type = "MetricCommitted"}
<1>1. /\ Len(trail) \in Nat /\ Len(trail') = Len(trail) + 1
      /\ DOMAIN trail' = DOMAIN trail \cup {Len(trail) + 1}
      /\ Len(trail) + 1 \notin DOMAIN trail
      /\ trail'[Len(trail) + 1] = e
      /\ \A i \in DOMAIN trail : trail'[i] = trail[i]
  OBVIOUS
<1> QED BY <1>1 DEF Committed

(* OwnerInv is inductive.                                                  *)
LEMMA OwnerNext == OwnerInv /\ [CHNext]_chVars => OwnerInv'
<1> SUFFICES ASSUME OwnerInv, [CHNext]_chVars PROVE OwnersKnow'
  BY AnswerNext DEF OwnerInv
<1>0. trail \in Seq(Event)
  BY DEF OwnerInv, AnswerInv, TypeInv, CHTypeOK, CoreTypeOK
<1>1. ASSUME NEW t \in Task, Appended(t) PROVE OwnersKnow'
  <2>1. /\ trail'[Len(trail) + 1] = out[t] /\ \A i \in DOMAIN trail : trail'[i] = trail[i]
    BY <1>0, <1>1, TrailGrows DEF Appended
  <2>2. ASSUME NEW u \in Task, Owner(u)' PROVE trail'[res'[u].event_id] = out'[u]
    <3>1. CASE u = t
      BY <1>1, <2>1, <3>1 DEF Appended
    <3>2. CASE u # t
      <4>1. Owner(u) /\ res'[u] = res[u] /\ out'[u] = out[u]
        BY <1>1, <2>2, <3>2 DEF Appended, SameOwner
      <4> QED BY <2>1, <4>1, OwnersDiffer DEF OwnerInv, OwnersKnow
    <3> QED BY <3>1, <3>2
  <2> QED BY <2>2 DEF OwnersKnow
<1>2. ASSUME NEW t \in Task, Filed(t) PROVE OwnersKnow'
  BY <1>2 DEF Filed, SameOwner, OwnerInv, OwnersKnow
<1>3. CASE Quiet
  BY <1>3 DEF Quiet, SameOwner, OwnerInv, OwnersKnow
<1> QED BY <1>1, <1>2, <1>3, HandlerEffect

(* Nobody owns anything at the start.                                      *)
LEMMA OwnerInit == CHInit => OwnerInv
  BY TypeInit
  DEF CHInit, CoreInit, Init, OwnerInv, OwnersKnow, Owner, AnswerInv, OneEventPerKey, AnswersEnd,
      WinnersOwnEvents, Won

\* Handlers publish no roots.
NoRoots == \A t \in Task : Running(t) => out[t].type # "MerkleRootPublished"

(* What the handlers append is never a MerkleRootPublished.                *)
LEMMA NoRootsNext == TypeInv /\ NoRoots /\ [CHNext]_chVars => NoRoots'
<1> SUFFICES ASSUME TypeInv, NoRoots, [CHNext]_chVars PROVE NoRoots'
  OBVIOUS
<1>0. /\ pc \in [Task -> {"idle", "append", "appended", "done", "failed"}]
      /\ out \in [Task -> Event \cup {NoEvent}] /\ now \in 0..MaxTime
  BY DEF TypeInv, CHTypeOK, CoreTypeOK
<1>1. CASE UNCHANGED chVars \/ CHTick
  BY <1>1 DEF chVars, handlerVars, CHTick, NoRoots, Running
<1>2. ASSUME NEW t \in Task, NEW p \in Proc, NEW m \in Message, Arrival(t, p, m) PROVE NoRoots'
  <2>1. ASSUME NEW e, Arrive(t, p, m, e), e.type # "MerkleRootPublished" PROVE NoRoots'
    BY <1>0, <2>1 DEF Arrive, Send, NoRoots, Running
  <2>2. ASSUME NEW kind \in Kind, NEW k, NEW l
        PROVE  /\ EventOf(kind, m.decision, k, l).type # "MerkleRootPublished"
               /\ EventOf("MetricSuperseded", m.decision, k, l).type # "MerkleRootPublished"
    BY DEF EventOf, Kind
  <2>3. Outcome(m).type # "MerkleRootPublished"
    BY <1>0, OutcomeShape
  <2>4. ASSUME NEW kind \in Kind, FromBus(t, p, m, kind) PROVE NoRoots'
    BY <2>1, <2>2, <2>4 DEF FromBus
  <2>5. HandleUpdateMetric(t, p, m) => NoRoots'
    BY <2>1, <2>3 DEF HandleUpdateMetric
  <2>6. SupersedeMetric(t, p, m) => NoRoots'
    <3> SUFFICES ASSUME NEW i \in Committed,
                        Arrive(t, p, m, EventOf("MetricSuperseded", m.decision, m.key, trail[i].leaf))
                 PROVE  NoRoots'
      BY DEF SupersedeMetric
    <3>1. EventOf("MetricSuperseded", m.decision, m.key, trail[i].leaf).type # "MerkleRootPublished"
      BY DEF EventOf
    <3> QED BY <2>1, <3>1
  <2> QED BY <1>2, <2>4, <2>5, <2>6
          DEF Arrival, RestUpdateMetric, GrpcUpdateMetric, OnMetricProposed, OnDebateOutcome,
              OnRiskSignal, OnReconciledDecision, OnRecorded, Kind
<1>3. ASSUME NEW t \in Task, ResumeReconciled(t) PROVE NoRoots'
  <2>1. msg[t] \in Message
    BY <1>3 DEF ResumeReconciled, TypeInv, TasksWellFormed, WellFormed, Running
  <2>2. Outcome(msg[t]).type # "MerkleRootPublished"
    BY <1>0, <2>1, OutcomeShape
  <2> QED BY <1>0, <1>3, <2>2 DEF ResumeReconciled, Send, NoRoots, Running
<1>4. ASSUME NEW t \in Task, AppendStep(t) \/ FinishCommit(t) \/ FinishOther(t) \/ AppendFails(t)
      PROVE  NoRoots'
  <2>1. out' = out /\ Running(t) /\ \A u \in Task \ {t} : pc'[u] = pc[u]
    BY <1>0, <1>4 DEF AppendStep, FinishCommit, FinishOther, AppendFails, Running
  <2> QED BY <2>1 DEF NoRoots, Running
<1> QED BY <1>1, <1>2, <1>3, <1>4 DEF CHNext, Progress

-------------------------------------------------------------------------------
(* The builders.                                                           *)

\* What an entry of a builder says is what the trail says.
Matches(x) ==
  /\ x.event_id \in Committed
  /\ trail[x.event_id].leaf = x.leaf_hash
  /\ trail[x.event_id].decision = x.decision_id

EntriesMatch == \A p \in Proc : \A n \in DOMAIN pending[p] : Matches(pending[p][n])

EntriesDistinct ==
  \A p, q \in Proc : \A m \in DOMAIN pending[p], n \in DOMAIN pending[q] :
    pending[p][m].event_id = pending[q][n].event_id => p = q /\ m = n

\* What is still owned has not been filed.
OwnersUnfiled ==
  \A t \in Task : Owner(t) =>
    \A p \in Proc : \A n \in DOMAIN pending[p] : pending[p][n].event_id # res[t].event_id

\* While nothing failed, every commit is filed or owned.
CommitsReachBuilder ==
  faults = 0 =>
    \A i \in Committed :
      \/ \E p \in Proc : \E n \in DOMAIN pending[p] : pending[p][n].event_id = i
      \/ \E t \in Task : Owner(t) /\ res[t].event_id = i

BuilderInv ==
  /\ OwnerInv
  /\ EntriesMatch /\ EntriesDistinct /\ OwnersUnfiled
  /\ CommitsReachBuilder

(* Entries stay right when the trail grows.                                *)
LEMMA MatchesGrows ==
  ASSUME trail \in Seq(Event), NEW e \in Event, trail' = Append(trail, e), NEW x, Matches(x)
  PROVE  Matches(x)'
<1>1. /\ DOMAIN trail' = DOMAIN trail \cup {Len(trail) + 1}
      /\ \A i \in DOMAIN trail : trail'[i] = trail[i]
  BY TrailGrows
<1> QED BY <1>1 DEF Matches, Committed

(* The entry that an owner files matches the trail.                        *)
LEMMA FiledMatches ==
  ASSUME OwnerInv, NEW t \in Task, Owner(t),
         NEW x, x = [leaf_hash |-> out[t].leaf, event_id |-> res[t].event_id,
                     decision_id |-> out[t].leaf.decision]
  PROVE  Matches(x)
  BY OwnersDiffer DEF OwnerInv, OwnersKnow, Matches

(* A leaf added to a builder is its new last entry.                        *)
LEMMA AddLeafEffect ==
  ASSUME TypeInv, NEW p \in Proc, NEW l \in Leaf, NEW id \in Nat, AddLeaf(p, l, id)
  PROVE  LET x == [leaf_hash |-> l, event_id |-> id, decision_id |-> l.decision] IN
         /\ x \in PendingLeaf /\ pending'[p] = Append(pending[p], x)
         /\ pending' \in [Proc -> Seq(PendingLeaf)]
         /\ Len(pending[p]) \in Nat
         /\ DOMAIN pending'[p] = DOMAIN pending[p] \cup {Len(pending[p]) + 1}
         /\ Len(pending[p]) + 1 \notin DOMAIN pending[p]
         /\ pending'[p][Len(pending[p]) + 1] = x
         /\ \A n \in DOMAIN pending[p] : pending'[p][n] = pending[p][n]
         /\ \A q \in Proc \ {p} : pending'[q] = pending[q] /\ first_leaf_ts'[q] = first_leaf_ts[q]
<1> DEFINE x == [leaf_hash |-> l, event_id |-> id, decision_id |-> l.decision]
<1>1. x \in PendingLeaf
  BY DEF PendingLeaf, Leaf
<1>2. pending \in [Proc -> Seq(PendingLeaf)]
  BY DEF TypeInv, CHTypeOK, CoreTypeOK
<1> HIDE DEF x
<1>3. pending' = [pending EXCEPT ![p] = Append(@, x)]
  BY DEF AddLeaf, x
<1>4. first_leaf_ts \in [Proc -> (0..MaxTime) \cup {NoTime}]
  BY DEF TypeInv, CHTypeOK, CoreTypeOK
<1>5. \A q \in Proc \ {p} : first_leaf_ts'[q] = first_leaf_ts[q]
  BY <1>4 DEF AddLeaf
<1>6. pending'[p] = Append(pending[p], x) /\ pending[p] \in Seq(PendingLeaf)
  BY <1>2, <1>3
<1>7. /\ Len(pending[p]) \in Nat
      /\ DOMAIN pending'[p] = DOMAIN pending[p] \cup {Len(pending[p]) + 1}
      /\ Len(pending[p]) + 1 \notin DOMAIN pending[p]
      /\ pending'[p][Len(pending[p]) + 1] = x
      /\ \A n \in DOMAIN pending[p] : pending'[p][n] = pending[p][n]
  BY <1>1, <1>6
<1>8. pending' \in [Proc -> Seq(PendingLeaf)]
  BY <1>1, <1>2, <1>3
<1> QED BY <1>1, <1>2, <1>3, <1>5, <1>6, <1>7, <1>8 DEF x

(* A new event: nobody has filed its id, and its owner has it.             *)
LEMMA BuilderAppended ==
  ASSUME BuilderInv, NEW t \in Task, Appended(t)
  PROVE  EntriesMatch' /\ EntriesDistinct' /\ OwnersUnfiled' /\ CommitsReachBuilder'
<1>0. /\ trail \in Seq(Event) /\ out[t] \in Event /\ trail' = Append(trail, out[t])
      /\ UNCHANGED <<pending, first_leaf_ts, faults>>
  BY DEF Appended, BuilderInv, OwnerInv, AnswerInv, TypeInv, CHTypeOK, CoreTypeOK
<1>1. EntriesMatch'
  BY <1>0, MatchesGrows DEF BuilderInv, EntriesMatch
<1>2. EntriesDistinct'
  BY <1>0 DEF BuilderInv, EntriesDistinct
<1>3. OwnersUnfiled'
  <2> SUFFICES ASSUME NEW u \in Task, Owner(u)', NEW p \in Proc, NEW n \in DOMAIN pending[p]
               PROVE  pending[p][n].event_id # res'[u].event_id
    BY <1>0 DEF OwnersUnfiled
  <2>1. CASE u = t
    <3>1. pending[p][n].event_id \in DOMAIN trail
      BY DEF BuilderInv, EntriesMatch, Matches, Committed
    <3> QED BY <1>0, <2>1, <3>1, TrailGrows DEF Appended
  <2>2. CASE u # t
    BY <2>2 DEF Appended, SameOwner, BuilderInv, OwnersUnfiled
  <2> QED BY <2>1, <2>2
<1>4. CommitsReachBuilder'
  <2> SUFFICES ASSUME faults = 0, NEW i \in Committed'
               PROVE  \/ \E p \in Proc : \E n \in DOMAIN pending[p] : pending[p][n].event_id = i
                      \/ \E u \in Task : Owner(u)' /\ res'[u].event_id = i
    BY <1>0 DEF CommitsReachBuilder
  <2>1. i \in Committed \/ (i = Len(trail) + 1 /\ out[t].type = "MetricCommitted")
    BY <1>0, TrailGrows
  <2>2. CASE i \in Committed
    <3>1. ~Owner(t)
      <4>1. Owner(t) => trail[res[t].event_id] = out[t] /\ res[t].event_id \in DOMAIN trail
        BY OwnersDiffer DEF BuilderInv, OwnerInv, OwnersKnow
      <4>2. Owner(t) => out[t].key = msg[t].key /\ msg[t] \in Message
        BY DEF Owner, BuilderInv, OwnerInv, AnswerInv, TypeInv, TasksWellFormed, WellFormed, Running
      <4>3. Owner(t) => out[t].key # NoKey
        BY <4>2, MessageAssumption, KeyAssumption DEF MessageType
      <4> QED BY <4>1, <4>3 DEF Appended, KeyTaken
    <3> QED BY <2>2, <3>1 DEF BuilderInv, CommitsReachBuilder, Appended, SameOwner
  <2>3. CASE i = Len(trail) + 1 /\ out[t].type = "MetricCommitted"
    BY <2>3 DEF Appended
  <2> QED BY <2>1, <2>2, <2>3
<1> QED BY <1>1, <1>2, <1>3, <1>4

(* An owner files: its id is in no builder yet, and is nobody else's.      *)
LEMMA BuilderFiled ==
  ASSUME BuilderInv, NEW t \in Task, Filed(t)
  PROVE  EntriesMatch' /\ EntriesDistinct' /\ OwnersUnfiled' /\ CommitsReachBuilder'
<1> DEFINE h == home[t]
           id == res[t].event_id
           x == [leaf_hash |-> out[t].leaf, event_id |-> id, decision_id |-> out[t].leaf.decision]
           k == Len(pending[h]) + 1
<1>0. /\ TypeInv /\ OwnerInv /\ Owner(t) /\ h \in Proc /\ id \in Nat /\ out[t].leaf \in Leaf
      /\ trail' = trail /\ faults' = faults /\ AddLeaf(h, out[t].leaf, id)
  BY OwnersDiffer DEF Filed, BuilderInv, OwnerInv, AnswerInv, TypeInv, CHTypeOK, AppendResult
<1>1. /\ Matches(x) /\ x.event_id = id /\ x.leaf_hash = out[t].leaf
  BY <1>0, FiledMatches
<1>2. /\ pending'[h] = Append(pending[h], x) /\ x \in PendingLeaf
      /\ Len(pending[h]) \in Nat
      /\ DOMAIN pending'[h] = DOMAIN pending[h] \cup {k}
      /\ k \notin DOMAIN pending[h]
      /\ pending'[h][k] = x
      /\ \A n \in DOMAIN pending[h] : pending'[h][n] = pending[h][n]
      /\ \A q \in Proc \ {h} : pending'[q] = pending[q] /\ first_leaf_ts'[q] = first_leaf_ts[q]
  BY <1>0, AddLeafEffect
<1> HIDE DEF x, k, h, id
<1>3. \A p \in Proc : \A n \in DOMAIN pending'[p] :
        \/ n \in DOMAIN pending[p] /\ pending'[p][n] = pending[p][n]
        \/ p = h /\ n = k /\ pending'[p][n] = x
  BY <1>2
<1>4. \A p \in Proc : \A n \in DOMAIN pending[p] :
        n \in DOMAIN pending'[p] /\ pending'[p][n] = pending[p][n]
  BY <1>2
<1>5. EntriesMatch'
  <2>1. \A y : Matches(y)' <=> Matches(y)
    BY <1>0 DEF Matches, Committed
  <2> QED BY <1>1, <1>3, <2>1 DEF BuilderInv, EntriesMatch
<1>6. EntriesDistinct'
  <2>1. \A p \in Proc : \A n \in DOMAIN pending[p] : pending[p][n].event_id # id
    BY <1>0 DEF BuilderInv, OwnersUnfiled, id
  <2> QED BY <1>1, <1>3, <2>1 DEF BuilderInv, EntriesDistinct
<1>7. OwnersUnfiled'
  <2> SUFFICES ASSUME NEW u \in Task, Owner(u)', NEW p \in Proc, NEW n \in DOMAIN pending'[p]
               PROVE  pending'[p][n].event_id # res'[u].event_id
    BY DEF OwnersUnfiled
  <2>1. u # t /\ Owner(u) /\ res'[u] = res[u]
    BY DEF Filed, SameOwner
  <2>2. res[u].event_id # id
    BY <1>0, <2>1, OwnersDiffer DEF id
  <2> QED BY <1>1, <1>3, <2>1, <2>2 DEF BuilderInv, OwnersUnfiled
<1>8. CommitsReachBuilder'
  <2> SUFFICES ASSUME faults = 0, NEW i \in Committed
               PROVE  \/ \E p \in Proc : \E n \in DOMAIN pending'[p] : pending'[p][n].event_id = i
                      \/ \E u \in Task : Owner(u)' /\ res'[u].event_id = i
    BY <1>0 DEF CommitsReachBuilder, Committed
  <2>1. CASE i = id
    BY <1>0, <1>1, <1>2, <2>1
  <2>2. CASE \E u \in Task \ {t} : Owner(u) /\ res[u].event_id = i
    BY <2>2 DEF Filed, SameOwner
  <2>3. CASE \E p \in Proc : \E n \in DOMAIN pending[p] : pending[p][n].event_id = i
    BY <1>4, <2>3
  <2> QED BY <2>1, <2>2, <2>3 DEF BuilderInv, CommitsReachBuilder, id
<1> QED BY <1>5, <1>6, <1>7, <1>8

(* Steps that neither append nor file.                                     *)
LEMMA BuilderQuiet ==
  ASSUME BuilderInv, Quiet
  PROVE  EntriesMatch' /\ EntriesDistinct' /\ OwnersUnfiled' /\ CommitsReachBuilder'
<1>1. UNCHANGED <<trail, pending, first_leaf_ts>>
  BY DEF Quiet
<1>2. EntriesMatch' /\ EntriesDistinct'
  BY <1>1 DEF BuilderInv, EntriesMatch, Matches, Committed, EntriesDistinct
<1>3. OwnersUnfiled'
  BY <1>1 DEF BuilderInv, OwnersUnfiled, Quiet, SameOwner
<1>4. CommitsReachBuilder'
  <2> SUFFICES ASSUME faults' = 0, NEW i \in Committed
               PROVE  \/ \E p \in Proc : \E n \in DOMAIN pending[p] : pending[p][n].event_id = i
                      \/ \E u \in Task : Owner(u)' /\ res'[u].event_id = i
    BY <1>1 DEF CommitsReachBuilder, Committed
  <2>1. faults = 0 /\ \A u \in Task : Owner(u) => Owner(u)' /\ res'[u] = res[u]
    BY DEF Quiet, SameOwner
  <2> QED BY <2>1 DEF BuilderInv, CommitsReachBuilder
<1> QED BY <1>2, <1>3, <1>4

(* BuilderInv is inductive.                                                *)
LEMMA BuilderNext == BuilderInv /\ [CHNext]_chVars => BuilderInv'
<1> SUFFICES ASSUME BuilderInv, [CHNext]_chVars PROVE BuilderInv'
  OBVIOUS
<1>1. OwnerInv'
  BY OwnerNext DEF BuilderInv
<1>2. (\E t \in Task : Appended(t) \/ Filed(t)) \/ Quiet
  BY HandlerEffect DEF BuilderInv
<1>3. EntriesMatch' /\ EntriesDistinct' /\ OwnersUnfiled' /\ CommitsReachBuilder'
  BY <1>2, BuilderAppended, BuilderFiled, BuilderQuiet
<1> QED BY <1>1, <1>3 DEF BuilderInv

(* The builder invariant holds in every state of the handlers.             *)
LEMMA BuilderInvariant == CHSpec => []BuilderInv
<1>1. CHInit => BuilderInv
  <2> SUFFICES ASSUME CHInit PROVE BuilderInv
    OBVIOUS
  <2>1. trail = <<>> /\ pending = [p \in Proc |-> <<>>] /\ first_leaf_ts = [p \in Proc |-> NoTime]
    BY DEF CHInit, CoreInit, Init
  <2>2. \A t \in Task : ~Owner(t)
    BY DEF CHInit, Owner
  <2>3. EntriesMatch /\ EntriesDistinct
    BY <2>1 DEF EntriesMatch, EntriesDistinct
  <2>4. CommitsReachBuilder /\ OwnersUnfiled
    BY <2>1, <2>2 DEF CommitsReachBuilder, OwnersUnfiled, Committed
  <2> QED BY <2>3, <2>4, OwnerInit DEF BuilderInv
<1> QED BY <1>1, BuilderNext, PTL DEF CHSpec

(* The positions of a sequence of length k are k.                          *)
LEMMA IntervalCounted == \A k \in Nat : IsFiniteSet(1..k) /\ Cardinality(1..k) = k
<1> TAKE k \in Nat
<1>1. /\ IsFiniteSet(1..k)
      /\ Cardinality(1..k) = IF 1 > k THEN 0 ELSE k - 1 + 1
  BY FS_Interval
<1> QED BY <1>1

(* A batch whose entries name different events is no longer than the       *)
(* trail: its ids are an injection into the positions of the trail.        *)
LEMMA BatchFits ==
  ASSUME trail \in Seq(Event), NEW b \in Seq(PendingLeaf),
         \A n \in DOMAIN b : b[n].event_id \in DOMAIN trail,
         \A m, n \in DOMAIN b : b[m].event_id = b[n].event_id => m = n
  PROVE  Len(b) <= Len(trail)
<1> DEFINE f == [n \in 1..Len(b) |-> b[n].event_id]
<1>0. Len(b) \in Nat /\ Len(trail) \in Nat /\ DOMAIN b = 1..Len(b) /\ DOMAIN trail = 1..Len(trail)
  OBVIOUS
<1>1. f \in Injection(1..Len(b), 1..Len(trail))
  BY <1>0 DEF Injection, IsInjective
<1>2. \A k \in Nat : IsFiniteSet(1..k) /\ Cardinality(1..k) = k
  BY IntervalCounted
<1>3. Cardinality(1..Len(b)) <= Cardinality(1..Len(trail))
  <2>1. IsFiniteSet(1..Len(trail))
    BY <1>0, <1>2
  <2> HIDE DEF f
  <2> QED BY <1>1, <2>1, FS_Injection
<1> QED BY <1>0, <1>2, <1>3

(* Every entry of every builder is a slot.                                 *)
LEMMA SlotsOfBuilders ==
  ASSUME BuilderInv
  PROVE  \A p \in Proc :
           /\ pending[p] \in Seq(PendingLeaf)
           /\ {s \in Slot : s[1] = p} = {<<p, n>> : n \in DOMAIN pending[p]}
<1>0. trail \in Seq(Event) /\ pending \in [Proc -> Seq(PendingLeaf)]
  BY DEF BuilderInv, OwnerInv, AnswerInv, TypeInv, CHTypeOK, CoreTypeOK
<1> SUFFICES ASSUME NEW p \in Proc
             PROVE  {s \in Slot : s[1] = p} = {<<p, n>> : n \in DOMAIN pending[p]}
  BY <1>0
<1>1. Len(pending[p]) <= Len(trail)
  <2>1. \A n \in DOMAIN pending[p] : pending[p][n].event_id \in DOMAIN trail
    BY DEF BuilderInv, EntriesMatch, Matches, Committed
  <2>2. \A m, n \in DOMAIN pending[p] : pending[p][m].event_id = pending[p][n].event_id => m = n
    BY DEF BuilderInv, EntriesDistinct
  <2> QED BY <1>0, <2>1, <2>2, BatchFits
<1>2. DOMAIN pending[p] \subseteq 1..Len(trail)
  BY <1>0, <1>1
<1> QED BY <1>2 DEF Slot

(* As many slots as entries.                                               *)
LEMMA SlotsCounted ==
  ASSUME NEW p, NEW b \in Seq(PendingLeaf)
  PROVE  Cardinality({<<p, n>> : n \in DOMAIN b}) = Len(b)
<1> DEFINE S == {<<p, n>> : n \in 1..Len(b)}
           f == [n \in 1..Len(b) |-> <<p, n>>]
<1>0. Len(b) \in Nat /\ DOMAIN b = 1..Len(b)
  OBVIOUS
<1>1. f \in Bijection(1..Len(b), S)
  <2>1. f \in [1..Len(b) -> S]
    OBVIOUS
  <2>2. \A m, n \in 1..Len(b) : f[m] = f[n] => m = n
    OBVIOUS
  <2>3. \A y \in S : \E n \in 1..Len(b) : f[n] = y
    OBVIOUS
  <2> HIDE DEF S, f
  <2> QED BY <2>1, <2>2, <2>3 DEF Bijection, Injection, IsInjective, Surjection
<1>2. IsFiniteSet(1..Len(b)) /\ Cardinality(1..Len(b)) = Len(b)
  BY <1>0, FS_Interval
<1>3. ExistsBijection(1..Len(b), S)
  BY <1>1 DEF ExistsBijection
<1> HIDE DEF S, f
<1>4. Cardinality(S) = Len(b)
  BY <1>2, <1>3, FS_Bijection
<1> QED BY <1>0, <1>4 DEF S

(* The builders of all processes together hold a committed leaf at most    *)
(* once, and what they hold is what the trail says (I6: a redelivery, to   *)
(* whichever process, changes no Merkle root).                             *)
THEOREM BuildersHoldTrail == CHSpec => []BuildersMatchTrail
<1>1. BuilderInv => BuildersMatchTrail
  <2> SUFFICES ASSUME BuilderInv PROVE BuildersMatchTrail
    OBVIOUS
  <2>1. \A s \in Slot : s[1] \in Proc /\ s[2] \in DOMAIN pending[s[1]] /\ s = <<s[1], s[2]>>
    BY DEF Slot
  <2>2. \A s \in Slot : Matches(pending[s[1]][s[2]])
    BY <2>1 DEF BuilderInv, EntriesMatch
  <2>3. \A s, u \in Slot :
          pending[s[1]][s[2]].event_id = pending[u[1]][u[2]].event_id => s = u
    <3> SUFFICES ASSUME NEW s \in Slot, NEW u \in Slot,
                        pending[s[1]][s[2]].event_id = pending[u[1]][u[2]].event_id
                 PROVE  s = u
      OBVIOUS
    <3>1. s[1] = u[1] /\ s[2] = u[2]
      BY <2>1 DEF BuilderInv, EntriesDistinct
    <3> QED BY <2>1, <3>1
  <2>4. \A p \in Proc : Cardinality({s \in Slot : s[1] = p}) = Len(pending[p])
    <3> TAKE p \in Proc
    <3>1. pending[p] \in Seq(PendingLeaf)
      BY SlotsOfBuilders
    <3>2. Cardinality({<<p, n>> : n \in DOMAIN pending[p]}) = Len(pending[p])
      BY <3>1, SlotsCounted
    <3>3. {s \in Slot : s[1] = p} = {<<p, n>> : n \in DOMAIN pending[p]}
      BY SlotsOfBuilders
    <3> QED BY <3>2, <3>3
  <2> QED BY <2>2, <2>3, <2>4 DEF BuildersMatchTrail, Matches
<1> QED BY <1>1, BuilderInvariant, PTL

(* While no await has failed, a durable commit is in a builder, or the     *)
(* task that appended it is still to file it: the gap between the append   *)
(* and add_leaf in _commit loses nothing by interleaving alone.            *)
THEOREM CommitsNotForgotten == CHSpec => []NoCommitForgotten
<1>1. BuilderInv => NoCommitForgotten
  <2> SUFFICES ASSUME BuilderInv, faults = 0, NEW i \in Committed
               PROVE  \/ \E s \in Slot : pending[s[1]][s[2]].event_id = i
                      \/ \E t \in Task :
                           /\ pc[t] = "appended" /\ res[t] = [event_id |-> i, deduplicated |-> FALSE]
                           /\ out[t] = trail[i]
    BY DEF NoCommitForgotten
  <2>1. ASSUME NEW p \in Proc, NEW n \in DOMAIN pending[p], pending[p][n].event_id = i
        PROVE  \E s \in Slot : pending[s[1]][s[2]].event_id = i
    <3>1. <<p, n>> \in {s \in Slot : s[1] = p}
      BY SlotsOfBuilders
    <3> QED BY <2>1, <3>1
  <2>2. ASSUME NEW t \in Task, Owner(t), res[t].event_id = i
        PROVE  /\ pc[t] = "appended" /\ res[t] = [event_id |-> i, deduplicated |-> FALSE]
               /\ out[t] = trail[i]
    <3>1. res[t] \in AppendResult
      BY DEF BuilderInv, OwnerInv, AnswerInv, TypeInv, CHTypeOK
    <3>2. res[t].deduplicated = FALSE
      BY <2>2, <3>1 DEF Owner, AppendResult
    <3>3. res[t] = [event_id |-> i, deduplicated |-> FALSE]
      BY <2>2, <3>1, <3>2 DEF AppendResult
    <3> QED BY <2>2, <3>3 DEF Owner, BuilderInv, OwnerInv, OwnersKnow
  <2> QED BY <2>1, <2>2 DEF BuilderInv, CommitsReachBuilder
<1> QED BY <1>1, BuilderInvariant, PTL

-------------------------------------------------------------------------------
(* Duplicates.                                                             *)

KeyUser(e) == e.key # NoKey => e.type \in {"MetricCommitted", "MetricSuperseded"}

\* Told, or about to be told, that its commit is a duplicate.
Late(t) ==
  \/ pc[t] = "appended" /\ out[t].type = "MetricCommitted" /\ res[t].deduplicated
  \/ reply[t] = "DUPLICATE_IGNORED"

DuplicateInv ==
  /\ TypeInv /\ AnswersEnd
  /\ \A i \in DOMAIN trail : KeyUser(trail[i])
  /\ \A t \in Task : Running(t) => KeyUser(out[t])
  /\ \A t \in Task : Late(t) =>
       msg[t].key # NoKey /\ \E i \in DOMAIN trail : trail[i].key = msg[t].key

(* Every event a handler sends uses a key only if it commits or supersedes. *)
LEMMA OutcomeKeyUser == ASSUME NEW m PROVE KeyUser(Outcome(m))
  BY DEF KeyUser, Outcome, RejectedEvent, CommittedEvent, EventOf

(* An arrival sends such an event and makes nobody late.                   *)
LEMMA DuplicateArrival ==
  ASSUME DuplicateInv, NEW t \in Task, NEW p \in Proc, NEW m \in Message, Arrival(t, p, m)
  PROVE  /\ \A i \in DOMAIN trail' : KeyUser(trail'[i])
         /\ \A u \in Task : Running(u)' => KeyUser(out'[u])
         /\ \A u \in Task : Late(u)' =>
              msg'[u].key # NoKey /\ \E i \in DOMAIN trail' : trail'[i].key = msg'[u].key
<1>1. /\ pc[t] = "idle" /\ pc' = [pc EXCEPT ![t] = "append"]
      /\ trail' = trail /\ res' = res /\ reply' = reply
      /\ \A u \in Task \ {t} : msg'[u] = msg[u] /\ out'[u] = out[u]
  BY DEF DuplicateInv, TypeInv, CHTypeOK, Arrival, RestUpdateMetric, GrpcUpdateMetric,
         HandleUpdateMetric, OnMetricProposed, OnDebateOutcome, OnRiskSignal,
         OnReconciledDecision, OnRecorded, SupersedeMetric, FromBus, Arrive, Send, coreVars
<1>2. KeyUser(out'[t])
  <2>0. out \in [Task -> Event \cup {NoEvent}]
    BY DEF DuplicateInv, TypeInv, CHTypeOK
  <2>1. ASSUME NEW e, Arrive(t, p, m, e), KeyUser(e) PROVE KeyUser(out'[t])
    BY <2>0, <2>1 DEF Arrive, Send
  <2>2. ASSUME NEW kind PROVE KeyUser(EventOf(kind, m.decision, NoKey, NoLeaf))
    BY DEF KeyUser, EventOf
  <2>3. ASSUME NEW l PROVE KeyUser(EventOf("MetricSuperseded", m.decision, m.key, l))
    BY DEF KeyUser, EventOf
  <2>4. ASSUME NEW kind, FromBus(t, p, m, kind) PROVE KeyUser(out'[t])
    BY <2>1, <2>2, <2>4 DEF FromBus
  <2>5. CASE HandleUpdateMetric(t, p, m)
    BY <2>1, <2>5, OutcomeKeyUser DEF HandleUpdateMetric
  <2>6. CASE SupersedeMetric(t, p, m)
    BY <2>1, <2>3, <2>6 DEF SupersedeMetric
  <2> QED BY <2>4, <2>5, <2>6
    DEF Arrival, RestUpdateMetric, GrpcUpdateMetric, OnMetricProposed, OnDebateOutcome,
        OnRiskSignal, OnReconciledDecision, OnRecorded
<1>3. pc \in [Task -> {"idle", "append", "appended", "done", "failed"}] /\ reply[t] = "none"
  BY <1>1 DEF DuplicateInv, TypeInv, CHTypeOK, AnswersEnd
<1>4. \A u \in Task : Late(u)' => u # t /\ Late(u)
  BY <1>1, <1>3 DEF Late
<1>5. \A u \in Task : Running(u)' => u = t \/ Running(u)
  BY <1>1, <1>3 DEF Running
<1> QED BY <1>1, <1>2, <1>4, <1>5 DEF DuplicateInv

(* An append is called a duplicate exactly when its key is in the trail.   *)
LEMMA DuplicateAppend ==
  ASSUME DuplicateInv, NEW t \in Task, AppendStep(t)
  PROVE  /\ \A i \in DOMAIN trail' : KeyUser(trail'[i])
         /\ \A u \in Task : Running(u)' => KeyUser(out'[u])
         /\ \A u \in Task : Late(u)' =>
              msg'[u].key # NoKey /\ \E i \in DOMAIN trail' : trail'[i].key = msg'[u].key
<1>0. /\ pc[t] = "append" /\ pc' = [pc EXCEPT ![t] = "appended"]
      /\ msg' = msg /\ out' = out /\ reply' = reply
      /\ res' = [res EXCEPT ![t] = [event_id |-> EventIdOf(out[t]),
                                    deduplicated |-> KeyTaken(out[t].key)]]
  BY DEF AppendStep, ResultOf
<1>1. /\ trail \in Seq(Event) /\ out[t] \in Event /\ res \in [Task -> AppendResult]
      /\ pc \in [Task -> {"idle", "append", "appended", "done", "failed"}] /\ reply[t] = "none"
  BY <1>0 DEF DuplicateInv, TypeInv, CHTypeOK, CoreTypeOK, TasksWellFormed, WellFormed, Running,
              AnswersEnd
<1>2. trail' = trail \/ trail' = Append(trail, out[t])
  BY DEF AppendStep, AppendEvent
<1>3. \A i \in DOMAIN trail : i \in DOMAIN trail' /\ trail'[i] = trail[i]
  BY <1>1, <1>2
<1>4. \A i \in DOMAIN trail' : trail'[i] = out[t] \/ (i \in DOMAIN trail /\ trail'[i] = trail[i])
  BY <1>1, <1>2
<1>5. KeyUser(out[t])
  BY <1>0 DEF DuplicateInv, Running
<1>6. \A u \in Task : Running(u)' => Running(u)
  BY <1>0, <1>1 DEF Running
<1>7. ASSUME NEW u \in Task, Late(u)'
      PROVE  msg'[u].key # NoKey /\ \E i \in DOMAIN trail' : trail'[i].key = msg'[u].key
  <2>1. CASE u # t
    <3>1. Late(u)
      BY <1>0, <1>1, <1>7, <2>1 DEF Late
    <3> QED BY <1>0, <1>3, <3>1 DEF DuplicateInv
  <2>2. CASE u = t
    <3>1. out[t].type = "MetricCommitted" /\ res'[t].deduplicated
      BY <1>0, <1>1, <1>7, <2>2 DEF Late
    <3>2. KeyTaken(out[t].key)
      BY <1>0, <1>1, <3>1
    <3>3. out[t].key = msg[t].key
      BY <1>0, <3>1 DEF DuplicateInv, TypeInv, TasksWellFormed, WellFormed, Running
    <3> QED BY <1>0, <1>3, <2>2, <3>2, <3>3 DEF KeyTaken
  <2> QED BY <2>1, <2>2
<1> QED BY <1>0, <1>4, <1>5, <1>6, <1>7 DEF DuplicateInv

(* The remaining steps of a task leave the trail alone; who is told now    *)
(* that it is a duplicate knew it before.                                  *)
LEMMA DuplicateOther ==
  ASSUME DuplicateInv, NEW t \in Task,
         ResumeReconciled(t) \/ FinishCommit(t) \/ FinishOther(t) \/ AppendFails(t)
  PROVE  /\ \A i \in DOMAIN trail' : KeyUser(trail'[i])
         /\ \A u \in Task : Running(u)' => KeyUser(out'[u])
         /\ \A u \in Task : Late(u)' =>
              msg'[u].key # NoKey /\ \E i \in DOMAIN trail' : trail'[i].key = msg'[u].key
<1>0. /\ trail' = trail /\ res' = res /\ msg' = msg
      /\ pc[t] \in {"append", "appended"} /\ pc'[t] # "appended"
      /\ \A u \in Task \ {t} : pc'[u] = pc[u] /\ out'[u] = out[u] /\ reply'[u] = reply[u]
  BY DEF DuplicateInv, TypeInv, CHTypeOK, ResumeReconciled, FinishCommit, FinishOther, AppendFails,
         Send, coreVars
<1>1. reply[t] = "none"
  BY <1>0 DEF DuplicateInv, AnswersEnd
<1>2. reply'[t] = "DUPLICATE_IGNORED" => Late(t)
  BY <1>1 DEF DuplicateInv, TypeInv, CHTypeOK, ResumeReconciled, FinishCommit, FinishOther,
              AppendFails, Late, Duplicate
<1>3. Running(t)' => KeyUser(out'[t])
  <2>1. CASE ResumeReconciled(t)
    <3>1. out'[t] = Outcome(msg[t])
      BY <2>1 DEF ResumeReconciled, Send, DuplicateInv, TypeInv, CHTypeOK
    <3> QED BY <3>1, OutcomeKeyUser
  <2>2. CASE FinishCommit(t) \/ FinishOther(t) \/ AppendFails(t)
    BY <2>2 DEF FinishCommit, FinishOther, AppendFails, Running, DuplicateInv, TypeInv, CHTypeOK
  <2> QED BY <2>1, <2>2
<1>4. \A u \in Task : Late(u)' => Late(u)
  BY <1>0, <1>2 DEF Late
<1>5. \A u \in Task \ {t} : Running(u)' => Running(u)
  BY <1>0 DEF Running
<1> QED BY <1>0, <1>3, <1>4, <1>5 DEF DuplicateInv

(* A command is called a duplicate only when its key is in the trail on a  *)
(* commit or a supersession; in particular a rejection for missing         *)
(* evidence never makes the corrected retry a duplicate.                   *)
THEOREM DuplicatesHaveOriginals == CHSpec => []DuplicateHasOriginal
<1>1. CHInit => DuplicateInv
  BY TypeInit DEF CHInit, CoreInit, Init, DuplicateInv, AnswersEnd, Late, Running
<1>2. AnswerInv /\ DuplicateInv /\ [CHNext]_chVars => DuplicateInv'
  <2> SUFFICES ASSUME AnswerInv, DuplicateInv, [CHNext]_chVars PROVE DuplicateInv'
    OBVIOUS
  <2>0. TypeInv' /\ AnswersEnd'
    BY AnswerNext DEF AnswerInv
  <2>1. CASE UNCHANGED chVars \/ CHTick
    <3>1. trail' = trail /\ pc' = pc /\ msg' = msg /\ out' = out /\ res' = res /\ reply' = reply
      BY <2>1 DEF chVars, coreVars, handlerVars, CHTick, Tick
    <3> QED BY <2>0, <3>1 DEF DuplicateInv, Late, Running
  <2>2. ASSUME NEW t \in Task, NEW p \in Proc, NEW m \in Message, Arrival(t, p, m)
        PROVE  DuplicateInv'
    BY <2>0, <2>2, DuplicateArrival DEF DuplicateInv
  <2>3. ASSUME NEW t \in Task, Progress(t) \/ AppendFails(t)
        PROVE  DuplicateInv'
    BY <2>0, <2>3, DuplicateAppend, DuplicateOther DEF Progress, DuplicateInv
  <2> QED BY <2>1, <2>2, <2>3 DEF CHNext
<1>3. DuplicateInv => DuplicateHasOriginal
  BY DEF DuplicateInv, DuplicateHasOriginal, Late, KeyUser
<1>4. CHInit => AnswerInv
  BY OwnerInit DEF OwnerInv
<1> QED BY <1>1, <1>2, <1>3, <1>4, AnswerNext, PTL DEF CHSpec
===============================================================================
