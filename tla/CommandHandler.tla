---------------------------- MODULE CommandHandler ----------------------------
(***************************************************************************)
(* src/application/command_handler.py.  A Task is one invocation of a      *)
(* handler: a request or a bus message that arrives at a process.  Retries *)
(* and redeliveries are further tasks with the same message.  A handler    *)
(* runs without interruption between two awaits, and every await in it is  *)
(* an append to the audit trail, so a task alternates between              *)
(*   "append"    the append in out[t] has been sent, and                   *)
(*   "appended"  it took effect; its result is on the way back.            *)
(***************************************************************************)
EXTENDS CoreState

CONSTANTS Task, NoMessage, NoEvent

ASSUME NoMessageAssumption == NoMessage \notin MessageType

VARIABLES
  pc,               \* "idle", "append", "appended", "done" or "failed"
  home,             \* the process that runs the task
  msg,              \* its command or payload
  out,              \* the event being appended
  res,              \* AppendResult of the last append
  reply,            \* UpdateMetricStatus the handler computed, "ok" for None
  staging           \* CommandHandler._staging: status per process and metric

taskVars == <<pc, home, msg, out, res, reply>>
handlerVars == <<pc, home, msg, out, res, reply, staging>>
chVars == <<coreVars, handlerVars>>

Status == {"none", "PROPOSED", "DEBATED", "CRITIQUED", "RECONCILED", "COMMITTED"}
Reply == {"none", "ok", "ACCEPTED", "DUPLICATE_IGNORED", "REJECTED_MISSING_EVIDENCE"}
AppendResult == [event_id : Nat, deduplicated : BOOLEAN]
NoResult == [event_id |-> 0, deduplicated |-> FALSE]

CHInit ==
  /\ CoreInit
  /\ pc = [t \in Task |-> "idle"]
  /\ home = [t \in Task |-> CHOOSE p \in Proc : TRUE]
  /\ msg = [t \in Task |-> NoMessage]
  /\ out = [t \in Task |-> NoEvent]
  /\ res = [t \in Task |-> NoResult]
  /\ reply = [t \in Task |-> "none"]
  /\ staging = [p \in Proc |-> [k \in Decision \X Metric |-> "none"]]

-------------------------------------------------------------------------------
(* The events the handlers build.  A rejection is appended without its     *)
(* idempotency key, so that it does not use the key up.                    *)

\* Mutant of RejectedEvent.
RejectedEventWithKey(m) == EventOf("MetricRejected", m.decision, m.key, NoLeaf)

RejectedEvent(m) == EventOf("MetricRejected", m.decision, NoKey, NoLeaf)

\* The head of _commit: the clock is read, and the leaf fixed, before the append.
CommittedEvent(m) ==
  EventOf("MetricCommitted", m.decision, m.key, compute_leaf_hash(m, now))

\* Mutant of Outcome.
OutcomeUnchecked(m) == CommittedEvent(m)

Outcome(m) == IF m.evidence = {} THEN RejectedEvent(m) ELSE CommittedEvent(m)

\* Bound: no message arrives, and no handler runs, in the last MaxSeconds of the
\* clock, so that every batch opened can reach its age limit.
Horizon == MaxTime - MaxSeconds

Send(t, e) ==
  /\ pc' = [pc EXCEPT ![t] = "append"]
  /\ out' = [out EXCEPT ![t] = e]

Arrive(t, p, m, e) ==
  /\ pc[t] = "idle"
  /\ now <= Horizon
  /\ home' = [home EXCEPT ![t] = p]
  /\ msg' = [msg EXCEPT ![t] = m]
  /\ Send(t, e)
  /\ UNCHANGED <<coreVars, res, reply>>

SetStaging(p, d, m, s) == staging' = [staging EXCEPT ![p][<<d, m>>] = s]

-------------------------------------------------------------------------------
(* Synchronous command.                                                    *)

\* UpdateMetricRequest: evidence_refs has min_length 1.
RestValidates(m) == m.evidence # {}

HandleUpdateMetric(t, p, m) ==
  /\ m.kind = "UpdateMetric"
  /\ life[p] = "up"
  /\ Arrive(t, p, m, Outcome(m))
  /\ UNCHANGED staging

RestUpdateMetric(t, p, m) ==
  p \in Api /\ RestValidates(m) /\ HandleUpdateMetric(t, p, m)

\* gRPC passes the request through.
GrpcUpdateMetric(t, p, m) == p \notin Api /\ HandleUpdateMetric(t, p, m)

(* Lifecycle events from the bus.  Only api/main.py subscribes, and its    *)
(* consumers run until event_bus.stop() at the end of the shutdown.        *)
FromBus(t, p, m, kind) ==
  /\ m.kind = kind
  /\ p \in Api
  /\ life[p] # "down"
  /\ Arrive(t, p, m, EventOf(kind, m.decision, NoKey, NoLeaf))

OnMetricProposed(t, p, m) ==
  /\ FromBus(t, p, m, "MetricProposed")
  /\ SetStaging(p, m.decision, m.metric, "PROPOSED")

OnDebateOutcome(t, p, m) ==
  /\ FromBus(t, p, m, "DebateOutcome")
  /\ SetStaging(p, m.decision, m.metric, "DEBATED")

OnRiskSignal(t, p, m) ==
  /\ FromBus(t, p, m, "RiskSignal")
  /\ SetStaging(p, m.decision, m.metric, "CRITIQUED")

OnReconciledDecision(t, p, m) ==
  /\ FromBus(t, p, m, "ReconciledDecision")
  /\ SetStaging(p, m.decision, m.metric, "RECONCILED")

\* on_evidence_attached, on_runtime_*, on_goal_*: the event is only recorded.
\* A runtime payload without decision_id is one for the decision "runtime".
OnRecorded(t, p, m) ==
  /\ \E kind \in {"EvidenceAttached", "RuntimeArtifactDeployed", "RuntimeConfigUpdated",
                  "GoalCreated", "GoalCancelled"} : FromBus(t, p, m, kind)
  /\ UNCHANGED staging

\* supersede_metric: an event that refers to an earlier leaf, under a key of its own.
SupersedeMetric(t, p, m) ==
  /\ m.kind = "SupersedeMetric"
  /\ life[p] = "up"
  /\ \E i \in Committed :
       /\ trail[i].decision = m.decision
       /\ Arrive(t, p, m, EventOf("MetricSuperseded", m.decision, m.key, trail[i].leaf))
  /\ UNCHANGED staging

-------------------------------------------------------------------------------
(* The await and what follows it.                                          *)

\* Mutants of ResultOf and Duplicate.
ResultForgetful(e) == [event_id |-> EventIdOf(e), deduplicated |-> FALSE]
ResultCheckedAfter(e) ==
  [event_id |-> EventIdOf(e),
   deduplicated |-> \E i \in DOMAIN trail' : e.key # NoKey /\ trail'[i].key = e.key]
NeverDuplicate(t) == FALSE

ResultOf(e) == [event_id |-> EventIdOf(e), deduplicated |-> KeyTaken(e.key)]

AppendStep(t) ==
  /\ pc[t] = "append"
  /\ AppendEvent(out[t])
  /\ res' = [res EXCEPT ![t] = ResultOf(out[t])]
  /\ pc' = [pc EXCEPT ![t] = "appended"]
  /\ UNCHANGED <<batched, pending, first_leaf_ts, life, now, faults,
                 home, msg, out, reply, staging>>

\* The await raises: nothing was appended ("append"), or the event is durable and
\* its result is lost ("appended").  The rest of the handler does not run.
AppendFails(t) ==
  /\ pc[t] \in {"append", "appended"}
  /\ Fault
  /\ pc' = [pc EXCEPT ![t] = "failed"]
  /\ UNCHANGED <<trail, batched, pending, first_leaf_ts, life, now,
                 home, msg, out, res, reply, staging>>

\* on_reconciled_decision after its own event: reject or take the commit path.
ResumeReconciled(t) ==
  /\ pc[t] = "appended" /\ out[t].type = "ReconciledDecision"
  /\ Send(t, Outcome(msg[t]))
  /\ UNCHANGED <<coreVars, home, msg, res, reply, staging>>

Duplicate(t) == res[t].deduplicated

\* The tail of _commit.
FinishCommit(t) ==
  /\ pc[t] = "appended" /\ out[t].type = "MetricCommitted"
  /\ IF Duplicate(t)
       THEN /\ reply' = [reply EXCEPT ![t] = "DUPLICATE_IGNORED"]
            /\ UNCHANGED <<pending, first_leaf_ts, staging>>
       ELSE /\ AddLeaf(home[t], out[t].leaf, res[t].event_id)
            /\ SetStaging(home[t], msg[t].decision, msg[t].metric, "COMMITTED")
            /\ reply' = [reply EXCEPT ![t] = "ACCEPTED"]
  /\ pc' = [pc EXCEPT ![t] = "done"]
  /\ UNCHANGED <<trail, batched, life, now, faults, home, msg, out, res>>

\* A handler whose last append is not a commit; supersede_metric drops the result.
FinishOther(t) ==
  /\ pc[t] = "appended" /\ out[t].type \notin {"ReconciledDecision", "MetricCommitted"}
  /\ reply' = [reply EXCEPT ![t] = IF out[t].type = "MetricRejected"
                                     THEN "REJECTED_MISSING_EVIDENCE" ELSE "ok"]
  /\ pc' = [pc EXCEPT ![t] = "done"]
  /\ UNCHANGED <<coreVars, home, msg, out, res, staging>>

-------------------------------------------------------------------------------
Running(t) == pc[t] \in {"append", "appended"}

CHTick ==
  /\ now >= Horizon => \A t \in Task : ~Running(t)
  /\ Tick
  /\ UNCHANGED handlerVars

Arrival(t, p, m) ==
  \/ RestUpdateMetric(t, p, m)
  \/ GrpcUpdateMetric(t, p, m)
  \/ OnMetricProposed(t, p, m)
  \/ OnDebateOutcome(t, p, m)
  \/ OnRiskSignal(t, p, m)
  \/ OnReconciledDecision(t, p, m)
  \/ OnRecorded(t, p, m)
  \/ SupersedeMetric(t, p, m)

Progress(t) ==
  \/ AppendStep(t)
  \/ ResumeReconciled(t)
  \/ FinishCommit(t)
  \/ FinishOther(t)

CHNext ==
  \/ \E t \in Task : \/ \E p \in Proc, m \in Message : Arrival(t, p, m)
                     \/ Progress(t)
                     \/ AppendFails(t)
  \/ CHTick

\* The event loop runs every task that is ready.
CHFairness == \A t \in Task : WF_chVars(Progress(t))

CHSpec == CHInit /\ [][CHNext]_chVars /\ CHFairness

-------------------------------------------------------------------------------
CHTypeOK ==
  /\ CoreTypeOK
  /\ pc \in [Task -> {"idle", "append", "appended", "done", "failed"}]
  /\ home \in [Task -> Proc]
  /\ msg \in [Task -> Message \cup {NoMessage}]
  /\ out \in [Task -> Event \cup {NoEvent}]
  /\ res \in [Task -> AppendResult]
  /\ reply \in [Task -> Reply]
  /\ staging \in [Proc -> [Decision \X Metric -> Status]]

(* I3 with I6: a metric is committed only with evidence, its leaf is the   *)
(* one its event names, and it carries the idempotency key it was sent     *)
(* with, on the synchronous path and on the reconciled path alike.         *)
CommitsAreEvidenced ==
  \A i \in Committed :
    /\ trail[i].leaf # NoLeaf
    /\ trail[i].leaf.evidence # {}
    /\ trail[i].leaf.key = trail[i].key
    /\ trail[i].leaf.decision = trail[i].decision

(* handle_update_metric's answers: ACCEPTED is given to at most one of the *)
(* tasks that carry a key, retries and the other path included, and only   *)
(* when the metric of that very command is durable.                        *)
AcceptedOnce ==
  \A t \in Task : reply[t] = "ACCEPTED" =>
    /\ \E i \in Committed :
         /\ i = res[t].event_id
         /\ trail[i].leaf = compute_leaf_hash(msg[t], trail[i].leaf.at)
    /\ \A u \in Task : reply[u] = "ACCEPTED" /\ msg[u].key = msg[t].key => u = t

(* A command is called a duplicate only when its key is in the trail, and  *)
(* the event that holds the key is a commit or a supersession: a rejection *)
(* never makes a later, corrected command a duplicate.                     *)
DuplicateHasOriginal ==
  \A t \in Task : reply[t] = "DUPLICATE_IGNORED" =>
    \E i \in DOMAIN trail :
      /\ trail[i].key = msg[t].key
      /\ trail[i].type \in {"MetricCommitted", "MetricSuperseded"}

Slot == {s \in Proc \X (1..Len(trail)) : s[2] \in DOMAIN pending[s[1]]}

(* The builders together hold a committed leaf at most once, and what they *)
(* hold is what the trail says (I6: redelivery changes no Merkle root).    *)
BuildersMatchTrail ==
  /\ \A s \in Slot : LET x == pending[s[1]][s[2]] IN
       /\ x.event_id \in Committed
       /\ trail[x.event_id].leaf = x.leaf_hash
       /\ trail[x.event_id].decision = x.decision_id
  /\ \A s, u \in Slot :
       pending[s[1]][s[2]].event_id = pending[u[1]][u[2]].event_id => s = u
  /\ \A p \in Proc : Cardinality({s \in Slot : s[1] = p}) = Len(pending[p])

(* While no await has failed, every durable commit is in a builder or is   *)
(* about to be put there by the task that appended it.                     *)
NoCommitForgotten ==
  faults = 0 =>
    \A i \in Committed :
      \/ \E s \in Slot : pending[s[1]][s[2]].event_id = i
      \/ \E t \in Task : pc[t] = "appended" /\ res[t] = [event_id |-> i, deduplicated |-> FALSE]
                         /\ out[t] = trail[i]

Stage(s) ==
  CASE s = "none" -> 0 [] s = "PROPOSED" -> 1 [] s = "DEBATED" -> 2
    [] s = "CRITIQUED" -> 3 [] s = "RECONCILED" -> 4 [] s = "COMMITTED" -> 5

(* "Owns the lifecycle state machine (PROPOSED -> DEBATED -> CRITIQUED ->  *)
(* RECONCILED -> COMMITTED/REJECTED)" (command_handler.py): the status of  *)
(* a metric only moves forward, unless the metric is proposed anew.        *)
LifecycleMovesForward ==
  [][\A p \in Proc, k \in Decision \X Metric :
       \/ staging'[p][k] = "PROPOSED"
       \/ Stage(staging'[p][k]) >= Stage(staging[p][k])]_chVars
===============================================================================
