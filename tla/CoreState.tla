------------------------------- MODULE CoreState -------------------------------
(***************************************************************************)
(* State shared by the parts of one deployment of the Core: the audit      *)
(* trail (Postgres, shared by all processes), and per process the Merkle   *)
(* batch builder of src/application/merkle.py, the lifecycle of the        *)
(* process and the wall clock.  A process in Api runs api/main.py (REST,   *)
(* event bus, closer loop); any other process runs grpc_transport/server.py *)
(* (UpdateMetric only, no closer loop).                                    *)
(***************************************************************************)
EXTENDS AuditTrail, Integers, FiniteSets

CONSTANTS
  Proc, Api,                  \* processes; those running api/main.py
  Decision, Metric, Value, Evidence, Key,
  System,                     \* decision_id of the batch-level root event
  NoLeaf,                     \* no leaf_hash
  Message,                    \* commands and bus payloads clients may send
  MaxLeaves, MaxSeconds,      \* thresholds of MerkleBatchBuilder
  MaxTime,                    \* bound: the clock stops here
  MaxFaults                   \* bound: failed awaits and crashes

\* Every payload the handlers of CommandHandler take.
Kind ==
  {"UpdateMetric", "MetricProposed", "DebateOutcome", "RiskSignal",
   "ReconciledDecision", "EvidenceAttached", "RuntimeArtifactDeployed",
   "RuntimeConfigUpdated", "GoalCreated", "GoalCancelled", "SupersedeMetric"}

MessageType ==
  [kind : Kind, decision : Decision, metric : Metric, value : Value,
   key : Key, evidence : SUBSET Evidence]

ASSUME ProcAssumption == Proc # {} /\ Api \subseteq Proc
ASSUME MessageAssumption == Message \subseteq MessageType
ASSUME KeyAssumption == NoKey \notin Key
ASSUME SystemAssumption == System \notin Decision
ASSUME BoundAssumption ==
  /\ MaxLeaves \in Nat \ {0} /\ MaxSeconds \in Nat
  /\ MaxTime \in Nat /\ MaxFaults \in Nat

VARIABLES
  pending,          \* MerkleBatchBuilder._pending, per process
  first_leaf_ts,    \* MerkleBatchBuilder._first_leaf_ts, NoTime for None
  life,             \* "up", "stopping" (lifespan's finally block) or "down"
  now,              \* wall clock, in units of the closer loop's interval
  faults            \* awaits that failed and processes that crashed so far

coreVars == <<trail, batched, pending, first_leaf_ts, life, now, faults>>

-------------------------------------------------------------------------------
(* compute_leaf_hash: an injective digest of its six fields, so the leaf   *)
(* is the record of them.  Evidence is a set: the code sorts and dedupes.  *)
(* The code joins the fields with a separator it does not escape, so this  *)
(* takes names, references and keys to be free of it.                      *)
Leaf ==
  [decision : Decision, metric : Metric, value : Value, at : 0..MaxTime,
   evidence : SUBSET Evidence, key : Key]

compute_leaf_hash(m, at) ==
  [decision |-> m.decision, metric |-> m.metric, value |-> m.value, at |-> at,
   evidence |-> m.evidence, key |-> m.key]

\* An event of the trail (DecisionReady is never appended).  batch identifies a
\* published root, its signature and its timestamp; 0 for every other type.
Event ==
  [type : (Kind \ {"UpdateMetric", "SupersedeMetric"})
            \cup {"MetricRejected", "MetricCommitted", "MetricSuperseded",
                  "MerkleRootPublished"},
   decision : Decision \cup {System}, key : Key \cup {NoKey},
   leaf : Leaf \cup {NoLeaf}, batch : Nat, leaf_count : Nat]

EventOf(type, decision, key, leaf) ==
  [type |-> type, decision |-> decision, key |-> key, leaf |-> leaf,
   batch |-> 0, leaf_count |-> 0]

RootEvent(decision, batch, n) ==
  [type |-> "MerkleRootPublished", decision |-> decision, key |-> NoKey,
   leaf |-> NoLeaf, batch |-> batch, leaf_count |-> n]

-------------------------------------------------------------------------------
ASSUME NoLeafAssumption == NoLeaf \notin Leaf

(* MerkleBatchBuilder.                                                     *)

NoTime == -1

PendingLeaf == [leaf_hash : Leaf, event_id : Nat, decision_id : Decision]

\* Mutants of FirstLeafTs, ShouldClose and ResetBuilder.
LocalLeafTs(p, l) == IF first_leaf_ts[p] = NoTime THEN l.at + 18000 ELSE first_leaf_ts[p]
ShouldCloseCountOnly(p) == Len(pending[p]) >= MaxLeaves
KeepBuilder(p) == UNCHANGED <<pending, first_leaf_ts>>

HasPending(p) == pending[p] # <<>>

\* The time of the first leaf of the batch.
FirstLeafTs(p, l) == IF first_leaf_ts[p] = NoTime THEN l.at ELSE first_leaf_ts[p]

AddLeaf(p, l, id) ==
  /\ pending' = [pending EXCEPT ![p] =
       Append(@, [leaf_hash |-> l, event_id |-> id, decision_id |-> l.decision])]
  /\ first_leaf_ts' = [first_leaf_ts EXCEPT ![p] = FirstLeafTs(p, l)]

ShouldClose(p) ==
  /\ HasPending(p)
  /\ \/ Len(pending[p]) >= MaxLeaves
     \/ now - first_leaf_ts[p] >= MaxSeconds

ResetBuilder(p) ==
  /\ pending' = [pending EXCEPT ![p] = <<>>]
  /\ first_leaf_ts' = [first_leaf_ts EXCEPT ![p] = NoTime]

-------------------------------------------------------------------------------
CoreInit ==
  /\ Init
  /\ pending = [p \in Proc |-> <<>>]
  /\ first_leaf_ts = [p \in Proc |-> NoTime]
  /\ life = [p \in Proc |-> "up"]
  /\ now = 0
  /\ faults = 0

CoreTypeOK ==
  /\ trail \in Seq(Event)
  /\ batched \subseteq DOMAIN trail
  /\ pending \in [Proc -> Seq(PendingLeaf)]
  /\ first_leaf_ts \in [Proc -> (0..MaxTime) \cup {NoTime}]
  /\ life \in [Proc -> {"up", "stopping", "down"}]
  /\ now \in 0..MaxTime
  /\ faults \in 0..MaxFaults

\* The wall clock; every process reads the same one.
Tick ==
  /\ now < MaxTime
  /\ now' = now + 1
  /\ UNCHANGED <<trail, batched, pending, first_leaf_ts, life, faults>>

\* An await that raises costs one fault.
Fault == faults < MaxFaults /\ faults' = faults + 1

Committed == {i \in DOMAIN trail : trail[i].type = "MetricCommitted"}
===============================================================================
