---------------------------- MODULE MCKafkaEventBus ----------------------------
(* KafkaEventBus on small instances.                                       *)
EXTENDS KafkaEventBus

M(kind, d, k, ev) ==
  [kind |-> kind, decision |-> d, metric |-> "m1", value |-> "v1", key |-> k, evidence |-> ev]

\* One topic: a decision to commit, one to reject, and one that is never readable.
MCReconciled ==
  {M("ReconciledDecision", "d1", "k1", {"e1"}),
   M("ReconciledDecision", "d1", "k2", {}),
   M("ReconciledDecision", "d2", "k1", {"e1"})}

\* Two topics, one decision.
MCLifecycle ==
  {M("MetricProposed", "d1", "k1", {}), M("RiskSignal", "d1", "k1", {})}

All(S, form) == {[msg |-> m, form |-> form] : m \in S}

MCPayload ==
  All({m \in Message : m.decision = "d1"}, "good")
    \cup All({m \in Message : m.decision = "d1" /\ m.evidence = {}}, "incomplete")
    \cup All({m \in Message : m.kind = "ReconciledDecision" /\ m.decision = "d1" /\ m.evidence # {}},
             "partial")
    \cup All({m \in Message : m.decision = "d2"}, "garbage")

MCOnePartition == [d \in Decision |-> 1]
MCPartOf == [d \in Decision |-> IF d = "d1" THEN 1 ELSE 2]
MCTask == Api \X Topic
===============================================================================
