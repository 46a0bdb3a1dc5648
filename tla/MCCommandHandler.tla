--------------------------- MODULE MCCommandHandler ---------------------------
(* CommandHandler on small instances: the messages clients send.           *)
EXTENDS CommandHandler, TLC

TaskSymmetry == Permutations(Task)

M(kind, d, v, k, ev) ==
  [kind |-> kind, decision |-> d, metric |-> "m1", value |-> v, key |-> k, evidence |-> ev]

\* One key shared by a good command, a command without evidence and a reconciled
\* decision with another value; a second key shared by a supersession, a reconciled
\* decision without evidence and a command for another decision.
MCMessage ==
  {M("UpdateMetric", "d1", "v1", "k1", {"e1"}),
   M("UpdateMetric", "d1", "v1", "k1", {}),
   M("ReconciledDecision", "d1", "v2", "k1", {"e1"}),
   M("ReconciledDecision", "d1", "v1", "k2", {}),
   M("SupersedeMetric", "d1", "v1", "k2", {}),
   M("UpdateMetric", "d2", "v1", "k2", {"e1"})}
  \cup {M(kind, "d1", "v1", "k1", {}) : kind \in
          {"MetricProposed", "DebateOutcome", "RiskSignal", "GoalCreated"}}

MCAllMessage == {M(kind, "d1", "v1", "k1", {"e1"}) : kind \in Kind}
===============================================================================
