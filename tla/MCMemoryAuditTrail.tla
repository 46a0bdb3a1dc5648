-------------------------- MODULE MCMemoryAuditTrail --------------------------
(* MemoryAuditTrail with two decisions, two keys and events without a key.  *)
EXTENDS MemoryAuditTrail

MCEvent ==
  {[type |-> "MetricCommitted", decision |-> d, key |-> k] : d \in Decision, k \in {"k1", "k2"}}
  \cup {[type |-> "RiskSignal", decision |-> d, key |-> NoKey] : d \in Decision}
===============================================================================
