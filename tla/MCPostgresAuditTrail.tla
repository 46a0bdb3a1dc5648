------------------------- MODULE MCPostgresAuditTrail -------------------------
(* PostgresAuditTrail: duplicates of one key across two decisions, and      *)
(* events without a key.                                                    *)
EXTENDS PostgresAuditTrail, TLC

MCEvent ==
  {[type |-> "MetricCommitted", decision |-> d, key |-> "k1"] : d \in Decision}
  \cup {[type |-> "RiskSignal", decision |-> "d1", key |-> NoKey]}

ClientSymmetry == Permutations(Client)
===============================================================================
