----------------------------- MODULE MCCoreService -----------------------------
(* CoreService on small instances: the messages clients and agents send.   *)
EXTENDS CoreService, TLC

M(kind, d, k, ev) ==
  [kind |-> kind, decision |-> d, metric |-> "m1", value |-> "v1", key |-> k, evidence |-> ev]

\* Two decisions that share batches, and a retry of each command.
MCCommands == 
  {M("UpdateMetric", d[1], d[2], {"e1"}) :
     d \in {<<"d1", "k1">>, <<"d2", "k2">>, <<"d1", "k3">>}}

\* The same key by REST or gRPC and by the bus.
MCBothPaths ==
  {M("UpdateMetric", "d1", "k1", {"e1"}), M("ReconciledDecision", "d1", "k1", {"e1"}),
   M("ReconciledDecision", "d2", "k2", {"e1"}), M("UpdateMetric", "d2", "k2", {"e1"})}

MCProposed == {M("MetricProposed", "d1", "k1", {}), M("UpdateMetric", "d1", "k1", {"e1"})}

TaskSymmetry == Permutations(Task)
===============================================================================
