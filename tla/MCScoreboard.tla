----------------------------- MODULE MCScoreboard -----------------------------
(* Scoreboard on small instances.  Values are in thousandths.               *)
EXTENDS Scoreboard, TLC

E(type, m, v, cat, sev) ==
  [type |-> type, metric |-> m, value |-> v, leaf |-> 0, category |-> cat,
   severity |-> sev, evidence |-> {"ev"}]

Commit(m, v) == E("MetricCommitted", m, v, "none", 0)
Risk(cat, sev) == E("RiskSignal", "m1", 0, cat, sev)

\* A value below the scale and one that is no number, a critical risk that takes more
\* than the score and one with a severity below its scale.
MCInput ==
  {Commit("m1", -200), Commit("m2", Text), E("MetricRejected", "m1", 0, "none", 0),
   E("MetricSuperseded", "m1", 0, "none", 0), Risk("CRITICAL", 10), Risk("OTHER", -3)}

\* A commit and a published root.
MCInputRoots == {Commit("m1", 900), E("MerkleRootPublished", "m1", 0, "none", 0)}

\* Attached evidence and a commit.
MCInputEvidence == {Commit("m1", 900), E("EvidenceAttached", "m1", 0, "none", 0)}

\* Two metrics that are committed and superseded.
MCInputSupersede ==
  {Commit("m1", 900), Commit("m2", 400)}
  \cup {E("MetricSuperseded", m, 0, "none", 0) : m \in {"m1", "m2"}}

ClientSymmetry == Permutations(Client)
===============================================================================
