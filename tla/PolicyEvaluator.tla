---------------------------- MODULE PolicyEvaluator ----------------------------
(***************************************************************************)
(* The pure functions of the read side: metrics_registry.reconstruct,      *)
(* risk_matrix.reconstruct, evaluate_policy, is_ready_to_publish and       *)
(* evidence_registry.reconstruct, over the event stream of one decision.   *)
(*                                                                         *)
(* Scores are integers in thousandths, severities in tenths and risk       *)
(* weights in hundredths, so that severity * weight is in thousandths.     *)
(* A value outside Int stands for a JSON value that is not a number.       *)
(***************************************************************************)
EXTENDS Integers, Sequences, FiniteSets, SequencesExt

CONSTANT Text     \* a metric value that is not a number

One == 1000
approve_at == 700
reject_below == 500

Clamp(x) == IF x < 0 THEN 0 ELSE IF x > One THEN One ELSE x

-------------------------------------------------------------------------------
(* metrics_registry.reconstruct: metric_name to its record.  An event of   *)
(* the stream has fields type and metric, and value, leaf, evidence or     *)
(* category and severity according to its type.                            *)

OfMetric(events, n, type, m) ==
  {i \in 1..n : events[i].type = type /\ events[i].metric = m}

Known(events, n, m) ==
  OfMetric(events, n, "MetricCommitted", m) \cup OfMetric(events, n, "MetricRejected", m)

\* The supersessions of a metric that is known by then.
Supersessions(events) ==
  {i \in DOMAIN events : /\ events[i].type = "MetricSuperseded"
                         /\ Known(events, i, events[i].metric) # {}}

\* The loop returns at the first one: later events are not read.
EventsRead(events) ==
  IF Supersessions(events) = {} THEN Len(events) ELSE Min(Supersessions(events))

\* Mutant: the first event of a metric makes its record, as it does for rejections.
RecordedFirst(events, n, m) == Min(Known(events, n, m))

\* The event a metric's record comes from: its last commit, or else its first
\* rejection, which only counts while the metric has no record.
Recorded(events, n, m) ==
  IF OfMetric(events, n, "MetricCommitted", m) # {}
    THEN Max(OfMetric(events, n, "MetricCommitted", m))
    ELSE Min(Known(events, n, m))

Metrics(events) ==
  LET n == EventsRead(events)
      names == {events[i].metric : i \in {j \in 1..n :
                  events[j].type \in {"MetricCommitted", "MetricRejected"}}}
      superseded == {events[i].metric : i \in Supersessions(events) \cap (1..n)}
  IN  [m \in names |->
         LET e == events[Recorded(events, n, m)] IN
           [value |-> e.value, leaf |-> e.leaf, evidence |-> e.evidence,
            status |-> IF m \in superseded THEN "SUPERSEDED"
                       ELSE IF e.type = "MetricCommitted" THEN "COMMITTED" ELSE "REJECTED"]]

\* Mutant: the bounds are not checked.
AnySeverity(s) == TRUE

\* RiskSignalEntry.severity: ge 0, le 1.
SeverityInRange(s) == s \in 0..10

\* risk_matrix.reconstruct: every signal is ACTIVE, nothing resolves one.
Risks(events) ==
  LET signals[n \in 0..Len(events)] ==
        IF n = 0 THEN <<>>
        ELSE IF events[n].type = "RiskSignal" THEN Append(signals[n - 1], events[n])
             ELSE signals[n - 1]
  IN  signals[Len(events)]

\* It raises on a signal the model refuses: the bus handlers store payloads unchecked.
RisksValid(events) == \A i \in DOMAIN Risks(events) : SeverityInRange(Risks(events)[i].severity)

-------------------------------------------------------------------------------
(* The two components that nothing in the repository calls yet.            *)

\* Mutant of TerminalStatus.
TerminalUnlessSuperseded == {"COMMITTED", "REJECTED"}

TerminalStatus == {"COMMITTED", "REJECTED", "SUPERSEDED"}

is_ready_to_publish(required, metrics) ==
  \A m \in required : m \in DOMAIN metrics /\ metrics[m].status \in TerminalStatus

\* evidence_registry.reconstruct raises without events, and when the last one is not
\* an EvidenceAttached; otherwise it registers the last event only.
RegistryRaises(events) == events = <<>> \/ Last(events).type # "EvidenceAttached"
EvidenceRegistry(events) == IF RegistryRaises(events) THEN {} ELSE Last(events).evidence

all_present(refs, known) == refs \subseteq known

-------------------------------------------------------------------------------
(* evaluate_policy, with the default weights and thresholds.               *)

RiskWeight(category) ==
  CASE category = "DATA_FRESHNESS" -> 5
    [] category = "CONTRADICTION" -> 15
    [] category = "POLICY_BREACH" -> 30
    [] category = "CRITICAL" -> 50
    [] OTHER -> 10

NumericValue(r) == IF r.value = Text THEN One ELSE r.value

RiskPenalty(risks) ==
  LET sum[n \in 0..Len(risks)] ==
        IF n = 0 THEN 0
        ELSE sum[n - 1] + risks[n].severity * RiskWeight(risks[n].category)
  IN  sum[Len(risks)]

\* The mean of the committed values; integer division truncates the thousandth.
BaseScore(metrics, committed) ==
  IF committed = {} THEN 0
  ELSE Clamp(MapThenSumSet(LAMBDA m : NumericValue(metrics[m]), committed)
               \div Cardinality(committed))

Verdict(score, critical) ==
  CASE score >= approve_at /\ ~critical -> "APPROVE"
    [] score < reject_below \/ critical -> "REJECT"
    [] OTHER -> "MANUAL_REVIEW"

NoScore == -1     \* trust_score = None

\* Mutant: a superseded metric still counts.
CommittedOrSuperseded(required, metrics) ==
  {m \in required \cap DOMAIN metrics : metrics[m].status # "REJECTED"}

CommittedOf(required, metrics) ==
  {m \in required \cap DOMAIN metrics : metrics[m].status = "COMMITTED"}

\* The gate of I4 comes before any number.
EvaluatePolicy(required, metrics, risks) ==
  LET committed == CommittedOf(required, metrics)
      score == Clamp(BaseScore(metrics, committed) - RiskPenalty(risks))
      critical == \E i \in DOMAIN risks : risks[i].category = "CRITICAL"
  IN  IF required \ committed # {}
        THEN [trust_score |-> NoScore, status |-> "INSUFFICIENT_DATA", evidence |-> {}]
        ELSE [trust_score |-> score, status |-> Verdict(score, critical),
              evidence |-> UNION {metrics[m].evidence : m \in committed}]
===============================================================================
