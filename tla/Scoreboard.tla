------------------------------ MODULE Scoreboard ------------------------------
(***************************************************************************)
(* src/application/scoreboard_projector.py and the two queries of          *)
(* src/api/main.py (and grpc_transport/server.py) for one decision, while  *)
(* its event stream grows and its leaves are anchored.  A query awaits the *)
(* trail, then the projection store; get_merkle_proof then reads the trail *)
(* a second time, and awaits the store once more for the proof.            *)
(***************************************************************************)
EXTENDS PolicyEvaluator

CONSTANTS
  Client,           \* concurrent queries, one per client
  Input,            \* events that may be appended for the decision
  Metric,           \* metric names
  Required,         \* required_metrics_by_decision[decision_id], if it has an entry
  Configurations,   \* whether it may have one: a subset of BOOLEAN
  NoRow,
  MaxEvents         \* bound: length of the stream

ASSUME ScoreboardAssumption ==
  /\ Required \subseteq Metric /\ IsFiniteSet(Required)
  /\ Configurations \subseteq BOOLEAN /\ MaxEvents \in Nat
  /\ \A e \in Input :
       /\ DOMAIN e = {"type", "metric", "value", "leaf", "category", "severity", "evidence"}
       /\ e.value \in Int \cup {Text} /\ e.severity \in Int

VARIABLES
  events,           \* the decision's stream, in the order of read_range
  anchored,         \* leaves that have a merkle_proof row
  pc, asked,        \* per client: control state, the metric a proof is wanted for
  seen,             \* per client: the events its last read returned
  answer,           \* per client: what it was served
  row,              \* the "scoreboard:" row of the projection store
  configured        \* the decision has required metrics configured; never changes

sbVars == <<events, anchored, pc, asked, seen, answer, row, configured>>

SbInit ==
  /\ events = <<>>
  /\ anchored = {}
  /\ pc = [c \in Client |-> "idle"]
  /\ asked = [c \in Client |-> {}]
  /\ seen = [c \in Client |-> <<>>]
  /\ answer = [c \in Client |-> NoRow]
  /\ row = NoRow
  /\ configured \in Configurations

\* The hash a commit or a published root carries: no two have the same.
Stamp(e) ==
  [e EXCEPT !.leaf = IF e.type \in {"MetricCommitted", "MerkleRootPublished"}
                       THEN Len(events) + 1 ELSE 0]

\* The environment: command handlers append.  read_range is ORDER BY seq, and a seq is
\* drawn before its transaction commits: an event may appear in front of events that
\* were read before it, here behind the first n.
AppendInput(e, n) ==
  /\ Len(events) < MaxEvents
  /\ events' = InsertAt(events, n + 1, Stamp(e))
  /\ UNCHANGED <<anchored, pc, asked, seen, answer, row, configured>>

\* The environment: the anchor service stores a proof.
AnchorLeaf(i) ==
  /\ events[i].type = "MetricCommitted"
  /\ anchored' = anchored \cup {events[i].leaf}
  /\ UNCHANGED <<events, pc, asked, seen, answer, row, configured>>

-------------------------------------------------------------------------------
\* The metrics a query requires: without an entry get_scoreboard defaults to none
\* and get_merkle_proof to the one it asks for.
RequiredFor(ms) == IF configured THEN Required ELSE ms

\* The state rebuild() computes from a stream.
Project(evts, required) ==
  LET metrics == Metrics(evts)
      verdict == EvaluatePolicy(required, metrics, Risks(evts))
      roots == {i \in DOMAIN evts : evts[i].type = "MerkleRootPublished"}
  IN  [metrics |-> metrics, trust_score |-> verdict.trust_score,
       policy_verdict |-> verdict.status,
       merkle_root_ref |-> IF roots = {} THEN 0
                           ELSE evts[Max(roots)].leaf,
       rebuild_seq |-> Len(evts)]

\* What a rebuild is for: the scoreboard, or the proof of one metric.
Question == {{}} \cup {{m} : m \in Metric}

\* get_scoreboard (asked = {}) or get_merkle_proof (asked = {metric}) starts: read_range.
Read(c, ms) ==
  /\ pc[c] = "idle"
  /\ RisksValid(events)
  /\ seen' = [seen EXCEPT ![c] = events]
  /\ asked' = [asked EXCEPT ![c] = ms]
  /\ pc' = [pc EXCEPT ![c] = "store"]
  /\ UNCHANGED <<events, anchored, answer, row, configured>>

\* The rebuild raises before it stores anything; the query is an internal error.
ReadFails(c, ms) ==
  /\ pc[c] = "idle"
  /\ ~RisksValid(events)
  /\ asked' = [asked EXCEPT ![c] = ms]
  /\ pc' = [pc EXCEPT ![c] = "done"]
  /\ UNCHANGED <<events, anchored, seen, answer, row, configured>>

\* gRPC's GetMerkleProof starts: there is no rebuild.
GetMerkleProof(c, m) ==
  /\ pc[c] = "idle"
  /\ asked' = [asked EXCEPT ![c] = {m}]
  /\ pc' = [pc EXCEPT ![c] = "proof"]
  /\ UNCHANGED <<events, anchored, seen, answer, row, configured>>

Rebuilt(c) == Project(seen[c], RequiredFor(asked[c]))

\* The end of rebuild(): its row is written, and the query goes on if found.
StoreRow(c, found) ==
  /\ pc[c] = "store"
  /\ row' = Rebuilt(c)
  /\ answer' = [answer EXCEPT ![c] = IF found THEN Rebuilt(c) ELSE NoRow]
  /\ pc' = [pc EXCEPT ![c] = IF found /\ asked[c] # {} THEN "proof" ELSE "done"]
  /\ seen' = [seen EXCEPT ![c] = <<>>]
  /\ UNCHANGED <<events, anchored, asked, configured>>

\* REST answers 404 without metrics, or without the metric asked for.
RestAnswers(c) ==
  LET shown == DOMAIN Rebuilt(c).metrics IN
  StoreRow(c, shown # {} /\ asked[c] \subseteq shown)

\* gRPC's GetScoreboard serves an empty scoreboard.
GetScoreboard(c) == asked[c] = {} /\ StoreRow(c, TRUE)

\* get_merkle_proof goes on (for REST its second read_range).
ReadCommit(c) ==
  /\ pc[c] = "proof"
  /\ seen' = [seen EXCEPT ![c] = events]
  /\ pc' = [pc EXCEPT ![c] = "row"]
  /\ UNCHANGED <<events, anchored, asked, answer, row, configured>>

\* The commits of the metric asked for, in what was read.
Commits(c) ==
  {i \in DOMAIN seen[c] : /\ seen[c][i].type = "MetricCommitted"
                          /\ seen[c][i].metric \in asked[c]}

\* The row of the first one is fetched.  No commit, or no row yet, is NOT_FOUND.
ServeProof(c) ==
  /\ pc[c] = "row"
  /\ LET l == seen[c][Min(Commits(c))].leaf
     IN  answer' = [answer EXCEPT ![c] =
           IF Commits(c) # {} /\ l \in anchored THEN [leaf |-> l] ELSE NoRow]
  /\ seen' = [seen EXCEPT ![c] = <<>>]
  /\ pc' = [pc EXCEPT ![c] = "done"]
  /\ UNCHANGED <<events, anchored, asked, row, configured>>

SbNext ==
  \/ \E e \in Input, n \in 0..Len(events) : AppendInput(e, n)
  \/ \E i \in DOMAIN events : AnchorLeaf(i)
  \/ \E c \in Client : \/ \E ms \in Question : Read(c, ms) \/ ReadFails(c, ms)
                       \/ \E m \in Metric : GetMerkleProof(c, m)
                       \/ RestAnswers(c)
                       \/ GetScoreboard(c)
                       \/ ReadCommit(c)
                       \/ ServeProof(c)

SbSpec == SbInit /\ [][SbNext]_sbVars

-------------------------------------------------------------------------------
\* What get_scoreboard would serve of a stream; an error has no score and no verdict.
Served(evts) ==
  IF RisksValid(evts) THEN Project(evts, RequiredFor({}))
  ELSE [metrics |-> <<>>, trust_score |-> NoScore, policy_verdict |-> "error"]
Now == Served(events)

CommittedNow(m) ==
  \E i \in DOMAIN events :
    /\ events[i].type = "MetricCommitted" /\ events[i].metric = m
    /\ \A j \in (i + 1)..Len(events) :
         ~(events[j].type = "MetricSuperseded" /\ events[j].metric = m)

(* I4: a number is served only when every required metric is committed and *)
(* not superseded, according to the stream itself; what was superseded and *)
(* not committed since does not count.  The code keeps this for one        *)
(* supersession in the stream (ScoreNeedsCommits) and not for two.         *)
NoScoreFromIncomplete ==
  Now.trust_score # NoScore => \A m \in RequiredFor({}) : CommittedNow(m)
ScoreNeedsCommits ==
  Cardinality(Supersessions(events)) <= 1 => NoScoreFromIncomplete

(* A signal of the critic never improves a decision, not even a malformed  *)
(* one or one that appears late in the middle of the stream: it raises no  *)
(* score and moves no verdict towards approval.                            *)
Rank(v) == CASE v = "APPROVE" -> 2 [] v = "MANUAL_REVIEW" -> 1 [] OTHER -> 0
SignalAppears ==
  /\ Len(events') > Len(events)
  /\ \E i \in DOMAIN events' : events'[i].type = "RiskSignal" /\ events = RemoveAt(events', i)
RiskOnlyLowers ==
  [][SignalAppears => LET old == Served(events)
                          new == Served(events')
                      IN  /\ new.trust_score <= old.trust_score
                          /\ Rank(new.policy_verdict) <= Rank(old.policy_verdict)]_sbVars

(* is_ready_to_publish: a decision that is ready stays ready, whatever     *)
(* appears in its stream and wherever, unless a supersession that counts   *)
(* has events behind it: reconstruct returns there and drops them.         *)
ReadyIsStable ==
  [][events' # events /\ Supersessions(events') \subseteq {Len(events')}
       => (is_ready_to_publish(Required, Metrics(events))
             => is_ready_to_publish(Required, Metrics(events')))]_sbVars

(* Neither a stale read nor the order in which events become visible takes *)
(* a commit back: what an answer or the stored row showed as committed is  *)
(* committed still while no supersession counts, and its value is only     *)
(* replaced by one further on in the stream, whatever appeared since, and  *)
(* wherever (metrics_registry.py folds in the order of seq, not of         *)
(* arrival).                                                               *)
Scoreboards ==
  {answer[c] : c \in {d \in Client : pc[d] \in {"proof", "row"} \/ asked[d] = {}}} \ {NoRow}
Ahead(l, k) ==
  \E i, j \in DOMAIN events : i < j /\ events[i].leaf = l /\ events[j].leaf = k
CommitsStayShown ==
  Supersessions(events) = {} =>
    LET now == Metrics(events) IN
    \A s \in Scoreboards \cup ({row} \ {NoRow}) : \A m \in DOMAIN s.metrics :
      s.metrics[m].status = "COMMITTED" =>
        /\ m \in DOMAIN now /\ now[m].status = "COMMITTED"
        /\ now[m].leaf = s.metrics[m].leaf \/ Ahead(s.metrics[m].leaf, now[m].leaf)

-------------------------------------------------------------------------------
(* "Reconstructs known evidence for a decision from EvidenceAttached       *)
(* events" (evidence_registry.py): what was attached is known.             *)
EvidenceIsKnown ==
  \A i \in DOMAIN events :
    events[i].type = "EvidenceAttached" => all_present(events[i].evidence, EvidenceRegistry(events))

(* "the projector (scoreboard_projector.py) is what makes the *current*    *)
(* read state reflect the supersession" (command_handler.py): a metric     *)
(* committed after the last supersession is shown as committed.            *)
CurrentStateIsShown ==
  \A m \in Metric : CommittedNow(m) =>
    m \in DOMAIN Now.metrics /\ Now.metrics[m].status = "COMMITTED"

(* "replay(decision_id) run twice against the same event log must produce  *)
(* byte-identical ScoreboardState except for `rebuilt_at`"                 *)
(* (scoreboard_projector.py): two rebuilds in flight that read the same    *)
(* events compute the same state.                                          *)
ReplayIsDeterministic ==
  \A c, d \in {k \in Client : pc[k] = "store"} : seen[c] = seen[d] => Rebuilt(c) = Rebuilt(d)

(* "REJECT if score < 0.7" (policy_evaluator.py, of approve_at): a number  *)
(* below the approval threshold is a rejection.                            *)
BelowApprovalRejects ==
  Now.trust_score \in 0..(approve_at - 1) => Now.policy_verdict = "REJECT"
===============================================================================
