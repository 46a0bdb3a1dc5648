# Verification of decision-intelligence-core

TLA+ modules, TLC configurations and TLAPS proofs for the Core service in `src/`: metrics
arrive by command or by Kafka, are appended to an audit trail, collected in Merkle batches,
timestamped and anchored, and projected into a scoreboard. Paths below are relative to `src/`. I2, I3, I4, I6,
I7 and I9 are the invariant numbers the code uses.

## 1. The system

| Part | State it keeps | Operations | Talks to |
|---|---|---|---|
| AuditTrail port, `interfaces/audit_trail.py` | (abstract) the event log, batch marks | append, read_range, read_unbatched, mark_batched | called by everything below |
| Postgres adapter, `infrastructure/postgres_audit_trail.py` | table with UNIQUE key and BIGSERIAL seq, a pool | the port | shared by all processes |
| In-memory adapter, `infrastructure/memory_adapters.py` | log, per-decision lists, key index, batch marks | the port | tests and local profile |
| CommandHandler, `application/command_handler.py` | `_staging`: status per metric | handle_update_metric, nine `on_*` bus handlers, supersede_metric, `_commit` | trail, batch builder |
| MerkleBatchBuilder, MerkleBatch, `application/merkle.py` | open batch, time of its first leaf; tree levels | add_leaf, should_close, close_and_reset; close, proof_for, verify | filled by the handler, emptied by the anchor service |
| MerkleAnchorService, `application/merkle_anchor_service.py` | none between calls | maybe_close_and_anchor, force_close | builder, signer, TSA, projection store, trail |
| API process, `api/main.py` | the objects above | lifespan, closer loop, bus routes, POST /v1/metrics, two queries | handler, anchor service, projector |
| gRPC process, `grpc_transport/server.py` | a second set of those objects | UpdateMetric, two queries | no closer loop, no shutdown hook |
| Registries, `metrics_registry.py`, `risk_matrix.py` | none | fold of an event stream | projector |
| Policy evaluator, `policy_evaluator.py` | none | evaluate_policy | projector |
| Projector, `scoreboard_projector.py` | `scoreboard:` row in the projection store | rebuild | trail, registries, policy, store |
| Completion criteria, evidence registry, `completion_criteria.py`, `evidence_registry.py` | none | is_ready_to_publish; reconstruct, all_present | called by nothing yet |
| Kafka bus, `infrastructure/kafka_adapter.py` | one consumer per topic and process; offsets at the broker | publish, subscribe and its loop, stop | bus handlers |
| RFC 3161 client, `infrastructure/rfc3161_client.py` | the DER codec, no state between calls | timestamp, verify | a TSA over HTTP; it fits the port the anchor service calls, but both profiles of `api/deps.py` (lines 96 and 104) wire `MemoryTsa` |
| Signer, in-memory bus, dispatcher, configuration | see section 8 | | |

What is hard to get right:

* **Concurrency.** All handlers of a process interleave at their awaits with each other, with the
  closer loop and with the shutdown; several processes share the trail and the projection store.
  A leaf is computed before an await and put into the builder after it.
* **Failure.** Any await may raise. The anchor service empties the builder before its first await.
  A process may crash; its builder and staging area are in memory only.
* **Delivery.** Commands are retried and bus messages redelivered; topics have independent
  consumers, so lifecycle events reach the handler in any order. An offset is committed after the
  handler, by a consumer that may have lost its partition in the meantime; a failed handler is
  logged and passed over.
* **Foreign bytes.** A timestamp answer comes from another party over HTTP: it may be late, cut
  short, refused, or belong to another call.
* **Ordering.** The order of `seq`, the order of commit and the order in which callers see their
  answers are three different orders.
* **Replay.** The read side is a fold over the stream with an early return.

What makes each part correct, in one sentence each: a key is in the trail at most once and
ACCEPTED is told to at most one caller of it; a commit has evidence; a committed leaf is in at most
one batch and a durable commit is not forgotten; a published root is complete and every proof row
verifies; a committed offset covers only messages that are in the trail or in the log; a timestamp
token answers the call it is returned from; a score is a function of the events and never of an
incomplete metric set.
`PROJECT.json` lists the hazards with their lines and the properties that watch them.

## 2. Modules

| Module | Models |
|---|---|
| `AuditTrail` | the port: operators for its calls, and `Spec`, the abstract specification both adapters and the deployment are shown to implement |
| `CoreState` | what the parts of a deployment share: trail, builder per process, life of a process, clock; the builder's operations |
| `CommandHandler` | every handler; a *task* is one invocation |
| `Merkle`, `MerkleBatch` | the tree as operators; one batch against a reference definition |
| `MerkleAnchorService` | `_close_and_anchor`, one step per await, by two kinds of worker (loop and flush) |
| `CoreService` | composition of handlers and anchor service with start, shutdown, crash |
| `MemoryAuditTrail`, `PostgresAuditTrail` | the adapters, each refining `AuditTrail!Spec` |
| `KafkaEventBus` | consumers, loops and offsets, composed with the handlers of `CommandHandler` |
| `Der`, `Rfc3161` | the DER codec as operators over bytes; the timestamp client, its TSA and the network |
| `PolicyEvaluator` | the pure read side: registries (metrics, risks, evidence), completion criteria, policy |
| `Scoreboard` | rebuild and the queries of both transports, while the stream grows |
| `MC*` | messages, events and symmetry for the runs |
| `CommandHandlerProofs`, `PostgresAuditTrailProofs`, `MerkleProofs`, `MerkleBatchProofs`, `CoreServiceProofs`, `ScoreboardProofs`, `KafkaEventBusProofs` | TLAPS proofs about the module of that name (section 6) |
| `AdapterProofs` | TLAPS proofs about `MemoryAuditTrail`, and about `Der` and `Rfc3161` |

How state and actions correspond to the code:

* **Atomic steps.** asyncio runs a coroutine without interruption between two awaits, so each action
  is the code from one await to the next. In `CommandHandler` every await is an append; a task is in
  `"append"` when the call is out, and in `"appended"` when it took effect but its result is not
  back yet. A failure in `"appended"` is an event that is durable though the caller got an exception.
* **Ids.** `event_id` and `batch_id` are uuids in the code; the position in the trail and a counter
  stand for them. A signature and a TSA token are determined by their root and stand behind the id.
* **Hashes.** SHA-256 is taken to be injective: a leaf hash is the record of its six fields, an inner
  node the pair of its children, a leaf node a tuple of length one. `compute_leaf_hash` joins the
  fields with `|` and the references with `,` and escapes neither, so for leaves this also takes
  names, references and keys to be free of the separators.
* **Evidence** is a set, because `compute_leaf_hash` sorts it and removes duplicates. Only its
  emptiness decides anything.
* **Time** is one wall clock in units of the closer loop's interval.
* **Postgres** is modelled from how the adapter relies on it: `seq` is drawn when an INSERT starts, a
  second INSERT of a key waits for the first, a row is visible from its commit on. `ORDER BY seq` is
  written with ranks: place n of a read is the row with n - 1 rows of a lower number (`ReadRows`).
* **Reference tree.** `MerkleBatch` states what a root is a second time, without the loops of
  `close()`: the least height whose power of two covers the leaves (`Height`), widths that halve
  rounding up, and each level from the one below, a missing right child being its sibling (`Nodes`).
  `Unfold` reads the leaves back from a root and a leaf_count.
* **Kafka.** A task of `KafkaEventBus` is the handler call of one consumer (a process and a topic),
  used again for each message. Offsets are indices into `published`, over all partitions. The broker
  is modelled from how the adapter configures it: manual commits, and the client's default for a
  group without an offset, which starts at the end of the log. A payload is good, incomplete (the
  handler raises before any effect), partial (a reconciled decision without the fields that
  `on_reconciled_decision` reads after its first append: it raises with its own event in the trail)
  or undecodable (`value_deserializer` raises outside the `try`, so the loop ends while the consumer
  keeps its partitions). `missed` and `cause` are history.
* **Timestamps.** Requests and answers are sequences of bytes and go through the encoder and the
  decoder of the code. `generalized_time_to_iso` is a regular expression over text; the model gives
  its input as fields and keeps the three ways it ends; a field above 127 stands for a text that is
  not ASCII, which `der_decode_generalized_time` refuses inside the parser, for verify too. Nonces are below 2^31 instead of 2^64, with
  values at the edges of the encoding. Two calls never draw the same nonce.
  `ParseAll` and the other loops of the codec are recursive functions, so that they can be proved about.
* **Validation.** A bus payload is stored as it is. `RiskSignalEntry` checks the severity when the
  stream is read, so a rebuild over an invalid one raises, and so does every query.
* **Streams.** `read_range` is `ORDER BY seq`, and a seq is drawn before its row is committed: in
  `Scoreboard` an event may appear at any place of the decision's stream, not only at its end
  (`AppendInput`). Each await of a query is a step of its own; get_merkle_proof has three, the
  rebuild, the second read (`ReadCommit`) and the fetch of the proof row (`ServeProof`).
* **Numbers.** Scores are integers in thousandths, severities in tenths, weights in hundredths, so
  that a penalty is exact; a mean is truncated to a thousandth.
* **Required metrics.** A decision has an entry in `CORE_REQUIRED_METRICS` or not; without one
  get_scoreboard requires nothing and get_merkle_proof the one metric it is asked for
  (`RequiredFor`).

## 3. What the runs check

Passing runs:

| Run | Instance | Shows |
|---|---|---|
| `handler` | 3 tasks, an API and a gRPC process, 2 keys, 10 messages, 1 failed await | idempotency (AcceptedOnce, DuplicateHasOriginal), I3 (CommitsAreEvidenced), builders agree with the trail (BuildersMatchTrail, NoCommitForgotten) |
| `merkle` | batches of 1 to 6 leaves in every order | root and height against the reference, every proof verifies, a proof binds its leaf, (root, leaf_count) determines the batch |
| `service` | 1 API process, 3 tasks, bus and REST, 1 failed await or crash, 1 shutdown and restart | proof rows verify, a published root has all its rows, a marked event is provable, no leaf in two batches, rows are never rewritten; with no failure no leaf is lost; the deployment uses the trail as the port allows (UsesAuditTrail, a refinement) |
| `anchored_eventually` | 2 API processes that stay up, 2 tasks | every commit gets its proof row and its batch mark, whether its batch closes by count or by age (EventuallyAnchored) |
| `memory_trail` | logs of up to 4 events | refinement of the port; index, lists and marks agree with the log |
| `postgres_trail` | 3 concurrent appends, 2 connections, one of which may break | refinement of the port; results name the right row; one winner per key; replay keeps the order callers saw; no append waits for ever |
| `scoreboard` | 2 queries of REST or gRPC, streams of up to 3 events out of 6, each appearing anywhere, a decision with two required metrics | no score while a required metric is not committed, for at most one supersession (ScoreNeedsCommits, I4); what an answer or the stored row showed as committed stays committed while no supersession counts, and its value is only replaced by one further on (CommitsStayShown); a risk signal never raises a score or a verdict (RiskOnlyLowers); a decision that was ready to publish stays so unless a supersession that counts has events behind it (ReadyIsStable) |
| `bus` | 2 API processes, 1 topic, 2 messages, 2 crashes, rebalances, failed awaits, failed subscriptions or failed offset commits | a committed offset covers no message without its full effect in the trail, unless it was logged (OffsetIsDurable); order within a partition; repetitions are bounded by failures, for each partition and for each message, one that raises after its append included (RepeatsNeedFailures); every message ends in the trail or in the log |
| `timestamp` | 2 calls, 7 nonces, 9 shapes of answer, answers of earlier calls, cut or lengthened by some bytes | a token answers this very call (TokenAnswersCall); an intact grant is never refused (GrantIsAccepted); verify is true for the stamped digest and no other, and only when the time is ASCII (VerifyBindsDigest) |

Runs that TLC refutes, each a sentence of the code's own docs that the code does not keep
(`PROJECT.json` findings quote them):

| Run | Sentence | What happens |
|---|---|---|
| `fault` | "not yet anchored - try again shortly" | one failed await loses the leaf for good: the batch is in no builder, or the retry is a duplicate |
| `supersede_score` | "never fabricate a trust_score from an incomplete metric set" | reconstruct stops at the first supersession; that of a second metric is not read, and the metric is scored |
| `bus_order` | "all events for one decision land on one partition and are processed in order" | a partition belongs to one topic, and each topic has a consumer of its own: a later event on another topic is appended first |

Smaller disagreements of the same kind, each a property with a configuration that refutes it
(`tlc -config X.cfg M`):

| Property, configuration, module | Sentence | What happens |
|---|---|---|
| `FlushOnShutdown`, `MCFlush.cfg`, `MCCoreService` | "flush on shutdown, don't lose a partial batch" (`api/main.py:120`) | the cancelled loop had already emptied the builder; or a bus handler commits during the flush |
| `ProofArrivesShortly`, `MCGrpc.cfg`, `MCCoreService` | as `fault`, with "the SAME application-layer objects" (`grpc_transport/server.py:3`) | the gRPC process has a builder of its own that nothing closes |
| `KeepsConsuming`, `MCBusPoison.cfg`, `MCKafkaEventBus` | "log and keep consuming" (`infrastructure/kafka_adapter.py:68`) | a value that is not JSON ends the loop, and the partitions stay with the dead consumer |
| `FailureIsTsaError`, `MCLeapSecond.cfg`, `MCRfc3161` | "Raised when the TSA reports a failure or its response is invalid" (`infrastructure/rfc3161_client.py:49`) | a time with second 60, or another field out of range, raises ValueError instead |
| `EvidenceIsKnown`, `MCEvidence.cfg`, `MCScoreboard` | "Reconstructs known evidence for a decision from EvidenceAttached events" (`application/evidence_registry.py:3`) | the registration is behind the loop: only the last event is registered |
| `ReadsExtend`, `MCPostgresReplay.cfg`, `MCPostgresAuditTrail` | "Ordered, replayable event stream" (`interfaces/audit_trail.py:45`) | an append that drew its seq first and committed last appears in front of events already read |
| `CurrentStateIsShown`, `MCSupersede.cfg`, `MCScoreboard` | "makes the *current* read state reflect the supersession" (`application/command_handler.py:182`) | a commit after a supersession is not read |
| `ReplayIsDeterministic`, `MCReplayTwice.cfg`, `MCScoreboard` | "run twice against the same event log must produce byte-identical ScoreboardState" (`application/scoreboard_projector.py:16`) | for an unconfigured decision the two queries require different metrics and write the same row |
| `BelowApprovalRejects`, `MCThreshold.cfg`, `MCScoreboard` | "REJECT if score < 0.7" (`application/policy_evaluator.py:21`) | between 0.5 and 0.7 the verdict is MANUAL_REVIEW |
| `StagingSurvivesRestart`, `MCStaging.cfg`, `MCCoreService` | "rebuilt from AuditTrail on startup" (`application/command_handler.py:68`) | it starts empty |
| `LifecycleMovesForward`, `MCLifecycle.cfg`, `MCCommandHandler` | "PROPOSED -> ... -> COMMITTED/REJECTED" (`application/command_handler.py:3`) | a late event moves a committed metric back |

`ScoreNeedsCommits` and `NoScoreFromIncomplete` are two sides of I4: with at most one supersession
in the stream a score implies that every required metric is committed (`scoreboard`), with two it
does not (`supersede_score`).

Every property of a passing run has a mutant in `PROJECT.json`: a definition with a plausible bug
that makes the run fail.

## 4. Bounds

* `MaxTime`, `MaxSeconds`, `MaxLeaves`: batches close at two leaves or after one unit of time, so both
  triggers fire. `Horizon` keeps the last `MaxSeconds` of the clock free of new handlers; without it
  the bounded clock could stop before a batch is old enough.
* `MaxFaults` = 1: failed awaits and crashes. One is enough for every finding; the surviving
  properties hold for each place at which it may strike.
* `MaxStops` = 1: one shutdown, followed by any number of starts.
* Tasks: three make a retry race a retry and another decision share the batch.
* `MaxBatch` = 6 covers full, odd and twice-odd levels (1, 2, 3, 4, 5 and 6 leaves).
* `MaxEvents` = 3: two required metrics are committed and one more event strikes, or one metric is
  committed, superseded and committed again. The run has a configured decision only; without
  required metrics is_ready_to_publish and the gate say nothing, and the two defaults are the subject of
  `MCReplayTwice.cfg`.
* `MaxPublished` = 2, `MaxFaults` = 2 in `bus`: a message behind another one, with a crash and a
  rebalance, or one of them twice. The group starts new or with a committed offset. One partition, so
  that both messages meet; `MCBusPartitions.cfg` has two, and one failure (passes).
* `MaxRequests` = 2 in `timestamp`: a second call can be handed the answer to the first one, for the
  same or for another digest. Digests have 3 bytes instead of 32; the lengths 127, 128 and 256 that
  change the form of the encoding are reached through the text of the status.
* `MaxInt` = 2^31 - 1 bounds the integers of the codec and the length of a TLV, `MaxField` = 2^24 the
  length of a digest, a text and a time, so that a whole answer stays below `MaxInt`. The proofs use
  these bounds, and nothing smaller.
* `MaxLost` = 1, `PoolSize` = 2: fewer connections than the three callers.
* `SYMMETRY` is used only over tasks and clients, and only in runs without liveness properties.
* `CHECK_DEADLOCK FALSE` everywhere: a bounded number of tasks ends, and then nothing is left to do.

## 5. Fairness

Weak fairness of each handler's and each worker's next step (the event loop runs what is ready and
nothing in the code holds it), of the closer loop's round and of the end of a shutdown, and of the
clock. Nothing makes messages arrive, awaits fail, processes stop or start. In `PostgresAuditTrail`,
weak fairness of each call's next step: the pool hands out connections to its waiters and the server
answers on a connection that lives. In `KafkaEventBus`, weak fairness of each consumer's
subscription and of its loop's next step, of the group giving a partition without an owner to a
member, and of the restart of a process that ended. The last one is a supervisor's work and an
assumption about the deployment: `docker-compose.yml` has no `restart:` policy for core-api. Rebalances and failures are not
fair. The liveness runs set the number of failures to zero where the
property is about an undisturbed deployment (`anchored_eventually`, `MCGrpc.cfg`), and to one or two where failures
are the question (`fault`, `postgres_trail`, `bus`).

## 6. What is proved

Eight modules hold theorems. Each is about the specification as the runs use it, for any sets of
processes, tasks, clients, decisions, keys, messages and leaves, and any thresholds and bounds. Every
run property named below is checked by TLC on its instance and stated by the theorem in general.

Assumptions: only those on the constants, named in the modules that declare them. Messages and
events are well formed, `NoKey`, `NoLeaf`, `NoMessage`, `Nobody` and `System` are not a key, a leaf,
a message, a process or a decision, the API processes are processes, bounds are natural numbers, and
in `KafkaEventBus` a task is a pair of an API process and a topic. In `Scoreboard` the value of an
event is a number or a text, its severity a number, and the required metrics are a finite set. In `Rfc3161` digests
and times are bytes up to `MaxField` long, nonces are between 1 and `MaxInt`, a status is one of the
six of RFC 3161, and the network may take away or add any number of bytes. SHA-256 is injective because
`Merkle` writes a digest as the term it is made of.

### Handlers (`CommandHandlerProofs`, of `CHSpec`)

| Theorem | Property |
|---|---|
| `TypeCorrect` | `CHTypeOK` |
| `Evidenced` | `CommitsAreEvidenced` |
| `AcceptedAtMostOnce` | `AcceptedOnce` |
| `BuildersHoldTrail` | `BuildersMatchTrail` |
| `CommitsNotForgotten` | `NoCommitForgotten` |
| `DuplicatesHaveOriginals` | `DuplicateHasOriginal` |

`CHTypeOK` alone is not inductive: what `FinishCommit` puts into the builder is well formed only if
the event the task holds is. `TypeInv` adds `TasksWellFormed`: a running task holds an event, and if
that is a commit, its leaf is the hash of the task's own message, with evidence. `AnswerInv` adds that
no key is in the trail twice, which rests on the append being atomic in the key, that a task with an answer has ended and that
a task whose append was not deduplicated owns the event its result names; two accepted tasks with
one key would own two events with one key. `OwnerInv` carries this over the await: the *owner* of a
commit, between the append and the builder, still knows what it appended. `BuilderInv` then says
that entries match the trail, that no two places hold one event, that what is owned has not been
filed, and that without a failure every commit is filed or owned. `DuplicateInv` says who may hold a
key at all (commits and supersessions), which is why a rejection never makes a duplicate.

### Audit trail adapters (`PostgresAuditTrailProofs` of `PgSpec`, `AdapterProofs` of `MemSpec`)

| Theorem | Property |
|---|---|
| `PgInvariant` | `PgInv`, the inductive invariant |
| `ResultsNameRows` | `ResultNamesRow` |
| `OneWinner` | `OneWinnerPerKey` |
| `ReplayInCallOrder` | `ReplayKeepsCallOrder` |
| `PostgresImplementsPort` | `ImplementsPort`, a refinement of `AuditTrail!Spec` |
| `MemInvariant` | `MemInv`, the inductive invariant |
| `MemoryImplementsPort` | `ImplementsPort`, a refinement of `AuditTrail!Spec` |
| `MemoryViewsMatch` | `ViewsMatchLog` |

`PgInv`: a number of the BIGSERIAL column is drawn once, the UNIQUE key holds over committed rows,
and `ClientKnows` says for each place in `append()` whether its row is in the table: not before the
commit, certainly after it, and after a `UniqueViolationError` somebody else's row with the key. The
refinement follows row by row: only `Commit` adds to the trail, under a fresh key, and a call that
fails or is deduplicated is a stutter of the port. `ReplayInCallOrder` needs two more facts
(`ReplayInv`): a read is sorted by number, because among rows with distinct numbers every rank is taken
once (a pigeonhole argument), and a call that began after another had returned draws the higher
number. `MemInv` says that the key index is the inverse of
the log's keys and that each per-decision list is the ascending list of its positions. What
`read_unbatched` returns is a fold over the log, and the views' theorem goes through its turns by
induction over a set of naturals.

### Merkle tree (`MerkleProofs`, `MerkleBatchProofs` of `BatchSpec`)

| Theorem | States |
|---|---|
| `ProofVerifies` | `proof_for` and `verify_inclusion_proof` meet at the root, for every size and position |
| `ProofBinds` | a proof that verifies for two digests verifies for one: they are equal |
| `RootAndCountBind` | two batches with one root and one leaf_count are equal |
| `BatchInvariant` | `BatchInv`: a closed batch holds the levels of all of its leaves |
| `ProofsVerify` | `EveryProofVerifies` |
| `ProofsBind` | `ProofBindsLeaf` |
| `RootIsReference` | `RootMatchesReference` |
| `RootAndCountDetermine` | `RootDeterminesBatch` |

The library's induction theorems take an operator, which the provers cannot instantiate.
`SetInduction` takes a set instead: a set of naturals with 0 and the successors of its members is
`Nat`, which follows from the least element of a set. With it the recursive functions of `Merkle` get
their equations, and each loop its invariant: a round halves a level rounding up (`close()` ends, with
one node); at level h the index of `proof_for` is the place of the leaf's ancestor, and the digest
`verify_inclusion_proof` has computed is that ancestor, next to the padding too. For
`RootAndCountBind` a level is read back from the one above, where the length says whether the last
node is padding; without the count it would be false. For `RootIsReference` a round of `close()` and
the halving of a power of two keep their comparison, so the loop stops at the least height that covers
the leaves, and by induction over the levels a node is the reference node at its place.
`RootAndCountDetermine` is the way down: from the root it passes the ancestors of the leaf.

### Deployment (`CoreServiceProofs`, of `ServiceSpec`)

| Theorem | Property |
|---|---|
| `ServiceInvariant` | `ServiceInv`, the inductive invariant |
| `HandlersInService` | the handlers' `CHTypeOK`, `CommitsAreEvidenced`, `AcceptedOnce`, now with crashes and restarts |
| `LeavesHeldOnce` | `LeafHeldOnce` |
| `RootsComplete` | `RootCountsRows` |
| `MarkedIsProvable` | `BatchedIsProvable` |
| `RowsAreProofs` | `ProofRowsVerify` |
| `LeavesNotLost` | `NoLeafLost` |
| `ProofsStay` | `ProofsArePermanent`, an action property |
| `ServiceUsesTrail` | `UsesAuditTrail`, a refinement of `AuditTrail!Spec` |

`ServiceInv` has three parts. `HandlerInv` is the handlers' invariant again, kept by steps the handlers
do not know of. `HoldInv`: open batches and the batches of the two kinds of worker hold distinct
leaves, none of them still owned by a task, and what is open has no row. `AnchorInv` follows a worker
through `_close_and_anchor`: of its batch exactly the first `aidx` leaves have a row, with its batch
id and root; no root event of its batch is in the trail before the rows are complete; batch ids are not
shared. A crash in the middle leaves rows without a root, never a root without its rows. `RowsAreProofs`
combines it with `ProofVerifies`.

### Read side (`ScoreboardProofs`, of `SbSpec`)

| Theorem | Property |
|---|---|
| `ScoreboardInvariant` | `SbInv`, the inductive invariant |
| `GateNeedsCommits` | `ScoreNeedsCommits` |
| `CommitsStay` | `CommitsStayShown` |
| `ReadyStays` | `ReadyIsStable`, an action property |
| `RiskLowers` | `RiskOnlyLowers`, an action property |

The replay is proved about first, as an operator on streams: it reads up to the first supersession that
counts, and a record is COMMITTED only if it comes from a commit. `GateNeedsCommits` follows for every
stream. An event that appears in the middle *shifts* the ones behind it (`Shift`, `ShiftFacts`): a longer
stream holds the shorter one in the same order, so the events of a metric, the supersessions and the last
event of each kind are found again at their shifted places (`OfMetricShifted`, `SupersessionsShifted`).
`ReadyStays` is this argument for the metrics that have a record.

`CommitsStayShown` is not inductive: a query that has read and not yet stored holds an old stream.
`SbInv` adds that what such a query has read are events of the stream, perhaps not the first ones
(`OfStream`), and that the stored row and every answer show commits of the stream only (`ShowsCommits`).
While no supersession counts, reconstruct reads the whole stream, and of the commits of a metric the
record is the last in the order of seq: the one that was shown, or one further on. For `RiskLowers` the penalty
is unfolded for one signal more, anywhere in the stream, which adds something
that is not negative; the mean over the metrics does not depend on the signals; and the clamp and the
thresholds of the verdict are monotone.

### Kafka bus (`KafkaEventBusProofs`, of `KafkaSpec`)

| Theorem | Property |
|---|---|
| `BusInvariant` | `BusInv`, the inductive invariant |
| `CommittedIsDurable` | `OffsetIsDurable` |
| `OrderWithinPartition` | `PartitionInOrder` |
| `RepeatsBounded` | `RepeatsNeedFailures` |

`OffsetIsDurable` is not inductive: `commit()` commits the position of partitions the consumer still
owns, not the message it handled. `BusInv` adds `Covered` (what the owner of a partition has taken is
through, but for the message it is handling now) and `TasksKnow` (how far the handler of a message has
come and what is in the trail by then, and that every earlier message of its partition is recorded or
excused, also for a consumer that has lost the partition meanwhile).

`RepeatsNeedFailures` needs two tallies. Per partition (`RepeatInv`), over the well-formed messages:
events in the trail, plus handlers that are about to append their first event, plus messages that may be
delivered once more, are no more than the messages begun plus the failures. A delivery begins a message or
uses up one of its repetitions; an append turns a handler into an event; a failed handler, a failed
`commit()`, a rebalance or the end of a process makes at most one message per partition repeatable, and is
one failure; a committed offset takes repetitions away. A payload that raises after its append is never
committed on its own, and a partition with several of them repeats them all for one failure, so they are not
in this tally. For these, and for every other message, `OnceInv` counts one message alone: its copies, the
handlers about to append it and a delivery that is still due are no more than one plus the failures.
`BusInv`, `RepeatInv` and `OnceInv` were checked by TLC on the instance of `bus`.

### Timestamps (`AdapterProofs`, of `RfcSpec`)

| Theorem | Property |
|---|---|
| `TokenIsForCall` | `TokenAnswersCall` |
| `IntactGrantIsTaken` | `GrantIsAccepted` |
| `VerifyIsForDigest` | `VerifyBindsDigest` |

First the codec, on all bytes within the bounds. A number is read back from its digits in base 256, and
an arc of an object identifier from its groups of seven bits. `ParseAll` reads a message in terms of
shorter ones, so it is well defined, by strong induction over the length. `Reads(b, nd, k)` says that b
is a TLV of at most k bytes which is read as node nd *whatever comes after it*; `Lists` says the same of
several. Both are closed under the encoders (`LeafReads`, `SequenceReads`, `ExplicitReads`, `ListsAppend`),
so the messages follow from the inside to the outside: `RequestReads` (the TSA finds the digest and the
nonce), `TstReads` with every choice of optional fields, `TokenReads`, `StatusReads`, `EncodedReads`. In
the other direction a TLV that lost bytes announces more than there is, and one that gained bytes has
some left over: `DamageRaises`. Together (`ResponseReads`) an intact answer is read as itself when its
time is ASCII, and every other one raises; `AcceptReads` and `VerifyReads` say what `timestamp` and `verify` make of it.

Then the protocol. `TokenAnswersCall` is not inductive: nothing in it says that an answer with the nonce
of the waiting call is an answer to it. `RfcInv` adds that each answer echoes a nonce that was drawn, and
that while a call waits the answers to it are exactly those with its nonce, for its digest. The client
relies on this, and on drawing no nonce twice. `RfcInv` was checked by TLC on the instance of `timestamp`
before it was proved.

## 7. What is only model-checked

* Liveness: `EventuallyAnchored`, `EveryAppendReturns`, `EveryMessageSettled` and the
  like. Fairness and ENABLED are outside the prover's reach.
* The configurations of section 3 that TLC refutes.

Every other invariant and action property of a passing run is stated by a theorem.

## 8. What is not modelled

* Ed25519. A signature stands behind the batch id. That each start generates a new key under the same
  key id (`api/deps.py:106`) is a listed hazard.
* Event dispatcher: not constructed by the application, which routes topics in `api/main.py`. (For a
  payload without a route its log says "storing as opaque", and it returns without storing.)
* In-memory event bus: calls its subscribers inside publish; nothing in the application publishes.
* `Rfc3161HttpTsa`, a stub whose verify is not implemented, and `MemoryTsa`. Of the real client, the
  choice of a proxy and of a connection: an exchange returns bytes or raises.
* `read_unbatched` of Postgres, `get_many`, `active_only`, `has_critical`: called by nothing.
* Environment variables, request marshalling, logging, tracing, generated stubs, the schema migration.

## 9. Plan

Done, in this order: trail and handler, Merkle tree, anchor service, composition with process life,
both adapters, read side; the Kafka bus composed with the handlers; the timestamp client and its codec;
payload validation, completion criteria and evidence registry; proofs about the handlers, the adapters,
the Merkle tree, the deployment, the read side, the bus and the timestamp client.

Next, in the model: signing keys per life of a process, and the verification of a root after a restart.
