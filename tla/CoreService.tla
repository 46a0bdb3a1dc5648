------------------------------ MODULE CoreService ------------------------------
(***************************************************************************)
(* The processes of one deployment: command handlers (REST, bus, gRPC) and *)
(* the anchor service, over the shared trail and projection store, with    *)
(* the lifecycle of src/api/main.py (lifespan, closer loop, shutdown) and  *)
(* of src/grpc_transport/server.py (no closer loop, no shutdown hook).     *)
(***************************************************************************)
EXTENDS CommandHandler, MerkleAnchorService

CONSTANT MaxStops             \* bound: graceful shutdowns

ASSUME MaxStopsAssumption == MaxStops \in Nat

VARIABLE stops

vars == <<coreVars, handlerVars, anchorVars, stops>>

ServiceInit == CHInit /\ AnchorInit /\ stops = 0

-------------------------------------------------------------------------------
\* What a process that ends loses: its builder, its staging area, its workers and
\* the handlers it was running.
Vanish(p) ==
  /\ life' = [life EXCEPT ![p] = "down"]
  /\ ResetBuilder(p)
  /\ staging' = [staging EXCEPT ![p] = [k \in Decision \X Metric |-> "none"]]
  /\ pc' = [t \in Task |-> IF home[t] = p /\ Running(t) THEN "failed" ELSE pc[t]]
  /\ apc' = [w \in Worker |-> IF w[1] = p THEN "idle" ELSE apc[w]]
  /\ abatch' = [w \in Worker |-> IF w[1] = p THEN <<>> ELSE abatch[w]]
  /\ aid' = [w \in Worker |-> IF w[1] = p THEN 0 ELSE aid[w]]
  /\ aidx' = [w \in Worker |-> IF w[1] = p THEN 0 ELSE aidx[w]]
  /\ atodo' = [w \in Worker |-> IF w[1] = p THEN {} ELSE atodo[w]]
  /\ UNCHANGED <<trail, batched, now, home, msg, out, res, reply, store, batches>>

\* The finally block of lifespan up to its first await: the loop is cancelled where
\* it stands, and force_close takes what the builder holds.  The HTTP server ends
\* its requests before it runs the block; bus consumers are still running.
Shutdown(p) ==
  /\ p \in Api /\ life[p] = "up"
  /\ stops < MaxStops /\ stops' = stops + 1
  /\ \A t \in Task : home[t] = p /\ Running(t) => msg[t].kind # "UpdateMetric"
  /\ life' = [life EXCEPT ![p] = "stopping"]
  /\ LET loop == <<p, "loop">>
         flush == <<p, "flush">>
     IN  /\ apc' = [apc EXCEPT ![loop] = "idle",
                               ![flush] = IF HasPending(p) THEN "stamp" ELSE "idle"]
         /\ abatch' = [abatch EXCEPT ![loop] = <<>>, ![flush] = pending[p]]
         /\ aid' = [aid EXCEPT ![loop] = 0,
                               ![flush] = IF HasPending(p) THEN batches + 1 ELSE 0]
         /\ aidx' = [aidx EXCEPT ![loop] = 0]
         /\ atodo' = [atodo EXCEPT ![loop] = {}]
         /\ batches' = IF HasPending(p) THEN batches + 1 ELSE batches
  /\ ResetBuilder(p)
  /\ UNCHANGED <<trail, batched, now, faults, handlerVars, store>>

\* event_bus.stop() and the end of the process, once the flush is over or has raised.
StopBus(p) ==
  /\ life[p] = "stopping"
  /\ apc[<<p, "flush">>] = "idle"
  /\ Vanish(p)
  /\ UNCHANGED <<faults, stops>>

Crash(p) == life[p] # "down" /\ Fault /\ Vanish(p) /\ UNCHANGED stops

\* build_app_state: a new builder and an empty staging area.
Start(p) ==
  /\ life[p] = "down"
  /\ life' = [life EXCEPT ![p] = "up"]
  /\ UNCHANGED <<trail, batched, pending, first_leaf_ts, now, faults,
                 handlerVars, anchorVars, stops>>

-------------------------------------------------------------------------------
HandlerStep(t) == Progress(t) /\ UNCHANGED <<anchorVars, stops>>

Closer(p) == MaybeCloseAndAnchor(p) /\ UNCHANGED <<handlerVars, stops>>

WorkerStep(w) == AnchorStep(w) /\ UNCHANGED <<handlerVars, stops>>

ServiceTick == CHTick /\ UNCHANGED <<anchorVars, stops>>

Environment ==
  \/ \E t \in Task : /\ \/ \E p \in Proc, m \in Message : Arrival(t, p, m)
                        \/ AppendFails(t)
                     /\ UNCHANGED <<anchorVars, stops>>
  \/ \E w \in Worker : AnchorFails(w) /\ UNCHANGED <<handlerVars, stops>>
  \/ \E p \in Proc : Shutdown(p) \/ Crash(p) \/ Start(p)

ServiceNext ==
  \/ \E t \in Task : HandlerStep(t)
  \/ \E p \in Proc : Closer(p) \/ StopBus(p)
  \/ \E w \in Worker : WorkerStep(w)
  \/ ServiceTick
  \/ Environment

\* Every coroutine that can run is run, and time passes.  Nothing makes messages
\* arrive, awaits fail or processes stop.
Fairness ==
  /\ \A t \in Task : WF_vars(HandlerStep(t))
  /\ \A p \in Proc : WF_vars(Closer(p)) /\ WF_vars(StopBus(p))
  /\ \A w \in Worker : WF_vars(WorkerStep(w))
  /\ WF_vars(ServiceTick)

ServiceSpec == ServiceInit /\ [][ServiceNext]_vars /\ Fairness

-------------------------------------------------------------------------------
Anchored(l) == l \in DOMAIN store

(* I9 with I6: a proof row vouches for a leaf that was committed, verifies *)
(* against its own root, and rows of one batch agree on that root.         *)
ProofRowsVerify ==
  \A l \in DOMAIN store :
    /\ \E i \in Committed : trail[i].leaf = l
    /\ Verify(LeafNode(l), store[l].proof_path, store[l].root)
    /\ \A k \in DOMAIN store :
         store[k].batch_id = store[l].batch_id => store[k].root = store[l].root

(* A published root is complete: when a MerkleRootPublished is in the      *)
(* trail, its leaf_count proof rows are readable, crashes included.        *)
RootCountsRows ==
  \A i \in DOMAIN trail : trail[i].type = "MerkleRootPublished" =>
    Cardinality({l \in DOMAIN store : store[l].batch_id = trail[i].batch}) = trail[i].leaf_count

(* An event marked as batched is a commit whose proof is readable and      *)
(* whose root was published for its own decision and under "system".       *)
BatchedIsProvable ==
  \A i \in batched :
    /\ i \in Committed /\ Anchored(trail[i].leaf)
    /\ \A d \in {System, trail[i].decision} :
         \E j \in DOMAIN trail :
           /\ trail[j].type = "MerkleRootPublished"
           /\ trail[j].decision = d
           /\ trail[j].batch = store[trail[i].leaf].batch_id

\* The places that hold committed event i: an open batch, or a batch being anchored.
HeldAt(place, p) == IF place = "open" THEN pending[p] ELSE abatch[<<p, place>>]
Holders(i) ==
  {h \in {"open", "loop", "flush"} \X Proc \X (1..Len(trail)) :
     /\ h[3] \in DOMAIN HeldAt(h[1], h[2])
     /\ HeldAt(h[1], h[2])[h[3]].event_id = i}

(* I6: redelivery, failover to another process and the flush that overlaps *)
(* the closer loop never put one leaf in two batches.                      *)
LeafHeldOnce ==
  /\ \A i \in DOMAIN trail : Cardinality(Holders(i)) <= 1
  /\ \A p \in Proc : \A n \in DOMAIN pending[p] : ~Anchored(pending[p][n].leaf_hash)

(* While no await fails and no process stops, a durable commit is always   *)
(* somewhere on its way to a proof row.                                    *)
NoLeafLost ==
  faults = 0 /\ stops = 0 =>
    \A i \in Committed :
      \/ Anchored(trail[i].leaf)
      \/ Holders(i) # {}
      \/ \E t \in Task : pc[t] = "appended" /\ out[t] = trail[i]

(* I7: a proof row, once readable, is never rewritten, and an event once   *)
(* marked stays marked.                                                    *)
ProofsArePermanent ==
  [][/\ \A l \in DOMAIN store : Anchored(l)' /\ store'[l] = store[l]
     /\ batched \subseteq batched']_vars

(* The deployment uses its trail as the port allows.                       *)
Trail == INSTANCE AuditTrail
UsesAuditTrail == Trail!Spec

-------------------------------------------------------------------------------
CommittedKey(k) == \E i \in Committed : trail[i].key = k
AnchoredKey(k) == \E i \in Committed : trail[i].key = k /\ Anchored(trail[i].leaf)
BatchedKey(k) == \E i \in Committed \cap batched : trail[i].key = k

(* "leaf committed but not yet anchored - try again shortly" (api/main.py  *)
(* get_merkle_proof): a client that keeps asking gets its proof, and the   *)
(* event is marked as batched.                                             *)
EventuallyAnchored == \A k \in Key : CommittedKey(k) ~> AnchoredKey(k) /\ BatchedKey(k)

(* The weaker promise of that line alone, for every way to commit.         *)
ProofArrivesShortly == \A k \in Key : CommittedKey(k) ~> AnchoredKey(k)

(* "flush on shutdown, don't lose a partial batch" (api/main.py lifespan): *)
(* no process that was stopped, with every await a success, leaves behind  *)
(* a leaf that it acknowledged and never anchored.                         *)
FlushOnShutdown ==
  \A p \in Proc : life[p] = "down" /\ faults = 0 =>
    \A t \in Task : home[t] = p /\ reply[t] = "ACCEPTED" => Anchored(out[t].leaf)

(* "It is rebuilt from AuditTrail on startup" (command_handler.py, of      *)
(* _staging): a process that is up knows the metrics proposed to it.       *)
StagingSurvivesRestart ==
  \A t \in Task :
    reply[t] = "ok" /\ msg[t].kind = "MetricProposed" /\ life[home[t]] = "up"
      => staging[home[t]][<<msg[t].decision, msg[t].metric>>] # "none"
===============================================================================
