-------------------------- MODULE MerkleAnchorService --------------------------
(***************************************************************************)
(* src/application/merkle_anchor_service.py.  A worker is one activation   *)
(* of _close_and_anchor: the closer loop of a process ("loop") or the      *)
(* flush of its shutdown ("flush").  Each await is one step:               *)
(*   "stamp"  the TSA is asked for a token                                 *)
(*   "store"  proof rows are written one leaf at a time                    *)
(*   "root"   MerkleRootPublished goes under "system", then under every    *)
(*            decision of the batch                                        *)
(*   "mark"   the batch's events are marked                                *)
(* The Ed25519 signature and the TSA token are fixed by the root and stand *)
(* behind the batch id.                                                    *)
(***************************************************************************)
EXTENDS CoreState, Merkle

VARIABLES
  apc,              \* control state of each worker
  abatch,           \* pending: the leaves of the batch it closed
  aid,              \* batch_id
  aidx,             \* leaves whose proof row is written
  atodo,            \* decisions whose root event is still to be appended
  store,            \* the merkle_proof: rows of the projection store, by leaf
  batches           \* batch ids given out so far (uuid4)

anchorVars == <<apc, abatch, aid, aidx, atodo, store, batches>>

Worker == Proc \X {"loop", "flush"}

AnchorInit ==
  /\ apc = [w \in Worker |-> "idle"]
  /\ abatch = [w \in Worker |-> <<>>]
  /\ aid = [w \in Worker |-> 0]
  /\ aidx = [w \in Worker |-> 0]
  /\ atodo = [w \in Worker |-> {}]
  /\ store = <<>>
  /\ batches = 0

BatchLevels(leaves) == Levels([i \in DOMAIN leaves |-> LeafNode(leaves[i].leaf_hash)])

DecisionsOf(leaves) == {leaves[i].decision_id : i \in DOMAIN leaves}

Row(leaves, i, id) ==
  LET levels == BatchLevels(leaves) IN
    [proof_path |-> ProofFor(levels, i), root |-> RootOf(levels), batch_id |-> id]

-------------------------------------------------------------------------------
\* Mutants of LastRow and Remaining.
LastRowEarly(w, i) == i >= Len(abatch[w]) - 1
NoneRemaining(w, d) == {}

\* close_and_reset and the local state of _close_and_anchor up to its first await.
CloseBatch(w) ==
  /\ abatch' = [abatch EXCEPT ![w] = pending[w[1]]]
  /\ batches' = batches + 1
  /\ aid' = [aid EXCEPT ![w] = batches + 1]
  /\ aidx' = [aidx EXCEPT ![w] = 0]
  /\ apc' = [apc EXCEPT ![w] = "stamp"]
  /\ ResetBuilder(w[1])

\* One round of _merkle_closer_loop; only api/main.py starts it.
MaybeCloseAndAnchor(p) ==
  /\ p \in Api /\ life[p] = "up"
  /\ apc[<<p, "loop">>] = "idle"
  /\ ShouldClose(p)
  /\ CloseBatch(<<p, "loop">>)
  /\ UNCHANGED <<trail, batched, life, now, faults, atodo, store>>

Timestamp(w) ==
  /\ apc[w] = "stamp"
  /\ apc' = [apc EXCEPT ![w] = "store"]
  /\ UNCHANGED <<coreVars, abatch, aid, aidx, atodo, store, batches>>

LastRow(w, i) == i = Len(abatch[w])

StoreProof(w) ==
  /\ apc[w] = "store"
  /\ LET i == aidx[w] + 1
         l == abatch[w][i].leaf_hash
     IN  /\ store' = [x \in DOMAIN store \cup {l} |->
                        IF x = l THEN Row(abatch[w], i, aid[w]) ELSE store[x]]
         /\ aidx' = [aidx EXCEPT ![w] = i]
         /\ apc' = [apc EXCEPT ![w] = IF LastRow(w, i) THEN "root" ELSE "store"]
  /\ UNCHANGED <<coreVars, abatch, aid, atodo, batches>>

\* The "system" event comes first.
PublishSystem(w) ==
  /\ apc[w] = "root" /\ atodo[w] = {}
  /\ AppendEvent(RootEvent(System, aid[w], Len(abatch[w])))
  /\ atodo' = [atodo EXCEPT ![w] = DecisionsOf(abatch[w])]
  /\ apc' = [apc EXCEPT ![w] = "decisions"]
  /\ UNCHANGED <<batched, pending, first_leaf_ts, life, now, faults,
                 abatch, aid, aidx, store, batches>>

Remaining(w, d) == atodo[w] \ {d}

\* Then one per decision.  The code goes in sorted order; here in any order.
PublishDecision(w) ==
  /\ apc[w] = "decisions"
  /\ \E d \in atodo[w] :
       /\ AppendEvent(RootEvent(d, aid[w], Len(abatch[w])))
       /\ atodo' = [atodo EXCEPT ![w] = Remaining(w, d)]
       /\ apc' = [apc EXCEPT ![w] = IF Remaining(w, d) = {} THEN "mark" ELSE "decisions"]
  /\ UNCHANGED <<batched, pending, first_leaf_ts, life, now, faults,
                 abatch, aid, aidx, store, batches>>

\* The local variables of the activation are gone when it ends.
Forget(w) ==
  /\ apc' = [apc EXCEPT ![w] = "idle"]
  /\ abatch' = [abatch EXCEPT ![w] = <<>>]
  /\ aid' = [aid EXCEPT ![w] = 0]
  /\ aidx' = [aidx EXCEPT ![w] = 0]
  /\ atodo' = [atodo EXCEPT ![w] = {}]

MarkStep(w) ==
  /\ apc[w] = "mark"
  /\ MarkBatched({abatch[w][i].event_id : i \in DOMAIN abatch[w]})
  /\ Forget(w)
  /\ UNCHANGED <<trail, pending, first_leaf_ts, life, now, faults, store, batches>>

\* Any await of _close_and_anchor raises.  The loop logs it and goes on; the batch
\* is in no builder any more.
AnchorFails(w) ==
  /\ apc[w] # "idle"
  /\ Fault
  /\ Forget(w)
  /\ UNCHANGED <<trail, batched, pending, first_leaf_ts, life, now, store, batches>>

AnchorStep(w) ==
  \/ Timestamp(w)
  \/ StoreProof(w)
  \/ PublishSystem(w)
  \/ PublishDecision(w)
  \/ MarkStep(w)

===============================================================================
