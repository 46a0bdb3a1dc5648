--------------------------- MODULE CoreServiceProofs ---------------------------
(***************************************************************************)
(* Proofs about CoreService, for any number of processes, workers, tasks   *)
(* and batches, with crashes, restarts, shutdowns and failed awaits.       *)
(***************************************************************************)
EXTENDS CoreService, CommandHandlerProofs, MerkleProofs

\* The handlers' side: what CommandHandlerProofs shows of it, with I3 in it because
\* a leaf names its event only through the key the leaf carries.
HandlerInv == OwnerInv /\ CommitsAreEvidenced /\ NoRoots

AnchorTypeOK ==
  /\ apc \in [Worker -> {"idle", "stamp", "store", "root", "decisions", "mark"}]
  /\ abatch \in [Worker -> Seq(PendingLeaf)]
  /\ aid \in [Worker -> Nat] /\ aidx \in [Worker -> Nat]
  /\ atodo \in [Worker -> SUBSET Decision]
  /\ batches \in Nat /\ stops \in Nat

\* Each place that holds leaves: the open batch of a process and its two workers.
Place == {"open", "loop", "flush"}

HeldMatch ==
  \A k \in Place, p \in Proc : \A n \in DOMAIN HeldAt(k, p) : Matches(HeldAt(k, p)[n])

HeldDistinct ==
  \A j, k \in Place, p, q \in Proc : \A m \in DOMAIN HeldAt(j, p), n \in DOMAIN HeldAt(k, q) :
    HeldAt(j, p)[m].event_id = HeldAt(k, q)[n].event_id => j = k /\ p = q /\ m = n

\* What a task still owns is in no batch and has no proof row.
OwnersHeldNowhere ==
  \A t \in Task : Owner(t) =>
    /\ ~Anchored(out[t].leaf)
    /\ \A k \in Place, p \in Proc : \A n \in DOMAIN HeldAt(k, p) :
         HeldAt(k, p)[n].event_id # res[t].event_id

OpenUnanchored ==
  \A p \in Proc : \A n \in DOMAIN pending[p] : ~Anchored(pending[p][n].leaf_hash)

HoldInv == HeldMatch /\ HeldDistinct /\ OwnersHeldNowhere /\ OpenUnanchored

-------------------------------------------------------------------------------
(* A worker.                                                               *)

IsRoot(e, b) == e.type = "MerkleRootPublished" /\ e.batch = b

Published(d, b) == \E j \in DOMAIN trail : IsRoot(trail[j], b) /\ trail[j].decision = d

\* Where the activation is, and what it has to do yet.
WorkerControl(w) ==
  /\ apc[w] = "idle" => abatch[w] = <<>> /\ aid[w] = 0 /\ aidx[w] = 0 /\ atodo[w] = {}
  /\ apc[w] # "idle" => abatch[w] # <<>> /\ aid[w] \in 1..batches
  /\ apc[w] # "idle" /\ w[2] = "flush" => life[w[1]] = "stopping"
  /\ apc[w] = "stamp" => aidx[w] = 0
  /\ apc[w] = "store" => aidx[w] < Len(abatch[w])
  /\ apc[w] \in {"root", "decisions", "mark"} => aidx[w] = Len(abatch[w])
  /\ apc[w] # "decisions" => atodo[w] = {}

\* The rows of its batch are those it has written, and no others.
WorkerRows(w) ==
  /\ \A n \in DOMAIN abatch[w] :
       LET l == abatch[w][n].leaf_hash IN
         IF n <= aidx[w]
           THEN /\ Anchored(l)
                /\ store[l].batch_id = aid[w] /\ store[l].root = RootOf(BatchLevels(abatch[w]))
           ELSE ~Anchored(l)
  /\ apc[w] # "idle" =>
       \A l \in DOMAIN store : store[l].batch_id = aid[w] =>
         \E n \in DOMAIN abatch[w] : n <= aidx[w] /\ l = abatch[w][n].leaf_hash

\* The root events of its batch are those it has published.
WorkerRoots(w) ==
  /\ apc[w] \in {"stamp", "store", "root"} =>
       \A j \in DOMAIN trail : ~IsRoot(trail[j], aid[w])
  /\ apc[w] \in {"decisions", "mark"} =>
       \A d \in {System} \cup (DecisionsOf(abatch[w]) \ atodo[w]) : Published(d, aid[w])

WorkerInv(w) == WorkerControl(w) /\ WorkerRows(w) /\ WorkerRoots(w)

AidsDiffer ==
  \A v, w \in Worker : apc[v] # "idle" /\ apc[w] # "idle" /\ aid[v] = aid[w] => v = w

-------------------------------------------------------------------------------
(* The proof rows and the trail.                                           *)

RowsOf(b) == {l \in DOMAIN store : store[l].batch_id = b}

StoreInv ==
  /\ \A l \in DOMAIN store :
       /\ l \in Leaf
       /\ store[l].batch_id \in 1..batches
       /\ \E i \in Committed : trail[i].leaf = l
  /\ \A k, l \in DOMAIN store : store[k].batch_id = store[l].batch_id => store[k].root = store[l].root

RootsInv ==
  /\ RootCountsRows
  /\ \A i \in DOMAIN trail : trail[i].type = "MerkleRootPublished" => trail[i].batch \in 1..batches

\* While nothing failed or stopped, every commit has its row, is held or is owned.
CommitsReachRows ==
  faults = 0 /\ stops = 0 =>
    /\ \A p \in Proc : life[p] = "up"
    /\ \A i \in Committed :
         \/ Anchored(trail[i].leaf)
         \/ \E k \in Place, p \in Proc : \E n \in DOMAIN HeldAt(k, p) : HeldAt(k, p)[n].event_id = i
         \/ \E t \in Task : Owner(t) /\ res[t].event_id = i

AnchorInv ==
  /\ AnchorTypeOK
  /\ \A w \in Worker : WorkerInv(w)
  /\ AidsDiffer
  /\ StoreInv /\ RootsInv /\ BatchedIsProvable /\ CommitsReachRows

ServiceInv == HandlerInv /\ HoldInv /\ AnchorInv

-------------------------------------------------------------------------------
(* The handlers' side.  A step is one of the handlers', which              *)
(* CommandHandlerProofs covers, or it leaves the tasks alone but for those *)
(* that a process takes with it when it ends.                              *)

Rooted(e) ==
  /\ trail' = Append(trail, e)
  /\ e \in Event /\ e.key = NoKey /\ e.type = "MerkleRootPublished"

TasksLeftAlone ==
  /\ UNCHANGED <<home, msg, out, res, reply>>
  /\ \A t \in Task : pc'[t] = pc[t] \/ (pc'[t] = "failed" /\ Running(t))

(* The handlers never touch what was batched or the life of a process.     *)
LEMMA HandlersLeave ==
  ASSUME [CHNext]_chVars
  PROVE  UNCHANGED <<batched, life>>
<1>1. CASE UNCHANGED chVars
  BY <1>1 DEF chVars, coreVars
<1>2. ASSUME NEW t \in Task, NEW p \in Proc, NEW m \in Message, Arrival(t, p, m)
      PROVE  UNCHANGED <<batched, life>>
  BY <1>2 DEF Arrival, RestUpdateMetric, GrpcUpdateMetric, HandleUpdateMetric,
              OnMetricProposed, OnDebateOutcome, OnRiskSignal,
              OnReconciledDecision, OnRecorded, SupersedeMetric, FromBus, Arrive, coreVars
<1>3. ASSUME NEW t \in Task, Progress(t) \/ AppendFails(t)
      PROVE  UNCHANGED <<batched, life>>
  BY <1>3 DEF Progress, AppendStep, AppendFails, ResumeReconciled, FinishCommit, FinishOther, coreVars
<1>4. CHTick => UNCHANGED <<batched, life>>
  BY DEF CHTick, Tick
<1> QED BY <1>1, <1>2, <1>3, <1>4 DEF CHNext

(* A root event has no key: it is always appended, and uses no key up.     *)
LEMMA RootAppended ==
  ASSUME NEW d \in Decision \cup {System}, NEW b \in Nat, NEW n \in Nat,
         AppendEvent(RootEvent(d, b, n))
  PROVE  /\ Rooted(RootEvent(d, b, n))
         /\ IsRoot(RootEvent(d, b, n), b) /\ RootEvent(d, b, n).decision = d
         /\ RootEvent(d, b, n).leaf_count = n
<1>1. RootEvent(d, b, n) \in Event
  BY DEF RootEvent, Event
<1>2. RootEvent(d, b, n).key = NoKey
  BY DEF RootEvent
<1>3. trail' = Append(trail, RootEvent(d, b, n))
  BY <1>2 DEF AppendEvent, KeyTaken
<1>4. /\ IsRoot(RootEvent(d, b, n), b) /\ RootEvent(d, b, n).decision = d
      /\ RootEvent(d, b, n).leaf_count = n
  BY DEF RootEvent, IsRoot
<1> QED BY <1>1, <1>2, <1>3, <1>4 DEF Rooted, IsRoot

(* A step that leaves the tasks alone keeps the handlers' side.            *)
LEMMA HandlerKept ==
  ASSUME HandlerInv, CHTypeOK', TasksLeftAlone, trail' = trail \/ \E e : Rooted(e)
  PROVE  HandlerInv'
<1>0. /\ TypeInv /\ OneEventPerKey /\ AnswersEnd /\ WinnersOwnEvents /\ OwnersKnow
      /\ CommitsAreEvidenced /\ trail \in Seq(Event)
  BY DEF HandlerInv, OwnerInv, AnswerInv, TypeInv, CHTypeOK, CoreTypeOK
<1>1. UNCHANGED <<home, msg, out, res, reply>> /\ \A t \in Task : Running(t)' => Running(t) /\ pc'[t] = pc[t]
  BY DEF TasksLeftAlone, Running
<1>2. TypeInv'
  BY <1>0, <1>1 DEF TypeInv, TasksWellFormed, WellFormed
<1>3. AnswersEnd'
  BY <1>0 DEF TasksLeftAlone, AnswersEnd, Running
<1>4. \A t \in Task : (Won(t)' => Won(t)) /\ (Owner(t)' => Owner(t))
  BY <1>1 DEF TasksLeftAlone, Won, Owner
<1>5. /\ \A i \in DOMAIN trail : i \in DOMAIN trail' /\ trail'[i] = trail[i]
      /\ \A i \in DOMAIN trail' : i \in DOMAIN trail
                                \/ (trail'[i].key = NoKey /\ trail'[i].type = "MerkleRootPublished")
      /\ Committed' = Committed
  <2>1. CASE trail' = trail
    BY <2>1 DEF Committed
  <2>2. ASSUME NEW e, Rooted(e)
        PROVE  /\ \A i \in DOMAIN trail : i \in DOMAIN trail' /\ trail'[i] = trail[i]
               /\ \A i \in DOMAIN trail' :
                    \/ i \in DOMAIN trail
                    \/ (trail'[i].key = NoKey /\ trail'[i].type = "MerkleRootPublished")
               /\ Committed' = Committed
    BY <1>0, <2>2, TrailGrows DEF Rooted
  <2> QED BY <2>1, <2>2
<1>6. OneEventPerKey'
  BY <1>0, <1>5 DEF OneEventPerKey
<1>7. WinnersOwnEvents'
  <2>1. \A t \in Task : Won(t)' =>
          /\ res'[t].event_id \in Committed'
          /\ trail'[res'[t].event_id].key = msg'[t].key
          /\ msg'[t].key # NoKey
          /\ trail'[res'[t].event_id].leaf
               = compute_leaf_hash(msg'[t], trail'[res'[t].event_id].leaf.at)
    <3> SUFFICES ASSUME NEW t \in Task, Won(t)'
                 PROVE  /\ res'[t].event_id \in Committed'
                        /\ trail'[res'[t].event_id].key = msg'[t].key
                        /\ msg'[t].key # NoKey
                        /\ trail'[res'[t].event_id].leaf
                             = compute_leaf_hash(msg'[t], trail'[res'[t].event_id].leaf.at)
      OBVIOUS
    <3>1. Won(t) /\ res' = res /\ msg' = msg
      BY <1>1, <1>4
    <3>2. res[t].event_id \in Committed /\ res[t].event_id \in DOMAIN trail
      BY <1>0, <3>1 DEF WinnersOwnEvents, Committed
    <3>3. trail'[res[t].event_id] = trail[res[t].event_id]
      BY <1>5, <3>2
    <3> QED BY <1>0, <1>5, <3>1, <3>2, <3>3 DEF WinnersOwnEvents
  <2>2. \A t, u \in Task : Won(t)' /\ Won(u)' /\ res'[t].event_id = res'[u].event_id => t = u
    BY <1>0, <1>1, <1>4 DEF WinnersOwnEvents
  <2> QED BY <2>1, <2>2 DEF WinnersOwnEvents, compute_leaf_hash
<1>8. OwnersKnow'
  <2> SUFFICES ASSUME NEW t \in Task, Owner(t)' PROVE trail'[res'[t].event_id] = out'[t]
    BY DEF OwnersKnow
  <2>1. Owner(t) /\ res' = res /\ out' = out
    BY <1>1, <1>4
  <2>2. res[t].event_id \in DOMAIN trail
    BY <2>1, OwnersDiffer DEF HandlerInv
  <2> QED BY <1>0, <1>5, <2>1, <2>2 DEF OwnersKnow
<1>9. CommitsAreEvidenced'
  <2>1. \A i \in Committed : trail'[i] = trail[i]
    BY <1>5 DEF Committed
  <2> QED BY <1>0, <1>5, <2>1 DEF CommitsAreEvidenced
<1>10. NoRoots'
  BY <1>1 DEF HandlerInv, NoRoots
<1> QED BY <1>2, <1>3, <1>6, <1>7, <1>8, <1>9, <1>10 DEF HandlerInv, OwnerInv, AnswerInv

(* A leaf names its event: two commits never have the same leaf, because a *)
(* leaf carries its key and a key is used once (I6 through I9).            *)
LEMMA LeafNamesCommit ==
  ASSUME HandlerInv
  PROVE  /\ \A i \in Committed : i \in DOMAIN trail /\ trail[i].leaf \in Leaf /\ trail[i].key # NoKey
                                 /\ trail[i].leaf.key = trail[i].key
         /\ \A i, j \in Committed : trail[i].leaf = trail[j].leaf => i = j
<1>0. OneEventPerKey /\ CommitsAreEvidenced /\ trail \in Seq(Event)
  BY DEF HandlerInv, OwnerInv, AnswerInv, TypeInv, CHTypeOK, CoreTypeOK
<1>1. ASSUME NEW i \in Committed
      PROVE  /\ i \in DOMAIN trail /\ trail[i].leaf \in Leaf
             /\ trail[i].key # NoKey /\ trail[i].leaf.key = trail[i].key
  <2>1. i \in DOMAIN trail /\ trail[i] \in Event
    BY <1>0 DEF Committed
  <2>2. trail[i].leaf \in Leaf
    BY <1>0, <2>1 DEF CommitsAreEvidenced, Event
  <2>3. trail[i].leaf.key \in Key /\ trail[i].leaf.key = trail[i].key
    BY <1>0, <2>2 DEF CommitsAreEvidenced, Leaf
  <2> QED BY <2>1, <2>2, <2>3, KeyAssumption
<1>2. ASSUME NEW i \in Committed, NEW j \in Committed, trail[i].leaf = trail[j].leaf
      PROVE  i = j
  <2>1. trail[i].key = trail[j].key
    BY <1>1, <1>2
  <2> QED BY <1>0, <1>1, <2>1 DEF OneEventPerKey
<1> QED BY <1>1, <1>2

-------------------------------------------------------------------------------
(* Leaves and the places that hold them.                                   *)

(* A new event is in no place, and its leaf has no row: a row vouches for  *)
(* a commit with the key of the leaf, and the key was free.                *)
LEMMA HoldAppended ==
  ASSUME ServiceInv, OwnerInv', NEW t \in Task, Appended(t), UNCHANGED anchorVars
  PROVE  HoldInv'
<1>0. /\ HandlerInv /\ HoldInv /\ StoreInv /\ trail \in Seq(Event)
      /\ out[t] \in Event /\ trail' = Append(trail, out[t]) /\ ~KeyTaken(out[t].key)
      /\ pending' = pending /\ abatch' = abatch /\ store' = store
  BY DEF ServiceInv, AnchorInv, HandlerInv, OwnerInv, AnswerInv, TypeInv, CHTypeOK, CoreTypeOK,
         Appended, anchorVars
<1>1. \A k \in Place, p \in Proc : HeldAt(k, p)' = HeldAt(k, p)
  BY <1>0 DEF HeldAt
<1>2. HeldMatch'
  BY <1>0, <1>1, MatchesGrows DEF HoldInv, HeldMatch
<1>3. HeldDistinct'
  BY <1>0, <1>1 DEF HoldInv, HeldDistinct
<1>4. OpenUnanchored'
  BY <1>0 DEF HoldInv, OpenUnanchored, Anchored
<1>5. ASSUME NEW u \in Task, Owner(u)'
      PROVE  /\ out'[u].leaf \notin DOMAIN store
             /\ \A k \in Place, p \in Proc : \A n \in DOMAIN HeldAt(k, p) :
                  HeldAt(k, p)[n].event_id # res'[u].event_id
  <2>1. CASE u # t
    <3>1. Owner(u) /\ res'[u] = res[u] /\ out'[u] = out[u]
      BY <1>5, <2>1 DEF Appended, SameOwner
    <3> QED BY <1>0, <3>1 DEF HoldInv, OwnersHeldNowhere, Anchored
  <2>2. CASE u = t
    <3>1. out'[t] = out[t] /\ res'[t].event_id = Len(trail) + 1
      BY DEF Appended
    <3>2. \A k \in Place, p \in Proc : \A n \in DOMAIN HeldAt(k, p) :
            HeldAt(k, p)[n].event_id \in DOMAIN trail
      BY <1>0 DEF HoldInv, HeldMatch, Matches, Committed
    <3>3. Len(trail) + 1 \notin DOMAIN trail
      BY <1>0, TrailGrows
    <3>4. out[t].leaf.key = out[t].key
      <4>1. TypeInv' /\ Running(t)' /\ out'[t].type = "MetricCommitted"
        BY <1>5, <2>2 DEF OwnerInv, AnswerInv, Owner, Running
      <4>2. out'[t].leaf = compute_leaf_hash(msg'[t], out'[t].leaf.at) /\ out'[t].key = msg'[t].key
        BY <4>1 DEF TypeInv, TasksWellFormed, WellFormed
      <4>3. out'[t].leaf.key = msg'[t].key
        BY <4>2 DEF compute_leaf_hash
      <4> QED BY <3>1, <4>2, <4>3
    <3>5. out[t].leaf \notin DOMAIN store
      <4> SUFFICES ASSUME out[t].leaf \in DOMAIN store PROVE FALSE
        OBVIOUS
      <4>1. PICK i \in Committed : trail[i].leaf = out[t].leaf
        BY <1>0 DEF StoreInv
      <4>2. i \in DOMAIN trail /\ trail[i].key = out[t].key /\ out[t].key # NoKey
        BY <1>0, <3>4, <4>1, LeafNamesCommit
      <4> QED BY <1>0, <4>2 DEF KeyTaken
    <3> QED BY <2>2, <3>1, <3>2, <3>3, <3>5
  <2> QED BY <2>1, <2>2
<1>6. OwnersHeldNowhere'
  BY <1>0, <1>1, <1>5 DEF OwnersHeldNowhere, Anchored
<1> QED BY <1>2, <1>3, <1>4, <1>6 DEF HoldInv

(* An owner files: its event was in no place and had no row.               *)
LEMMA HoldFiled ==
  ASSUME ServiceInv, NEW t \in Task, Filed(t), UNCHANGED anchorVars
  PROVE  HoldInv'
<1> DEFINE h == home[t]
           id == res[t].event_id
           x == [leaf_hash |-> out[t].leaf, event_id |-> id, decision_id |-> out[t].leaf.decision]
           i == Len(pending[h]) + 1
<1>0. /\ HandlerInv /\ OwnerInv /\ TypeInv /\ HoldInv
      /\ Owner(t) /\ h \in Proc /\ id \in Nat /\ out[t].leaf \in Leaf
      /\ trail' = trail /\ abatch' = abatch /\ store' = store /\ AddLeaf(h, out[t].leaf, id)
  BY OwnersDiffer DEF Filed, ServiceInv, HandlerInv, OwnerInv, AnswerInv, TypeInv, CHTypeOK,
                      AppendResult, anchorVars
<1>1. Matches(x) /\ x.event_id = id /\ x.leaf_hash = out[t].leaf
  BY <1>0, FiledMatches
<1>2. /\ DOMAIN pending'[h] = DOMAIN pending[h] \cup {i}
      /\ i \notin DOMAIN pending[h]
      /\ pending'[h][i] = x
      /\ \A n \in DOMAIN pending[h] : pending'[h][n] = pending[h][n]
      /\ \A q \in Proc \ {h} : pending'[q] = pending[q]
  BY <1>0, AddLeafEffect
<1> HIDE DEF x, i, h, id
<1>3. \A k \in Place, p \in Proc : \A n \in DOMAIN HeldAt(k, p)' :
        \/ n \in DOMAIN HeldAt(k, p) /\ HeldAt(k, p)'[n] = HeldAt(k, p)[n]
        \/ k = "open" /\ p = h /\ n = i /\ HeldAt(k, p)'[n] = x
  <2> SUFFICES ASSUME NEW k \in Place, NEW p \in Proc, NEW n \in DOMAIN HeldAt(k, p)'
               PROVE  \/ n \in DOMAIN HeldAt(k, p) /\ HeldAt(k, p)'[n] = HeldAt(k, p)[n]
                      \/ k = "open" /\ p = h /\ n = i /\ HeldAt(k, p)'[n] = x
    OBVIOUS
  <2>1. CASE k # "open"
    BY <1>0, <2>1 DEF HeldAt
  <2>2. CASE k = "open"
    BY <1>2, <2>2 DEF HeldAt
  <2> QED BY <2>1, <2>2
<1>4. \A k \in Place, p \in Proc : \A n \in DOMAIN HeldAt(k, p) : HeldAt(k, p)[n].event_id # id
  BY <1>0 DEF HoldInv, OwnersHeldNowhere, id
<1>5. HeldMatch'
  <2>1. \A y : Matches(y)' <=> Matches(y)
    BY <1>0 DEF Matches, Committed
  <2> QED BY <1>0, <1>1, <1>3, <2>1 DEF HoldInv, HeldMatch
<1>6. HeldDistinct'
  <2> SUFFICES ASSUME NEW j \in Place, NEW k \in Place, NEW p \in Proc, NEW q \in Proc,
                      NEW m \in DOMAIN HeldAt(j, p)', NEW n \in DOMAIN HeldAt(k, q)',
                      HeldAt(j, p)'[m].event_id = HeldAt(k, q)'[n].event_id
               PROVE  j = k /\ p = q /\ m = n
    BY DEF HeldDistinct
  <2>1. \/ m \in DOMAIN HeldAt(j, p) /\ HeldAt(j, p)'[m] = HeldAt(j, p)[m]
        \/ j = "open" /\ p = h /\ m = i /\ HeldAt(j, p)'[m] = x
    BY <1>3
  <2>2. \/ n \in DOMAIN HeldAt(k, q) /\ HeldAt(k, q)'[n] = HeldAt(k, q)[n]
        \/ k = "open" /\ q = h /\ n = i /\ HeldAt(k, q)'[n] = x
    BY <1>3
  <2> QED BY <1>0, <1>1, <1>4, <2>1, <2>2 DEF HoldInv, HeldDistinct
<1>7. OwnersHeldNowhere'
  <2> SUFFICES ASSUME NEW u \in Task, Owner(u)'
               PROVE  /\ out'[u].leaf \notin DOMAIN store
                      /\ \A k \in Place, p \in Proc : \A n \in DOMAIN HeldAt(k, p)' :
                           HeldAt(k, p)'[n].event_id # res'[u].event_id
    BY <1>0 DEF OwnersHeldNowhere, Anchored
  <2>1. u # t /\ Owner(u) /\ res'[u] = res[u] /\ out'[u] = out[u]
    BY DEF Filed, SameOwner
  <2>2. res[u].event_id # id
    BY <1>0, <2>1, OwnersDiffer DEF id
  <2>3. out[u].leaf \notin DOMAIN store
    BY <1>0, <2>1 DEF HoldInv, OwnersHeldNowhere, Anchored
  <2>4. ASSUME NEW k \in Place, NEW p \in Proc, NEW n \in DOMAIN HeldAt(k, p)'
        PROVE  HeldAt(k, p)'[n].event_id # res[u].event_id
    <3>1. \/ n \in DOMAIN HeldAt(k, p) /\ HeldAt(k, p)'[n] = HeldAt(k, p)[n]
          \/ HeldAt(k, p)'[n] = x
      BY <1>3
    <3> QED BY <1>0, <1>1, <2>1, <2>2, <3>1 DEF HoldInv, OwnersHeldNowhere
  <2> QED BY <2>1, <2>3, <2>4
<1>8. OpenUnanchored'
  <2>1. out[t].leaf \notin DOMAIN store
    BY <1>0 DEF HoldInv, OwnersHeldNowhere, Anchored
  <2>2. \A p \in Proc : \A n \in DOMAIN pending'[p] :
          \/ n \in DOMAIN pending[p] /\ pending'[p][n] = pending[p][n]
          \/ pending'[p][n] = x
    BY <1>2
  <2> QED BY <1>0, <1>1, <2>1, <2>2 DEF HoldInv, OpenUnanchored, Anchored
<1> QED BY <1>5, <1>6, <1>7, <1>8 DEF HoldInv

\* No place gains a leaf, except that the open batch of process q may move to dst;
\* dst = "open" when nothing moves.
Moves(q, dst) ==
  \A k \in Place, p \in Proc :
    \/ HeldAt(k, p)' = <<>>
    \/ k = dst /\ p = q /\ HeldAt(k, p)' = HeldAt("open", p)
    \/ ~(k = "open" /\ p = q) /\ HeldAt(k, p)' = HeldAt(k, p)

(* A step that moves or drops batches, and appends at most a root, keeps   *)
(* the leaves apart.                                                       *)
LEMMA HoldMoved ==
  ASSUME HandlerInv, HoldInv, NEW q \in Proc, NEW dst \in Place, Moves(q, dst),
         store' = store, trail' = trail \/ \E e : Rooted(e),
         \A u \in Task : Owner(u)' => Owner(u) /\ res'[u] = res[u] /\ out'[u] = out[u]
  PROVE  HoldInv'
<1>0. trail \in Seq(Event) /\ \A y : Matches(y) => Matches(y)'
  <2>1. trail \in Seq(Event)
    BY DEF HandlerInv, OwnerInv, AnswerInv, TypeInv, CHTypeOK, CoreTypeOK
  <2>2. CASE trail' = trail
    BY <2>1, <2>2 DEF Matches, Committed
  <2>3. ASSUME NEW e, Rooted(e), NEW y, Matches(y) PROVE Matches(y)'
    BY <2>1, <2>3, MatchesGrows DEF Rooted
  <2> QED BY <2>1, <2>2, <2>3
<1>1. \A k \in Place, p \in Proc : \A n \in DOMAIN HeldAt(k, p)' :
        \/ /\ k = dst /\ p = q /\ n \in DOMAIN HeldAt("open", p)
           /\ HeldAt(k, p)'[n] = HeldAt("open", p)[n]
        \/ ~(k = "open" /\ p = q) /\ n \in DOMAIN HeldAt(k, p) /\ HeldAt(k, p)'[n] = HeldAt(k, p)[n]
  <2> SUFFICES ASSUME NEW k \in Place, NEW p \in Proc, NEW n \in DOMAIN HeldAt(k, p)'
               PROVE  \/ /\ k = dst /\ p = q /\ n \in DOMAIN HeldAt("open", p)
                         /\ HeldAt(k, p)'[n] = HeldAt("open", p)[n]
                      \/ /\ ~(k = "open" /\ p = q)
                         /\ n \in DOMAIN HeldAt(k, p) /\ HeldAt(k, p)'[n] = HeldAt(k, p)[n]
    OBVIOUS
  <2>1. HeldAt(k, p)' # <<>>
    OBVIOUS
  <2> QED BY <2>1 DEF Moves
<1>2. "open" \in Place
  BY DEF Place
<1>3. HeldMatch'
  BY <1>0, <1>1, <1>2 DEF HoldInv, HeldMatch
<1>4. HeldDistinct'
  <2> SUFFICES ASSUME NEW j \in Place, NEW k \in Place, NEW p \in Proc, NEW r \in Proc,
                      NEW m \in DOMAIN HeldAt(j, p)', NEW n \in DOMAIN HeldAt(k, r)',
                      HeldAt(j, p)'[m].event_id = HeldAt(k, r)'[n].event_id
               PROVE  j = k /\ p = r /\ m = n
    BY DEF HeldDistinct
  <2>1. \/ /\ j = dst /\ p = q /\ m \in DOMAIN HeldAt("open", p)
           /\ HeldAt(j, p)'[m] = HeldAt("open", p)[m]
        \/ ~(j = "open" /\ p = q) /\ m \in DOMAIN HeldAt(j, p) /\ HeldAt(j, p)'[m] = HeldAt(j, p)[m]
    BY <1>1
  <2>2. \/ /\ k = dst /\ r = q /\ n \in DOMAIN HeldAt("open", r)
           /\ HeldAt(k, r)'[n] = HeldAt("open", r)[n]
        \/ ~(k = "open" /\ r = q) /\ n \in DOMAIN HeldAt(k, r) /\ HeldAt(k, r)'[n] = HeldAt(k, r)[n]
    BY <1>1
  <2> QED BY <1>2, <2>1, <2>2 DEF HoldInv, HeldDistinct
<1>5. OwnersHeldNowhere'
  BY <1>1, <1>2 DEF HoldInv, OwnersHeldNowhere, Anchored
<1>6. OpenUnanchored'
  <2> SUFFICES ASSUME NEW p \in Proc, NEW n \in DOMAIN pending'[p]
               PROVE  pending'[p][n].leaf_hash \notin DOMAIN store
    BY DEF OpenUnanchored, Anchored
  <2>1. HeldAt("open", p)' = pending'[p] /\ HeldAt("open", p) = pending[p]
    BY DEF HeldAt
  <2>2. n \in DOMAIN pending[p] /\ pending'[p][n] = pending[p][n]
    BY <1>1, <1>2, <2>1
  <2> QED BY <2>2 DEF HoldInv, OpenUnanchored, Anchored
<1> QED BY <1>3, <1>4, <1>5, <1>6 DEF HoldInv

(* Leaves that are held in different places, or owned, are different.      *)
LEMMA HeldLeavesDiffer ==
  ASSUME HandlerInv, HoldInv
  PROVE  /\ \A j, k \in Place, p, q \in Proc :
              \A m \in DOMAIN HeldAt(j, p), n \in DOMAIN HeldAt(k, q) :
                HeldAt(j, p)[m].leaf_hash = HeldAt(k, q)[n].leaf_hash => j = k /\ p = q /\ m = n
         /\ \A t \in Task : Owner(t) =>
              \A k \in Place, p \in Proc : \A n \in DOMAIN HeldAt(k, p) :
                HeldAt(k, p)[n].leaf_hash # out[t].leaf
<1>1. \A i, j \in Committed : trail[i].leaf = trail[j].leaf => i = j
  BY LeafNamesCommit
<1>2. \A k \in Place, p \in Proc : \A n \in DOMAIN HeldAt(k, p) :
        /\ HeldAt(k, p)[n].event_id \in Committed
        /\ trail[HeldAt(k, p)[n].event_id].leaf = HeldAt(k, p)[n].leaf_hash
  BY DEF HoldInv, HeldMatch, Matches
<1>3. ASSUME NEW j \in Place, NEW k \in Place, NEW p \in Proc, NEW q \in Proc,
             NEW m \in DOMAIN HeldAt(j, p), NEW n \in DOMAIN HeldAt(k, q),
             HeldAt(j, p)[m].leaf_hash = HeldAt(k, q)[n].leaf_hash
      PROVE  j = k /\ p = q /\ m = n
  <2>1. HeldAt(j, p)[m].event_id = HeldAt(k, q)[n].event_id
    BY <1>1, <1>2, <1>3
  <2> QED BY <2>1 DEF HoldInv, HeldDistinct
<1>4. ASSUME NEW t \in Task, Owner(t), NEW k \in Place, NEW p \in Proc,
             NEW n \in DOMAIN HeldAt(k, p), HeldAt(k, p)[n].leaf_hash = out[t].leaf
      PROVE  FALSE
  <2>1. res[t].event_id \in Committed /\ trail[res[t].event_id] = out[t]
    BY <1>4, OwnersDiffer DEF HandlerInv, OwnerInv, OwnersKnow
  <2>2. HeldAt(k, p)[n].event_id = res[t].event_id
    BY <1>1, <1>2, <1>4, <2>1
  <2> QED BY <1>4, <2>2 DEF HoldInv, OwnersHeldNowhere
<1> QED BY <1>3, <1>4

(* The place of a worker is the batch it anchors.                          *)
LEMMA WorkerPlace ==
  ASSUME NEW w \in Worker
  PROVE  /\ w[1] \in Proc /\ w[2] \in {"loop", "flush"} /\ w[2] \in Place /\ w = <<w[1], w[2]>>
         /\ HeldAt(w[2], w[1]) = abatch[w]
<1>1. w[1] \in Proc /\ w[2] \in {"loop", "flush"} /\ w = <<w[1], w[2]>>
  BY DEF Worker
<1> QED BY <1>1 DEF HeldAt, Place

(* The next leaf of a worker that stores has no row yet; nobody else holds *)
(* or owns that leaf.                                                      *)
LEMMA NextRow ==
  ASSUME ServiceInv, NEW w \in Worker, StoreProof(w)
  PROVE  LET i == aidx[w] + 1
             l == abatch[w][i].leaf_hash
         IN  /\ i \in DOMAIN abatch[w] /\ aidx[w] \in Nat
             /\ l \in Leaf /\ l \notin DOMAIN store
             /\ \E c \in Committed : trail[c].leaf = l
             /\ DOMAIN store' = DOMAIN store \cup {l}
             /\ store'[l] = Row(abatch[w], i, aid[w])
             /\ \A k \in DOMAIN store : store'[k] = store[k]
<1> DEFINE i == aidx[w] + 1
           l == abatch[w][i].leaf_hash
<1>0. /\ apc[w] = "store" /\ abatch[w] \in Seq(PendingLeaf) /\ aidx[w] \in Nat
      /\ aidx[w] < Len(abatch[w]) /\ WorkerInv(w)
  BY DEF ServiceInv, AnchorInv, AnchorTypeOK, WorkerInv, WorkerControl, StoreProof
<1>1. i \in DOMAIN abatch[w] /\ abatch[w][i] \in PendingLeaf /\ ~(i <= aidx[w])
  BY <1>0
<1>2. l \in Leaf
  BY <1>1 DEF PendingLeaf
<1>3. l \notin DOMAIN store
  BY <1>0, <1>1 DEF WorkerInv, WorkerRows, Anchored
<1>4. \E c \in Committed : trail[c].leaf = l
  <2>1. Matches(HeldAt(w[2], w[1])[i])
    BY <1>1, WorkerPlace DEF ServiceInv, HoldInv, HeldMatch
  <2>2. Matches(abatch[w][i])
    BY <2>1, WorkerPlace
  <2> QED BY <2>2 DEF Matches
<1>5. store' = [x \in DOMAIN store \cup {l} |->
                  IF x = l THEN Row(abatch[w], i, aid[w]) ELSE store[x]]
  BY DEF StoreProof
<1> HIDE DEF l
<1>6. /\ DOMAIN store' = DOMAIN store \cup {l} /\ store'[l] = Row(abatch[w], i, aid[w])
      /\ \A k \in DOMAIN store : store'[k] = store[k]
  BY <1>3, <1>5
<1> QED BY <1>0, <1>1, <1>2, <1>3, <1>4, <1>6 DEF l

(* A new row concerns no open batch and no owner.                          *)
LEMMA HoldStored ==
  ASSUME ServiceInv, NEW w \in Worker, StoreProof(w), UNCHANGED handlerVars
  PROVE  HoldInv'
<1> DEFINE i == aidx[w] + 1
           l == abatch[w][i].leaf_hash
<1>0. /\ HandlerInv /\ HoldInv /\ UNCHANGED <<trail, pending, abatch>>
      /\ UNCHANGED <<pc, out, res>>
  BY DEF ServiceInv, StoreProof, coreVars, handlerVars
<1>1. i \in DOMAIN abatch[w] /\ DOMAIN store' = DOMAIN store \cup {l}
  BY NextRow
<1>2. w[2] # "open" /\ w[2] \in Place /\ w[1] \in Proc /\ HeldAt(w[2], w[1]) = abatch[w]
  BY WorkerPlace
<1>3. \A k \in Place, p \in Proc : HeldAt(k, p)' = HeldAt(k, p)
  BY <1>0 DEF HeldAt
<1>4. \A t \in Task : Owner(t)' <=> Owner(t)
  BY <1>0 DEF Owner
<1>5. HeldMatch' /\ HeldDistinct'
  BY <1>0, <1>3 DEF HoldInv, HeldMatch, HeldDistinct, Matches, Committed
<1>6. OpenUnanchored'
  <2> SUFFICES ASSUME NEW p \in Proc, NEW n \in DOMAIN pending[p]
               PROVE  pending[p][n].leaf_hash \notin DOMAIN store'
    BY <1>0 DEF OpenUnanchored, Anchored
  <2>1. HeldAt("open", p) = pending[p] /\ "open" \in Place
    BY DEF HeldAt, Place
  <2>2. pending[p][n].leaf_hash # l
    BY <1>0, <1>1, <1>2, <2>1, HeldLeavesDiffer
  <2> QED BY <1>0, <1>1, <2>2 DEF HoldInv, OpenUnanchored, Anchored
<1>7. OwnersHeldNowhere'
  <2>1. \A t \in Task : Owner(t) => out[t].leaf # l
    BY <1>0, <1>1, <1>2, HeldLeavesDiffer
  <2> HIDE DEF l
  <2> QED BY <1>0, <1>1, <1>3, <1>4, <2>1 DEF HoldInv, OwnersHeldNowhere, Anchored
<1> QED BY <1>5, <1>6, <1>7 DEF HoldInv

-------------------------------------------------------------------------------
(* Workers that do not move, end or begin.                                 *)

TrailExtends == trail' = trail \/ \E e \in Event : trail' = Append(trail, e)

(* What was in the trail stays, so what was published stays published.     *)
LEMMA TrailExtended ==
  ASSUME trail \in Seq(Event), TrailExtends
  PROVE  /\ \A i \in DOMAIN trail : i \in DOMAIN trail' /\ trail'[i] = trail[i]
         /\ \A i \in Committed : i \in Committed' /\ trail'[i] = trail[i]
         /\ \A d, b : Published(d, b) => Published(d, b)'
<1>1. \A i \in DOMAIN trail : i \in DOMAIN trail' /\ trail'[i] = trail[i]
  BY DEF TrailExtends
<1>2. \A i \in Committed : i \in Committed' /\ trail'[i] = trail[i]
  BY <1>1 DEF Committed
<1>3. \A d, b : Published(d, b) => Published(d, b)'
  BY <1>1 DEF Published, IsRoot
<1> QED BY <1>1, <1>2, <1>3

SameWorker(w) ==
  /\ apc'[w] = apc[w] /\ abatch'[w] = abatch[w] /\ aid'[w] = aid[w]
  /\ aidx'[w] = aidx[w] /\ atodo'[w] = atodo[w]

\* New rows, if any, are rows of another batch and of other leaves than w's.
OthersRows(w) ==
  /\ \A l \in DOMAIN store : l \in DOMAIN store' /\ store'[l] = store[l]
  /\ \A l \in DOMAIN store' \ DOMAIN store :
       /\ apc[w] # "idle" => store'[l].batch_id # aid[w]
       /\ \A n \in DOMAIN abatch[w] : abatch[w][n].leaf_hash # l

\* New events, if any, are no root of w's batch.
OthersRoots(w) ==
  \/ trail' = trail
  \/ \E e \in Event : trail' = Append(trail, e) /\ (apc[w] # "idle" => ~IsRoot(e, aid[w]))

(* A worker is not disturbed by what other workers and handlers do.        *)
LEMMA WorkerKept ==
  ASSUME trail \in Seq(Event), AnchorTypeOK, NEW w \in Worker, WorkerInv(w), SameWorker(w),
         OthersRows(w), OthersRoots(w), batches' \in Nat, batches' >= batches,
         apc[w] # "idle" /\ w[2] = "flush" => life'[w[1]] = "stopping"
  PROVE  WorkerInv(w)'
<1>1. WorkerControl(w)'
  <2>1. aid[w] \in 1..batches => aid[w] \in 1..batches'
    BY DEF AnchorTypeOK
  <2> QED BY <2>1 DEF WorkerInv, WorkerControl, SameWorker
<1>2. WorkerRows(w)'
  <2>0. \A n \in DOMAIN abatch[w] :
          /\ (n <= aidx[w] =>
                 /\ abatch[w][n].leaf_hash \in DOMAIN store
                 /\ store[abatch[w][n].leaf_hash].batch_id = aid[w]
                 /\ store[abatch[w][n].leaf_hash].root = RootOf(BatchLevels(abatch[w])))
          /\ (~(n <= aidx[w]) => abatch[w][n].leaf_hash \notin DOMAIN store)
    BY DEF WorkerInv, WorkerRows, Anchored
  <2>1. \A n \in DOMAIN abatch[w] :
          /\ (n <= aidx[w] =>
                 /\ abatch[w][n].leaf_hash \in DOMAIN store'
                 /\ store'[abatch[w][n].leaf_hash].batch_id = aid[w]
                 /\ store'[abatch[w][n].leaf_hash].root = RootOf(BatchLevels(abatch[w])))
          /\ (~(n <= aidx[w]) => abatch[w][n].leaf_hash \notin DOMAIN store')
    BY <2>0 DEF OthersRows
  <2>2. apc[w] # "idle" =>
          \A l \in DOMAIN store' : store'[l].batch_id = aid[w] =>
            \E n \in DOMAIN abatch[w] : n <= aidx[w] /\ l = abatch[w][n].leaf_hash
    BY DEF WorkerInv, WorkerRows, OthersRows
  <2> QED BY <2>1, <2>2 DEF WorkerRows, Anchored, SameWorker, BatchLevels
<1>3. WorkerRoots(w)'
  <2>1. TrailExtends
    BY DEF OthersRoots, TrailExtends
  <2>2. \A d, b : Published(d, b) => Published(d, b)'
    BY <2>1, TrailExtended
  <2>3. apc[w] \in {"stamp", "store", "root"} => \A j \in DOMAIN trail' : ~IsRoot(trail'[j], aid[w])
    <3> SUFFICES ASSUME apc[w] \in {"stamp", "store", "root"}, NEW j \in DOMAIN trail'
                 PROVE  ~IsRoot(trail'[j], aid[w])
      OBVIOUS
    <3>1. CASE j \in DOMAIN trail
      <4>1. trail'[j] = trail[j]
        BY <2>1, <3>1, TrailExtended
      <4> QED BY <3>1, <4>1 DEF WorkerInv, WorkerRoots
    <3>2. CASE j \notin DOMAIN trail
      <4>1. PICK e \in Event : trail' = Append(trail, e) /\ ~IsRoot(e, aid[w])
        BY <3>2 DEF OthersRoots
      <4>2. trail'[j] = e
        BY <3>2, <4>1
      <4> QED BY <4>1, <4>2
    <3> QED BY <3>1, <3>2
  <2>4. \A b : b = aid[w] /\ apc[w] \in {"decisions", "mark"} =>
          \A d \in {System} \cup (DecisionsOf(abatch[w]) \ atodo[w]) : Published(d, b)'
    BY <2>2 DEF WorkerInv, WorkerRoots
  <2>5. DecisionsOf(abatch[w])' = DecisionsOf(abatch[w]) /\ DecisionsOf(abatch'[w]) = DecisionsOf(abatch[w])
    BY DEF DecisionsOf, SameWorker
  <2> QED BY <2>3, <2>4, <2>5 DEF WorkerRoots, SameWorker, IsRoot
<1> QED BY <1>1, <1>2, <1>3 DEF WorkerInv

(* A worker that ends leaves no local state.                               *)
LEMMA WorkerEnded ==
  ASSUME NEW w \in Worker, apc'[w] = "idle", abatch'[w] = <<>>, aid'[w] = 0, aidx'[w] = 0,
         atodo'[w] = {}
  PROVE  WorkerInv(w)'
  BY DEF WorkerInv, WorkerControl, WorkerRows, WorkerRoots

(* A worker that begins has a batch id nobody used and leaves without rows. *)
LEMMA WorkerBegun ==
  ASSUME ServiceInv, NEW w \in Worker, HasPending(w[1]),
         apc'[w] = "stamp", abatch'[w] = pending[w[1]], aid'[w] = batches + 1, aidx'[w] = 0,
         atodo'[w] = {}, batches' = batches + 1, UNCHANGED <<trail, store>>,
         w[2] = "flush" => life'[w[1]] = "stopping"
  PROVE  WorkerInv(w)'
<1>0. /\ batches \in Nat /\ w[1] \in Proc /\ pending[w[1]] \in Seq(PendingLeaf)
      /\ OpenUnanchored /\ StoreInv /\ RootsInv
  BY WorkerPlace DEF ServiceInv, AnchorInv, AnchorTypeOK, HoldInv, HandlerInv, OwnerInv, AnswerInv,
                     TypeInv, CHTypeOK, CoreTypeOK
<1>1. WorkerControl(w)'
  BY <1>0 DEF WorkerControl, HasPending
<1>2. WorkerRows(w)'
  <2>1. \A n \in DOMAIN pending[w[1]] : ~(n <= 0) /\ pending[w[1]][n].leaf_hash \notin DOMAIN store
    BY <1>0 DEF OpenUnanchored, Anchored
  <2>2. \A l \in DOMAIN store : store[l].batch_id # batches + 1
    BY <1>0 DEF StoreInv
  <2> QED BY <2>1, <2>2 DEF WorkerRows, Anchored
<1>3. WorkerRoots(w)'
  <2>1. \A j \in DOMAIN trail : ~IsRoot(trail[j], batches + 1)
    BY <1>0 DEF RootsInv, IsRoot
  <2> QED BY <2>1 DEF WorkerRoots
<1> QED BY <1>1, <1>2, <1>3 DEF WorkerInv

(* The rows stay right when the trail grows and nothing is stored.         *)
LEMMA StoreKept ==
  ASSUME trail \in Seq(Event), AnchorTypeOK, StoreInv, TrailExtends, store' = store,
         batches' \in Nat, batches' >= batches
  PROVE  StoreInv'
<1>1. \A i \in Committed : i \in Committed' /\ trail'[i] = trail[i]
  BY TrailExtended
<1>2. \A n : n \in 1..batches => n \in 1..batches'
  BY DEF AnchorTypeOK
<1> QED BY <1>1, <1>2 DEF StoreInv

(* The roots stay right while no root is published and nothing is stored.  *)
LEMMA RootsKept ==
  ASSUME trail \in Seq(Event), AnchorTypeOK, RootsInv, store' = store,
         batches' \in Nat, batches' >= batches,
         \/ trail' = trail
         \/ \E e \in Event : trail' = Append(trail, e) /\ e.type # "MerkleRootPublished"
  PROVE  RootsInv'
<1>1. \A i \in DOMAIN trail' : trail'[i].type = "MerkleRootPublished" =>
        i \in DOMAIN trail /\ trail'[i] = trail[i]
  <2>1. CASE trail' = trail
    BY <2>1
  <2>2. ASSUME NEW e \in Event, trail' = Append(trail, e), e.type # "MerkleRootPublished"
        PROVE  \A i \in DOMAIN trail' : trail'[i].type = "MerkleRootPublished" =>
                 i \in DOMAIN trail /\ trail'[i] = trail[i]
    BY <2>2, TrailGrows
  <2> QED BY <2>1, <2>2
<1>2. \A n : n \in 1..batches => n \in 1..batches'
  BY DEF AnchorTypeOK
<1>3. RootCountsRows'
  BY <1>1 DEF RootsInv, RootCountsRows
<1> QED BY <1>1, <1>2, <1>3 DEF RootsInv

(* What is provable stays provable.                                        *)
LEMMA BatchedKept ==
  ASSUME trail \in Seq(Event), BatchedIsProvable, TrailExtends, batched' = batched,
         \A l \in DOMAIN store : l \in DOMAIN store' /\ store'[l] = store[l]
  PROVE  BatchedIsProvable'
<1>1. ASSUME NEW i \in batched
      PROVE  /\ i \in Committed' /\ trail'[i] = trail[i]
             /\ trail[i].leaf \in DOMAIN store' /\ store'[trail[i].leaf] = store[trail[i].leaf]
             /\ \A b : b = store[trail[i].leaf].batch_id =>
                  \A d \in {System, trail[i].decision} : Published(d, b)'
  <2>1. /\ i \in Committed /\ trail[i].leaf \in DOMAIN store
        /\ \A d \in {System, trail[i].decision} : Published(d, store[trail[i].leaf].batch_id)
    BY <1>1 DEF BatchedIsProvable, Anchored, Published, IsRoot
  <2> QED BY <2>1, TrailExtended
<1> QED BY <1>1 DEF BatchedIsProvable, Anchored, Published, IsRoot

-------------------------------------------------------------------------------
(* A step of the handlers.                                                 *)

(* A commit that is appended is owned, and one that is filed is held.      *)
LEMMA HandlerReach ==
  ASSUME ServiceInv, OwnerInv', [CHNext]_chVars, UNCHANGED <<anchorVars, stops>>
  PROVE  CommitsReachRows'
<1>0. /\ OwnerInv /\ TypeInv /\ CommitsReachRows /\ trail \in Seq(Event)
      /\ abatch' = abatch /\ store' = store /\ stops' = stops /\ life' = life
  BY HandlersLeave DEF ServiceInv, AnchorInv, HandlerInv, OwnerInv, AnswerInv, TypeInv, CHTypeOK,
                       CoreTypeOK, anchorVars
<1>1. ASSUME NEW t \in Task, Appended(t) PROVE CommitsReachRows'
  <2>0. pending' = pending /\ faults' = faults
    BY <1>1 DEF Appended
  <2>1. \A k \in Place, p \in Proc : HeldAt(k, p)' = HeldAt(k, p)
    BY <1>0, <2>0 DEF HeldAt
  <2>2. \A u \in Task : Owner(u) => Owner(u)' /\ res'[u] = res[u]
    BY <1>1 DEF Appended, SameOwner, Owner
  <2>3. ASSUME NEW i \in Committed'
        PROVE  \/ i \in Committed /\ trail'[i] = trail[i]
               \/ Owner(t)' /\ res'[t].event_id = i
    BY <1>0, <1>1, TrailGrows DEF Appended, Committed
  <2> QED BY <1>0, <2>0, <2>1, <2>2, <2>3 DEF CommitsReachRows, Anchored
<1>2. ASSUME NEW t \in Task, Filed(t) PROVE CommitsReachRows'
  <2>0. /\ trail' = trail /\ faults' = faults /\ Owner(t)
        /\ \A u \in Task \ {t} : Owner(u) => Owner(u)' /\ res'[u] = res[u]
    BY <1>2 DEF Filed, SameOwner
  <2>1. home[t] \in Proc /\ out[t].leaf \in Leaf /\ res[t].event_id \in Nat
    BY <1>0, <2>0, OwnersDiffer DEF TypeInv, CHTypeOK, AppendResult
  <2>h. PICK h \in Proc : h = home[t]
    BY <2>1
  <2> DEFINE x == [leaf_hash |-> out[t].leaf, event_id |-> res[t].event_id,
                   decision_id |-> out[t].leaf.decision]
  <2>i. PICK i : i = Len(pending[h]) + 1
    OBVIOUS
  <2>x. x.event_id = res[t].event_id
    OBVIOUS
  <2>2. /\ DOMAIN pending'[h] = DOMAIN pending[h] \cup {i}
        /\ pending'[h][i] = x
        /\ \A n \in DOMAIN pending[h] : pending'[h][n] = pending[h][n]
        /\ \A q \in Proc \ {h} : pending'[q] = pending[q]
    BY <1>0, <1>2, <2>1, <2>h, <2>i, AddLeafEffect DEF Filed
  <2> HIDE DEF x
  <2>3. ASSUME NEW k \in Place, NEW p \in Proc, NEW n \in DOMAIN HeldAt(k, p)
        PROVE  n \in DOMAIN HeldAt(k, p)' /\ HeldAt(k, p)'[n] = HeldAt(k, p)[n]
    <3>1. CASE k # "open"
      BY <1>0, <3>1, <2>3 DEF HeldAt
    <3>2. CASE k = "open"
      BY <2>2, <2>3, <3>2 DEF HeldAt
    <3> QED BY <3>1, <3>2
  <2>4. "open" \in Place /\ i \in DOMAIN HeldAt("open", h)'
        /\ HeldAt("open", h)'[i].event_id = res[t].event_id
    BY <2>2, <2>x DEF HeldAt, Place
  <2>5. Committed' = Committed
    BY <2>0 DEF Committed
  <2> SUFFICES ASSUME faults = 0, stops = 0, NEW c \in Committed
               PROVE  \/ trail[c].leaf \in DOMAIN store
                      \/ \E k \in Place, p \in Proc : \E n \in DOMAIN HeldAt(k, p)' :
                           HeldAt(k, p)'[n].event_id = c
                      \/ \E u \in Task : Owner(u)' /\ res'[u].event_id = c
    BY <1>0, <2>0, <2>5 DEF CommitsReachRows, Anchored
  <2>6. CASE Anchored(trail[c].leaf)
    BY <2>6 DEF Anchored
  <2>7. ASSUME NEW k \in Place, NEW p \in Proc, NEW n \in DOMAIN HeldAt(k, p),
               HeldAt(k, p)[n].event_id = c
        PROVE  \E kk \in Place, pp \in Proc : \E nn \in DOMAIN HeldAt(kk, pp)' :
                 HeldAt(kk, pp)'[nn].event_id = c
    <3>1. n \in DOMAIN HeldAt(k, p)' /\ HeldAt(k, p)'[n].event_id = c
      BY <2>3, <2>7
    <3> QED BY <3>1
  <2>8. ASSUME NEW u \in Task, Owner(u), res[u].event_id = c
        PROVE  \/ \E k \in Place, p \in Proc : \E n \in DOMAIN HeldAt(k, p)' :
                    HeldAt(k, p)'[n].event_id = c
               \/ \E v \in Task : Owner(v)' /\ res'[v].event_id = c
    BY <2>0, <2>4, <2>8
  <2> QED BY <1>0, <2>6, <2>7, <2>8 DEF CommitsReachRows
<1>3. CASE Quiet
  <2>0. UNCHANGED <<trail, pending>>
    BY <1>3 DEF Quiet
  <2>1. \A k \in Place, p \in Proc : HeldAt(k, p)' = HeldAt(k, p)
    BY <1>0, <2>0 DEF HeldAt
  <2>2. faults' = 0 => faults = 0 /\ \A u \in Task : Owner(u) => Owner(u)' /\ res'[u] = res[u]
    BY <1>3 DEF Quiet, SameOwner
  <2>3. Committed' = Committed
    BY <2>0 DEF Committed
  <2> QED BY <1>0, <2>0, <2>1, <2>2, <2>3 DEF CommitsReachRows, Anchored
<1> QED BY <1>0, <1>1, <1>2, <1>3, HandlerEffect

(* A step of the handlers keeps the service invariant.                     *)
LEMMA ServiceHandlers ==
  ASSUME ServiceInv, [CHNext]_chVars, UNCHANGED <<anchorVars, stops>>
  PROVE  ServiceInv'
<1>0. /\ OwnerInv /\ TypeInv /\ HandlerInv /\ HoldInv /\ AnchorInv
      /\ CommitsAreEvidenced /\ NoRoots /\ trail \in Seq(Event)
      /\ UNCHANGED <<life, batched, stops>>
      /\ UNCHANGED <<apc, abatch, aid, aidx, atodo, store, batches>>
  BY HandlersLeave DEF ServiceInv, HandlerInv, OwnerInv, AnswerInv, TypeInv, CHTypeOK, CoreTypeOK,
                       anchorVars
<1>1. HandlerInv'
  BY <1>0, OwnerNext, EvidenceNext, NoRootsNext DEF HandlerInv
<1>2. OwnerInv'
  BY <1>1 DEF HandlerInv
<1>3. \/ trail' = trail
      \/ \E e \in Event : trail' = Append(trail, e) /\ e.type # "MerkleRootPublished"
  <2>1. ASSUME NEW t \in Task, Appended(t)
        PROVE  out[t] \in Event /\ trail' = Append(trail, out[t]) /\ out[t].type # "MerkleRootPublished"
    BY <1>0, <2>1 DEF Appended, NoRoots, Running
  <2> QED BY <1>0, <2>1, HandlerEffect DEF Filed, Quiet
<1>4. HoldInv'
  <2>1. ASSUME NEW t \in Task, Appended(t) \/ Filed(t) PROVE HoldInv'
    BY <1>2, <2>1, HoldAppended, HoldFiled
  <2>2. CASE Quiet
    <3>1. PICK q \in Proc : TRUE
      BY ProcAssumption
    <3>2. Moves(q, "open") /\ "open" \in Place
      BY <1>0, <2>2 DEF Quiet, Moves, HeldAt, Place
    <3>3. trail' = trail /\ \A u \in Task : Owner(u)' => Owner(u) /\ res'[u] = res[u] /\ out'[u] = out[u]
      BY <2>2 DEF Quiet, SameOwner
    <3> QED BY <1>0, <3>2, <3>3, HoldMoved
  <2> QED BY <1>0, <2>1, <2>2, HandlerEffect
<1>5. AnchorTypeOK' /\ AidsDiffer'
  BY <1>0 DEF AnchorInv, AnchorTypeOK, AidsDiffer
<1>6. TrailExtends
  BY <1>3 DEF TrailExtends
<1>7. ASSUME NEW w \in Worker PROVE WorkerInv(w)'
  <2>1. SameWorker(w) /\ OthersRows(w) /\ OthersRoots(w)
    BY <1>0, <1>3 DEF SameWorker, OthersRows, OthersRoots, IsRoot
  <2>2. WorkerInv(w) /\ AnchorTypeOK
    BY <1>0 DEF AnchorInv
  <2>3. apc[w] # "idle" /\ w[2] = "flush" => life'[w[1]] = "stopping"
    BY <1>0, <2>2 DEF WorkerInv, WorkerControl
  <2>4. batches' \in Nat /\ batches' >= batches
    BY <1>0, <2>2 DEF AnchorTypeOK
  <2> QED BY <1>0, <2>1, <2>2, <2>3, <2>4, WorkerKept
<1>8. StoreInv' /\ RootsInv' /\ BatchedIsProvable'
  <2>1. batches' \in Nat /\ batches' >= batches
    BY <1>0 DEF AnchorInv, AnchorTypeOK
  <2> QED BY <1>0, <1>3, <1>6, <2>1, StoreKept, RootsKept, BatchedKept DEF AnchorInv
<1>9. CommitsReachRows'
  BY <1>2, HandlerReach
<1> QED BY <1>1, <1>4, <1>5, <1>7, <1>8, <1>9 DEF ServiceInv, AnchorInv

-------------------------------------------------------------------------------
(* Steps of the processes and the workers that neither store nor publish.  *)

Ended(w) ==
  apc'[w] = "idle" /\ abatch'[w] = <<>> /\ aid'[w] = 0 /\ aidx'[w] = 0 /\ atodo'[w] = {}

Begun(w) ==
  /\ HasPending(w[1])
  /\ apc'[w] = "stamp" /\ abatch'[w] = pending[w[1]] /\ aid'[w] = batches + 1
  /\ aidx'[w] = 0 /\ atodo'[w] = {} /\ batches' = batches + 1
  /\ w[2] = "flush" => life'[w[1]] = "stopping"

Undisturbed(w) ==
  SameWorker(w) /\ (apc[w] # "idle" /\ w[2] = "flush" => life'[w[1]] = "stopping")

(* Commits stay on their way when no place drops a leaf that has no row.   *)
LEMMA ReachKept ==
  ASSUME HandlerInv, CommitsReachRows, trail' = trail \/ \E e : Rooted(e),
         \A l \in DOMAIN store : l \in DOMAIN store',
         faults' = 0 /\ stops' = 0 =>
           /\ faults = 0 /\ stops = 0 /\ life' = life
           /\ UNCHANGED <<pc, out, res>>
           /\ \A k \in Place, p \in Proc : \A n \in DOMAIN HeldAt(k, p) :
                \A c : c = HeldAt(k, p)[n].event_id =>
                  \/ trail[c].leaf \in DOMAIN store'
                  \/ \E j \in Place, q \in Proc : \E m \in DOMAIN HeldAt(j, q)' :
                       HeldAt(j, q)'[m].event_id = c
  PROVE  CommitsReachRows'
<1>0. trail \in Seq(Event)
  BY DEF HandlerInv, OwnerInv, AnswerInv, TypeInv, CHTypeOK, CoreTypeOK
<1>1. Committed' = Committed /\ \A i \in Committed : trail'[i] = trail[i]
  <2>1. CASE trail' = trail
    BY <2>1 DEF Committed
  <2>2. ASSUME NEW e, Rooted(e)
        PROVE  Committed' = Committed /\ \A i \in Committed : trail'[i] = trail[i]
    BY <1>0, <2>2, TrailGrows DEF Rooted, Committed
  <2> QED BY <2>1, <2>2
<1> SUFFICES ASSUME faults' = 0, stops' = 0, NEW c \in Committed
             PROVE  \/ trail[c].leaf \in DOMAIN store'
                    \/ \E k \in Place, p \in Proc : \E n \in DOMAIN HeldAt(k, p)' :
                         HeldAt(k, p)'[n].event_id = c
                    \/ \E t \in Task : Owner(t)' /\ res'[t].event_id = c
  <2>1. faults' = 0 /\ stops' = 0 => \A p \in Proc : life'[p] = "up"
    BY DEF CommitsReachRows
  <2> QED BY <1>1, <2>1 DEF CommitsReachRows, Anchored
<1>2. \/ Anchored(trail[c].leaf)
      \/ \E k \in Place, p \in Proc : \E n \in DOMAIN HeldAt(k, p) : HeldAt(k, p)[n].event_id = c
      \/ \E t \in Task : Owner(t) /\ res[t].event_id = c
  BY DEF CommitsReachRows
<1>3. \A t \in Task : Owner(t) => Owner(t)' /\ res'[t] = res[t]
  BY DEF Owner
<1> QED BY <1>2, <1>3 DEF Anchored

(* Workers are undisturbed, end or begin; no two begin at once.            *)
LEMMA WorkersKept ==
  ASSUME ServiceInv, UNCHANGED <<trail, store>>, batches' \in Nat, batches' >= batches,
         \A w \in Worker : Undisturbed(w) \/ Ended(w) \/ Begun(w),
         \A v, w \in Worker : Begun(v) /\ Begun(w) => v = w
  PROVE  (\A w \in Worker : WorkerInv(w)') /\ AidsDiffer'
<1>0. trail \in Seq(Event) /\ AnchorTypeOK /\ AidsDiffer /\ \A w \in Worker : WorkerInv(w)
  BY DEF ServiceInv, HandlerInv, OwnerInv, AnswerInv, TypeInv, CHTypeOK, CoreTypeOK, AnchorInv
<1>1. ASSUME NEW w \in Worker PROVE WorkerInv(w)'
  <2>1. CASE Undisturbed(w)
    <3>1. OthersRows(w) /\ OthersRoots(w)
      BY DEF OthersRows, OthersRoots
    <3> QED BY <1>0, <2>1, <3>1, WorkerKept DEF Undisturbed
  <2>2. CASE Ended(w)
    BY <2>2, WorkerEnded DEF Ended
  <2>3. CASE Begun(w)
    BY <2>3, WorkerBegun DEF Begun
  <2> QED BY <2>1, <2>2, <2>3
<1>2. AidsDiffer'
  <2> SUFFICES ASSUME NEW v \in Worker, NEW w \in Worker, apc'[v] # "idle", apc'[w] # "idle",
                      aid'[v] = aid'[w]
               PROVE  v = w
    BY DEF AidsDiffer
  <2>1. \A u \in Worker : apc[u] # "idle" => aid[u] \in 1..batches
    BY <1>0 DEF WorkerInv, WorkerControl
  <2>2. batches \in Nat
    BY <1>0 DEF AnchorTypeOK
  <2>3. ASSUME NEW u \in Worker, apc'[u] # "idle"
        PROVE  \/ Begun(u) /\ aid'[u] = batches + 1
               \/ apc[u] # "idle" /\ aid'[u] = aid[u]
    <3>1. CASE Undisturbed(u)
      BY <2>3, <3>1 DEF Undisturbed, SameWorker
    <3>2. CASE Begun(u)
      <4>1. aid'[u] = batches + 1
        BY <3>2 DEF Begun
      <4> QED BY <3>2, <4>1
    <3>3. ~Ended(u)
      BY <2>3 DEF Ended
    <3> QED BY <3>1, <3>2, <3>3
  <2>4. CASE Begun(v) /\ Begun(w)
    BY <2>4
  <2>5. CASE apc[v] # "idle" /\ aid'[v] = aid[v] /\ apc[w] # "idle" /\ aid'[w] = aid[w]
    BY <1>0, <2>5 DEF AidsDiffer
  <2> QED BY <2>1, <2>2, <2>3, <2>4, <2>5
<1> QED BY <1>1, <1>2

(* What is left to show of a step that stores and publishes nothing.       *)
LEMMA ServiceMoved ==
  ASSUME ServiceInv, CHTypeOK', AnchorTypeOK', TasksLeftAlone,
         UNCHANGED <<trail, batched, store>>, batches' >= batches,
         NEW q \in Proc, NEW dst \in Place, Moves(q, dst),
         \A w \in Worker : WorkerInv(w)', AidsDiffer', CommitsReachRows'
  PROVE  ServiceInv'
<1>0. /\ HandlerInv /\ HoldInv /\ AnchorInv /\ AnchorTypeOK /\ trail \in Seq(Event)
      /\ batches' \in Nat /\ TrailExtends
  BY DEF ServiceInv, HandlerInv, OwnerInv, AnswerInv, TypeInv, CHTypeOK, CoreTypeOK, AnchorInv,
         AnchorTypeOK, TrailExtends
<1>1. HandlerInv'
  BY <1>0, HandlerKept
<1>2. \A u \in Task : Owner(u)' => Owner(u) /\ res'[u] = res[u] /\ out'[u] = out[u]
  BY DEF TasksLeftAlone, Owner
<1>3. HoldInv'
  BY <1>0, <1>2, HoldMoved
<1>4. StoreInv' /\ RootsInv' /\ BatchedIsProvable'
  BY <1>0, StoreKept, RootsKept, BatchedKept DEF AnchorInv
<1> QED BY <1>1, <1>3, <1>4 DEF ServiceInv, AnchorInv

(* The types survive a builder that is reset, and tasks that end.          *)
LEMMA TypeEnded ==
  ASSUME CHTypeOK, NEW p \in Proc, ResetBuilder(p), UNCHANGED <<trail, batched, now>>,
         life' \in [Proc -> {"up", "stopping", "down"}], faults' \in 0..MaxFaults,
         pc' \in [Task -> {"idle", "append", "appended", "done", "failed"}],
         UNCHANGED <<home, msg, out, res, reply>>,
         staging' \in [Proc -> [Decision \X Metric -> Status]]
  PROVE  CHTypeOK'
<1>0. pending \in [Proc -> Seq(PendingLeaf)] /\ first_leaf_ts \in [Proc -> (0..MaxTime) \cup {NoTime}]
  BY DEF CHTypeOK, CoreTypeOK
<1>1. pending' \in [Proc -> Seq(PendingLeaf)]
  BY <1>0 DEF ResetBuilder
<1>2. first_leaf_ts' \in [Proc -> (0..MaxTime) \cup {NoTime}]
  BY <1>0 DEF ResetBuilder
<1>3. CoreTypeOK'
  BY <1>1, <1>2 DEF CHTypeOK, CoreTypeOK
<1> QED BY <1>3 DEF CHTypeOK

(* maybe_close_and_anchor takes the open batch.                            *)
LEMMA ServiceCloser ==
  ASSUME ServiceInv, NEW p \in Proc, Closer(p)
  PROVE  ServiceInv'
<1> DEFINE loop == <<p, "loop">>
<1>0. /\ CHTypeOK /\ AnchorTypeOK /\ HandlerInv /\ CommitsReachRows /\ loop \in Worker
      /\ loop[1] = p /\ loop[2] = "loop" /\ WorkerControl(loop)
  BY DEF ServiceInv, HandlerInv, OwnerInv, AnswerInv, TypeInv, AnchorInv, Worker, WorkerInv
<1>1. /\ apc[loop] = "idle" /\ HasPending(p)
      /\ abatch' = [abatch EXCEPT ![loop] = pending[p]]
      /\ batches' = batches + 1
      /\ aid' = [aid EXCEPT ![loop] = batches + 1]
      /\ aidx' = [aidx EXCEPT ![loop] = 0]
      /\ apc' = [apc EXCEPT ![loop] = "stamp"]
      /\ pending' = [pending EXCEPT ![p] = <<>>]
      /\ first_leaf_ts' = [first_leaf_ts EXCEPT ![p] = NoTime]
      /\ UNCHANGED <<trail, batched, life, now, faults, atodo, store>>
      /\ UNCHANGED <<pc, home, msg, out, res, reply, staging, stops>>
  BY <1>0 DEF Closer, MaybeCloseAndAnchor, ShouldClose, CloseBatch, ResetBuilder, handlerVars
<1> HIDE DEF loop
<1>2. CHTypeOK'
  BY <1>0, <1>1, TypeEnded DEF ResetBuilder, CHTypeOK, CoreTypeOK
<1>3. AnchorTypeOK' /\ batches' >= batches
  <2>1. pending[p] \in Seq(PendingLeaf)
    BY <1>0 DEF CHTypeOK, CoreTypeOK
  <2> QED BY <1>0, <1>1, <2>1 DEF AnchorTypeOK
<1>4. TasksLeftAlone
  BY <1>1 DEF TasksLeftAlone
<1>5. Moves(p, "loop")
  <2> SUFFICES ASSUME NEW k \in Place, NEW q \in Proc
               PROVE  \/ HeldAt(k, q)' = <<>>
                      \/ k = "loop" /\ q = p /\ HeldAt(k, q)' = HeldAt("open", q)
                      \/ ~(k = "open" /\ q = p) /\ HeldAt(k, q)' = HeldAt(k, q)
    BY DEF Moves
  <2>1. CASE k = "open"
    BY <1>0, <1>1, <2>1 DEF HeldAt, CHTypeOK, CoreTypeOK
  <2>2. CASE k # "open"
    <3>1. <<q, k>> \in Worker /\ HeldAt(k, q) = abatch[<<q, k>>] /\ HeldAt(k, q)' = abatch'[<<q, k>>]
      BY <2>2 DEF HeldAt, Worker, Place
    <3>2. CASE q = p /\ k = "loop"
      BY <1>0, <1>1, <3>1, <3>2 DEF loop, HeldAt, AnchorTypeOK
    <3>3. CASE ~(q = p /\ k = "loop")
      <4>1. <<q, k>> # loop
        BY <3>3 DEF loop
      <4> QED BY <1>0, <1>1, <2>2, <3>1, <4>1 DEF AnchorTypeOK
    <3> QED BY <3>2, <3>3
  <2> QED BY <2>1, <2>2
<1>6. (\A w \in Worker : WorkerInv(w)') /\ AidsDiffer'
  <2>1. \A w \in Worker \ {loop} : SameWorker(w)
    BY <1>0, <1>1 DEF SameWorker, AnchorTypeOK
  <2>2. \A w \in Worker \ {loop} : Undisturbed(w)
    BY <1>1, <2>1 DEF Undisturbed, ServiceInv, AnchorInv, WorkerInv, WorkerControl
  <2>3. Begun(loop)
    BY <1>0, <1>1 DEF Begun, AnchorTypeOK, WorkerControl
  <2>4. \A w \in Worker \ {loop} : ~Begun(w)
    <3> SUFFICES ASSUME NEW w \in Worker \ {loop}, Begun(w) PROVE FALSE
      OBVIOUS
    <3>1. apc[w] # "idle" /\ aid[w] = batches + 1
      BY <2>1 DEF Begun, SameWorker
    <3> QED BY <1>0, <3>1 DEF ServiceInv, AnchorInv, WorkerInv, WorkerControl, AnchorTypeOK
  <2>5. batches' \in Nat
    BY <1>3 DEF AnchorTypeOK
  <2> QED BY <1>1, <1>3, <2>2, <2>3, <2>4, <2>5, WorkersKept
<1>7. CommitsReachRows'
  <2>1. ASSUME NEW k \in Place, NEW q \in Proc, NEW n \in DOMAIN HeldAt(k, q)
        PROVE  \E j \in Place : HeldAt(j, q)' = HeldAt(k, q)
    <3>1. CASE k = "open" /\ q = p
      <4>1. HeldAt("loop", p)' = abatch'[loop] /\ HeldAt("open", p) = pending[p] /\ "loop" \in Place
        BY DEF HeldAt, loop, Place
      <4> QED BY <1>0, <1>1, <3>1, <4>1 DEF AnchorTypeOK
    <3>2. CASE k = "open" /\ q # p
      BY <1>0, <1>1, <3>2 DEF HeldAt, CHTypeOK, CoreTypeOK
    <3>3. CASE k # "open"
      <4>1. <<q, k>> \in Worker /\ HeldAt(k, q) = abatch[<<q, k>>] /\ HeldAt(k, q)' = abatch'[<<q, k>>]
        BY <3>3 DEF HeldAt, Worker, Place
      <4>2. <<q, k>> # loop
        BY <1>0, <1>1, <2>1, <4>1 DEF WorkerControl
      <4> QED BY <1>0, <1>1, <4>1, <4>2 DEF AnchorTypeOK
    <3> QED BY <3>1, <3>2, <3>3
  <2> QED BY <1>0, <1>1, <2>1, ReachKept
<1> QED BY <1>1, <1>2, <1>3, <1>4, <1>5, <1>6, <1>7, ServiceMoved DEF Place

(* No place gains or loses anything.                                       *)
LEMMA MovesNothing ==
  ASSUME UNCHANGED <<pending, abatch>>, NEW q \in Proc
  PROVE  Moves(q, "open") /\ "open" \in Place
  BY DEF Moves, HeldAt, Place

(* The token comes.                                                        *)
LEMMA ServiceTimestamp ==
  ASSUME ServiceInv, NEW w \in Worker, Timestamp(w), UNCHANGED <<handlerVars, stops>>
  PROVE  ServiceInv'
<1>0. /\ CHTypeOK /\ AnchorTypeOK /\ HandlerInv /\ CommitsReachRows /\ AidsDiffer
      /\ trail \in Seq(Event) /\ \A v \in Worker : WorkerInv(v)
  BY DEF ServiceInv, HandlerInv, OwnerInv, AnswerInv, TypeInv, CHTypeOK, CoreTypeOK, AnchorInv
<1>1. /\ apc[w] = "stamp" /\ apc' = [apc EXCEPT ![w] = "store"]
      /\ UNCHANGED <<trail, batched, pending, first_leaf_ts, life, now, faults>>
      /\ UNCHANGED <<abatch, aid, aidx, atodo, store, batches>>
      /\ UNCHANGED <<pc, home, msg, out, res, reply, staging, stops>>
  BY DEF Timestamp, coreVars, handlerVars
<1>2. CHTypeOK' /\ TasksLeftAlone
  BY <1>0, <1>1 DEF CHTypeOK, CoreTypeOK, TasksLeftAlone
<1>3. AnchorTypeOK' /\ batches' >= batches /\ batches' \in Nat
  BY <1>0, <1>1 DEF AnchorTypeOK
<1>4. PICK q \in Proc : TRUE
  BY ProcAssumption
<1>5. AidsDiffer'
  BY <1>0, <1>1 DEF AidsDiffer, AnchorTypeOK
<1>6. ASSUME NEW v \in Worker PROVE WorkerInv(v)'
  <2>1. CASE v # w
    <3>1. SameWorker(v)
      BY <1>0, <1>1, <2>1 DEF SameWorker, AnchorTypeOK
    <3>2. OthersRows(v) /\ OthersRoots(v)
      BY <1>1 DEF OthersRows, OthersRoots
    <3>3. apc[v] # "idle" /\ v[2] = "flush" => life'[v[1]] = "stopping"
      BY <1>0, <1>1 DEF WorkerInv, WorkerControl
    <3> QED BY <1>0, <1>3, <3>1, <3>2, <3>3, WorkerKept
  <2>2. CASE v = w
    <3>0. /\ apc'[w] = "store" /\ WorkerControl(w) /\ WorkerRows(w) /\ WorkerRoots(w)
          /\ abatch[w] \in Seq(PendingLeaf)
      BY <1>0, <1>1 DEF AnchorTypeOK, WorkerInv
    <3>1. WorkerControl(w)'
      BY <1>1, <3>0 DEF WorkerControl
    <3>2. WorkerRows(w)'
      BY <1>1, <3>0 DEF WorkerRows, Anchored
    <3>3. WorkerRoots(w)'
      BY <1>1, <3>0 DEF WorkerRoots
    <3> QED BY <2>2, <3>1, <3>2, <3>3 DEF WorkerInv
  <2> QED BY <2>1, <2>2
<1>7. CommitsReachRows'
  <2>1. \A k \in Place, p \in Proc : HeldAt(k, p)' = HeldAt(k, p)
    BY <1>1 DEF HeldAt
  <2> QED BY <1>0, <1>1, <2>1, ReachKept
<1> QED BY <1>1, <1>2, <1>3, <1>4, <1>5, <1>6, <1>7, MovesNothing, ServiceMoved

(* An activation that ends: its place is emptied, and no other changes.    *)
LEMMA ForgetEffect ==
  ASSUME AnchorTypeOK, NEW w \in Worker, Forget(w)
  PROVE  /\ Ended(w) /\ \A v \in Worker \ {w} : SameWorker(v)
         /\ apc' \in [Worker -> {"idle", "stamp", "store", "root", "decisions", "mark"}]
         /\ abatch' \in [Worker -> Seq(PendingLeaf)]
         /\ aid' \in [Worker -> Nat] /\ aidx' \in [Worker -> Nat]
         /\ atodo' \in [Worker -> SUBSET Decision]
         /\ pending' = pending =>
              /\ HeldAt(w[2], w[1])' = <<>>
              /\ \A k \in Place, p \in Proc : \/ k = w[2] /\ p = w[1]
                                              \/ HeldAt(k, p)' = HeldAt(k, p)
<1>1. Ended(w) /\ \A v \in Worker \ {w} : SameWorker(v)
  BY DEF AnchorTypeOK, Forget, Ended, SameWorker
<1>2. /\ apc' \in [Worker -> {"idle", "stamp", "store", "root", "decisions", "mark"}]
      /\ abatch' \in [Worker -> Seq(PendingLeaf)]
      /\ aid' \in [Worker -> Nat] /\ aidx' \in [Worker -> Nat]
      /\ atodo' \in [Worker -> SUBSET Decision]
  <2>1. <<>> \in Seq(PendingLeaf)
    OBVIOUS
  <2> QED BY <2>1 DEF AnchorTypeOK, Forget
<1>3. ASSUME pending' = pending, NEW k \in Place, NEW p \in Proc, ~(k = w[2] /\ p = w[1])
      PROVE  HeldAt(k, p)' = HeldAt(k, p)
  <2>1. CASE k = "open"
    BY <1>3, <2>1 DEF HeldAt
  <2>2. CASE k # "open"
    <3>1. <<p, k>> \in Worker \ {w}
      BY <1>3, <2>2, WorkerPlace DEF Place, Worker
    <3> QED BY <1>1, <2>2, <3>1 DEF HeldAt, SameWorker
  <2> QED BY <2>1, <2>2
<1>4. w[2] # "open" /\ <<w[1], w[2]>> = w
  BY WorkerPlace
<1>5. HeldAt(w[2], w[1])' = <<>>
  BY <1>1, <1>4 DEF HeldAt, Ended
<1> QED BY <1>1, <1>2, <1>3, <1>5

(* An await of _close_and_anchor raises.                                   *)
LEMMA ServiceFails ==
  ASSUME ServiceInv, NEW w \in Worker, AnchorFails(w), UNCHANGED <<handlerVars, stops>>
  PROVE  ServiceInv'
<1>0. CHTypeOK /\ AnchorTypeOK /\ HandlerInv /\ CommitsReachRows /\ \A v \in Worker : WorkerInv(v)
  BY DEF ServiceInv, HandlerInv, OwnerInv, AnswerInv, TypeInv, AnchorInv
<1>1. /\ Forget(w) /\ faults < MaxFaults /\ faults' = faults + 1
      /\ UNCHANGED <<trail, batched, pending, first_leaf_ts, life, now, store, batches>>
      /\ UNCHANGED <<pc, home, msg, out, res, reply, staging, stops>>
  BY DEF AnchorFails, Fault, handlerVars
<1>2. faults' \in 0..MaxFaults /\ faults' # 0
  BY <1>0, <1>1, BoundAssumption DEF CHTypeOK, CoreTypeOK
<1>3. CHTypeOK' /\ TasksLeftAlone
  BY <1>0, <1>1, <1>2 DEF CHTypeOK, CoreTypeOK, TasksLeftAlone
<1>4. AnchorTypeOK' /\ batches' >= batches /\ batches' \in Nat
  BY <1>0, <1>1, ForgetEffect DEF AnchorTypeOK
<1>5. Ended(w) /\ \A v \in Worker \ {w} : Undisturbed(v)
  BY <1>0, <1>1, ForgetEffect DEF Undisturbed, WorkerInv, WorkerControl
<1>6. \A v \in Worker : ~Begun(v)
  BY <1>0, <1>1 DEF Begun, AnchorTypeOK
<1>7. (\A v \in Worker : WorkerInv(v)') /\ AidsDiffer'
  BY <1>1, <1>4, <1>5, <1>6, WorkersKept
<1>8. PICK q \in Proc : TRUE
  BY ProcAssumption
<1>9. "open" \in Place
  BY DEF Place
<1>10. Moves(q, "open")
  BY <1>0, <1>1, ForgetEffect, WorkerPlace DEF Moves
<1>11. CommitsReachRows'
  BY <1>2 DEF CommitsReachRows
<1> QED BY <1>1, <1>3, <1>4, <1>7, <1>9, <1>10, <1>11, ServiceMoved

(* The finally block of lifespan: the loop is cancelled, and the flush     *)
(* takes the open batch.                                                   *)
LEMMA ServiceShutdown ==
  ASSUME ServiceInv, NEW p \in Proc, Shutdown(p)
  PROVE  ServiceInv'
<1> DEFINE loop == <<p, "loop">>
           flush == <<p, "flush">>
<1>0. /\ CHTypeOK /\ AnchorTypeOK /\ HandlerInv /\ CommitsReachRows
      /\ pending[p] \in Seq(PendingLeaf) /\ batches \in Nat /\ stops \in Nat
      /\ \A v \in Worker : WorkerControl(v)
  BY DEF ServiceInv, HandlerInv, OwnerInv, AnswerInv, TypeInv, AnchorInv, AnchorTypeOK, CHTypeOK,
         CoreTypeOK, WorkerInv
<1>1. /\ loop \in Worker /\ flush \in Worker /\ loop # flush
      /\ loop[1] = p /\ flush[1] = p /\ loop[2] = "loop" /\ flush[2] = "flush"
      /\ \A v \in Worker \ {loop, flush} : v[1] # p
  BY DEF Worker
<1>2. /\ life[p] = "up" /\ stops' = stops + 1 /\ life' = [life EXCEPT ![p] = "stopping"]
      /\ apc' = [apc EXCEPT ![loop] = "idle", ![flush] = IF HasPending(p) THEN "stamp" ELSE "idle"]
      /\ abatch' = [abatch EXCEPT ![loop] = <<>>, ![flush] = pending[p]]
      /\ aid' = [aid EXCEPT ![loop] = 0, ![flush] = IF HasPending(p) THEN batches + 1 ELSE 0]
      /\ aidx' = [aidx EXCEPT ![loop] = 0]
      /\ atodo' = [atodo EXCEPT ![loop] = {}]
      /\ batches' = IF HasPending(p) THEN batches + 1 ELSE batches
      /\ ResetBuilder(p)
      /\ UNCHANGED <<trail, batched, now, faults, store>>
      /\ UNCHANGED <<pc, home, msg, out, res, reply, staging>>
  BY DEF Shutdown, handlerVars
<1> HIDE DEF loop, flush
<1>3. CHTypeOK'
  <2>1. life' \in [Proc -> {"up", "stopping", "down"}]
    BY <1>0, <1>2 DEF CHTypeOK, CoreTypeOK
  <2> QED BY <1>0, <1>2, <2>1, TypeEnded DEF CHTypeOK, CoreTypeOK
<1>4. TasksLeftAlone
  BY <1>2 DEF TasksLeftAlone
<1>5. AnchorTypeOK' /\ batches' >= batches /\ batches' \in Nat
  <2>1. apc' \in [Worker -> {"idle", "stamp", "store", "root", "decisions", "mark"}]
    BY <1>0, <1>1, <1>2 DEF AnchorTypeOK
  <2>2. abatch' \in [Worker -> Seq(PendingLeaf)]
    <3>1. abatch \in [Worker -> Seq(PendingLeaf)] /\ <<>> \in Seq(PendingLeaf)
      BY <1>0 DEF AnchorTypeOK
    <3> QED BY <1>0, <1>2, <3>1
  <2>3. aid' \in [Worker -> Nat] /\ aidx' \in [Worker -> Nat]
    <3>1. (IF HasPending(p) THEN batches + 1 ELSE 0) \in Nat
      BY <1>0
    <3>2. aid \in [Worker -> Nat] /\ aidx \in [Worker -> Nat]
      BY <1>0 DEF AnchorTypeOK
    <3>3. aid' \in [Worker -> Nat]
      BY <1>2, <3>1, <3>2
    <3>4. aidx' \in [Worker -> Nat]
      BY <1>2, <3>2
    <3> QED BY <3>3, <3>4
  <2>4. atodo' \in [Worker -> SUBSET Decision]
    <3>1. atodo \in [Worker -> SUBSET Decision] /\ {} \in SUBSET Decision
      BY <1>0 DEF AnchorTypeOK
    <3> QED BY <1>2, <3>1
  <2>5. batches' \in Nat /\ batches' >= batches /\ stops' \in Nat
    BY <1>0, <1>2
  <2> QED BY <2>1, <2>2, <2>3, <2>4, <2>5 DEF AnchorTypeOK
<1>6. \A v \in Worker \ {loop, flush} : SameWorker(v)
  BY <1>0, <1>1, <1>2 DEF SameWorker, AnchorTypeOK
<1>7. \A v \in Worker \ {loop, flush} : Undisturbed(v)
  <2> SUFFICES ASSUME NEW v \in Worker \ {loop, flush}, apc[v] # "idle", v[2] = "flush"
               PROVE  life'[v[1]] = "stopping"
    BY <1>6 DEF Undisturbed
  <2>1. v[1] # p /\ v[1] \in Proc
    BY <1>1, WorkerPlace
  <2> QED BY <1>0, <1>2, <2>1 DEF WorkerControl, CHTypeOK, CoreTypeOK
<1>8. Ended(loop)
  BY <1>0, <1>1, <1>2 DEF Ended, AnchorTypeOK
<1>9. apc[flush] = "idle" /\ aidx[flush] = 0 /\ atodo[flush] = {}
  BY <1>0, <1>1, <1>2 DEF WorkerControl
<1>10. /\ abatch'[flush] = pending[p] /\ aidx'[flush] = 0 /\ atodo'[flush] = {}
       /\ apc'[flush] = IF HasPending(p) THEN "stamp" ELSE "idle"
       /\ aid'[flush] = IF HasPending(p) THEN batches + 1 ELSE 0
       /\ life'[p] = "stopping"
  BY <1>0, <1>1, <1>2, <1>9 DEF AnchorTypeOK, CHTypeOK, CoreTypeOK
<1>11. Ended(flush) \/ Begun(flush)
  BY <1>1, <1>2, <1>10 DEF Ended, Begun, HasPending
<1>12. \A v, w \in Worker : Begun(v) /\ Begun(w) => v = w
  <2> SUFFICES ASSUME NEW v \in Worker, Begun(v) PROVE v = flush
    OBVIOUS
  <2>1. v # loop
    BY <1>8 DEF Ended, Begun
  <2>2. ~SameWorker(v)
    <3>1. apc'[v] = "stamp" /\ aid'[v] = batches + 1
      BY DEF Begun
    <3> QED BY <1>0, <3>1 DEF SameWorker, WorkerControl
  <2> QED BY <1>6, <2>1, <2>2
<1>13. (\A w \in Worker : WorkerInv(w)') /\ AidsDiffer'
  BY <1>2, <1>5, <1>7, <1>8, <1>11, <1>12, WorkersKept
<1>14. Moves(p, "flush")
  <2> SUFFICES ASSUME NEW k \in Place, NEW q \in Proc
               PROVE  \/ HeldAt(k, q)' = <<>>
                      \/ k = "flush" /\ q = p /\ HeldAt(k, q)' = HeldAt("open", q)
                      \/ ~(k = "open" /\ q = p) /\ HeldAt(k, q)' = HeldAt(k, q)
    BY DEF Moves
  <2>1. CASE k = "open"
    BY <1>0, <1>2, <2>1 DEF HeldAt, CHTypeOK, CoreTypeOK, ResetBuilder
  <2>2. CASE k # "open"
    <3>1. <<q, k>> \in Worker /\ HeldAt(k, q) = abatch[<<q, k>>] /\ HeldAt(k, q)' = abatch'[<<q, k>>]
      BY <2>2 DEF HeldAt, Worker, Place
    <3>2. CASE <<q, k>> = loop
      BY <1>8, <3>1, <3>2 DEF Ended
    <3>3. CASE <<q, k>> = flush
      BY <1>10, <3>1, <3>3 DEF flush, HeldAt
    <3>4. CASE <<q, k>> # loop /\ <<q, k>> # flush
      BY <1>6, <2>2, <3>1, <3>4 DEF SameWorker
    <3> QED BY <3>2, <3>3, <3>4
  <2> QED BY <2>1, <2>2
<1>15. CommitsReachRows'
  BY <1>0, <1>2 DEF CommitsReachRows
<1> QED BY <1>2, <1>3, <1>4, <1>5, <1>13, <1>14, <1>15, ServiceMoved DEF Place

(* A process that ends takes its batches, workers and tasks with it.       *)
LEMMA ServiceVanish ==
  ASSUME ServiceInv, NEW p \in Proc, Vanish(p), stops' = stops, faults' \in 0..MaxFaults,
         faults' = 0 => faults = 0 /\ life[p] # "up"
  PROVE  ServiceInv'
<1>0. /\ CHTypeOK /\ AnchorTypeOK /\ CommitsReachRows /\ batches \in Nat
      /\ \A v \in Worker : WorkerControl(v)
  BY DEF ServiceInv, HandlerInv, OwnerInv, AnswerInv, TypeInv, AnchorInv, AnchorTypeOK, WorkerInv
<1>1. /\ life' = [life EXCEPT ![p] = "down"] /\ ResetBuilder(p)
      /\ pc' = [t \in Task |-> IF home[t] = p /\ Running(t) THEN "failed" ELSE pc[t]]
      /\ UNCHANGED <<trail, batched, now, home, msg, out, res, reply, store, batches>>
  BY DEF Vanish
<1>2. \A t \in Task : pc'[t] = pc[t] \/ (pc'[t] = "failed" /\ Running(t))
  BY <1>1
<1>3. TasksLeftAlone
  BY <1>1, <1>2 DEF TasksLeftAlone
<1>4. CHTypeOK'
  <2>1. life' \in [Proc -> {"up", "stopping", "down"}]
    BY <1>0, <1>1 DEF CHTypeOK, CoreTypeOK
  <2>2. pc' \in [Task -> {"idle", "append", "appended", "done", "failed"}]
    BY <1>0, <1>1 DEF CHTypeOK
  <2>3. staging' \in [Proc -> [Decision \X Metric -> Status]]
    BY <1>0 DEF Vanish, CHTypeOK, Status
  <2> QED BY <1>0, <1>1, <2>1, <2>2, <2>3, TypeEnded
<1>5. AnchorTypeOK' /\ batches' \in Nat /\ batches' >= batches
  <2>1. <<>> \in Seq(PendingLeaf) /\ 0 \in Nat
    OBVIOUS
  <2> QED BY <1>0, <2>1 DEF Vanish, AnchorTypeOK
<1>6. \A w \in Worker : w[1] = p => Ended(w)
  BY DEF Vanish, Ended
<1>7. \A w \in Worker : w[1] # p => SameWorker(w)
  BY DEF Vanish, SameWorker
<1>8. \A w \in Worker : w[1] # p => Undisturbed(w)
  BY <1>0, <1>1, <1>7, WorkerPlace DEF Undisturbed, WorkerControl, CHTypeOK, CoreTypeOK
<1>9. \A w \in Worker : ~Begun(w)
  BY <1>0, <1>1 DEF Begun
<1>10. (\A w \in Worker : WorkerInv(w)') /\ AidsDiffer'
  BY <1>1, <1>5, <1>6, <1>8, <1>9, WorkersKept
<1>11. Moves(p, "open") /\ "open" \in Place
  <2> SUFFICES ASSUME NEW k \in Place, NEW q \in Proc
               PROVE  \/ HeldAt(k, q)' = <<>>
                      \/ q # p /\ HeldAt(k, q)' = HeldAt(k, q)
    BY DEF Moves, Place
  <2>1. CASE k = "open"
    BY <1>0, <1>1, <2>1 DEF HeldAt, CHTypeOK, CoreTypeOK, ResetBuilder
  <2>2. CASE k # "open"
    <3>1. <<q, k>> \in Worker /\ HeldAt(k, q) = abatch[<<q, k>>] /\ HeldAt(k, q)' = abatch'[<<q, k>>]
      BY <2>2 DEF HeldAt, Worker, Place
    <3>2. <<q, k>>[1] = q
      OBVIOUS
    <3> QED BY <1>6, <1>7, <3>1, <3>2 DEF Ended, SameWorker
  <2> QED BY <2>1, <2>2
<1>12. CommitsReachRows'
  BY <1>0 DEF CommitsReachRows
<1> QED BY <1>1, <1>3, <1>4, <1>5, <1>10, <1>11, <1>12, ServiceMoved

(* A process starts with the empty builder and idle workers it has.        *)
LEMMA ServiceStart ==
  ASSUME ServiceInv, NEW p \in Proc, Start(p)
  PROVE  ServiceInv'
<1>0. /\ CHTypeOK /\ AnchorTypeOK /\ CommitsReachRows /\ batches \in Nat
      /\ \A v \in Worker : WorkerControl(v)
  BY DEF ServiceInv, HandlerInv, OwnerInv, AnswerInv, TypeInv, AnchorInv, AnchorTypeOK, WorkerInv
<1>1. /\ life[p] = "down" /\ life' = [life EXCEPT ![p] = "up"]
      /\ UNCHANGED <<trail, batched, pending, first_leaf_ts, now, faults>>
      /\ UNCHANGED <<pc, home, msg, out, res, reply, staging, stops>>
      /\ UNCHANGED <<apc, abatch, aid, aidx, atodo, store, batches>>
  BY DEF Start, handlerVars, anchorVars
<1>2. CHTypeOK' /\ TasksLeftAlone
  <2>1. life' \in [Proc -> {"up", "stopping", "down"}]
    BY <1>0, <1>1 DEF CHTypeOK, CoreTypeOK
  <2> QED BY <1>0, <1>1, <2>1 DEF CHTypeOK, CoreTypeOK, TasksLeftAlone
<1>3. AnchorTypeOK' /\ batches' >= batches /\ batches' \in Nat
  BY <1>0, <1>1 DEF AnchorTypeOK
<1>4. \A w \in Worker : Undisturbed(w)
  BY <1>0, <1>1, WorkerPlace DEF Undisturbed, SameWorker, WorkerControl, CHTypeOK, CoreTypeOK
<1>5. \A w \in Worker : ~Begun(w)
  BY <1>0, <1>1 DEF Begun
<1>6. (\A w \in Worker : WorkerInv(w)') /\ AidsDiffer'
  BY <1>1, <1>3, <1>4, <1>5, WorkersKept
<1>7. CommitsReachRows'
  BY <1>0, <1>1 DEF CommitsReachRows
<1> QED BY <1>1, <1>2, <1>3, <1>6, <1>7, MovesNothing, ServiceMoved

-------------------------------------------------------------------------------
(* Steps of a worker that store, publish or mark.                          *)

(* A row is written.                                                       *)
LEMMA ServiceStored ==
  ASSUME ServiceInv, NEW w \in Worker, StoreProof(w), UNCHANGED <<handlerVars, stops>>
  PROVE  ServiceInv'
<1>0. /\ CHTypeOK /\ AnchorTypeOK /\ HandlerInv /\ HoldInv /\ CommitsReachRows /\ AidsDiffer
      /\ StoreInv /\ RootsInv /\ BatchedIsProvable
      /\ trail \in Seq(Event) /\ \A v \in Worker : WorkerInv(v)
  BY DEF ServiceInv, HandlerInv, OwnerInv, AnswerInv, TypeInv, CHTypeOK, CoreTypeOK, AnchorInv
<1>1. PICK i : i = aidx[w] + 1
  OBVIOUS
<1>2. PICK l : l = abatch[w][i].leaf_hash
  OBVIOUS
<1>3. /\ apc[w] = "store" /\ aidx' = [aidx EXCEPT ![w] = i]
      /\ apc' = [apc EXCEPT ![w] = IF i = Len(abatch[w]) THEN "root" ELSE "store"]
      /\ UNCHANGED <<trail, batched, pending, first_leaf_ts, life, now, faults>>
      /\ UNCHANGED <<abatch, aid, atodo, batches>>
      /\ UNCHANGED <<pc, home, msg, out, res, reply, staging, stops>>
  BY <1>1, <1>2 DEF StoreProof, LastRow, coreVars, handlerVars
<1>4. /\ i \in DOMAIN abatch[w] /\ i \in Nat
      /\ l \in Leaf /\ l \notin DOMAIN store
      /\ \E c \in Committed : trail[c].leaf = l
      /\ DOMAIN store' = DOMAIN store \cup {l}
      /\ store'[l] = Row(abatch[w], i, aid[w])
      /\ \A k \in DOMAIN store : store'[k] = store[k]
  <2>1. /\ aidx[w] + 1 \in DOMAIN abatch[w] /\ aidx[w] \in Nat
        /\ abatch[w][aidx[w] + 1].leaf_hash \in Leaf
        /\ abatch[w][aidx[w] + 1].leaf_hash \notin DOMAIN store
        /\ \E c \in Committed : trail[c].leaf = abatch[w][aidx[w] + 1].leaf_hash
        /\ DOMAIN store' = DOMAIN store \cup {abatch[w][aidx[w] + 1].leaf_hash}
        /\ store'[abatch[w][aidx[w] + 1].leaf_hash] = Row(abatch[w], aidx[w] + 1, aid[w])
        /\ \A k \in DOMAIN store : store'[k] = store[k]
    BY NextRow
  <2> QED BY <1>1, <1>2, <2>1
<1>5. store'[l].batch_id = aid[w] /\ store'[l].root = RootOf(BatchLevels(abatch[w]))
  BY <1>4 DEF Row
<1>6. /\ abatch[w] \in Seq(PendingLeaf) /\ aid[w] \in 1..batches /\ aidx[w] \in Nat
      /\ aidx[w] < Len(abatch[w]) /\ WorkerControl(w) /\ WorkerRows(w) /\ WorkerRoots(w)
  BY <1>0, <1>3 DEF AnchorTypeOK, WorkerInv, WorkerControl
<1>7. CHTypeOK' /\ TasksLeftAlone
  BY <1>0, <1>3 DEF CHTypeOK, CoreTypeOK, TasksLeftAlone
<1>8. HandlerInv'
  BY <1>0, <1>3, <1>7, HandlerKept
<1>9. HoldInv'
  BY HoldStored
<1>10. AnchorTypeOK' /\ batches' \in Nat /\ batches' >= batches
  <2>1. apc' \in [Worker -> {"idle", "stamp", "store", "root", "decisions", "mark"}]
    BY <1>0, <1>3 DEF AnchorTypeOK
  <2>2. aidx' \in [Worker -> Nat]
    BY <1>0, <1>3, <1>4 DEF AnchorTypeOK
  <2> QED BY <1>0, <1>3, <2>1, <2>2 DEF AnchorTypeOK
<1>11. AidsDiffer'
  BY <1>0, <1>3 DEF AidsDiffer, AnchorTypeOK
<1>12. \A v \in Worker : \A n \in DOMAIN abatch[v] : abatch[v][n].leaf_hash = l => v = w /\ n = i
  <2> SUFFICES ASSUME NEW v \in Worker, NEW n \in DOMAIN abatch[v], abatch[v][n].leaf_hash = l
               PROVE  v = w /\ n = i
    OBVIOUS
  <2>1. v[2] = w[2] /\ v[1] = w[1] /\ n = i
    BY <1>0, <1>2, <1>4, WorkerPlace, HeldLeavesDiffer
  <2> QED BY <2>1, WorkerPlace
<1>13. ASSUME NEW v \in Worker PROVE WorkerInv(v)'
  <2>1. CASE v # w
    <3>1. SameWorker(v)
      BY <1>0, <1>3, <2>1 DEF SameWorker, AnchorTypeOK
    <3>2. OthersRows(v)
      BY <1>0, <1>3, <1>4, <1>5, <1>12, <2>1 DEF OthersRows, AidsDiffer
    <3>3. OthersRoots(v)
      BY <1>3 DEF OthersRoots
    <3>4. apc[v] # "idle" /\ v[2] = "flush" => life'[v[1]] = "stopping"
      BY <1>0, <1>3 DEF WorkerInv, WorkerControl
    <3> QED BY <1>0, <1>10, <3>1, <3>2, <3>3, <3>4, WorkerKept
  <2>2. CASE v = w
    <3>0. /\ aidx'[w] = i /\ apc'[w] = IF i = Len(abatch[w]) THEN "root" ELSE "store"
      BY <1>0, <1>3 DEF AnchorTypeOK
    <3>1. WorkerControl(w)'
      BY <1>1, <1>3, <1>6, <3>0 DEF WorkerControl
    <3>2. ASSUME NEW n \in DOMAIN abatch[w]
          PROVE  LET k == abatch[w][n].leaf_hash IN
                   IF n <= i
                     THEN /\ k \in DOMAIN store'
                          /\ store'[k].batch_id = aid[w] /\ store'[k].root = RootOf(BatchLevels(abatch[w]))
                     ELSE k \notin DOMAIN store'
      <4>1. CASE n <= aidx[w]
        <5>1. LET k == abatch[w][n].leaf_hash IN
                /\ k \in DOMAIN store
                /\ store[k].batch_id = aid[w] /\ store[k].root = RootOf(BatchLevels(abatch[w]))
          BY <1>6, <4>1 DEF WorkerRows, Anchored
        <5>2. n <= i
          BY <1>1, <1>6, <4>1
        <5> QED BY <1>4, <5>1, <5>2
      <4>2. CASE n = i
        BY <1>1, <1>2, <1>4, <1>5, <1>6, <4>2
      <4>3. CASE ~(n <= i)
        <5>1. ~(n <= aidx[w])
          BY <1>1, <1>6, <4>3
        <5>2. abatch[w][n].leaf_hash \notin DOMAIN store
          BY <1>6, <5>1 DEF WorkerRows, Anchored
        <5>3. abatch[w][n].leaf_hash # l
          BY <1>12, <4>3, <1>4
        <5> QED BY <1>4, <4>3, <5>2, <5>3
      <4> QED BY <1>1, <1>6, <4>1, <4>2, <4>3
    <3>3. ASSUME NEW k \in DOMAIN store', store'[k].batch_id = aid[w]
          PROVE  \E n \in DOMAIN abatch[w] : n <= i /\ k = abatch[w][n].leaf_hash
      <4>1. CASE k = l
        BY <1>2, <1>4, <4>1
      <4>2. CASE k # l
        <5>1. k \in DOMAIN store /\ store[k].batch_id = aid[w]
          BY <1>4, <3>3, <4>2
        <5>2. PICK n \in DOMAIN abatch[w] : n <= aidx[w] /\ k = abatch[w][n].leaf_hash
          BY <1>3, <1>6, <5>1 DEF WorkerRows
        <5>3. n <= i
          BY <1>1, <1>6, <5>2
        <5> QED BY <5>2, <5>3
      <4> QED BY <4>1, <4>2
    <3>4. WorkerRows(w)'
      BY <1>3, <3>0, <3>2, <3>3 DEF WorkerRows, Anchored, BatchLevels
    <3>5. WorkerRoots(w)'
      BY <1>3, <1>6, <3>0 DEF WorkerRoots
    <3> QED BY <2>2, <3>1, <3>4, <3>5 DEF WorkerInv
  <2> QED BY <2>1, <2>2
<1>14. StoreInv'
  <2>1. ASSUME NEW k \in DOMAIN store, store[k].batch_id = aid[w]
        PROVE  store[k].root = RootOf(BatchLevels(abatch[w]))
    <3>1. PICK n \in DOMAIN abatch[w] : n <= aidx[w] /\ k = abatch[w][n].leaf_hash
      BY <1>3, <1>6, <2>1 DEF WorkerRows
    <3> QED BY <1>6, <3>1 DEF WorkerRows
  <2>2. \A k \in DOMAIN store' :
          /\ k \in Leaf
          /\ store'[k].batch_id \in 1..batches
          /\ \E c \in Committed : trail[c].leaf = k
    BY <1>0, <1>4, <1>5, <1>6 DEF StoreInv
  <2>3. \A j, k \in DOMAIN store' : store'[j].batch_id = store'[k].batch_id => store'[j].root = store'[k].root
    <3>1. \A k \in DOMAIN store : store'[k].batch_id = aid[w] => store'[k].root = RootOf(BatchLevels(abatch[w]))
      BY <1>4, <2>1
    <3> QED BY <1>0, <1>4, <1>5, <3>1 DEF StoreInv
  <2> QED BY <1>3, <2>2, <2>3 DEF StoreInv, Committed
<1>15. RootsInv'
  <2>1. ASSUME NEW j \in DOMAIN trail, trail[j].type = "MerkleRootPublished"
        PROVE  {k \in DOMAIN store' : store'[k].batch_id = trail[j].batch}
                 = {k \in DOMAIN store : store[k].batch_id = trail[j].batch}
    <3>1. trail[j].batch # aid[w]
      BY <1>3, <1>6, <2>1 DEF WorkerRoots, IsRoot
    <3> QED BY <1>4, <1>5, <3>1
  <2> QED BY <1>0, <1>3, <2>1 DEF RootsInv, RootCountsRows
<1>16. BatchedIsProvable'
  <2>1. TrailExtends
    BY <1>3 DEF TrailExtends
  <2> QED BY <1>0, <1>3, <1>4, <2>1, BatchedKept
<1>17. CommitsReachRows'
  <2>1. \A k \in Place, p \in Proc : HeldAt(k, p)' = HeldAt(k, p)
    BY <1>3 DEF HeldAt
  <2> QED BY <1>0, <1>3, <1>4, <2>1, ReachKept
<1> QED BY <1>8, <1>9, <1>10, <1>11, <1>13, <1>14, <1>15, <1>16, <1>17 DEF ServiceInv, AnchorInv

(* A worker that has stored all of its rows has as many rows as leaves.    *)
LEMMA RowsCounted ==
  ASSUME ServiceInv, NEW w \in Worker, apc[w] # "idle", aidx[w] = Len(abatch[w])
  PROVE  Cardinality(RowsOf(aid[w])) = Len(abatch[w]) /\ Len(abatch[w]) \in Nat
<1> DEFINE N == Len(abatch[w])
           f == [n \in 1..N |-> abatch[w][n].leaf_hash]
           S == RowsOf(aid[w])
<1>0. /\ HandlerInv /\ HoldInv /\ WorkerRows(w) /\ abatch[w] \in Seq(PendingLeaf)
  BY DEF ServiceInv, AnchorInv, AnchorTypeOK, WorkerInv
<1>1. N \in Nat /\ DOMAIN abatch[w] = 1..N /\ \A n \in 1..N : n <= aidx[w]
  BY <1>0
<1>2. f \in [1..N -> S]
  <2> SUFFICES ASSUME NEW n \in 1..N PROVE abatch[w][n].leaf_hash \in S
    OBVIOUS
  <2> QED BY <1>0, <1>1 DEF WorkerRows, Anchored, RowsOf
<1>3. \A m, n \in 1..N : f[m] = f[n] => m = n
  <2> SUFFICES ASSUME NEW m \in 1..N, NEW n \in 1..N,
                      abatch[w][m].leaf_hash = abatch[w][n].leaf_hash
               PROVE  m = n
    OBVIOUS
  <2> QED BY <1>0, <1>1, WorkerPlace, HeldLeavesDiffer
<1>4. \A l \in S : \E n \in 1..N : f[n] = l
  <2> SUFFICES ASSUME NEW l \in S PROVE \E n \in 1..N : abatch[w][n].leaf_hash = l
    OBVIOUS
  <2> QED BY <1>0, <1>1 DEF WorkerRows, RowsOf
<1> HIDE DEF f, S, N
<1>5. ExistsBijection(1..N, S)
  BY <1>2, <1>3, <1>4 DEF ExistsBijection, Bijection, Injection, IsInjective, Surjection
<1>6. IsFiniteSet(1..N) /\ Cardinality(1..N) = N
  BY <1>1, IntervalCounted
<1>7. Cardinality(S) = N
  BY <1>5, <1>6, FS_Bijection
<1> QED BY <1>1, <1>7 DEF S, N

(* A root event is published, for "system" or for a decision.              *)
LEMMA ServicePublished ==
  ASSUME ServiceInv, NEW w \in Worker, NEW d \in Decision \cup {System},
         NEW todo \in SUBSET Decision, NEW at \in {"decisions", "mark"},
         apc[w] \in {"root", "decisions"},
         AppendEvent(RootEvent(d, aid[w], Len(abatch[w]))),
         apc' = [apc EXCEPT ![w] = at], atodo' = [atodo EXCEPT ![w] = todo],
         at = "mark" => todo = {},
         \A e \in {System} \cup (DecisionsOf(abatch[w]) \ todo) :
           \/ e = d
           \/ apc[w] = "decisions" /\ e \in {System} \cup (DecisionsOf(abatch[w]) \ atodo[w]),
         UNCHANGED <<batched, pending, first_leaf_ts, life, now, faults>>,
         UNCHANGED <<abatch, aid, aidx, store, batches>>, UNCHANGED <<handlerVars, stops>>
  PROVE  ServiceInv'
<1>0. /\ CHTypeOK /\ AnchorTypeOK /\ HandlerInv /\ HoldInv /\ CommitsReachRows /\ AidsDiffer
      /\ StoreInv /\ RootsInv /\ BatchedIsProvable
      /\ trail \in Seq(Event) /\ \A v \in Worker : WorkerInv(v)
  BY DEF ServiceInv, HandlerInv, OwnerInv, AnswerInv, TypeInv, CHTypeOK, CoreTypeOK, AnchorInv
<1>1. /\ aid[w] \in 1..batches /\ aid[w] \in Nat /\ aidx[w] = Len(abatch[w]) /\ Len(abatch[w]) \in Nat
      /\ WorkerControl(w) /\ WorkerRows(w) /\ WorkerRoots(w) /\ apc[w] # "idle"
  BY <1>0 DEF WorkerInv, WorkerControl, AnchorTypeOK
<1>2. PICK ev : ev = RootEvent(d, aid[w], Len(abatch[w]))
  OBVIOUS
<1>3. /\ Rooted(ev) /\ IsRoot(ev, aid[w]) /\ ev.decision = d /\ ev.leaf_count = Len(abatch[w])
      /\ ev \in Event /\ trail' = Append(trail, ev)
  <2>1. /\ Rooted(RootEvent(d, aid[w], Len(abatch[w])))
        /\ IsRoot(RootEvent(d, aid[w], Len(abatch[w])), aid[w])
        /\ RootEvent(d, aid[w], Len(abatch[w])).decision = d
        /\ RootEvent(d, aid[w], Len(abatch[w])).leaf_count = Len(abatch[w])
    BY <1>1, RootAppended
  <2> QED BY <1>2, <2>1 DEF Rooted
<1>4. /\ DOMAIN trail' = DOMAIN trail \cup {Len(trail) + 1} /\ trail'[Len(trail) + 1] = ev
      /\ \A i \in DOMAIN trail : trail'[i] = trail[i]
  BY <1>0, <1>3, TrailGrows
<1>5. TrailExtends
  BY <1>3 DEF TrailExtends
<1>6. CHTypeOK' /\ TasksLeftAlone
  <2>1. trail' \in Seq(Event) /\ batched \subseteq DOMAIN trail'
    BY <1>0, <1>3, <1>4 DEF CHTypeOK, CoreTypeOK
  <2> QED BY <1>0, <2>1 DEF CHTypeOK, CoreTypeOK, TasksLeftAlone, handlerVars
<1>7. HandlerInv'
  BY <1>0, <1>3, <1>6, HandlerKept
<1>8. HoldInv'
  <2>1. PICK q \in Proc : TRUE
    BY ProcAssumption
  <2>2. \A u \in Task : Owner(u)' => Owner(u) /\ res'[u] = res[u] /\ out'[u] = out[u]
    BY DEF Owner, handlerVars
  <2> QED BY <1>0, <1>3, <2>2, MovesNothing, HoldMoved
<1>9. AnchorTypeOK' /\ batches' \in Nat /\ batches' >= batches
  BY <1>0 DEF AnchorTypeOK
<1>10. AidsDiffer'
  BY <1>0, <1>1 DEF AidsDiffer, AnchorTypeOK
<1>11. ASSUME NEW v \in Worker PROVE WorkerInv(v)'
  <2>1. CASE v # w
    <3>1. SameWorker(v) /\ OthersRows(v)
      BY <1>0, <2>1 DEF SameWorker, AnchorTypeOK, OthersRows
    <3>2. OthersRoots(v)
      <4>1. apc[v] # "idle" => ~IsRoot(ev, aid[v])
        BY <1>0, <1>1, <1>3, <2>1 DEF AidsDiffer, IsRoot
      <4> QED BY <1>3, <4>1 DEF OthersRoots
    <3>3. apc[v] # "idle" /\ v[2] = "flush" => life'[v[1]] = "stopping"
      BY <1>0 DEF WorkerInv, WorkerControl
    <3> QED BY <1>0, <1>9, <3>1, <3>2, <3>3, WorkerKept
  <2>2. CASE v = w
    <3>0. apc'[w] = at /\ atodo'[w] = todo
      BY <1>0 DEF AnchorTypeOK
    <3>1. WorkerControl(w)'
      BY <1>1, <3>0 DEF WorkerControl
    <3>2. WorkerRows(w)'
      BY <1>1, <3>0 DEF WorkerRows, Anchored
    <3>3. WorkerRoots(w)'
      <4>1. \A b : b = aid[w] => Published(d, b)'
        BY <1>3, <1>4 DEF Published
      <4>2. \A e, b : Published(e, b) => Published(e, b)'
        BY <1>0, <1>5, TrailExtended
      <4>3. \A b : b = aid[w] =>
              \A e \in {System} \cup (DecisionsOf(abatch[w]) \ todo) : Published(e, b)'
        BY <1>1, <4>1, <4>2 DEF WorkerRoots
      <4>4. DecisionsOf(abatch[w])' = DecisionsOf(abatch[w]) /\ aid'[w] = aid[w]
        BY DEF DecisionsOf
      <4> QED BY <3>0, <4>3, <4>4 DEF WorkerRoots
    <3> QED BY <2>2, <3>1, <3>2, <3>3 DEF WorkerInv
  <2> QED BY <2>1, <2>2
<1>12. StoreInv'
  BY <1>0, <1>5, <1>9, StoreKept
<1>13. RootsInv'
  <2>1. Cardinality({l \in DOMAIN store : store[l].batch_id = aid[w]}) = Len(abatch[w])
    BY <1>1, RowsCounted DEF RowsOf
  <2>2. RootCountsRows'
    <3> SUFFICES ASSUME NEW i \in DOMAIN trail', trail'[i].type = "MerkleRootPublished"
                 PROVE  Cardinality({l \in DOMAIN store : store[l].batch_id = trail'[i].batch})
                          = trail'[i].leaf_count
      BY DEF RootCountsRows
    <3>1. CASE i \in DOMAIN trail
      BY <1>0, <1>4, <3>1 DEF RootsInv, RootCountsRows
    <3>2. CASE i = Len(trail) + 1
      BY <1>3, <1>4, <2>1, <3>2 DEF IsRoot
    <3> QED BY <1>4, <3>1, <3>2
  <2> QED BY <1>0, <1>1, <1>3, <1>4, <2>2 DEF RootsInv, IsRoot
<1>14. BatchedIsProvable'
  BY <1>0, <1>5, BatchedKept
<1>15. CommitsReachRows'
  <2>1. \A k \in Place, p \in Proc : HeldAt(k, p)' = HeldAt(k, p)
    BY DEF HeldAt
  <2> QED BY <1>0, <1>3, <2>1, ReachKept DEF handlerVars
<1> QED BY <1>7, <1>8, <1>9, <1>10, <1>11, <1>12, <1>13, <1>14, <1>15 DEF ServiceInv, AnchorInv

(* publish of the root under "system", then under each decision.           *)
LEMMA ServicePublish ==
  ASSUME ServiceInv, NEW w \in Worker, PublishSystem(w) \/ PublishDecision(w),
         UNCHANGED <<handlerVars, stops>>
  PROVE  ServiceInv'
<1>0. abatch[w] \in Seq(PendingLeaf) /\ atodo[w] \in SUBSET Decision
  BY DEF ServiceInv, AnchorInv, AnchorTypeOK
<1>1. DecisionsOf(abatch[w]) \in SUBSET Decision
  <2>1. \A n \in DOMAIN abatch[w] : abatch[w][n] \in PendingLeaf
    BY <1>0
  <2> QED BY <2>1 DEF DecisionsOf, PendingLeaf
<1>2. CASE PublishSystem(w)
  <2>1. \A e \in {System} \cup (DecisionsOf(abatch[w]) \ DecisionsOf(abatch[w])) : e = System
    OBVIOUS
  <2> QED BY <1>1, <1>2, <2>1, ServicePublished DEF PublishSystem
<1>3. ASSUME NEW d \in atodo[w], PublishDecision(w),
             AppendEvent(RootEvent(d, aid[w], Len(abatch[w]))),
             atodo' = [atodo EXCEPT ![w] = atodo[w] \ {d}],
             apc' = [apc EXCEPT ![w] = IF atodo[w] \ {d} = {} THEN "mark" ELSE "decisions"]
      PROVE  ServiceInv'
  <2>0. PICK at : at = IF atodo[w] \ {d} = {} THEN "mark" ELSE "decisions"
    OBVIOUS
  <2>1. /\ d \in Decision \cup {System} /\ atodo[w] \ {d} \in SUBSET Decision
        /\ at \in {"decisions", "mark"} /\ (at = "mark" => atodo[w] \ {d} = {})
    BY <1>0, <2>0
  <2>2. \A e \in {System} \cup (DecisionsOf(abatch[w]) \ (atodo[w] \ {d})) :
          e = d \/ e \in {System} \cup (DecisionsOf(abatch[w]) \ atodo[w])
    OBVIOUS
  <2>3. apc[w] = "decisions"
    BY <1>3 DEF PublishDecision
  <2>4. UNCHANGED <<batched, pending, first_leaf_ts, life, now, faults, abatch, aid, aidx, store, batches>>
    BY <1>3 DEF PublishDecision
  <2> QED BY <1>3, <2>0, <2>1, <2>2, <2>3, <2>4, ServicePublished
<1> QED BY <1>2, <1>3 DEF PublishDecision, Remaining

(* The batch is marked: every leaf of it has its row, and its root is      *)
(* published for its decision and under "system".                          *)
LEMMA ServiceMarked ==
  ASSUME ServiceInv, NEW w \in Worker, MarkStep(w), UNCHANGED <<handlerVars, stops>>
  PROVE  ServiceInv'
<1> DEFINE ids == {abatch[w][n].event_id : n \in DOMAIN abatch[w]}
<1>0. /\ CHTypeOK /\ AnchorTypeOK /\ HandlerInv /\ HoldInv /\ CommitsReachRows
      /\ StoreInv /\ RootsInv /\ BatchedIsProvable
      /\ trail \in Seq(Event) /\ \A v \in Worker : WorkerInv(v)
  BY DEF ServiceInv, HandlerInv, OwnerInv, AnswerInv, TypeInv, CHTypeOK, CoreTypeOK, AnchorInv
<1>1. /\ apc[w] = "mark" /\ batched' = batched \cup ids /\ Forget(w)
      /\ UNCHANGED <<trail, pending, first_leaf_ts, life, now, faults, store, batches>>
      /\ UNCHANGED <<pc, home, msg, out, res, reply, staging, stops>>
  BY DEF MarkStep, MarkBatched, handlerVars
<1>2. /\ abatch[w] \in Seq(PendingLeaf) /\ aidx[w] = Len(abatch[w]) /\ atodo[w] = {}
      /\ WorkerRows(w) /\ WorkerRoots(w)
  BY <1>0, <1>1 DEF AnchorTypeOK, WorkerInv, WorkerControl
<1>3. ASSUME NEW n \in DOMAIN abatch[w]
      PROVE  LET x == abatch[w][n] IN
             /\ x.event_id \in Committed /\ trail[x.event_id].leaf = x.leaf_hash
             /\ trail[x.event_id].decision = x.decision_id
             /\ x.leaf_hash \in DOMAIN store /\ store[x.leaf_hash].batch_id = aid[w]
             /\ \A d \in {System, x.decision_id} : Published(d, aid[w])
  <2>1. n <= aidx[w]
    BY <1>2
  <2>2. abatch[w][n].leaf_hash \in DOMAIN store /\ store[abatch[w][n].leaf_hash].batch_id = aid[w]
    BY <1>2, <2>1 DEF WorkerRows, Anchored
  <2>3. Matches(HeldAt(w[2], w[1])[n])
    BY <1>0, WorkerPlace DEF HoldInv, HeldMatch
  <2>4. Matches(abatch[w][n])
    BY <2>3, WorkerPlace
  <2>5. abatch[w][n].decision_id \in DecisionsOf(abatch[w])
    BY DEF DecisionsOf
  <2>6. \A d \in {System, abatch[w][n].decision_id} : Published(d, aid[w])
    BY <1>1, <1>2, <2>5 DEF WorkerRoots
  <2> QED BY <2>2, <2>4, <2>6 DEF Matches
<1>4. ids \subseteq DOMAIN trail
  BY <1>3 DEF Committed
<1>5. CHTypeOK' /\ TasksLeftAlone
  <2>1. batched' \subseteq DOMAIN trail
    BY <1>0, <1>1, <1>4 DEF CHTypeOK, CoreTypeOK
  <2> QED BY <1>0, <1>1, <2>1 DEF CHTypeOK, CoreTypeOK, TasksLeftAlone
<1>6. AnchorTypeOK' /\ batches' >= batches /\ batches' \in Nat /\ TrailExtends
  BY <1>0, <1>1, ForgetEffect DEF AnchorTypeOK, TrailExtends
<1>7. (\A v \in Worker : WorkerInv(v)') /\ AidsDiffer'
  <2>1. Ended(w) /\ \A v \in Worker \ {w} : Undisturbed(v)
    BY <1>0, <1>1, ForgetEffect DEF Undisturbed, WorkerInv, WorkerControl
  <2>2. \A v \in Worker : ~Begun(v)
    BY <1>0, <1>1 DEF Begun, AnchorTypeOK
  <2> QED BY <1>1, <1>6, <2>1, <2>2, WorkersKept
<1>8. HandlerInv'
  BY <1>0, <1>1, <1>5, HandlerKept
<1>9. HoldInv'
  <2>1. PICK q \in Proc : TRUE
    BY ProcAssumption
  <2>2. Moves(q, "open") /\ "open" \in Place
    BY <1>0, <1>1, ForgetEffect, WorkerPlace DEF Moves, Place
  <2>3. \A u \in Task : Owner(u)' => Owner(u) /\ res'[u] = res[u] /\ out'[u] = out[u]
    BY <1>1 DEF Owner
  <2> QED BY <1>0, <1>1, <2>2, <2>3, HoldMoved
<1>10. StoreInv' /\ RootsInv'
  BY <1>0, <1>1, <1>6, StoreKept, RootsKept
<1>11. BatchedIsProvable'
  <2>1. ASSUME NEW i \in batched'
        PROVE  /\ i \in Committed /\ trail[i].leaf \in DOMAIN store
               /\ \A d \in {System, trail[i].decision} : Published(d, store[trail[i].leaf].batch_id)
    <3>1. CASE i \in batched
      BY <1>0, <3>1 DEF BatchedIsProvable, Anchored, Published, IsRoot
    <3>2. ASSUME NEW n \in DOMAIN abatch[w], i = abatch[w][n].event_id
          PROVE  /\ i \in Committed /\ trail[i].leaf \in DOMAIN store
                 /\ \A d \in {System, trail[i].decision} : Published(d, store[trail[i].leaf].batch_id)
      BY <1>3, <3>2
    <3> QED BY <1>1, <2>1, <3>1, <3>2
  <2> QED BY <1>1, <2>1 DEF BatchedIsProvable, Anchored, Published, IsRoot, Committed
<1>12. CommitsReachRows'
  <2>1. ASSUME NEW k \in Place, NEW p \in Proc, NEW n \in DOMAIN HeldAt(k, p), NEW c,
               c = HeldAt(k, p)[n].event_id
        PROVE  trail[c].leaf \in DOMAIN store \/ HeldAt(k, p)' = HeldAt(k, p)
    <3>1. CASE k = w[2] /\ p = w[1]
      <4>1. HeldAt(k, p) = abatch[w]
        BY <3>1, WorkerPlace
      <4> QED BY <1>3, <2>1, <4>1
    <3>2. CASE ~(k = w[2] /\ p = w[1])
      BY <1>0, <1>1, <3>2, ForgetEffect
    <3> QED BY <3>1, <3>2
  <2> QED BY <1>0, <1>1, <2>1, ReachKept
<1> QED BY <1>6, <1>7, <1>8, <1>9, <1>10, <1>11, <1>12 DEF ServiceInv, AnchorInv

-------------------------------------------------------------------------------
(* Every step keeps the service invariant.                                 *)
LEMMA ServiceStep == ServiceInv /\ [ServiceNext]_vars => ServiceInv'
<1> SUFFICES ASSUME ServiceInv, [ServiceNext]_vars PROVE ServiceInv'
  OBVIOUS
<1>1. CASE UNCHANGED vars
  <2>1. [CHNext]_chVars /\ UNCHANGED <<anchorVars, stops>>
    BY <1>1 DEF vars, chVars
  <2> QED BY <2>1, ServiceHandlers
<1>2. ASSUME [CHNext]_chVars, UNCHANGED <<anchorVars, stops>> PROVE ServiceInv'
  BY <1>2, ServiceHandlers
<1>3. ASSUME NEW t \in Task, HandlerStep(t) PROVE ServiceInv'
  BY <1>2, <1>3 DEF HandlerStep, CHNext
<1>4. CASE ServiceTick
  BY <1>2, <1>4 DEF ServiceTick, CHNext
<1>5. ASSUME NEW p \in Proc, Closer(p) PROVE ServiceInv'
  BY <1>5, ServiceCloser
<1>6. ASSUME NEW p \in Proc, StopBus(p) PROVE ServiceInv'
  <2>1. faults' \in 0..MaxFaults
    BY <1>6 DEF StopBus, ServiceInv, HandlerInv, OwnerInv, AnswerInv, TypeInv, CHTypeOK, CoreTypeOK
  <2> QED BY <1>6, <2>1, ServiceVanish DEF StopBus
<1>7. ASSUME NEW p \in Proc, Crash(p) PROVE ServiceInv'
  <2>1. faults' \in 0..MaxFaults /\ faults' # 0
    BY <1>7, BoundAssumption
    DEF Crash, Fault, ServiceInv, HandlerInv, OwnerInv, AnswerInv, TypeInv, CHTypeOK, CoreTypeOK
  <2> QED BY <1>7, <2>1, ServiceVanish DEF Crash
<1>8. ASSUME NEW w \in Worker, WorkerStep(w) PROVE ServiceInv'
  BY <1>8, ServiceTimestamp, ServiceStored, ServicePublish, ServiceMarked DEF WorkerStep, AnchorStep
<1>9. CASE Environment
  <2>1. ASSUME NEW t \in Task, (\E p \in Proc, m \in Message : Arrival(t, p, m)) \/ AppendFails(t),
               UNCHANGED <<anchorVars, stops>>
        PROVE  ServiceInv'
    BY <1>2, <2>1 DEF CHNext
  <2>2. ASSUME NEW w \in Worker, AnchorFails(w), UNCHANGED <<handlerVars, stops>> PROVE ServiceInv'
    BY <2>2, ServiceFails
  <2>3. ASSUME NEW p \in Proc, Shutdown(p) \/ Crash(p) \/ Start(p) PROVE ServiceInv'
    BY <1>7, <2>3, ServiceShutdown, ServiceStart
  <2> QED BY <1>9, <2>1, <2>2, <2>3 DEF Environment
<1> QED BY <1>1, <1>3, <1>4, <1>5, <1>6, <1>8, <1>9 DEF ServiceNext

(* The service starts with an empty trail, empty batches and idle workers. *)
LEMMA ServiceStarts == ServiceInit => ServiceInv
<1> SUFFICES ASSUME ServiceInit PROVE ServiceInv
  OBVIOUS
<1>0. CHInit /\ AnchorInit /\ stops = 0
  BY DEF ServiceInit
<1>1. /\ trail = <<>> /\ batched = {} /\ pending = [p \in Proc |-> <<>>]
      /\ life = [p \in Proc |-> "up"] /\ pc = [t \in Task |-> "idle"]
  BY <1>0 DEF CHInit, CoreInit, Init
<1>2. Committed = {} /\ \A t \in Task : ~Owner(t) /\ ~Running(t)
  BY <1>1 DEF Committed, Owner, Running
<1>3. HandlerInv
  BY <1>0, <1>2, OwnerInit DEF HandlerInv, CommitsAreEvidenced, NoRoots
<1>4. \A k \in Place, p \in Proc : HeldAt(k, p) = <<>>
  <2> SUFFICES ASSUME NEW k \in Place, NEW p \in Proc PROVE HeldAt(k, p) = <<>>
    OBVIOUS
  <2>1. k # "open" => <<p, k>> \in Worker
    BY DEF Worker, Place
  <2> QED BY <1>0, <1>1, <2>1 DEF HeldAt, AnchorInit
<1>5. HoldInv
  BY <1>1, <1>2, <1>4 DEF HoldInv, HeldMatch, HeldDistinct, OwnersHeldNowhere, OpenUnanchored
<1>6. AnchorTypeOK
  BY <1>0 DEF AnchorInit, AnchorTypeOK
<1>7. \A w \in Worker : WorkerInv(w)
  BY <1>0, <1>1 DEF AnchorInit, WorkerInv, WorkerControl, WorkerRows, WorkerRoots
<1>8. AidsDiffer /\ StoreInv /\ RootsInv /\ BatchedIsProvable /\ CommitsReachRows
  BY <1>0, <1>1, <1>2
  DEF AnchorInit, AidsDiffer, StoreInv, RootsInv, RootCountsRows, BatchedIsProvable, CommitsReachRows
<1> QED BY <1>3, <1>5, <1>6, <1>7, <1>8 DEF ServiceInv, AnchorInv

(* The service invariant holds in every state, whatever crashes, stops,    *)
(* restarts or fails.                                                      *)
THEOREM ServiceInvariant == ServiceSpec => []ServiceInv
<1> QED BY ServiceStarts, ServiceStep, PTL DEF ServiceSpec

-------------------------------------------------------------------------------
(* What the service promises.                                              *)

(* Crashes, restarts, shutdowns and overlapping anchor runs break nothing  *)
(* that the handlers guarantee alone: the state is well typed, a commit    *)
(* has its evidence (I3), and ACCEPTED is said once per key.               *)
THEOREM HandlersInService ==
  ServiceSpec => [](CHTypeOK /\ CommitsAreEvidenced /\ AcceptedOnce)
<1>1. ServiceInv => CHTypeOK /\ CommitsAreEvidenced /\ AcceptedOnce
  BY AnswerInvImplies DEF ServiceInv, HandlerInv, OwnerInv, AnswerInv, TypeInv
<1> QED BY <1>1, ServiceInvariant, PTL

(* When _close_and_anchor has published a root, as many proof rows as its  *)
(* leaf_count says are readable, and stay so: an anchor run that dies half *)
(* way has published nothing.                                              *)
THEOREM RootsComplete == ServiceSpec => []RootCountsRows
<1>1. ServiceInv => RootCountsRows
  BY DEF ServiceInv, AnchorInv, RootsInv
<1> QED BY <1>1, ServiceInvariant, PTL

(* An event that mark_batched marked is a commit, its proof row is         *)
(* readable, and its root is in the trail for its decision and "system".   *)
THEOREM MarkedIsProvable == ServiceSpec => []BatchedIsProvable
<1>1. ServiceInv => BatchedIsProvable
  BY DEF ServiceInv, AnchorInv
<1> QED BY <1>1, ServiceInvariant, PTL

(* A committed leaf is in at most one batch, open or being anchored, of    *)
(* all processes, and an open batch holds no leaf that has a row already.  *)
THEOREM LeavesHeldOnce == ServiceSpec => []LeafHeldOnce
<1>1. ServiceInv => LeafHeldOnce
  <2> SUFFICES ASSUME ServiceInv, NEW i \in DOMAIN trail PROVE Cardinality(Holders(i)) <= 1
    BY DEF ServiceInv, HoldInv, OpenUnanchored, LeafHeldOnce
  <2>1. ASSUME NEW g \in Holders(i), NEW h \in Holders(i) PROVE g = h
    <3>1. /\ g = <<g[1], g[2], g[3]>> /\ h = <<h[1], h[2], h[3]>>
          /\ g[1] \in Place /\ h[1] \in Place /\ g[2] \in Proc /\ h[2] \in Proc
          /\ g[3] \in DOMAIN HeldAt(g[1], g[2]) /\ h[3] \in DOMAIN HeldAt(h[1], h[2])
          /\ HeldAt(g[1], g[2])[g[3]].event_id = HeldAt(h[1], h[2])[h[3]].event_id
      BY <2>1 DEF Holders, Place
    <3>2. g[1] = h[1] /\ g[2] = h[2] /\ g[3] = h[3]
      BY <3>1 DEF ServiceInv, HoldInv, HeldDistinct
    <3> QED BY <3>1, <3>2
  <2>2. CASE Holders(i) = {}
    <3>1. Cardinality(Holders(i)) = 0
      BY <2>2, FS_EmptySet
    <3> QED BY <3>1
  <2>3. CASE Holders(i) # {}
    <3>1. PICK g : Holders(i) = {g}
      BY <2>1, <2>3
    <3>2. Cardinality(Holders(i)) = 1
      BY <3>1, FS_Singleton
    <3> QED BY <3>2
  <2> QED BY <2>2, <2>3
<1> QED BY <1>1, ServiceInvariant, PTL

(* While nothing fails and nothing is stopped, every commit has its proof  *)
(* row, is in a batch, or is about to be filed by the task that appended   *)
(* it: no interleaving alone loses a leaf.                                 *)
THEOREM LeavesNotLost == ServiceSpec => []NoLeafLost
<1>1. ServiceInv => NoLeafLost
  <2> SUFFICES ASSUME ServiceInv, faults = 0, stops = 0, NEW i \in Committed
               PROVE  \/ Anchored(trail[i].leaf)
                      \/ Holders(i) # {}
                      \/ \E t \in Task : pc[t] = "appended" /\ out[t] = trail[i]
    BY DEF NoLeafLost
  <2>0. /\ trail \in Seq(Event) /\ OwnersKnow /\ HoldInv
        /\ pending \in [Proc -> Seq(PendingLeaf)] /\ abatch \in [Worker -> Seq(PendingLeaf)]
    BY DEF ServiceInv, HandlerInv, OwnerInv, AnswerInv, TypeInv, CHTypeOK, CoreTypeOK, AnchorInv,
           AnchorTypeOK
  <2>1. ASSUME NEW k \in Place, NEW p \in Proc, NEW n \in DOMAIN HeldAt(k, p),
               HeldAt(k, p)[n].event_id = i
        PROVE  Holders(i) # {}
    <3>1. HeldAt(k, p) \in Seq(PendingLeaf)
      <4>1. k # "open" => <<p, k>> \in Worker
        BY DEF Worker, Place
      <4> QED BY <2>0, <4>1 DEF HeldAt
    <3>2. \A m \in DOMAIN HeldAt(k, p) : HeldAt(k, p)[m].event_id \in DOMAIN trail
      BY <2>0 DEF HoldInv, HeldMatch, Matches, Committed
    <3>3. \A l, m \in DOMAIN HeldAt(k, p) :
            HeldAt(k, p)[l].event_id = HeldAt(k, p)[m].event_id => l = m
      BY <2>0 DEF HoldInv, HeldDistinct
    <3>4. Len(HeldAt(k, p)) <= Len(trail)
      BY <2>0, <3>1, <3>2, <3>3, BatchFits
    <3>5. n \in 1..Len(trail)
      BY <2>0, <3>1, <3>4
    <3>6. <<k, p, n>> \in Holders(i)
      BY <2>1, <3>5 DEF Holders, Place
    <3> QED BY <3>6
  <2>2. ASSUME NEW t \in Task, Owner(t), res[t].event_id = i
        PROVE  pc[t] = "appended" /\ out[t] = trail[i]
    BY <2>0, <2>2 DEF OwnersKnow, Owner
  <2> QED BY <2>1, <2>2 DEF ServiceInv, AnchorInv, CommitsReachRows
<1> QED BY <1>1, ServiceInvariant, PTL

(* What a step does to the trail, the marks and the rows.                  *)
LEMMA ServiceEffect ==
  ASSUME ServiceInv, [ServiceNext]_vars
  PROVE  /\ \/ UNCHANGED <<trail, batched>>
            \/ \E e \in Event : /\ trail' = Append(trail, e) /\ ~KeyTaken(e.key)
                                /\ batched' = batched
            \/ trail' = trail /\ batched \subseteq batched'
         /\ store' = store \/ \E w \in Worker : StoreProof(w)
         /\ \A l \in DOMAIN store : l \in DOMAIN store' /\ store'[l] = store[l]
<1> DEFINE Grows == \/ UNCHANGED <<trail, batched>>
                    \/ \E e \in Event : /\ trail' = Append(trail, e) /\ ~KeyTaken(e.key)
                                        /\ batched' = batched
                    \/ trail' = trail /\ batched \subseteq batched'
           Keeps == store' = store \/ \E w \in Worker : StoreProof(w)
<1>0. OwnerInv
  BY DEF ServiceInv, HandlerInv
<1>1. ASSUME [CHNext]_chVars, UNCHANGED <<anchorVars, stops>> PROVE Grows /\ Keeps
  <2>1. batched' = batched /\ store' = store
    BY <1>1, HandlersLeave DEF anchorVars
  <2>2. ASSUME NEW t \in Task, Appended(t) PROVE Grows
    BY <2>1, <2>2 DEF Appended
  <2> QED BY <1>0, <1>1, <2>1, <2>2, HandlerEffect DEF Filed, Quiet
<1>2. ASSUME UNCHANGED vars PROVE Grows /\ Keeps
  BY <1>2 DEF vars, coreVars, anchorVars
<1>3. ASSUME NEW t \in Task, HandlerStep(t) PROVE Grows /\ Keeps
  BY <1>1, <1>3 DEF HandlerStep, CHNext
<1>4. ASSUME ServiceTick PROVE Grows /\ Keeps
  BY <1>1, <1>4 DEF ServiceTick, CHNext
<1>5. ASSUME NEW p \in Proc, Closer(p) \/ StopBus(p) \/ Shutdown(p) \/ Crash(p) \/ Start(p)
      PROVE  Grows /\ Keeps
  <2>1. Grows
    BY <1>5 DEF Closer, MaybeCloseAndAnchor, StopBus, Shutdown, Crash, Vanish, Start, anchorVars
  <2>2. store' = store
    BY <1>5 DEF Closer, MaybeCloseAndAnchor, StopBus, Shutdown, Crash, Vanish, Start, anchorVars
  <2> QED BY <2>1, <2>2
<1>6. ASSUME NEW w \in Worker, Timestamp(w) \/ AnchorFails(w) PROVE Grows /\ Keeps
  BY <1>6 DEF Timestamp, AnchorFails, coreVars
<1>7. ASSUME NEW w \in Worker, StoreProof(w) PROVE Grows /\ Keeps
  BY <1>7 DEF StoreProof, coreVars
<1>8. ASSUME NEW w \in Worker, PublishSystem(w) \/ PublishDecision(w) PROVE Grows /\ Keeps
  <2>0. aid[w] \in Nat /\ abatch[w] \in Seq(PendingLeaf) /\ atodo[w] \in SUBSET Decision
    BY DEF ServiceInv, AnchorInv, AnchorTypeOK
  <2>1. PICK d \in Decision \cup {System} : AppendEvent(RootEvent(d, aid[w], Len(abatch[w])))
    BY <1>8, <2>0 DEF PublishSystem, PublishDecision
  <2>2. Len(abatch[w]) \in Nat
    BY <2>0
  <2>3. PICK e : Rooted(e)
    BY <2>0, <2>1, <2>2, RootAppended
  <2>4. e \in Event /\ trail' = Append(trail, e) /\ ~KeyTaken(e.key)
    BY <2>3 DEF Rooted, KeyTaken
  <2> QED BY <1>8, <2>4 DEF PublishSystem, PublishDecision
<1>9. ASSUME NEW w \in Worker, MarkStep(w) PROVE Grows /\ Keeps
  BY <1>9 DEF MarkStep, MarkBatched
<1>10. Grows /\ Keeps
  <2>1. ASSUME NEW w \in Worker, WorkerStep(w) PROVE Grows /\ Keeps
    BY <1>6, <1>7, <1>8, <1>9, <2>1 DEF WorkerStep, AnchorStep
  <2>2. ASSUME Environment PROVE Grows /\ Keeps
    <3>1. ASSUME NEW t \in Task, (\E p \in Proc, m \in Message : Arrival(t, p, m)) \/ AppendFails(t),
                 UNCHANGED <<anchorVars, stops>>
          PROVE  Grows /\ Keeps
      BY <1>1, <3>1 DEF CHNext
    <3>2. ASSUME NEW w \in Worker, AnchorFails(w) PROVE Grows /\ Keeps
      BY <1>6, <3>2
    <3>3. ASSUME NEW p \in Proc, Shutdown(p) \/ Crash(p) \/ Start(p) PROVE Grows /\ Keeps
      BY <1>5, <3>3
    <3> QED BY <2>2, <3>1, <3>2, <3>3 DEF Environment
  <2>3. ASSUME NEW p \in Proc, Closer(p) \/ StopBus(p) PROVE Grows /\ Keeps
    BY <1>5, <2>3
  <2>4. ASSUME ServiceNext PROVE Grows /\ Keeps
    BY <1>3, <1>4, <2>1, <2>2, <2>3, <2>4 DEF ServiceNext
  <2> QED BY <1>2, <2>4
<1>11. \A l \in DOMAIN store : l \in DOMAIN store' /\ store'[l] = store[l]
  BY <1>10, NextRow
<1> QED BY <1>10, <1>11

(* I9 of the rows: each verifies for its own leaf.                         *)
RowsVerify ==
  \A l \in DOMAIN store : Verify(LeafNode(l), store[l].proof_path, store[l].root)

(* The row that a worker writes is the proof of the leaf it is written     *)
(* for, against the root of the batch that the worker closed.              *)
LEMMA RowVerifies ==
  ASSUME NEW b \in Seq(PendingLeaf), NEW i \in DOMAIN b, NEW id
  PROVE  Verify(LeafNode(b[i].leaf_hash), Row(b, i, id).proof_path, Row(b, i, id).root)
<1>1. PICK n \in Nat \ {0} : n = Len(b) /\ DOMAIN b = 1..n
  OBVIOUS
<1>2. PICK nodes : nodes = [k \in 1..n |-> LeafNode(b[k].leaf_hash)]
  OBVIOUS
<1>3. Len(nodes) = n
  BY <1>2
<1>4. IsLevel(nodes) /\ i \in 1..Len(nodes)
  BY <1>1, <1>2, <1>3 DEF IsLevel
<1>5. nodes[i] = LeafNode(b[i].leaf_hash)
  BY <1>1, <1>2
<1>6. BatchLevels(b) = Levels(nodes)
  BY <1>1, <1>2 DEF BatchLevels
<1>7. Row(b, i, id).proof_path = ProofFor(Levels(nodes), i) /\ Row(b, i, id).root = RootOf(Levels(nodes))
  BY <1>6 DEF Row
<1> QED BY <1>4, <1>5, <1>7, ProofVerifies

(* Every proof row vouches for a committed leaf and verifies against its   *)
(* root, and the rows of a batch share the root: what get_merkle_proof     *)
(* returns can be checked offline, for batches of any size, closed by any  *)
(* process and cut short by any crash.                                     *)
THEOREM RowsAreProofs == ServiceSpec => []ProofRowsVerify
<1>1. ServiceInit => RowsVerify
  BY DEF ServiceInit, AnchorInit, RowsVerify
<1>2. ServiceInv /\ RowsVerify /\ [ServiceNext]_vars => RowsVerify'
  <2> SUFFICES ASSUME ServiceInv, RowsVerify, [ServiceNext]_vars PROVE RowsVerify'
    OBVIOUS
  <2>1. CASE store' = store
    BY <2>1 DEF RowsVerify
  <2>2. ASSUME NEW w \in Worker, StoreProof(w) PROVE RowsVerify'
    <3>1. PICK i : i = aidx[w] + 1
      OBVIOUS
    <3>2. PICK l : l = abatch[w][i].leaf_hash
      OBVIOUS
    <3>3. /\ i \in DOMAIN abatch[w] /\ DOMAIN store' = DOMAIN store \cup {l}
          /\ store'[l] = Row(abatch[w], i, aid[w])
          /\ \A k \in DOMAIN store : store'[k] = store[k]
      BY <2>2, <3>1, <3>2, NextRow
    <3>4. abatch[w] \in Seq(PendingLeaf)
      BY DEF ServiceInv, AnchorInv, AnchorTypeOK
    <3>5. Verify(LeafNode(l), store'[l].proof_path, store'[l].root)
      BY <3>2, <3>3, <3>4, RowVerifies
    <3> QED BY <3>3, <3>5 DEF RowsVerify
  <2> QED BY <2>1, <2>2, ServiceEffect
<1>3. ServiceInv /\ RowsVerify => ProofRowsVerify
  BY DEF ServiceInv, AnchorInv, StoreInv, RowsVerify, ProofRowsVerify
<1> QED BY <1>1, <1>2, <1>3, ServiceInvariant, PTL DEF ServiceSpec

(* I7: no step rewrites or drops a proof row, or unmarks an event.         *)
THEOREM ProofsStay == ServiceSpec => ProofsArePermanent
<1>1. ServiceInv /\ [ServiceNext]_vars =>
        [/\ \A l \in DOMAIN store : Anchored(l)' /\ store'[l] = store[l]
         /\ batched \subseteq batched']_vars
  BY ServiceEffect DEF Anchored
<1> QED BY <1>1, ServiceInvariant, PTL DEF ServiceSpec, ProofsArePermanent

(* Handlers and anchor runs of all processes together use the trail as the *)
(* port allows: each step appends one event under a free key, marks ids of *)
(* the trail, or leaves both alone.                                        *)
THEOREM ServiceUsesTrail == ServiceSpec => UsesAuditTrail
<1>1. ServiceInit => Trail!Init
  BY DEF ServiceInit, CHInit, CoreInit, Init, Trail!Init
<1>2. ServiceInv /\ ServiceInv' /\ [ServiceNext]_vars => [Trail!Next]_(Trail!auditVars)
  <2> SUFFICES ASSUME ServiceInv, ServiceInv', [ServiceNext]_vars
               PROVE  Trail!Next \/ UNCHANGED <<trail, batched>>
    BY DEF Trail!auditVars
  <2>0. trail \in Seq(Event) /\ batched' \subseteq DOMAIN trail'
    BY DEF ServiceInv, HandlerInv, OwnerInv, AnswerInv, TypeInv, CHTypeOK, CoreTypeOK
  <2>1. ASSUME NEW e \in Event, trail' = Append(trail, e), ~KeyTaken(e.key), batched' = batched
        PROVE  Trail!Extend
    <3>1. Len(trail') = Len(trail) + 1 /\ trail'[Len(trail')] = e
      BY <2>0, <2>1, TrailGrows
    <3> QED BY <2>1, <3>1 DEF Trail!Extend, Trail!KeyTaken, KeyTaken
  <2>2. ASSUME trail' = trail, batched \subseteq batched' PROVE Trail!Batch
    BY <2>0, <2>2 DEF Trail!Batch
  <2> QED BY <2>1, <2>2, ServiceEffect DEF Trail!Next
<1> QED BY <1>1, <1>2, ServiceInvariant, PTL DEF ServiceSpec, UsesAuditTrail, Trail!Spec
===============================================================================
