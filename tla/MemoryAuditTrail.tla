--------------------------- MODULE MemoryAuditTrail ---------------------------
(***************************************************************************)
(* MemoryAuditTrail of src/infrastructure/memory_adapters.py: three views  *)
(* of the same events that append() keeps in step.  Its coroutines contain *)
(* no await, so every call is one step.  event_id is the position in       *)
(* _events.                                                                *)
(***************************************************************************)
EXTENDS Naturals, Sequences, FiniteSets

CONSTANTS
  Event,            \* records with fields type, decision and key
  Decision, NoKey,
  MaxEvents         \* bound: length of the log

ASSUME MemoryAssumption ==
  /\ MaxEvents \in Nat
  /\ \A e \in Event : DOMAIN e = {"type", "decision", "key"} /\ e.decision \in Decision

VARIABLES
  events,               \* _events
  by_decision,          \* _by_decision
  idempotency_index,    \* _idempotency_index: key to event_id
  batched               \* _batched

memVars == <<events, by_decision, idempotency_index, batched>>

MemInit ==
  /\ events = <<>>
  /\ by_decision = [d \in Decision |-> <<>>]
  /\ idempotency_index = <<>>
  /\ batched = {}

Duplicate(k) == k # NoKey /\ k \in DOMAIN idempotency_index

\* Mutant: the index is not written.
IndexUnchanged(e) == idempotency_index

IndexWith(e) ==
  [k \in DOMAIN idempotency_index \cup ({e.key} \ {NoKey}) |->
     IF k = e.key THEN Len(events) + 1 ELSE idempotency_index[k]]

\* The three assignments of append().
Record(e) ==
  /\ events' = Append(events, e)
  /\ by_decision' = [by_decision EXCEPT ![e.decision] = Append(@, Len(events) + 1)]
  /\ idempotency_index' = IndexWith(e)

append(e) ==
  /\ Len(events) < MaxEvents
  /\ ~Duplicate(e.key)
  /\ Record(e)
  /\ UNCHANGED batched

\* mark_batched: callers pass event_ids they got from append.
mark_batched(ids) ==
  /\ batched' = batched \cup ids
  /\ UNCHANGED <<events, by_decision, idempotency_index>>

\* read_range(decision_id) and read_unbatched(limit), as event_ids.
read_range(d) == by_decision[d]

Unbatched ==
  LET out[i \in 0..Len(events)] ==
        IF i = 0 THEN <<>>
        ELSE IF i \notin batched /\ events[i].type = "MetricCommitted"
               THEN Append(out[i - 1], i)
               ELSE out[i - 1]
  IN  out

read_unbatched(limit) ==
  LET out == Unbatched[Len(events)]
  IN  SubSeq(out, 1, IF limit < Len(out) THEN limit ELSE Len(out))

MemNext ==
  \/ \E e \in Event : append(e)
  \/ \E ids \in SUBSET DOMAIN events : mark_batched(ids)

MemSpec == MemInit /\ [][MemNext]_memVars

-------------------------------------------------------------------------------
Port == INSTANCE AuditTrail WITH trail <- events

(* The adapter implements the port: one event per key, nothing rewritten.  *)
ImplementsPort == Port!Spec

(* The views agree with the log: the index answers for exactly its keys,   *)
(* with the event that has the key (existing_event_id is right for every   *)
(* duplicate); read_range is in the order of the whole log, whatever was   *)
(* appended for other decisions in between; and read_unbatched, taken to   *)
(* the end, lists every commit not marked yet, oldest first.               *)
ViewsMatchLog ==
  /\ \A k \in DOMAIN idempotency_index :
       idempotency_index[k] \in DOMAIN events /\ events[idempotency_index[k]].key = k
  /\ \A i \in DOMAIN events : events[i].key # NoKey =>
       events[i].key \in DOMAIN idempotency_index /\ idempotency_index[events[i].key] = i
  /\ \A d \in Decision : Port!IsRange(read_range(d), d)
  /\ Port!IsUnbatched(read_unbatched(MaxEvents))
===============================================================================
