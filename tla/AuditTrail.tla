------------------------------ MODULE AuditTrail ------------------------------
(***************************************************************************)
(* The port src/interfaces/audit_trail.py: what every adapter promises to  *)
(* the application layer.  The trail is a sequence of events; the position *)
(* of an event stands for its event_id (a fresh uuid4 in both adapters).   *)
(* The protocol has append, mark_batched and two reads, and nothing that   *)
(* updates or deletes (I7); append is atomic in the idempotency key (I6).  *)
(*                                                                         *)
(* An event is a record with at least the fields type, decision and key.   *)
(***************************************************************************)
EXTENDS Naturals, Sequences

CONSTANT NoKey      \* idempotency_key = None

VARIABLES
  trail,            \* the events, in the order in which they became durable
  batched           \* event_ids that mark_batched has folded into a batch

auditVars == <<trail, batched>>

\* Mutant of AppendEvent below.
AppendEventAlways(e) == trail' = Append(trail, e)

\* idempotency_key seen before; an append without a key is never a duplicate.
KeyTaken(k) == k # NoKey /\ \E i \in DOMAIN trail : trail[i].key = k

\* existing_event_id of a deduplicated append.
ExistingId(k) == CHOOSE i \in DOMAIN trail : trail[i].key = k

\* AppendResult.event_id: the new event's id, or the id of the event that has the key.
EventIdOf(e) == IF KeyTaken(e.key) THEN ExistingId(e.key) ELSE Len(trail) + 1

\* append(): no new entry when the key was seen before.
AppendEvent(e) == trail' = IF KeyTaken(e.key) THEN trail ELSE Append(trail, e)

MarkBatched(ids) == batched' = batched \cup ids

\* What a read returns, as event_ids: those in S and no others, in trail order.
Lists(ids, S) ==
  /\ {ids[n] : n \in DOMAIN ids} = S
  /\ \A m, n \in DOMAIN ids : m < n => ids[m] < ids[n]

\* read_range(decision_id) and read_unbatched(limit), taken to the end.
IsRange(ids, d) == Lists(ids, {i \in DOMAIN trail : trail[i].decision = d})
IsUnbatched(ids) ==
  Lists(ids, {i \in DOMAIN trail : trail[i].type = "MetricCommitted"} \ batched)

-------------------------------------------------------------------------------
(* The behaviour a user of the port may rely on.                           *)

Init == trail = <<>> /\ batched = {}

\* One event is added at the end, under a key nobody used.
Extend ==
  /\ Len(trail') = Len(trail) + 1
  /\ trail' = Append(trail, trail'[Len(trail')])
  /\ ~KeyTaken(trail'[Len(trail')].key)
  /\ UNCHANGED batched

Batch ==
  /\ batched \subseteq batched'
  /\ batched' \subseteq DOMAIN trail
  /\ UNCHANGED trail

Next == Extend \/ Batch

Spec == Init /\ [][Next]_auditVars
===============================================================================
