-------------------------- MODULE PostgresAuditTrail --------------------------
(***************************************************************************)
(* src/infrastructure/postgres_audit_trail.py: concurrent append() calls   *)
(* over a connection pool and a table with a UNIQUE idempotency_key and a  *)
(* BIGSERIAL seq.  What PostgreSQL does is modelled from how the adapter   *)
(* relies on it: seq is drawn when an INSERT starts, the unique index      *)
(* makes a second INSERT of a key wait for the first, the row becomes      *)
(* visible at commit, and seq order need not be commit order.              *)
(*                                                                         *)
(* A client is one append() call:                                          *)
(*   "acquire" -> "insert" -> "inserting" -> "committed" -> "done"         *)
(*                                \-> "reacquire" -> "select" -> "done"    *)
(***************************************************************************)
EXTENDS Naturals, Sequences, FiniteSets
LOCAL INSTANCE SequencesExt

CONSTANTS
  Client, Event, NoEvent, Decision, NoKey,
  PoolSize,         \* max_size of the pool
  MaxLost           \* bound: connections that break

ASSUME PoolAssumption ==
  /\ PoolSize \in Nat \ {0} /\ MaxLost \in Nat
  /\ \A e \in Event : DOMAIN e = {"type", "decision", "key"} /\ e.decision \in Decision

VARIABLES
  pc, event,        \* per client: control state, the event to append
  seq,              \* per client: the seq drawn by its INSERT
  result,           \* per client: AppendResult
  rows,             \* audit_events in commit order, each with its seq
  nextSeq,          \* the BIGSERIAL sequence
  batched,          \* rows with a batch_id, by position
  reads,            \* per decision: what the last read_range returned
  lost,             \* connections that broke so far
  before            \* per client: appends that had returned when it was called

pgVars == <<pc, event, seq, result, rows, nextSeq, batched, reads, lost, before>>

NoResult == [event_id |-> 0, deduplicated |-> FALSE]

PgInit ==
  /\ pc = [c \in Client |-> "idle"]
  /\ event = [c \in Client |-> NoEvent]
  /\ seq = [c \in Client |-> 0]
  /\ result = [c \in Client |-> NoResult]
  /\ rows = <<>>
  /\ nextSeq = 1
  /\ batched = {}
  /\ reads = [d \in Decision |-> <<>>]
  /\ lost = 0
  /\ before = [c \in Client |-> {}]

-------------------------------------------------------------------------------
\* Mutant: the second acquire is nested in the first one's block.
ConnectedAlsoReacquire ==
  {c \in Client : pc[c] \in {"insert", "inserting", "committed", "reacquire", "select"}}

\* A client owns a connection inside "async with self._pool.acquire()".
Connected == {c \in Client : pc[c] \in {"insert", "inserting", "committed", "select"}}
FreeConnection == Cardinality(Connected) < PoolSize

Goto(c, s) == pc' = [pc EXCEPT ![c] = s]

Holds(k) == {i \in DOMAIN rows : rows[i].event.key = k /\ k # NoKey}

\* Mutants of KeyHeld and KeyFree.
KeyHeldOrWanted(c) ==
  \/ Holds(event[c].key) # {}
  \/ \E b \in Client \ {c} : /\ pc[b] = "inserting" /\ event[b].key = event[c].key
                           /\ event[c].key # NoKey
KeyAlwaysFree(c) == TRUE

\* What the unique index finds.
KeyHeld(c) == Holds(event[c].key) # {}
KeyFree(c) == Holds(event[c].key) = {}

Call(c, e) ==
  /\ pc[c] = "idle"
  /\ event' = [event EXCEPT ![c] = e]
  /\ before' = [before EXCEPT ![c] = {b \in Client : pc[b] = "done"}]
  /\ Goto(c, "acquire")
  /\ UNCHANGED <<seq, result, rows, nextSeq, batched, reads, lost>>

Acquire(c) ==
  /\ pc[c] \in {"acquire", "reacquire"}
  /\ FreeConnection
  /\ Goto(c, IF pc[c] = "acquire" THEN "insert" ELSE "select")
  /\ UNCHANGED <<event, seq, result, rows, nextSeq, batched, reads, lost, before>>

\* The INSERT starts: the default of seq is evaluated.
Insert(c) ==
  /\ pc[c] = "insert"
  /\ seq' = [seq EXCEPT ![c] = nextSeq]
  /\ nextSeq' = nextSeq + 1
  /\ Goto(c, "inserting")
  /\ UNCHANGED <<event, result, rows, batched, reads, lost, before>>

\* The row becomes visible.  Of several INSERTs of one key any may be the first at
\* the unique index; the others wait there until it has committed or is gone.
Commit(c) ==
  /\ pc[c] = "inserting"
  /\ KeyFree(c)
  /\ rows' = Append(rows, [seq |-> seq[c], event |-> event[c]])
  /\ Goto(c, "committed")
  /\ UNCHANGED <<event, seq, result, nextSeq, batched, reads, lost, before>>

\* UniqueViolationError: the connection is released, then another one is acquired.
Violate(c) ==
  /\ pc[c] = "inserting"
  /\ KeyHeld(c)
  /\ Goto(c, "reacquire")
  /\ UNCHANGED <<event, seq, result, rows, nextSeq, batched, reads, lost, before>>

\* The INSERT's answer arrives; event_id was chosen by the client.
ReturnInserted(c) ==
  /\ pc[c] = "committed"
  /\ result' = [result EXCEPT ![c] =
       [event_id |-> CHOOSE i \in DOMAIN rows : rows[i].seq = seq[c], deduplicated |-> FALSE]]
  /\ Goto(c, "done")
  /\ UNCHANGED <<event, seq, rows, nextSeq, batched, reads, lost, before>>

\* SELECT event_id ... WHERE idempotency_key = $1; id 0 is the row that is None.
Select(c) ==
  /\ pc[c] = "select"
  /\ \E id \in IF Holds(event[c].key) = {} THEN {0} ELSE Holds(event[c].key) :
       result' = [result EXCEPT ![c] = [event_id |-> id, deduplicated |-> TRUE]]
  /\ Goto(c, "done")
  /\ UNCHANGED <<event, seq, rows, nextSeq, batched, reads, lost, before>>

\* The connection breaks: an uncommitted INSERT is rolled back, a committed one is
\* durable though append() raises.
Lose(c) ==
  /\ c \in Connected
  /\ lost < MaxLost /\ lost' = lost + 1
  /\ Goto(c, "failed")
  /\ UNCHANGED <<event, seq, result, rows, nextSeq, batched, reads, before>>

\* ... WHERE decision_id = $1
RowsOf(d) == {i \in DOMAIN rows : rows[i].event.decision = d}

\* Mutant: read_range without ORDER BY.
ReadRowsUnsorted(d) ==
  [n \in 1..Cardinality(RowsOf(d)) |->
     rows[CHOOSE i \in RowsOf(d) : Cardinality({j \in RowsOf(d) : j > i}) = n - 1]]

\* ... ORDER BY seq ASC: a snapshot of the committed rows; the n-th has n - 1 before it.
ReadRows(d) ==
  [n \in 1..Cardinality(RowsOf(d)) |->
     rows[CHOOSE i \in RowsOf(d) :
            Cardinality({j \in RowsOf(d) : rows[j].seq < rows[i].seq}) = n - 1]]

ReadRange(d) ==
  /\ FreeConnection
  /\ reads' = [reads EXCEPT ![d] = ReadRows(d)]
  /\ UNCHANGED <<pc, event, seq, result, rows, nextSeq, batched, lost, before>>

\* UPDATE ... SET batch_id, for the ids of earlier appends.
MarkBatched(cs) ==
  /\ FreeConnection
  /\ \A c \in cs : pc[c] = "done" /\ ~result[c].deduplicated
  /\ batched' = batched \cup {result[c].event_id : c \in cs}
  /\ UNCHANGED <<pc, event, seq, result, rows, nextSeq, reads, lost, before>>

Step(c) ==
  Acquire(c) \/ Insert(c) \/ Commit(c) \/ Violate(c) \/ ReturnInserted(c) \/ Select(c)

PgNext ==
  \/ \E c \in Client : \/ \E e \in Event : Call(c, e)
                       \/ Step(c)
                       \/ Lose(c)
  \/ \E cs \in SUBSET Client : MarkBatched(cs)
  \/ \E d \in Decision : ReadRange(d)

\* The pool serves its waiters in turn; the server answers while the connection lives.
PgSpec == PgInit /\ [][PgNext]_pgVars /\ \A c \in Client : WF_pgVars(Step(c))

-------------------------------------------------------------------------------
Port == INSTANCE AuditTrail WITH trail <- [i \in DOMAIN rows |-> rows[i].event]

(* The adapter implements the port under concurrent duplicates and broken  *)
(* connections: the table, in commit order, is an audit trail.             *)
ImplementsPort == Port!Spec

(* An append that returns names a row: its own when it inserted, the row   *)
(* that holds its key, written by somebody else, when it was deduplicated. *)
(* In particular the re-read after UniqueViolationError finds the row.     *)
ResultNamesRow ==
  \A c \in Client : pc[c] = "done" =>
    LET id == result[c].event_id IN
      /\ id \in DOMAIN rows
      /\ rows[id].event.key = event[c].key
      /\ (rows[id].seq = seq[c]) = ~result[c].deduplicated

(* Of the calls that share a key at most one is told that it inserted.     *)
OneWinnerPerKey ==
  \A b, c \in Client :
    /\ pc[b] = "done" /\ ~result[b].deduplicated
    /\ pc[c] = "done" /\ ~result[c].deduplicated
    /\ event[b].key = event[c].key /\ event[b].key # NoKey
    => b = c

(* Replay keeps the order callers saw: if an append had returned when      *)
(* another was called, every read that has both has them in that order.    *)
ReplayKeepsCallOrder ==
  \A d \in Decision : \A m, n \in DOMAIN reads[d] : \A c \in Client : \A b \in before[c] :
    reads[d][m].seq = seq[b] /\ reads[d][n].seq = seq[c] => m < n

(* No set of concurrent calls, duplicates included, blocks the pool: each  *)
(* append returns or raises.                                               *)
EveryAppendReturns ==
  \A c \in Client : pc[c] = "acquire" ~> pc[c] \in {"done", "failed"}

(* "Ordered, replayable event stream for one decision_id (I2, deterministic *)
(* state reconstruction)" (interfaces/audit_trail.py read_range): what one *)
(* read returned is where the next read starts.                            *)
ReadsExtend ==
  [][\A d \in Decision : IsPrefix(reads[d], reads'[d])]_pgVars
===============================================================================
