--------------------------- MODULE ObservationQueue ---------------------------
(***************************************************************************)
(* The durable table of captured events, observation_queue                 *)
(* (src/worker/observation-queue.ts), as a value: one operator per method, *)
(* taking the table before the call and giving the table after it.  Every  *)
(* method is one SQLite transaction, so the worker and the CLI use these   *)
(* operators inside their own atomic steps and may chain several of them.  *)
(*                                                                         *)
(* A row is [status, retries].  Its payload is written once, at enqueue,   *)
(* and is kept by the callers in a separate function `event`; the id is    *)
(* AUTOINCREMENT, so an id never comes back after a DELETE and the order   *)
(* of ids is the order of creation.                                        *)
(***************************************************************************)
EXTENDS Integers, FiniteSets

CONSTANTS
  Event,        \* contents of captured events
  TurnOf,       \* event -> its (session_id, prompt_number)
  NoEvent,      \* the payload of a row that was never inserted
  MaxRow,       \* bound: how many rows are ever inserted
  MaxRetries,   \* failures of its own a row survives, plus one
  None          \* "no provider", "no caller", "no command"

ASSUME MaxRowAssumption == MaxRow \in Nat
ASSUME MaxRetriesAssumption == MaxRetries \in Nat \ {0}
ASSUME NoEventAssumption == NoEvent \notin Event

Row == 1..MaxRow

(* "absent" is a row that is not in the table: not inserted yet, or deleted. *)
Status == {"absent", "pending", "processing", "done", "failed"}

RowState == [status : Status, retries : Nat]

Absent == [status |-> "absent", retries |-> 0]
EmptyTable == [r \in Row |-> Absent]

Rows(q, s) == {r \in Row : q[r].status = s}
Present(q) == {r \in Row : q[r].status # "absent"}

(* UPDATE ... SET status = s WHERE id IN (S): deleted rows match nothing. *)
SetStatus(q, S, s) ==
  [r \in Row |-> IF r \in S \cap Present(q) THEN [q[r] EXCEPT !.status = s] ELSE q[r]]

(* The n lowest ids of S: ORDER BY created_at_epoch, id LIMIT n. *)
Oldest(S, n) == {r \in S : Cardinality({s \in S : s < r}) < n}

(* Mutant: the constructor without its startup recovery. *)
OpenWithoutRecovery(q) == q

(* The constructor: what a crash left in `processing` becomes pending. *)
Open(q) == SetStatus(q, Rows(q, "processing"), "pending")

Insert(q, id) == [q EXCEPT ![id] = [status |-> "pending", retries |-> 0]]

(* takeBatch claims the oldest pending rows. *)
Claimable(q, limit) == Oldest(Rows(q, "pending"), limit)
Claim(q, S) == SetStatus(q, S, "processing")

MarkDone(q, S) == SetStatus(q, S, "done")
MarkPermanent(q, S) == SetStatus(q, S, "failed")
Requeue(q, S) == SetStatus(q, S, "pending")

(* Mutant: a dead letter gets a status no query selects. *)
StruckOut(row) ==
  LET n == row.retries + 1
  IN  [status |-> IF n >= MaxRetries THEN "error" ELSE "pending", retries |-> n]

(* One more failure; at the last one the row is dead-lettered. *)
Struck(row) ==
  LET n == row.retries + 1
  IN  [status |-> IF n >= MaxRetries THEN "failed" ELSE "pending", retries |-> n]

MarkFailed(q, S) ==
  [r \in Row |-> IF r \in S \cap Present(q) THEN Struck(q[r]) ELSE q[r]]

(* Dead letters back to pending, counter cleared, lowest ids first. *)
RetryFailed(q, limit) ==
  [r \in Row |-> IF r \in Oldest(Rows(q, "failed"), limit)
                   THEN [status |-> "pending", retries |-> 0]
                   ELSE q[r]]

Delete(q, S) == [r \in Row |-> IF r \in S THEN Absent ELSE q[r]]

(* Retention deletes finished rows only: age is a choice of the caller. *)
PruneDone(q, S) == Delete(q, S \cap Rows(q, "done"))

Turn(ev, r) == TurnOf[ev[r]]

(* A pending row of a turn some finished row already holds. *)
DuplicateOfDone(q, ev) ==
  {r \in Rows(q, "pending") : \E d \in Rows(q, "done") : Turn(ev, d) = Turn(ev, r)}

(* Mutant: every row of a group goes, the lowest id too. *)
DuplicateWithoutKeeper(q, ev) ==
  {r \in Rows(q, "pending") :
     \E s \in Rows(q, "pending") : s # r /\ Turn(ev, s) = Turn(ev, r)}

(* A pending row that is not the first pending row of its turn. *)
DuplicatePending(q, ev) ==
  {r \in Rows(q, "pending") :
     \E s \in Rows(q, "pending") : s < r /\ Turn(ev, s) = Turn(ev, r)}

DedupePending(q, ev) == Delete(q, DuplicateOfDone(q, ev) \cup DuplicatePending(q, ev))
=============================================================================
