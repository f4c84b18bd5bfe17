---------------------------- MODULE QueueCommands ----------------------------
(***************************************************************************)
(* The operator's commands on the queue while the worker is up:            *)
(* `captain-memo queue dedupe|retry [--apply]` and the queue part of       *)
(* `captain-memo maintenance`.  Each is a process of its own that opens    *)
(* queue.db with the same constructor as the worker, runs one method and   *)
(* closes; the worker's steps interleave between the two.                  *)
(***************************************************************************)
EXTENDS ObservationPipeline

CONSTANT Commands   \* the commands an operator runs in this instance

Command == {"dedupe", "dedupe --apply", "retry", "retry --apply", "maintenance --apply"}

ASSUME CommandsAssumption == Commands \subseteq Command

VARIABLE cli   \* the command that has opened the queue, None when none has

cliVars == <<vars, cli>>

CliInit == Init /\ cli = None

(* new ObservationQueue(QUEUE_DB_PATH): the constructor's recovery runs here too. *)
CliOpen(cmd) ==
  /\ cli = None
  /\ cli' = cmd
  /\ queue' = Open(queue)
  /\ UNCHANGED <<event, nextId, copies, alive, provider, permanentStreak, cooling, lock, batch>>

(* What each command's one call makes of the table; a dry run only counts. *)
Outcomes(cmd) ==
  CASE cmd = "dedupe --apply"      -> {DedupePending(queue, event)}
    [] cmd = "retry --apply"       -> {RetryFailed(queue, n) : n \in 1..MaxRow}
    [] cmd = "maintenance --apply" -> {PruneDone(queue, S) : S \in SUBSET Rows(queue, "done")}
    [] OTHER                       -> {queue}

CliRun ==
  /\ cli # None
  /\ queue' \in Outcomes(cli)
  /\ cli' = None
  /\ UNCHANGED <<event, nextId, copies, alive, provider, permanentStreak, cooling, lock, batch>>

CliNext ==
  \/ Next /\ UNCHANGED cli
  \/ (\E cmd \in Commands : CliOpen(cmd)) \/ CliRun

CliSpec == CliInit /\ [][CliNext]_cliVars

-----------------------------------------------------------------------------
(* Properties *)

BatchRows == UNION {InFlight(batch[c]) : c \in Caller}

(* Whatever commands run beside the worker, no captured content is lost: an
   event that was accepted is still queued, or was made into an observation. *)
EventHeldOrWritten ==
  \A r \in Row : r < nextId =>
    \E s \in Row : event[s] = event[r] /\ (queue[s].status # "absent" \/ copies[s] > 0)

(* A row the worker owes an outcome gets one: a command may put it back to
   pending under the worker's feet, never give it a second owner. *)
StartsBatch(c) == batch[c].phase \notin Running /\ batch'[c].phase = "summarizing"

RowsOfABatchAreTakenOnce ==
  [][\A c \in Caller : StartsBatch(c) => batch'[c].todo \cap BatchRows = {}]_cliVars

CommandEnds == cli # None /\ cli' = None
Deleted == {r \in Present(queue) : queue'[r].status = "absent"}

(* "a row it is CURRENTLY summarising is 'processing' and dedupePending never
   touches those": a command deletes no row a running batch holds. *)
InFlightRowsAreKept ==
  [][CommandEnds => Deleted \cap BatchRows = {}]_cliVars
=============================================================================
