------------------------- MODULE ObservationPipeline -------------------------
(***************************************************************************)
(* The writer's observation pipeline (src/worker/index.ts): events arrive  *)
(* in the durable queue, the tick and the flush requests of Stop hooks run *)
(* processBatch one at a time, each group of rows of one turn is           *)
(* summarised by the active provider, stored and indexed, and what failed  *)
(* is requeued, retried or dead-lettered after the choice whether to fail  *)
(* over to the next provider.  The process may crash between any two       *)
(* steps: queue, observation store and payloads survive, the rest does     *)
(* not.                                                                    *)
(*                                                                         *)
(* One step is what runs between two awaits: JavaScript does not yield in  *)
(* between.  The awaits are the summarizer call, ingestObservation (embed, *)
(* vector.add) and the provider rebuild inside demoteProvider.             *)
(***************************************************************************)
EXTENDS ObservationQueue

CONSTANTS
  Caller,            \* who calls processBatchSerialized
  Tick,              \* the interval timer; every other caller is a flush request
  Provider,          \* the summarizer chain
  HasSeam,           \* is opts.rebuildSummarizer wired?
  BatchSize,         \* observationBatchSize
  ReleaseLimit,      \* DEAD_LETTER_RELEASE_LIMIT
  DemoteAfter,       \* DEMOTE_AFTER_PERMANENT_BATCHES
  SummarizeFailures, \* how a summarizer call can fail in this instance
  IngestFailures,    \* how ingestObservation can fail in this instance
  Many               \* bound: where counting the observations of a row stops

FailureKind == {"retryable", "overloaded", "permanent", "auth"}

ASSUME CallerAssumption == Tick \in Caller /\ None \notin Caller
ASSUME ProviderAssumption == None \notin Provider
ASSUME LimitsAssumption ==
  BatchSize \in Nat \ {0} /\ ReleaseLimit \in Nat /\ DemoteAfter \in Nat \ {0}
ASSUME FailuresAssumption ==
  SummarizeFailures \subseteq FailureKind /\ IngestFailures \subseteq FailureKind
ASSUME SeamAssumption == HasSeam \in BOOLEAN
ASSUME ManyAssumption == Many \in Nat \ {0}

VARIABLES
  queue,      \* observation_queue (durable)
  event,      \* row -> payload; kept after a DELETE, for the properties
  nextId,     \* the id the next INSERT gets
  copies,     \* observations.db: how many observations were made from a row
  alive,      \* is the worker process up?
  summarize,  \* the provider the summarizer calls, None once disabled
  active,     \* activeProvider: not cleared when the chain is exhausted
  demoted,    \* providers retired since the last (re)start of the summarizer
  permanentStreak,
  cooling,    \* Date.now() < summarizerCooldownUntil
  lock,       \* processBatchPromise: the caller whose batch is running
  batch       \* the locals of processBatch, per caller

durable  == <<queue, event, nextId, copies>>
provider == <<summarize, active, demoted>>
vars     == <<queue, event, nextId, copies, alive, summarize, active, demoted,
              permanentStreak, cooling, lock, batch>>

OneMore(n) == IF n < Many THEN n + 1 ELSE n

Phase == {"idle", "waiting", "summarizing", "ingesting", "demoting"}
Running == {"summarizing", "ingesting", "demoting"}

Batch == [phase : Phase, pinned : Provider \cup {None}, auth : BOOLEAN,
          todo : SUBSET Row, done : SUBSET Row, failed : SUBSET Row,
          permanent : SUBSET Row, overloaded : SUBSET Row]

NoBatch(phase) ==
  [phase |-> phase, pinned |-> None, auth |-> FALSE, todo |-> {}, done |-> {},
   failed |-> {}, permanent |-> {}, overloaded |-> {}]

NewBatch(S) ==
  [phase |-> "summarizing", pinned |-> summarize, auth |-> FALSE, todo |-> S, done |-> {},
   failed |-> {}, permanent |-> {}, overloaded |-> {}]

(* The group being summarised: the rows of the batch of the oldest row's turn. *)
CurrentGroup(b) ==
  {r \in b.todo : \E h \in b.todo : (\A s \in b.todo : h <= s) /\ Turn(event, r) = Turn(event, h)}

(* The rows a running batch still owes an outcome.  Before a demotion is
   awaited all outcomes but `permanent` have been written to the queue. *)
Parts(b) == b.todo \cup b.done \cup b.failed \cup b.permanent \cup b.overloaded

InFlight(b) ==
  IF b.phase = "demoting" THEN b.permanent
  ELSE IF b.phase \in {"summarizing", "ingesting"} THEN Parts(b) ELSE {}

Init ==
  /\ queue = EmptyTable
  /\ event = [r \in Row |-> NoEvent]
  /\ nextId = 1
  /\ copies = [r \in Row |-> 0]
  /\ alive = TRUE
  /\ summarize \in Provider \cup {None}
  /\ active = summarize
  /\ demoted = {}
  /\ permanentStreak = 0
  /\ cooling = FALSE
  /\ lock = None
  /\ batch = [c \in Caller |-> NoBatch("idle")]

-----------------------------------------------------------------------------
(* POST /observation/enqueue, and the capture driver in the same process. *)
Enqueue(e) ==
  /\ alive
  /\ nextId <= MaxRow
  /\ queue' = Insert(queue, nextId)
  /\ event' = [event EXCEPT ![nextId] = e]
  /\ nextId' = nextId + 1
  /\ UNCHANGED <<copies, alive, provider, permanentStreak, cooling, lock, batch>>

(* POST /observation/flush: a Stop hook wants batches until nothing is left. *)
FlushRequest(c) ==
  /\ alive
  /\ c # Tick
  /\ batch[c].phase = "idle"
  /\ summarize # None
  /\ batch' = [batch EXCEPT ![c].phase = "waiting"]
  /\ UNCHANGED <<durable, alive, provider, permanentStreak, cooling, lock>>

(* processBatch would return at once: summarizer off, cooling, or nothing pending. *)
NothingToDo == summarize = None \/ cooling \/ Rows(queue, "pending") = {}

(* The flush loop ends on a batch that processed nothing. *)
FlushEnds(c) ==
  /\ alive
  /\ lock = None
  /\ batch[c].phase = "waiting"
  /\ NothingToDo
  /\ batch' = [batch EXCEPT ![c].phase = "idle"]
  /\ UNCHANGED <<durable, alive, provider, permanentStreak, cooling, lock>>

(* Mutant: processBatchSerialized without its wait. *)
MayStartUnserialized(c) == batch[c].phase = IF c = Tick THEN "idle" ELSE "waiting"

(* A caller may start: the timer skips when a batch runs, a flush waits for it. *)
MayStart(c) ==
  /\ lock = None
  /\ batch[c].phase = IF c = Tick THEN "idle" ELSE "waiting"

(* processBatch up to its first await: claim the oldest rows, pin the provider. *)
StartBatch(c) ==
  /\ alive
  /\ MayStart(c)
  /\ ~NothingToDo
  /\ LET S == Claimable(queue, BatchSize)
     IN  /\ queue' = Claim(queue, S)
         /\ batch' = [batch EXCEPT ![c] = NewBatch(S)]
  /\ lock' = c
  /\ UNCHANGED <<event, nextId, copies, alive, provider, permanentStreak, cooling>>

(* The summarizer answered: obsStore.insert runs before the next await. *)
SummarizeOk(c) ==
  /\ batch[c].phase = "summarizing"
  /\ copies' = [r \in Row |-> IF r \in CurrentGroup(batch[c]) THEN OneMore(copies[r]) ELSE copies[r]]
  /\ batch' = [batch EXCEPT ![c].phase = "ingesting"]
  /\ UNCHANGED <<queue, event, nextId, alive, provider, permanentStreak, cooling, lock>>

-----------------------------------------------------------------------------
(* What happens once the last group has its outcome. *)

(* Done, overloaded and failed rows are written back before any failover. *)
WriteBack(q, b) == MarkFailed(Requeue(MarkDone(q, b.done), b.overloaded), b.failed)

(* Batches in a row that ended in a permanent failure, this one included. *)
StreakAfter(b) ==
  IF b.permanent # {} THEN permanentStreak + 1
  ELSE IF b.done # {} THEN 0 ELSE permanentStreak

WantsDemotion(b) == b.permanent # {} /\ (b.auth \/ StreakAfter(b) >= DemoteAfter)
CanDemote == HasSeam /\ active # None

(* The cooldown after a batch that did not fail over to a new provider. *)
CoolingAfter(b) ==
  IF b.overloaded # {} THEN TRUE ELSE IF b.done # {} THEN FALSE ELSE cooling

(* The caller's next phase: a flush goes round its loop until its max. *)
Release(c) ==
  /\ lock' = None
  /\ \E p \in IF c = Tick THEN {"idle"} ELSE {"idle", "waiting"} :
       batch' = [batch EXCEPT ![c] = NoBatch(p)]

(* Mutant: the permanent rows are judged before the failover is tried. *)
BeginDemotionJudgingFirst(c, b) ==
  /\ queue' = MarkPermanent(WriteBack(queue, b), b.permanent)
  /\ permanentStreak' = StreakAfter(b)
  /\ demoted' = demoted \cup {active}
  /\ batch' = [batch EXCEPT ![c] = [b EXCEPT !.phase = "demoting"]]
  /\ UNCHANGED <<summarize, active, cooling, lock>>

(* demoteProvider up to its await: the active provider goes on the list. *)
BeginDemotion(c, b) ==
  /\ queue' = WriteBack(queue, b)
  /\ permanentStreak' = StreakAfter(b)
  /\ demoted' = demoted \cup {active}
  /\ batch' = [batch EXCEPT ![c] = [b EXCEPT !.phase = "demoting"]]
  /\ UNCHANGED <<summarize, active, cooling, lock>>

(* No failover: the permanent rows are judged, and dead-lettered. *)
EndBatch(c, b) ==
  /\ queue' = MarkPermanent(WriteBack(queue, b), b.permanent)
  /\ permanentStreak' = IF WantsDemotion(b) THEN 0 ELSE StreakAfter(b)
  /\ cooling' = CoolingAfter(b)
  /\ Release(c)
  /\ UNCHANGED provider

NextGroup(c, b) ==
  /\ batch' = [batch EXCEPT ![c] = [b EXCEPT !.phase = "summarizing"]]
  /\ UNCHANGED <<queue, provider, permanentStreak, cooling, lock>>

(* The current group got its outcome; b is the batch with that recorded. *)
GroupOver(c, b) ==
  \/ b.todo # {} /\ NextGroup(c, b)
  \/ b.todo = {} /\ WantsDemotion(b) /\ CanDemote /\ BeginDemotion(c, b)
  \/ b.todo = {} /\ ~(WantsDemotion(b) /\ CanDemote) /\ EndBatch(c, b)

Succeeded(b) ==
  LET g == CurrentGroup(b) IN [b EXCEPT !.todo = @ \ g, !.done = @ \cup g]

(* Mutant: a failure is swallowed and the group counted as done. *)
FailedSilently(b, kind) == Succeeded(b)

(* classifySummarizeFailure; "auth" is a permanent failure of the provider's. *)
FailedAs(b, kind) ==
  LET g == CurrentGroup(b)
  IN  [b EXCEPT !.todo = @ \ g,
                !.auth = @ \/ kind = "auth",
                !.failed = IF kind = "retryable" THEN @ \cup g ELSE @,
                !.overloaded = IF kind = "overloaded" THEN @ \cup g ELSE @,
                !.permanent = IF kind \in {"permanent", "auth"} THEN @ \cup g ELSE @]

SummarizeFails(c) ==
  /\ batch[c].phase = "summarizing"
  /\ \E kind \in SummarizeFailures : GroupOver(c, FailedAs(batch[c], kind))
  /\ UNCHANGED <<event, nextId, copies, alive>>

IngestOk(c) ==
  /\ batch[c].phase = "ingesting"
  /\ GroupOver(c, Succeeded(batch[c]))
  /\ UNCHANGED <<event, nextId, copies, alive>>

(* The observation is in the store, its index is not, and the rows run again. *)
IngestFails(c) ==
  /\ batch[c].phase = "ingesting"
  /\ \E kind \in IngestFailures : GroupOver(c, FailedAs(batch[c], kind))
  /\ UNCHANGED <<event, nextId, copies, alive>>

-----------------------------------------------------------------------------
(* demoteProvider and the rest of processBatch, after the rebuild.  A new
   provider runs: the permanent rows were merely undeliverable. *)
FailOver(c) ==
  /\ batch[c].phase = "demoting"
  /\ \E p \in Provider \ demoted : summarize' = p /\ active' = p
  /\ queue' = Requeue(queue, batch[c].permanent)
  /\ cooling' = FALSE
  /\ permanentStreak' = 0
  /\ Release(c)
  /\ UNCHANGED <<event, nextId, copies, alive, demoted>>

(* The rebuild found no usable provider or threw: the summarizer is off. *)
ChainExhausted(c) ==
  /\ batch[c].phase = "demoting"
  /\ summarize' = None
  /\ queue' = MarkPermanent(queue, batch[c].permanent)
  /\ cooling' = CoolingAfter(batch[c])
  /\ permanentStreak' = 0
  /\ Release(c)
  /\ UNCHANGED <<event, nextId, copies, alive, active, demoted>>

(* Mutant: the re-probe does not check that the summarizer is off. *)
ReprobeAnyway ==
  /\ alive
  /\ HasSeam
  /\ \E p \in Provider : summarize' = p /\ active' = p
  /\ demoted' = {}
  /\ queue' = RetryFailed(queue, ReleaseLimit)
  /\ UNCHANGED <<event, nextId, copies, alive, permanentStreak, cooling, lock, batch>>

(* Mutant: the re-probe restores the provider and leaves the dead letters. *)
ReprobeWithoutRelease ==
  /\ alive
  /\ HasSeam
  /\ summarize = None
  /\ \E p \in Provider : summarize' = p /\ active' = p
  /\ demoted' = {}
  /\ UNCHANGED <<durable, alive, permanentStreak, cooling, lock, batch>>

(* The re-probe timer finds a provider again.  Its rebuild is an await, but
   nothing else can restore `summarize` meanwhile, so one step stands for it;
   a walk that finds nothing changes nothing. *)
Reprobe ==
  /\ alive
  /\ HasSeam
  /\ summarize = None
  /\ \E p \in Provider : summarize' = p /\ active' = p
  /\ demoted' = {}
  /\ queue' = RetryFailed(queue, ReleaseLimit)
  /\ UNCHANGED <<event, nextId, copies, alive, permanentStreak, cooling, lock, batch>>

CooldownElapses ==
  /\ cooling
  /\ cooling' = FALSE
  /\ UNCHANGED <<durable, alive, provider, permanentStreak, lock, batch>>

(* Mutant: retention deletes dead letters too. *)
RetentionOfAllEnded ==
  /\ alive
  /\ \E S \in SUBSET (Rows(queue, "done") \cup Rows(queue, "failed")) \ {{}} :
       queue' = Delete(queue, S)
  /\ UNCHANGED <<event, nextId, copies, alive, provider, permanentStreak, cooling, lock, batch>>

(* The retention sweep: any finished rows may be past the window. *)
Retention ==
  /\ alive
  /\ \E S \in SUBSET Rows(queue, "done") \ {{}} : queue' = PruneDone(queue, S)
  /\ UNCHANGED <<event, nextId, copies, alive, provider, permanentStreak, cooling, lock, batch>>

(* The process dies, or stops: a stop that drains its batch first ends in a
   state where the crash loses nothing more. *)
Crash ==
  /\ alive
  /\ alive' = FALSE
  /\ batch' = [c \in Caller |-> NoBatch("idle")]
  /\ lock' = None
  /\ summarize' = None
  /\ active' = None
  /\ demoted' = {}
  /\ permanentStreak' = 0
  /\ cooling' = FALSE
  /\ UNCHANGED durable

(* Boot: the queue constructor recovers, the provider chain is walked once,
   and with a summarizer the dead letters are released. *)
Restart ==
  /\ ~alive
  /\ alive' = TRUE
  /\ \/ /\ \E p \in Provider : summarize' = p /\ active' = p
        /\ queue' = RetryFailed(Open(queue), ReleaseLimit)
     \/ /\ queue' = Open(queue)
        /\ UNCHANGED <<summarize, active>>
  /\ UNCHANGED <<event, nextId, copies, demoted, permanentStreak, cooling, lock, batch>>

-----------------------------------------------------------------------------
ProcessBatch(c) ==
  \/ StartBatch(c) \/ SummarizeOk(c) \/ SummarizeFails(c) \/ IngestOk(c) \/ IngestFails(c)
  \/ FailOver(c) \/ ChainExhausted(c)

Next ==
  \/ \E e \in Event : Enqueue(e)
  \/ \E c \in Caller : FlushRequest(c) \/ FlushEnds(c) \/ ProcessBatch(c)
  \/ Reprobe \/ CooldownElapses \/ Retention \/ Crash \/ Restart

Spec == Init /\ [][Next]_vars

-----------------------------------------------------------------------------
(* Properties *)

TypeOK ==
  /\ queue \in [Row -> RowState]
  /\ event \in [Row -> Event \cup {NoEvent}]
  /\ nextId \in Nat \ {0}
  /\ copies \in [Row -> 0..Many]
  /\ alive \in BOOLEAN
  /\ summarize \in Provider \cup {None}
  /\ active \in Provider \cup {None}
  /\ demoted \in SUBSET Provider
  /\ permanentStreak \in Nat
  /\ cooling \in BOOLEAN
  /\ lock \in Caller \cup {None}
  /\ batch \in [Caller -> Batch]

(* No accepted event is lost: a row that is finished, or that retention has
   deleted, was made into an observation first, whatever failed, was retried,
   failed over or crashed in between. *)
NothingFinishedUnwritten ==
  \A r \in Row : r < nextId /\ queue[r].status \in {"done", "absent"} => copies[r] > 0

(* No row is stranded: while the worker is up, `processing` is exactly what the
   running batch still owes an outcome (a row left behind by an error path
   would wait for the next restart). *)
ProcessingIsOwned ==
  alive => Rows(queue, "processing") = UNION {InFlight(batch[c]) : c \in Caller}

(* The worker-wide lock: the timer and the flush requests never run two
   batches at once ("the runaway pattern"). *)
OneBatchAtATime ==
  \A c \in Caller : batch[c].phase \in Running <=> lock = c

(* One batch at a time is at work, and it owns what is processing: whoever asks
   for a batch meanwhile takes no row, and an error, a failover or a restart leaves
   no row behind. *)
ProcessingIsOneBatch == OneBatchAtATime /\ ProcessingIsOwned

(* A batch runs to its end on the provider it was started with, and that is
   the active one: a demotion retires the provider that failed, not a healthy
   one that replaced it meanwhile. *)
DemotionBlamesTheCulprit ==
  \A c \in Caller : batch[c].phase \in Running =>
    batch[c].pinned = active /\ summarize = active

(* A failover judges no data: while a batch waits for a replacement provider, its
   permanent rows are dead-lettered only by the step that finds there is none. *)
FailoverSparesTheData ==
  [][\A c \in Caller :
       "demoting" \in {batch[c].phase, batch'[c].phase}
       /\ (\E r \in batch[c].permanent \cup batch'[c].permanent :
             queue[r].status = "processing" /\ queue'[r].status = "failed")
         => summarize' = None]_vars

(* An outage is not the row's fault: a row whose call was answered "overloaded"
   leaves its batch pending, no failure counted, whatever the batch's other rows
   met and whatever crashes. *)
OutagesAreNotCounted ==
  [][\A c \in Caller : \A r \in batch[c].overloaded :
       queue'[r] # queue[r] => queue'[r] = [queue[r] EXCEPT !.status = "pending"]]_vars

(* A row that was made into an observation and indexed is not summarised again
   on account of what the rest of its batch met; only a crash before the write
   back does that. *)
WrittenRowsAreNotRetried ==
  [][alive' => \A c \in Caller : \A r \in batch[c].done : queue'[r].status # "pending"]_vars

(* What becomes of a row follows from what its own calls met: not from its
   provider's outage or failure, and not from the other rows of its batch. *)
RowsGetTheirDue == FailoverSparesTheData /\ OutagesAreNotCounted /\ WrittenRowsAreNotRetried

-----------------------------------------------------------------------------
(* Liveness.  Timers fire, a call returns or times out, the service manager
   restarts the worker; a summarizer asked about a row again and again answers
   one day, an index asked for it again and again takes it one day, and a login
   is repaired one day. *)

Answers(r) == \E c \in Caller : r \in CurrentGroup(batch[c]) /\ SummarizeOk(c)
Indexes(r) == \E c \in Caller : r \in CurrentGroup(batch[c]) /\ IngestOk(c)

Fairness ==
  /\ WF_vars(\E c \in Caller : StartBatch(c))
  /\ WF_vars(\E c \in Caller : FlushEnds(c))
  /\ WF_vars(\E c \in Caller : SummarizeOk(c) \/ SummarizeFails(c))
  /\ WF_vars(\E c \in Caller : IngestOk(c) \/ IngestFails(c))
  /\ WF_vars(\E c \in Caller : FailOver(c) \/ ChainExhausted(c))
  /\ WF_vars(CooldownElapses)
  /\ WF_vars(Reprobe)
  /\ WF_vars(Restart)
  /\ \A r \in Row : SF_vars(Answers(r)) /\ SF_vars(Indexes(r))

FairSpec == Spec /\ Fairness

(* A worker that stays up brings every pending row to an end: no row is
   wedged behind a bad one, an outage, a cooldown or a dead provider. *)
EveryRowResolves ==
  <>[]alive =>
    \A r \in Row : queue[r].status = "pending" ~> queue[r].status \in {"done", "failed", "absent"}

(* A dead letter left when no provider was usable gets another attempt without
   a restart: the re-probe that restores a provider also releases. *)
DeadLettersReturn ==
  <>[]alive => \A r \in Row : queue[r].status = "failed" /\ summarize = None ~> queue[r].status = "pending"

-----------------------------------------------------------------------------
(* Refinement: the pipeline keeps the promise of EventLedger.  An event is the
   row it was accepted as; it is closed when its row is finished or, finished,
   was deleted by retention. *)

Accepted == {r \in Row : r < nextId}
Closed == {r \in Accepted : queue[r].status \in {"done", "absent"}}

Ledger == INSTANCE EventLedger WITH
  Item <- Row,
  accepted <- Accepted,
  written <- {r \in Accepted : copies[r] > 0},
  closed <- Closed,
  shelved <- Rows(queue, "failed")

(* Every step of the pipeline is a step of the ledger, or none of its business. *)
ImplementsLedger == Ledger!Spec
=============================================================================
