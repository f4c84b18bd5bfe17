---------------------- MODULE ObservationPipelineProofs ----------------------
(***************************************************************************)
(* Machine-checked proofs about ObservationPipeline, for every number of   *)
(* rows, callers, providers and every limit, and about QueueCommands, its  *)
(* pipeline with the commands.  IInv strengthens the pipeline's four       *)
(* safety invariants to an inductive one: the rows of a batch are accepted *)
(* rows, each in one part of it, and the rows in `done`, like the group    *)
(* whose ingest is awaited, are in the store.                              *)
(***************************************************************************)
EXTENDS QueueCommands, WellFoundedInduction, TLAPS

Disjoint(b) ==
  /\ b.todo \cap (b.done \cup b.failed \cup b.permanent \cup b.overloaded) = {}
  /\ b.done \cap (b.failed \cup b.permanent \cup b.overloaded) = {}
  /\ b.failed \cap (b.permanent \cup b.overloaded) = {}
  /\ b.permanent \cap b.overloaded = {}

(* What holds of the locals of a running batch, whichever group it is at. *)
Sound(b) ==
  /\ Disjoint(b)
  /\ b.pinned # None
  /\ Parts(b) \subseteq Accepted
  /\ \A r \in b.done : copies[r] > 0

GroupIsWritten(b) ==
  b.phase = "ingesting" => \A r \in CurrentGroup(b) : copies[r] > 0

BatchesAreSound ==
  \A c \in Caller : batch[c].phase \in Running => Sound(batch[c]) /\ GroupIsWritten(batch[c])

DeadIsIdle == ~alive => lock = None

(* Only an accepted row is in the table. *)
TableIsAccepted == Present(queue) \subseteq Accepted

(* A summarizer that is on is the active provider's. *)
SummarizerIsActive == summarize # None => summarize = active

IInv ==
  /\ TypeOK
  /\ SummarizerIsActive
  /\ OneBatchAtATime
  /\ DeadIsIdle
  /\ TableIsAccepted
  /\ BatchesAreSound
  /\ ProcessingIsOwned
  /\ NothingFinishedUnwritten
  /\ DemotionBlamesTheCulprit

-----------------------------------------------------------------------------
(* The table operations, row by row. *)

LEMMA SetStatusEffect ==
  ASSUME NEW q \in [Row -> RowState], NEW S, NEW s \in Status \ {"absent"}
  PROVE  /\ SetStatus(q, S, s) \in [Row -> RowState]
         /\ \A r \in Row : SetStatus(q, S, s)[r].status =
              IF r \in S /\ q[r].status # "absent" THEN s ELSE q[r].status
BY DEF SetStatus, RowState, Status, Present

LEMMA MarkFailedEffect ==
  ASSUME NEW q \in [Row -> RowState], NEW S
  PROVE  /\ MarkFailed(q, S) \in [Row -> RowState]
         /\ \A r \in Row :
              IF r \in S /\ q[r].status # "absent"
                THEN MarkFailed(q, S)[r].status \in {"failed", "pending"}
                ELSE MarkFailed(q, S)[r].status = q[r].status
BY DEF MarkFailed, Struck, RowState, Status, Present

LEMMA RetryFailedEffect ==
  ASSUME NEW q \in [Row -> RowState], NEW n
  PROVE  /\ RetryFailed(q, n) \in [Row -> RowState]
         /\ \A r \in Row :
              IF q[r].status = "failed"
                THEN RetryFailed(q, n)[r].status \in {"failed", "pending"}
                ELSE RetryFailed(q, n)[r].status = q[r].status
<1>1. Oldest(Rows(q, "failed"), n) \subseteq {r \in Row : q[r].status = "failed"}
  BY DEF Oldest, Rows
<1>2. QED
  BY <1>1 DEF RetryFailed, RowState, Status

LEMMA PruneDoneEffect ==
  ASSUME NEW q \in [Row -> RowState], NEW S
  PROVE  /\ PruneDone(q, S) \in [Row -> RowState]
         /\ \A r \in Row :
              IF r \in S /\ q[r].status = "done"
                THEN PruneDone(q, S)[r].status = "absent"
                ELSE PruneDone(q, S)[r].status = q[r].status
BY DEF PruneDone, Delete, Absent, Rows, RowState, Status

(* Writing back a batch gives each of its rows the outcome of its part. *)
LEMMA WriteBackEffect ==
  ASSUME NEW q \in [Row -> RowState], NEW b \in Batch, Disjoint(b)
  PROVE  /\ WriteBack(q, b) \in [Row -> RowState]
         /\ \A r \in Row : q[r].status # "absent" =>
              /\ r \in b.done => WriteBack(q, b)[r].status = "done"
              /\ r \in b.overloaded => WriteBack(q, b)[r].status = "pending"
              /\ r \in b.failed => WriteBack(q, b)[r].status \in {"failed", "pending"}
              /\ r \notin b.done \cup b.overloaded \cup b.failed
                   => WriteBack(q, b)[r].status = q[r].status
         /\ \A r \in Row : q[r].status = "absent" => WriteBack(q, b)[r].status = "absent"
<1> DEFINE q1 == MarkDone(q, b.done)
           q2 == Requeue(q1, b.overloaded)
           q3 == MarkFailed(q2, b.failed)
<1>1. /\ q1 \in [Row -> RowState]
      /\ \A r \in Row : q1[r].status =
           IF r \in b.done /\ q[r].status # "absent" THEN "done" ELSE q[r].status
  BY SetStatusEffect DEF MarkDone, Status
<1> HIDE DEF q1
<1>2. /\ q2 \in [Row -> RowState]
      /\ \A r \in Row : q2[r].status =
           IF r \in b.overloaded /\ q1[r].status # "absent" THEN "pending" ELSE q1[r].status
  BY <1>1, SetStatusEffect DEF Requeue, Status
<1> HIDE DEF q2
<1>3. /\ q3 \in [Row -> RowState]
      /\ \A r \in Row :
           IF r \in b.failed /\ q2[r].status # "absent"
             THEN q3[r].status \in {"failed", "pending"}
             ELSE q3[r].status = q2[r].status
  BY <1>2, MarkFailedEffect
<1> HIDE DEF q3
<1>4. WriteBack(q, b) = q3
  BY DEF WriteBack, q3, q2, q1
<1>5. /\ b.done \cap (b.failed \cup b.overloaded) = {}
      /\ b.failed \cap b.overloaded = {}
  BY DEF Disjoint
<1>6. ASSUME NEW r \in Row, q[r].status # "absent"
      PROVE  /\ r \in b.done => q3[r].status = "done"
             /\ r \in b.overloaded => q3[r].status = "pending"
             /\ r \in b.failed => q3[r].status \in {"failed", "pending"}
             /\ r \notin b.done \cup b.overloaded \cup b.failed => q3[r].status = q[r].status
  BY <1>1, <1>2, <1>3, <1>5, <1>6
<1>7. ASSUME NEW r \in Row, q[r].status = "absent"
      PROVE  q3[r].status = "absent"
  BY <1>1, <1>2, <1>3, <1>7
<1>8. QED
  BY <1>3, <1>4, <1>6, <1>7

-----------------------------------------------------------------------------
(* The locals of a batch when a group gets its outcome. *)

LEMMA GroupIsTodo ==
  ASSUME NEW b \in Batch
  PROVE  CurrentGroup(b) \subseteq b.todo
BY DEF CurrentGroup

(* Moving the current group to `done`, once it is written, keeps a batch sound. *)
LEMMA SucceededIsSound ==
  ASSUME NEW b \in Batch, Sound(b), b.phase = "ingesting", GroupIsWritten(b)
  PROVE  /\ Succeeded(b) \in Batch
         /\ Sound(Succeeded(b))
         /\ Parts(Succeeded(b)) = Parts(b)
         /\ Succeeded(b).pinned = b.pinned
<1> DEFINE g == CurrentGroup(b)
<1>1. g \subseteq b.todo /\ \A r \in g : copies[r] > 0
  BY GroupIsTodo DEF GroupIsWritten
<1> HIDE DEF g
<1> DEFINE b2 == Succeeded(b)
<1>2. /\ b2 \in Batch
      /\ b2.todo = b.todo \ g /\ b2.done = b.done \cup g
      /\ b2.failed = b.failed /\ b2.permanent = b.permanent /\ b2.overloaded = b.overloaded
      /\ b2.pinned = b.pinned
  <2>1. b2 = [b EXCEPT !.todo = b.todo \ g, !.done = b.done \cup g]
    BY DEF Succeeded, g
  <2>2. QED
    BY <1>1, <2>1 DEF Batch
<1> HIDE DEF b2
<1>3. Sound(b2) /\ Parts(b2) = Parts(b)
  BY <1>1, <1>2 DEF Sound, Disjoint, Parts
<1>4. QED
  BY <1>2, <1>3 DEF b2

(* So does moving it to one of the three failure lists. *)
LEMMA FailedAsIsSound ==
  ASSUME NEW b \in Batch, Sound(b), NEW kind \in FailureKind
  PROVE  /\ FailedAs(b, kind) \in Batch
         /\ Sound(FailedAs(b, kind))
         /\ Parts(FailedAs(b, kind)) = Parts(b)
         /\ FailedAs(b, kind).pinned = b.pinned
<1> DEFINE g == CurrentGroup(b)
<1>1. g \subseteq b.todo
  BY GroupIsTodo
<1> HIDE DEF g
<1> DEFINE b2 == FailedAs(b, kind)
<1>2. /\ b2 \in Batch
      /\ b2.todo = b.todo \ g /\ b2.done = b.done
      /\ b2.failed = IF kind = "retryable" THEN b.failed \cup g ELSE b.failed
      /\ b2.overloaded = IF kind = "overloaded" THEN b.overloaded \cup g ELSE b.overloaded
      /\ b2.permanent = IF kind \in {"permanent", "auth"} THEN b.permanent \cup g ELSE b.permanent
      /\ b2.pinned = b.pinned
  <2> DEFINE t == b.todo \ g
             a == (b.auth \/ kind = "auth")
             f == IF kind = "retryable" THEN b.failed \cup g ELSE b.failed
             o == IF kind = "overloaded" THEN b.overloaded \cup g ELSE b.overloaded
             p == IF kind \in {"permanent", "auth"} THEN b.permanent \cup g ELSE b.permanent
  <2>1. b2 = [b EXCEPT !.todo = t, !.auth = a, !.failed = f, !.overloaded = o, !.permanent = p]
    BY DEF FailedAs, g
  <2>2. t \in SUBSET Row /\ f \in SUBSET Row /\ o \in SUBSET Row /\ p \in SUBSET Row
    BY <1>1 DEF Batch
  <2>3. a \in BOOLEAN
    OBVIOUS
  <2> HIDE DEF t, a, f, o, p
  <2>4. /\ b2 \in Batch
        /\ b2.todo = t /\ b2.failed = f /\ b2.overloaded = o /\ b2.permanent = p
        /\ b2.done = b.done /\ b2.pinned = b.pinned
    BY <2>1, <2>2, <2>3 DEF Batch
  <2>5. QED
    BY <2>4 DEF t, f, o, p
<1> HIDE DEF b2
<1>3. Sound(b2) /\ Parts(b2) = Parts(b)
  BY <1>1, <1>2 DEF Sound, Disjoint, Parts, FailureKind
<1>4. QED
  BY <1>2, <1>3 DEF b2

-----------------------------------------------------------------------------
(* At most one batch holds rows, so the rows in flight are that batch's. *)

LEMMA InFlightOfOne ==
  ASSUME NEW bt, NEW c \in Caller, \A d \in Caller \ {c} : bt[d].phase \notin Running
  PROVE  UNION {InFlight(bt[d]) : d \in Caller} = InFlight(bt[c])
<1>1. \A d \in Caller \ {c} : InFlight(bt[d]) = {}
  BY DEF InFlight, Running
<1>2. QED
  BY <1>1

LEMMA InFlightOfNone ==
  ASSUME NEW bt, \A d \in Caller : bt[d].phase \notin Running
  PROVE  UNION {InFlight(bt[d]) : d \in Caller} = {}
<1>1. \A d \in Caller : InFlight(bt[d]) = {}
  BY DEF InFlight, Running
<1>2. QED
  BY <1>1

(* A table may change as it likes without losing an event as long as only
   written rows finish, and none disappears unfinished. *)
LEMMA FinishedStayWritten ==
  ASSUME NothingFinishedUnwritten, UNCHANGED <<nextId, copies>>,
         \A r \in Row : queue'[r].status \in {"done", "absent"} =>
           queue[r].status \in {"done", "absent"} \/ copies[r] > 0
  PROVE  NothingFinishedUnwritten'
BY DEF NothingFinishedUnwritten

LEMMA NoBatchIsBatch ==
  ASSUME NEW p \in Phase
  PROVE  NoBatch(p) \in Batch /\ NoBatch(p).phase = p
BY DEF NoBatch, Batch

(* A batch that ends leaves its caller idle or waiting, and the lock free. *)
LEMMA ReleaseEffect ==
  ASSUME TypeOK, NEW c \in Caller, OneBatchAtATime, lock = c, Release(c)
  PROVE  /\ batch' \in [Caller -> Batch]
         /\ lock' = None
         /\ \A d \in Caller : batch'[d].phase \notin Running
         /\ OneBatchAtATime'
         /\ UNION {InFlight(batch'[d]) : d \in Caller} = {}
<1>1. PICK p \in {"idle", "waiting"} : batch' = [batch EXCEPT ![c] = NoBatch(p)]
  BY DEF Release
<1>2. NoBatch(p) \in Batch /\ NoBatch(p).phase = p
  BY NoBatchIsBatch DEF Phase
<1>3. batch' \in [Caller -> Batch] /\ lock' = None
  BY <1>1, <1>2 DEF Release, TypeOK
<1>4. \A d \in Caller : batch'[d].phase \notin Running
  BY <1>1, <1>2, CallerAssumption DEF TypeOK, OneBatchAtATime, Running
<1>5. OneBatchAtATime'
  BY <1>3, <1>4, CallerAssumption DEF OneBatchAtATime
<1>6. QED
  BY <1>3, <1>4, <1>5, InFlightOfNone

-----------------------------------------------------------------------------
(* The last step of a group keeps the invariant; b is the batch with the
   outcome of the group recorded in it. *)
LEMMA GroupOverKeepsIInv ==
  ASSUME IInv, NEW c \in Caller, NEW b \in Batch,
         batch[c].phase \in {"summarizing", "ingesting"},
         Sound(b), Parts(b) = Parts(batch[c]), b.pinned = batch[c].pinned,
         GroupOver(c, b), UNCHANGED <<event, nextId, copies, alive>>
  PROVE  IInv'
<1> USE DEF IInv
<1>1. lock = c /\ \A d \in Caller \ {c} : batch[d].phase \notin Running
  BY CallerAssumption DEF OneBatchAtATime, Running
<1>2. alive
  BY <1>1, CallerAssumption DEF DeadIsIdle
<1>3. Rows(queue, "processing") = Parts(b)
  BY <1>1, <1>2, InFlightOfOne DEF ProcessingIsOwned, InFlight
<1>4. queue \in [Row -> RowState] /\ Parts(b) \subseteq Row
  BY DEF TypeOK, Batch, Parts
<1>5. \A r \in Parts(b) : queue[r].status = "processing"
  BY <1>3 DEF Rows
<1>6. b.pinned = active /\ summarize = active
  BY <1>1 DEF DemotionBlamesTheCulprit, Running
<1>7. CASE b.todo # {} /\ NextGroup(c, b)
  <2> DEFINE b2 == [b EXCEPT !.phase = "summarizing"]
  <2>1. /\ b2 \in Batch /\ b2.phase = "summarizing"
        /\ b2.pinned = b.pinned /\ Parts(b2) = Parts(b) /\ Sound(b2)
    BY DEF Batch, Phase, Parts, Sound, Disjoint
  <2> HIDE DEF b2
  <2>2. batch' = [batch EXCEPT ![c] = b2]
    BY <1>7 DEF NextGroup, b2
  <2>3. TypeOK'
    BY <1>7, <2>1, <2>2 DEF NextGroup, TypeOK, provider
  <2>4. batch'[c] = b2 /\ \A d \in Caller \ {c} : batch'[d] = batch[d]
    BY <2>2 DEF TypeOK
  <2>5. OneBatchAtATime'
    BY <1>1, <1>7, <2>1, <2>4 DEF OneBatchAtATime, NextGroup, Running
  <2>6. BatchesAreSound'
    BY <1>1, <2>1, <2>4 DEF BatchesAreSound, Sound, GroupIsWritten, Accepted
  <2>7. ProcessingIsOwned'
    <3>1. UNION {InFlight(batch'[d]) : d \in Caller} = InFlight(b2)
      BY <1>1, <2>4, InFlightOfOne
    <3>2. queue' = queue
      BY <1>7 DEF NextGroup
    <3>3. QED
      BY <1>3, <2>1, <3>1, <3>2 DEF ProcessingIsOwned, InFlight, Rows
  <2>8. /\ DeadIsIdle' /\ TableIsAccepted' /\ NothingFinishedUnwritten'
        /\ SummarizerIsActive'
    BY <1>7 DEF NextGroup, DeadIsIdle, TableIsAccepted, Present, Accepted,
                NothingFinishedUnwritten, SummarizerIsActive, provider
  <2>9. DemotionBlamesTheCulprit'
    BY <1>1, <1>6, <1>7, <2>1, <2>4 DEF DemotionBlamesTheCulprit, NextGroup, provider
  <2>10. QED
    BY <2>3, <2>5, <2>6, <2>7, <2>8, <2>9
<1>8. CASE b.todo = {} /\ CanDemote /\ BeginDemotion(c, b)
  <2> DEFINE b2 == [b EXCEPT !.phase = "demoting"]
  <2>1. /\ b2 \in Batch /\ b2.phase = "demoting"
        /\ b2.pinned = b.pinned /\ Sound(b2) /\ InFlight(b2) = b.permanent
    BY DEF Batch, Phase, Parts, Sound, Disjoint, InFlight
  <2> HIDE DEF b2
  <2>2. batch' = [batch EXCEPT ![c] = b2] /\ queue' = WriteBack(queue, b)
    BY <1>8 DEF BeginDemotion, b2
  <2>3. /\ queue' \in [Row -> RowState]
        /\ \A r \in Row : queue[r].status # "absent" =>
             /\ r \in b.done => queue'[r].status = "done"
             /\ r \in b.overloaded => queue'[r].status = "pending"
             /\ r \in b.failed => queue'[r].status \in {"failed", "pending"}
             /\ r \notin b.done \cup b.overloaded \cup b.failed
                  => queue'[r].status = queue[r].status
        /\ \A r \in Row : queue[r].status = "absent" => queue'[r].status = "absent"
    BY <1>4, <2>2, WriteBackEffect DEF Sound
  <2>4. TypeOK'
    <3>1. permanentStreak' \in Nat /\ active \in Provider
      BY <1>8 DEF BeginDemotion, TypeOK, StreakAfter, CanDemote
    <3>2. QED
      BY <1>8, <2>1, <2>2, <2>3, <3>1 DEF BeginDemotion, TypeOK
  <2>5. batch'[c] = b2 /\ \A d \in Caller \ {c} : batch'[d] = batch[d]
    BY <2>2 DEF TypeOK
  <2>6. OneBatchAtATime'
    BY <1>1, <1>8, <2>1, <2>5 DEF OneBatchAtATime, BeginDemotion, Running
  <2>7. BatchesAreSound'
    BY <1>1, <2>1, <2>5 DEF BatchesAreSound, Sound, GroupIsWritten, Accepted
  <2>8. ProcessingIsOwned'
    <3>1. UNION {InFlight(batch'[d]) : d \in Caller} = b.permanent
      BY <1>1, <2>1, <2>5, InFlightOfOne
    <3>2. \A r \in Row : queue'[r].status = "processing" <=> r \in b.permanent
      BY <1>3, <1>5, <1>8, <2>3 DEF Rows, Parts, Sound, Disjoint
    <3>3. QED
      BY <1>4, <3>1, <3>2 DEF ProcessingIsOwned, Rows, Parts
  <2>9. DeadIsIdle' /\ TableIsAccepted' /\ SummarizerIsActive'
    BY <1>2, <1>8, <2>3 DEF DeadIsIdle, TableIsAccepted, Present, Accepted,
                            SummarizerIsActive, BeginDemotion
  <2>10. NothingFinishedUnwritten'
    BY <2>3, FinishedStayWritten DEF Sound
  <2>11. DemotionBlamesTheCulprit'
    BY <1>1, <1>6, <1>8, <2>1, <2>5 DEF DemotionBlamesTheCulprit, BeginDemotion
  <2>12. QED
    BY <2>4, <2>6, <2>7, <2>8, <2>9, <2>10, <2>11
<1>9. CASE b.todo = {} /\ EndBatch(c, b)
  <2> DEFINE q == WriteBack(queue, b)
  <2>1. /\ q \in [Row -> RowState]
        /\ \A r \in Row : queue[r].status # "absent" =>
             /\ r \in b.done => q[r].status = "done"
             /\ r \in b.overloaded => q[r].status = "pending"
             /\ r \in b.failed => q[r].status \in {"failed", "pending"}
             /\ r \notin b.done \cup b.overloaded \cup b.failed => q[r].status = queue[r].status
        /\ \A r \in Row : queue[r].status = "absent" => q[r].status = "absent"
    BY <1>4, WriteBackEffect DEF Sound
  <2> HIDE DEF q
  <2>2. /\ queue' \in [Row -> RowState]
        /\ \A r \in Row : queue'[r].status =
             IF r \in b.permanent /\ q[r].status # "absent" THEN "failed" ELSE q[r].status
    <3>1. queue' = SetStatus(q, b.permanent, "failed")
      BY <1>9 DEF EndBatch, MarkPermanent, q
    <3>2. QED
      BY <2>1, <3>1, SetStatusEffect DEF Status
  <2>3. /\ batch' \in [Caller -> Batch] /\ lock' = None
        /\ \A d \in Caller : batch'[d].phase \notin Running
        /\ OneBatchAtATime'
        /\ UNION {InFlight(batch'[d]) : d \in Caller} = {}
    BY <1>1, <1>9, ReleaseEffect DEF EndBatch
  <2>4. TypeOK'
    <3>1. permanentStreak' \in Nat
      BY <1>9 DEF EndBatch, TypeOK, StreakAfter
    <3>2. cooling' \in BOOLEAN
      BY <1>9 DEF EndBatch, TypeOK, CoolingAfter
    <3>3. QED
      BY <1>9, <2>2, <2>3, <3>1, <3>2 DEF EndBatch, TypeOK, provider
  <2>5. /\ BatchesAreSound' /\ DemotionBlamesTheCulprit' /\ DeadIsIdle'
        /\ SummarizerIsActive'
    BY <1>9, <2>3 DEF BatchesAreSound, DemotionBlamesTheCulprit, DeadIsIdle,
                      SummarizerIsActive, EndBatch, provider
  <2>6. ProcessingIsOwned'
    <3>1. \A r \in Row : queue'[r].status # "processing"
      BY <1>3, <1>5, <1>9, <2>1, <2>2 DEF Rows, Parts
    <3>2. QED
      BY <2>3, <3>1 DEF ProcessingIsOwned, Rows
  <2>7. TableIsAccepted'
    BY <2>1, <2>2 DEF TableIsAccepted, Present, Accepted
  <2>8. NothingFinishedUnwritten'
    BY <2>1, <2>2, FinishedStayWritten DEF Sound
  <2>9. QED
    BY <2>3, <2>4, <2>5, <2>6, <2>7, <2>8
<1>10. QED
  BY <1>7, <1>8, <1>9 DEF GroupOver

-----------------------------------------------------------------------------
(* The steps of a batch that are not the end of a group. *)

LEMMA StartBatchKeepsIInv ==
  ASSUME IInv, NEW c \in Caller, StartBatch(c)
  PROVE  IInv'
<1> USE DEF IInv
<1> DEFINE S == Claimable(queue, BatchSize)
           b == NewBatch(S)
<1>1. /\ S \subseteq Row
      /\ \A r \in S : queue[r].status = "pending"
  BY DEF Claimable, Oldest, Rows
<1> HIDE DEF S
<1>2. /\ b \in Batch /\ b.phase = "summarizing" /\ b.pinned = summarize
      /\ Parts(b) = S /\ Disjoint(b) /\ b.done = {}
  BY <1>1 DEF NewBatch, Batch, Phase, Parts, Disjoint, TypeOK
<1> HIDE DEF b
<1>3. /\ queue' = SetStatus(queue, S, "processing")
      /\ batch' = [batch EXCEPT ![c] = b]
      /\ lock = None /\ lock' = c /\ alive /\ summarize # None
      /\ UNCHANGED <<event, nextId, copies, alive, summarize, active, demoted, permanentStreak, cooling>>
  BY DEF StartBatch, MayStart, NothingToDo, Claim, provider, S, b
<1>4. /\ queue' \in [Row -> RowState]
      /\ \A r \in Row : queue'[r].status =
           IF r \in S /\ queue[r].status # "absent" THEN "processing" ELSE queue[r].status
  BY <1>3, SetStatusEffect DEF TypeOK, Status
<1>5. \A d \in Caller : batch[d].phase \notin Running
  BY <1>3, CallerAssumption DEF OneBatchAtATime
<1>6. batch'[c] = b /\ \A d \in Caller \ {c} : batch'[d] = batch[d]
  BY <1>3 DEF TypeOK
<1>7. TypeOK'
  BY <1>2, <1>3, <1>4 DEF TypeOK
<1>8. OneBatchAtATime'
  BY <1>2, <1>3, <1>5, <1>6 DEF OneBatchAtATime, Running
<1>9. DeadIsIdle' /\ TableIsAccepted' /\ SummarizerIsActive'
  BY <1>3, <1>4 DEF DeadIsIdle, TableIsAccepted, Present, Accepted, SummarizerIsActive
<1>10. BatchesAreSound'
  <2>1. S \subseteq Accepted
    BY <1>1 DEF TableIsAccepted, Present
  <2>2. QED
    BY <1>2, <1>3, <1>5, <1>6, <2>1 DEF BatchesAreSound, Sound, GroupIsWritten, Accepted
<1>11. ProcessingIsOwned'
  <2>1. UNION {InFlight(batch[d]) : d \in Caller} = {}
    BY <1>5, InFlightOfNone
  <2>2. Rows(queue, "processing") = {}
    BY <1>3, <2>1 DEF ProcessingIsOwned
  <2>3. UNION {InFlight(batch'[d]) : d \in Caller} = InFlight(b)
    BY <1>5, <1>6, InFlightOfOne
  <2>4. InFlight(b) = S
    BY <1>2 DEF InFlight
  <2>5. QED
    BY <1>1, <1>4, <2>2, <2>3, <2>4 DEF ProcessingIsOwned, Rows
<1>12. NothingFinishedUnwritten'
  BY <1>3, <1>4, FinishedStayWritten
<1>13. DemotionBlamesTheCulprit'
  <2>1. summarize = active
    BY <1>3 DEF SummarizerIsActive
  <2>2. QED
    BY <1>2, <1>3, <1>5, <1>6, <2>1 DEF DemotionBlamesTheCulprit
<1>14. QED
  BY <1>7, <1>8, <1>9, <1>10, <1>11, <1>12, <1>13

LEMMA SummarizeOkKeepsIInv ==
  ASSUME IInv, NEW c \in Caller, SummarizeOk(c)
  PROVE  IInv'
<1> USE DEF IInv
<1>0. PICK b : b = [batch[c] EXCEPT !.phase = "ingesting"]
  OBVIOUS
<1> DEFINE g == CurrentGroup(batch[c])
<1>1. /\ b \in Batch /\ b.phase = "ingesting" /\ b.pinned = batch[c].pinned
      /\ b.todo = batch[c].todo /\ b.done = batch[c].done
      /\ Parts(b) = Parts(batch[c]) /\ (Disjoint(batch[c]) => Disjoint(b))
  BY <1>0 DEF TypeOK, Batch, Phase, Parts, Disjoint
<1>2. CurrentGroup(b) = g
  BY <1>1 DEF CurrentGroup
<1> HIDE DEF g
<1>3. /\ batch[c].phase = "summarizing"
      /\ batch' = [batch EXCEPT ![c] = b]
      /\ copies' = [r \in Row |-> IF r \in g THEN OneMore(copies[r]) ELSE copies[r]]
      /\ UNCHANGED <<queue, event, nextId, alive, summarize, active, demoted,
                     permanentStreak, cooling, lock>>
  BY <1>0 DEF SummarizeOk, provider, g
<1>4. /\ copies' \in [Row -> 0..Many]
      /\ \A r \in Row : (copies[r] > 0 \/ r \in g) => copies'[r] > 0
  BY <1>3, ManyAssumption DEF TypeOK, OneMore
<1>5. batch'[c] = b /\ \A d \in Caller \ {c} : batch'[d] = batch[d]
  BY <1>3 DEF TypeOK
<1>6. lock = c /\ \A d \in Caller \ {c} : batch[d].phase \notin Running
  BY <1>3, CallerAssumption DEF OneBatchAtATime, Running
<1>7. TypeOK'
  BY <1>1, <1>3, <1>4 DEF TypeOK
<1>8. OneBatchAtATime'
  BY <1>1, <1>3, <1>5, <1>6 DEF OneBatchAtATime, Running
<1>9. DeadIsIdle' /\ TableIsAccepted' /\ SummarizerIsActive'
  BY <1>3 DEF DeadIsIdle, TableIsAccepted, Present, Accepted, SummarizerIsActive
<1>10. BatchesAreSound'
  <2>1. Sound(batch[c]) /\ Parts(batch[c]) \subseteq Row
    BY <1>3 DEF BatchesAreSound, Running, Sound, Accepted
  <2>2. Sound(b)'
    BY <1>1, <1>3, <1>4, <2>1 DEF Sound, Accepted, Parts
  <2>3. GroupIsWritten(b)'
    <3>1. CurrentGroup(b)' = g
      BY <1>2, <1>3 DEF CurrentGroup, Turn
    <3>2. g \subseteq Row
      BY <2>1 DEF g, CurrentGroup, Parts
    <3>3. QED
      BY <1>4, <3>1, <3>2 DEF GroupIsWritten
  <2>4. QED
    BY <1>5, <1>6, <2>2, <2>3 DEF BatchesAreSound
<1>11. ProcessingIsOwned'
  <2>1. UNION {InFlight(batch'[d]) : d \in Caller} = InFlight(b)
    BY <1>5, <1>6, InFlightOfOne
  <2>2. UNION {InFlight(batch[d]) : d \in Caller} = InFlight(batch[c])
    BY <1>6, InFlightOfOne
  <2>3. InFlight(b) = InFlight(batch[c])
    BY <1>1, <1>3 DEF InFlight
  <2>4. QED
    BY <1>3, <2>1, <2>2, <2>3 DEF ProcessingIsOwned, Rows
<1>12. NothingFinishedUnwritten'
  BY <1>3, <1>4 DEF NothingFinishedUnwritten
<1>13. DemotionBlamesTheCulprit'
  BY <1>1, <1>3, <1>5, <1>6 DEF DemotionBlamesTheCulprit, Running
<1>14. QED
  BY <1>7, <1>8, <1>9, <1>10, <1>11, <1>12, <1>13

(* The three ways a group ends. *)
LEMMA GroupEndsKeepsIInv ==
  ASSUME IInv, NEW c \in Caller, SummarizeFails(c) \/ IngestOk(c) \/ IngestFails(c)
  PROVE  IInv'
<1> USE DEF IInv
<1>1. batch[c] \in Batch /\ UNCHANGED <<event, nextId, copies, alive>>
  BY DEF TypeOK, SummarizeFails, IngestOk, IngestFails
<1>2. batch[c].phase \in {"summarizing", "ingesting"}
  BY DEF SummarizeFails, IngestOk, IngestFails
<1>3. Sound(batch[c]) /\ GroupIsWritten(batch[c])
  BY <1>2 DEF BatchesAreSound, Running
<1>4. CASE IngestOk(c)
  <2>1. GroupOver(c, Succeeded(batch[c])) /\ batch[c].phase = "ingesting"
    BY <1>4 DEF IngestOk
  <2>2. QED
    BY <1>1, <1>2, <1>3, <2>1, SucceededIsSound, GroupOverKeepsIInv
<1>5. CASE SummarizeFails(c) \/ IngestFails(c)
  <2>1. PICK kind \in FailureKind : GroupOver(c, FailedAs(batch[c], kind))
    BY <1>5, FailuresAssumption DEF SummarizeFails, IngestFails
  <2>2. QED
    BY <1>1, <1>2, <1>3, <2>1, FailedAsIsSound, GroupOverKeepsIInv
<1>6. QED
  BY <1>4, <1>5

-----------------------------------------------------------------------------
(* The steps of the rest of the worker. *)

(* A new row is nobody's yet: the batches that run hold older ones. *)
LEMMA EnqueueKeepsIInv ==
  ASSUME IInv, NEW e \in Event, Enqueue(e)
  PROVE  IInv'
<1> USE DEF IInv
<1>1. /\ nextId \in Row /\ alive
      /\ queue' = Insert(queue, nextId)
      /\ event' = [event EXCEPT ![nextId] = e]
      /\ nextId' = nextId + 1
      /\ UNCHANGED <<copies, alive, summarize, active, demoted, permanentStreak, cooling, lock, batch>>
  BY MaxRowAssumption DEF Enqueue, provider, Row, TypeOK
<1>2. queue[nextId].status = "absent"
  <2>1. nextId \notin Accepted
    BY <1>1 DEF Accepted, TypeOK
  <2>2. QED
    BY <1>1, <2>1 DEF TableIsAccepted, Present
<1>3. /\ queue' \in [Row -> RowState]
      /\ queue'[nextId].status = "pending"
      /\ \A r \in Row \ {nextId} : queue'[r] = queue[r]
  BY <1>1 DEF Insert, TypeOK, RowState, Status
<1>4. TypeOK'
  <2>1. nextId' \in Nat \ {0}
    BY <1>1 DEF TypeOK
  <2>2. event' \in [Row -> Event \cup {NoEvent}]
    BY <1>1 DEF TypeOK
  <2>3. QED
    BY <1>1, <1>3, <2>1, <2>2 DEF TypeOK
<1>5. Accepted' = Accepted \cup {nextId}
  BY <1>1, MaxRowAssumption DEF Accepted, Row, TypeOK
<1>6. /\ OneBatchAtATime' /\ DeadIsIdle' /\ SummarizerIsActive'
      /\ DemotionBlamesTheCulprit'
  BY <1>1 DEF OneBatchAtATime, DeadIsIdle, SummarizerIsActive, DemotionBlamesTheCulprit
<1>7. TableIsAccepted'
  BY <1>3, <1>5 DEF TableIsAccepted, Present
<1>8. BatchesAreSound'
  <2> SUFFICES ASSUME NEW c \in Caller, batch[c].phase \in Running
               PROVE  (Sound(batch[c]) /\ GroupIsWritten(batch[c]))'
    BY <1>1 DEF BatchesAreSound
  <2>1. PICK b : b = batch[c]
    OBVIOUS
  <2>2. Sound(b) /\ GroupIsWritten(b)
    BY <2>1 DEF BatchesAreSound
  <2>3. Sound(b)'
    BY <1>1, <1>5, <2>2 DEF Sound
  <2>4. \A r \in b.todo : event'[r] = event[r]
    BY <1>1, <2>2 DEF Sound, Parts, Accepted, TypeOK
  <2>5. CurrentGroup(b)' = CurrentGroup(b)
    BY <2>4 DEF CurrentGroup, Turn
  <2>6. GroupIsWritten(b)'
    BY <1>1, <2>2, <2>5 DEF GroupIsWritten
  <2>7. QED
    BY <1>1, <2>1, <2>3, <2>6
<1>9. ProcessingIsOwned'
  <2>1. Rows(queue', "processing") = Rows(queue, "processing")
    BY <1>2, <1>3 DEF Rows
  <2>2. QED
    BY <1>1, <2>1 DEF ProcessingIsOwned
<1>10. NothingFinishedUnwritten'
  BY <1>1, <1>3, MaxRowAssumption DEF NothingFinishedUnwritten, Row, TypeOK
<1>11. QED
  BY <1>4, <1>6, <1>7, <1>8, <1>9, <1>10

(* A caller that runs no batch may start or stop waiting. *)
LEMMA FlushKeepsIInv ==
  ASSUME IInv, NEW c \in Caller, FlushRequest(c) \/ FlushEnds(c)
  PROVE  IInv'
<1> USE DEF IInv
<1>1. PICK p \in {"idle", "waiting"} : batch' = [batch EXCEPT ![c].phase = p]
  BY DEF FlushRequest, FlushEnds
<1>2. /\ batch[c].phase \notin Running
      /\ UNCHANGED <<queue, event, nextId, copies, alive, summarize, active, demoted,
                     permanentStreak, cooling, lock>>
  BY DEF FlushRequest, FlushEnds, durable, provider, Running
<1>3. /\ batch'[c] \in Batch /\ batch'[c].phase \notin Running
      /\ \A d \in Caller \ {c} : batch'[d] = batch[d]
  <2>1. PICK b : b = [batch[c] EXCEPT !.phase = p]
    OBVIOUS
  <2>2. b \in Batch /\ b.phase = p
    BY <2>1 DEF TypeOK, Batch, Phase
  <2>3. batch' = [batch EXCEPT ![c] = b]
    BY <1>1, <2>1
  <2>4. QED
    BY <2>2, <2>3 DEF TypeOK, Running
<1>4. TypeOK'
  BY <1>1, <1>2, <1>3 DEF TypeOK
<1>5. /\ OneBatchAtATime' /\ DeadIsIdle' /\ SummarizerIsActive' /\ TableIsAccepted'
      /\ NothingFinishedUnwritten' /\ DemotionBlamesTheCulprit'
  BY <1>2, <1>3 DEF OneBatchAtATime, DeadIsIdle, SummarizerIsActive, TableIsAccepted,
       NothingFinishedUnwritten, DemotionBlamesTheCulprit, Present, Accepted
<1>6. BatchesAreSound'
  BY <1>2, <1>3 DEF BatchesAreSound, Sound, GroupIsWritten, CurrentGroup, Turn, Accepted
<1>7. ProcessingIsOwned'
  <2>1. \A d \in Caller : InFlight(batch'[d]) = InFlight(batch[d])
    BY <1>2, <1>3 DEF InFlight, Running
  <2>2. QED
    BY <1>2, <2>1 DEF ProcessingIsOwned, Rows
<1>8. QED
  BY <1>4, <1>5, <1>6, <1>7

(* The two ends of a demotion: the permanent rows, all that is still in
   flight, get one status. *)
LEMMA DemotionEndKeepsIInv ==
  ASSUME IInv, NEW c \in Caller, batch[c].phase = "demoting",
         NEW s \in {"pending", "failed"},
         queue' = SetStatus(queue, batch[c].permanent, s),
         Release(c),
         summarize' \in Provider \cup {None}, active' \in Provider \cup {None},
         summarize' # None => summarize' = active',
         permanentStreak' = 0, cooling' \in BOOLEAN,
         UNCHANGED <<event, nextId, copies, alive, demoted>>
  PROVE  IInv'
<1> USE DEF IInv
<1>1. lock = c /\ \A d \in Caller \ {c} : batch[d].phase \notin Running
  BY CallerAssumption DEF OneBatchAtATime, Running
<1>2. alive
  BY <1>1, CallerAssumption DEF DeadIsIdle
<1>3. Rows(queue, "processing") = batch[c].permanent
  BY <1>1, <1>2, InFlightOfOne DEF ProcessingIsOwned, InFlight
<1>4. /\ queue' \in [Row -> RowState]
      /\ \A r \in Row : queue'[r].status =
           IF r \in batch[c].permanent /\ queue[r].status # "absent" THEN s ELSE queue[r].status
  BY SetStatusEffect DEF TypeOK, Status
<1>5. /\ batch' \in [Caller -> Batch] /\ lock' = None
      /\ \A d \in Caller : batch'[d].phase \notin Running
      /\ OneBatchAtATime'
      /\ UNION {InFlight(batch'[d]) : d \in Caller} = {}
  BY <1>1, ReleaseEffect
<1>6. TypeOK'
  BY <1>4, <1>5 DEF TypeOK
<1>7. /\ BatchesAreSound' /\ DemotionBlamesTheCulprit' /\ DeadIsIdle' /\ SummarizerIsActive'
  BY <1>5 DEF BatchesAreSound, DemotionBlamesTheCulprit, DeadIsIdle, SummarizerIsActive
<1>8. ProcessingIsOwned'
  <2>1. \A r \in Row : queue'[r].status # "processing"
    BY <1>3, <1>4 DEF Rows
  <2>2. QED
    BY <1>5, <2>1 DEF ProcessingIsOwned, Rows
<1>9. TableIsAccepted'
  BY <1>4 DEF TableIsAccepted, Present, Accepted
<1>10. NothingFinishedUnwritten'
  BY <1>4, FinishedStayWritten
<1>11. QED
  BY <1>5, <1>6, <1>7, <1>8, <1>9, <1>10

LEMMA FailOverKeepsIInv ==
  ASSUME IInv, NEW c \in Caller, FailOver(c) \/ ChainExhausted(c)
  PROVE  IInv'
<1>1. CASE FailOver(c)
  <2>1. /\ queue' = SetStatus(queue, batch[c].permanent, "pending")
        /\ summarize' \in Provider /\ summarize' = active'
    BY <1>1 DEF FailOver, Requeue
  <2>2. QED
    BY <1>1, <2>1, DemotionEndKeepsIInv DEF FailOver
<1>2. CASE ChainExhausted(c)
  <2>1. queue' = SetStatus(queue, batch[c].permanent, "failed")
    BY <1>2 DEF ChainExhausted, MarkPermanent
  <2>2. cooling' \in BOOLEAN /\ active' \in Provider \cup {None}
    BY <1>2 DEF ChainExhausted, CoolingAfter, IInv, TypeOK
  <2>3. QED
    BY <1>2, <2>1, <2>2, DemotionEndKeepsIInv DEF ChainExhausted
<1>3. QED
  BY <1>1, <1>2

(* A step that leaves the batches alone: rows may be revived, or finished rows
   deleted, and a summarizer that was off may come back. *)
LEMMA TableStepKeepsIInv ==
  ASSUME IInv,
         queue' \in [Row -> RowState],
         \A r \in Row :
           \/ queue'[r].status = queue[r].status
           \/ queue[r].status = "failed" /\ queue'[r].status = "pending"
           \/ queue[r].status = "done" /\ queue'[r].status = "absent",
         \/ UNCHANGED <<summarize, active>>
         \/ summarize = None /\ summarize' \in Provider /\ active' = summarize',
         demoted' \in SUBSET Provider, cooling' \in BOOLEAN,
         UNCHANGED <<event, nextId, copies, alive, permanentStreak, lock, batch>>
  PROVE  IInv'
<1> USE DEF IInv
<1>1. TypeOK'
  BY DEF TypeOK
<1>2. OneBatchAtATime' /\ DeadIsIdle' /\ SummarizerIsActive' /\ TableIsAccepted'
  BY DEF OneBatchAtATime, DeadIsIdle, SummarizerIsActive, TableIsAccepted, Present, Accepted
<1>3. BatchesAreSound'
  BY DEF BatchesAreSound, Sound, GroupIsWritten, CurrentGroup, Turn, Accepted
<1>4. ProcessingIsOwned'
  <2>1. Rows(queue', "processing") = Rows(queue, "processing")
    BY DEF Rows
  <2>2. QED
    BY <2>1 DEF ProcessingIsOwned
<1>5. NothingFinishedUnwritten'
  BY FinishedStayWritten DEF NothingFinishedUnwritten
<1>6. DemotionBlamesTheCulprit'
  BY DEF DemotionBlamesTheCulprit, BatchesAreSound, Sound
<1>7. QED
  BY <1>1, <1>2, <1>3, <1>4, <1>5, <1>6

LEMMA TimersKeepIInv ==
  ASSUME IInv, Reprobe \/ CooldownElapses \/ Retention
  PROVE  IInv'
<1>1. CASE Reprobe
  <2>1. /\ queue' \in [Row -> RowState]
        /\ \A r \in Row :
             IF queue[r].status = "failed"
               THEN queue'[r].status \in {"failed", "pending"}
               ELSE queue'[r].status = queue[r].status
    BY <1>1, RetryFailedEffect DEF Reprobe, IInv, TypeOK
  <2>2. \A r \in Row :
          \/ queue'[r].status = queue[r].status
          \/ queue[r].status = "failed" /\ queue'[r].status = "pending"
    BY <2>1
  <2>3. cooling' \in BOOLEAN /\ demoted' \in SUBSET Provider
    BY <1>1 DEF Reprobe, IInv, TypeOK
  <2>4. summarize = None /\ summarize' \in Provider /\ active' = summarize'
    BY <1>1 DEF Reprobe
  <2>5. UNCHANGED <<event, nextId, copies, alive, permanentStreak, lock, batch>>
    BY <1>1 DEF Reprobe
  <2>6. QED
    BY <2>1, <2>2, <2>3, <2>4, <2>5, TableStepKeepsIInv
<1>2. CASE CooldownElapses
  <2>1. /\ queue' = queue /\ UNCHANGED <<summarize, active>> /\ demoted' = demoted
        /\ UNCHANGED <<event, nextId, copies, alive, permanentStreak, lock, batch>>
    BY <1>2 DEF CooldownElapses, durable, provider
  <2>2. cooling' \in BOOLEAN
    BY <1>2 DEF CooldownElapses
  <2>3. queue \in [Row -> RowState] /\ demoted \in SUBSET Provider
    BY DEF IInv, TypeOK
  <2>4. QED
    BY <2>1, <2>2, <2>3, TableStepKeepsIInv
<1>3. CASE Retention
  <2>1. /\ UNCHANGED <<summarize, active>> /\ demoted' = demoted /\ cooling' = cooling
        /\ UNCHANGED <<event, nextId, copies, alive, permanentStreak, lock, batch>>
    BY <1>3 DEF Retention, provider
  <2>2. PICK S : queue' = PruneDone(queue, S)
    BY <1>3 DEF Retention
  <2>3. /\ queue' \in [Row -> RowState]
        /\ \A r \in Row :
             \/ queue'[r].status = queue[r].status
             \/ queue[r].status = "done" /\ queue'[r].status = "absent"
    BY <2>2, PruneDoneEffect DEF IInv, TypeOK
  <2>4. cooling \in BOOLEAN /\ demoted \in SUBSET Provider
    BY DEF IInv, TypeOK
  <2>5. QED
    BY <2>1, <2>3, <2>4, TableStepKeepsIInv
<1>4. QED
  BY <1>1, <1>2, <1>3

LEMMA CrashKeepsIInv ==
  ASSUME IInv, Crash
  PROVE  IInv'
<1> USE DEF IInv
<1>1. /\ alive' = FALSE /\ lock' = None /\ summarize' = None
      /\ batch' = [c \in Caller |-> NoBatch("idle")]
      /\ UNCHANGED <<queue, event, nextId, copies>>
  BY DEF Crash, durable
<1>2. /\ batch' \in [Caller -> Batch]
      /\ \A c \in Caller : batch'[c].phase \notin Running
  BY <1>1, NoBatchIsBatch DEF Phase, Running
<1>3. TypeOK'
  BY <1>1, <1>2 DEF Crash, TypeOK
<1>4. QED
  BY <1>1, <1>2, <1>3, CallerAssumption
     DEF OneBatchAtATime, DeadIsIdle, SummarizerIsActive, TableIsAccepted, Present, Accepted,
         BatchesAreSound, ProcessingIsOwned, NothingFinishedUnwritten, DemotionBlamesTheCulprit

(* Recovery puts every row in flight back; nobody owns one yet. *)
LEMMA RestartKeepsIInv ==
  ASSUME IInv, Restart
  PROVE  IInv'
<1> USE DEF IInv
<1>1. /\ ~alive /\ alive' = TRUE /\ lock = None
      /\ UNCHANGED <<event, nextId, copies, demoted, permanentStreak, cooling, lock, batch>>
  BY DEF Restart, DeadIsIdle
<1> DEFINE q == Open(queue)
<1>2. /\ q \in [Row -> RowState]
      /\ \A r \in Row : q[r].status =
           IF queue[r].status = "processing" THEN "pending" ELSE queue[r].status
  BY SetStatusEffect DEF Open, Rows, TypeOK, Status
<1> HIDE DEF q
<1>3. \/ queue' = RetryFailed(q, ReleaseLimit) /\ summarize' \in Provider /\ active' = summarize'
      \/ queue' = q /\ UNCHANGED <<summarize, active>>
  BY DEF Restart, q
<1>4. /\ queue' \in [Row -> RowState]
      /\ \A r \in Row : queue'[r].status # "processing"
      /\ \A r \in Row : queue'[r].status = "done" => queue[r].status = "done"
      /\ \A r \in Row : queue'[r].status = "absent" <=> queue[r].status = "absent"
  BY <1>2, <1>3, RetryFailedEffect
<1>5. \A c \in Caller : batch'[c].phase \notin Running
  BY <1>1, CallerAssumption DEF OneBatchAtATime
<1>6. TypeOK'
  BY <1>1, <1>3, <1>4 DEF TypeOK
<1>7. /\ OneBatchAtATime' /\ DeadIsIdle' /\ SummarizerIsActive' /\ TableIsAccepted'
      /\ BatchesAreSound' /\ DemotionBlamesTheCulprit'
  BY <1>1, <1>3, <1>4, <1>5 DEF OneBatchAtATime, DeadIsIdle, SummarizerIsActive,
       TableIsAccepted, Present, Accepted, BatchesAreSound, DemotionBlamesTheCulprit
<1>8. ProcessingIsOwned'
  <2>1. UNION {InFlight(batch'[d]) : d \in Caller} = {}
    BY <1>5, InFlightOfNone
  <2>2. QED
    BY <1>4, <2>1 DEF ProcessingIsOwned, Rows
<1>9. NothingFinishedUnwritten'
  BY <1>1, <1>4, FinishedStayWritten
<1>10. QED
  BY <1>6, <1>7, <1>8, <1>9

-----------------------------------------------------------------------------
(* The invariant. *)

LEMMA InitEstablishesIInv == Init => IInv
<1> SUFFICES ASSUME Init PROVE IInv
  OBVIOUS
<1>1. /\ \A c \in Caller : batch[c] \in Batch /\ batch[c].phase \notin Running
      /\ batch \in [Caller -> Batch]
  BY NoBatchIsBatch DEF Init, Phase, Running
<1>2. /\ queue \in [Row -> RowState]
      /\ \A r \in Row : queue[r].status = "absent"
  BY DEF Init, EmptyTable, Absent, RowState, Status
<1>3. TypeOK
  <2>1. copies \in [Row -> 0..Many]
    BY ManyAssumption DEF Init
  <2>2. event \in [Row -> Event \cup {NoEvent}] /\ nextId \in Nat \ {0}
    BY DEF Init
  <2>3. /\ alive \in BOOLEAN /\ cooling \in BOOLEAN /\ permanentStreak \in Nat
        /\ lock \in Caller \cup {None} /\ demoted \in SUBSET Provider
    BY DEF Init
  <2>4. summarize \in Provider \cup {None} /\ active \in Provider \cup {None}
    BY DEF Init
  <2>5. QED
    BY <1>1, <1>2, <2>1, <2>2, <2>3, <2>4 DEF TypeOK
<1>4. ProcessingIsOwned
  BY <1>1, <1>2, InFlightOfNone DEF ProcessingIsOwned, Rows
<1>5. /\ OneBatchAtATime /\ DeadIsIdle /\ SummarizerIsActive /\ TableIsAccepted
      /\ BatchesAreSound /\ NothingFinishedUnwritten /\ DemotionBlamesTheCulprit
  BY <1>1, <1>2, CallerAssumption DEF Init, OneBatchAtATime, DeadIsIdle, SummarizerIsActive,
       TableIsAccepted, Present, BatchesAreSound, NothingFinishedUnwritten, Row,
       DemotionBlamesTheCulprit
<1>6. QED
  BY <1>3, <1>4, <1>5 DEF IInv

LEMMA NextKeepsIInv == IInv /\ [Next]_vars => IInv'
<1> SUFFICES ASSUME IInv, [Next]_vars PROVE IInv'
  OBVIOUS
<1>1. CASE \E e \in Event : Enqueue(e)
  BY <1>1, EnqueueKeepsIInv
<1>2. ASSUME NEW c \in Caller, FlushRequest(c) \/ FlushEnds(c)
      PROVE  IInv'
  BY <1>2, FlushKeepsIInv
<1>3. ASSUME NEW c \in Caller, ProcessBatch(c)
      PROVE  IInv'
  BY <1>3, StartBatchKeepsIInv, SummarizeOkKeepsIInv, GroupEndsKeepsIInv, FailOverKeepsIInv
     DEF ProcessBatch
<1>4. CASE Reprobe \/ CooldownElapses \/ Retention
  BY <1>4, TimersKeepIInv
<1>5. CASE Crash \/ Restart
  BY <1>5, CrashKeepsIInv, RestartKeepsIInv
<1>6. CASE UNCHANGED vars
  BY <1>6 DEF vars, IInv, TypeOK, SummarizerIsActive, OneBatchAtATime, DeadIsIdle,
       TableIsAccepted, Present, Accepted, BatchesAreSound, Sound, GroupIsWritten,
       CurrentGroup, Turn, ProcessingIsOwned, Rows, NothingFinishedUnwritten,
       DemotionBlamesTheCulprit
<1>7. QED
  BY <1>1, <1>2, <1>3, <1>4, <1>5, <1>6 DEF Next

LEMMA Invariance == Spec => []IInv
  BY InitEstablishesIInv, NextKeepsIInv, PTL DEF Spec

(* Every reachable state has the types the model declares. *)
THEOREM TypeCorrect == Spec => []TypeOK
<1>1. IInv => TypeOK
  BY DEF IInv
<1>2. QED
  BY <1>1, Invariance, PTL

(* No event that processBatch finished, or that retention deleted, was closed
   before an observation was made from it. *)
THEOREM NothingIsLost == Spec => []NothingFinishedUnwritten
<1>1. IInv => NothingFinishedUnwritten
  BY DEF IInv
<1>2. QED
  BY <1>1, Invariance, PTL

(* processBatchSerialized serialises its callers, however many there are, and a live
   worker strands no row in `processing`: recovery, and every way out of processBatch,
   leave exactly the rows the one running batch still holds. *)
THEOREM BatchesAreSerial == Spec => []ProcessingIsOneBatch
<1>1. IInv => ProcessingIsOneBatch
  BY DEF IInv, ProcessingIsOneBatch
<1>2. QED
  BY <1>1, Invariance, PTL

(* demoteProvider retires the provider the failing batch ran on. *)
THEOREM TheCulpritIsDemoted == Spec => []DemotionBlamesTheCulprit
<1>1. IInv => DemotionBlamesTheCulprit
  BY DEF IInv
<1>2. QED
  BY <1>1, Invariance, PTL

-----------------------------------------------------------------------------
(* What a row of a batch may meet in one step.  DInv adds to IInv that a caller
   without a batch holds no row, and that a batch which waits for a new provider
   has written back what is not permanent. *)

IdleHoldsNothing == \A c \in Caller : batch[c].phase \notin Running => Parts(batch[c]) = {}

DemotingIsWrittenBack ==
  \A c \in Caller : batch[c].phase = "demoting" =>
    /\ \A r \in batch[c].done : queue[r].status \in {"done", "absent"}
    /\ \A r \in batch[c].overloaded : queue[r].status = "pending"

DInv == IdleHoldsNothing /\ DemotingIsWrittenBack

(* The three parts of RowsGetTheirDue, as actions. *)
Spared ==
  \A c \in Caller :
    "demoting" \in {batch[c].phase, batch'[c].phase}
    /\ (\E r \in batch[c].permanent \cup batch'[c].permanent :
          queue[r].status = "processing" /\ queue'[r].status = "failed")
      => summarize' = None
NotCounted ==
  \A c \in Caller : \A r \in batch[c].overloaded :
    queue'[r] # queue[r] => queue'[r] = [queue[r] EXCEPT !.status = "pending"]
NotRetried == alive' => \A c \in Caller : \A r \in batch[c].done : queue'[r].status # "pending"
Due == Spared /\ NotCounted /\ NotRetried

LEMMA HeldRows ==
  ASSUME IInv, DInv, NEW c \in Caller, NEW r \in Parts(batch[c])
  PROVE  /\ r \in Row /\ batch[c].phase \in Running /\ lock = c
         /\ batch[c].phase # "demoting" => queue[r].status = "processing"
         /\ r \in batch[c].done => queue[r].status \in {"processing", "done", "absent"}
         /\ r \in batch[c].overloaded => queue[r].status \in {"processing", "pending"}
<1> USE DEF IInv, DInv
<1>1. r \in Row /\ batch[c].phase \in Running /\ lock = c
  BY DEF TypeOK, Batch, Parts, IdleHoldsNothing, OneBatchAtATime
<1>2. alive
  BY <1>1, CallerAssumption DEF DeadIsIdle
<1>3. batch[c].phase # "demoting" => queue[r].status = "processing"
  <2>1. batch[c].phase # "demoting" => r \in InFlight(batch[c])
    BY <1>1 DEF InFlight, Running
  <2>2. QED
    BY <1>2, <2>1 DEF ProcessingIsOwned, Rows
<1>4. QED
  BY <1>1, <1>3 DEF DemotingIsWrittenBack

(* Only one batch holds rows. *)
LEMMA OthersHoldNothing ==
  ASSUME IInv, DInv, NEW c \in Caller, lock \in {c, None}, NEW d \in Caller, d # c
  PROVE  batch[d].phase \notin Running /\ Parts(batch[d]) = {}
BY CallerAssumption DEF IInv, DInv, OneBatchAtATime, IdleHoldsNothing

(* A step that leaves held rows as they are, but for finished ones it deletes. *)
LEMMA HeldRowsStay ==
  ASSUME IInv, DInv,
         \A c \in Caller : /\ batch'[c].permanent \subseteq batch[c].permanent
                           /\ \A r \in Parts(batch[c]) :
                                queue'[r] = queue[r] \/ (queue[r].status = "done" /\ queue'[r].status = "absent")
  PROVE  Due
<1>1. Spared
  BY DEF Spared, Parts
<1>2. NotCounted
  BY HeldRows DEF NotCounted, Parts
<1>3. NotRetried
  BY HeldRows DEF NotRetried, Parts
<1>4. QED
  BY <1>1, <1>2, <1>3 DEF Due

LEMMA BatchesStayAsTheyAre ==
  ASSUME IInv, DInv, batch' = batch,
         \A c \in Caller : \A r \in Parts(batch[c]) :
           queue'[r] = queue[r] \/ (queue[r].status = "done" /\ queue'[r].status = "absent")
  PROVE  Due /\ DInv'
<1>1. Due
  BY HeldRowsStay
<1>2. IdleHoldsNothing'
  BY DEF DInv, IdleHoldsNothing, Parts
<1>3. DemotingIsWrittenBack'
  BY DEF DInv, DemotingIsWrittenBack, Parts
<1>4. QED
  BY <1>1, <1>2, <1>3 DEF DInv

(* Writing back: an overloaded row keeps its count, a permanent one its status. *)
LEMMA WriteBackIsDue ==
  ASSUME NEW q \in [Row -> RowState], NEW b \in Batch, Disjoint(b), NEW r \in Row, q[r].status = "processing"
  PROVE  /\ r \in b.overloaded => WriteBack(q, b)[r] = [q[r] EXCEPT !.status = "pending"]
         /\ r \in b.done => WriteBack(q, b)[r].status = "done"
         /\ r \in b.permanent => WriteBack(q, b)[r].status = "processing"
<1>1. /\ b.done \cap (b.failed \cup b.permanent \cup b.overloaded) = {}
      /\ b.failed \cap (b.permanent \cup b.overloaded) = {} /\ b.permanent \cap b.overloaded = {}
  BY DEF Disjoint
<1>2. CASE r \in b.overloaded
  <2>1. r \notin b.done /\ r \notin b.failed /\ r \notin b.permanent
    BY <1>1, <1>2
  <2>2. MarkDone(q, b.done)[r] = q[r]
    BY <2>1 DEF MarkDone, SetStatus
  <2>3. Requeue(MarkDone(q, b.done), b.overloaded)[r] = [q[r] EXCEPT !.status = "pending"]
    BY <1>2, <2>2 DEF Requeue, SetStatus, Present
  <2>4. QED
    BY <2>1, <2>3 DEF WriteBack, MarkFailed
<1>3. QED
  BY <1>1, <1>2, WriteBackEffect

LEMMA GroupOverIsDue ==
  ASSUME IInv, DInv, NEW c \in Caller, NEW b \in Batch, batch[c].phase \in {"summarizing", "ingesting"},
         Sound(b), Parts(b) = Parts(batch[c]),
         batch[c].done \subseteq b.done, batch[c].overloaded \subseteq b.overloaded, batch[c].permanent \subseteq b.permanent,
         GroupOver(c, b)
  PROVE  Due /\ DInv'
<1>1. lock = c /\ \A d \in Caller \ {c} : batch[d].phase \notin Running /\ Parts(batch[d]) = {}
  <2>1. lock = c
    BY DEF IInv, OneBatchAtATime, Running
  <2>2. QED
    BY <2>1, OthersHoldNothing
<1>2. \A r \in Parts(b) : r \in Row /\ queue[r].status = "processing"
  BY HeldRows
<1>3. queue \in [Row -> RowState] /\ batch \in [Caller -> Batch]
  BY DEF IInv, TypeOK
<1>4. PICK q : q = WriteBack(queue, b)
  OBVIOUS
<1>5. \A r \in Parts(b) :
        /\ r \in b.overloaded => q[r] = [queue[r] EXCEPT !.status = "pending"]
        /\ r \in b.done => q[r].status = "done"
        /\ r \in b.permanent => q[r].status = "processing"
  BY <1>2, <1>3, <1>4, WriteBackIsDue DEF Sound
<1>6. \A d \in Caller \ {c} : batch[d].done = {} /\ batch[d].overloaded = {} /\ batch[d].permanent = {}
  BY <1>1 DEF Parts
<1>7. CASE NextGroup(c, b)
  <2>1. PICK b2 : b2 = [b EXCEPT !.phase = "summarizing"]
    OBVIOUS
  <2>2. b2.phase = "summarizing"
    BY <2>1 DEF Batch
  <2>3. queue' = queue /\ batch'[c] = b2 /\ (\A d \in Caller \ {c} : batch'[d] = batch[d])
    BY <1>3, <1>7, <2>1 DEF NextGroup
  <2>4. Spared
    BY <2>3 DEF Spared
  <2>5. NotCounted /\ NotRetried
    BY <2>3, HeldRows DEF NotCounted, NotRetried, Parts
  <2>6. DInv'
    BY <1>1, <2>2, <2>3 DEF DInv, IdleHoldsNothing, DemotingIsWrittenBack, Running, Parts
  <2>7. QED
    BY <2>4, <2>5, <2>6 DEF Due
<1>8. CASE BeginDemotion(c, b)
  <2>1. PICK b2 : b2 = [b EXCEPT !.phase = "demoting"]
    OBVIOUS
  <2>2. b2.phase = "demoting" /\ b2.done = b.done /\ b2.overloaded = b.overloaded /\ b2.permanent = b.permanent
    BY <2>1 DEF Batch
  <2>3. queue' = q /\ batch'[c] = b2 /\ (\A d \in Caller \ {c} : batch'[d] = batch[d])
    BY <1>3, <1>4, <1>8, <2>1 DEF BeginDemotion
  <2>4. \A r \in b.permanent \cup b.done \cup b.overloaded : r \in Parts(b)
    BY DEF Parts
  <2>5. Spared
    <3>1. ASSUME NEW d \in Caller, NEW r \in batch[d].permanent \cup batch'[d].permanent
          PROVE  queue'[r].status # "failed"
      <4>1. d = c /\ r \in b.permanent
        BY <1>6, <2>2, <2>3
      <4>2. QED
        BY <1>5, <2>3, <2>4, <4>1
    <3>2. QED
      BY <3>1 DEF Spared
  <2>6. NotCounted /\ NotRetried
    BY <1>5, <1>6, <2>3, <2>4 DEF NotCounted, NotRetried
  <2>7. IdleHoldsNothing'
    BY <1>1, <2>2, <2>3 DEF IdleHoldsNothing, Running, Parts
  <2>8. ASSUME NEW r \in b.overloaded
        PROVE  queue'[r].status = "pending"
    <3>1. r \in Row /\ queue'[r] = [queue[r] EXCEPT !.status = "pending"]
      BY <1>2, <1>5, <2>3, <2>4
    <3>2. queue[r] \in RowState
      BY <1>3, <3>1
    <3>3. QED
      BY <3>1, <3>2 DEF RowState
  <2>9. ASSUME NEW d \in Caller, batch'[d].phase = "demoting"
        PROVE  /\ \A r \in batch'[d].done : queue'[r].status \in {"done", "absent"}
               /\ \A r \in batch'[d].overloaded : queue'[r].status = "pending"
    <3>1. d = c
      BY <1>1, <2>3, <2>9 DEF Running
    <3>2. batch'[d].done = b.done /\ batch'[d].overloaded = b.overloaded
      BY <2>2, <2>3, <3>1
    <3>3. \A r \in b.done : queue'[r].status = "done"
      BY <1>5, <2>3, <2>4
    <3>4. QED
      BY <2>8, <3>2, <3>3
  <2>10. QED
    BY <2>5, <2>6, <2>7, <2>9 DEF Due, DInv, DemotingIsWrittenBack
<1>9. CASE EndBatch(c, b)
  <2>1. queue' = SetStatus(q, b.permanent, "failed")
    BY <1>4, <1>9 DEF EndBatch, MarkPermanent
  <2>2. PICK p \in {"idle", "waiting"} : batch' = [batch EXCEPT ![c] = NoBatch(p)]
    BY <1>9 DEF EndBatch, Release
  <2>3. NoBatch(p).phase = p /\ Parts(NoBatch(p)) = {}
    BY DEF NoBatch, Parts
  <2>4. batch'[c] = NoBatch(p) /\ (\A d \in Caller \ {c} : batch'[d] = batch[d])
    BY <1>3, <2>2
  <2>5. \A r \in b.done \cup b.overloaded : r \in Parts(b) /\ r \notin b.permanent /\ queue'[r] = q[r]
    BY <1>2, <2>1 DEF Parts, Sound, Disjoint, SetStatus
  <2>6. Spared
    BY <1>1, <2>3, <2>4 DEF Spared, Running
  <2>7. NotCounted /\ NotRetried
    BY <1>5, <1>6, <2>5 DEF NotCounted, NotRetried
  <2>8. DInv'
    BY <1>1, <2>3, <2>4 DEF DInv, IdleHoldsNothing, DemotingIsWrittenBack, Running, Parts
  <2>9. QED
    BY <2>6, <2>7, <2>8 DEF Due
<1>10. QED
  BY <1>7, <1>8, <1>9 DEF GroupOver

(* The ways a group ends: its rows join one list, none leaves one. *)
LEMMA GroupEndsIsDue ==
  ASSUME IInv, DInv, NEW c \in Caller, SummarizeFails(c) \/ IngestOk(c) \/ IngestFails(c)
  PROVE  Due /\ DInv'
<1>1. batch[c] \in Batch /\ batch[c].phase \in {"summarizing", "ingesting"}
  BY DEF IInv, TypeOK, SummarizeFails, IngestOk, IngestFails
<1>2. Sound(batch[c]) /\ GroupIsWritten(batch[c])
  BY <1>1 DEF IInv, BatchesAreSound, Running
<1>3. ASSUME NEW kind \in FailureKind, GroupOver(c, FailedAs(batch[c], kind))
      PROVE  Due /\ DInv'
  <2> DEFINE b == FailedAs(batch[c], kind)
  <2>1. b \in Batch /\ Sound(b) /\ Parts(b) = Parts(batch[c])
    BY <1>1, <1>2, FailedAsIsSound
  <2>2. /\ batch[c].done \subseteq b.done /\ batch[c].overloaded \subseteq b.overloaded
        /\ batch[c].permanent \subseteq b.permanent
    BY <1>1 DEF FailedAs, Batch
  <2> HIDE DEF b
  <2>3. GroupOver(c, b)
    BY <1>3 DEF b
  <2>4. QED
    BY <1>1, <2>1, <2>2, <2>3, GroupOverIsDue
<1>4. ASSUME batch[c].phase = "ingesting", GroupOver(c, Succeeded(batch[c]))
      PROVE  Due /\ DInv'
  <2> DEFINE b == Succeeded(batch[c])
  <2>1. b \in Batch /\ Sound(b) /\ Parts(b) = Parts(batch[c])
    BY <1>1, <1>2, <1>4, SucceededIsSound
  <2>2. /\ batch[c].done \subseteq b.done /\ batch[c].overloaded \subseteq b.overloaded
        /\ batch[c].permanent \subseteq b.permanent
    BY <1>1 DEF Succeeded, Batch
  <2> HIDE DEF b
  <2>3. GroupOver(c, b)
    BY <1>4 DEF b
  <2>4. QED
    BY <1>1, <2>1, <2>2, <2>3, GroupOverIsDue
<1>5. QED
  BY <1>3, <1>4, FailuresAssumption DEF SummarizeFails, IngestOk, IngestFails

(* A batch starts when nobody holds a row, with empty lists. *)
LEMMA StartBatchIsDue ==
  ASSUME IInv, DInv, NEW c \in Caller, StartBatch(c)
  PROVE  Due /\ DInv'
<1>1. PICK b : b = NewBatch(Claimable(queue, BatchSize))
  OBVIOUS
<1>2. lock = None /\ batch' = [batch EXCEPT ![c] = b] /\ batch \in [Caller -> Batch]
  BY <1>1 DEF StartBatch, MayStart, IInv, TypeOK
<1>3. b.phase = "summarizing" /\ b.permanent = {} /\ b.done = {} /\ b.overloaded = {}
  BY <1>1 DEF NewBatch
<1>4. \A d \in Caller : batch[d].phase \notin Running /\ Parts(batch[d]) = {}
  BY <1>2, CallerAssumption DEF IInv, DInv, OneBatchAtATime, IdleHoldsNothing
<1>5. batch'[c] = b /\ \A d \in Caller \ {c} : batch'[d] = batch[d]
  BY <1>2
<1>6. Spared /\ NotCounted /\ NotRetried
  BY <1>3, <1>4, <1>5 DEF Spared, NotCounted, NotRetried, Parts
<1>7. DInv'
  BY <1>3, <1>4, <1>5 DEF DInv, IdleHoldsNothing, DemotingIsWrittenBack, Running, Parts
<1>8. QED
  BY <1>6, <1>7 DEF Due

LEMMA SummarizeOkIsDue ==
  ASSUME IInv, DInv, NEW c \in Caller, SummarizeOk(c)
  PROVE  Due /\ DInv'
<1>1. PICK b : b = [batch[c] EXCEPT !.phase = "ingesting"]
  OBVIOUS
<1>2. /\ batch[c].phase = "summarizing" /\ queue' = queue
      /\ batch' = [batch EXCEPT ![c] = b] /\ batch \in [Caller -> Batch]
  BY <1>1 DEF SummarizeOk, IInv, TypeOK
<1>3. b.phase = "ingesting" /\ b.permanent = batch[c].permanent
  BY <1>1, <1>2 DEF Batch
<1>4. batch'[c] = b /\ \A d \in Caller \ {c} : batch'[d] = batch[d]
  BY <1>2
<1>5. Due
  BY <1>2, <1>3, <1>4, HeldRowsStay
<1>6. DInv'
  BY <1>2, <1>3, <1>4 DEF DInv, IdleHoldsNothing, DemotingIsWrittenBack, Running, Parts
<1>7. QED
  BY <1>5, <1>6

(* The end of a demotion: only the permanent rows change, and nobody holds a row
   afterwards. *)
LEMMA DemotionEndIsDue ==
  ASSUME IInv, DInv, NEW c \in Caller, FailOver(c) \/ ChainExhausted(c)
  PROVE  Due /\ DInv'
<1>1. /\ batch[c].phase = "demoting" /\ batch \in [Caller -> Batch] /\ queue \in [Row -> RowState]
      /\ \/ queue' = SetStatus(queue, batch[c].permanent, "pending")
         \/ queue' = SetStatus(queue, batch[c].permanent, "failed") /\ summarize' = None
  BY DEF FailOver, ChainExhausted, IInv, TypeOK, Requeue, MarkPermanent
<1>2. PICK p \in {"idle", "waiting"} : batch' = [batch EXCEPT ![c] = NoBatch(p)]
  BY DEF FailOver, ChainExhausted, Release
<1>3. NoBatch(p).phase = p /\ Parts(NoBatch(p)) = {} /\ NoBatch(p).permanent = {}
  BY DEF NoBatch, Parts
<1>4. batch'[c] = NoBatch(p) /\ (\A d \in Caller \ {c} : batch'[d] = batch[d])
  BY <1>1, <1>2
<1>5. lock = c /\ Sound(batch[c])
  BY <1>1 DEF IInv, OneBatchAtATime, BatchesAreSound, Running
<1>6. \A d \in Caller \ {c} : batch[d].phase \notin Running /\ Parts(batch[d]) = {}
  BY <1>5, OthersHoldNothing
<1>7. \A r \in batch[c].done \cup batch[c].overloaded : r \in Row /\ queue'[r] = queue[r]
  BY <1>1, <1>5, HeldRows DEF Sound, Disjoint, Parts, SetStatus
<1>8. Spared
  <2>1. CASE queue' = SetStatus(queue, batch[c].permanent, "pending")
    <3>1. \A r \in batch[c].permanent : r \in Row /\ queue[r] \in RowState
      BY <1>1, HeldRows DEF Parts
    <3>2. \A r \in batch[c].permanent : queue[r].status = "processing" => queue'[r].status = "pending"
      BY <1>1, <2>1, <3>1, SetStatusEffect DEF Status
    <3>3. QED
      BY <1>3, <1>4, <1>6, <3>2 DEF Spared, Parts, Running
  <2>2. QED
    BY <1>1, <2>1 DEF Spared
<1>9. NotCounted
  BY <1>6, <1>7 DEF NotCounted, Parts
<1>10. NotRetried
  BY <1>1, <1>6, <1>7 DEF NotRetried, Parts, DInv, DemotingIsWrittenBack
<1>11. DInv'
  BY <1>3, <1>4, <1>6 DEF DInv, IdleHoldsNothing, DemotingIsWrittenBack, Running, Parts
<1>12. QED
  BY <1>8, <1>9, <1>10, <1>11 DEF Due

(* A flush comes and goes without a batch. *)
LEMMA FlushIsDue ==
  ASSUME IInv, DInv, NEW c \in Caller, FlushRequest(c) \/ FlushEnds(c)
  PROVE  Due /\ DInv'
<1>1. PICK p \in {"idle", "waiting"} : batch' = [batch EXCEPT ![c].phase = p]
  BY DEF FlushRequest, FlushEnds
<1>2. /\ batch[c].phase \in {"idle", "waiting"} /\ queue' = queue
      /\ batch \in [Caller -> Batch]
  BY DEF FlushRequest, FlushEnds, durable, IInv, TypeOK
<1>3. PICK b : b = [batch[c] EXCEPT !.phase = p]
  OBVIOUS
<1>4. b.phase = p /\ b.permanent = batch[c].permanent /\ Parts(b) = Parts(batch[c])
  BY <1>2, <1>3 DEF Batch, Parts
<1>5. batch'[c] = b /\ \A d \in Caller \ {c} : batch'[d] = batch[d]
  BY <1>1, <1>2, <1>3
<1>6. Due
  BY <1>2, <1>4, <1>5, HeldRowsStay
<1>7. IdleHoldsNothing'
  BY <1>2, <1>4, <1>5 DEF DInv, IdleHoldsNothing, Running, Parts
<1>8. DemotingIsWrittenBack'
  BY <1>2, <1>4, <1>5 DEF DInv, DemotingIsWrittenBack
<1>9. QED
  BY <1>6, <1>7, <1>8 DEF DInv

(* A new row is nobody's, the released dead letters are nobody's, and retention
   deletes finished rows. *)
LEMMA TableStepIsDue ==
  ASSUME IInv, DInv, (\E e \in Event : Enqueue(e)) \/ Reprobe \/ CooldownElapses \/ Retention
  PROVE  Due /\ DInv'
<1>1. batch' = batch
  BY DEF Enqueue, Reprobe, CooldownElapses, Retention
<1>2. queue \in [Row -> RowState]
  BY DEF IInv, TypeOK
<1>3. ASSUME NEW c \in Caller, NEW r \in Parts(batch[c])
      PROVE  queue'[r] = queue[r] \/ (queue[r].status = "done" /\ queue'[r].status = "absent")
  <2>1. r \in Row /\ batch[c].phase \in Running /\ lock = c
    BY HeldRows
  <2>2. CASE \E e \in Event : Enqueue(e)
    <3>1. r < nextId
      BY <2>1 DEF IInv, BatchesAreSound, Sound, Accepted
    <3>2. r # nextId /\ queue' = [queue EXCEPT ![nextId] = [status |-> "pending", retries |-> 0]]
      BY <2>1, <2>2, <3>1 DEF Enqueue, Insert, Row, IInv, TypeOK
    <3>3. QED
      BY <1>2, <2>1, <3>2
  <2>3. CASE Reprobe
    <3>1. summarize = None /\ summarize = active /\ batch[c].pinned = active
      BY <2>1, <2>3 DEF Reprobe, IInv, DemotionBlamesTheCulprit
    <3>2. batch[c].pinned # None
      BY <2>1 DEF IInv, BatchesAreSound, Sound
    <3>3. QED
      BY <3>1, <3>2
  <2>4. CASE CooldownElapses
    BY <2>4 DEF CooldownElapses, durable
  <2>5. CASE Retention
    <3>1. PICK S : queue' = PruneDone(queue, S)
      BY <2>5 DEF Retention
    <3>2. QED
      BY <2>1, <3>1 DEF PruneDone, Delete, Rows, Absent
  <2>6. QED
    BY <2>2, <2>3, <2>4, <2>5
<1>4. QED
  BY <1>1, <1>3, BatchesStayAsTheyAre

LEMMA CrashIsDue ==
  ASSUME IInv, DInv, Crash
  PROVE  Due /\ DInv'
<1>1. queue' = queue /\ batch' = [c \in Caller |-> NoBatch("idle")]
  BY DEF Crash, durable
<1>2. \A c \in Caller : batch'[c] = NoBatch("idle")
  BY <1>1
<1>3. /\ NoBatch("idle").phase = "idle" /\ Parts(NoBatch("idle")) = {}
      /\ NoBatch("idle").permanent = {}
  BY DEF NoBatch, Parts
<1>4. Due
  BY <1>1, <1>2, <1>3, HeldRowsStay
<1>5. IdleHoldsNothing'
  BY <1>2, <1>3 DEF IdleHoldsNothing, Parts
<1>6. DemotingIsWrittenBack'
  BY <1>2, <1>3 DEF DemotingIsWrittenBack
<1>7. QED
  BY <1>4, <1>5, <1>6 DEF DInv

LEMMA RestartIsDue ==
  ASSUME IInv, DInv, Restart
  PROVE  Due /\ DInv'
<1>1. batch' = batch /\ lock = None
  BY DEF Restart, IInv, DeadIsIdle
<1>2. \A c \in Caller : Parts(batch[c]) = {}
  BY <1>1, CallerAssumption DEF IInv, DInv, OneBatchAtATime, IdleHoldsNothing
<1>3. QED
  BY <1>1, <1>2, BatchesStayAsTheyAre

LEMMA NextIsDue ==
  ASSUME IInv, DInv, [Next]_vars
  PROVE  Due /\ DInv'
<1>1. ASSUME NEW c \in Caller, FlushRequest(c) \/ FlushEnds(c) \/ ProcessBatch(c)
      PROVE  Due /\ DInv'
  BY <1>1, FlushIsDue, StartBatchIsDue, SummarizeOkIsDue, GroupEndsIsDue, DemotionEndIsDue
     DEF ProcessBatch
<1>2. CASE (\E e \in Event : Enqueue(e)) \/ Reprobe \/ CooldownElapses \/ Retention
  BY <1>2, TableStepIsDue
<1>3. CASE Crash \/ Restart
  BY <1>3, CrashIsDue, RestartIsDue
<1>4. CASE UNCHANGED vars
  BY <1>4, BatchesStayAsTheyAre DEF vars
<1>5. QED
  BY <1>1, <1>2, <1>3, <1>4 DEF Next

LEMMA InitEstablishesDInv == Init => DInv
<1>1. NoBatch("idle").phase = "idle" /\ Parts(NoBatch("idle")) = {}
  BY DEF NoBatch, Parts
<1>2. QED
  BY <1>1 DEF Init, DInv, IdleHoldsNothing, DemotingIsWrittenBack

(* What becomes of a row follows from what its own calls met: no dead letter
   while a failover is tried, no failure counted for an outage, no second summary
   of a row that was written; whatever the other rows of its batch met. *)
THEOREM RowsMeetTheirDue == Spec => RowsGetTheirDue
<1>1. Spec => []DInv
  <2>1. IInv /\ DInv /\ [Next]_vars => DInv'
    BY NextIsDue
  <2>2. QED
    BY <2>1, InitEstablishesDInv, Invariance, PTL DEF Spec
<1>2. IInv /\ DInv /\ [Next]_vars => [Spared]_vars /\ [NotCounted]_vars /\ [NotRetried]_vars
  BY NextIsDue DEF Due
<1>3. Spec => [][Spared]_vars /\ [][NotCounted]_vars /\ [][NotRetried]_vars
  BY <1>1, <1>2, Invariance, PTL DEF Spec
<1>4. QED
  BY <1>3 DEF RowsGetTheirDue, FailoverSparesTheData, OutagesAreNotCounted,
              WrittenRowsAreNotRetried, Spared, NotCounted, NotRetried

-----------------------------------------------------------------------------
(* The pipeline implements EventLedger: each step of the worker is an      *)
(* Accept, a Write, a Resolve, a Revive or nothing at all on the ledger.   *)

Finished == {"done", "absent"}

(* Only an accepted row has observations. *)
WrittenIsAccepted == \A r \in Row : copies[r] > 0 => r \in Accepted

LEMMA WrittenIsAcceptedKept ==
  ASSUME IInv, WrittenIsAccepted, [Next]_vars
  PROVE  WrittenIsAccepted'
<1>1. CASE UNCHANGED <<nextId, copies>>
  BY <1>1 DEF WrittenIsAccepted, Accepted
<1>2. ASSUME NEW e \in Event, Enqueue(e)
      PROVE  WrittenIsAccepted'
  BY <1>2 DEF Enqueue, WrittenIsAccepted, Accepted, IInv, TypeOK, Row
<1>3. ASSUME NEW c \in Caller, SummarizeOk(c)
      PROVE  WrittenIsAccepted'
  <2>1. CurrentGroup(batch[c]) \subseteq Accepted
    BY <1>3, GroupIsTodo DEF SummarizeOk, IInv, TypeOK, BatchesAreSound, Sound, Parts, Running
  <2>2. \A r \in Row : copies'[r] > 0 => copies[r] > 0 \/ r \in CurrentGroup(batch[c])
    BY <1>3 DEF SummarizeOk
  <2>3. QED
    BY <1>3, <2>1, <2>2 DEF SummarizeOk, WrittenIsAccepted, Accepted
<1>4. QED
  <2>1. Next => \/ \E e \in Event : Enqueue(e)
                \/ \E c \in Caller : SummarizeOk(c)
                \/ UNCHANGED <<nextId, copies>>
    BY DEF Next, ProcessBatch, FlushRequest, FlushEnds, StartBatch, SummarizeFails, IngestOk,
           IngestFails, FailOver, ChainExhausted, Reprobe, CooldownElapses, Retention, Crash,
           Restart, durable
  <2>2. QED
    BY <1>1, <1>2, <1>3, <2>1 DEF vars

-----------------------------------------------------------------------------
(* Steps that only move rows from one status to another. *)

(* Rows leave the open ones, for the finished or for the failed. *)
LEMMA OutcomesResolve ==
  ASSUME IInv, UNCHANGED <<nextId, copies>>, queue' \in [Row -> RowState],
         \A r \in Row :
           /\ queue[r].status = "absent" => queue'[r].status = "absent"
           /\ queue[r].status = "failed" => queue'[r].status = "failed"
           /\ queue[r].status \in Finished => queue'[r].status \in Finished
           /\ queue'[r].status \in Finished => queue[r].status \in Finished \/ copies[r] > 0
  PROVE  Ledger!Next
<1> DEFINE W == {r \in Accepted : copies[r] > 0}
           F == Rows(queue, "failed")
<1>1. Accepted' = Accepted /\ W' = W
  BY DEF Accepted
<1>2. Closed' \ Closed \in SUBSET (W \ (Closed \cup F)) /\ Closed' = Closed \cup (Closed' \ Closed)
  BY DEF Closed, Accepted, Rows, Finished
<1>3. /\ F' \ F \in SUBSET (Accepted \ (Closed' \cup F))
      /\ F' = F \cup (F' \ F)
  <2>1. Present(queue') \subseteq Accepted
    BY DEF IInv, TableIsAccepted, Present
  <2>2. QED
    BY <2>1 DEF Closed, Accepted, Rows, Present, Finished
<1>4. Ledger!Resolve
  BY <1>1, <1>2, <1>3 DEF Ledger!Resolve
<1>5. QED
  BY <1>4 DEF Ledger!Next

(* Failed rows are put back, the rest stays where it is. *)
LEMMA RevivalRevives ==
  ASSUME IInv, UNCHANGED <<nextId, copies>>, queue' \in [Row -> RowState],
         \A r \in Row :
           /\ queue'[r].status = "failed" => queue[r].status = "failed"
           /\ queue[r].status \in Finished <=> queue'[r].status \in Finished
  PROVE  Ledger!Next
<1> DEFINE W == {r \in Accepted : copies[r] > 0}
           F == Rows(queue, "failed")
<1>1. Accepted' = Accepted /\ W' = W
  BY DEF Accepted
<1>2. Closed' = Closed
  BY <1>1 DEF Closed, Finished, Accepted
<1>3. F \ F' \in SUBSET F /\ F' = F \ (F \ F')
  BY DEF Rows
<1>4. Ledger!Revive
  BY <1>1, <1>2, <1>3 DEF Ledger!Revive
<1>5. QED
  BY <1>4 DEF Ledger!Next

LEMMA EnqueueAccepts ==
  ASSUME IInv, WrittenIsAccepted, NEW e \in Event, Enqueue(e)
  PROVE  Ledger!Next
<1>1. /\ nextId \in Row /\ nextId \notin Accepted
      /\ nextId' = nextId + 1 /\ copies' = copies /\ queue' = Insert(queue, nextId)
  BY MaxRowAssumption DEF Enqueue, IInv, TypeOK, Row, Accepted
<1>2. Accepted' = Accepted \cup {nextId}
  BY <1>1 DEF Accepted, Row, IInv, TypeOK
<1>3. copies[nextId] = 0
  BY <1>1 DEF WrittenIsAccepted, IInv, TypeOK
<1>4. {r \in Accepted : copies[r] > 0}' = {r \in Accepted : copies[r] > 0}
  BY <1>1, <1>2, <1>3
<1>5. /\ queue'[nextId].status = "pending"
      /\ \A r \in Row \ {nextId} : queue'[r] = queue[r]
      /\ queue[nextId].status = "absent"
  BY <1>1 DEF Insert, IInv, TypeOK, RowState, TableIsAccepted, Present
<1>6. Closed' = Closed /\ Rows(queue', "failed") = Rows(queue, "failed")
  <2>1. \A r \in Row : r \in Closed' <=> r \in Closed
    BY <1>1, <1>2, <1>5 DEF Closed
  <2>2. \A r \in Row : queue'[r].status = "failed" <=> queue[r].status = "failed"
    BY <1>5
  <2>3. Closed \subseteq Row /\ Closed' \subseteq Row
    BY DEF Closed, Accepted
  <2>4. QED
    BY <2>1, <2>2, <2>3 DEF Rows
<1>7. Ledger!Accept
  <2>1. nextId \in Row \ Accepted
    BY <1>1
  <2>2. UNCHANGED <<{r \in Accepted : copies[r] > 0}, Closed, Rows(queue, "failed")>>
    BY <1>4, <1>6
  <2>3. QED
    BY <1>2, <2>1, <2>2 DEF Ledger!Accept
<1>8. QED
  BY <1>7 DEF Ledger!Next

LEMMA SummarizeOkWrites ==
  ASSUME IInv, NEW c \in Caller, SummarizeOk(c)
  PROVE  Ledger!Next
<1> DEFINE g == CurrentGroup(batch[c])
           W == {r \in Accepted : copies[r] > 0}
<1>1. g \subseteq Parts(batch[c]) /\ Parts(batch[c]) \subseteq Accepted
  BY GroupIsTodo DEF SummarizeOk, IInv, TypeOK, BatchesAreSound, Sound, Parts, Running
<1>2. \A r \in g : queue[r].status = "processing"
  <2>1. lock = c /\ \A d \in Caller \ {c} : batch[d].phase \notin Running
    BY CallerAssumption DEF SummarizeOk, IInv, OneBatchAtATime, Running
  <2>2. alive
    BY <2>1, CallerAssumption DEF IInv, DeadIsIdle
  <2>3. Rows(queue, "processing") = Parts(batch[c])
    BY <2>1, <2>2, InFlightOfOne DEF IInv, ProcessingIsOwned, InFlight, SummarizeOk
  <2>4. QED
    BY <1>1, <2>3 DEF Rows
<1> HIDE DEF g
<1>3. /\ UNCHANGED <<queue, nextId>>
      /\ copies' = [r \in Row |-> IF r \in g THEN OneMore(copies[r]) ELSE copies[r]]
  BY DEF SummarizeOk, g
<1>4. /\ copies' \in [Row -> 0..Many]
      /\ \A r \in Row : copies'[r] > 0 <=> copies[r] > 0 \/ r \in g
  BY <1>3, ManyAssumption DEF OneMore, IInv, TypeOK
<1>5. Accepted' = Accepted /\ Closed' = Closed /\ Rows(queue', "failed") = Rows(queue, "failed")
  BY <1>3 DEF Accepted, Closed
<1>6. W' = W \cup g
  BY <1>1, <1>4, <1>5 DEF Accepted
<1>7. g \in SUBSET (Accepted \ (Closed \cup Rows(queue, "failed")))
  BY <1>1, <1>2 DEF Closed, Rows
<1>8. Ledger!Write
  BY <1>5, <1>6, <1>7 DEF Ledger!Write
<1>9. QED
  BY <1>8 DEF Ledger!Next

(* A group's outcome recorded in b: nothing on the ledger, or the whole batch's. *)
LEMMA GroupOverResolves ==
  ASSUME IInv, NEW c \in Caller, NEW b \in Batch,
         batch[c].phase \in {"summarizing", "ingesting"},
         Sound(b), Parts(b) = Parts(batch[c]),
         GroupOver(c, b), UNCHANGED <<event, nextId, copies, alive>>
  PROVE  Ledger!Next
<1>1. queue \in [Row -> RowState]
  BY DEF IInv, TypeOK
<1>2. \A r \in Parts(b) : queue[r].status = "processing"
  <2>1. lock = c /\ \A d \in Caller \ {c} : batch[d].phase \notin Running
    BY CallerAssumption DEF IInv, OneBatchAtATime, Running
  <2>2. alive
    BY <2>1, CallerAssumption DEF IInv, DeadIsIdle
  <2>3. Rows(queue, "processing") = Parts(b)
    BY <2>1, <2>2, InFlightOfOne DEF IInv, ProcessingIsOwned, InFlight
  <2>4. QED
    BY <2>3 DEF Rows
<1> DEFINE q == WriteBack(queue, b)
<1>3. /\ q \in [Row -> RowState]
      /\ \A r \in Row : queue[r].status # "absent" =>
           /\ r \in b.done => q[r].status = "done"
           /\ r \in b.overloaded => q[r].status = "pending"
           /\ r \in b.failed => q[r].status \in {"failed", "pending"}
           /\ r \notin b.done \cup b.overloaded \cup b.failed => q[r].status = queue[r].status
      /\ \A r \in Row : queue[r].status = "absent" => q[r].status = "absent"
  BY <1>1, WriteBackEffect DEF Sound
<1> HIDE DEF q
<1>4. \A r \in b.done : copies[r] > 0
  BY DEF Sound
<1>5. \/ queue' = queue
      \/ queue' = q
      \/ queue' = SetStatus(q, b.permanent, "failed")
  BY DEF GroupOver, NextGroup, BeginDemotion, EndBatch, MarkPermanent, q
<1>6. /\ queue' \in [Row -> RowState]
      /\ \A r \in Row :
           \/ queue'[r].status = queue[r].status
           \/ queue'[r].status = q[r].status
           \/ r \in b.permanent /\ queue'[r].status = "failed"
  <2>1. CASE queue' = queue \/ queue' = q
    BY <1>1, <1>3, <2>1
  <2>2. CASE queue' = SetStatus(q, b.permanent, "failed")
    <3>1. /\ queue' \in [Row -> RowState]
          /\ \A r \in Row : queue'[r].status =
               IF r \in b.permanent /\ q[r].status # "absent" THEN "failed" ELSE q[r].status
      BY <1>3, <2>2, SetStatusEffect DEF Status
    <3>2. QED
      BY <3>1
  <2>3. QED
    BY <1>5, <2>1, <2>2
<1>7. \A r \in Row :
        /\ queue[r].status = "absent" => queue'[r].status = "absent"
        /\ queue[r].status = "failed" => queue'[r].status = "failed"
        /\ queue[r].status \in Finished => queue'[r].status \in Finished
        /\ queue'[r].status \in Finished => queue[r].status \in Finished \/ copies[r] > 0
  <2> TAKE r \in Row
  <2>1. CASE r \in Parts(b)
    BY <1>2, <1>3, <1>4, <1>6, <2>1 DEF Finished, Parts
  <2>2. CASE r \notin Parts(b)
    <3>1. q[r].status = queue[r].status
      BY <1>3, <2>2 DEF Parts
    <3>2. queue'[r].status = queue[r].status
      BY <1>6, <2>2, <3>1 DEF Parts
    <3>3. QED
      BY <3>2
  <2>3. QED
    BY <2>1, <2>2
<1>8. QED
  BY <1>6, <1>7, OutcomesResolve

LEMMA BatchStepsResolve ==
  ASSUME IInv, NEW c \in Caller, StartBatch(c) \/ SummarizeFails(c) \/ IngestOk(c)
         \/ IngestFails(c) \/ FailOver(c) \/ ChainExhausted(c)
  PROVE  Ledger!Next
<1>1. CASE StartBatch(c)
  <2> DEFINE S == Claimable(queue, BatchSize)
  <2>1. queue' = SetStatus(queue, S, "processing") /\ UNCHANGED <<nextId, copies>>
    BY <1>1 DEF StartBatch, Claim
  <2>2. \A r \in S : queue[r].status = "pending"
    BY DEF Claimable, Oldest, Rows
  <2> HIDE DEF S
  <2>3. /\ queue' \in [Row -> RowState]
        /\ \A r \in Row : queue'[r].status =
             IF r \in S /\ queue[r].status # "absent" THEN "processing" ELSE queue[r].status
    BY <2>1, SetStatusEffect DEF IInv, TypeOK, Status
  <2>4. QED
    BY <2>1, <2>2, <2>3, RevivalRevives DEF Finished
<1>2. CASE SummarizeFails(c) \/ IngestOk(c) \/ IngestFails(c)
  <2>1. /\ batch[c] \in Batch /\ UNCHANGED <<event, nextId, copies, alive>>
        /\ batch[c].phase \in {"summarizing", "ingesting"}
    BY <1>2 DEF IInv, TypeOK, SummarizeFails, IngestOk, IngestFails
  <2>2. Sound(batch[c]) /\ GroupIsWritten(batch[c])
    BY <2>1 DEF IInv, BatchesAreSound, Running
  <2>3. CASE IngestOk(c)
    <3>1. GroupOver(c, Succeeded(batch[c])) /\ batch[c].phase = "ingesting"
      BY <2>3 DEF IngestOk
    <3>2. QED
      BY <2>1, <2>2, <3>1, SucceededIsSound, GroupOverResolves
  <2>4. CASE SummarizeFails(c) \/ IngestFails(c)
    <3>1. PICK kind \in FailureKind : GroupOver(c, FailedAs(batch[c], kind))
      BY <2>4, FailuresAssumption DEF SummarizeFails, IngestFails
    <3>2. QED
      BY <2>1, <2>2, <3>1, FailedAsIsSound, GroupOverResolves
  <2>5. QED
    BY <1>2, <2>3, <2>4
<1>3. CASE FailOver(c) \/ ChainExhausted(c)
  <2>1. PICK s \in {"pending", "failed"} : queue' = SetStatus(queue, batch[c].permanent, s)
    BY <1>3 DEF FailOver, ChainExhausted, Requeue, MarkPermanent
  <2>2. batch[c].phase = "demoting" /\ UNCHANGED <<nextId, copies>>
    BY <1>3 DEF FailOver, ChainExhausted
  <2>3. \A r \in batch[c].permanent : queue[r].status = "processing"
    <3>1. lock = c /\ \A d \in Caller \ {c} : batch[d].phase \notin Running
      BY <2>2, CallerAssumption DEF IInv, OneBatchAtATime, Running
    <3>2. alive
      BY <3>1, CallerAssumption DEF IInv, DeadIsIdle
    <3>3. Rows(queue, "processing") = batch[c].permanent
      BY <2>2, <3>1, <3>2, InFlightOfOne DEF IInv, ProcessingIsOwned, InFlight
    <3>4. QED
      BY <3>3 DEF Rows
  <2>4. /\ queue' \in [Row -> RowState]
        /\ \A r \in Row : queue'[r].status =
             IF r \in batch[c].permanent /\ queue[r].status # "absent" THEN s ELSE queue[r].status
    BY <2>1, SetStatusEffect DEF IInv, TypeOK, Status
  <2>5. QED
    BY <2>2, <2>3, <2>4, OutcomesResolve DEF Finished
<1>4. QED
  BY <1>1, <1>2, <1>3

LEMMA OtherStepsRevive ==
  ASSUME IInv, Reprobe \/ Retention \/ Restart
  PROVE  Ledger!Next
<1>1. queue \in [Row -> RowState] /\ UNCHANGED <<nextId, copies>>
  BY DEF IInv, TypeOK, Reprobe, Retention, Restart
<1>2. CASE Reprobe
  BY <1>1, <1>2, RetryFailedEffect, RevivalRevives DEF Reprobe, Finished
<1>3. CASE Retention
  <2>1. PICK S : queue' = PruneDone(queue, S)
    BY <1>3 DEF Retention
  <2>2. QED
    BY <1>1, <2>1, PruneDoneEffect, RevivalRevives DEF Finished
<1>4. CASE Restart
  <2> DEFINE q == Open(queue)
  <2>1. /\ q \in [Row -> RowState]
        /\ \A r \in Row : q[r].status =
             IF queue[r].status = "processing" THEN "pending" ELSE queue[r].status
    BY <1>1, SetStatusEffect DEF Open, Rows, Status
  <2> HIDE DEF q
  <2>2. queue' = q \/ queue' = RetryFailed(q, ReleaseLimit)
    BY <1>4 DEF Restart, q
  <2>3. /\ queue' \in [Row -> RowState]
        /\ \A r \in Row :
             IF queue[r].status \in {"failed", "processing"}
               THEN queue'[r].status \in {"pending", queue[r].status}
               ELSE queue'[r].status = queue[r].status
    BY <2>1, <2>2, RetryFailedEffect
  <2>4. QED
    BY <1>1, <2>3, RevivalRevives DEF Finished
<1>5. QED
  BY <1>2, <1>3, <1>4

LEMMA EveryStepKeepsThePromise ==
  ASSUME IInv, WrittenIsAccepted, [Next]_vars
  PROVE  [Ledger!Next]_(Ledger!ledgerVars)
<1>1. CASE UNCHANGED <<queue, nextId, copies>>
  BY <1>1 DEF Ledger!ledgerVars, Accepted, Closed
<1>2. CASE \E e \in Event : Enqueue(e)
  BY <1>2, EnqueueAccepts
<1>3. ASSUME NEW c \in Caller, ProcessBatch(c)
      PROVE  Ledger!Next
  BY <1>3, SummarizeOkWrites, BatchStepsResolve DEF ProcessBatch
<1>4. CASE Reprobe \/ Retention \/ Restart
  BY <1>4, OtherStepsRevive
<1>5. (\E c \in Caller : FlushRequest(c) \/ FlushEnds(c)) \/ CooldownElapses \/ Crash \/ UNCHANGED vars
        => UNCHANGED <<queue, nextId, copies>>
  BY DEF FlushRequest, FlushEnds, CooldownElapses, Crash, durable, vars
<1>6. QED
  BY <1>1, <1>2, <1>3, <1>4, <1>5 DEF Next

(* The pipeline keeps the ledger's promise: no event is closed before it is
   written, none disappears, and a dead letter is only ever put back. *)
THEOREM PipelineImplementsLedger == Spec => ImplementsLedger
<1>1. Init => Ledger!Init /\ WrittenIsAccepted
  BY DEF Init, Ledger!Init, WrittenIsAccepted, Accepted, Closed, Rows, EmptyTable, Absent, Row
<1>2. IInv /\ WrittenIsAccepted /\ [Next]_vars => WrittenIsAccepted'
  BY WrittenIsAcceptedKept
<1>3. IInv /\ WrittenIsAccepted /\ [Next]_vars => [Ledger!Next]_(Ledger!ledgerVars)
  BY EveryStepKeepsThePromise
<1>4. QED
  BY <1>1, <1>2, <1>3, Invariance, PTL DEF Spec, ImplementsLedger, Ledger!Spec

-----------------------------------------------------------------------------
(* Commands that open the queue beside the pipeline (module QueueCommands). A command's recovery takes rows from under a
   running batch, so IInv does not survive here. CInv is what does: who runs a batch, and that a row is marked done only
   after an observation was made from it. *)

(* One event per turn, as transcripts are captured; dedupe keeps a row per turn. *)
EachTurnIsOneEvent == \A e, f \in Event : TurnOf[e] = TurnOf[f] => e = f

AcceptedRowsHaveEvents == \A r \in Row : r < nextId <=> event[r] \in Event

BatchRowsAreAccepted == \A c \in Caller : batch[c].todo \subseteq Accepted

DoneIsWritten == \A r \in Row : queue[r].status = "done" => copies[r] > 0

BatchesAreWritten ==
  \A c \in Caller : (\A r \in batch[c].done : copies[r] > 0) /\ GroupIsWritten(batch[c])

CInv ==
  /\ TypeOK
  /\ OneBatchAtATime
  /\ TableIsAccepted
  /\ AcceptedRowsHaveEvents
  /\ BatchRowsAreAccepted
  /\ DoneIsWritten
  /\ BatchesAreWritten
  /\ EachTurnIsOneEvent => EventHeldOrWritten

-----------------------------------------------------------------------------
(* A set of rows has a first one. *)
Smaller == {p \in Nat \X Nat : p[1] < p[2]}

LEMMA FirstRow ==
  ASSUME NEW S, S \subseteq Row, S # {}
  PROVE  \E r \in S : \A s \in S : r <= s
<1>1. IsWellFoundedOn(Smaller, Nat)
  BY NatLessThanWellFounded DEF OpToRel, Smaller
<1>2. S \subseteq Nat
  BY MaxRowAssumption DEF Row
<1>3. PICK r \in S : \A s \in S : <<s, r>> \notin Smaller
  BY <1>1, <1>2, WFMin
<1>4. \A s \in S : ~(s < r)
  BY <1>2, <1>3 DEF Smaller
<1>5. QED
  BY <1>2, <1>3, <1>4

(* What the write back does to the table, whatever else was done to its rows. *)
LEMMA WriteBackKeeps ==
  ASSUME NEW q \in [Row -> RowState], NEW b
  PROVE  /\ WriteBack(q, b) \in [Row -> RowState]
         /\ \A r \in Row : /\ WriteBack(q, b)[r].status = "absent" <=> q[r].status = "absent"
                           /\ WriteBack(q, b)[r].status = "done" => q[r].status = "done" \/ r \in b.done
<1>. DEFINE q1 == MarkDone(q, b.done)
            q2 == Requeue(q1, b.overloaded)
<1>1. /\ q1 \in [Row -> RowState]
      /\ \A r \in Row : q1[r].status =
           IF r \in b.done /\ q[r].status # "absent" THEN "done" ELSE q[r].status
  BY SetStatusEffect DEF MarkDone, Status
<1>. HIDE DEF q1
<1>2. /\ q2 \in [Row -> RowState]
      /\ \A r \in Row : q2[r].status =
           IF r \in b.overloaded /\ q1[r].status # "absent" THEN "pending" ELSE q1[r].status
  BY <1>1, SetStatusEffect DEF Requeue, Status
<1>. HIDE DEF q2
<1>3. WriteBack(q, b) = MarkFailed(q2, b.failed)
  BY DEF WriteBack, q1, q2
<1>4. QED
  BY <1>1, <1>2, <1>3, MarkFailedEffect

(* Recovery, a release of dead letters and retention never finish a row, and delete
   finished ones only. *)
LEMMA CommandsOnTheTable ==
  ASSUME NEW q \in [Row -> RowState], NEW p,
         p = q \/ p = Open(q) \/ (\E n : p = RetryFailed(q, n)) \/ (\E S : p = PruneDone(q, S))
  PROVE  /\ p \in [Row -> RowState]
         /\ \A r \in Row : p[r].status = "absent" => q[r].status \in {"absent", "done"}
         /\ \A r \in Row : p[r].status # "absent" => q[r].status # "absent"
         /\ \A r \in Row : p[r].status = "done" => q[r].status = "done"
<1>1. CASE p = Open(q)
  BY <1>1, SetStatusEffect DEF Open, Status
<1>2. CASE \E n : p = RetryFailed(q, n)
  BY <1>2, RetryFailedEffect
<1>3. CASE \E S : p = PruneDone(q, S)
  BY <1>3, PruneDoneEffect
<1>4. QED
  BY <1>1, <1>2, <1>3

-----------------------------------------------------------------------------
(* The table, when rows change and no new one comes. *)
LEMMA TableKeepsWhatIsHeld ==
  ASSUME CInv, queue' \in [Row -> RowState], UNCHANGED <<event, nextId>>,
         \A r \in Row : copies[r] > 0 => copies'[r] > 0,
         \A r \in Row : queue'[r].status = "absent" => queue[r].status \in {"absent", "done"},
         \A r \in Row : queue'[r].status # "absent" => queue[r].status # "absent",
         \A r \in Row : queue'[r].status = "done" => queue[r].status = "done" \/ copies[r] > 0
  PROVE  /\ TableIsAccepted' /\ AcceptedRowsHaveEvents' /\ DoneIsWritten'
         /\ EachTurnIsOneEvent => EventHeldOrWritten'
<1>1. TableIsAccepted' /\ AcceptedRowsHaveEvents' /\ DoneIsWritten'
  BY DEF CInv, TableIsAccepted, Present, Accepted, AcceptedRowsHaveEvents, DoneIsWritten
<1>2. ASSUME EachTurnIsOneEvent, NEW r \in Row, r < nextId
      PROVE  \E s \in Row : event'[s] = event'[r] /\ (queue'[s].status # "absent" \/ copies'[s] > 0)
  <2>1. PICK s \in Row : event[s] = event[r] /\ (queue[s].status # "absent" \/ copies[s] > 0)
    BY <1>2 DEF CInv, EventHeldOrWritten
  <2>2. queue[s].status = "done" => copies[s] > 0
    BY DEF CInv, DoneIsWritten
  <2>3. QED
    BY <2>1, <2>2
<1>3. QED
  BY <1>1, <1>2 DEF EventHeldOrWritten

(* The locals of the batches, when what they hold stays written. *)
LEMMA BatchesStayWritten ==
  ASSUME CInv, UNCHANGED <<event, nextId>>, copies' = copies,
         \A c \in Caller : \/ batch'[c] = batch[c]
                           \/ /\ batch'[c].phase # "ingesting" /\ batch'[c].todo \subseteq Accepted
                              /\ \A r \in batch'[c].done : copies[r] > 0
  PROVE  BatchRowsAreAccepted' /\ BatchesAreWritten'
<1>1. Accepted' = Accepted
  BY DEF Accepted
<1>2. BatchRowsAreAccepted'
  BY <1>1 DEF CInv, BatchRowsAreAccepted
<1>3. SUFFICES ASSUME NEW c \in Caller
               PROVE  (\A r \in batch'[c].done : copies'[r] > 0) /\ GroupIsWritten(batch[c])'
  BY <1>2 DEF BatchesAreWritten
<1>4. CASE batch'[c] = batch[c]
  BY <1>4 DEF CInv, BatchesAreWritten, GroupIsWritten, CurrentGroup, Turn
<1>5. CASE batch'[c] # batch[c]
  BY <1>5 DEF GroupIsWritten
<1>6. QED
  BY <1>4, <1>5

(* The last step of a group: b is the batch with the outcome of the group in it. *)
LEMMA GroupOverKeepsCInv ==
  ASSUME CInv, NEW c \in Caller, NEW b \in Batch, batch[c].phase \in {"summarizing", "ingesting"},
         b.todo \subseteq Accepted, \A r \in b.done : copies[r] > 0,
         GroupOver(c, b), UNCHANGED <<event, nextId, copies, alive>>
  PROVE  CInv'
<1>1. lock = c /\ \A d \in Caller \ {c} : batch[d].phase \notin Running
  BY CallerAssumption DEF CInv, OneBatchAtATime, Running
<1>2. queue \in [Row -> RowState] /\ batch \in [Caller -> Batch]
  BY DEF CInv, TypeOK
<1>3. PICK q : q = WriteBack(queue, b)
  OBVIOUS
<1>4. /\ q \in [Row -> RowState]
      /\ \A r \in Row : /\ q[r].status = "absent" <=> queue[r].status = "absent"
                        /\ q[r].status = "done" => queue[r].status = "done" \/ r \in b.done
  BY <1>2, <1>3, WriteBackKeeps
<1>5. CASE NextGroup(c, b) \/ (CanDemote /\ BeginDemotion(c, b))
  <2>1. PICK p \in {"summarizing", "demoting"} : batch' = [batch EXCEPT ![c] = [b EXCEPT !.phase = p]]
    BY <1>5 DEF NextGroup, BeginDemotion
  <2>2. PICK b2 : b2 = [b EXCEPT !.phase = p]
    OBVIOUS
  <2>3. b2 \in Batch /\ b2.phase = p /\ b2.todo = b.todo /\ b2.done = b.done
    BY <2>2 DEF Batch, Phase
  <2>4. batch'[c] = b2 /\ (\A d \in Caller \ {c} : batch'[d] = batch[d]) /\ batch' \in [Caller -> Batch]
    BY <1>2, <2>1, <2>2, <2>3
  <2>5. BatchRowsAreAccepted' /\ BatchesAreWritten'
    BY <2>3, <2>4, BatchesStayWritten
  <2>6. queue' = queue \/ queue' = q
    BY <1>3, <1>5 DEF NextGroup, BeginDemotion
  <2>7. /\ queue' \in [Row -> RowState]
        /\ \A r \in Row : /\ queue'[r].status = "absent" <=> queue[r].status = "absent"
                          /\ queue'[r].status = "done" => queue[r].status = "done" \/ r \in b.done
    BY <1>2, <1>4, <2>6
  <2>8. /\ TableIsAccepted' /\ AcceptedRowsHaveEvents' /\ DoneIsWritten'
        /\ EachTurnIsOneEvent => EventHeldOrWritten'
    BY <2>7, TableKeepsWhatIsHeld
  <2>9. lock' = lock /\ OneBatchAtATime'
    BY <1>1, <1>5, <2>3, <2>4 DEF CInv, OneBatchAtATime, Running, NextGroup, BeginDemotion
  <2>10. /\ permanentStreak' \in Nat
         /\ demoted' \in SUBSET Provider
         /\ UNCHANGED <<cooling, summarize, active>>
    <3>1. active # None => active \in Provider
      BY DEF CInv, TypeOK
    <3>2. StreakAfter(b) \in Nat /\ permanentStreak \in Nat /\ demoted \in SUBSET Provider
      BY DEF CInv, TypeOK, StreakAfter
    <3>3. QED
      BY <1>5, <3>1, <3>2 DEF NextGroup, BeginDemotion, provider, CanDemote
  <2>11. QED
    BY <2>4, <2>5, <2>7, <2>8, <2>9, <2>10 DEF CInv, TypeOK
<1>6. CASE EndBatch(c, b)
  <2>1. /\ batch' \in [Caller -> Batch] /\ lock' = None
        /\ \A d \in Caller : batch'[d].phase \notin Running
        /\ OneBatchAtATime'
    BY <1>1, <1>6, ReleaseEffect DEF EndBatch, CInv
  <2>2. \A d \in Caller : batch'[d] = batch[d] \/ (\E p \in {"idle", "waiting"} : batch'[d] = NoBatch(p))
    BY <1>2, <1>6 DEF EndBatch, Release
  <2>3. BatchRowsAreAccepted' /\ BatchesAreWritten'
    BY <2>2, BatchesStayWritten DEF NoBatch
  <2>4. queue' = SetStatus(q, b.permanent, "failed")
    BY <1>3, <1>6 DEF EndBatch, MarkPermanent
  <2>5. /\ queue' \in [Row -> RowState]
        /\ \A r \in Row : /\ queue'[r].status = "absent" <=> queue[r].status = "absent"
                          /\ queue'[r].status = "done" => queue[r].status = "done" \/ r \in b.done
    BY <1>4, <2>4, SetStatusEffect DEF Status
  <2>6. /\ TableIsAccepted' /\ AcceptedRowsHaveEvents' /\ DoneIsWritten'
        /\ EachTurnIsOneEvent => EventHeldOrWritten'
    BY <2>5, TableKeepsWhatIsHeld
  <2>7. permanentStreak' \in Nat /\ cooling' \in BOOLEAN /\ UNCHANGED <<summarize, active, demoted>>
    <3>1. StreakAfter(b) \in Nat
      BY DEF CInv, TypeOK, StreakAfter
    <3>2. CoolingAfter(b) \in BOOLEAN
      BY DEF CInv, TypeOK, CoolingAfter
    <3>3. QED
      BY <1>6, <3>1, <3>2 DEF EndBatch, provider
  <2>8. QED
    BY <2>1, <2>3, <2>5, <2>6, <2>7 DEF CInv, TypeOK
<1>7. QED
  BY <1>5, <1>6 DEF GroupOver

(* A group leaves `todo`, for `done` or for a list of failures. *)
LEMMA GroupLeaves ==
  ASSUME NEW b \in Batch, NEW kind \in FailureKind
  PROVE  /\ Succeeded(b) \in Batch /\ Succeeded(b).todo \subseteq b.todo
         /\ Succeeded(b).done = b.done \cup CurrentGroup(b)
         /\ FailedAs(b, kind) \in Batch /\ FailedAs(b, kind).todo \subseteq b.todo
         /\ FailedAs(b, kind).done = b.done
<1>. DEFINE g == CurrentGroup(b)
            t == b.todo \ g
            d == b.done \cup g
            a == (b.auth \/ kind = "auth")
            f == IF kind = "retryable" THEN b.failed \cup g ELSE b.failed
            o == IF kind = "overloaded" THEN b.overloaded \cup g ELSE b.overloaded
            p == IF kind \in {"permanent", "auth"} THEN b.permanent \cup g ELSE b.permanent
<1>1. g \subseteq Row /\ t \subseteq b.todo
  BY DEF Batch, CurrentGroup
<1>. HIDE DEF g
<1>2. t \in SUBSET Row /\ d \in SUBSET Row /\ f \in SUBSET Row /\ o \in SUBSET Row /\ p \in SUBSET Row
  BY <1>1 DEF Batch
<1>3. a \in BOOLEAN
  OBVIOUS
<1>4. /\ Succeeded(b) = [b EXCEPT !.todo = t, !.done = d]
      /\ FailedAs(b, kind) = [b EXCEPT !.todo = t, !.auth = a, !.failed = f, !.overloaded = o, !.permanent = p]
  BY DEF Succeeded, FailedAs, g
<1>. HIDE DEF t, d, a, f, o, p
<1>5. Succeeded(b) \in Batch /\ Succeeded(b).todo = t /\ Succeeded(b).done = d
  BY <1>2, <1>4 DEF Batch
<1>6. FailedAs(b, kind) \in Batch /\ FailedAs(b, kind).todo = t /\ FailedAs(b, kind).done = b.done
  BY <1>2, <1>3, <1>4 DEF Batch
<1>7. QED
  BY <1>1, <1>5, <1>6 DEF d, g

LEMMA GroupEndsKeepsCInv ==
  ASSUME CInv, NEW c \in Caller, SummarizeFails(c) \/ IngestOk(c) \/ IngestFails(c)
  PROVE  CInv'
<1>1. /\ UNCHANGED <<event, nextId, copies, alive>> /\ batch[c].phase \in {"summarizing", "ingesting"}
      /\ \/ \E kind \in FailureKind : GroupOver(c, FailedAs(batch[c], kind))
         \/ batch[c].phase = "ingesting" /\ GroupOver(c, Succeeded(batch[c]))
  BY FailuresAssumption DEF SummarizeFails, IngestOk, IngestFails
<1>2. batch[c] \in Batch /\ batch[c].todo \subseteq Accepted /\ (\A r \in batch[c].done : copies[r] > 0)
  BY DEF CInv, TypeOK, BatchRowsAreAccepted, BatchesAreWritten
<1>3. ASSUME NEW kind \in FailureKind, GroupOver(c, FailedAs(batch[c], kind)) PROVE CInv'
  BY <1>1, <1>2, <1>3, GroupLeaves, GroupOverKeepsCInv
<1>4. ASSUME batch[c].phase = "ingesting", GroupOver(c, Succeeded(batch[c])) PROVE CInv'
  <2>1. \A r \in CurrentGroup(batch[c]) : copies[r] > 0
    BY <1>4 DEF CInv, BatchesAreWritten, GroupIsWritten
  <2>2. "auth" \in FailureKind
    BY DEF FailureKind
  <2>3. QED
    BY <1>1, <1>2, <1>4, <2>1, <2>2, GroupLeaves, GroupOverKeepsCInv
<1>5. QED
  BY <1>1, <1>3, <1>4

LEMMA StartBatchKeepsCInv == ASSUME CInv, NEW c \in Caller, StartBatch(c) PROVE CInv'
<1>1. PICK S : /\ S = Claimable(queue, BatchSize) /\ queue' = SetStatus(queue, S, "processing")
               /\ batch' = [batch EXCEPT ![c] = NewBatch(S)]
  BY DEF StartBatch, Claim
<1>2. S \subseteq Row /\ (\A r \in S : queue[r].status = "pending") /\ S \subseteq Accepted
  BY <1>1 DEF Claimable, Oldest, Rows, CInv, TableIsAccepted, Present
<1>3. /\ NewBatch(S) \in Batch /\ NewBatch(S).phase = "summarizing" /\ NewBatch(S).todo = S /\ NewBatch(S).done = {}
  BY <1>2 DEF NewBatch, Batch, Phase, CInv, TypeOK
<1>4. /\ UNCHANGED <<event, nextId, copies, alive, summarize, active, demoted, permanentStreak, cooling>>
      /\ lock = None /\ lock' = c
  BY DEF StartBatch, MayStart, provider
<1>5. /\ batch' \in [Caller -> Batch] /\ batch'[c] = NewBatch(S)
      /\ \A d \in Caller \ {c} : batch'[d] = batch[d]
  BY <1>1, <1>3 DEF CInv, TypeOK
<1>6. /\ queue' \in [Row -> RowState]
      /\ \A r \in Row : queue'[r].status =
           IF r \in S /\ queue[r].status # "absent" THEN "processing" ELSE queue[r].status
  BY <1>1, SetStatusEffect DEF CInv, TypeOK, Status
<1>7. BatchRowsAreAccepted' /\ BatchesAreWritten'
  BY <1>2, <1>3, <1>4, <1>5, BatchesStayWritten
<1>8. /\ TableIsAccepted' /\ AcceptedRowsHaveEvents' /\ DoneIsWritten'
      /\ EachTurnIsOneEvent => EventHeldOrWritten'
  BY <1>2, <1>4, <1>6, TableKeepsWhatIsHeld
<1>9. OneBatchAtATime'
  BY <1>3, <1>4, <1>5, CallerAssumption DEF CInv, OneBatchAtATime, Running
<1>10. QED
  BY <1>4, <1>5, <1>6, <1>7, <1>8, <1>9 DEF CInv, TypeOK

LEMMA SummarizeOkKeepsCInv == ASSUME CInv, NEW c \in Caller, SummarizeOk(c) PROVE CInv'
<1>1. PICK b : b = [batch[c] EXCEPT !.phase = "ingesting"]
  OBVIOUS
<1>2. /\ b \in Batch /\ b.phase = "ingesting" /\ b.todo = batch[c].todo /\ b.done = batch[c].done
      /\ CurrentGroup(b) = CurrentGroup(batch[c]) /\ CurrentGroup(b) \subseteq Row
  BY <1>1 DEF CInv, TypeOK, Batch, Phase, CurrentGroup
<1>3. /\ UNCHANGED <<queue, event, nextId, alive, summarize, active, demoted, permanentStreak, cooling, lock>>
      /\ batch[c].phase = "summarizing"
      /\ batch' = [batch EXCEPT ![c] = b]
      /\ copies' = [r \in Row |-> IF r \in CurrentGroup(b) THEN OneMore(copies[r]) ELSE copies[r]]
  BY <1>1, <1>2 DEF SummarizeOk, provider
<1>4. /\ copies' \in [Row -> 0..Many]
      /\ \A r \in Row : (copies[r] > 0 \/ r \in CurrentGroup(b)) => copies'[r] > 0
  BY <1>3, ManyAssumption DEF CInv, TypeOK, OneMore
<1>5. batch' \in [Caller -> Batch] /\ batch'[c] = b /\ \A d \in Caller \ {c} : batch'[d] = batch[d]
  BY <1>2, <1>3 DEF CInv, TypeOK
<1>6. /\ TableIsAccepted' /\ AcceptedRowsHaveEvents' /\ DoneIsWritten'
      /\ EachTurnIsOneEvent => EventHeldOrWritten'
  <2>1. queue' \in [Row -> RowState] /\ \A r \in Row : queue'[r] = queue[r]
    BY <1>3 DEF CInv, TypeOK
  <2>2. \A r \in Row : queue[r].status = "done" => copies[r] > 0
    BY DEF CInv, DoneIsWritten
  <2>3. QED
    BY <1>3, <1>4, <2>1, <2>2, TableKeepsWhatIsHeld
<1>7. BatchRowsAreAccepted'
  BY <1>2, <1>3, <1>5 DEF CInv, BatchRowsAreAccepted, Accepted
<1>8. BatchesAreWritten'
  <2>1. SUFFICES ASSUME NEW d \in Caller
                 PROVE  (\A r \in batch'[d].done : copies'[r] > 0) /\ GroupIsWritten(batch[d])'
    BY DEF BatchesAreWritten
  <2>2. batch'[d].done = batch[d].done /\ batch[d].done \subseteq Row /\ batch[d].todo \subseteq Row
    BY <1>2, <1>5 DEF CInv, TypeOK, Batch
  <2>3. \A r \in batch'[d].done : copies'[r] > 0
    BY <1>4, <2>2 DEF CInv, BatchesAreWritten
  <2>4. CASE d = c
    BY <1>2, <1>3, <1>4, <1>5, <2>3, <2>4 DEF GroupIsWritten, CurrentGroup, Turn
  <2>5. CASE d # c
    BY <1>3, <1>4, <1>5, <2>2, <2>3, <2>5 DEF CInv, BatchesAreWritten, GroupIsWritten, CurrentGroup, Turn
  <2>6. QED
    BY <2>4, <2>5
<1>9. OneBatchAtATime'
  BY <1>2, <1>3, <1>5 DEF CInv, OneBatchAtATime, Running
<1>10. QED
  BY <1>3, <1>4, <1>5, <1>6, <1>7, <1>8, <1>9 DEF CInv, TypeOK

LEMMA EnqueueKeepsCInv == ASSUME CInv, NEW e \in Event, Enqueue(e) PROVE CInv'
<1>1. /\ nextId \in Row /\ nextId \in Nat
      /\ queue' = Insert(queue, nextId) /\ event' = [event EXCEPT ![nextId] = e] /\ nextId' = nextId + 1
      /\ UNCHANGED <<copies, alive, summarize, active, demoted, permanentStreak, cooling, lock, batch>>
  BY MaxRowAssumption DEF Enqueue, provider, Row, CInv, TypeOK
<1>2. /\ queue' \in [Row -> RowState] /\ queue'[nextId].status = "pending"
      /\ \A r \in Row \ {nextId} : queue'[r] = queue[r]
  BY <1>1 DEF Insert, CInv, TypeOK, RowState, Status
<1>3. /\ event' \in [Row -> Event \cup {NoEvent}] /\ event'[nextId] = e
      /\ \A r \in Row \ {nextId} : event'[r] = event[r]
  BY <1>1 DEF CInv, TypeOK
<1>4. Accepted' = Accepted \cup {nextId} /\ nextId \notin Accepted
  BY <1>1, MaxRowAssumption DEF Accepted, Row
<1>5. TypeOK' /\ OneBatchAtATime'
  BY <1>1, <1>2, <1>3 DEF CInv, TypeOK, OneBatchAtATime
<1>6. TableIsAccepted' /\ AcceptedRowsHaveEvents' /\ BatchRowsAreAccepted' /\ DoneIsWritten'
  <2>1. \A r \in Row : (r < nextId') <=> (r < nextId \/ r = nextId)
    BY <1>1, MaxRowAssumption DEF Row
  <2>2. QED
    BY <1>1, <1>2, <1>3, <1>4, <2>1 DEF CInv, TableIsAccepted, Present, AcceptedRowsHaveEvents, BatchRowsAreAccepted, DoneIsWritten
<1>7. BatchesAreWritten'
  <2>1. SUFFICES ASSUME NEW c \in Caller PROVE GroupIsWritten(batch[c])'
    BY <1>1 DEF CInv, BatchesAreWritten
  <2>2. \A r \in batch[c].todo : event'[r] = event[r]
    BY <1>3, <1>4 DEF CInv, BatchRowsAreAccepted, Accepted
  <2>3. CurrentGroup(batch[c])' = CurrentGroup(batch[c])
    BY <1>1, <2>2 DEF CurrentGroup, Turn
  <2>4. QED
    BY <1>1, <2>3 DEF CInv, BatchesAreWritten, GroupIsWritten
<1>8. ASSUME EachTurnIsOneEvent PROVE EventHeldOrWritten'
  <2>1. SUFFICES ASSUME NEW r \in Row, r < nextId'
                 PROVE  \E s \in Row : event'[s] = event'[r] /\ (queue'[s].status # "absent" \/ copies'[s] > 0)
    BY DEF EventHeldOrWritten
  <2>2. CASE r = nextId
    BY <1>1, <1>2, <2>2
  <2>3. CASE r # nextId
    <3>1. r < nextId
      BY <1>1, <2>1, <2>3, MaxRowAssumption DEF Row
    <3>2. PICK s \in Row : event[s] = event[r] /\ (queue[s].status # "absent" \/ copies[s] > 0)
      BY <1>8, <3>1 DEF CInv, EventHeldOrWritten
    <3>3. s # nextId
      BY <1>1, <3>1, <3>2, MaxRowAssumption DEF CInv, AcceptedRowsHaveEvents, Row
    <3>4. QED
      BY <1>1, <1>2, <1>3, <2>3, <3>2, <3>3
  <2>4. QED
    BY <2>2, <2>3
<1>9. QED
  BY <1>5, <1>6, <1>7, <1>8 DEF CInv

(* A step that touches neither the rows' payloads nor what was made from them, and
   leaves the batches alone or drops them. *)
LEMMA TableStepKeepsCInv ==
  ASSUME CInv, TypeOK', UNCHANGED <<event, nextId, copies>>,
         \A r \in Row : queue'[r].status = "absent" => queue[r].status \in {"absent", "done"},
         \A r \in Row : queue'[r].status # "absent" => queue[r].status # "absent",
         \A r \in Row : queue'[r].status = "done" => queue[r].status = "done",
         OneBatchAtATime',
         \A c \in Caller : batch'[c] = batch[c] \/ (\E p \in {"idle", "waiting"} : batch'[c] = NoBatch(p))
  PROVE  CInv'
<1>1. BatchRowsAreAccepted' /\ BatchesAreWritten'
  <2>1. \A p \in {"idle", "waiting"} : NoBatch(p).phase # "ingesting" /\ NoBatch(p).todo = {} /\ NoBatch(p).done = {}
    BY DEF NoBatch
  <2>2. QED
    BY <2>1, BatchesStayWritten
<1>2. /\ TableIsAccepted' /\ AcceptedRowsHaveEvents' /\ DoneIsWritten'
      /\ EachTurnIsOneEvent => EventHeldOrWritten'
  BY TableKeepsWhatIsHeld DEF TypeOK
<1>3. QED
  BY <1>1, <1>2 DEF CInv

LEMMA FlushKeepsCInv == ASSUME CInv, NEW c \in Caller, FlushRequest(c) \/ FlushEnds(c) PROVE CInv'
<1>1. PICK p \in {"idle", "waiting"} : batch' = [batch EXCEPT ![c].phase = p]
  BY DEF FlushRequest, FlushEnds
<1>2. /\ batch[c].phase \notin Running
      /\ UNCHANGED <<queue, event, nextId, copies, alive, summarize, active, demoted, permanentStreak, cooling, lock>>
  BY DEF FlushRequest, FlushEnds, durable, provider, Running
<1>3. /\ batch' \in [Caller -> Batch] /\ batch'[c].phase = p /\ batch'[c].todo = batch[c].todo /\ batch'[c].done = batch[c].done
      /\ \A d \in Caller \ {c} : batch'[d] = batch[d]
  <2>1. PICK b : b = [batch[c] EXCEPT !.phase = p]
    OBVIOUS
  <2>2. b \in Batch /\ b.phase = p /\ b.todo = batch[c].todo /\ b.done = batch[c].done
    BY <2>1 DEF CInv, TypeOK, Batch, Phase
  <2>3. batch' = [batch EXCEPT ![c] = b]
    BY <1>1, <2>1
  <2>4. QED
    BY <2>2, <2>3 DEF CInv, TypeOK
<1>4. TypeOK' /\ OneBatchAtATime'
  BY <1>2, <1>3 DEF CInv, TypeOK, OneBatchAtATime, Running
<1>5. BatchRowsAreAccepted' /\ BatchesAreWritten'
  BY <1>2, <1>3, BatchesStayWritten DEF CInv, BatchRowsAreAccepted, BatchesAreWritten
<1>6. /\ TableIsAccepted' /\ AcceptedRowsHaveEvents' /\ DoneIsWritten'
      /\ EachTurnIsOneEvent => EventHeldOrWritten'
  BY <1>2, TableKeepsWhatIsHeld DEF CInv, TypeOK
<1>7. QED
  BY <1>4, <1>5, <1>6 DEF CInv

LEMMA FailOverKeepsCInv == ASSUME CInv, NEW c \in Caller, FailOver(c) \/ ChainExhausted(c) PROVE CInv'
<1>1. batch[c].phase = "demoting" /\ Release(c) /\ UNCHANGED <<event, nextId, copies, alive, demoted>>
  BY DEF FailOver, ChainExhausted
<1>2. lock = c
  BY <1>1 DEF CInv, OneBatchAtATime, Running
<1>3. batch' \in [Caller -> Batch] /\ lock' = None /\ OneBatchAtATime'
  BY <1>1, <1>2, ReleaseEffect DEF CInv
<1>4. PICK s \in {"pending", "failed"} : queue' = SetStatus(queue, batch[c].permanent, s)
  BY DEF FailOver, ChainExhausted, Requeue, MarkPermanent
<1>5. /\ queue' \in [Row -> RowState]
      /\ \A r \in Row : queue'[r].status =
           IF r \in batch[c].permanent /\ queue[r].status # "absent" THEN s ELSE queue[r].status
  BY <1>4, SetStatusEffect DEF CInv, TypeOK, Status
<1>6. /\ summarize' \in Provider \cup {None} /\ active' \in Provider \cup {None} /\ permanentStreak' = 0
  BY DEF FailOver, ChainExhausted, CInv, TypeOK
<1>7. cooling' \in BOOLEAN
  BY DEF FailOver, ChainExhausted, CoolingAfter, CInv, TypeOK
<1>8. TypeOK'
  BY <1>1, <1>3, <1>5, <1>6, <1>7 DEF CInv, TypeOK
<1>9. \A d \in Caller : batch'[d] = batch[d] \/ (\E p \in {"idle", "waiting"} : batch'[d] = NoBatch(p))
  BY <1>1 DEF Release, CInv, TypeOK
<1>10. QED
  BY <1>1, <1>3, <1>5, <1>8, <1>9, TableStepKeepsCInv

LEMMA TimersKeepCInv == ASSUME CInv, Reprobe \/ CooldownElapses \/ Retention PROVE CInv'
<1>1. UNCHANGED <<event, nextId, copies, alive, permanentStreak, lock, batch>>
  BY DEF Reprobe, CooldownElapses, Retention, durable
<1>2. /\ summarize' \in Provider \cup {None} /\ active' \in Provider \cup {None} /\ demoted' \in SUBSET Provider
  BY DEF Reprobe, CooldownElapses, Retention, provider, CInv, TypeOK
<1>3. cooling' \in BOOLEAN
  BY DEF Reprobe, CooldownElapses, Retention, CInv, TypeOK
<1>4. queue' = queue \/ queue' = RetryFailed(queue, ReleaseLimit) \/ \E S : queue' = PruneDone(queue, S)
  BY DEF Reprobe, CooldownElapses, Retention, durable
<1>5. /\ queue' \in [Row -> RowState]
      /\ \A r \in Row : queue'[r].status = "absent" => queue[r].status \in {"absent", "done"}
      /\ \A r \in Row : queue'[r].status # "absent" => queue[r].status # "absent"
      /\ \A r \in Row : queue'[r].status = "done" => queue[r].status = "done"
  BY <1>4, CommandsOnTheTable DEF CInv, TypeOK
<1>6. TypeOK' /\ OneBatchAtATime'
  BY <1>1, <1>2, <1>3, <1>5 DEF CInv, TypeOK, OneBatchAtATime
<1>7. QED
  BY <1>1, <1>5, <1>6, TableStepKeepsCInv

LEMMA CrashKeepsCInv == ASSUME CInv, Crash PROVE CInv'
<1>1. /\ UNCHANGED <<queue, event, nextId, copies>> /\ lock' = None
      /\ batch' = [c \in Caller |-> NoBatch("idle")]
  BY DEF Crash, durable
<1>2. batch' \in [Caller -> Batch] /\ \A c \in Caller : batch'[c] = NoBatch("idle") /\ batch'[c].phase \notin Running
  BY <1>1, NoBatchIsBatch DEF Phase, Running
<1>3. TypeOK'
  BY <1>1, <1>2 DEF Crash, CInv, TypeOK
<1>4. OneBatchAtATime'
  BY <1>1, <1>2, CallerAssumption DEF OneBatchAtATime
<1>5. QED
  BY <1>1, <1>2, <1>3, <1>4, TableStepKeepsCInv

LEMMA RestartKeepsCInv == ASSUME CInv, Restart PROVE CInv'
<1>1. UNCHANGED <<event, nextId, copies, demoted, permanentStreak, cooling, lock, batch>> /\ alive' = TRUE
  BY DEF Restart
<1>2. summarize' \in Provider \cup {None} /\ active' \in Provider \cup {None}
  BY DEF Restart, CInv, TypeOK
<1>3. PICK q : q = Open(queue)
  OBVIOUS
<1>4. /\ q \in [Row -> RowState]
      /\ \A r \in Row : q[r].status = "absent" => queue[r].status \in {"absent", "done"}
      /\ \A r \in Row : q[r].status # "absent" => queue[r].status # "absent"
      /\ \A r \in Row : q[r].status = "done" => queue[r].status = "done"
  BY <1>3, CommandsOnTheTable DEF CInv, TypeOK
<1>5. queue' = q \/ queue' = RetryFailed(q, ReleaseLimit)
  BY <1>3 DEF Restart
<1>6. /\ queue' \in [Row -> RowState]
      /\ \A r \in Row : queue'[r].status = "absent" => q[r].status \in {"absent", "done"}
      /\ \A r \in Row : queue'[r].status # "absent" => q[r].status # "absent"
      /\ \A r \in Row : queue'[r].status = "done" => q[r].status = "done"
  BY <1>4, <1>5, CommandsOnTheTable
<1>7. TypeOK' /\ OneBatchAtATime'
  BY <1>1, <1>2, <1>6 DEF CInv, TypeOK, OneBatchAtATime
<1>8. QED
  BY <1>1, <1>4, <1>6, <1>7, TableStepKeepsCInv

-----------------------------------------------------------------------------
(* The commands. *)

(* A row dedupe deletes leaves another of its turn, and so of its event, behind. *)
LEMMA DedupeLeavesOne ==
  ASSUME CInv, EachTurnIsOneEvent, NEW s \in Row, s \in DuplicateOfDone(queue, event) \cup DuplicatePending(queue, event)
  PROVE  \E t \in Row : /\ event[t] = event[s] /\ queue[t].status # "absent"
                        /\ t \notin DuplicateOfDone(queue, event) \cup DuplicatePending(queue, event)
<1>1. \A r \in Row : queue[r].status # "absent" => event[r] \in Event
  BY DEF CInv, TableIsAccepted, Present, Accepted, AcceptedRowsHaveEvents
<1>2. queue[s].status = "pending"
  BY DEF DuplicateOfDone, DuplicatePending, Rows
<1>3. CASE \E d \in Rows(queue, "done") : Turn(event, d) = Turn(event, s)
  <2>1. PICK d \in Rows(queue, "done") : Turn(event, d) = Turn(event, s)
    BY <1>3
  <2>2. d \in Row /\ queue[d].status = "done" /\ event[d] = event[s]
    BY <1>1, <1>2, <2>1 DEF Rows, Turn, EachTurnIsOneEvent
  <2>3. QED
    BY <2>2 DEF DuplicateOfDone, DuplicatePending, Rows
<1>4. CASE ~\E d \in Rows(queue, "done") : Turn(event, d) = Turn(event, s)
  <2>. DEFINE P == {r \in Rows(queue, "pending") : Turn(event, r) = Turn(event, s)}
  <2>1. s \in P /\ P \subseteq Row
    BY <1>2 DEF Rows
  <2>2. PICK t \in P : \A r \in P : t <= r
    BY <2>1, FirstRow
  <2>3. t \in Row /\ queue[t].status = "pending" /\ Turn(event, t) = Turn(event, s)
    BY <2>2 DEF Rows
  <2>4. event[t] = event[s]
    BY <1>1, <1>2, <2>3 DEF Turn, EachTurnIsOneEvent
  <2>5. t \notin DuplicateOfDone(queue, event)
    BY <1>4, <2>3 DEF DuplicateOfDone
  <2>6. t \notin DuplicatePending(queue, event)
    <3>1. SUFFICES ASSUME NEW r \in Rows(queue, "pending"), r < t, Turn(event, r) = Turn(event, t) PROVE FALSE
      BY DEF DuplicatePending
    <3>2. r \in P /\ r \in Nat /\ t \in Nat
      BY <2>3, <3>1, MaxRowAssumption DEF Rows, Row
    <3>3. QED
      BY <2>2, <3>1, <3>2
  <2>7. QED
    BY <2>3, <2>4, <2>5, <2>6
<1>5. QED
  BY <1>3, <1>4

LEMMA DedupeKeepsCInv ==
  ASSUME CInv, queue' = DedupePending(queue, event),
         UNCHANGED <<event, nextId, copies, alive, provider, permanentStreak, cooling, lock, batch>>
  PROVE  CInv'
<1>. DEFINE S == DuplicateOfDone(queue, event) \cup DuplicatePending(queue, event)
<1>1. S \subseteq {r \in Row : queue[r].status = "pending"}
  BY DEF DuplicateOfDone, DuplicatePending, Rows
<1>2. queue' \in [Row -> RowState] /\ \A r \in Row : IF r \in S THEN queue'[r].status = "absent" ELSE queue'[r] = queue[r]
  BY DEF DedupePending, Delete, Absent, RowState, Status, CInv, TypeOK
<1>3. TypeOK' /\ OneBatchAtATime'
  BY <1>2 DEF CInv, TypeOK, OneBatchAtATime, provider
<1>4. TableIsAccepted' /\ AcceptedRowsHaveEvents' /\ BatchRowsAreAccepted' /\ DoneIsWritten'
  BY <1>2 DEF CInv, TableIsAccepted, Present, Accepted, AcceptedRowsHaveEvents, BatchRowsAreAccepted, DoneIsWritten
<1>5. BatchesAreWritten'
  BY BatchesStayWritten
<1>6. ASSUME EachTurnIsOneEvent, NEW r \in Row, r < nextId
      PROVE  \E s \in Row : event[s] = event[r] /\ (queue'[s].status # "absent" \/ copies[s] > 0)
  <2>1. PICK s \in Row : event[s] = event[r] /\ (queue[s].status # "absent" \/ copies[s] > 0)
    BY <1>6 DEF CInv, EventHeldOrWritten
  <2>2. CASE s \in S
    <3>1. PICK t \in Row : event[t] = event[s] /\ queue[t].status # "absent" /\ t \notin S
      BY <1>6, <2>2, DedupeLeavesOne
    <3>2. QED
      BY <1>2, <2>1, <3>1
  <2>3. CASE s \notin S
    BY <1>2, <2>1, <2>3
  <2>4. QED
    BY <2>2, <2>3
<1>7. EachTurnIsOneEvent => EventHeldOrWritten'
  BY <1>6 DEF EventHeldOrWritten
<1>8. QED
  BY <1>3, <1>4, <1>5, <1>7 DEF CInv

LEMMA CommandsKeepCInv == ASSUME CInv, (\E cmd \in Commands : CliOpen(cmd)) \/ CliRun PROVE CInv'
<1>1. UNCHANGED <<event, nextId, copies, alive, provider, permanentStreak, cooling, lock, batch>>
  BY DEF CliOpen, CliRun
<1>2. \/ queue' = Open(queue) \/ queue' \in Outcomes(cli)
  BY DEF CliOpen, CliRun
<1>3. \/ queue' = queue \/ queue' = Open(queue) \/ (\E n : queue' = RetryFailed(queue, n)) \/ (\E S : queue' = PruneDone(queue, S))
      \/ queue' = DedupePending(queue, event)
  BY <1>2 DEF Outcomes
<1>4. CASE queue' = DedupePending(queue, event)
  BY <1>1, <1>4, DedupeKeepsCInv
<1>5. CASE queue' # DedupePending(queue, event)
  <2>1. /\ queue' \in [Row -> RowState]
        /\ \A r \in Row : queue'[r].status = "absent" => queue[r].status \in {"absent", "done"}
        /\ \A r \in Row : queue'[r].status # "absent" => queue[r].status # "absent"
        /\ \A r \in Row : queue'[r].status = "done" => queue[r].status = "done"
    BY <1>3, <1>5, CommandsOnTheTable DEF CInv, TypeOK
  <2>2. TypeOK' /\ OneBatchAtATime'
    BY <1>1, <2>1 DEF CInv, TypeOK, OneBatchAtATime, provider
  <2>3. QED
    BY <1>1, <2>1, <2>2, TableStepKeepsCInv
<1>6. QED
  BY <1>4, <1>5

-----------------------------------------------------------------------------

LEMMA CliInitSatisfiesCInv == CliInit => CInv
<1>1. SUFFICES ASSUME Init PROVE CInv
  BY DEF CliInit
<1>2. TypeOK /\ OneBatchAtATime /\ TableIsAccepted
  BY <1>1, InitEstablishesIInv DEF IInv
<1>3. /\ \A r \in Row : queue[r].status = "absent" /\ event[r] \notin Event /\ ~(r < nextId)
      /\ \A c \in Caller : batch[c] = NoBatch("idle")
  BY <1>1, NoEventAssumption, MaxRowAssumption DEF Init, EmptyTable, Absent, Row
<1>4. AcceptedRowsHaveEvents /\ BatchRowsAreAccepted /\ DoneIsWritten /\ BatchesAreWritten /\ EventHeldOrWritten
  BY <1>3 DEF AcceptedRowsHaveEvents, BatchRowsAreAccepted, DoneIsWritten, BatchesAreWritten, GroupIsWritten,
    EventHeldOrWritten, NoBatch
<1>5. QED
  BY <1>2, <1>4 DEF CInv

LEMMA CliNextKeepsCInv == CInv /\ [CliNext]_cliVars => CInv'
<1>1. SUFFICES ASSUME CInv, [CliNext]_cliVars PROVE CInv'
  OBVIOUS
<1>2. CASE Next
  <2>1. ASSUME NEW c \in Caller, FlushRequest(c) \/ FlushEnds(c) \/ ProcessBatch(c) PROVE CInv'
    BY <1>1, <2>1, FlushKeepsCInv, StartBatchKeepsCInv, SummarizeOkKeepsCInv, GroupEndsKeepsCInv, FailOverKeepsCInv
      DEF ProcessBatch
  <2>2. CASE \E e \in Event : Enqueue(e)
    BY <1>1, <2>2, EnqueueKeepsCInv
  <2>3. CASE Reprobe \/ CooldownElapses \/ Retention \/ Crash \/ Restart
    BY <1>1, <2>3, TimersKeepCInv, CrashKeepsCInv, RestartKeepsCInv
  <2>4. QED
    BY <1>2, <2>1, <2>2, <2>3 DEF Next
<1>3. CASE (\E cmd \in Commands : CliOpen(cmd)) \/ CliRun
  BY <1>1, <1>3, CommandsKeepCInv
<1>4. CASE UNCHANGED cliVars
  <2>1. UNCHANGED vars
    BY <1>4 DEF cliVars
  <2>2. TypeOK' /\ OneBatchAtATime' /\ TableIsAccepted' /\ AcceptedRowsHaveEvents'
    BY <1>1, <2>1 DEF vars, CInv, TypeOK, OneBatchAtATime, TableIsAccepted, Present, Accepted, AcceptedRowsHaveEvents
  <2>3. BatchRowsAreAccepted' /\ DoneIsWritten' /\ BatchesAreWritten'
    BY <1>1, <2>1 DEF vars, CInv, BatchRowsAreAccepted, Accepted, DoneIsWritten, BatchesAreWritten, GroupIsWritten,
      CurrentGroup, Turn
  <2>4. EachTurnIsOneEvent => EventHeldOrWritten'
    BY <1>1, <2>1 DEF vars, CInv, EventHeldOrWritten
  <2>5. QED
    BY <2>2, <2>3, <2>4 DEF CInv
<1>5. QED
  BY <1>1, <1>2, <1>3, <1>4 DEF CliNext

LEMMA CInvIsInvariant == CliSpec => []CInv
<1>1. QED
  BY CliInitSatisfiesCInv, CliNextKeepsCInv, PTL DEF CliSpec

-----------------------------------------------------------------------------

(* Types hold beside every command. *)
THEOREM CommandsAreTypeCorrect == CliSpec => []TypeOK
<1>1. CInv => TypeOK
  BY DEF CInv
<1>2. QED
  BY <1>1, CInvIsInvariant, PTL

(* Where each turn is one event (transcript capture), no command loses captured
   content, whatever the worker does beside it: dedupe keeps a row of each turn
   (dedupePending), retention deletes finished rows only, and a row is finished
   only once an observation was made from it. *)
THEOREM CommandsKeepTheContent == EachTurnIsOneEvent => (CliSpec => []EventHeldOrWritten)
<1>1. SUFFICES ASSUME EachTurnIsOneEvent PROVE CliSpec => []EventHeldOrWritten
  OBVIOUS
<1>2. CInv => EventHeldOrWritten
  BY <1>1 DEF CInv
<1>3. QED
  BY <1>2, CInvIsInvariant, PTL

(* A command may put a row back to pending under a running batch, and still no
   batch ever starts with a row another one holds: the lock outlives it. *)
THEOREM CommandsMakeNoSecondOwner == CliSpec => RowsOfABatchAreTakenOnce
<1>. DEFINE Once == \A c \in Caller : StartsBatch(c) => batch'[c].todo \cap BatchRows = {}
<1>1. ASSUME CInv, [CliNext]_cliVars PROVE Once
  <2>1. SUFFICES ASSUME NEW c \in Caller, StartsBatch(c) PROVE BatchRows = {}
    OBVIOUS
  <2>2. lock' = c /\ lock # c
    <3>1. OneBatchAtATime /\ OneBatchAtATime'
      BY <1>1, CliNextKeepsCInv DEF CInv
    <3>2. QED
      BY <2>1, <3>1 DEF OneBatchAtATime, StartsBatch, Running
  <2>3. lock = None
    <3>1. CASE \E d \in Caller : StartBatch(d)
      BY <3>1 DEF StartBatch, MayStart
    <3>2. CASE UNCHANGED lock
      BY <2>2, <3>2
    <3>3. CASE lock' = None
      BY <2>2, <3>3, CallerAssumption
    <3>4. QED
      BY <1>1, <3>1, <3>2, <3>3 DEF CliNext, cliVars, vars, CliOpen, CliRun, Next, ProcessBatch, Enqueue, FlushRequest,
        FlushEnds, SummarizeOk, SummarizeFails, IngestOk, IngestFails, GroupOver, NextGroup, BeginDemotion, EndBatch,
        FailOver, ChainExhausted, Release, Reprobe, CooldownElapses, Retention, Crash, Restart
  <2>4. \A d \in Caller : batch[d].phase \notin Running
    BY <1>1, <2>3, CallerAssumption DEF CInv, OneBatchAtATime
  <2>5. QED
    BY <2>4, InFlightOfNone DEF BatchRows
<1>2. QED
  BY <1>1, CInvIsInvariant, PTL DEF CliSpec, RowsOfABatchAreTakenOnce
=============================================================================
