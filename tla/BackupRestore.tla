----------------------------- MODULE BackupRestore -----------------------------
(***************************************************************************)
(* The operator's commands that work on the databases from outside the     *)
(* worker: backup create, backup restore --force, vacuum --force and       *)
(* upgrade, each a sequence of steps in the order of the code that may be  *)
(* cut short between any two, beside a worker that goes on writing and the *)
(* hooks that start it when they find it down.                             *)
(*                                                                         *)
(* A row is an observation, its chunk or its vector.  A vector carries the *)
(* model it was made with; a model stands for its dimension too.  What a   *)
(* -wal holds is kept apart for the two databases whose -wal a restore     *)
(* deletes; the vector database moves with its directory.                  *)
(***************************************************************************)
EXTENDS Naturals

CONSTANTS
  Observation,    \* the observations there may be
  EmbedderModel,  \* the embedder's models
  DefaultModel,   \* the one taken when nothing names another
  Setup,          \* how the machine may be set up: a value of envModel
  Elsewhere,      \* the archives that may have been brought from another machine
  AsksDown,       \* whether a backup or a restore is ever begun with the worker down
  MaxOperations,  \* bound: commands the operator gives
  MaxCuts         \* bound: commands that are cut short

Durable == {"meta", "observations"}
Db == Durable \cup {"vectors"}
NoEnv == "none"
NoWorker == [model |-> "down", stale |-> {}]
NoFiles == [d \in {} |-> {}]
NoArchive == [files |-> NoFiles, env |-> NoEnv, model |-> NoEnv, marred |-> FALSE]
NoCommand == [kind |-> "none", step |-> "done"]

ASSUME BackupAssumption ==
  /\ DefaultModel \in EmbedderModel
  /\ {NoEnv, NoWorker.model} \cap EmbedderModel = {}
  /\ Setup \subseteq [user : EmbedderModel \cup {NoEnv}, etc : EmbedderModel \cup {NoEnv}]
  /\ AsksDown \in BOOLEAN
  /\ MaxOperations \in Nat
  /\ MaxCuts \in Nat

VARIABLES
  disk,      \* the databases that exist in the data directory -> their rows
  wal,       \* the rows that only a database's -wal holds
  aside,     \* the rows in the .pre-restore-* directories
  envModel,  \* the model named in worker.env: the user's, and /etc's (system mode)
  worker,    \* the worker's model, and the databases it holds open that are no longer the ones named
  archive,   \* the archive on disk
  op,        \* the command at work and the step it comes to next
  pending,   \* the chunks in pending_embed.db
  born,      \* history: the observations ever written, here or elsewhere
  known,     \* history: the rows committed outside the replacing part of a restore
  marred,    \* history: the last restore was cut short, or a worker was up in the middle of it
  unclosed,  \* history: a restore's stop did not close the databases
  operations, cuts

backupVars == <<disk, wal, aside, envModel, worker, archive, op, pending, born, known, marred, unclosed, operations, cuts>>
data == <<disk, wal, aside, pending, born, known, unclosed>>
ghosts == <<born, known, marred, unclosed>>

DbRows(d) == IF d = "vectors" THEN Observation \X EmbedderModel ELSE Observation
FilesTyped(f) == DOMAIN f \subseteq Db /\ \A d \in DOMAIN f : f[d] \subseteq DbRows(d)

BackupTypeOK ==
  /\ FilesTyped(disk)
  /\ wal \in [Durable -> SUBSET Observation]
  /\ aside \in [Durable -> SUBSET Observation]
  /\ envModel \in [user : EmbedderModel \cup {NoEnv}, etc : EmbedderModel \cup {NoEnv}]
  /\ worker = NoWorker \/ worker \in [model : EmbedderModel, stale : SUBSET Db]
  /\ op.kind \in {"none", "create", "restore", "vacuum", "upgrade"}
  /\ pending \subseteq Observation
  /\ born \subseteq Observation
  /\ known \in [Durable -> SUBSET Observation]
  /\ marred \in BOOLEAN /\ unclosed \in BOOLEAN
  /\ operations \in 0 .. MaxOperations
  /\ cuts \in 0 .. MaxCuts

Up == worker # NoWorker
Held(d) ==      \* what a reader of the database sees
  (IF d \in DOMAIN disk THEN disk[d] ELSE {}) \cup IF d \in Durable THEN wal[d] ELSE {}

(* Mutant: nothing named is not the default. *)
UnsetModel == IF envModel.etc # NoEnv THEN envModel.etc ELSE envModel.user

(* The model the worker starts with: a system-mode unit loads /etc's file. *)
ModelNow == IF envModel.etc # NoEnv THEN envModel.etc ELSE IF envModel.user # NoEnv THEN envModel.user ELSE DefaultModel

(* What a command takes the embedder to be: the running worker's /stats,   *)
(* else the default, whatever worker.env says.                             *)
EmbedderAsked == IF Up THEN worker.model ELSE DefaultModel

(* A worker that runs keeps open the file it had under the name.           *)
Unnamed(d) == worker' = IF Up THEN [worker EXCEPT !.stale = @ \cup {d}] ELSE worker
DiskWithout(d) == [e \in DOMAIN disk \ {d} |-> disk[e]]
DiskWith(d, rows) == [e \in DOMAIN disk \cup {d} |-> IF e = d THEN rows ELSE disk[e]]

-----------------------------------------------------------------------------
(* The worker                                                              *)

(* Opening creates what is missing. *)
Boot ==
  /\ disk' = [d \in Db |-> IF d \in DOMAIN disk THEN disk[d] ELSE {}]
  /\ worker' = [model |-> ModelNow, stale |-> {}]

(* Closing the databases checkpoints them. *)
Close ==
  /\ disk' = [d \in DOMAIN disk |-> IF d \in Durable \ worker.stale THEN disk[d] \cup wal[d] ELSE disk[d]]
  /\ wal' = [d \in Durable |-> IF d \in worker.stale THEN wal[d] ELSE {}]
  /\ worker' = NoWorker

Replacing == op.kind = "restore" /\ op.step \notin {"stop", "reindex", "done"}
Commits(d, rows) == known' = IF Replacing THEN known ELSE [known EXCEPT ![d] = @ \cup rows]

(* An observation is written, then its chunk, then its vector, each its    *)
(* own commit to its own database.                                         *)
Writes(r) ==
  /\ Up /\ "observations" \notin worker.stale
  /\ r \notin born
  /\ born' = born \cup {r}
  /\ wal' = [wal EXCEPT !["observations"] = @ \cup {r}]
  /\ Commits("observations", {r})
  /\ UNCHANGED <<disk, aside, envModel, worker, archive, op, pending, marred, unclosed, operations, cuts>>

Indexes(r) ==
  /\ Up /\ "meta" \notin worker.stale
  /\ r \in Held("observations") \ (Held("meta") \cup known["meta"])
  /\ wal' = [wal EXCEPT !["meta"] = @ \cup {r}]
  /\ pending' = pending \cup {r}
  /\ Commits("meta", {r})
  /\ UNCHANGED <<disk, aside, envModel, worker, archive, op, born, marred, unclosed, operations, cuts>>

Embeds(r) ==
  /\ Up /\ "vectors" \notin worker.stale
  /\ r \in pending
  /\ pending' = pending \ {r}
  /\ disk' = IF r \in Held("meta") THEN DiskWith("vectors", {v \in disk["vectors"] : v[1] # r} \cup {<<r, worker.model>>}) ELSE disk
  /\ UNCHANGED <<wal, aside, envModel, worker, archive, op, ghosts, operations, cuts>>

(* The operator, or a hook that finds the worker down, starts it; a hook   *)
(* does not know of the command at work.                                   *)
ComesUp ==
  /\ ~Up
  /\ Boot
  /\ marred' = (marred \/ op.kind = "restore")
  /\ UNCHANGED <<wal, aside, envModel, archive, op, pending, born, known, unclosed, operations, cuts>>

(* /reindex: the chunk and the vector of every observation are made anew,  *)
(* or of those only that lack one.                                         *)
Reindexed(all) ==
  LET redo == {r \in Held("observations") : all \/ r \notin Held("meta") \/ ~\E v \in disk["vectors"] : v[1] = r} IN
  /\ wal' = [wal EXCEPT !["meta"] = @ \cup (redo \ disk["meta"])]
  /\ disk' = DiskWith("vectors", {v \in disk["vectors"] : v[1] \notin redo} \cup (redo \X {worker.model}))
  /\ Commits("meta", redo)

(* The operator names another embedder, restarts the worker and has        *)
(* everything embedded again.                                              *)
Reconfigure(m) ==
  /\ op = NoCommand /\ Up /\ worker.stale = {} /\ operations < MaxOperations
  /\ m # worker.model
  /\ envModel' = IF envModel.etc # NoEnv THEN [envModel EXCEPT !.etc = m] ELSE [envModel EXCEPT !.user = m]
  /\ worker' = [worker EXCEPT !.model = m]
  /\ disk' = DiskWith("vectors", {v[1] : v \in disk["vectors"]} \X {m})
  /\ operations' = operations + 1
  /\ UNCHANGED <<wal, aside, archive, op, pending, ghosts, cuts>>

-----------------------------------------------------------------------------
(* A command is begun, goes through its steps and ends.                    *)

Begin(c) == op = NoCommand /\ operations < MaxOperations /\ operations' = operations + 1 /\ op' = c
Step(s) == op.step = s
Then(s) == op' = [op EXCEPT !.step = s]

End ==
  /\ op # NoCommand /\ Step("done")
  /\ op' = NoCommand
  /\ UNCHANGED <<data, envModel, worker, archive, marred, operations, cuts>>

(* Killed, or a step throws: no command has anything to undo, and the      *)
(* archive's name is given to a finished file only.                        *)
CutShort ==
  /\ ~Step("done") /\ cuts < MaxCuts
  /\ cuts' = cuts + 1
  /\ op' = NoCommand
  /\ marred' = (marred \/ Replacing)
  /\ UNCHANGED <<data, envModel, worker, archive, operations>>

(* The service manager's stop is graceful and closes the databases, or     *)
(* ends in a kill that closes nothing.                                     *)
StopCloses == IF Up THEN Close ELSE UNCHANGED <<disk, wal, worker>>
StopKills == Up /\ worker' = NoWorker /\ UNCHANGED <<disk, wal>>

(* start leaves a worker that runs alone; upgrade starts one for its       *)
(* rechunk too if it found none.                                           *)
StartAgain ==
  /\ \/ Step("raise") /\ Then("rechunk")
     \/ Step("start") /\ Then(IF op.kind = "restore" /\ op.anew THEN "reindex" ELSE "done")
  /\ IF Up THEN UNCHANGED <<disk, worker>> ELSE Boot
  /\ UNCHANGED <<wal, aside, envModel, archive, pending, ghosts, operations, cuts>>

-----------------------------------------------------------------------------
(* backup create                                                           *)

(* Mutant: the observations are copied first. *)
ObservationsFirst == [begin |-> "observations", observations |-> "meta", meta |-> "vectors", vectors |-> "archive"]

(* durableTargets in their order. *)
Snapshots == [begin |-> "meta", meta |-> "observations", observations |-> "vectors", vectors |-> "archive"]

BeginCreate(includeVectors) ==
  /\ Up \/ AsksDown
  /\ Begin([kind |-> "create", got |-> NoFiles, vectors |-> includeVectors, step |-> Snapshots["begin"]])
  /\ UNCHANGED <<data, envModel, worker, archive, marred, cuts>>

HotSnapshot(d) ==
  /\ op.kind = "create" /\ Step(d)
  /\ op' = [op EXCEPT !.step = IF Snapshots[d] = "vectors" /\ ~op.vectors THEN "archive" ELSE Snapshots[d],
                      !.got = IF d \in DOMAIN disk THEN [e \in DOMAIN @ \cup {d} |-> IF e = d THEN Held(d) ELSE @[e]] ELSE @]
  /\ UNCHANGED <<data, envModel, worker, archive, marred, operations, cuts>>

(* The first worker.env there is, the embedder's identity, the archive. *)
CreateArchive ==
  /\ Step("archive")
  /\ archive' = [files |-> op.got, env |-> IF envModel.user # NoEnv THEN envModel.user ELSE envModel.etc,
                 model |-> EmbedderAsked, marred |-> marred]
  /\ Then("done")
  /\ UNCHANGED <<data, envModel, worker, marred, operations, cuts>>

-----------------------------------------------------------------------------
(* backup restore --force                                                  *)

(* Mutant: the archive's databases are put in place before the old ones    *)
(* are moved aside.                                                        *)
PutsFirst ==
  [stop |-> "putMeta", putMeta |-> "putObservations", putObservations |-> "asideMeta", asideMeta |-> "asideObservations",
   asideObservations |-> "asideVectors", asideVectors |-> "dropWal", dropWal |-> "asideEnv", asideEnv |-> "putEnv",
   putEnv |-> "vectors", vectors |-> "start"]

(* What was there is moved aside, then the archive's files are put in      *)
(* place, then worker.env, then the vectors.                               *)
RestoreOrder ==
  [stop |-> "asideMeta", asideMeta |-> "asideObservations", asideObservations |-> "asideVectors", asideVectors |-> "dropWal",
   dropWal |-> "putMeta", putMeta |-> "putObservations", putObservations |-> "asideEnv", asideEnv |-> "putEnv",
   putEnv |-> "vectors", vectors |-> "start"]

AsideStep == [meta |-> "asideMeta", observations |-> "asideObservations", vectors |-> "asideVectors"]
PutStep == [meta |-> "putMeta", observations |-> "putObservations"]
RestoreGoesOn == Then(RestoreOrder[op.step])

(* The archive is checked and the target's embedder asked before anything  *)
(* is touched.                                                             *)
BeginRestore(reindex) ==
  /\ archive # NoArchive
  /\ Up \/ AsksDown
  /\ Begin([kind |-> "restore", model |-> EmbedderAsked, reindex |-> reindex, anew |-> FALSE, step |-> "stop"])
  /\ UNCHANGED <<data, envModel, worker, archive, marred, cuts>>

(* Mutant: the worker is not stopped. *)
LeavesRunning ==
  /\ op.kind = "restore" /\ Step("stop")
  /\ marred' = archive.marred
  /\ RestoreGoesOn
  /\ UNCHANGED <<data, envModel, worker, archive, operations, cuts>>

(* A stop that throws is taken for a worker that was down. *)
RestoreStops ==
  /\ op.kind = "restore" /\ Step("stop")
  /\ \/ StopCloses /\ marred' = archive.marred /\ UNCHANGED unclosed
     \/ StopKills /\ marred' = archive.marred /\ unclosed' = TRUE
     \/ Up /\ UNCHANGED <<disk, wal, worker>> /\ marred' = TRUE /\ unclosed' = TRUE
  /\ RestoreGoesOn
  /\ UNCHANGED <<aside, envModel, archive, pending, born, known, operations, cuts>>

MoveAside(d) ==
  /\ Step(AsideStep[d])
  /\ disk' = DiskWithout(d)
  /\ aside' = IF d \in Durable /\ d \in DOMAIN disk THEN [aside EXCEPT ![d] = @ \cup disk[d]] ELSE aside
  /\ Unnamed(d)
  /\ RestoreGoesOn
  /\ UNCHANGED <<wal, envModel, archive, pending, ghosts, operations, cuts>>

DropWal ==
  /\ Step("dropWal")
  /\ wal' = [d \in Durable |-> {}]
  /\ RestoreGoesOn
  /\ UNCHANGED <<disk, aside, envModel, worker, archive, pending, ghosts, operations, cuts>>

PutBack(d) ==
  /\ Step(PutStep[d])
  /\ IF d \in DOMAIN archive.files THEN disk' = DiskWith(d, archive.files[d]) /\ Unnamed(d) ELSE UNCHANGED <<disk, worker>>
  /\ RestoreGoesOn
  /\ UNCHANGED <<wal, aside, envModel, archive, pending, ghosts, operations, cuts>>

(* Both times the user's file; /etc's is left alone. *)
RestoreEnv ==
  /\ \/ Step("asideEnv") /\ envModel' = [envModel EXCEPT !.user = NoEnv]
     \/ Step("putEnv") /\ envModel' = [envModel EXCEPT !.user = IF archive.env # NoEnv THEN archive.env ELSE @]
  /\ RestoreGoesOn
  /\ UNCHANGED <<data, worker, archive, marred, operations, cuts>>

(* Mutant: whatever the archive has is kept. *)
AnyVectors == "vectors" \in DOMAIN archive.files

VectorsCompatible == "vectors" \in DOMAIN archive.files /\ archive.model = op.model

(* The archive's vectors are kept only if the target embeds alike; else    *)
(* they are made anew once the worker is up.                               *)
RestoreVectors ==
  /\ op.kind = "restore" /\ Step("vectors")
  /\ IF VectorsCompatible /\ ~op.reindex
     THEN disk' = DiskWith("vectors", archive.files["vectors"]) /\ RestoreGoesOn
     ELSE disk' = DiskWithout("vectors") /\ op' = [op EXCEPT !.step = RestoreOrder[@], !.anew = TRUE]
  /\ Unnamed("vectors")
  /\ UNCHANGED <<wal, aside, envModel, archive, pending, ghosts, operations, cuts>>

(* An answer that says no is swallowed. *)
RestoreReindexes ==
  /\ Step("reindex")
  /\ \/ Up /\ worker.stale = {} /\ Reindexed(TRUE)
     \/ UNCHANGED <<wal, disk, known>>
  /\ Then("done")
  /\ UNCHANGED <<aside, envModel, worker, archive, pending, born, marred, unclosed, operations, cuts>>

-----------------------------------------------------------------------------
(* vacuum and upgrade                                                      *)

(* Without --force a worker that runs is a reason to refuse. *)
BeginVacuum ==
  /\ Begin([kind |-> "vacuum", up |-> Up, step |-> IF Up THEN "stop" ELSE "pack"])
  /\ UNCHANGED <<data, envModel, worker, archive, marred, cuts>>

(* With old chunks, or with --force, the worker is started if need be and  *)
(* has them made anew; else only the vacuum is run.                        *)
BeginUpgrade(rechunk) ==
  /\ Begin([kind |-> "upgrade", up |-> Up \/ rechunk,
            step |-> IF rechunk THEN IF Up THEN "rechunk" ELSE "raise" ELSE IF Up THEN "stop" ELSE "pack"])
  /\ UNCHANGED <<data, envModel, worker, archive, marred, cuts>>

Packed == Then(IF op.up THEN "start" ELSE "done")

Rechunk ==
  /\ Step("rechunk") /\ Up
  /\ IF worker.stale = {} THEN Reindexed(FALSE) ELSE UNCHANGED <<wal, disk, known>>
  /\ Then("stop")
  /\ UNCHANGED <<aside, envModel, worker, archive, pending, born, marred, unclosed, operations, cuts>>

(* A stop that throws ends the command there. *)
VacuumStops ==
  /\ op.kind # "restore" /\ Step("stop")
  /\ \/ (StopCloses \/ StopKills) /\ Then("pack")
     \/ Up /\ UNCHANGED <<disk, wal, worker>> /\ op' = NoCommand
  /\ UNCHANGED <<aside, envModel, archive, pending, ghosts, operations, cuts>>

(* Mutant: a VACUUM that throws ends the command there. *)
VacuumThrows ==
  /\ Step("pack") /\ ~Up
  /\ Then("done")
  /\ UNCHANGED <<data, envModel, worker, archive, marred, operations, cuts>>

(* Each database is checkpointed and rewritten, its rows are the same.     *)
(* When that throws, vacuum starts the worker it stopped; upgrade, whose   *)
(* vacuum found the worker down, ends.  Upgrade's vacuum refuses if a      *)
(* worker has come up again.                                               *)
Vacuum ==
  /\ Step("pack")
  /\ \/ /\ ~Up
        /\ disk' = [d \in DOMAIN disk |-> IF d = "meta" THEN disk[d] \cup wal[d] ELSE disk[d]]
        /\ wal' = [wal EXCEPT !["meta"] = IF "meta" \in DOMAIN disk THEN {} ELSE @]
        /\ Packed
     \/ (IF op.kind = "vacuum" THEN Packed ELSE op' = NoCommand) /\ UNCHANGED <<disk, wal>>
     \/ Up /\ op.kind = "upgrade" /\ Packed /\ UNCHANGED <<disk, wal>>
  /\ UNCHANGED <<aside, envModel, worker, archive, pending, ghosts, operations, cuts>>

-----------------------------------------------------------------------------
BackupInit ==
  /\ disk = [d \in Db |-> {}]
  /\ wal = [d \in Durable |-> {}]
  /\ aside = [d \in Durable |-> {}]
  /\ envModel \in Setup
  /\ worker = [model |-> ModelNow, stale |-> {}]
  /\ archive \in {NoArchive} \cup Elsewhere
  /\ op = NoCommand
  /\ pending = {}
  /\ born = {r \in Observation : \E a \in Elsewhere, d \in Durable : d \in DOMAIN a.files /\ r \in a.files[d]}
  /\ known = [d \in Durable |-> {}]
  /\ marred = FALSE /\ unclosed = FALSE
  /\ operations = 0 /\ cuts = 0

WorkerAtWork == (\E r \in Observation : Writes(r) \/ Indexes(r) \/ Embeds(r)) \/ ComesUp
Creates == (\E v \in BOOLEAN : BeginCreate(v)) \/ (\E d \in Db : HotSnapshot(d)) \/ CreateArchive
Restores ==
  \/ \E reindex \in BOOLEAN : BeginRestore(reindex)
  \/ (\E d \in Db : MoveAside(d)) \/ (\E d \in Durable : PutBack(d))
  \/ RestoreStops \/ DropWal \/ RestoreEnv \/ RestoreVectors \/ RestoreReindexes
Compacts == BeginVacuum \/ (\E rechunk \in BOOLEAN : BeginUpgrade(rechunk)) \/ Rechunk \/ VacuumStops \/ Vacuum

BackupNext ==
  \/ WorkerAtWork
  \/ \E m \in EmbedderModel : Reconfigure(m)
  \/ Creates \/ Restores \/ Compacts \/ StartAgain
  \/ CutShort \/ End

BackupSpec == BackupInit /\ [][BackupNext]_backupVars

-----------------------------------------------------------------------------
(* Properties                                                              *)

(* What the worker committed before a restore, or after it, is never out   *)
(* of reach: it is in the data directory or in a .pre-restore directory,   *)
(* wherever the restore, or the one after it, was cut short.  Not so when  *)
(* the stop did not close the databases: their -wal is deleted.            *)
NothingIsLost == ~unclosed => \A d \in Durable : known[d] \subseteq Held(d) \cup aside[d]

(* A restore that ran to its end undisturbed leaves a worker that serves   *)
(* the archive's rows, holds no file that was replaced, and shows nothing  *)
(* of the corpus that was moved aside.                                     *)
RestoredIsServed ==
  op.kind = "restore" /\ Step("done") /\ ~marred =>
    /\ Up /\ worker.stale = {}
    /\ \A d \in Durable \cap DOMAIN archive.files :
         /\ archive.files[d] \subseteq Held(d)
         /\ op.reindex \/ Held(d) \cap aside[d] \subseteq archive.files[d] \cup archive.files["observations"]

(* Vectors brought back from an archive were made by the model the worker  *)
(* starts with, whichever worker.env that is read from: vectors of two     *)
(* models are never compared.                                              *)
VectorsFitTheEmbedder ==
  Up /\ ~marred /\ op.kind # "restore" => \A v \in disk["vectors"] : v[2] = worker.model

(* A chunk never refers to an observation that is not there, in an archive *)
(* taken while the worker writes and in the corpus restored from it.       *)
ChunksHaveTheirObservation ==
  /\ archive # NoArchive /\ ~archive.marred => archive.files["meta"] \subseteq archive.files["observations"]
  /\ ~marred /\ op.kind # "restore" => Held("meta") \subseteq Held("observations")

(* vacuum and upgrade leave the worker running if they found it so or had  *)
(* to start it, in vacuum a VACUUM that fails included (upgrade ends there *)
(* with the worker down).                                                  *)
WorkerIsBroughtBack == op.kind \in {"vacuum", "upgrade"} /\ Step("done") /\ op.up => Up

BackupsAreSound ==
  /\ NothingIsLost
  /\ RestoredIsServed
  /\ VectorsFitTheEmbedder
  /\ ChunksHaveTheirObservation
  /\ WorkerIsBroughtBack
=============================================================================
