------------------------------ MODULE Migration ------------------------------
(***************************************************************************)
(* Bringing a claude-mem database over: the rows of its two tables become  *)
(* documents with chunks and vectors, a batch of rows for one embedding    *)
(* call, a row marked when all of it is written.  Every write is a         *)
(* statement of its own, so a kill or a failing statement may fall between *)
(* any two, and the command is then run again.  A row is <<kind, id>>.     *)
(***************************************************************************)
EXTENDS Integers, Sequences, FiniteSets

CONSTANTS
  SourceRow,      \* the rows claude-mem may come to hold
  Pieces,         \* how many chunks each of them makes
  BatchSize,      \* rows embedded together
  Limits,         \* the values --limit is given; NoLimit is none
  MaxMigrations   \* bound on runs of the command

NoLimit == -1

ASSUME MigrationAssumption ==
  /\ SourceRow \subseteq {"observation", "summary"} \X Nat /\ Pieces \in [SourceRow -> Nat]
  /\ BatchSize \in Nat \ {0} /\ Limits \subseteq Nat /\ MaxMigrations \in Nat

VARIABLES
  inSource,       \* rows of the source database
  migrated,       \* migration_progress
  documents,      \* rows that have a document
  chunks,         \* the chunk ids of each document
  vectors,        \* the chunk ids that have a vector
  importer,       \* the run that is under way
  migrations      \* runs so far (bound); makes chunk ids new

storedVars == <<documents, chunks, vectors, migrated>>
migrationVars == <<inSource, migrated, documents, chunks, vectors, importer, migrations>>

Of(kind, rows) == {r \in rows : r[1] = kind}
RowsFrom(kind, fromId) == {r \in Of(kind, inSource) : r[2] >= fromId}
NewChunks(row) == {<<row, migrations, i>> : i \in 1..Pieces[row]}

NotMigrating == [at |-> "none"]
(* `refused` is a ghost: the rows whose own document failed. *)
NewRun(dry, limit, fromId) ==
  [at |-> "scan", kind |-> "observation", todo |-> RowsFrom("observation", fromId),
   batch |-> <<>>, together |-> FALSE, room |-> limit, limited |-> limit # NoLimit, dry |-> dry, fromId |-> fromId,
   errors |-> 0, refused |-> {}, scope |-> {r \in inSource : r[2] >= fromId}]

HasRoom(run) == run.room # 0
OneLess(room) == IF room = NoLimit THEN NoLimit ELSE room - 1

Running(at) == importer.at = at
Go(at) == importer' = [importer EXCEPT !.at = at]
Row == Head(importer.batch)

-----------------------------------------------------------------------------
(* The scan                                                                *)

StartMigration ==
  /\ importer.at \in {"none", "ended"} /\ migrations < MaxMigrations
  /\ \E dry \in BOOLEAN, limit \in Limits \union {NoLimit}, fromId \in {0, 2} :
       importer' = NewRun(dry, limit, fromId)
  /\ migrations' = migrations + 1
  /\ UNCHANGED <<inSource, storedVars>>

(* The rows come by their time of creation, which is any order of them.  A row already marked is skipped, one
   without text is marked at once, any other joins the batch. *)
ScanRow ==
  /\ Running("scan") /\ HasRoom(importer)
  /\ \E row \in importer.todo :
       LET rest == [importer EXCEPT !.todo = @ \ {row}]
       IN  \/ /\ row \in migrated
              /\ importer' = rest /\ UNCHANGED migrated
           \/ /\ row \notin migrated /\ Pieces[row] = 0
              /\ importer' = rest /\ migrated' = IF importer.dry THEN migrated ELSE migrated \union {row}
           \/ /\ row \notin migrated /\ Pieces[row] > 0
              /\ importer' = [rest EXCEPT !.batch = Append(@, row), !.room = OneLess(@),
                                !.at = IF Len(importer.batch) + 1 >= BatchSize THEN "flush" ELSE "scan"]
              /\ UNCHANGED migrated
  /\ UNCHANGED <<inSource, documents, chunks, vectors, migrations>>

(* The last batch of a table is flushed, then the summaries are read as they are by now. *)
EndTable ==
  /\ Running("scan") /\ (importer.todo = {} \/ ~HasRoom(importer))
  /\ \/ importer.batch # <<>> /\ Go("flush")
     \/ /\ importer.batch = <<>> /\ importer.kind = "observation" /\ HasRoom(importer)
        /\ importer' = [importer EXCEPT !.kind = "summary", !.todo = RowsFrom("summary", importer.fromId)]
     \/ importer.batch = <<>> /\ (importer.kind = "summary" \/ ~HasRoom(importer)) /\ Go("ended")
  /\ UNCHANGED <<inSource, storedVars, migrations>>

-----------------------------------------------------------------------------
(* A batch                                                                 *)

(* Mutant: when the call for the batch fails, its documents are given up. *)
EmbedBatchOnly ==
  /\ Running("flush")
  /\ IF importer.dry
     THEN importer' = [importer EXCEPT !.batch = <<>>, !.at = "scan"]
     ELSE \E answered \in BOOLEAN :
            importer' = IF answered THEN [importer EXCEPT !.together = TRUE, !.at = "document"]
                        ELSE [importer EXCEPT !.batch = <<>>, !.at = "scan"]
  /\ UNCHANGED <<inSource, storedVars, migrations>>

(* One call embeds all of it; when that fails every document is embedded alone. *)
EmbedBatch ==
  /\ Running("flush")
  /\ IF importer.dry
     THEN importer' = [importer EXCEPT !.batch = <<>>, !.at = "scan"]
     ELSE \E answered \in BOOLEAN : importer' = [importer EXCEPT !.together = answered, !.at = "document"]
  /\ UNCHANGED <<inSource, storedVars, migrations>>

(* On to the next document, or back to the scan. *)
NextDocument(run) ==
  LET rest == Tail(run.batch)
  IN  [run EXCEPT !.batch = rest, !.at = IF rest = <<>> THEN "scan" ELSE "document"]

(* Embedding alone may fail, vectors may be unusable, and so may any statement: the document waits for the next run. *)
SkipDocument ==
  /\ importer.at \in {"document", "upsert", "replace", "add", "mark"}
  /\ importer' = NextDocument([importer EXCEPT !.errors = @ + 1, !.refused = @ \union {Row}])
  /\ UNCHANGED <<inSource, storedVars, migrations>>

(* The vectors of what an earlier run left of the document. *)
Superseded(row) == IF row \in documents THEN chunks[row] ELSE {}

DropOldVectors ==
  /\ Running("document")
  /\ vectors' = vectors \ Superseded(Row)
  /\ Go("upsert")
  /\ UNCHANGED <<inSource, migrated, documents, chunks, migrations>>

UpsertDocument ==
  /\ Running("upsert")
  /\ documents' = documents \union {Row}
  /\ Go("replace")
  /\ UNCHANGED <<inSource, migrated, chunks, vectors, migrations>>

ReplaceChunks ==
  /\ Running("replace")
  /\ chunks' = [chunks EXCEPT ![Row] = NewChunks(Row)]
  /\ Go("add")
  /\ UNCHANGED <<inSource, migrated, documents, vectors, migrations>>

AddVectors ==
  /\ Running("add")
  /\ vectors' = vectors \union chunks[Row]
  /\ Go("mark")
  /\ UNCHANGED <<inSource, migrated, documents, chunks, migrations>>

MarkDone ==
  /\ Running("mark")
  /\ migrated' = migrated \union {Row}
  /\ importer' = NextDocument(importer)
  /\ UNCHANGED <<inSource, documents, chunks, vectors, migrations>>

-----------------------------------------------------------------------------
(* A statement of the scan fails: the run reports it and ends with its batch unwritten. *)
AbortRun ==
  /\ importer.at \in {"scan", "flush"}
  /\ importer' = [importer EXCEPT !.at = "ended", !.errors = @ + 1,
                    !.refused = importer.scope \ migrated]
  /\ UNCHANGED <<inSource, storedVars, migrations>>

KillMigration ==
  /\ importer.at \notin {"none", "ended"}
  /\ importer' = NotMigrating
  /\ UNCHANGED <<inSource, storedVars, migrations>>

(* claude-mem goes on writing rows of its own. *)
RowArrives ==
  /\ \E row \in SourceRow \ inSource : inSource' = inSource \union {row}
  /\ UNCHANGED <<storedVars, importer, migrations>>

MigrationInit ==
  /\ inSource \in SUBSET SourceRow
  /\ migrated = {} /\ documents = {} /\ vectors = {}
  /\ chunks = [r \in SourceRow |-> {}]
  /\ importer = NotMigrating /\ migrations = 0

MigrationNext ==
  \/ StartMigration \/ ScanRow \/ EndTable \/ EmbedBatch \/ SkipDocument \/ DropOldVectors \/ UpsertDocument
  \/ ReplaceChunks \/ AddVectors \/ MarkDone \/ AbortRun \/ KillMigration \/ RowArrives

MigrationSpec == MigrationInit /\ [][MigrationNext]_migrationVars

-----------------------------------------------------------------------------
(* The variables keep their types. *)
MigrationTypeOK ==
  /\ inSource \subseteq SourceRow /\ migrated \subseteq inSource /\ documents \subseteq inSource
  /\ \A r \in SourceRow : chunks[r] \subseteq {<<r, n, i>> : n \in 1..MaxMigrations, i \in 1..Pieces[r]}
  /\ \A v \in vectors : v[1] \in inSource /\ v[3] \in 1..Pieces[v[1]]
  /\ importer.at \in {"none", "scan", "flush", "document", "upsert", "replace", "add", "mark", "ended"}
  /\ migrations \in 0..MaxMigrations

(* Whatever was killed or failed before, no vector outlives its chunk, and a row that is marked (and so never looked
   at again) is in the index whole. *)
MarkedRowsAreWhole ==
  /\ vectors \subseteq UNION {chunks[r] : r \in documents}
  /\ \A r \in migrated : /\ Pieces[r] > 0 => r \in documents
                         /\ Cardinality(chunks[r] \intersect vectors) = Pieces[r]

(* A run that was given no limit and came to its end leaves a row behind only when that row itself failed (or
   the scan was cut short): one bad document, or a refused embedding call for a whole batch, costs the others nothing. *)
OnlyFailuresAreLeft ==
  (importer.at = "ended" /\ ~importer.dry /\ ~importer.limited) =>
    /\ importer.scope \ migrated \subseteq importer.refused
    /\ importer.errors = 0 => importer.scope \subseteq migrated

(* Both: a migration that is run again until it reports no error has brought everything over, once. *)
MigrationIsWhole == MarkedRowsAreWhole /\ OnlyFailuresAreLeft
=============================================================================
