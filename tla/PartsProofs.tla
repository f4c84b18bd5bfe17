----------------------------- MODULE PartsProofs -----------------------------
(***************************************************************************)
(* The invariants of ten parts that share nothing, with the proofs that    *)
(* their steps keep them: the plugin cache, for any sessions, hooks and    *)
(* releases; the migration, for any source, batch and limits; the          *)
(* clusters, for any embeddings, chunks and limits; installing and         *)
(* uninstalling, for any number of runs; the promotion, for any rows; the  *)
(* deploy guard, for any sessions, hosts and commands; connecting a tool,  *)
(* for any checkouts, entries and number of connects; backup and restore,  *)
(* for any rows, models, set-ups and number of commands; folds and themes, *)
(* for any rows, jobs and number of passes; the embedder's budget, for any *)
(* callers, requests, ring and limits.  MCPartsProofs draws the theorems   *)
(* about MCParts from them.                                                *)
(***************************************************************************)
EXTENDS Migration, PluginCache, VectorClusters, Installation, ObservationUpkeep, CrossAi, DeployGuard, BackupRestore,
        ObservationStore, EmbedderMeter, FiniteSetTheorems, SequenceTheorems, WellFoundedInduction, TLAPS

-----------------------------------------------------------------------------
(* The plugin cache                                                        *)

(* The trees nobody may need are behind the active one: none is ahead of it, so what a plan has named is behind it and
   stays behind, and no session runs from a tree that is planned to go. *)
CacheIsKept ==
  /\ active <= checkout
  /\ tree[active] = "kept"
  /\ \A v \in CacheVersion : active < v => tree[v] = "none"
  /\ \A v \in doomed : v < active
  /\ \A s \in Claude : loaded[s] # 0 => tree[loaded[s]] # "none" /\ loaded[s] \notin doomed

CacheInv == CacheTypeOK /\ CacheIsKept

(* A cache begins so: one tree, and it is the active one. *)
LEMMA CacheBegins ==
  ASSUME CacheInit
  PROVE  CacheInv
BY PluginCacheAssumption DEF CacheInit, CacheInv, CacheTypeOK, CacheIsKept, CacheVersion

(* Every step of the plugin cache keeps it so. *)
LEMMA CacheStep ==
  ASSUME CacheInv, [CacheNext]_cacheVars
  PROVE  CacheInv'
<1> USE PluginCacheAssumption DEF CacheInv, CacheTypeOK, CacheIsKept, CacheVersion
<1>1. CASE CheckoutMoves
  BY <1>1 DEF CheckoutMoves
<1>2. ASSUME NEW s \in Claude, SessionLoads(s)
      PROVE  CacheInv'
  BY <1>2 DEF SessionLoads
<1>3. ASSUME NEW s \in Claude, SessionEnds(s)
      PROVE  CacheInv'
  BY <1>3 DEF SessionEnds
<1>4. ASSUME NEW v \in CacheVersion, GracePasses(v)
      PROVE  CacheInv'
  BY <1>4 DEF GracePasses
<1>5. ASSUME NEW h \in Refresher, RefreshBegins(h)
      PROVE  CacheInv'
  BY <1>5 DEF RefreshBegins
<1>6. ASSUME NEW h \in Refresher, MarketplaceUpdate(h)
      PROVE  CacheInv'
  BY <1>6 DEF MarketplaceUpdate
<1>7. ASSUME NEW h \in Refresher, PluginUpdate(h)
      PROVE  CacheInv'
  <2>1. CASE UNCHANGED <<active, tree>>
    BY <1>7, <2>1 DEF PluginUpdate
  <2>2. CASE /\ active' = checkout
             /\ tree' = [v \in CacheVersion |-> IF v = checkout THEN "kept"
                                           ELSE IF v = active THEN "orphaned" ELSE tree[v]]
    BY <1>7, <2>2 DEF PluginUpdate
  <2> QED
    BY <1>7, <2>1, <2>2 DEF PluginUpdate
<1>8. ASSUME NEW h \in Refresher, HookKilled(h)
      PROVE  CacheInv'
  BY <1>8 DEF HookKilled
<1>9. CASE PlanPrune
  BY <1>9 DEF PlanPrune, Prunable, LivePins
<1>10. ASSUME NEW v \in CacheVersion, RemoveCacheTree(v)
       PROVE  CacheInv'
  BY <1>10 DEF RemoveCacheTree
<1>11. CASE UNCHANGED cacheVars
  BY <1>11 DEF cacheVars
<1> QED
  BY <1>1, <1>2, <1>3, <1>4, <1>5, <1>6, <1>7, <1>8, <1>9, <1>10, <1>11 DEF CacheNext

-----------------------------------------------------------------------------
(* A migration                                                             *)

(* Where a document is on its way into the index. *)
DocumentStages == {"document", "upsert", "replace", "add", "mark"}

MigrationRun ==
  [at : {"scan", "flush", "ended"} \union DocumentStages, kind : {"observation", "summary"}, todo : SUBSET SourceRow,
   batch : Seq(SourceRow), together : BOOLEAN, room : Int, limited : BOOLEAN, dry : BOOLEAN, fromId : {0, 2},
   errors : Nat, refused : SUBSET SourceRow, scope : SUBSET SourceRow]

RowsOf(batch) == {batch[i] : i \in 1..Len(batch)}
Distinct(batch) == \A i, j \in 1..Len(batch) : i # j => batch[i] # batch[j]

(* What is stored is of the rows there are; a chunk is of its own row. *)
StoredRowsAreSound ==
  /\ inSource \subseteq SourceRow /\ migrated \subseteq inSource /\ documents \subseteq inSource
  /\ chunks = [r \in SourceRow |-> chunks[r]]
  /\ \A r \in SourceRow : chunks[r] \subseteq {<<r, n, i>> : n \in 1..MaxMigrations, i \in 1..Pieces[r]}
  /\ migrations \in 0..MaxMigrations

(* The rows a run begins with are those from its first id. *)
RowsWanted(run, source) == {r \in source : r[2] >= run.fromId}

(* The rows of a batch are rows of the source nothing has marked yet, each once, with text, and not to be scanned again. *)
BatchIsSound(run, source, marked) ==
  /\ run.todo \subseteq Of(run.kind, source) /\ run.scope \subseteq RowsWanted(run, source)
  /\ RowsOf(run.batch) \subseteq source \ (marked \union run.todo)
  /\ \A r \in RowsOf(run.batch) : Pieces[r] > 0
  /\ Distinct(run.batch)
  /\ run.at \in {"flush"} \union DocumentStages => run.batch # <<>>
  /\ run.at \in DocumentStages => ~run.dry
  /\ run.room = NoLimit <=> ~run.limited
  /\ run.errors = 0 => run.refused = {}

(* How far the first document of the batch is. *)
DocumentIsUnderWay ==
  /\ importer.at \in {"upsert", "replace"} => chunks[Row] \intersect vectors = {}
  /\ importer.at \in {"replace", "add", "mark"} => Row \in documents
  /\ importer.at \in {"add", "mark"} => chunks[Row] = NewChunks(Row)
  /\ importer.at = "mark" => chunks[Row] \subseteq vectors

(* The rows a run still has to come to. *)
Ahead(run) ==
  RowsOf(run.batch) \union run.todo \union (IF run.kind = "observation" THEN Of("summary", run.scope) ELSE {})

(* A run that writes and has no limit passes no row by. *)
NothingIsMissed(run, marked) ==
  ~run.dry /\ ~run.limited =>
    run.scope \ marked \subseteq run.refused \union (IF run.at = "ended" THEN {} ELSE Ahead(run))

RunIsSound ==
  /\ importer \in MigrationRun /\ migrations > 0
  /\ BatchIsSound(importer, inSource, migrated)
  /\ DocumentIsUnderWay
  /\ NothingIsMissed(importer, migrated)

MigrationInv ==
  /\ StoredRowsAreSound
  /\ MarkedRowsAreWhole
  /\ importer = NotMigrating \/ RunIsSound

(* A row makes as many chunks as it has pieces. *)
LEMMA ChunksAreCounted ==
  ASSUME NEW row \in SourceRow, migrations \in Nat
  PROVE  Cardinality(NewChunks(row)) = Pieces[row]
<1>1. Pieces[row] \in Nat
  BY MigrationAssumption
<1>2. IsFiniteSet(1..Pieces[row]) /\ Cardinality(1..Pieces[row]) = Pieces[row]
  <2>1. /\ IsFiniteSet(1..Pieces[row])
        /\ Cardinality(1..Pieces[row]) = IF 1 > Pieces[row] THEN 0 ELSE Pieces[row] - 1 + 1
    <3>1. 1 \in Int /\ Pieces[row] \in Int
      BY <1>1
    <3> QED
      BY <3>1, FS_Interval, Zenon
  <2> QED
    BY <1>1, <2>1
<1> DEFINE chunk == [i \in 1..Pieces[row] |-> <<row, migrations, i>>]
<1>3. chunk \in Bijection(1..Pieces[row], NewChunks(row))
  <2>1. chunk \in Surjection(1..Pieces[row], NewChunks(row))
    BY DEF Surjection, NewChunks
  <2>2. chunk \in Injection(1..Pieces[row], NewChunks(row))
    BY DEF Injection, IsInjective, NewChunks
  <2> QED
    BY <2>1, <2>2 DEF Bijection
<1>4. ExistsBijection(1..Pieces[row], NewChunks(row))
  BY <1>3, Zenon DEF ExistsBijection
<1> QED
  BY <1>2, <1>4, FS_Bijection

(* A row that is put to a batch it is not in. *)
LEMMA BatchGrows ==
  ASSUME NEW batch \in Seq(SourceRow), NEW row \in SourceRow, Distinct(batch), row \notin RowsOf(batch)
  PROVE  /\ Append(batch, row) \in Seq(SourceRow) /\ Append(batch, row) # <<>>
         /\ RowsOf(Append(batch, row)) = RowsOf(batch) \union {row}
         /\ Distinct(Append(batch, row))
<1> DEFINE more == Append(batch, row)
<1>1. /\ Len(more) = Len(batch) + 1 /\ Len(batch) \in Nat
      /\ \A i \in 1..Len(batch) : more[i] = batch[i]
      /\ more[Len(batch) + 1] = row
  OBVIOUS
<1>2. RowsOf(more) = RowsOf(batch) \union {row}
  BY <1>1 DEF RowsOf
<1>3. Distinct(more)
  BY <1>1 DEF RowsOf, Distinct
<1> QED
  BY <1>1, <1>2, <1>3

(* The first row of a batch leaves it. *)
LEMMA BatchShrinks ==
  ASSUME NEW batch \in Seq(SourceRow), batch # <<>>, Distinct(batch)
  PROVE  /\ Tail(batch) \in Seq(SourceRow) /\ Head(batch) \in RowsOf(batch)
         /\ RowsOf(Tail(batch)) = RowsOf(batch) \ {Head(batch)}
         /\ Distinct(Tail(batch))
<1> DEFINE rest == Tail(batch)
<1>1. /\ Len(batch) \in Nat \ {0} /\ Len(rest) = Len(batch) - 1
      /\ \A i \in 1..Len(rest) : rest[i] = batch[i + 1]
      /\ Head(batch) = batch[1]
  OBVIOUS
<1>2. Head(batch) \in RowsOf(batch)
  BY <1>1 DEF RowsOf
<1>3. RowsOf(rest) = RowsOf(batch) \ {Head(batch)}
  <2>1. ASSUME NEW i \in 1..Len(rest)
        PROVE  rest[i] \in RowsOf(batch) \ {Head(batch)}
    BY <1>1, <2>1 DEF RowsOf, Distinct
  <2>2. ASSUME NEW i \in 1..Len(batch), batch[i] # Head(batch)
        PROVE  batch[i] \in RowsOf(rest)
    <3>1. i - 1 \in 1..Len(rest) /\ rest[i - 1] = batch[i]
      BY <1>1, <2>2
    <3> QED
      BY <3>1 DEF RowsOf
  <2> QED
    BY <2>1, <2>2 DEF RowsOf
<1>4. Distinct(rest)
  BY <1>1 DEF Distinct
<1> QED
  BY <1>2, <1>3, <1>4

(* A document that is written, or given up with a mark in `refused`, leaves its batch and nothing is passed by. *)
LEMMA NextDocumentIsSound ==
  ASSUME NEW run \in MigrationRun, NEW source, NEW marked, NEW marked2,
         run.at \in DocumentStages, BatchIsSound(run, source, marked), NothingIsMissed(run, marked),
         marked \subseteq marked2, marked2 \subseteq marked \union {Head(run.batch)},
         Head(run.batch) \in marked2 \union run.refused
  PROVE  LET next == NextDocument(run)
         IN  /\ next \in MigrationRun /\ next.at \in {"scan", "document"}
             /\ BatchIsSound(next, source, marked2) /\ NothingIsMissed(next, marked2)
<1> DEFINE next == NextDocument(run)
           rest == Tail(run.batch)
<1>1. run.batch \in Seq(SourceRow) /\ run.batch # <<>> /\ Distinct(run.batch)
  BY DEF MigrationRun, BatchIsSound
<1>2. /\ rest \in Seq(SourceRow) /\ Head(run.batch) \in RowsOf(run.batch)
      /\ RowsOf(rest) = RowsOf(run.batch) \ {Head(run.batch)}
      /\ Distinct(rest)
  BY <1>1, BatchShrinks
<1>3. /\ next \in MigrationRun /\ next.at \in {"scan", "document"}
      /\ next.batch = rest
      /\ next.at = "document" => rest # <<>>
      /\ next.todo = run.todo /\ next.scope = run.scope /\ next.kind = run.kind /\ next.dry = run.dry
      /\ next.fromId = run.fromId
      /\ next.room = run.room /\ next.limited = run.limited /\ next.errors = run.errors /\ next.refused = run.refused
  BY <1>2 DEF NextDocument, MigrationRun, DocumentStages
<1>4. BatchIsSound(next, source, marked2)
  <2>1. RowsOf(rest) \subseteq source \ (marked2 \union run.todo)
    BY <1>2 DEF BatchIsSound
  <2> QED
    BY <1>2, <1>3, <2>1, BatchIsSound(run, source, marked) DEF BatchIsSound, DocumentStages, RowsWanted
<1>5. NothingIsMissed(next, marked2)
  <2>1. Ahead(run) \subseteq Ahead(next) \union {Head(run.batch)}
    BY <1>2, <1>3 DEF Ahead
  <2>2. run.at # "ended" /\ next.at # "ended"
    BY <1>3 DEF DocumentStages
  <2> QED
    BY <1>3, <2>1, <2>2 DEF NothingIsMissed
<1> QED
  BY <1>3, <1>4, <1>5

(* Before the first run nothing is stored. *)
LEMMA MigrationBegins ==
  ASSUME MigrationInit
  PROVE  MigrationInv
BY MigrationAssumption DEF MigrationInit, MigrationInv, StoredRowsAreSound, MarkedRowsAreWhole

(* A run that is under way is sound. *)
LEMMA RunUnderWay ==
  ASSUME MigrationInv, importer.at # "none"
  PROVE  RunIsSound /\ StoredRowsAreSound /\ MarkedRowsAreWhole
BY DEF MigrationInv, NotMigrating

(* A step that writes nothing leaves what is stored sound. *)
LEMMA NothingIsWritten ==
  ASSUME StoredRowsAreSound, MarkedRowsAreWhole, UNCHANGED <<inSource, storedVars, migrations>>
  PROVE  StoredRowsAreSound' /\ MarkedRowsAreWhole'
BY DEF StoredRowsAreSound, MarkedRowsAreWhole, storedVars

(* An empty batch has no row. *)
LEMMA EmptyBatch == RowsOf(<<>>) = {} /\ Distinct(<<>>) /\ <<>> \in Seq(SourceRow)
BY DEF RowsOf, Distinct

(* A run begins with the observations of the source, and knows which rows it is to bring over. *)
LEMMA StartKeepsInv ==
  ASSUME MigrationInv, StartMigration
  PROVE  MigrationInv'
<1> USE MigrationAssumption
<1>1. StoredRowsAreSound' /\ MarkedRowsAreWhole'
  <2>1. UNCHANGED <<inSource, storedVars>> /\ migrations' = migrations + 1 /\ migrations < MaxMigrations
    BY DEF StartMigration
  <2>2. migrations' \in 0..MaxMigrations
    BY <2>1 DEF MigrationInv, StoredRowsAreSound
  <2> QED
    BY <2>1, <2>2 DEF MigrationInv, StoredRowsAreSound, MarkedRowsAreWhole, storedVars
<1>2. PICK dry \in BOOLEAN, limit \in Limits \union {NoLimit}, fromId \in {0, 2} : importer' = NewRun(dry, limit, fromId)
  BY Zenon DEF StartMigration
<1>3. inSource \subseteq SourceRow /\ migrations \in Nat /\ UNCHANGED <<inSource, migrated>> /\ migrations' = migrations + 1
  BY DEF MigrationInv, StartMigration, StoredRowsAreSound, storedVars
<1>4. NewRun(dry, limit, fromId) \in MigrationRun
  <2>1. RowsFrom("observation", fromId) \in SUBSET SourceRow /\ {r \in inSource : r[2] >= fromId} \in SUBSET SourceRow
    BY <1>3 DEF RowsFrom, Of
  <2>2. limit \in Int /\ (limit # NoLimit) \in BOOLEAN
    BY DEF NoLimit
  <2> QED
    BY <2>1, <2>2 DEF NewRun, MigrationRun
<1>5. BatchIsSound(NewRun(dry, limit, fromId), inSource, migrated)
  <2> DEFINE new == NewRun(dry, limit, fromId)
  <2>1. /\ new.batch = <<>> /\ new.at = "scan" /\ new.todo = RowsFrom(new.kind, fromId) /\ new.scope = RowsWanted(new, inSource)
        /\ new.room = limit /\ new.limited = (limit # NoLimit) /\ new.errors = 0 /\ new.refused = {}
    BY DEF NewRun, RowsWanted
  <2> QED
    BY <2>1, EmptyBatch DEF BatchIsSound, RowsFrom, Of, DocumentStages
<1>6. NothingIsMissed(NewRun(dry, limit, fromId), migrated)
  <2>1. \A r \in inSource : r[1] \in {"observation", "summary"}
    BY <1>3
  <2> QED
    BY <2>1 DEF NothingIsMissed, NewRun, Ahead, RowsFrom, Of
<1>7. importer'.at = "scan"
  BY <1>2 DEF NewRun
<1> QED
  BY <1>1, <1>2, <1>3, <1>4, <1>5, <1>6, <1>7 DEF MigrationInv, RunIsSound, DocumentIsUnderWay

(* A row is scanned. *)
LEMMA ScanKeepsInv ==
  ASSUME MigrationInv, ScanRow
  PROVE  MigrationInv'
<1> USE MigrationAssumption
<1>1. importer.at = "scan" /\ importer.room # 0
  BY DEF ScanRow, Running, HasRoom
<1>2. RunIsSound /\ StoredRowsAreSound /\ MarkedRowsAreWhole
  BY <1>1, RunUnderWay
<1>3. PICK row \in importer.todo :
        LET rest == [importer EXCEPT !.todo = @ \ {row}]
        IN  \/ /\ row \in migrated
               /\ importer' = rest /\ UNCHANGED migrated
            \/ /\ row \notin migrated /\ Pieces[row] = 0
               /\ importer' = rest /\ migrated' = IF importer.dry THEN migrated ELSE migrated \union {row}
            \/ /\ row \notin migrated /\ Pieces[row] > 0
               /\ importer' = [rest EXCEPT !.batch = Append(@, row), !.room = OneLess(@),
                                 !.at = IF Len(importer.batch) + 1 >= BatchSize THEN "flush" ELSE "scan"]
               /\ UNCHANGED migrated
  BY DEF ScanRow
<1>4. UNCHANGED <<inSource, documents, chunks, vectors, migrations>>
  BY DEF ScanRow
<1>5. /\ importer \in MigrationRun /\ row \in inSource /\ row \in SourceRow /\ inSource \subseteq SourceRow
      /\ BatchIsSound(importer, inSource, migrated) /\ NothingIsMissed(importer, migrated) /\ migrations > 0
  BY <1>2 DEF RunIsSound, StoredRowsAreSound, BatchIsSound, Of
<1>6. ASSUME importer' = [importer EXCEPT !.todo = @ \ {row}], row \in migrated', migrated \subseteq migrated',
             migrated' \subseteq migrated \union {row}
      PROVE  RunIsSound'
  <2> DEFINE rest == [importer EXCEPT !.todo = @ \ {row}]
  <2>1. rest \in MigrationRun /\ rest.at = "scan"
    BY <1>1, <1>5 DEF MigrationRun
  <2>2. BatchIsSound(rest, inSource, migrated')
    BY <1>1, <1>5, <1>6 DEF BatchIsSound, MigrationRun, DocumentStages, Of, RowsWanted
  <2>3. NothingIsMissed(rest, migrated')
    BY <1>1, <1>5, <1>6 DEF NothingIsMissed, MigrationRun, Ahead
  <2> QED
    BY <1>4, <1>5, <1>6, <2>1, <2>2, <2>3 DEF RunIsSound, DocumentIsUnderWay
<1>7. ASSUME importer' = [importer EXCEPT !.todo = @ \ {row}], UNCHANGED migrated, importer.dry
      PROVE  RunIsSound'
  <2> DEFINE rest == [importer EXCEPT !.todo = @ \ {row}]
  <2>1. rest \in MigrationRun /\ rest.at = "scan" /\ rest.dry
    BY <1>1, <1>5, <1>7 DEF MigrationRun
  <2>2. BatchIsSound(rest, inSource, migrated)
    BY <1>1, <1>5, <1>7 DEF BatchIsSound, MigrationRun, DocumentStages, Of, RowsWanted
  <2> QED
    BY <1>4, <1>5, <1>7, <2>1, <2>2 DEF RunIsSound, DocumentIsUnderWay, NothingIsMissed
<1>8. ASSUME row \notin migrated, Pieces[row] > 0, UNCHANGED migrated,
             importer' = [importer EXCEPT !.todo = @ \ {row}, !.batch = Append(@, row), !.room = OneLess(@),
                            !.at = IF Len(importer.batch) + 1 >= BatchSize THEN "flush" ELSE "scan"]
      PROVE  RunIsSound'
  <2> DEFINE more == Append(importer.batch, row)
  <2>1. importer.batch \in Seq(SourceRow) /\ Distinct(importer.batch) /\ row \notin RowsOf(importer.batch)
    BY <1>5 DEF MigrationRun, BatchIsSound
  <2>2. more \in Seq(SourceRow) /\ more # <<>> /\ RowsOf(more) = RowsOf(importer.batch) \union {row} /\ Distinct(more)
    BY <1>5, <2>1, BatchGrows
  <2>3. OneLess(importer.room) \in Int /\ (OneLess(importer.room) = NoLimit <=> importer.room = NoLimit)
    BY <1>1, <1>5 DEF OneLess, NoLimit, MigrationRun
  <2>4. /\ importer' \in MigrationRun /\ importer'.at \in {"scan", "flush"}
        /\ importer'.batch = more /\ importer'.todo = importer.todo \ {row} /\ importer'.room = OneLess(importer.room)
        /\ importer'.kind = importer.kind /\ importer'.scope = importer.scope /\ importer'.dry = importer.dry
        /\ importer'.fromId = importer.fromId
        /\ importer'.limited = importer.limited /\ importer'.errors = importer.errors
        /\ importer'.refused = importer.refused
    BY <1>5, <1>8, <2>2, <2>3 DEF MigrationRun
  <2>5. BatchIsSound(importer', inSource, migrated)
    BY <1>1, <1>5, <1>8, <2>2, <2>3, <2>4 DEF BatchIsSound, DocumentStages, Of, RowsWanted
  <2>6. NothingIsMissed(importer', migrated)
    BY <1>1, <1>5, <2>2, <2>4 DEF NothingIsMissed, Ahead
  <2> QED
    BY <1>4, <1>5, <1>8, <2>4, <2>5, <2>6 DEF RunIsSound, DocumentIsUnderWay
<1>9. RunIsSound'
  <2>1. CASE row \in migrated /\ importer' = [importer EXCEPT !.todo = @ \ {row}] /\ UNCHANGED migrated
    BY <1>6, <2>1
  <2>2. CASE /\ row \notin migrated /\ importer' = [importer EXCEPT !.todo = @ \ {row}]
             /\ migrated' = IF importer.dry THEN migrated ELSE migrated \union {row}
    BY <1>6, <1>7, <2>2
  <2> QED
    BY <1>3, <1>8, <2>1, <2>2
<1>10. StoredRowsAreSound' /\ MarkedRowsAreWhole'
  <2>1. \A r \in migrated' : r \in migrated \/ (r = row /\ Pieces[row] = 0)
    BY <1>3
  <2>2. Pieces[row] = 0 => Cardinality(chunks[row] \intersect vectors) = 0
    <3>1. Pieces[row] = 0 => chunks[row] = {}
      BY <1>2, <1>5 DEF StoredRowsAreSound
    <3> QED
      BY <3>1, FS_EmptySet
  <2>3. migrated' \subseteq inSource
    BY <1>2, <1>5, <2>1 DEF StoredRowsAreSound
  <2>4. StoredRowsAreSound'
    BY <1>2, <1>4, <2>3 DEF StoredRowsAreSound
  <2>5. ASSUME NEW r \in migrated'
        PROVE  (Pieces[r] > 0 => r \in documents) /\ Cardinality(chunks[r] \intersect vectors) = Pieces[r]
    <3>1. CASE r \in migrated
      BY <1>2, <3>1, Zenon DEF MarkedRowsAreWhole
    <3>2. CASE r = row /\ Pieces[row] = 0
      BY <2>2, <3>2
    <3> QED
      BY <2>1, <3>1, <3>2
  <2>6. vectors \subseteq UNION {chunks[r] : r \in documents}
    BY <1>2 DEF MarkedRowsAreWhole
  <2> QED
    BY <1>4, <2>4, <2>5, <2>6 DEF MarkedRowsAreWhole
<1> QED
  BY <1>9, <1>10 DEF MigrationInv

(* The scan of a table ends: with a last batch, with the other table, or with the run. *)
LEMMA EndTableKeepsInv ==
  ASSUME MigrationInv, EndTable
  PROVE  MigrationInv'
<1>1. importer.at = "scan" /\ UNCHANGED <<inSource, storedVars, migrations>>
  BY DEF EndTable, Running
<1>2. RunIsSound /\ StoredRowsAreSound /\ MarkedRowsAreWhole
  BY <1>1, RunUnderWay
<1>3. /\ importer \in MigrationRun /\ BatchIsSound(importer, inSource, migrated) /\ NothingIsMissed(importer, migrated)
      /\ UNCHANGED migrated /\ inSource \subseteq SourceRow
  BY <1>1, <1>2 DEF RunIsSound, storedVars, StoredRowsAreSound
<1>4. ASSUME importer.batch # <<>>, Go("flush")
      PROVE  RunIsSound'
  <2> DEFINE next == [importer EXCEPT !.at = "flush"]
  <2>1. next \in MigrationRun /\ next.at = "flush"
    BY <1>3 DEF MigrationRun
  <2>2. BatchIsSound(next, inSource, migrated)
    BY <1>3, <1>4 DEF BatchIsSound, MigrationRun, DocumentStages, RowsWanted
  <2>3. NothingIsMissed(next, migrated)
    BY <1>1, <1>3 DEF NothingIsMissed, MigrationRun, Ahead
  <2>4. importer' = next
    BY <1>4 DEF Go
  <2> QED
    BY <1>1, <1>2, <1>3, <2>1, <2>2, <2>3, <2>4 DEF RunIsSound, DocumentIsUnderWay
<1>5. ASSUME importer.batch = <<>>, importer.kind = "observation", HasRoom(importer),
             importer' = [importer EXCEPT !.kind = "summary", !.todo = RowsFrom("summary", importer.fromId)]
      PROVE  RunIsSound'
  <2> DEFINE rows == RowsFrom("summary", importer.fromId)
             next == [importer EXCEPT !.kind = "summary", !.todo = rows]
  <2>1. rows \subseteq Of("summary", inSource) /\ rows \in SUBSET SourceRow
    BY <1>3 DEF RowsFrom, Of
  <2>2. /\ next \in MigrationRun /\ next.at = "scan" /\ next.batch = <<>> /\ next.todo = rows
        /\ next.kind = "summary" /\ next.scope = importer.scope /\ next.dry = importer.dry /\ next.room = importer.room
        /\ next.fromId = importer.fromId /\ next.limited = importer.limited /\ next.errors = importer.errors /\ next.refused = importer.refused
    BY <1>1, <1>3, <1>5, <2>1 DEF MigrationRun
  <2>3. BatchIsSound(next, inSource, migrated)
    BY <1>3, <2>1, <2>2, EmptyBatch DEF BatchIsSound, DocumentStages, RowsWanted
  <2>4. NothingIsMissed(next, migrated)
    <3>1. importer.todo = {}
      BY <1>5 DEF EndTable
    <3>2. Of("summary", importer.scope) \subseteq rows
      BY <1>3 DEF BatchIsSound, RowsWanted, RowsFrom, Of
    <3>3. Ahead(importer) \subseteq Ahead(next)
      BY <1>5, <2>2, <3>1, <3>2, EmptyBatch DEF Ahead
    <3> QED
      BY <1>1, <1>3, <2>2, <3>3 DEF NothingIsMissed
  <2> QED
    BY <1>1, <1>2, <1>3, <1>5, <2>2, <2>3, <2>4 DEF RunIsSound, DocumentIsUnderWay
<1>6. ASSUME importer.batch = <<>>, importer.kind = "summary" \/ ~HasRoom(importer), Go("ended")
      PROVE  RunIsSound'
  <2> DEFINE next == [importer EXCEPT !.at = "ended"]
  <2>1. /\ next \in MigrationRun /\ next.at = "ended" /\ next.batch = <<>> /\ next.todo = importer.todo
        /\ next.scope = importer.scope /\ next.dry = importer.dry /\ next.limited = importer.limited
        /\ next.refused = importer.refused
    BY <1>3, <1>6 DEF MigrationRun
  <2>2. BatchIsSound(next, inSource, migrated)
    BY <1>3 DEF BatchIsSound, MigrationRun, DocumentStages, RowsWanted
  <2>3. NothingIsMissed(next, migrated)
    <3>1. ASSUME ~importer.limited
          PROVE  Ahead(importer) = {}
      <4>1. HasRoom(importer)
        BY <1>3, <3>1 DEF BatchIsSound, HasRoom, NoLimit
      <4>2. importer.todo = {} /\ importer.kind = "summary"
        BY <1>6, <4>1 DEF EndTable
      <4> QED
        BY <1>6, <4>2, EmptyBatch DEF Ahead
    <3> QED
      BY <1>1, <1>3, <2>1, <3>1 DEF NothingIsMissed
  <2>4. importer' = next
    BY <1>6 DEF Go
  <2> QED
    BY <1>1, <1>2, <1>3, <2>1, <2>2, <2>3, <2>4 DEF RunIsSound, DocumentIsUnderWay
<1>7. RunIsSound'
  BY <1>4, <1>5, <1>6 DEF EndTable
<1> QED
  BY <1>1, <1>2, <1>7, NothingIsWritten DEF MigrationInv

-----------------------------------------------------------------------------
(* A document on its way into the index                                    *)

(* The chunks of two rows are never the same. *)
LEMMA ChunksAreApart ==
  ASSUME StoredRowsAreSound, NEW r \in SourceRow, NEW q \in SourceRow, r # q
  PROVE  chunks[r] \intersect chunks[q] = {}
<1>1. ASSUME NEW c \in chunks[r], c \in chunks[q]
      PROVE  FALSE
  <2>1. PICK n \in 1..MaxMigrations, i \in 1..Pieces[r] : c = <<r, n, i>>
    BY StoredRowsAreSound, <1>1 DEF StoredRowsAreSound
  <2>2. PICK m \in 1..MaxMigrations, j \in 1..Pieces[q] : c = <<q, m, j>>
    BY StoredRowsAreSound, <1>1 DEF StoredRowsAreSound
  <2>3. c[1] = r /\ c[1] = q
    BY <2>1, <2>2
  <2> QED
    BY <2>3
<1> QED
  BY <1>1

(* The document under way is that of a row of the source with text, which nothing has marked. *)
LEMMA RowUnderWay ==
  ASSUME MigrationInv, importer.at \in DocumentStages
  PROVE  /\ RunIsSound /\ StoredRowsAreSound /\ MarkedRowsAreWhole
         /\ importer \in MigrationRun /\ BatchIsSound(importer, inSource, migrated) /\ NothingIsMissed(importer, migrated)
         /\ Row \in inSource \ migrated /\ Row \in SourceRow /\ Pieces[Row] > 0
<1>1. RunIsSound /\ StoredRowsAreSound /\ MarkedRowsAreWhole
  BY RunUnderWay DEF DocumentStages
<1>2. importer \in MigrationRun /\ BatchIsSound(importer, inSource, migrated) /\ NothingIsMissed(importer, migrated)
  BY <1>1 DEF RunIsSound
<1>3. importer.batch \in Seq(SourceRow) /\ importer.batch # <<>> /\ Distinct(importer.batch)
  BY <1>2 DEF MigrationRun, BatchIsSound
<1>4. Row \in RowsOf(importer.batch)
  BY <1>3, BatchShrinks DEF Row
<1> QED
  BY <1>1, <1>2, <1>4 DEF BatchIsSound, StoredRowsAreSound

(* Going on with the same document changes only where it is. *)
LEMMA GoingOnIsSound ==
  ASSUME NEW run \in MigrationRun, NEW source, NEW marked, NEW at \in DocumentStages, run.at \in DocumentStages,
         BatchIsSound(run, source, marked), NothingIsMissed(run, marked)
  PROVE  LET next == [run EXCEPT !.at = at]
         IN  /\ next \in MigrationRun /\ next.at = at /\ next.batch = run.batch
             /\ BatchIsSound(next, source, marked) /\ NothingIsMissed(next, marked)
<1> DEFINE next == [run EXCEPT !.at = at]
<1>1. /\ next \in MigrationRun /\ next.at = at /\ next.batch = run.batch /\ next.todo = run.todo
      /\ next.scope = run.scope /\ next.kind = run.kind /\ next.dry = run.dry /\ next.fromId = run.fromId
      /\ next.room = run.room /\ next.limited = run.limited /\ next.errors = run.errors /\ next.refused = run.refused
  BY DEF MigrationRun
<1>2. BatchIsSound(next, source, marked)
  BY <1>1 DEF BatchIsSound, RowsWanted
<1>3. NothingIsMissed(next, marked)
  BY <1>1 DEF NothingIsMissed, Ahead, DocumentStages
<1> QED
  BY <1>1, <1>2, <1>3

(* The call for a batch is answered or not; either way its documents are written next. *)
LEMMA EmbedKeepsInv ==
  ASSUME MigrationInv, EmbedBatch
  PROVE  MigrationInv'
<1>1. importer.at = "flush" /\ UNCHANGED <<inSource, storedVars, migrations>>
  BY DEF EmbedBatch, Running
<1>2. RunIsSound /\ StoredRowsAreSound /\ MarkedRowsAreWhole
  BY <1>1, RunUnderWay
<1>3. /\ importer \in MigrationRun /\ BatchIsSound(importer, inSource, migrated) /\ NothingIsMissed(importer, migrated)
      /\ UNCHANGED migrated
  BY <1>1, <1>2 DEF RunIsSound, storedVars
<1>4. ASSUME importer.dry, importer' = [importer EXCEPT !.batch = <<>>, !.at = "scan"]
      PROVE  RunIsSound'
  <2> DEFINE next == [importer EXCEPT !.batch = <<>>, !.at = "scan"]
  <2>1. /\ next \in MigrationRun /\ next.at = "scan" /\ next.batch = <<>> /\ next.todo = importer.todo /\ next.dry
        /\ next.scope = importer.scope /\ next.kind = importer.kind /\ next.fromId = importer.fromId
        /\ next.room = importer.room /\ next.limited = importer.limited /\ next.errors = importer.errors
        /\ next.refused = importer.refused
    BY <1>3, <1>4, EmptyBatch DEF MigrationRun
  <2>2. BatchIsSound(next, inSource, migrated)
    BY <1>3, <2>1, EmptyBatch DEF BatchIsSound, RowsWanted, DocumentStages
  <2> QED
    BY <1>1, <1>2, <1>3, <1>4, <2>1, <2>2 DEF RunIsSound, DocumentIsUnderWay, NothingIsMissed
<1>5. ASSUME ~importer.dry, NEW answered \in BOOLEAN,
             importer' = [importer EXCEPT !.together = answered, !.at = "document"]
      PROVE  RunIsSound'
  <2> DEFINE next == [importer EXCEPT !.together = answered, !.at = "document"]
  <2>1. /\ next \in MigrationRun /\ next.at = "document" /\ next.batch = importer.batch /\ next.todo = importer.todo
        /\ next.dry = importer.dry /\ next.scope = importer.scope /\ next.kind = importer.kind
        /\ next.fromId = importer.fromId /\ next.room = importer.room /\ next.limited = importer.limited
        /\ next.errors = importer.errors /\ next.refused = importer.refused
    BY <1>3 DEF MigrationRun, DocumentStages
  <2>2. BatchIsSound(next, inSource, migrated)
    BY <1>1, <1>3, <1>5, <2>1 DEF BatchIsSound, RowsWanted
  <2>3. NothingIsMissed(next, migrated)
    BY <1>1, <1>3, <2>1 DEF NothingIsMissed, Ahead
  <2> QED
    BY <1>1, <1>2, <1>3, <1>5, <2>1, <2>2, <2>3 DEF RunIsSound, DocumentIsUnderWay
<1>6. RunIsSound'
  BY <1>4, <1>5 DEF EmbedBatch
<1> QED
  BY <1>1, <1>2, <1>6, NothingIsWritten DEF MigrationInv

(* A document is given up for this run. *)
LEMMA SkipKeepsInv ==
  ASSUME MigrationInv, SkipDocument
  PROVE  MigrationInv'
<1>1. importer.at \in DocumentStages /\ UNCHANGED <<inSource, storedVars, migrations>> /\ UNCHANGED migrated
  BY DEF SkipDocument, DocumentStages, storedVars
<1>2. /\ RunIsSound /\ StoredRowsAreSound /\ MarkedRowsAreWhole
      /\ importer \in MigrationRun /\ BatchIsSound(importer, inSource, migrated) /\ NothingIsMissed(importer, migrated)
      /\ Row \in SourceRow
  BY <1>1, RowUnderWay
<1> DEFINE given == [importer EXCEPT !.errors = @ + 1, !.refused = @ \union {Row}]
<1>3. /\ given \in MigrationRun /\ given.at = importer.at /\ given.batch = importer.batch /\ given.todo = importer.todo
      /\ given.dry = importer.dry /\ given.scope = importer.scope /\ given.kind = importer.kind
      /\ given.fromId = importer.fromId /\ given.room = importer.room /\ given.limited = importer.limited
      /\ given.errors = importer.errors + 1 /\ importer.errors \in Nat /\ given.refused = importer.refused \union {Row}
  <2>1. PICK refused : refused = importer.refused \union {Row}
    OBVIOUS
  <2>2. importer.errors \in Nat /\ importer.errors + 1 \in Nat /\ refused \in SUBSET SourceRow
    BY <1>2, <2>1 DEF MigrationRun
  <2>3. given = [importer EXCEPT !.errors = importer.errors + 1, !.refused = refused]
    BY <1>2, <2>1 DEF MigrationRun
  <2> HIDE DEF given
  <2> QED
    BY <1>2, <2>1, <2>2, <2>3 DEF MigrationRun
<1>4. BatchIsSound(given, inSource, migrated)
  BY <1>2, <1>3 DEF BatchIsSound, RowsWanted
<1>5. NothingIsMissed(given, migrated)
  BY <1>2, <1>3 DEF NothingIsMissed, Ahead
<1>6. Head(given.batch) \in migrated \union given.refused
  BY <1>3 DEF Row
<1>7. /\ NextDocument(given) \in MigrationRun /\ NextDocument(given).at \in {"scan", "document"}
      /\ BatchIsSound(NextDocument(given), inSource, migrated) /\ NothingIsMissed(NextDocument(given), migrated)
  BY <1>1, <1>3, <1>4, <1>5, <1>6, NextDocumentIsSound
<1>8. importer' = NextDocument(given)
  BY DEF SkipDocument
<1>9. RunIsSound'
  BY <1>1, <1>2, <1>7, <1>8 DEF RunIsSound, DocumentIsUnderWay
<1> QED
  BY <1>1, <1>2, <1>9, NothingIsWritten DEF MigrationInv

(* The vectors an earlier run left of the document go, and no others: a document that is not there has none. *)
LEMMA DropKeepsInv ==
  ASSUME MigrationInv, DropOldVectors
  PROVE  MigrationInv'
<1>1. /\ importer.at = "document" /\ vectors' = vectors \ Superseded(Row) /\ importer' = [importer EXCEPT !.at = "upsert"]
      /\ UNCHANGED <<inSource, migrated, documents, chunks, migrations>>
  BY DEF DropOldVectors, Running, Go
<1>2. /\ RunIsSound /\ StoredRowsAreSound /\ MarkedRowsAreWhole
      /\ importer \in MigrationRun /\ BatchIsSound(importer, inSource, migrated) /\ NothingIsMissed(importer, migrated)
      /\ Row \in inSource \ migrated /\ Row \in SourceRow
  BY <1>1, RowUnderWay DEF DocumentStages
<1>3. /\ importer' \in MigrationRun /\ importer'.at = "upsert" /\ importer'.batch = importer.batch
      /\ BatchIsSound(importer', inSource, migrated) /\ NothingIsMissed(importer', migrated)
  BY <1>1, <1>2, GoingOnIsSound DEF DocumentStages
<1>4. StoredRowsAreSound'
  BY <1>1, <1>2 DEF StoredRowsAreSound
<1>5. Superseded(Row) \subseteq chunks[Row]
  BY DEF Superseded
<1>6. MarkedRowsAreWhole'
  <2>1. vectors' \subseteq UNION {chunks[r] : r \in documents}
    BY <1>1, <1>2 DEF MarkedRowsAreWhole
  <2>2. ASSUME NEW r \in migrated
        PROVE  chunks[r] \intersect vectors' = chunks[r] \intersect vectors
    <3>1. r \in SourceRow /\ r # Row
      BY <1>2 DEF StoredRowsAreSound
    <3> QED
      BY <1>1, <1>2, <1>5, <3>1, ChunksAreApart
  <2> QED
    BY <1>1, <1>2, <2>1, <2>2 DEF MarkedRowsAreWhole
<1>7. chunks[Row] \intersect vectors' = {}
  <2>1. CASE Row \in documents
    BY <1>1, <2>1 DEF Superseded
  <2>2. CASE Row \notin documents
    <3>1. ASSUME NEW c \in chunks[Row] \intersect vectors
          PROVE  FALSE
      <4>1. PICK d \in documents : c \in chunks[d]
        BY <1>2 DEF MarkedRowsAreWhole
      <4>2. d \in SourceRow /\ d # Row
        BY <1>2, <2>2 DEF StoredRowsAreSound
      <4> QED
        BY <1>2, <3>1, <4>1, <4>2, ChunksAreApart
    <3> QED
      BY <1>1, <3>1
  <2> QED
    BY <2>1, <2>2
<1>8. RunIsSound'
  BY <1>1, <1>2, <1>3, <1>7 DEF RunIsSound, DocumentIsUnderWay, Row
<1> QED
  BY <1>4, <1>6, <1>8 DEF MigrationInv

(* The document is there from here on. *)
LEMMA UpsertKeepsInv ==
  ASSUME MigrationInv, UpsertDocument
  PROVE  MigrationInv'
<1>1. /\ importer.at = "upsert" /\ documents' = documents \union {Row} /\ importer' = [importer EXCEPT !.at = "replace"]
      /\ UNCHANGED <<inSource, migrated, chunks, vectors, migrations>>
  BY DEF UpsertDocument, Running, Go
<1>2. /\ RunIsSound /\ StoredRowsAreSound /\ MarkedRowsAreWhole
      /\ importer \in MigrationRun /\ BatchIsSound(importer, inSource, migrated) /\ NothingIsMissed(importer, migrated)
      /\ Row \in inSource \ migrated /\ Row \in SourceRow
  BY <1>1, RowUnderWay DEF DocumentStages
<1>3. /\ importer' \in MigrationRun /\ importer'.at = "replace" /\ importer'.batch = importer.batch
      /\ BatchIsSound(importer', inSource, migrated) /\ NothingIsMissed(importer', migrated)
  BY <1>1, <1>2, GoingOnIsSound DEF DocumentStages
<1>4. StoredRowsAreSound'
  BY <1>1, <1>2 DEF StoredRowsAreSound
<1>5. MarkedRowsAreWhole'
  BY <1>1, <1>2 DEF MarkedRowsAreWhole
<1>6. RunIsSound'
  BY <1>1, <1>2, <1>3 DEF RunIsSound, DocumentIsUnderWay, Row
<1> QED
  BY <1>4, <1>5, <1>6 DEF MigrationInv

(* The document's chunks are replaced when none of the old ones has a vector. *)
LEMMA ReplaceKeepsInv ==
  ASSUME MigrationInv, ReplaceChunks
  PROVE  MigrationInv'
<1>1. /\ importer.at = "replace" /\ chunks' = [chunks EXCEPT ![Row] = NewChunks(Row)]
      /\ importer' = [importer EXCEPT !.at = "add"]
      /\ UNCHANGED <<inSource, migrated, documents, vectors, migrations>>
  BY DEF ReplaceChunks, Running, Go
<1>2. /\ RunIsSound /\ StoredRowsAreSound /\ MarkedRowsAreWhole
      /\ importer \in MigrationRun /\ BatchIsSound(importer, inSource, migrated) /\ NothingIsMissed(importer, migrated)
      /\ Row \in inSource \ migrated /\ Row \in SourceRow
  BY <1>1, RowUnderWay DEF DocumentStages
<1>3. /\ importer' \in MigrationRun /\ importer'.at = "add" /\ importer'.batch = importer.batch
      /\ BatchIsSound(importer', inSource, migrated) /\ NothingIsMissed(importer', migrated)
  BY <1>1, <1>2, GoingOnIsSound DEF DocumentStages
<1>4. chunks[Row] \intersect vectors = {} /\ Row \in documents /\ migrations > 0
  BY <1>1, <1>2 DEF RunIsSound, DocumentIsUnderWay
<1>5. chunks'[Row] = NewChunks(Row) /\ \A r \in SourceRow \ {Row} : chunks'[r] = chunks[r]
  BY <1>1, <1>2 DEF StoredRowsAreSound
<1>6. StoredRowsAreSound'
  <2>1. chunks' = [r \in SourceRow |-> chunks'[r]]
    BY <1>1, <1>2 DEF StoredRowsAreSound
  <2>2. migrations \in 1..MaxMigrations
    BY <1>2, <1>4, MigrationAssumption DEF StoredRowsAreSound
  <2>3. NewChunks(Row) \subseteq {<<Row, n, i>> : n \in 1..MaxMigrations, i \in 1..Pieces[Row]}
    BY <2>2 DEF NewChunks
  <2>4. ASSUME NEW r \in SourceRow
        PROVE  chunks'[r] \subseteq {<<r, n, i>> : n \in 1..MaxMigrations, i \in 1..Pieces[r]}
    <3>1. CASE r = Row
      BY <1>5, <2>3, <3>1
    <3>2. CASE r # Row
      BY <1>2, <1>5, <3>2 DEF StoredRowsAreSound
    <3> QED
      BY <3>1, <3>2
  <2> QED
    BY <1>1, <1>2, <2>1, <2>4 DEF StoredRowsAreSound
<1>7. MarkedRowsAreWhole'
  <2>1. ASSUME NEW c \in vectors
        PROVE  \E r \in documents : c \in chunks'[r]
    <3>1. PICK d \in documents : c \in chunks[d]
      BY <1>2 DEF MarkedRowsAreWhole
    <3>2. d \in SourceRow \ {Row}
      BY <1>2, <1>4, <3>1 DEF StoredRowsAreSound
    <3> QED
      BY <1>5, <3>1, <3>2
  <2>2. \A r \in migrated : chunks'[r] = chunks[r]
    BY <1>2, <1>5 DEF StoredRowsAreSound
  <2> QED
    BY <1>1, <1>2, <2>1, <2>2 DEF MarkedRowsAreWhole
<1>8. RunIsSound'
  BY <1>1, <1>2, <1>3, <1>4, <1>5 DEF RunIsSound, DocumentIsUnderWay, Row, NewChunks
<1> QED
  BY <1>6, <1>7, <1>8 DEF MigrationInv

(* Its new chunks get their vectors, all of them in one statement. *)
LEMMA AddKeepsInv ==
  ASSUME MigrationInv, AddVectors
  PROVE  MigrationInv'
<1>1. /\ importer.at = "add" /\ vectors' = vectors \union chunks[Row] /\ importer' = [importer EXCEPT !.at = "mark"]
      /\ UNCHANGED <<inSource, migrated, documents, chunks, migrations>>
  BY DEF AddVectors, Running, Go
<1>2. /\ RunIsSound /\ StoredRowsAreSound /\ MarkedRowsAreWhole
      /\ importer \in MigrationRun /\ BatchIsSound(importer, inSource, migrated) /\ NothingIsMissed(importer, migrated)
      /\ Row \in inSource \ migrated /\ Row \in SourceRow
  BY <1>1, RowUnderWay DEF DocumentStages
<1>3. /\ importer' \in MigrationRun /\ importer'.at = "mark" /\ importer'.batch = importer.batch
      /\ BatchIsSound(importer', inSource, migrated) /\ NothingIsMissed(importer', migrated)
  BY <1>1, <1>2, GoingOnIsSound DEF DocumentStages
<1>4. Row \in documents /\ chunks[Row] = NewChunks(Row)
  BY <1>1, <1>2 DEF RunIsSound, DocumentIsUnderWay
<1>5. StoredRowsAreSound'
  BY <1>1, <1>2 DEF StoredRowsAreSound
<1>6. MarkedRowsAreWhole'
  <2>1. vectors' \subseteq UNION {chunks[r] : r \in documents}
    BY <1>1, <1>2, <1>4 DEF MarkedRowsAreWhole
  <2>2. ASSUME NEW r \in migrated
        PROVE  chunks[r] \intersect vectors' = chunks[r] \intersect vectors
    <3>1. r \in SourceRow /\ r # Row
      BY <1>2 DEF StoredRowsAreSound
    <3> QED
      BY <1>1, <1>2, <3>1, ChunksAreApart
  <2> QED
    BY <1>1, <1>2, <2>1, <2>2 DEF MarkedRowsAreWhole
<1>7. RunIsSound'
  BY <1>1, <1>2, <1>3, <1>4 DEF RunIsSound, DocumentIsUnderWay, Row, NewChunks
<1> QED
  BY <1>5, <1>6, <1>7 DEF MigrationInv

(* A row is marked when the document, its chunks and their vectors are all there. *)
LEMMA MarkKeepsInv ==
  ASSUME MigrationInv, MarkDone
  PROVE  MigrationInv'
<1>1. /\ importer.at = "mark" /\ migrated' = migrated \union {Row} /\ importer' = NextDocument(importer)
      /\ UNCHANGED <<inSource, documents, chunks, vectors, migrations>>
  BY DEF MarkDone, Running
<1>2. /\ RunIsSound /\ StoredRowsAreSound /\ MarkedRowsAreWhole
      /\ importer \in MigrationRun /\ BatchIsSound(importer, inSource, migrated) /\ NothingIsMissed(importer, migrated)
      /\ Row \in inSource \ migrated /\ Row \in SourceRow
  BY <1>1, RowUnderWay DEF DocumentStages
<1>3. /\ importer' \in MigrationRun /\ importer'.at \in {"scan", "document"}
      /\ BatchIsSound(importer', inSource, migrated') /\ NothingIsMissed(importer', migrated')
  BY <1>1, <1>2, NextDocumentIsSound DEF Row, DocumentStages
<1>4. Row \in documents /\ chunks[Row] = NewChunks(Row) /\ chunks[Row] \subseteq vectors /\ migrations \in Nat
  BY <1>1, <1>2 DEF RunIsSound, DocumentIsUnderWay, StoredRowsAreSound
<1>5. Cardinality(chunks[Row] \intersect vectors) = Pieces[Row]
  <2>1. chunks[Row] \intersect vectors = NewChunks(Row)
    BY <1>4
  <2> QED
    BY <1>2, <1>4, <2>1, ChunksAreCounted
<1>6. StoredRowsAreSound'
  BY <1>1, <1>2 DEF StoredRowsAreSound
<1>7. MarkedRowsAreWhole'
  BY <1>1, <1>2, <1>4, <1>5, Zenon DEF MarkedRowsAreWhole
<1>8. RunIsSound'
  BY <1>1, <1>2, <1>3 DEF RunIsSound, DocumentIsUnderWay
<1> QED
  BY <1>6, <1>7, <1>8 DEF MigrationInv

-----------------------------------------------------------------------------
(* What stops a run, and claude-mem itself                                 *)

(* A statement of the scan fails: every row that is not over yet counts as refused. *)
LEMMA AbortKeepsInv ==
  ASSUME MigrationInv, AbortRun
  PROVE  MigrationInv'
<1>1. importer.at \in {"scan", "flush"} /\ UNCHANGED <<inSource, storedVars, migrations>> /\ UNCHANGED migrated
  BY DEF AbortRun, storedVars
<1>2. RunIsSound /\ StoredRowsAreSound /\ MarkedRowsAreWhole
  BY <1>1, RunUnderWay
<1>3. importer \in MigrationRun /\ BatchIsSound(importer, inSource, migrated)
  BY <1>2 DEF RunIsSound
<1>4. PICK refused : refused = importer.scope \ migrated
  OBVIOUS
<1>5. importer' = [importer EXCEPT !.at = "ended", !.errors = importer.errors + 1, !.refused = refused]
  BY <1>3, <1>4 DEF AbortRun, MigrationRun
<1>6. refused \in SUBSET SourceRow /\ importer.errors \in Nat
  BY <1>3, <1>4 DEF MigrationRun
<1>7. /\ importer' \in MigrationRun /\ importer'.at = "ended" /\ importer'.batch = importer.batch
      /\ importer'.todo = importer.todo /\ importer'.dry = importer.dry /\ importer'.scope = importer.scope
      /\ importer'.kind = importer.kind /\ importer'.fromId = importer.fromId /\ importer'.room = importer.room
      /\ importer'.limited = importer.limited /\ importer'.errors = importer.errors + 1 /\ importer'.refused = refused
  <2>1. PICK errors : errors = importer.errors + 1
    OBVIOUS
  <2>2. errors \in Nat
    BY <1>6, <2>1
  <2>3. importer' = [importer EXCEPT !.at = "ended", !.errors = errors, !.refused = refused]
    BY <1>5, <2>1
  <2> QED
    BY <1>3, <1>6, <2>1, <2>2, <2>3 DEF MigrationRun
<1>8. BatchIsSound(importer', inSource, migrated)
  BY <1>3, <1>6, <1>7 DEF BatchIsSound, RowsWanted, DocumentStages
<1>9. NothingIsMissed(importer', migrated)
  BY <1>4, <1>7 DEF NothingIsMissed
<1>10. RunIsSound'
  BY <1>1, <1>2, <1>7, <1>8, <1>9 DEF RunIsSound, DocumentIsUnderWay
<1> QED
  BY <1>1, <1>2, <1>10, NothingIsWritten DEF MigrationInv

(* A kill leaves what is stored, and no run. *)
LEMMA KillKeepsInv ==
  ASSUME MigrationInv, KillMigration
  PROVE  MigrationInv'
<1>1. importer' = NotMigrating /\ UNCHANGED <<inSource, storedVars, migrations>>
  BY DEF KillMigration
<1>2. NotMigrating' = NotMigrating
  BY DEF NotMigrating
<1> QED
  BY <1>1, <1>2, NothingIsWritten DEF MigrationInv

(* A row more in the source leaves a run what it was. *)
LEMMA ArrivalKeepsInv ==
  ASSUME MigrationInv, RowArrives
  PROVE  MigrationInv'
<1>1. PICK row \in SourceRow \ inSource : inSource' = inSource \union {row}
  BY DEF RowArrives
<1>2. UNCHANGED <<migrated, documents, chunks, vectors, importer, migrations>>
  BY DEF RowArrives, storedVars
<1>3. StoredRowsAreSound'
  BY <1>1, <1>2 DEF MigrationInv, StoredRowsAreSound
<1>4. MarkedRowsAreWhole'
  BY <1>2 DEF MigrationInv, MarkedRowsAreWhole
<1>5. ASSUME RunIsSound
      PROVE  RunIsSound'
  <2>1. BatchIsSound(importer, inSource', migrated)
    BY <1>1, <1>5 DEF RunIsSound, BatchIsSound, RowsWanted, Of
  <2> QED
    BY <1>2, <1>5, <2>1 DEF RunIsSound, DocumentIsUnderWay, Row, NewChunks
<1> QED
  BY <1>2, <1>3, <1>4, <1>5 DEF MigrationInv, NotMigrating

(* No step of the migration, and nothing that stops it, breaks the invariant. *)
LEMMA MigrationStep ==
  ASSUME MigrationInv, [MigrationNext]_migrationVars
  PROVE  MigrationInv'
<1>1. CASE UNCHANGED migrationVars
  <2>1. StoredRowsAreSound' /\ MarkedRowsAreWhole'
    BY <1>1 DEF migrationVars, MigrationInv, StoredRowsAreSound, MarkedRowsAreWhole, NotMigrating
  <2>2. RunIsSound => RunIsSound'
    BY <1>1 DEF migrationVars, RunIsSound, DocumentIsUnderWay, Row, NewChunks
  <2> QED
    BY <1>1, <2>1, <2>2 DEF migrationVars, MigrationInv, NotMigrating
<1> QED
  BY <1>1, StartKeepsInv, ScanKeepsInv, EndTableKeepsInv, EmbedKeepsInv, SkipKeepsInv, DropKeepsInv, UpsertKeepsInv,
     ReplaceKeepsInv, AddKeepsInv, MarkKeepsInv, AbortKeepsInv, KillKeepsInv, ArrivalKeepsInv, Zenon DEF MigrationNext

(* The invariant says what the migration promises. *)
LEMMA MigrationKeepsPromise ==
  ASSUME MigrationInv
  PROVE  MigrationIsWhole
<1>1. ASSUME importer.at = "ended", ~importer.dry, ~importer.limited
      PROVE  /\ importer.scope \ migrated \subseteq importer.refused
             /\ importer.errors = 0 => importer.scope \subseteq migrated
  <2>1. BatchIsSound(importer, inSource, migrated) /\ NothingIsMissed(importer, migrated)
    BY <1>1, RunUnderWay DEF RunIsSound
  <2>2. importer.scope \ migrated \subseteq importer.refused
    BY <1>1, <2>1 DEF NothingIsMissed
  <2>3. importer.errors = 0 => importer.refused = {}
    BY <2>1 DEF BatchIsSound
  <2> QED
    BY <2>2, <2>3
<1> QED
  BY <1>1 DEF MigrationIsWhole, OnlyFailuresAreLeft, MigrationInv

-----------------------------------------------------------------------------
(* The vectors and their clusters                                          *)

ClusterRow == [cluster : Int, vector : Vector]
HeldVector == [chunk : VectorChunk, vector : Vector, to : Int]

ClusterTables ==
  /\ vec \in [VectorChunk -> ClusterRow \union {NoRow}]
  /\ DOMAIN old \subseteq VectorChunk \intersect relics
  /\ \A c \in DOMAIN old : old[c] \in Vector
  /\ named \subseteq VectorChunk
  /\ centroids \subseteq Nat /\ nextId \in Nat
  /\ adding \in [Adder -> HeldVector \union {NotAdding}]

(* A cluster a vector may be under: one there is, none, or that of the vectors without a direction. *)
IsProbed(cluster, vector) == cluster \in centroids \union {Unclustered} \/ (cluster = Parked /\ vector = "zero")

(* No named vector is under a cluster that the centroids no longer have. *)
ClustersAreThere == \A c \in named : In(c) => IsProbed(vec[c].cluster, vec[c].vector)

(* What waits in the old table for a named chunk is the vector last written for it, unless the new table has one. *)
OldIsAsWritten == \A c \in DOMAIN old \intersect named : ~In(c) => written[c] = old[c]

(* The batch a slice carries over its yields has each chunk once, and clusters that only the slice itself could replace. *)
BatchIsPlaceable ==
  clustering.stage = "placing" =>
    /\ clustering.items \subseteq HeldVector
    /\ \A i \in clustering.items : IsProbed(i.to, i.vector)
    /\ \A i, j \in clustering.items : i.chunk = j.chunk => i = j

ClustersInv == ClusterTables /\ ClustersAreThere /\ OldIsAsWritten /\ SweepKeepsVectors /\ BatchIsPlaceable

(* A chunk that is in has a row, with a vector. *)
LEMMA InIsARow ==
  ASSUME ClusterTables, NEW c \in VectorChunk
  PROVE  In(c) <=> vec[c] \in ClusterRow
BY ClustersAssumption DEF ClusterTables, In, ClusterRow, NoRow

(* A new store, one whose vectors are all in the old table, and one on bad seeds begin so. *)
LEMMA ClustersBegin ==
  ASSUME ClustersInit
  PROVE  ClustersInv
<1> USE ClustersAssumption
<1>1. adding \in [Adder -> HeldVector \union {NotAdding}] /\ relics = DOMAIN old /\ clustering.stage = "idle"
  BY DEF ClustersInit, NoSlice
<1>2. CASE old = <<>> /\ vec = [c \in VectorChunk |-> NoRow] /\ named = {} /\ centroids = {}
  <2>1. nextId = 0
    BY <1>2, FS_EmptySet DEF ClustersInit
  <2> QED
    BY <1>1, <1>2, <2>1 DEF ClustersInv, ClusterTables, ClustersAreThere, OldIsAsWritten, SweepKeepsVectors, BatchIsPlaceable, In
<1>3. CASE old = [c \in VectorChunk |-> "zero"] /\ vec = [c \in VectorChunk |-> NoRow] /\ named = VectorChunk /\ centroids = {}
  <2>1. nextId = 0 /\ written = [c \in VectorChunk |-> "zero"]
    BY <1>3, FS_EmptySet DEF ClustersInit
  <2> QED
    BY <1>1, <1>3, <2>1 DEF ClustersInv, ClusterTables, ClustersAreThere, OldIsAsWritten, SweepKeepsVectors, BatchIsPlaceable, In
<1>4. CASE /\ old = <<>> /\ vec = [c \in VectorChunk |-> [cluster |-> 0, vector |-> "zero"]]
           /\ named = VectorChunk /\ centroids = {0, 1}
  <2>1. nextId \in Nat /\ written = [c \in VectorChunk |-> "zero"]
    <3>1. IsFiniteSet({0, 1})
      <4>1. {0, 1} = 0 .. 1
        OBVIOUS
      <4>2. 0 \in Int /\ 1 \in Int
        OBVIOUS
      <4>3. IsFiniteSet(0 .. 1)
        BY <4>2, FS_Interval, Zenon
      <4> QED
        BY <4>1, <4>3
    <3> QED
      BY <1>4, <3>1, FS_CardinalityType DEF ClustersInit
  <2>2. ClusterTables
    BY <1>1, <1>4, <2>1 DEF ClusterTables, ClusterRow
  <2> QED
    BY <1>1, <1>4, <2>1, <2>2 DEF ClustersInv, ClustersAreThere, OldIsAsWritten, SweepKeepsVectors, BatchIsPlaceable, In, IsProbed
<1> QED
  BY <1>2, <1>3, <1>4 DEF ClustersInit

(* A vector that is written, under a cluster there is or none. *)
LEMMA PutKeeps ==
  ASSUME ClustersInv, NEW c \in VectorChunk, NEW v \in Vector, NEW cluster \in centroids \union {Unclustered},
         Put(c, v, cluster), UNCHANGED <<old, centroids, relics>>
  PROVE  /\ vec' \in [VectorChunk -> ClusterRow \union {NoRow}] /\ named' \subseteq VectorChunk
         /\ ClustersAreThere' /\ OldIsAsWritten' /\ SweepKeepsVectors'
<1>1. ClusterTables /\ cluster \in Int
  BY DEF ClustersInv, ClusterTables, Unclustered
<1>2. vec'[c] = [cluster |-> cluster, vector |-> v] /\ \A x \in VectorChunk \ {c} : vec'[x] = vec[x]
  BY <1>1 DEF Put, ClusterTables
<1>3. vec'[c] \in ClusterRow /\ vec'[c] # NoRow /\ vec'[c].cluster = cluster /\ vec'[c].vector = v
  BY <1>1, <1>2, ClustersAssumption DEF ClusterRow, NoRow
<1>4. vec' \in [VectorChunk -> ClusterRow \union {NoRow}]
  BY <1>1, <1>3 DEF Put, ClusterTables
<1>5. /\ named' = named \union {c} /\ named' \subseteq VectorChunk
      /\ written'[c] = v /\ \A x \in named \ {c} : written'[x] = written[x]
  BY <1>1 DEF Put, ClusterTables
<1>6. ClustersAreThere'
  BY <1>1, <1>2, <1>3, <1>5 DEF ClustersInv, ClustersAreThere, ClusterTables, IsProbed, In
<1>7. OldIsAsWritten'
  BY <1>1, <1>2, <1>3, <1>5 DEF ClustersInv, OldIsAsWritten, ClusterTables, In
<1>8. SweepKeepsVectors'
  BY <1>1, <1>2, <1>3, <1>5 DEF ClustersInv, SweepKeepsVectors, ClusterTables, In
<1> QED
  BY <1>4, <1>5, <1>6, <1>7, <1>8

(* A row is added at once, or its cluster is looked for first. *)
LEMMA AddKeepsClusters ==
  ASSUME ClustersInv, NEW a \in Adder, NEW c \in VectorChunk, NEW v \in Vector, AddVector(a, c, v)
  PROVE  ClustersInv'
<1>1. ClusterTables /\ UNCHANGED <<old, centroids, nextId, clustering, relics>>
  BY DEF ClustersInv, AddVector
<1>2. CASE centroids = {}
  <2>1. Put(c, v, Unclustered) /\ UNCHANGED adding
    BY <1>2 DEF AddVector
  <2> QED
    BY <1>1, <2>1, PutKeeps DEF ClustersInv, ClusterTables, BatchIsPlaceable, IsProbed
<1>3. CASE centroids # {}
  <2>1. PICK to \in centroids : adding' = [adding EXCEPT ![a] = [chunk |-> c, vector |-> v, to |-> to]]
    BY <1>3 DEF AddVector
  <2>2. UNCHANGED <<vec, named, written>>
    BY <1>3 DEF AddVector
  <2>3. [chunk |-> c, vector |-> v, to |-> to] \in HeldVector
    BY <1>1 DEF ClusterTables, HeldVector
  <2>4. adding' \in [Adder -> HeldVector \union {NotAdding}]
    BY <1>1, <2>1, <2>3 DEF ClusterTables
  <2> QED
    BY <1>1, <2>2, <2>4 DEF ClustersInv, ClusterTables, ClustersAreThere, OldIsAsWritten, SweepKeepsVectors, BatchIsPlaceable,
                            IsProbed, In
<1> QED
  BY <1>2, <1>3

(* It lands under the cluster found for it, if that is still there. *)
LEMMA LandKeepsClusters ==
  ASSUME ClustersInv, NEW a \in Adder, LandVector(a)
  PROVE  ClustersInv'
<1>1. ClusterTables /\ UNCHANGED <<old, centroids, nextId, clustering, relics>>
  BY DEF ClustersInv, LandVector
<1>2. adding[a] \in HeldVector
  BY <1>1 DEF LandVector, ClusterTables
<1>3. adding[a].chunk \in VectorChunk /\ adding[a].vector \in Vector
  BY <1>2 DEF HeldVector
<1>4. AddedTo(adding[a].to) \in centroids \union {Unclustered}
  BY DEF AddedTo
<1>5. adding' \in [Adder -> HeldVector \union {NotAdding}]
  BY <1>1 DEF LandVector, ClusterTables
<1>6. Put(adding[a].chunk, adding[a].vector, AddedTo(adding[a].to))
  BY DEF LandVector
<1> QED
  BY <1>1, <1>3, <1>4, <1>5, <1>6, PutKeeps DEF ClustersInv, ClusterTables, BatchIsPlaceable, IsProbed

(* A chunk that is deleted takes its row with it. *)
LEMMA DeleteKeepsClusters ==
  ASSUME ClustersInv, NEW c \in VectorChunk, DeleteVector(c)
  PROVE  ClustersInv'
<1>1. ClusterTables /\ UNCHANGED <<old, centroids, nextId, adding, clustering, relics>>
  BY DEF ClustersInv, DeleteVector
<1>2. vec'[c] = NoRow /\ \A x \in VectorChunk \ {c} : vec'[x] = vec[x]
  BY <1>1 DEF DeleteVector, ClusterTables
<1>3. named' = named \ {c} /\ \A x \in named \ {c} : written'[x] = written[x]
  BY DEF DeleteVector
<1>4. ClusterTables'
  BY <1>1, <1>3 DEF DeleteVector, ClusterTables
<1>5. ClustersAreThere' /\ OldIsAsWritten'
  BY <1>1, <1>2, <1>3 DEF ClustersInv, ClusterTables, ClustersAreThere, OldIsAsWritten, IsProbed, In
<1>6. SweepKeepsVectors'
  BY <1>1, <1>2, <1>3 DEF ClustersInv, ClusterTables, SweepKeepsVectors, In
<1> QED
  BY <1>1, <1>4, <1>5, <1>6 DEF ClustersInv, BatchIsPlaceable, IsProbed

(* What moves rows between clusters leaves each its vector. *)
LEMMA MovesKeepVectors ==
  ASSUME ClustersInv, UNCHANGED <<old, named, written, relics>>,
         \A c \in VectorChunk : (In(c)' <=> In(c)) /\ vec'[c].vector = vec[c].vector
  PROVE  OldIsAsWritten' /\ SweepKeepsVectors'
<1>1. ClusterTables
  BY DEF ClustersInv
<1>2. OldIsAsWritten'
  BY <1>1 DEF ClustersInv, ClusterTables, OldIsAsWritten
<1>3. SweepKeepsVectors'
  BY <1>1 DEF ClustersInv, SweepKeepsVectors
<1> QED
  BY <1>2, <1>3

(* The rows of the old table come over as they are, a chunk written anew keeps its new vector. *)
LEMMA MigrateKeepsClusters ==
  ASSUME ClustersInv, MigrateLegacyBatch
  PROVE  ClustersInv'
<1>1. ClusterTables /\ UNCHANGED <<named, centroids, nextId, adding, clustering, written, relics>>
  BY DEF ClustersInv, MigrateLegacyBatch
<1>2. PICK T \in SUBSET DOMAIN old :
        /\ \A c \in T : ~In(c)
        /\ vec' = [c \in VectorChunk |-> IF c \in T THEN [cluster |-> Unclustered, vector |-> old[c]] ELSE vec[c]]
        /\ old' = [c \in DOMAIN old \ T |-> old[c]]
  BY DEF MigrateLegacyBatch
<1>3. ASSUME NEW c \in T
      PROVE  /\ c \in VectorChunk /\ vec'[c] \in ClusterRow /\ vec'[c] # NoRow
             /\ vec'[c].cluster = Unclustered /\ vec'[c].vector = old[c]
  <2>1. c \in VectorChunk /\ old[c] \in Vector
    BY <1>1 DEF ClusterTables
  <2>2. vec'[c] = [cluster |-> Unclustered, vector |-> old[c]]
    BY <1>2, <2>1
  <2> QED
    BY <2>1, <2>2, ClustersAssumption DEF ClusterRow, Unclustered, NoRow
<1>4. \A c \in VectorChunk \ T : vec'[c] = vec[c]
  BY <1>2
<1>5. vec' \in [VectorChunk -> ClusterRow \union {NoRow}]
  <2>1. \A c \in VectorChunk : vec'[c] \in ClusterRow \union {NoRow}
    BY <1>1, <1>3, <1>4 DEF ClusterTables
  <2> QED
    BY <1>2, <2>1
<1>6. DOMAIN old' = DOMAIN old \ T /\ \A c \in DOMAIN old' : old'[c] = old[c]
  BY <1>2
<1>7. ClusterTables'
  BY <1>1, <1>5, <1>6 DEF ClusterTables
<1>8. ClustersAreThere'
  BY <1>1, <1>3, <1>4 DEF ClustersInv, ClusterTables, ClustersAreThere, IsProbed, In
<1>9. OldIsAsWritten'
  BY <1>1, <1>4, <1>6 DEF ClustersInv, ClusterTables, OldIsAsWritten, In
<1>10. SweepKeepsVectors'
  <2>1. ASSUME NEW c \in VectorChunk, vec'[c] # NoRow
        PROVE  IF c \in named THEN vec'[c].vector = written[c] ELSE c \in relics
    <3>1. CASE c \in T
      BY <1>1, <1>2, <1>3, <3>1 DEF ClustersInv, ClusterTables, OldIsAsWritten
    <3>2. CASE c \notin T
      BY <1>4, <2>1, <3>2 DEF ClustersInv, SweepKeepsVectors, In
    <3> QED
      BY <3>1, <3>2
  <2> QED
    BY <1>1, <2>1 DEF SweepKeepsVectors, In
<1> QED
  BY <1>1, <1>7, <1>8, <1>9, <1>10 DEF ClustersInv, BatchIsPlaceable, IsProbed

(* A slice takes named chunks of the rows it is offered. *)
LEMMA SlicesAreOfThem ==
  ASSUME NEW S, NEW T \in SweepSlices(S)
  PROVE  T \subseteq S \intersect named
BY DEF SweepSlices, kSubset

(* Rows that are sent back to no cluster keep everything else. *)
LEMMA ResetKeeps ==
  ASSUME ClustersInv, NEW S \in SUBSET (Placed \intersect named), Reset(S), UNCHANGED <<old, named, centroids, written, relics>>
  PROVE  /\ vec' \in [VectorChunk -> ClusterRow \union {NoRow}]
         /\ ClustersAreThere' /\ OldIsAsWritten' /\ SweepKeepsVectors'
<1>1. ClusterTables
  BY DEF ClustersInv
<1>2. ASSUME NEW c \in S
      PROVE  /\ c \in VectorChunk /\ In(c) /\ vec'[c] \in ClusterRow /\ vec'[c] # NoRow
             /\ vec'[c].cluster = Unclustered /\ vec'[c].vector = vec[c].vector
  <2>1. c \in VectorChunk /\ In(c)
    BY DEF Placed
  <2>2. vec[c] \in ClusterRow
    BY <1>1, <2>1, InIsARow
  <2>3. vec'[c] = [vec[c] EXCEPT !.cluster = Unclustered]
    BY <2>1 DEF Reset
  <2> QED
    BY <2>1, <2>2, <2>3, ClustersAssumption DEF ClusterRow, NoRow, Unclustered
<1>3. \A c \in VectorChunk \ S : vec'[c] = vec[c]
  BY DEF Reset
<1>4. vec' \in [VectorChunk -> ClusterRow \union {NoRow}]
  <2>1. \A c \in VectorChunk : vec'[c] \in ClusterRow \union {NoRow}
    BY <1>1, <1>2, <1>3 DEF ClusterTables
  <2> QED
    BY <2>1 DEF Reset
<1>5. \A c \in VectorChunk : (In(c)' <=> In(c)) /\ vec'[c].vector = vec[c].vector
  BY <1>2, <1>3 DEF In
<1>6. ClustersAreThere'
  BY <1>1, <1>2, <1>3 DEF ClustersInv, ClusterTables, ClustersAreThere, IsProbed, In
<1> QED
  BY <1>4, <1>5, <1>6, MovesKeepVectors

(* A repair sends rows back in batches. *)
LEMMA RepairKeepsClusters ==
  ASSUME ClustersInv, ResetBatch
  PROVE  ClustersInv'
<1>1. ClusterTables /\ UNCHANGED <<old, named, centroids, nextId, adding, clustering, written, relics>>
  BY DEF ClustersInv, ResetBatch
<1>2. PICK S \in SweepSlices(Placed) : Reset(S)
  BY DEF ResetBatch
<1>3. S \in SUBSET (Placed \intersect named)
  BY SlicesAreOfThem
<1> QED
  BY <1>1, <1>2, <1>3, ResetKeeps DEF ClustersInv, ClusterTables, BatchIsPlaceable, IsProbed

(* Reading the seeds changes nothing. *)
LEMMA SeedingKeepsClusters ==
  ASSUME ClustersInv, StartSeeding
  PROVE  ClustersInv'
<1>1. UNCHANGED <<vec, old, named, centroids, nextId, adding, written, relics>> /\ clustering'.stage = "seeding"
  BY DEF StartSeeding, NoSlice
<1> QED
  BY <1>1 DEF ClustersInv, ClusterTables, ClustersAreThere, OldIsAsWritten, SweepKeepsVectors, BatchIsPlaceable, IsProbed, In

(* A new set of centroids replaces the old one when no named row is placed any more. *)
LEMMA SeedsKeepClusters ==
  ASSUME ClustersInv, FinishSeeding
  PROVE  ClustersInv'
<1>1. ClusterTables /\ UNCHANGED <<old, named, adding, written, relics>> /\ clustering'.stage = "idle"
  BY DEF ClustersInv, FinishSeeding, NoSlice
<1>2. CASE UNCHANGED <<vec, centroids, nextId>>
  BY <1>1, <1>2 DEF ClustersInv, ClusterTables, ClustersAreThere, OldIsAsWritten, SweepKeepsVectors, BatchIsPlaceable,
                    IsProbed, In
<1>3. CASE /\ LeftPlaced # {} /\ nextId' \in Nat
           /\ (\E S \in SweepSlices(Placed) : Reset(S)) /\ UNCHANGED centroids
  <2>1. PICK S \in SweepSlices(Placed) : Reset(S)
    BY <1>3
  <2>2. S \in SUBSET (Placed \intersect named)
    BY SlicesAreOfThem
  <2> QED
    BY <1>1, <1>3, <2>1, <2>2, ResetKeeps DEF ClustersInv, ClusterTables, BatchIsPlaceable
<1>4. CASE LeftPlaced = {} /\ nextId' \in Nat /\ centroids' \subseteq Nat /\ UNCHANGED vec
  <2>1. ASSUME NEW c \in named, In(c)
        PROVE  vec[c].cluster = Unclustered \/ (vec[c].cluster = Parked /\ vec[c].vector = "zero")
    BY <1>1, <1>4, <2>1 DEF ClustersInv, ClusterTables, ClustersAreThere, IsProbed, LeftPlaced, Placed
  <2> QED
    BY <1>1, <1>4, <2>1 DEF ClustersInv, ClusterTables, ClustersAreThere, OldIsAsWritten, SweepKeepsVectors,
                            BatchIsPlaceable, IsProbed, In
<1> QED
  <2>1. CASE \A c \in named : vec[c].vector \in {"none", "zero"}
    BY <1>2, <2>1 DEF FinishSeeding
  <2>2. CASE ~\A c \in named : vec[c].vector \in {"none", "zero"}
    <3>1. PICK k \in 1 .. 2 :
            /\ nextId' = nextId + k
            /\ IF LeftPlaced # {}
               THEN /\ \E S \in SweepSlices(Placed) : Reset(S)
                    /\ UNCHANGED <<centroids, flat, builtFor>>
               ELSE centroids' = nextId .. nextId + k - 1 /\ UNCHANGED vec
      BY <2>2 DEF FinishSeeding
    <3>2. nextId' \in Nat /\ nextId .. nextId + k - 1 \subseteq Nat
      BY <1>1, <3>1 DEF ClusterTables
    <3> QED
      BY <1>3, <1>4, <3>1, <3>2
  <2> QED
    BY <2>1, <2>2

(* The clusters a slice works out are of the set that is there, and for each chunk one. *)
LEMMA PlacingKeepsClusters ==
  ASSUME ClustersInv, StartPlacing
  PROVE  ClustersInv'
<1>1. ClusterTables /\ UNCHANGED <<vec, old, named, centroids, nextId, adding, written, relics>>
  BY DEF ClustersInv, StartPlacing
<1> DEFINE item(c, to) == [chunk |-> c, vector |-> vec[c].vector, to |-> IF vec[c].vector = "zero" THEN Parked ELSE to[c]]
           waiting == {c \in VectorChunk : In(c) /\ vec[c].cluster = Unclustered}
           settled == {c \in named : In(c) /\ vec[c].cluster >= 0}
<1>2. PICK S \in {T \in SweepSlices(waiting) : T # {}} \union (IF {} \in SweepSlices(waiting) THEN SweepSlices(settled) ELSE {}) :
        \E to \in [S -> centroids] :
          clustering' = [NoSlice EXCEPT !.stage = "placing", !.items = {item(c, to) : c \in S}]
  BY Zenon DEF StartPlacing
<1>3. PICK to \in [S -> centroids] :
        clustering' = [NoSlice EXCEPT !.stage = "placing", !.items = {item(c, to) : c \in S}]
  BY <1>2, Zenon
<1>4. clustering'.items = {item(c, to) : c \in S}
  BY <1>3 DEF NoSlice
<1>5. ASSUME NEW c \in S
      PROVE  /\ item(c, to) \in HeldVector /\ item(c, to).chunk = c
             /\ IsProbed(item(c, to).to, item(c, to).vector)
  <2>1. c \in VectorChunk /\ In(c)
    <3>1. S \in SweepSlices(waiting) \/ S \in SweepSlices(settled)
      BY <1>2, Zenon
    <3>2. S \subseteq waiting \/ S \subseteq settled
      BY <3>1, SlicesAreOfThem, Zenon
    <3> QED
      BY <1>1, <3>2 DEF ClusterTables
  <2>2. vec[c] \in ClusterRow
    BY <1>1, <2>1, InIsARow
  <2>3. vec[c].vector \in Vector /\ to[c] \in centroids /\ centroids \subseteq Nat
    BY <1>1, <2>2 DEF ClusterRow, ClusterTables
  <2>4. item(c, to) \in HeldVector
    <3>1. PICK cluster : cluster = IF vec[c].vector = "zero" THEN Parked ELSE to[c]
      OBVIOUS
    <3>2. cluster \in Int
      BY <2>3, <3>1 DEF Parked
    <3>3. PICK vector : vector = vec[c].vector
      OBVIOUS
    <3>4. [chunk |-> c, vector |-> vector, to |-> cluster] \in HeldVector
      BY <2>1, <2>3, <3>2, <3>3 DEF HeldVector
    <3> QED
      BY <3>1, <3>3, <3>4
  <2>5. IsProbed(item(c, to).to, item(c, to).vector)
    BY <2>3 DEF IsProbed
  <2> QED
    BY <2>4, <2>5
<1>6. BatchIsPlaceable'
  BY <1>1, <1>4, <1>5 DEF BatchIsPlaceable, IsProbed
<1> QED
  BY <1>1, <1>6 DEF ClustersInv, ClusterTables, ClustersAreThere, OldIsAsWritten, SweepKeepsVectors, IsProbed, In

(* The batch goes where it was found to belong: its clusters are still those there are, and a chunk that was written anew
   meanwhile is left alone. *)
LEMMA PlacesKeepClusters ==
  ASSUME ClustersInv, FinishPlacing
  PROVE  ClustersInv'
<1>1. /\ ClusterTables /\ UNCHANGED <<old, named, centroids, nextId, adding, written, relics>>
      /\ clustering.stage = "placing" /\ clustering'.stage = "idle"
  BY DEF ClustersInv, FinishPlacing, NoSlice
<1>2. /\ clustering.items \subseteq HeldVector
      /\ \A i \in clustering.items : IsProbed(i.to, i.vector)
      /\ \A i, j \in clustering.items : i.chunk = j.chunk => i = j
  BY <1>1 DEF ClustersInv, BatchIsPlaceable
<1>3. ASSUME NEW i \in clustering.items, StillThere(i)
      PROVE  /\ i.chunk \in VectorChunk /\ In(i.chunk) /\ In(i.chunk)' /\ vec'[i.chunk] \in ClusterRow
             /\ vec'[i.chunk].cluster = i.to /\ vec'[i.chunk].vector = i.vector /\ vec[i.chunk].vector = i.vector
  <2>1. i.chunk \in VectorChunk /\ i.vector \in Vector /\ i.to \in Int
    BY <1>2 DEF HeldVector
  <2>2. (CHOOSE j \in clustering.items : j.chunk = i.chunk) = i
    BY <1>2
  <2>3. vec'[i.chunk] = [cluster |-> i.to, vector |-> i.vector]
    BY <1>3, <2>1, <2>2 DEF FinishPlacing
  <2>4. vec[i.chunk].vector = i.vector
    BY <1>3 DEF StillThere
  <2> QED
    BY <2>1, <2>3, <2>4, ClustersAssumption DEF In, NoRow, ClusterRow
<1>4. ASSUME NEW c \in VectorChunk, ~\E i \in clustering.items : i.chunk = c /\ StillThere(i)
      PROVE  vec'[c] = vec[c]
  BY <1>4 DEF FinishPlacing
<1>5. vec' \in [VectorChunk -> ClusterRow \union {NoRow}]
  <2>1. \A c \in VectorChunk : vec'[c] \in ClusterRow \union {NoRow}
    BY <1>1, <1>3, <1>4 DEF ClusterTables
  <2> QED
    BY <2>1 DEF FinishPlacing
<1>6. \A c \in VectorChunk : (In(c)' <=> In(c)) /\ vec'[c].vector = vec[c].vector
  BY <1>3, <1>4 DEF In
<1>7. ClustersAreThere'
  <2>1. ASSUME NEW c \in named, vec'[c] # NoRow
        PROVE  IsProbed(vec'[c].cluster, vec'[c].vector)
    <3>1. CASE \E i \in clustering.items : i.chunk = c /\ StillThere(i)
      BY <1>2, <1>3, <3>1
    <3>2. CASE ~\E i \in clustering.items : i.chunk = c /\ StillThere(i)
      BY <1>1, <1>4, <2>1, <3>2 DEF ClustersInv, ClusterTables, ClustersAreThere, In
    <3> QED
      BY <3>1, <3>2
  <2> QED
    BY <1>1, <2>1 DEF ClustersAreThere, IsProbed, In
<1>8. ClusterTables'
  BY <1>1, <1>5 DEF ClusterTables
<1>9. OldIsAsWritten' /\ SweepKeepsVectors'
  BY <1>1, <1>6, MovesKeepVectors
<1> QED
  BY <1>1, <1>7, <1>8, <1>9 DEF ClustersInv, BatchIsPlaceable

(* With the worker go the row an add has in hand and the slice's batch, and nothing of the tables. *)
LEMMA KillKeepsClusters ==
  ASSUME ClustersInv, ClusteringKilled
  PROVE  ClustersInv'
<1>1. /\ UNCHANGED <<vec, old, named, centroids, nextId, written, relics>> /\ clustering'.stage = "idle"
      /\ adding' \in [Adder -> HeldVector \union {NotAdding}]
  BY DEF ClusteringKilled, NoSlice
<1> QED
  BY <1>1 DEF ClustersInv, ClusterTables, ClustersAreThere, OldIsAsWritten, SweepKeepsVectors, BatchIsPlaceable, IsProbed, In

(* No step of the store, the sweep or what stops them breaks the invariant. *)
LEMMA ClustersStep ==
  ASSUME ClustersInv, [ClustersNext]_clusterVars
  PROVE  ClustersInv'
<1>1. CASE UNCHANGED clusterVars
  BY <1>1 DEF clusterVars, ClustersInv, ClusterTables, ClustersAreThere, OldIsAsWritten, SweepKeepsVectors, BatchIsPlaceable,
              IsProbed, In
<1> QED
  BY <1>1, AddKeepsClusters, LandKeepsClusters, DeleteKeepsClusters, MigrateKeepsClusters, RepairKeepsClusters,
     SeedingKeepsClusters, SeedsKeepClusters, PlacingKeepsClusters, PlacesKeepClusters, KillKeepsClusters, Zenon
     DEF ClustersNext

-----------------------------------------------------------------------------
(* An installation                                                         *)

(* What workerEnvLines may write: always a line for the embedder, and never one that says skip for the rest. *)
WrittenLines(file) == file.line["embedder"] # "absent" /\ file.line["summarizer"] # "skip"

(* worker.env is what was settled on, and when it is gone its backup is.  What an install is about to write is what it
   was told to: it read the file before it asked, and nobody has touched it since. *)
FilesAreChosen ==
  /\ IF chosen.exists THEN WrittenLines(chosen) ELSE chosen = NoFile
  /\ IF env.exists THEN env = chosen ELSE env = NoFile
  /\ bak.exists => chosen.exists /\ (env.exists \/ bak = chosen)
  /\ chosen.exists => env.exists \/ bak.exists
  /\ setup.step \in {"backup", "write"} => setup.expects = Composed(setup.answers, env)

SettingsInv == InstallationTypeOK /\ FilesAreChosen

(* An uninstall past its first step has no worker beside it, so that none is in the middle of a heal when the plugin
   goes; one that starts later finds the marker. *)
NobodyPutsItBack ==
  /\ setup.step \in RemoveSteps \ {"units"} => ~unit /\ ~up /\ healing = "idle"
  /\ removed => ~plugin /\ marker /\ healing = "idle" /\ setup.step \notin InstallSteps

RemovalInv == InstallationTypeOK /\ NobodyPutsItBack

(* The step an install or uninstall is at, and all it may be. *)
LEMMA GoingToAStep ==
  ASSUME InstallationTypeOK, NEW step \in InstallSteps \cup RemoveSteps, To(step)
  PROVE  /\ setup' \in [step : InstallSteps \cup RemoveSteps \cup {"idle"}, answers : [Field -> Value], expects : EnvFile]
         /\ setup'.step = step /\ setup'.answers = setup.answers /\ setup'.expects = setup.expects
BY DEF To, InstallationTypeOK

(* No run. *)
LEMMA IdleIsTyped ==
  /\ NoFile \in EnvFile /\ ~NoFile.exists /\ NoFile.own = {}
  /\ Idle \in [step : InstallSteps \cup RemoveSteps \cup {"idle"}, answers : [Field -> Value], expects : EnvFile]
  /\ Idle.step = "idle"
<1>1. NoFile \in EnvFile /\ ~NoFile.exists /\ NoFile.own = {}
  BY DEF NoFile, EnvFile
<1> QED
  BY <1>1 DEF Idle, Field, Value

(* A composed file has a line for the embedder and none that says skip for the rest. *)
LEMMA ComposedIsWritten ==
  ASSUME NEW answers \in [Field -> Value], NEW file \in EnvFile
  PROVE  /\ Composed(answers, file) \in EnvFile
         /\ WrittenLines(Composed(answers, file))
         /\ Composed(answers, file).exists /\ Composed(answers, file).own = file.own
         /\ Composed(answers, file).line = AnswerLines(answers)
<1>1. AnswerLines(answers) \in [Field -> Value \cup {"absent"}]
  BY DEF AnswerLines
<1>2. AnswerLines(answers)["embedder"] # "absent" /\ AnswerLines(answers)["summarizer"] # "skip"
  BY DEF AnswerLines, Field, Value
<1>3. Composed(answers, file) = [line |-> AnswerLines(answers), own |-> file.own, exists |-> TRUE]
  BY DEF Composed
<1> QED
  BY <1>1, <1>2, <1>3 DEF WrittenLines, EnvFile

(* Settings with those that a flag names. *)
Flagged(lines, flags) == [f \in Field |-> IF f \in flags THEN "chosen" ELSE lines[f]]

(* The answers an install gathers without a question write back what the file says: a line that is not there is read as
   skip, and skip is written as no line. *)
LEMMA ReadingWritesBack ==
  ASSUME NEW file \in EnvFile, WrittenLines(file), NEW flags \in SUBSET Field
  PROVE  AnswerLines(Flagged(LoadedConfig(file), flags)) = Flagged(file.line, flags)
<1>1. file.line \in [Field -> Value \cup {"absent"}]
  BY DEF EnvFile
<1>2. \A f \in Field : LoadedConfig(file)[f] = IF file.line[f] # "absent" THEN file.line[f] ELSE "skip"
  BY <1>1 DEF LoadedConfig, WrittenLines, Field
<1>3. \A f \in Field : Flagged(LoadedConfig(file), flags)[f] = IF f \in flags THEN "chosen" ELSE LoadedConfig(file)[f]
  BY DEF Flagged
<1>4. \A f \in Field : AnswerLines(Flagged(LoadedConfig(file), flags))[f] = IF f \in flags THEN "chosen" ELSE file.line[f]
  BY <1>1, <1>2, <1>3 DEF AnswerLines, WrittenLines, Field
<1> QED
  BY <1>4 DEF AnswerLines, Flagged

(* The backup stands in for the file that is gone. *)
LEMMA RestoredIsTyped ==
  ASSUME InstallationTypeOK
  PROVE  Restored \in EnvFile
BY DEF InstallationTypeOK, Restored

(* What an install gathers and what may be expected of it are settings. *)
LEMMA InstallBegins ==
  ASSUME InstallationTypeOK, BeginInstall
  PROVE  \/ UNCHANGED <<setup, removed>>
         \/ /\ ~removed' /\ removed' \in BOOLEAN /\ setup'.step = "backup"
            /\ \E prompts \in BOOLEAN, flags \in SUBSET Field, keeps \in {FALSE, OffersKeep} :
                 /\ setup'.answers \in Gathered(prompts, LoadedConfig(Restored), flags)
                 /\ setup'.answers \in [Field -> Value]
                 /\ setup'.expects = IF prompts /\ keeps /\ chosen.exists THEN chosen
                                     ELSE Expected(prompts, setup'.answers, flags)
            /\ setup'.expects \in EnvFile
            /\ setup' \in [step : InstallSteps \cup RemoveSteps \cup {"idle"}, answers : [Field -> Value], expects : EnvFile]
<1>1. CASE UNCHANGED <<setup, removed>>
  BY <1>1
<1>2. CASE ~UNCHANGED <<setup, removed>>
  <2>1. PICK prompts \in BOOLEAN, flags \in {{}, {"embedder"}}, keeps \in {FALSE, OffersKeep} :
          /\ removed' = FALSE
          /\ \E answers \in Gathered(prompts, LoadedConfig(Restored), flags) :
               setup' = [step |-> "backup", answers |-> answers,
                         expects |-> IF prompts /\ keeps /\ chosen.exists THEN chosen
                                     ELSE Expected(prompts, answers, flags)]
    BY <1>2, Zenon DEF BeginInstall
  <2>2. PICK answers \in Gathered(prompts, LoadedConfig(Restored), flags) :
          setup' = [step |-> "backup", answers |-> answers,
                    expects |-> IF prompts /\ keeps /\ chosen.exists THEN chosen
                                ELSE Expected(prompts, answers, flags)]
    BY <2>1, Zenon
  <2>3. flags \in SUBSET Field
    BY DEF Field
  <2>4. answers \in [Field -> Value]
    <3>1. LoadedConfig(Restored) \in [Field -> Value]
      BY RestoredIsTyped DEF LoadedConfig, EnvFile, Value
    <3> QED
      BY <3>1 DEF Gathered, Value
  <2>5. chosen \in EnvFile /\ Expected(prompts, answers, flags) \in EnvFile
    <3>1. chosen \in EnvFile
      BY DEF InstallationTypeOK
    <3>2. AnswerLines(answers) \in [Field -> Value \cup {"absent"}]
      BY <2>4 DEF AnswerLines
    <3> QED
      BY <3>1, <3>2 DEF Expected, EnvFile, Value
  <2>6. /\ setup'.step = "backup" /\ setup'.answers = answers
        /\ setup'.expects = IF prompts /\ keeps /\ chosen.exists THEN chosen
                            ELSE Expected(prompts, answers, flags)
    BY <2>2
  <2>7. setup' \in [step : InstallSteps \cup RemoveSteps \cup {"idle"}, answers : [Field -> Value], expects : EnvFile]
    BY <2>2, <2>4, <2>5 DEF InstallSteps
  <2>8. setup'.expects \in EnvFile /\ ~removed' /\ removed' \in BOOLEAN
    BY <2>1, <2>5, <2>6
  <2>9. \E p \in BOOLEAN, o \in SUBSET Field, k \in {FALSE, OffersKeep} :
          /\ setup'.answers \in Gathered(p, LoadedConfig(Restored), o)
          /\ setup'.answers \in [Field -> Value]
          /\ setup'.expects = IF p /\ k /\ chosen.exists THEN chosen ELSE Expected(p, setup'.answers, o)
    BY <2>2, <2>3, <2>4, <2>6, Zenon
  <2> QED
    BY <2>6, <2>7, <2>8, <2>9, Zenon
<1> QED
  BY <1>1, <1>2, Zenon

(* Every step of an installation keeps the types. *)
LEMMA InstallationTypes ==
  ASSUME InstallationTypeOK, [InstallationNext]_installationVars
  PROVE  InstallationTypeOK'
<1> USE InstallationAssumption
<1> USE DEF InstallationTypeOK, settingsVars, pluginVars
<1>1. CASE BeginInstall
  <2>1. /\ setup' \in [step : InstallSteps \cup RemoveSteps \cup {"idle"}, answers : [Field -> Value], expects : EnvFile]
        /\ removed' \in BOOLEAN
    BY <1>1, InstallBegins, Zenon
  <2>2. /\ env' \in EnvFile /\ setups' \in 0 .. MaxSetups
        /\ UNCHANGED <<bak, chosen, unit, up, plugin, market, marker, healing>>
    BY <1>1, RestoredIsTyped DEF BeginInstall
  <2> QED
    BY <2>1, <2>2
<1>2. CASE BackUpEnv
  BY <1>2, GoingToAStep DEF BackUpEnv, InstallSteps
<1>3. CASE WriteEnv
  BY <1>3, GoingToAStep, ComposedIsWritten DEF WriteEnv, InstallSteps
<1>4. CASE InstallService
  BY <1>4, GoingToAStep, IdleIsTyped DEF InstallService, InstallSteps
<1>5. CASE ClearRemoved
  BY <1>5, GoingToAStep DEF ClearRemoved, InstallSteps
<1>6. CASE RemoveMarketplace
  BY <1>6, GoingToAStep DEF RemoveMarketplace, InstallSteps, RemoveSteps
<1>7. CASE AddMarketplace
  BY <1>7, GoingToAStep, IdleIsTyped DEF AddMarketplace, InstallSteps
<1>8. CASE InstallPlugin
  BY <1>8, IdleIsTyped DEF InstallPlugin
<1>9. CASE BeginUninstall
  BY <1>9, GoingToAStep DEF BeginUninstall, RemoveSteps
<1>10. CASE RemoveUnits
  BY <1>10, GoingToAStep DEF RemoveUnits, RemoveSteps
<1>11. CASE RetireEnv
  BY <1>11, GoingToAStep, IdleIsTyped DEF RetireEnv, RemoveSteps
<1>12. CASE UnplugPlugin
  BY <1>12, GoingToAStep DEF UnplugPlugin, RemoveSteps
<1>13. CASE MarkRemoved
  BY <1>13, IdleIsTyped DEF MarkRemoved
<1>14. CASE Interrupted
  BY <1>14, IdleIsTyped DEF Interrupted
<1>15. CASE StartWorker \/ StopWorker \/ HealTick \/ HealAdds \/ HealInstalls
  BY <1>15 DEF StartWorker, StopWorker, HealTick, HealAdds, HealInstalls
<1>16. CASE PluginByHand
  BY <1>16 DEF PluginByHand
<1>17. CASE EditEnv
  BY <1>17 DEF EditEnv, EnvFile, Value
<1>18. CASE UNCHANGED installationVars
  BY <1>18 DEF installationVars
<1> QED
  BY <1>1, <1>2, <1>3, <1>4, <1>5, <1>6, <1>7, <1>8, <1>9, <1>10, <1>11, <1>12, <1>13, <1>14, <1>15, <1>16, <1>17, <1>18
     DEF InstallationNext

(* Before anything is installed there is nothing to lose. *)
LEMMA InstallationBegins ==
  ASSUME InstallationInit
  PROVE  SettingsInv /\ RemovalInv
<1>1. InstallationTypeOK
  <2>1. setup \in [step : InstallSteps \cup RemoveSteps \cup {"idle"}, answers : [Field -> Value], expects : EnvFile]
    BY IdleIsTyped, Zenon DEF InstallationInit
  <2>2. {env, bak, chosen} \subseteq EnvFile
    BY IdleIsTyped DEF InstallationInit
  <2>3. setups \in 0 .. MaxSetups /\ healing \in {"idle", "add", "install"}
    BY InstallationAssumption DEF InstallationInit
  <2>4. {unit, up, plugin, market, marker, removed} \subseteq BOOLEAN
    BY DEF InstallationInit
  <2> QED
    BY <2>1, <2>2, <2>3, <2>4, Zenon DEF InstallationTypeOK
<1> QED
  BY <1>1, IdleIsTyped DEF InstallationInit, SettingsInv, FilesAreChosen, RemovalInv, NobodyPutsItBack, RemoveSteps

(* An install that keeps what there is, or writes what it was told, begins with the file that was settled on. *)
LEMMA BeginningKeepsSettings ==
  ASSUME SettingsInv, BeginInstall, ~OffersKeep
  PROVE  FilesAreChosen'
<1> USE DEF SettingsInv, InstallationTypeOK
<1>1. UNCHANGED <<bak, chosen>> /\ env' = chosen /\ (chosen.exists \/ chosen = NoFile)
  BY IdleIsTyped DEF BeginInstall, Restored, FilesAreChosen
<1>2. CASE UNCHANGED <<setup, removed>>
  <2>1. setup.step = "idle"
    BY DEF BeginInstall
  <2> QED
    BY <1>1, <1>2, <2>1 DEF FilesAreChosen
<1>3. CASE ~UNCHANGED <<setup, removed>>
  <2>1. PICK prompts \in BOOLEAN, flags \in SUBSET Field, keeps \in {FALSE, OffersKeep} :
          /\ setup'.answers \in Gathered(prompts, LoadedConfig(Restored), flags)
          /\ setup'.answers \in [Field -> Value]
          /\ setup'.expects = IF prompts /\ keeps /\ chosen.exists THEN chosen
                              ELSE Expected(prompts, setup'.answers, flags)
    BY <1>3, InstallBegins, Zenon
  <2>2. setup'.expects = Expected(prompts, setup'.answers, flags)
    <3>1. ~keeps
      BY InstallationAssumption
    <3> QED
      BY <2>1, <3>1, Zenon
  <2>3. Restored = chosen
    BY <1>1 DEF BeginInstall
  <2>4. Expected(prompts, setup'.answers, flags).line = AnswerLines(setup'.answers)
    <3>1. CASE prompts \/ ~chosen.exists
      BY <3>1 DEF Expected
    <3>2. CASE ~prompts /\ chosen.exists
      <4>1. WrittenLines(chosen) /\ chosen \in EnvFile
        BY <3>2 DEF FilesAreChosen
      <4>2. setup'.answers = Flagged(LoadedConfig(chosen), flags)
        BY <2>1, <2>3, <3>2 DEF Gathered, Flagged
      <4>3. Expected(prompts, setup'.answers, flags).line = Flagged(chosen.line, flags)
        BY <3>2 DEF Expected, Flagged
      <4> QED
        BY <4>1, <4>2, <4>3, ReadingWritesBack, Zenon
    <3> QED
      BY <3>1, <3>2
  <2>5. setup'.expects = Composed(setup'.answers, env')
    BY <1>1, <2>2, <2>4 DEF Expected, Composed
  <2> QED
    BY <1>1, <2>5 DEF FilesAreChosen
<1> QED
  BY <1>2, <1>3

(* Every step of an installation keeps the files what was chosen. *)
LEMMA SettingsStep ==
  ASSUME SettingsInv, [InstallationNext]_installationVars, ~OffersKeep
  PROVE  SettingsInv'
<1>1. InstallationTypeOK'
  BY InstallationTypes DEF SettingsInv
<1> USE DEF SettingsInv, settingsVars, pluginVars
<1>2. CASE BeginInstall
  BY <1>1, <1>2, BeginningKeepsSettings
<1>3. CASE BackUpEnv
  BY <1>1, <1>3, GoingToAStep DEF BackUpEnv, InstallSteps, FilesAreChosen
<1>4. CASE WriteEnv
  <2>1. env' = chosen' /\ chosen' = Composed(setup.answers, env) /\ UNCHANGED bak
    BY <1>4 DEF WriteEnv, FilesAreChosen
  <2>2. setup.answers \in [Field -> Value] /\ env \in EnvFile
    BY DEF InstallationTypeOK
  <2>3. WrittenLines(chosen') /\ chosen'.exists
    BY <2>1, <2>2, ComposedIsWritten
  <2>4. setup'.step = "service"
    BY <1>4, GoingToAStep DEF WriteEnv, InstallSteps
  <2> QED
    BY <1>1, <2>1, <2>3, <2>4 DEF FilesAreChosen
<1>5. CASE RetireEnv
  <2>1. setup'.step = "unplug" /\ UNCHANGED chosen
    BY <1>5, GoingToAStep DEF RetireEnv, RemoveSteps
  <2> QED
    BY <1>1, <1>5, <2>1, IdleIsTyped DEF RetireEnv, FilesAreChosen
<1>6. CASE EditEnv
  <2>1. env.exists /\ setup.step = "idle" /\ chosen' = env' /\ UNCHANGED <<bak, setup>>
    BY <1>6 DEF EditEnv
  <2>2. env = chosen /\ WrittenLines(env) /\ env \in EnvFile
    BY <2>1 DEF FilesAreChosen, InstallationTypeOK
  <2>3. env'.exists /\ WrittenLines(env')
    BY <1>6, <2>2 DEF EditEnv, WrittenLines, EnvFile, Field
  <2> QED
    BY <1>1, <2>1, <2>2, <2>3 DEF FilesAreChosen
<1>7. CASE UNCHANGED settingsVars /\ setup'.step \notin {"backup", "write"}
  BY <1>1, <1>7 DEF FilesAreChosen
<1>8. CASE UNCHANGED settingsVars /\ UNCHANGED setup
  BY <1>1, <1>8 DEF FilesAreChosen
<1>9. CASE InstallService \/ ClearRemoved \/ RemoveMarketplace \/ AddMarketplace \/ InstallPlugin \/ BeginUninstall
           \/ RemoveUnits \/ UnplugPlugin \/ MarkRemoved \/ Interrupted
  <2>1. UNCHANGED settingsVars
    BY <1>9 DEF InstallService, ClearRemoved, RemoveMarketplace, AddMarketplace, InstallPlugin, BeginUninstall, RemoveUnits,
       UnplugPlugin, MarkRemoved, Interrupted
  <2>2. \/ setup' = Idle
        \/ \E step \in {"clear", "mktRemove", "mktAdd", "install", "mark", "units", "retire", "unmarket"} : To(step)
    BY <1>9 DEF InstallService, ClearRemoved, RemoveMarketplace, AddMarketplace, InstallPlugin, BeginUninstall, RemoveUnits,
       UnplugPlugin, MarkRemoved, Interrupted
  <2>3. setup'.step \notin {"backup", "write"}
    <3>1. CASE setup' = Idle
      BY <3>1, IdleIsTyped
    <3>2. ASSUME NEW step \in {"clear", "mktRemove", "mktAdd", "install", "mark", "units", "retire", "unmarket"}, To(step)
          PROVE  setup'.step \notin {"backup", "write"}
      BY <3>2, GoingToAStep DEF InstallSteps, RemoveSteps
    <3> QED
      BY <2>2, <3>1, <3>2, Zenon
  <2> QED
    BY <1>7, <2>1, <2>3, Zenon
<1>10. CASE StartWorker \/ StopWorker \/ HealTick \/ HealAdds \/ HealInstalls \/ PluginByHand
  BY <1>8, <1>10 DEF StartWorker, StopWorker, HealTick, HealAdds, HealInstalls, PluginByHand
<1>11. CASE UNCHANGED installationVars
  BY <1>8, <1>11 DEF installationVars
<1> QED
  BY <1>2, <1>3, <1>4, <1>5, <1>6, <1>9, <1>10, <1>11 DEF InstallationNext

(* Every step of an installation keeps the worker away from a plugin that is being removed, where removing the service
   ends the worker. *)
LEMMA RemovalStep ==
  ASSUME RemovalInv, [InstallationNext]_installationVars, StopsWorker
  PROVE  RemovalInv'
<1>1. InstallationTypeOK'
  BY InstallationTypes DEF RemovalInv
<1> USE DEF RemovalInv, settingsVars, pluginVars, NobodyPutsItBack
<1>2. CASE BeginInstall
  <2>1. UNCHANGED <<unit, up, plugin, marker, healing>>
    BY <1>2 DEF BeginInstall
  <2>2. UNCHANGED <<setup, removed>> \/ (~removed' /\ setup'.step = "backup")
    BY <1>2, InstallBegins, Zenon DEF RemovalInv
  <2> QED
    BY <1>1, <2>1, <2>2 DEF RemoveSteps
<1>3. CASE BackUpEnv \/ WriteEnv \/ InstallService \/ ClearRemoved \/ AddMarketplace \/ InstallPlugin
  <2>1. ~removed /\ ~removed'
    <3>1. setup.step \in InstallSteps /\ UNCHANGED removed
      BY <1>3 DEF BackUpEnv, WriteEnv, InstallService, ClearRemoved, AddMarketplace, InstallPlugin, InstallSteps
    <3> QED
      BY <3>1
  <2>2. setup' = Idle \/ \E step \in {"write", "service", "clear", "mktRemove", "install"} : To(step)
    BY <1>3 DEF BackUpEnv, WriteEnv, InstallService, ClearRemoved, AddMarketplace, InstallPlugin
  <2>3. setup'.step \notin RemoveSteps
    <3>1. CASE setup' = Idle
      BY <3>1, IdleIsTyped DEF RemoveSteps
    <3>2. ASSUME NEW step \in {"write", "service", "clear", "mktRemove", "install"}, To(step)
          PROVE  setup'.step \notin RemoveSteps
      BY <3>2, GoingToAStep DEF InstallSteps, RemoveSteps
    <3> QED
      BY <2>2, <3>1, <3>2, Zenon
  <2> QED
    BY <1>1, <2>1, <2>3
<1>4. CASE RemoveMarketplace
  <2>1. UNCHANGED <<unit, up, marker, healing, removed>> /\ (plugin' = plugin \/ ~plugin')
    BY <1>4 DEF RemoveMarketplace
  <2>2. setup'.step = IF setup.step = "mktRemove" THEN "mktAdd" ELSE "mark"
    BY <1>4, GoingToAStep DEF RemoveMarketplace, InstallSteps, RemoveSteps
  <2>3. setup.step \in {"mktRemove", "unmarket"}
    BY <1>4 DEF RemoveMarketplace
  <2> QED
    BY <1>1, <2>1, <2>2, <2>3 DEF InstallSteps, RemoveSteps
<1>5. CASE BeginUninstall
  <2>1. setup'.step = "units" /\ UNCHANGED <<unit, up, plugin, marker, healing, removed>>
    BY <1>5, GoingToAStep DEF BeginUninstall, RemoveSteps
  <2> QED
    BY <1>1, <2>1 DEF InstallSteps
<1>6. CASE RemoveUnits
  <2>1. setup'.step = "retire" /\ UNCHANGED <<plugin, marker, removed>> /\ ~unit' /\ ~up' /\ healing' = "idle"
    BY <1>6, GoingToAStep DEF RemoveUnits, RemoveSteps
  <2> QED
    BY <1>1, <2>1 DEF InstallSteps
<1>7. CASE RetireEnv
  <2>1. setup.step = "retire" /\ setup'.step = "unplug" /\ UNCHANGED <<unit, up, plugin, marker, healing, removed>>
    BY <1>7, GoingToAStep DEF RetireEnv, RemoveSteps
  <2> QED
    BY <1>1, <2>1 DEF InstallSteps, RemoveSteps
<1>8. CASE UnplugPlugin
  <2>1. /\ setup.step = "unplug" /\ setup'.step = "unmarket" /\ UNCHANGED <<unit, up, marker, healing, removed>>
        /\ (plugin' = plugin \/ ~plugin')
    BY <1>8, GoingToAStep DEF UnplugPlugin, RemoveSteps
  <2> QED
    BY <1>1, <2>1 DEF InstallSteps, RemoveSteps
<1>9. CASE MarkRemoved
  <2>1. setup.step = "mark" /\ setup'.step = "idle" /\ UNCHANGED <<plugin, healing>> /\ marker' /\ removed' = ~plugin
    BY <1>9, IdleIsTyped DEF MarkRemoved
  <2> QED
    BY <1>1, <2>1 DEF InstallSteps, RemoveSteps
<1>10. CASE Interrupted
  <2>1. setup'.step = "idle" /\ UNCHANGED <<plugin, marker, healing, removed>>
    BY <1>10, IdleIsTyped DEF Interrupted
  <2> QED
    BY <1>1, <2>1 DEF InstallSteps, RemoveSteps
<1>11. CASE StartWorker
  BY <1>1, <1>11 DEF StartWorker, RemoveSteps
<1>12. CASE StopWorker
  BY <1>1, <1>12 DEF StopWorker
<1>13. CASE HealTick
  BY <1>1, <1>13 DEF HealTick
<1>14. CASE HealAdds \/ HealInstalls
  BY <1>1, <1>14 DEF HealAdds, HealInstalls
<1>15. CASE PluginByHand
  BY <1>1, <1>15 DEF PluginByHand
<1>16. CASE EditEnv
  BY <1>1, <1>16 DEF EditEnv
<1>17. CASE UNCHANGED installationVars
  BY <1>1, <1>17 DEF installationVars
<1> QED
  BY <1>2, <1>3, <1>4, <1>5, <1>6, <1>7, <1>8, <1>9, <1>10, <1>11, <1>12, <1>13, <1>14, <1>15, <1>16, <1>17
     DEF InstallationNext

-----------------------------------------------------------------------------
(* Promotion                                                               *)

(* What is stamped promoted has its memory, and nothing else is stamped but verdicts. *)
PromotedInv == stamp \in [Obs -> SUBSET {"promoted", "declined"}] /\ PromotedIsWritten

(* Nothing is stamped at first. *)
LEMMA UpkeepBegins == ASSUME UpkeepInit PROVE PromotedInv
BY DEF UpkeepInit, PromotedInv, PromotedIsWritten

(* The tide and the links stamp nothing and write no memory. *)
LEMMA TideKeepsPromoted == ASSUME PromotedInv, [TideNext \/ LinkNext]_upkeepVars PROVE PromotedInv'
<1> USE DEF PromotedInv, PromotedIsWritten, promotionVars, linkVars, tideVars
<1>1. CASE TideNext
  BY <1>1 DEF TideNext, DayPasses, StartSweep, SweepRow, NextTier, EndSweep, Recall, RestoreObservation
<1>2. CASE LinkNext
  BY <1>2 DEF LinkNext, StartLinking, LinkSupersede, Recall, UnlinkSupersede
<1>3. CASE UNCHANGED upkeepVars
  BY <1>3 DEF upkeepVars
<1> QED
  BY <1>1, <1>2, <1>3

(* A slice stamps a row promoted after its memory is written, however it is cut off. *)
LEMMA PromotionStep == ASSUME PromotedInv, [PromotionNext]_upkeepVars PROVE PromotedInv'
<1> USE DEF PromotedInv, PromotedIsWritten, promotionVars
<1>1. ASSUME NEW s \in Slicer, StartSlice(s) \/ JudgeFails(s) \/ EndSlice(s)
      PROVE  PromotedInv'
  BY <1>1 DEF StartSlice, JudgeFails, EndSlice
<1>2. ASSUME NEW s \in Slicer, JudgeAnswers(s)
      PROVE  PromotedInv'
  <2>1. UNCHANGED memory /\ (stamp' = stamp \/ \E rows : stamp' = [o \in Obs |-> IF o \in rows THEN stamp[o] \cup {"declined"} ELSE stamp[o]])
    BY <1>2 DEF JudgeAnswers
  <2> QED
    BY <2>1
<1>3. ASSUME NEW s \in Slicer, ActOnKeep(s)
      PROVE  PromotedInv'
  <2>1. UNCHANGED <<stamp, memory>> \/ \E o : WriteAndStamp(o, TRUE) \/ WriteAndStamp(o, FALSE)
    BY <1>3 DEF ActOnKeep
  <2> QED
    BY <2>1 DEF WriteAndStamp
<1>4. CASE KilledBetween
  BY <1>4 DEF KilledBetween
<1>5. CASE UNCHANGED upkeepVars
  BY <1>5 DEF upkeepVars
<1> QED
  BY <1>1, <1>2, <1>3, <1>4, <1>5 DEF PromotionNext

-----------------------------------------------------------------------------
(* The deploy guard                                                        *)

(* What a session may take for known it has had in its hands. *)
HeldIsKnown ==
  /\ copy \in [Deployer -> Int]
  /\ held \in [Deployer -> SUBSET Int]
  /\ base \in [Deployer -> [Key -> Seq(Int)]]
  /\ \A s \in Deployer :
       /\ 0 \in held[s] /\ copy[s] \in held[s]
       /\ \A k \in Key : base[s][k] \in Seq(held[s])

(* The server and the claims. Two sessions claim one name only by an override. *)
ClaimsAreExclusive ==
  /\ claim \in [Deployer -> SUBSET (Host \X RemotePath)]
  /\ \A s, t \in Deployer : s # t => claim[s] \cap claim[t] \subseteq forced

(* What a session keeps of the command it is at. *)
Copies == UNION {[D -> Copy] : D \in SUBSET Nat}
Shell == [phase : {"idle", "parsed", "checked", "running"}, override : SUBSET Key, lifted : SUBSET Key,
          uploads : Copies, vouched : SUBSET Key, command : Seq(Copy), left : Seq(Copy)]

ShellTypes ==
  /\ isDir \in BOOLEAN
  /\ server \in [RemotePath -> [content : Int, late : SUBSET Deployer]]
  /\ versions \in Int
  /\ shell \in [Deployer -> Shell]

(* A name is vouched for while a command is under way, and what an upload to it would destroy is known, or came too late. *)
VouchedIsKnown ==
  \A s \in Deployer :
    /\ shell[s].phase \in {"idle", "parsed"} => shell[s].vouched = {}
    /\ \A k \in shell[s].vouched :
         s \in server[k[2]].late \/ server[k[2]].content \in held[s] \cup {Missing}

DeployInv == HeldIsKnown /\ ClaimsAreExclusive /\ ShellTypes /\ VouchedIsKnown

(* Recording a content among those of a list keeps them all of a kind. *)
LEMMA RecordedIsThere ==
  ASSUME NEW S, NEW list \in Seq(S), NEW content \in S
  PROVE  Recorded(list, content) \in Seq(S)
<1>1. Without(list, content) \in Seq(S)
  <2>1. CASE content \in ToSet(list)
    <3> DEFINE at == CHOOSE i \in DOMAIN list : list[i] = content
    <3>1. at \in 1 .. Len(list)
      BY <2>1 DEF ToSet
    <3>2. SubSeq(list, 1, at - 1) \in Seq(S) /\ SubSeq(list, at + 1, Len(list)) \in Seq(S)
      <4>1. SubSeq(list, 1, at - 1) \in Seq(S)
        BY <3>1, \A i \in 1 .. at - 1 : list[i] \in S, SubSeqProperties
      <4>2. SubSeq(list, at + 1, Len(list)) \in Seq(S)
        BY <3>1, \A i \in at + 1 .. Len(list) : list[i] \in S, SubSeqProperties
      <4> QED
        BY <4>1, <4>2
    <3> HIDE DEF at
    <3>3. RemoveAt(list, at) \in Seq(S)
      BY <3>2 DEF RemoveAt
    <3> QED
      BY <2>1, <3>3 DEF Without, at
  <2> QED
    BY <2>1 DEF Without
<1>2. Append(Without(list, content), content) \in Seq(S) /\ Append(Without(list, content), content) # <<>>
  BY <1>1
<1>3. Tail(Append(Without(list, content), content)) \in Seq(S)
  BY <1>2
<1> QED
  BY <1>2, <1>3 DEF Recorded

(* So does recording it under names. *)
LEMMA RecordingIsTyped ==
  ASSUME NEW S, NEW b \in [Key -> Seq(S)], NEW keys, NEW content \in S
  PROVE  RecordedAt(b, keys, content) \in [Key -> Seq(S)]
<1>1. \A k \in Key : Recorded(b[k], content) \in Seq(S)
  BY RecordedIsThere
<1> QED
  BY <1>1 DEF RecordedAt

(* A list of what a session had in its hands stays one when it has more. *)
LEMMA HandsGrow ==
  ASSUME NEW S, NEW T, S \subseteq T, NEW q \in Seq(S)
  PROVE  q \in Seq(T)
BY SeqMonotonic

(* No session has had anything but the empty copy, and none is at a command. *)
LEMMA DeployBegins == ASSUME DeployInit PROVE DeployInv
<1> USE DEF DeployInit
<1>1. HeldIsKnown
  BY DEF HeldIsKnown
<1>2. ClaimsAreExclusive
  BY DEF ClaimsAreExclusive
<1>3. ShellTypes
  <2>1. <<>> \in [{} -> Copy] /\ <<>> \in Seq(Copy)
    OBVIOUS
  <2>2. NoRun \in Shell
    BY <2>1 DEF NoRun, Shell, Copies
  <2> QED
    BY <2>2 DEF ShellTypes, Missing
<1>4. VouchedIsKnown
  BY DEF VouchedIsKnown, NoRun
<1> QED
  BY <1>1, <1>2, <1>3, <1>4 DEF DeployInv

(* No command is one a session can be at. *)
LEMMA NothingRuns == NoRun \in Shell
<1>1. <<>> \in [{} -> Copy] /\ <<>> \in Seq(Copy)
  OBVIOUS
<1> QED
  BY <1>1 DEF NoRun, Shell, Copies

(* A session that is at no command has nothing vouched for. *)
LEMMA OverAgain ==
  ASSUME DeployInv, NEW s \in Deployer, shell' = [shell EXCEPT ![s] = NoRun],
         UNCHANGED <<isDir, server, held, versions>>
  PROVE  ShellTypes' /\ VouchedIsKnown'
<1>1. ShellTypes'
  BY NothingRuns DEF DeployInv, ShellTypes
<1>2. \A t \in Deployer : shell'[t] = IF t = s THEN NoRun ELSE shell[t]
  BY DEF DeployInv, ShellTypes
<1>3. VouchedIsKnown'
  BY <1>2 DEF DeployInv, VouchedIsKnown, NoRun
<1> QED
  BY <1>1, <1>3

(* A session that edits its copy has one more content in its hands. *)
LEMMA EditKeeps ==
  ASSUME DeployInv, NEW s \in Deployer, Edit(s)
  PROVE  DeployInv'
<1> USE DEF Edit, DeployInv
<1>1. versions' \in Int /\ \A t \in Deployer : held[t] \subseteq held'[t]
  BY DEF ShellTypes, HeldIsKnown
<1>2. HeldIsKnown'
  BY <1>1, HandsGrow DEF HeldIsKnown
<1>3. VouchedIsKnown'
  BY <1>1 DEF VouchedIsKnown
<1> QED
  BY <1>1, <1>2, <1>3 DEF ShellTypes, ClaimsAreExclusive

(* A command that is read is typed, and nothing of it is vouched for yet. *)
LEMMA ReadingKeeps ==
  ASSUME DeployInv, NEW s \in Deployer, ReadOverrides(s)
  PROVE  DeployInv'
<1> USE DEF DeployInv
<1>1. PICK c \in Command, override \in {{}} \cup {{k} : k \in MayLift}, answered \in BOOLEAN :
        shell' = [shell EXCEPT ![s] =
                 [phase |-> IF DOMAIN Uploads(c) = {} THEN "running" ELSE "parsed",
                  override |-> override, lifted |-> IF answered THEN override ELSE {},
                  uploads |-> Uploads(c), vouched |-> {}, command |-> c, left |-> c]]
  BY DEF ReadOverrides
<1> DEFINE new == [phase |-> IF DOMAIN Uploads(c) = {} THEN "running" ELSE "parsed",
                  override |-> override, lifted |-> IF answered THEN override ELSE {},
                  uploads |-> Uploads(c), vouched |-> {}, command |-> c, left |-> c]
<1>2. c \in Seq(Copy) /\ override \subseteq Key
  BY DeployAssumption
<1>3. Uploads(c) \in Copies
  <2> DEFINE D == {j \in DOMAIN c : c[j].verb = "put" /\ c[j].plain}
  <2>1. D \in SUBSET Nat /\ \A i \in D : c[i] \in Copy
    BY <1>2
  <2>2. Uploads(c) \in [D -> Copy]
    BY <2>1 DEF Uploads, Plain
  <2> HIDE DEF D
  <2> QED
    BY <2>1, <2>2 DEF Copies
<1>4. new \in Shell
  BY <1>2, <1>3 DEF Shell
<1>5. new.vouched = {}
  OBVIOUS
<1> HIDE DEF new
<1>6. shell' = [shell EXCEPT ![s] = new]
  BY <1>1 DEF new
<1>7. ShellTypes'
  BY <1>4, <1>6 DEF ShellTypes, ReadOverrides
<1>8. VouchedIsKnown'
  BY <1>5, <1>6 DEF VouchedIsKnown, ShellTypes, ReadOverrides
<1> QED
  BY <1>7, <1>8 DEF ReadOverrides, HeldIsKnown, ClaimsAreExclusive

(* What the check resolves is made of copies. *)
LEMMA ResolvedCopies ==
  ASSUME DeployInv, NEW s \in Deployer
  PROVE  /\ Resolved(s) \in Copies
         /\ \A i \in Checked(s) : Resolved(s)[i] \in Copy /\ NameOf(Resolved(s)[i]) \in Key
<1>1. shell[s].uploads \in Copies
  BY DEF DeployInv, ShellTypes, Shell
<1>2. PICK D \in SUBSET Nat : shell[s].uploads \in [D -> Copy]
  BY <1>1 DEF Copies
<1>3. ASSUME NEW c \in Copy PROVE Target(c) \in Copy /\ NameOf(c) \in Key
  BY DEF Target, Copy, RemotePath, NameOf, Key
<1>4. Resolved(s) \in [D -> Copy]
  BY <1>2, <1>3 DEF Resolved
<1>5. Checked(s) \subseteq D
  BY <1>2 DEF Checked, Unlifted
<1> QED
  BY <1>3, <1>4, <1>5 DEF Copies

(* What the check vouches for is what it has just found known, missing or lifted. *)
LEMMA CheckKeeps ==
  ASSUME DeployInv, NEW s \in Deployer, CheckAnswered(s)
  PROVE  DeployInv'
<1> DEFINE names == {NameOf(Resolved(s)[i]) : i \in Checked(s)}
<1>1. CASE Denied(s)
  <2>1. shell' = [shell EXCEPT ![s] = NoRun] /\ UNCHANGED <<base, server, isDir, copy, held, claim, forced, versions>>
    BY <1>1 DEF CheckAnswered
  <2> QED
    BY <2>1, OverAgain DEF DeployInv, HeldIsKnown, ClaimsAreExclusive
<1>2. CASE ~Denied(s)
  <2>1. /\ base' = [base EXCEPT ![s] = RecordedAt(@, names, copy[s])]
        /\ server' = [p \in RemotePath |-> [server[p] EXCEPT !.late = @ \ {s}]]
        /\ shell' = [shell EXCEPT ![s].phase = "checked", ![s].uploads = Resolved(s),
                                ![s].vouched = names \ shell[s].lifted]
        /\ UNCHANGED <<isDir, copy, held, claim, forced, versions>>
    BY <1>2 DEF CheckAnswered
  <2>2. HeldIsKnown'
    <3>1. RecordedAt(base[s], names, copy[s]) \in [Key -> Seq(held[s])]
      BY RecordingIsTyped DEF DeployInv, HeldIsKnown
    <3>2. RecordedAt(base[s], names, copy[s]) \in [Key -> Seq(Int)]
      BY RecordingIsTyped DEF DeployInv, HeldIsKnown
    <3> QED
      BY <2>1, <3>1, <3>2 DEF DeployInv, HeldIsKnown
  <2>3. names \subseteq Key
    BY ResolvedCopies
  <2> HIDE DEF names
  <2>4. ShellTypes'
    <3>1. server' \in [RemotePath -> [content : Int, late : SUBSET Deployer]]
      BY <2>1 DEF DeployInv, ShellTypes
    <3>2. Resolved(s) \in Copies /\ names \ shell[s].lifted \subseteq Key
      BY <2>3, ResolvedCopies
    <3>3. [shell[s] EXCEPT !.phase = "checked", !.uploads = Resolved(s), !.vouched = names \ shell[s].lifted] \in Shell
      BY <3>2 DEF DeployInv, ShellTypes, Shell
    <3> QED
      BY <2>1, <3>1, <3>3 DEF DeployInv, ShellTypes
  <2>5. VouchedIsKnown'
    <3>1. ASSUME NEW k \in names \ shell[s].lifted
          PROVE  server'[k[2]].content \in held[s] \cup {Missing}
      <4>1. PICK i \in Checked(s) : k = NameOf(Resolved(s)[i])
        BY <3>1 DEF names
      <4>2. Resolved(s)[i] \in Copy /\ k \in Key
        BY <4>1, ResolvedCopies
      <4>3. server[Resolved(s)[i].path].content \in Known(s, k) \cup {Missing}
        BY <1>2, <3>1, <4>1 DEF Denied
      <4>4. Known(s, k) \subseteq held[s]
        BY <4>2 DEF Known, ToSet, DeployInv, HeldIsKnown
      <4>5. k[2] = Resolved(s)[i].path /\ k[2] \in RemotePath
        BY <4>1, <4>2 DEF NameOf, Copy
      <4> QED
        BY <2>1, <4>3, <4>4, <4>5 DEF DeployInv, ShellTypes
    <3>2. \A t \in Deployer \ {s} : shell'[t] = shell[t]
      BY <2>1 DEF DeployInv, ShellTypes
    <3>3. shell'[s].vouched = names \ shell[s].lifted /\ shell'[s].phase = "checked"
      BY <2>1 DEF DeployInv, ShellTypes, Shell
    <3>4. \A p \in RemotePath, t \in Deployer \ {s} :
            server'[p].content = server[p].content /\ (t \in server[p].late => t \in server'[p].late)
      BY <2>1 DEF DeployInv, ShellTypes
    <3>5. \A t \in Deployer : \A k \in shell[t].vouched : k[2] \in RemotePath
      BY DEF DeployInv, ShellTypes, Shell, Key
    <3>6. ASSUME NEW t \in Deployer \ {s}, NEW k \in shell'[t].vouched
          PROVE  t \in server'[k[2]].late \/ server'[k[2]].content \in held[t] \cup {Missing}
      <4>1. k \in shell[t].vouched /\ k[2] \in RemotePath
        BY <3>2, <3>5, <3>6
      <4> QED
        BY <3>4, <4>1 DEF DeployInv, VouchedIsKnown
    <3>7. \A t \in Deployer \ {s} : shell'[t].phase \in {"idle", "parsed"} => shell'[t].vouched = {}
      BY <3>2 DEF DeployInv, VouchedIsKnown
    <3> QED
      BY <2>1, <3>1, <3>3, <3>6, <3>7 DEF VouchedIsKnown
  <2> QED
    BY <2>1, <2>2, <2>4, <2>5 DEF DeployInv, ClaimsAreExclusive
<1> QED
  BY <1>1, <1>2

(* A step that leaves the server and only makes the phase a later one. *)
LEMMA FurtherOn ==
  ASSUME DeployInv, NEW s \in Deployer, NEW ph \in {"checked", "running"}, shell' = [shell EXCEPT ![s].phase = ph],
         UNCHANGED <<isDir, server, held, versions>>
  PROVE  ShellTypes' /\ VouchedIsKnown'
<1>1. ShellTypes'
  <2>1. shell \in [Deployer -> Shell] /\ [shell[s] EXCEPT !.phase = ph] \in Shell
    BY DEF DeployInv, ShellTypes, Shell
  <2>2. shell' \in [Deployer -> Shell]
    BY <2>1
  <2> QED
    BY <2>2 DEF DeployInv, ShellTypes
<1>2. \A t \in Deployer : shell'[t].vouched = shell[t].vouched /\ shell'[t].phase \in {shell[t].phase, ph}
  BY DEF DeployInv, ShellTypes, Shell
<1>3. VouchedIsKnown'
  BY <1>2 DEF DeployInv, VouchedIsKnown
<1> QED
  BY <1>1, <1>3

(* A check that fails records what a session had, and vouches for nothing more. *)
LEMMA UncheckedKeeps ==
  ASSUME DeployInv, NEW s \in Deployer, CheckFails(s)
  PROVE  DeployInv'
<1> DEFINE names == {NameOf(shell[s].uploads[i]) : i \in Checked(s)}
<1>1. ShellTypes' /\ VouchedIsKnown'
  BY FurtherOn DEF CheckFails
<1>2. base' = [base EXCEPT ![s] = RecordedAt(@, names, copy[s])] \/ UNCHANGED base
  BY DEF CheckFails
<1>3. HeldIsKnown'
  <2>1. RecordedAt(base[s], names, copy[s]) \in [Key -> Seq(held[s])] /\ RecordedAt(base[s], names, copy[s]) \in [Key -> Seq(Int)]
    BY RecordingIsTyped DEF DeployInv, HeldIsKnown
  <2> HIDE DEF names
  <2> QED
    BY <1>2, <2>1 DEF DeployInv, HeldIsKnown, CheckFails
<1> QED
  BY <1>1, <1>3 DEF DeployInv, ClaimsAreExclusive, CheckFails

(* A name is claimed twice only when the second session overrides, and then it is noted as forced. *)
LEMMA ClaimsKeep ==
  ASSUME DeployInv, NEW s \in Deployer, Claims(s) \/ ClaimFails(s) \/ ClaimEnds(s)
  PROVE  DeployInv'
<1> USE DEF DeployInv
<1>1. CASE Claims(s)
  <2> DEFINE contested == {k \in Touched(s) \ claim[s] : \E t \in Deployer \ {s} : k \in claim[t]}
  <2>1. CASE contested \ shell[s].override # {}
    BY <1>1, <2>1, OverAgain DEF Claims, HeldIsKnown, ClaimsAreExclusive
  <2>2. CASE contested \ shell[s].override = {}
    <3>1. /\ claim' = [claim EXCEPT ![s] = @ \cup Touched(s)]
          /\ forced' = forced \cup contested
          /\ shell' = [shell EXCEPT ![s].phase = "running"]
          /\ UNCHANGED <<isDir, server, copy, held, base, versions>>
      BY <1>1, <2>2 DEF Claims
    <3>2. Touched(s) \subseteq Key
      <4>1. shell[s].uploads \in Copies
        BY DEF ShellTypes, Shell
      <4>2. PICK D \in SUBSET Nat : shell[s].uploads \in [D -> Copy]
        BY <4>1 DEF Copies
      <4>3. \A c \in Copy : NameOf(c) \in Key
        BY DEF NameOf, Copy, Key
      <4> QED
        BY <4>2, <4>3 DEF Touched, RemoteNames
    <3>3. ClaimsAreExclusive'
      <4>1. claim' \in [Deployer -> SUBSET (Host \X RemotePath)]
        BY <3>1, <3>2 DEF ClaimsAreExclusive, Key
      <4>2. \A t \in Deployer \ {s} : claim'[s] \cap claim[t] \subseteq forced \cup contested
        BY <3>1 DEF ClaimsAreExclusive
      <4> QED
        BY <3>1, <4>1, <4>2 DEF ClaimsAreExclusive
    <3> QED
      BY <3>1, <3>3, FurtherOn DEF HeldIsKnown
  <2> QED
    BY <2>1, <2>2
<1>2. CASE ClaimFails(s)
  BY <1>2, FurtherOn DEF ClaimFails, HeldIsKnown, ClaimsAreExclusive
<1>3. CASE ClaimEnds(s)
  BY <1>3 DEF ClaimEnds, HeldIsKnown, ClaimsAreExclusive, ShellTypes, VouchedIsKnown
<1> QED
  BY <1>1, <1>2, <1>3

(* One copy less to make. *)
LEMMA CopyIsMade ==
  ASSUME DeployInv, NEW s \in Deployer, shell' = [shell EXCEPT ![s].left = Tail(@)], shell[s].left # <<>>
  PROVE  shell' \in [Deployer -> Shell]
<1>1. shell[s] \in Shell /\ shell[s].left \in Seq(Copy)
  BY DEF DeployInv, ShellTypes, Shell
<1>2. Tail(shell[s].left) \in Seq(Copy)
  BY <1>1
<1>3. [shell[s] EXCEPT !.left = Tail(@)] \in Shell
  BY <1>1, <1>2 DEF Shell
<1>4. shell' = [shell EXCEPT ![s] = [shell[s] EXCEPT !.left = Tail(@)]]
  OBVIOUS
<1> QED
  BY <1>3, <1>4 DEF DeployInv, ShellTypes

(* An upload comes too late for every other session with something vouched for: none of them can have the same claim. *)
LEMMA UploadKeeps ==
  ASSUME DeployInv, NEW s \in Deployer, Upload(s)
  PROVE  DeployInv'
<1> DEFINE c == NextCopy(s)
           claimed == NameOf(c) \in claim[s] \ (forced \cup shell[s].override)
           late == TooLateFor(NameOf(c), claimed) \ {s}
<1>1. /\ server' = [server EXCEPT ![c.path] = [content |-> copy[s], late |-> late]]
      /\ shell' = [shell EXCEPT ![s].left = Tail(@)] /\ shell[s].left # <<>>
      /\ UNCHANGED <<isDir, copy, held, base, claim, forced, versions>>
  BY DEF Upload
<1>2. late \subseteq Deployer
  BY DEF TooLateFor
<1>3. \A t \in Deployer : shell'[t].vouched = shell[t].vouched /\ shell'[t].phase = shell[t].phase
  BY <1>1 DEF DeployInv, ShellTypes, Shell
<1>4. ASSUME NEW t \in Deployer \ {s}, shell[t].vouched # {} PROVE t \in late
  <2>1. shell[t].phase \in {"checked", "running"}
    BY <1>4 DEF DeployInv, ShellTypes, Shell, VouchedIsKnown
  <2>2. ~(claimed /\ NameOf(c) \in claim[t])
    BY DEF DeployInv, ClaimsAreExclusive
  <2> QED
    BY <2>1, <2>2 DEF TooLateFor
<1>5. ShellTypes'
  <2>1. copy[s] \in Int
    BY DEF DeployInv, HeldIsKnown
  <2>2. server' \in [RemotePath -> [content : Int, late : SUBSET Deployer]]
    BY <1>1, <1>2, <2>1 DEF DeployInv, ShellTypes
  <2> QED
    BY <1>1, <2>2, CopyIsMade DEF DeployInv, ShellTypes
<1>6. VouchedIsKnown'
  <2>1. ASSUME NEW t \in Deployer, NEW k \in shell[t].vouched
        PROVE  t \in server'[k[2]].late \/ server'[k[2]].content \in held[t] \cup {Missing}
    <3>1. k[2] \in RemotePath
      BY DEF DeployInv, ShellTypes, Shell, Key
    <3>2. CASE k[2] = c.path
      <4>1. server'[k[2]] = [content |-> copy[s], late |-> late]
        BY <1>1, <3>1, <3>2 DEF DeployInv, ShellTypes
      <4>2. copy[s] \in held[s]
        BY DEF DeployInv, HeldIsKnown
      <4> QED
        BY <1>4, <2>1, <4>1, <4>2
    <3>3. CASE k[2] # c.path
      BY <1>1, <3>1, <3>3 DEF DeployInv, ShellTypes, VouchedIsKnown
    <3> QED
      BY <3>2, <3>3
  <2> QED
    BY <1>1, <1>3, <2>1 DEF DeployInv, VouchedIsKnown
<1> QED
  BY <1>1, <1>5, <1>6 DEF DeployInv, HeldIsKnown, ClaimsAreExclusive

(* A download is in the hands of its session. *)
LEMMA DownloadKeeps ==
  ASSUME DeployInv, NEW s \in Deployer, Download(s)
  PROVE  DeployInv'
<1> DEFINE got == server[NextCopy(s).path].content
<1>1. /\ copy' = [copy EXCEPT ![s] = got] /\ held' = [held EXCEPT ![s] = @ \cup {got}]
      /\ shell' = [shell EXCEPT ![s].left = Tail(@)] /\ shell[s].left # <<>>
      /\ UNCHANGED <<isDir, server, base, claim, forced, versions>>
  BY DEF Download
<1>2. got \in Int
  <2>1. Head(shell[s].left) \in Copy
    BY <1>1 DEF DeployInv, ShellTypes, Shell
  <2>2. NextCopy(s).path \in RemotePath
    BY <2>1 DEF NextCopy, Target, Copy, RemotePath
  <2> QED
    BY <2>2 DEF DeployInv, ShellTypes
<1> HIDE DEF got
<1>3. \A t \in Deployer : held[t] \subseteq held'[t]
  BY <1>1 DEF DeployInv, HeldIsKnown
<1>4. HeldIsKnown'
  BY <1>1, <1>2, <1>3, HandsGrow DEF DeployInv, HeldIsKnown
<1>5. \A t \in Deployer : shell'[t].vouched = shell[t].vouched /\ shell'[t].phase = shell[t].phase
  BY <1>1 DEF DeployInv, ShellTypes, Shell
<1>6. ShellTypes'
  BY <1>1, CopyIsMade DEF DeployInv, ShellTypes
<1>7. VouchedIsKnown'
  BY <1>1, <1>3, <1>5 DEF DeployInv, VouchedIsKnown
<1> QED
  BY <1>1, <1>4, <1>6, <1>7 DEF DeployInv, ClaimsAreExclusive

(* A command that ends records what it brought, which its session had in its hands. *)
LEMMA EndKeeps ==
  ASSUME DeployInv, NEW s \in Deployer, CommandEnds(s)
  PROVE  DeployInv'
<1> DEFINE names == RemoteNames(Downloads(shell[s].command))
<1>1. RecordedAt(base[s], names, copy[s]) \in [Key -> Seq(held[s])] /\ RecordedAt(base[s], names, copy[s]) \in [Key -> Seq(Int)]
  BY RecordingIsTyped DEF DeployInv, HeldIsKnown
<1>2. base' = [base EXCEPT ![s] = RecordedAt(@, names, copy[s])]
  BY DEF CommandEnds
<1> HIDE DEF names
<1>3. HeldIsKnown'
  BY <1>1, <1>2 DEF DeployInv, HeldIsKnown, CommandEnds
<1> QED
  BY <1>3, OverAgain DEF DeployInv, ClaimsAreExclusive, CommandEnds

(* What somebody else puts there comes too late for whatever is vouched for. *)
LEMMA OutsiderKeeps ==
  ASSUME DeployInv, Outsider
  PROVE  DeployInv'
<1>1. PICK q \in RemotePath :
        server' = [server EXCEPT ![q] = [content |-> versions', late |-> TooLateFor(<<"", q>>, FALSE)]]
  BY DEF Outsider
<1>2. \A t \in Deployer : shell[t].vouched # {} => t \in TooLateFor(<<"", q>>, FALSE)
  BY DEF DeployInv, ShellTypes, Shell, VouchedIsKnown, TooLateFor
<1>3. TooLateFor(<<"", q>>, FALSE) \subseteq Deployer
  BY DEF TooLateFor
<1>4. versions' \in Int
  <2>1. versions' = versions + 1
    BY DEF Outsider
  <2> QED
    BY <2>1 DEF DeployInv, ShellTypes
<1>5. ShellTypes'
  BY <1>1, <1>3, <1>4 DEF DeployInv, ShellTypes, Outsider
<1>6. \A t \in Deployer : \A k \in shell[t].vouched : k[2] \in RemotePath
  BY DEF DeployInv, ShellTypes, Shell, Key
<1>7. VouchedIsKnown'
  BY <1>1, <1>2, <1>6 DEF DeployInv, VouchedIsKnown, ShellTypes, Outsider
<1> QED
  BY <1>5, <1>7 DEF DeployInv, HeldIsKnown, ClaimsAreExclusive, Outsider

(* Every step of the deploy guard keeps it. *)
LEMMA DeployStep ==
  ASSUME DeployInv, [DeployNext]_deployVars
  PROVE  DeployInv'
<1>1. CASE UNCHANGED deployVars
  BY <1>1 DEF deployVars, DeployInv, HeldIsKnown, ClaimsAreExclusive, ShellTypes, VouchedIsKnown
<1> QED
  BY <1>1, EditKeeps, ReadingKeeps, CheckKeeps, UncheckedKeeps, ClaimsKeep, UploadKeeps, DownloadKeeps, EndKeeps, OutsiderKeeps
     DEF DeployNext

(* Nothing unknown is destroyed. *)
LEMMA NothingUnknown ==
  ASSUME DeployInv, NEW s \in Deployer
  PROVE  ~Destroys(s)
BY DEF DeployInv, VouchedIsKnown, Destroys, NameOf

-----------------------------------------------------------------------------
(* Connecting a tool                                                       *)

AtMostOne == {<<>>} \cup {<<p>> : p \in Path}
(* A configuration file, with what others have in it. *)
File == [state : {"absent", "text", "odd", "broken"}, mine : AtMostOne, hooks : AtMostOne, theirs : SUBSET Entry,
         approval : {"unset", "always", "ask"}, block : SUBSET Model, own : SUBSET Model, default : Model \cup {"none"}]
(* A connect under way. *)
Connect == [at : 0 .. 5, read : File \cup {NotRead}, here : Path, mcp : {"none", "added", "present", "failed"},
            capture : {"none", "rollout", "native", "failed"}, models : SUBSET Model, alone : BOOLEAN]
(* What others put in a file. *)
Entered == [theirs : SUBSET Entry, own : SUBSET Model, asks : BOOLEAN]

CrossTables ==
  /\ tool \in Tool /\ path \in Path /\ pulled \in SUBSET Model
  /\ doc \in [ToolFile -> File] /\ connect \in Connect /\ entered \in [ToolFile -> Entered]

(* What a merge starts afresh has nothing of others in it. *)
IsBare(d) == d.state = "odd" => d.theirs = {} /\ d.own = {} /\ d.approval = "unset"

OddFilesAreBare ==
  tool # "kimi2" => (\A f \in ToolFile : IsBare(doc[f])) /\ (connect.read # NotRead => IsBare(connect.read))

(* While nobody else writes, a connect has read what is there, but for the approval that the worker may write. *)
SameAs(d, e) == d.mine = e.mine /\ d.hooks = e.hooks /\ d.block = e.block /\ d.own = e.own /\ d.default = e.default

ReadIsCurrent ==
  connect.read # NotRead =>
    /\ connect.at \in DOMAIN Steps[tool]
    /\ Steps[tool][connect.at] = "register" => tool \notin OwnCommand
    /\ connect.alone => SameAs(connect.read, doc[FileOf(Steps[tool][connect.at])])

IsRegistered ==
  connect.alone /\ (connect.mcp = "added" \/ (connect.mcp = "present" /\ tool \notin OwnCommand \cup {"vibe"}))
    => doc["main"].mine = <<connect.here>>

HooksAre(hooks) == hooks = <<connect.here>> \/ (tool = "claude" /\ hooks # <<>>)
HookTools == {"codex", "gemini", "kimi1", "kimi2", "claude"}

IsHooked ==
  connect.capture = "native" => tool \in HookTools /\ (connect.alone => HooksAre(doc[FileOf("hooks")].hooks))

TablesAreNamed(d, models) == d.block \cap d.own = {} /\ ("chat" \in models => d.default \in d.block \cup d.own)

ModelsAreNamed ==
  tool = "kimi1" /\ connect.alone /\ connect.at > 1 /\ connect.models # {} => TablesAreNamed(doc["side"], connect.models)

CrossInv ==
  /\ CrossTables /\ OddFilesAreBare /\ OthersKeepTheirs /\ ReadIsCurrent /\ IsRegistered /\ IsHooked /\ ModelsAreNamed

(* Which tools have which steps, and that Kimi's models come first. *)
LEMMA StepsOfTools ==
  ASSUME tool \in Tool
  PROVE  /\ DOMAIN Steps[tool] = 1 .. Len(Steps[tool]) /\ Len(Steps[tool]) \in 1 .. 4 /\ (tool = "kimi1" => Len(Steps[tool]) = 4)
         /\ At("register") => tool # "claude"
         /\ At("hooks") => tool \in HookTools
         /\ At("models") => tool = "kimi1" /\ connect.at = 1
         /\ At("approve") => tool \in {"codex", "claude"}
         /\ tool = "kimi1" /\ connect.at = 1 => At("models")
<1> DEFINE steps == Steps[tool]
<1>1. tool \in {"codex", "gemini", "agy", "opencode", "goose", "vibe", "kimi1", "kimi2", "claude"}
  BY DEF Tool, Steps
<1>2. CASE tool = "codex"
  <2>1. DOMAIN steps = 1 .. Len(steps) /\ Len(steps) = 4 /\ steps[1] = "register" /\ steps[2] = "approve" /\ steps[3] = "skill" /\ steps[4] = "hooks"
    BY <1>2 DEF Steps
  <2> QED
    BY <1>2, <2>1 DEF At, HookTools
<1>3. CASE tool = "gemini"
  <2>1. DOMAIN steps = 1 .. Len(steps) /\ Len(steps) = 3 /\ steps[1] = "register" /\ steps[2] = "skill" /\ steps[3] = "hooks"
    BY <1>3 DEF Steps
  <2> QED
    BY <1>3, <2>1 DEF At, HookTools
<1>4. CASE tool = "agy"
  <2>1. DOMAIN steps = 1 .. Len(steps) /\ Len(steps) = 2 /\ steps[1] = "register" /\ steps[2] = "skill"
    BY <1>4 DEF Steps
  <2> QED
    BY <1>4, <2>1 DEF At, HookTools
<1>5. CASE tool = "opencode"
  <2>1. DOMAIN steps = 1 .. Len(steps) /\ Len(steps) = 2 /\ steps[1] = "register" /\ steps[2] = "skill"
    BY <1>5 DEF Steps
  <2> QED
    BY <1>5, <2>1 DEF At, HookTools
<1>6. CASE tool = "goose"
  <2>1. DOMAIN steps = 1 .. Len(steps) /\ Len(steps) = 1 /\ steps[1] = "register"
    BY <1>6 DEF Steps
  <2> QED
    BY <1>6, <2>1 DEF At, HookTools
<1>7. CASE tool = "vibe"
  <2>1. DOMAIN steps = 1 .. Len(steps) /\ Len(steps) = 2 /\ steps[1] = "register" /\ steps[2] = "skill"
    BY <1>7 DEF Steps
  <2> QED
    BY <1>7, <2>1 DEF At, HookTools
<1>8. CASE tool = "kimi1"
  <2>1. DOMAIN steps = 1 .. Len(steps) /\ Len(steps) = 4 /\ steps[1] = "models" /\ steps[2] = "register" /\ steps[3] = "skill" /\ steps[4] = "hooks"
    BY <1>8 DEF Steps
  <2> QED
    BY <1>8, <2>1 DEF At, HookTools
<1>9. CASE tool = "kimi2"
  <2>1. DOMAIN steps = 1 .. Len(steps) /\ Len(steps) = 3 /\ steps[1] = "register" /\ steps[2] = "hooks" /\ steps[3] = "skill"
    BY <1>9 DEF Steps
  <2> QED
    BY <1>9, <2>1 DEF At, HookTools
<1>10. CASE tool = "claude"
  <2>1. DOMAIN steps = 1 .. Len(steps) /\ Len(steps) = 2 /\ steps[1] = "hooks" /\ steps[2] = "approve"
    BY <1>10 DEF Steps
  <2> QED
    BY <1>10, <2>1 DEF At, HookTools
<1> QED
  BY <1>1, <1>2, <1>3, <1>4, <1>5, <1>6, <1>7, <1>8, <1>9, <1>10

(* What a report of a step changes. *)
LEMMA Advanced ==
  ASSUME connect \in Connect, NEW v
  PROVE  /\ Advance([mcp |-> v]) => connect' = [connect EXCEPT !.at = @ + 1, !.read = NotRead, !.mcp = v]
         /\ Advance([capture |-> v]) => connect' = [connect EXCEPT !.at = @ + 1, !.read = NotRead, !.capture = v]
         /\ Advance([alone |-> v]) => connect' = [connect EXCEPT !.at = @ + 1, !.read = NotRead, !.alone = v]
<1>1. DOMAIN connect = {"at", "read", "here", "mcp", "capture", "models", "alone"}
  BY DEF Connect
<1>2. connect = [at |-> connect.at, read |-> connect.read, here |-> connect.here, mcp |-> connect.mcp,
                 capture |-> connect.capture, models |-> connect.models, alone |-> connect.alone]
  BY DEF Connect
<1>3. DOMAIN [mcp |-> v] = {"mcp"} /\ DOMAIN [capture |-> v] = {"capture"} /\ DOMAIN [alone |-> v] = {"alone"}
  OBVIOUS
<1> QED
  BY <1>1, <1>2, <1>3 DEF Advance

(* A step that reports on the registration leaves everything else of the connect. *)
LEMMA ReportsMcp ==
  ASSUME connect \in Connect, connect.at \in 1 .. 4, NEW v \in {"none", "added", "present", "failed"}, Advance([mcp |-> v])
  PROVE  /\ connect' \in Connect /\ connect'.at = connect.at + 1 /\ connect'.read = NotRead /\ connect'.mcp = v
         /\ connect'.here = connect.here /\ connect'.capture = connect.capture /\ connect'.models = connect.models /\ connect'.alone = connect.alone
<1>1. connect' = [connect EXCEPT !.at = connect.at + 1, !.read = NotRead, !.mcp = v]
  BY Advanced
<1>2. connect.at + 1 \in 0 .. 5 /\ NotRead \in File \cup {NotRead}
  OBVIOUS
<1>3. connect' \in Connect
  BY <1>1, <1>2, Zenon DEF Connect
<1> QED
  BY <1>1, <1>3 DEF Connect

(* One that reports on the capture does. *)
LEMMA ReportsCapture ==
  ASSUME connect \in Connect, connect.at \in 1 .. 4, NEW v \in {"none", "rollout", "native", "failed"}, Advance([capture |-> v])
  PROVE  /\ connect' \in Connect /\ connect'.at = connect.at + 1 /\ connect'.read = NotRead /\ connect'.capture = v
         /\ connect'.here = connect.here /\ connect'.mcp = connect.mcp /\ connect'.models = connect.models /\ connect'.alone = connect.alone
<1>1. connect' = [connect EXCEPT !.at = connect.at + 1, !.read = NotRead, !.capture = v]
  BY Advanced
<1>2. connect.at + 1 \in 0 .. 5 /\ NotRead \in File \cup {NotRead}
  OBVIOUS
<1>3. connect' \in Connect
  BY <1>1, <1>2, Zenon DEF Connect
<1> QED
  BY <1>1, <1>3 DEF Connect

(* And one that reports nothing. *)
LEMMA ReportsNothing ==
  ASSUME connect \in Connect, connect.at \in 1 .. 4, NEW v \in BOOLEAN, Advance([alone |-> v])
  PROVE  /\ connect' \in Connect /\ connect'.at = connect.at + 1 /\ connect'.read = NotRead /\ connect'.alone = v
         /\ connect'.here = connect.here /\ connect'.mcp = connect.mcp /\ connect'.capture = connect.capture /\ connect'.models = connect.models
<1>1. connect' = [connect EXCEPT !.at = connect.at + 1, !.read = NotRead, !.alone = v]
  BY Advanced
<1>2. connect.at + 1 \in 0 .. 5 /\ NotRead \in File \cup {NotRead}
  OBVIOUS
<1>3. connect' \in Connect
  BY <1>1, <1>2, Zenon DEF Connect
<1> QED
  BY <1>1, <1>3 DEF Connect

(* What a merge of a whole file keeps of what it read *)
KeepsOthers(d, new) ==
  new.theirs = d.theirs /\ new.own = d.own /\ (d.approval = "ask" => new.approval = "ask")

(* A merge of the registration keeps what others have in the file, and leaves ours, at this checkout, once. *)
LEMMA RegisteringKeeps ==
  ASSUME NEW d \in File, connect.here \in Path, tool \in {"agy", "opencode", "goose", "vibe", "kimi2"},
         tool # "kimi2" => IsBare(d), RegisterMerge(d) # Unparsed
  PROVE  LET new == RegisterMerge(d)
         IN  /\ new \in File /\ KeepsOthers(d, new) /\ (tool # "kimi2" => IsBare(new))
             /\ tool # "vibe" \/ new.mine # d.mine => new.mine = <<connect.here>>
<1>1. <<connect.here>> \in AtMostOne /\ Absent.mine \in AtMostOne /\ Absent.hooks \in AtMostOne
  BY DEF AtMostOne, Absent
<1>2. Fresh(d) \in File /\ (IsBare(d) => Fresh(d).theirs = d.theirs /\ Fresh(d).own = d.own /\ (d.approval = "ask" => Fresh(d).approval = "ask"))
      /\ Fresh(d).state = "text"
  BY DEF Fresh, File, IsBare, Absent, AtMostOne
<1>3. CASE tool \in {"agy", "opencode", "goose"}
  <2>1. RegisterMerge(d) = [Fresh(d) EXCEPT !.mine = <<connect.here>>] \/ (RegisterMerge(d) = d /\ d.mine = <<connect.here>>)
    BY <1>3 DEF RegisterMerge, MergeMcpServers, MergeOpencode, MergeGoose
  <2> QED
    BY <1>1, <1>2, <1>3, <2>1 DEF KeepsOthers, IsBare, File
<1>4. CASE tool = "vibe"
  <2>1. RegisterMerge(d) = PlanVibe(d, connect.here)
    BY <1>4 DEF RegisterMerge
  <2> QED
    BY <1>1, <1>4, <2>1 DEF PlanVibe, KeepsOthers, IsBare, File
<1>5. CASE tool = "kimi2"
  <2>1. RegisterMerge(d) = [d EXCEPT !.state = "text", !.mine = <<connect.here>>]
    BY <1>5 DEF RegisterMerge, MergeKimiCodeMcp
  <2> QED
    BY <1>1, <1>5, <2>1 DEF KeepsOthers, File
<1> QED
  BY <1>3, <1>4, <1>5

(* A merge of the hooks keeps the registration and what others have, and leaves one set of hooks. *)
LEMMA HookingKeeps ==
  ASSUME NEW d \in File, connect.here \in Path, tool \in HookTools, tool # "kimi2" => IsBare(d), HookMerge(d) # Unparsed
  PROVE  LET new == HookMerge(d)
         IN  /\ new \in File /\ KeepsOthers(d, new) /\ (tool # "kimi2" => IsBare(new))
             /\ new.mine = d.mine /\ new.block = d.block /\ new.default = d.default
             /\ HooksAre(new.hooks)
<1>1. <<connect.here>> \in AtMostOne /\ <<connect.here>> # <<>>
  BY DEF AtMostOne
<1>2. CASE tool \in {"gemini", "codex"}
  <2>1. HookMerge(d) = [d EXCEPT !.state = "text", !.hooks = <<connect.here>>]
    BY <1>2 DEF HookMerge, MergeGeminiHooks, HooksMerged
  <2> QED
    BY <1>1, <2>1 DEF KeepsOthers, IsBare, File, HooksAre
<1>3. CASE tool = "kimi1"
  <2>1. HookMerge(d) = [d EXCEPT !.state = IF @ = "odd" THEN @ ELSE "text", !.hooks = <<connect.here>>]
    BY <1>3 DEF HookMerge, MergeKimiHooks
  <2> QED
    BY <1>1, <1>3, <2>1 DEF KeepsOthers, IsBare, File, HooksAre
<1>4. CASE tool = "kimi2"
  <2> DEFINE allowed == MergeKimiAllowRule(d)
  <2>1. allowed \in File /\ KeepsOthers(d, allowed) /\ allowed.mine = d.mine /\ allowed.block = d.block /\ allowed.default = d.default
    BY DEF MergeKimiAllowRule, Approved, KeepsOthers, File
  <2>2. HookMerge(d) = MergeKimiHooks(allowed, connect.here)
    BY <1>4 DEF HookMerge
  <2> HIDE DEF allowed
  <2>3. HookMerge(d) = [allowed EXCEPT !.state = IF @ = "odd" THEN @ ELSE "text", !.hooks = <<connect.here>>]
    BY <2>2 DEF MergeKimiHooks
  <2> QED
    BY <1>1, <1>4, <2>1, <2>3 DEF KeepsOthers, File, HooksAre
<1>5. CASE tool = "claude"
  <2>1. HookMerge(d) = [d EXCEPT !.state = "text", !.hooks = IF d.hooks = <<>> THEN <<connect.here>> ELSE d.hooks]
    BY <1>5 DEF HookMerge, HookInstalled
  <2> QED
    BY <1>1, <1>5, <2>1 DEF KeepsOthers, IsBare, File, HooksAre
<1> QED
  BY <1>2, <1>3, <1>4, <1>5 DEF HookTools

(* What the write of a merge keeps, whatever others wrote since it read *)
LEMMA WritingKeeps ==
  ASSUME CrossInv, connect.read \in File, NEW f \in ToolFile, NEW new \in File, KeepsOthers(connect.read, new), Write(f, new)
  PROVE  /\ doc' \in [ToolFile -> File] /\ entered' \in [ToolFile -> Entered] /\ OthersKeepTheirs'
         /\ doc'[f] = new /\ \A g \in ToolFile \ {f} : doc'[g] = doc[g]
<1>1. doc' = [doc EXCEPT ![f] = new]
  BY DEF Write
<1>2. doc' \in [ToolFile -> File] /\ doc'[f] = new /\ \A g \in ToolFile \ {f} : doc'[g] = doc[g]
  BY <1>1 DEF CrossInv, CrossTables
<1> DEFINE had == entered[f]
           kept == [had EXCEPT !.theirs = @ \ (doc[f].theirs \ connect.read.theirs),
                               !.own = @ \ (doc[f].own \ connect.read.own),
                               !.asks = @ /\ doc[f].approval = connect.read.approval]
<1>3. entered' = [entered EXCEPT ![f] = kept]
  BY DEF Write
<1>4. /\ kept \in Entered
      /\ kept.theirs = had.theirs \ (doc[f].theirs \ connect.read.theirs)
      /\ kept.own = had.own \ (doc[f].own \ connect.read.own)
      /\ kept.asks => had.asks /\ doc[f].approval = connect.read.approval
  <2>1. had \in Entered
    BY DEF CrossInv, CrossTables
  <2> HIDE DEF had
  <2> QED
    BY <2>1 DEF Entered
<1> HIDE DEF kept
<1>6. entered' \in [ToolFile -> Entered] /\ entered'[f] = kept /\ \A g \in ToolFile \ {f} : entered'[g] = entered[g]
  BY <1>3, <1>4 DEF CrossInv, CrossTables
<1>5. ASSUME NEW g \in ToolFile
      PROVE  /\ entered'[g].theirs \subseteq doc'[g].theirs /\ entered'[g].own \subseteq doc'[g].own
             /\ entered'[g].asks => doc'[g].approval = "ask"
  <2>1. CASE g = f
    BY <1>2, <1>4, <1>6, <2>1 DEF CrossInv, CrossTables, OthersKeepTheirs, KeepsOthers
  <2>2. CASE g # f
    BY <1>2, <1>6, <2>2 DEF CrossInv, CrossTables, OthersKeepTheirs
  <2> QED
    BY <2>1, <2>2
<1> QED
  BY <1>2, <1>5, <1>6 DEF OthersKeepTheirs

(* A file that is not there is one, and what is not read is none. *)
LEMMA NothingRead == NotRead \notin File /\ Absent \in File /\ IsBare(Absent)
<1>1. Absent \in File /\ Absent.state = "absent"
  BY DEF Absent, File, AtMostOne
<1>2. NotRead.state = "unread"
  BY DEF NotRead, Absent
<1> QED
  BY <1>1, <1>2 DEF File, IsBare

(* No connect under way. *)
LEMMA NoConnectIsTyped == NoConnect \in Connect /\ NoConnect.read = NotRead /\ NoConnect.mcp = "none" /\ NoConnect.capture = "none"
                          /\ NoConnect.at = 0
BY CrossAiAssumption DEF NoConnect, Connect

(* Before the first connect every file is as its user has it. *)
LEMMA CrossBegins == ASSUME CrossInit PROVE CrossInv
<1>1. ASSUME NEW f \in ToolFile PROVE Used(f) \in File /\ IsBare(Used(f))
  BY <1>1 DEF Used, Absent, File, AtMostOne, IsBare, Model
<1>2. doc \in [ToolFile -> File] /\ \A f \in ToolFile : IsBare(doc[f])
  BY <1>1, NothingRead DEF CrossInit
<1>3. pulled \in SUBSET Model /\ path \in Path /\ tool \in Tool /\ connect = NoConnect
  BY NoConnectIsTyped DEF CrossInit, Model, Connect
<1>4. entered = [f \in ToolFile |-> [theirs |-> doc[f].theirs, own |-> doc[f].own, asks |-> doc[f].approval = "ask"]]
  BY DEF CrossInit
<1>5. ASSUME NEW f \in ToolFile
      PROVE  entered[f] \in Entered /\ entered[f].theirs = doc[f].theirs /\ entered[f].own = doc[f].own
             /\ (entered[f].asks => doc[f].approval = "ask")
  BY <1>2, <1>4 DEF Entered, File
<1>6. entered \in [ToolFile -> Entered] /\ OthersKeepTheirs
  BY <1>4, <1>5 DEF OthersKeepTheirs
<1>7. CrossTables
  BY <1>2, <1>3, <1>6, NoConnectIsTyped DEF CrossTables
<1> QED
  BY <1>2, <1>3, <1>6, <1>7, NoConnectIsTyped DEF CrossInv, OddFilesAreBare, ReadIsCurrent, IsRegistered, IsHooked, ModelsAreNamed

(* A step that leaves the files alone, and goes on with the connect or gives it up *)
LEMMA FilesAlone ==
  ASSUME CrossInv, UNCHANGED <<tool, doc, entered>>, path' \in Path, pulled' \in SUBSET Model, connect' \in Connect,
         connect'.read = NotRead,
         \/ connect'.mcp = "none" /\ connect'.capture \in {"none", "rollout"} /\ connect'.at \in {0, 1}
         \/ /\ connect'.alone => connect.alone
            /\ connect'.here = connect.here /\ connect'.models = connect.models
            /\ connect'.mcp \in {connect.mcp, "failed"} /\ connect'.capture \in {connect.capture, "rollout", "failed"}
            /\ ~(tool = "kimi1" /\ connect.alone /\ connect.models # {} /\ connect'.at > 1 /\ connect.at <= 1)
  PROVE  CrossInv'
<1>1. CrossTables' /\ OddFilesAreBare' /\ OthersKeepTheirs' /\ ReadIsCurrent'
  BY DEF CrossInv, CrossTables, OddFilesAreBare, IsBare, OthersKeepTheirs, ReadIsCurrent
<1>2. IsRegistered'
  BY DEF CrossInv, IsRegistered
<1>3. IsHooked'
  BY DEF CrossInv, IsHooked, HooksAre, FileOf
<1>4. ModelsAreNamed'
  BY DEF CrossInv, CrossTables, Connect, ModelsAreNamed, TablesAreNamed
<1> QED
  BY <1>1, <1>2, <1>3, <1>4 DEF CrossInv

(* A connect begins with nothing read and nothing reported. *)
LEMMA BeginningKeeps == ASSUME CrossInv, ConnectBegins PROVE CrossInv'
<1> DEFINE new == [NoConnect EXCEPT !.at = 1, !.here = path, !.capture = "rollout", !.models = pulled]
<1>1. new \in Connect /\ new.read = NotRead /\ new.mcp = "none" /\ new.capture = "rollout" /\ new.at = 1
  <2>1. NoConnect \in Connect /\ NoConnect.read = NotRead /\ NoConnect.mcp = "none" /\ path \in Path /\ pulled \in SUBSET Model
    BY NoConnectIsTyped DEF CrossInv, CrossTables
  <2>2. 1 \in 0 .. 5
    OBVIOUS
  <2>3. new \in Connect
    BY <2>1, <2>2, Zenon DEF Connect
  <2> QED
    BY <2>1, <2>3 DEF Connect
<1> HIDE DEF new
<1>2. connect' = new /\ UNCHANGED <<tool, path, doc, skill, pulled, entered>>
  BY DEF ConnectBegins, new
<1> QED
  BY <1>1, <1>2, FilesAlone DEF CrossInv, CrossTables

(* What is read is what is there. *)
LEMMA ReadingAFileKeeps ==
  ASSUME CrossInv, NEW step \in {"register", "approve", "hooks", "models"}, ReadFile(step)
  PROVE  CrossInv'
<1>1. connect' = [connect EXCEPT !.read = doc[FileOf(step)]] /\ UNCHANGED <<tool, path, doc, skill, pulled, entered>>
      /\ connect.at \in DOMAIN Steps[tool] /\ Steps[tool][connect.at] = step /\ ~(step = "register" /\ tool \in OwnCommand)
  BY DEF ReadFile, At
<1>2. FileOf(step) \in ToolFile
  BY DEF FileOf, ToolFile
<1>3. doc[FileOf(step)] \in File
  BY <1>2 DEF CrossInv, CrossTables
<1>4. /\ connect' \in Connect /\ connect'.read = doc[FileOf(step)] /\ connect'.at = connect.at /\ connect'.alone = connect.alone
      /\ connect'.here = connect.here /\ connect'.mcp = connect.mcp /\ connect'.capture = connect.capture
      /\ connect'.models = connect.models
  BY <1>1, <1>3 DEF CrossInv, CrossTables, Connect
<1>5. CrossTables' /\ OddFilesAreBare' /\ OthersKeepTheirs'
  BY <1>1, <1>2, <1>4 DEF CrossInv, CrossTables, OddFilesAreBare, IsBare, OthersKeepTheirs
<1>6. ReadIsCurrent'
  BY <1>1, <1>4 DEF ReadIsCurrent, SameAs, FileOf
<1>7. IsRegistered' /\ ModelsAreNamed'
  BY <1>1, <1>4 DEF CrossInv, IsRegistered, ModelsAreNamed, TablesAreNamed
<1>8. IsHooked'
  BY <1>1, <1>4 DEF CrossInv, IsHooked, HooksAre, FileOf
<1> QED
  BY <1>5, <1>6, <1>7, <1>8 DEF CrossInv

(* What the step of a connect leads to when it has written. *)
LEMMA StepWrites ==
  ASSUME CrossInv, connect.read # NotRead, NEW f \in ToolFile, NEW new \in File, KeepsOthers(connect.read, new),
         tool # "kimi2" => IsBare(new), Write(f, new), UNCHANGED <<tool, path, pulled>>,
         connect' \in Connect, connect'.read = NotRead, connect'.here = connect.here, connect'.models = connect.models,
         connect'.alone => connect.alone
  PROVE  /\ CrossTables' /\ OddFilesAreBare' /\ OthersKeepTheirs' /\ ReadIsCurrent'
         /\ doc'[f] = new /\ \A g \in ToolFile \ {f} : doc'[g] = doc[g]
<1>1. connect.read \in File
  BY DEF CrossInv, CrossTables, Connect
<1>2. /\ doc' \in [ToolFile -> File] /\ entered' \in [ToolFile -> Entered] /\ OthersKeepTheirs'
      /\ doc'[f] = new /\ \A g \in ToolFile \ {f} : doc'[g] = doc[g]
  BY <1>1, WritingKeeps
<1>3. CrossTables'
  BY <1>2 DEF CrossInv, CrossTables
<1>4. OddFilesAreBare' /\ ReadIsCurrent'
  BY <1>2 DEF CrossInv, OddFilesAreBare, IsBare, ReadIsCurrent
<1> QED
  BY <1>2, <1>3, <1>4

(* The tool's own command adds our registration, or says that there is one. *)
LEMMA CommandKeeps == ASSUME CrossInv, RegisterByCommand PROVE CrossInv'
<1> USE StepsOfTools
<1>1. /\ tool \in OwnCommand /\ At("register") /\ UNCHANGED <<tool, path, skill, pulled, count, entered>>
  BY DEF RegisterByCommand
<1>2. connect.at \in 1 .. 4 /\ connect \in Connect /\ tool \in Tool
  BY <1>1 DEF At, CrossInv, CrossTables
<1>3. CASE /\ doc' = [doc EXCEPT !["main"].mine = <<connect.here>>, !["main"].state = "text"]
           /\ doc["main"].state \notin {"broken", "odd"} /\ Advance([mcp |-> "added"])
  <2>2. /\ connect' \in Connect /\ connect'.read = NotRead /\ connect'.at = connect.at + 1 /\ connect'.alone = connect.alone
        /\ connect'.here = connect.here /\ connect'.capture = connect.capture /\ connect'.models = connect.models
    BY <1>2, <1>3, ReportsMcp
  <2>3. <<connect.here>> \in AtMostOne
    BY <1>2 DEF AtMostOne, Connect
  <2>4. doc["main"] \in File
    BY DEF CrossInv, CrossTables, ToolFile
  <2> DEFINE new == [doc["main"] EXCEPT !.mine = <<connect.here>>, !.state = "text"]
  <2>5. new \in File /\ new.state = "text" /\ new.mine = <<connect.here>> /\ new.theirs = doc["main"].theirs
        /\ new.own = doc["main"].own /\ new.approval = doc["main"].approval /\ new.hooks = doc["main"].hooks
    BY <2>3, <2>4 DEF File
  <2>6. doc' = [doc EXCEPT !["main"] = new]
    BY <1>3
  <2> HIDE DEF new
  <2>7. doc' \in [ToolFile -> File] /\ doc'["main"] = new /\ doc'["side"] = doc["side"]
    BY <2>5, <2>6 DEF CrossInv, CrossTables, ToolFile
  <2>8. CrossTables' /\ OddFilesAreBare' /\ OthersKeepTheirs' /\ ReadIsCurrent'
    BY <1>1, <2>2, <2>5, <2>7 DEF CrossInv, CrossTables, OddFilesAreBare, IsBare, OthersKeepTheirs, ReadIsCurrent, ToolFile
  <2>9. IsRegistered' /\ IsHooked'
    BY <1>1, <2>2, <2>5, <2>7 DEF CrossInv, IsRegistered, IsHooked, HooksAre, FileOf
  <2>10. ModelsAreNamed'
    <3>1. tool = "kimi1" => connect.at # 1
      BY <1>1, <1>2 DEF At
    <3> QED
      BY <1>1, <1>2, <2>2, <2>7, <3>1 DEF CrossInv, ModelsAreNamed, TablesAreNamed
  <2> QED
    BY <2>8, <2>9, <2>10 DEF CrossInv
<1>4. CASE doc' = doc /\ \E report \in {"present", "failed"} : Advance([mcp |-> report])
  <2>1. PICK report \in {"present", "failed"} : Advance([mcp |-> report])
    BY <1>4
  <2>2. /\ connect' \in Connect /\ connect'.read = NotRead /\ connect'.at = connect.at + 1 /\ connect'.alone = connect.alone
        /\ connect'.here = connect.here /\ connect'.capture = connect.capture /\ connect'.models = connect.models
        /\ connect'.mcp = report
    BY <1>2, <2>1, ReportsMcp
  <2>3. tool = "kimi1" => connect.at # 1
    BY <1>1, <1>2 DEF At
  <2>4. CrossTables' /\ OddFilesAreBare' /\ OthersKeepTheirs' /\ ReadIsCurrent'
    BY <1>1, <1>4, <2>2 DEF CrossInv, CrossTables, OddFilesAreBare, IsBare, OthersKeepTheirs, ReadIsCurrent
  <2>5. IsRegistered' /\ IsHooked'
    BY <1>1, <1>4, <2>2 DEF CrossInv, IsRegistered, IsHooked, HooksAre, FileOf
  <2>6. ModelsAreNamed'
    BY <1>1, <1>2, <1>4, <2>2, <2>3 DEF CrossInv, ModelsAreNamed, TablesAreNamed
  <2> QED
    BY <2>4, <2>5, <2>6 DEF CrossInv
<1> QED
  BY <1>3, <1>4 DEF RegisterByCommand

(* So does a merge of the file. *)
LEMMA MergingKeeps == ASSUME CrossInv, RegisterByMerge PROVE CrossInv'
<1> DEFINE new == RegisterMerge(connect.read)
<1>1. /\ At("register") /\ connect.read # NotRead /\ UNCHANGED <<tool, path, skill, pulled, count>>
  BY DEF RegisterByMerge, ReadsFile
<1>2. connect.at \in 1 .. 4 /\ connect \in Connect /\ tool \in Tool /\ tool # "claude"
  BY <1>1, StepsOfTools DEF At, CrossInv, CrossTables
<1>3. tool \notin OwnCommand
  BY <1>1 DEF CrossInv, ReadIsCurrent, At
<1>4. tool \in {"agy", "opencode", "goose", "vibe", "kimi2"}
  BY <1>2, <1>3 DEF Tool, Steps, OwnCommand
<1>5. connect.read \in File /\ connect.here \in Path
  BY <1>1, <1>2 DEF Connect
<1>6. tool # "kimi2" => IsBare(connect.read)
  BY <1>1 DEF CrossInv, OddFilesAreBare
<1>7. connect.alone => connect.read.mine = doc["main"].mine /\ connect.read.hooks = doc["main"].hooks
  BY <1>1 DEF CrossInv, ReadIsCurrent, SameAs, At, FileOf
<1>8. CASE new = Unparsed
  <2>1. UNCHANGED <<doc, entered>> /\ Advance([mcp |-> "failed"])
    BY <1>8 DEF RegisterByMerge, Keep
  <2>2. /\ connect' \in Connect /\ connect'.at = connect.at + 1 /\ connect'.read = NotRead /\ connect'.mcp = "failed"
        /\ connect'.here = connect.here /\ connect'.capture = connect.capture /\ connect'.models = connect.models
        /\ connect'.alone = connect.alone
    BY <1>2, <2>1, ReportsMcp
  <2> QED
    BY <1>1, <1>4, <2>1, <2>2, FilesAlone DEF CrossInv, CrossTables
<1>9. CASE new # Unparsed
  <2>1. /\ new \in File /\ KeepsOthers(connect.read, new) /\ (tool # "kimi2" => IsBare(new))
        /\ tool # "vibe" \/ new.mine # connect.read.mine => new.mine = <<connect.here>>
    BY <1>4, <1>5, <1>6, <1>9, RegisteringKeeps
  <2>2. /\ Advance([mcp |-> IF new.mine = connect.read.mine THEN "present" ELSE "added"])
        /\ IF new = connect.read THEN UNCHANGED <<doc, entered>> ELSE Write("main", new)
    BY <1>9 DEF RegisterByMerge, Keep
  <2>3. /\ connect' \in Connect /\ connect'.at = connect.at + 1 /\ connect'.read = NotRead
        /\ connect'.mcp = (IF new.mine = connect.read.mine THEN "present" ELSE "added")
        /\ connect'.here = connect.here /\ connect'.capture = connect.capture /\ connect'.models = connect.models
        /\ connect'.alone = connect.alone
    BY <1>2, <2>2, ReportsMcp
  <2> HIDE DEF new
  <2>4. /\ CrossTables' /\ OddFilesAreBare' /\ OthersKeepTheirs' /\ ReadIsCurrent'
        /\ doc'["side"] = doc["side"] /\ (connect.alone => doc'["main"].mine = new.mine)
    <3>1. CASE new = connect.read
      BY <1>1, <1>7, <2>2, <2>3, <3>1 DEF CrossInv, CrossTables, OddFilesAreBare, IsBare, OthersKeepTheirs, ReadIsCurrent
    <3>2. CASE new # connect.read
      BY <1>1, <2>1, <2>2, <2>3, <3>2, StepWrites DEF ToolFile
    <3> QED
      BY <3>1, <3>2
  <2>5. IsRegistered'
    BY <1>1, <1>4, <2>1, <2>3, <2>4 DEF IsRegistered
  <2>6. IsHooked'
    BY <1>1, <1>4, <2>3, <2>4 DEF CrossInv, IsHooked, HookTools, HooksAre, FileOf
  <2>7. ModelsAreNamed'
    BY <1>1, <1>4 DEF ModelsAreNamed
  <2> QED
    BY <2>4, <2>5, <2>6, <2>7 DEF CrossInv
<1> QED
  BY <1>8, <1>9

(* An approval is set where nothing was, and only there. *)
LEMMA ApprovingKeeps == ASSUME CrossInv, Approve PROVE CrossInv'
<1>1. /\ At("approve") /\ connect.read # NotRead /\ UNCHANGED <<tool, path, skill, pulled, count>>
      /\ Advance([alone |-> connect.alone])
  BY DEF Approve, ReadsFile
<1>2. connect.at \in 1 .. 4 /\ connect \in Connect /\ tool \in {"codex", "claude"}
  BY <1>1, StepsOfTools DEF At, CrossInv, CrossTables
<1>3. /\ connect' \in Connect /\ connect'.at = connect.at + 1 /\ connect'.read = NotRead /\ connect'.mcp = connect.mcp
      /\ connect'.here = connect.here /\ connect'.capture = connect.capture /\ connect'.models = connect.models
      /\ connect'.alone = connect.alone
  <2>1. connect.alone \in BOOLEAN
    BY <1>2 DEF Connect
  <2> QED
    BY <1>1, <1>2, <2>1, ReportsNothing
<1>4. CASE UNCHANGED <<doc, entered>>
  BY <1>1, <1>2, <1>3, <1>4, FilesAlone DEF CrossInv, CrossTables
<1>5. CASE Write("main", Approved(connect.read))
  <2> DEFINE new == Approved(connect.read)
  <2>1. connect.read \in File
    BY <1>1, <1>2 DEF Connect
  <2>2. /\ new \in File /\ KeepsOthers(connect.read, new) /\ IsBare(new) /\ new.mine = connect.read.mine
        /\ new.hooks = connect.read.hooks
    BY <2>1 DEF Approved, File, KeepsOthers, IsBare
  <2> HIDE DEF new
  <2>3. /\ CrossTables' /\ OddFilesAreBare' /\ OthersKeepTheirs' /\ ReadIsCurrent'
        /\ doc'["main"] = new /\ doc'["side"] = doc["side"]
    BY <1>1, <1>3, <1>5, <2>2, StepWrites DEF ToolFile, new
  <2>4. connect.alone => connect.read.mine = doc["main"].mine /\ connect.read.hooks = doc["main"].hooks
    BY <1>1 DEF CrossInv, ReadIsCurrent, SameAs, At, FileOf
  <2>5. IsRegistered'
    BY <1>1, <1>3, <2>2, <2>3, <2>4 DEF CrossInv, IsRegistered
  <2>6. IsHooked'
    BY <1>1, <1>2, <1>3, <2>2, <2>3, <2>4 DEF CrossInv, IsHooked, HooksAre, FileOf
  <2>7. ModelsAreNamed'
    BY <1>1, <1>2 DEF ModelsAreNamed
  <2> QED
    BY <2>3, <2>5, <2>6, <2>7 DEF CrossInv
<1> QED
  BY <1>4, <1>5 DEF Approve, Keep

(* Hooks that are reported native are there, once. *)
LEMMA InstallingHooksKeeps == ASSUME CrossInv, InstallHooks PROVE CrossInv'
<1> DEFINE new == HookMerge(connect.read)
           f == FileOf("hooks")
<1>1. /\ At("hooks") /\ connect.read # NotRead /\ UNCHANGED <<tool, path, skill, pulled, count>>
  BY DEF InstallHooks, ReadsFile
<1>2. connect.at \in 1 .. 4 /\ connect \in Connect /\ tool \in HookTools
  BY <1>1, StepsOfTools DEF At, CrossInv, CrossTables
<1>3. ~(tool = "kimi1" /\ connect.at = 1)
  BY <1>1, StepsOfTools DEF CrossInv, CrossTables, At
<1>4. CASE UNCHANGED <<doc, entered>> /\ \E report \in {"failed", "rollout"} : Advance([capture |-> report])
  <2>1. PICK report \in {"failed", "rollout"} : Advance([capture |-> report])
    BY <1>4
  <2>2. /\ connect' \in Connect /\ connect'.at = connect.at + 1 /\ connect'.read = NotRead /\ connect'.capture = report
        /\ connect'.here = connect.here /\ connect'.mcp = connect.mcp /\ connect'.models = connect.models
        /\ connect'.alone = connect.alone
    BY <1>2, <2>1, ReportsCapture
  <2> QED
    BY <1>1, <1>2, <1>3, <1>4, <2>2, FilesAlone DEF CrossInv, CrossTables
<1>5. CASE new # Unparsed /\ Advance([capture |-> "native"]) /\ Write(f, new)
  <2>1. connect.read \in File /\ connect.here \in Path /\ f \in ToolFile
    BY <1>1, <1>2 DEF Connect, FileOf, ToolFile
  <2>2. tool # "kimi2" => IsBare(connect.read)
    BY <1>1 DEF CrossInv, OddFilesAreBare
  <2>3. /\ new \in File /\ KeepsOthers(connect.read, new) /\ (tool # "kimi2" => IsBare(new))
        /\ new.mine = connect.read.mine /\ new.block = connect.read.block /\ new.default = connect.read.default
        /\ HooksAre(new.hooks)
    BY <1>2, <1>5, <2>1, <2>2, HookingKeeps
  <2>4. /\ connect' \in Connect /\ connect'.at = connect.at + 1 /\ connect'.read = NotRead /\ connect'.capture = "native"
        /\ connect'.here = connect.here /\ connect'.mcp = connect.mcp /\ connect'.models = connect.models
        /\ connect'.alone = connect.alone
    BY <1>2, <1>5, ReportsCapture
  <2>5. connect.alone => SameAs(connect.read, doc[f])
    BY <1>1 DEF CrossInv, ReadIsCurrent, At
  <2>6. Write(f, new)
    BY <1>5
  <2> HIDE DEF new
  <2>7. /\ CrossTables' /\ OddFilesAreBare' /\ OthersKeepTheirs' /\ ReadIsCurrent'
        /\ doc'[f] = new /\ \A g \in ToolFile \ {f} : doc'[g] = doc[g]
    <3> HIDE DEF f
    <3> QED
      BY <1>1, <2>1, <2>3, <2>4, <2>6, StepWrites
  <2>8. IsRegistered'
    BY <1>1, <2>1, <2>3, <2>4, <2>5, <2>7 DEF CrossInv, IsRegistered, SameAs, FileOf, ToolFile
  <2>9. IsHooked'
    BY <1>1, <1>2, <2>3, <2>4, <2>7 DEF IsHooked, HooksAre, FileOf
  <2>10. ModelsAreNamed'
    <3>1. ASSUME tool = "kimi1" PROVE ModelsAreNamed'
      <4>1. f = "side"
        BY <3>1 DEF FileOf
      <4>2. new.own = connect.read.own
        BY <2>3 DEF KeepsOthers
      <4>3. connect.at # 1 /\ connect.at \in 1 .. 4
        BY <1>2, <1>3, <3>1
      <4>4. connect.alone /\ connect.models # {} => TablesAreNamed(doc["side"], connect.models)
        BY <3>1, <4>3 DEF CrossInv, ModelsAreNamed
      <4>5. connect.alone => /\ new.block = doc["side"].block /\ new.own = doc["side"].own /\ new.default = doc["side"].default
        BY <2>3, <2>5, <4>1, <4>2 DEF SameAs
      <4>6. doc'["side"] = new
        BY <2>7, <4>1
      <4> QED
        BY <2>4, <4>4, <4>5, <4>6 DEF ModelsAreNamed, TablesAreNamed
    <3> QED
      BY <1>1, <3>1 DEF ModelsAreNamed
  <2> QED
    BY <2>7, <2>8, <2>9, <2>10 DEF CrossInv
<1> QED
  BY <1>4, <1>5 DEF InstallHooks, Keep

(* Our block has the models that have no table of others. *)
LEMMA SettingModelsKeeps == ASSUME CrossInv, KimiModels PROVE CrossInv'
<1>1. /\ At("models") /\ connect.read # NotRead /\ UNCHANGED <<tool, path, skill, pulled, count>>
      /\ Advance([alone |-> connect.alone])
  BY DEF KimiModels, ReadsFile
<1>2. connect.at = 1 /\ connect \in Connect /\ tool = "kimi1"
  BY <1>1, StepsOfTools DEF CrossInv, CrossTables
<1>3. /\ connect' \in Connect /\ connect'.at = connect.at + 1 /\ connect'.read = NotRead /\ connect'.mcp = connect.mcp
      /\ connect'.here = connect.here /\ connect'.capture = connect.capture /\ connect'.models = connect.models
      /\ connect'.alone = connect.alone
  <2>1. connect.alone \in BOOLEAN /\ connect.at \in 1 .. 4
    BY <1>2 DEF Connect
  <2> QED
    BY <1>1, <1>2, <2>1, ReportsNothing
<1>4. CASE connect.models = {} /\ UNCHANGED <<doc, entered>>
  BY <1>1, <1>2, <1>3, <1>4, FilesAlone DEF CrossInv, CrossTables
<1>5. CASE connect.models # {} /\ Write("side", KimiMerged(connect.read, connect.models))
  <2> DEFINE new == KimiMerged(connect.read, connect.models)
  <2>1. connect.read \in File /\ connect.models \subseteq Model
    BY <1>1, <1>2 DEF Connect
  <2>2. /\ new \in File /\ new.state = "text" /\ new.theirs = connect.read.theirs /\ new.own = connect.read.own
        /\ new.approval = connect.read.approval /\ new.hooks = connect.read.hooks /\ new.block = connect.models \ new.own
        /\ "chat" \in connect.models => new.default \in connect.models \cup new.own
    BY <2>1 DEF KimiMerged, File, Model
  <2> HIDE DEF new
  <2>3. /\ CrossTables' /\ OddFilesAreBare' /\ OthersKeepTheirs' /\ ReadIsCurrent'
        /\ doc'["side"] = new /\ doc'["main"] = doc["main"]
    <3>1. KeepsOthers(connect.read, new) /\ IsBare(new)
      BY <2>2 DEF KeepsOthers, IsBare
    <3>2. Write("side", new)
      BY <1>5 DEF new
    <3> QED
      BY <1>1, <1>3, <2>2, <3>1, <3>2, StepWrites DEF ToolFile
  <2>4. IsRegistered'
    BY <1>1, <1>3, <2>3 DEF CrossInv, IsRegistered
  <2>5. IsHooked'
    <3>1. connect.alone => connect.read.hooks = doc["side"].hooks
      BY <1>1, <1>2 DEF CrossInv, ReadIsCurrent, SameAs, At, FileOf
    <3> QED
      BY <1>1, <1>2, <1>3, <2>2, <2>3, <3>1 DEF CrossInv, IsHooked, HooksAre, FileOf
  <2>6. ModelsAreNamed'
    BY <1>3, <2>2, <2>3 DEF ModelsAreNamed, TablesAreNamed
  <2> QED
    BY <2>3, <2>4, <2>5, <2>6 DEF CrossInv
<1> QED
  BY <1>4, <1>5 DEF KimiModels, Keep

(* The skill, the checkout and the models change no file. *)
LEMMA SkillsAloneKeep == ASSUME CrossInv, CopySkill \/ ConnectKilled \/ RefreshSkill \/ MoveCheckout \/ PullOrRemoveModel PROVE CrossInv'
<1>1. CASE CopySkill
  <2>1. /\ At("skill") /\ Advance([alone |-> connect.alone]) /\ UNCHANGED <<tool, path, doc, pulled, entered>>
    BY <1>1 DEF CopySkill
  <2>2. connect.at \in 1 .. 4 /\ connect \in Connect /\ connect.alone \in BOOLEAN /\ ~(tool = "kimi1" /\ connect.at = 1)
    BY <2>1, StepsOfTools DEF At, CrossInv, CrossTables, Connect
  <2>3. /\ connect' \in Connect /\ connect'.at = connect.at + 1 /\ connect'.read = NotRead /\ connect'.mcp = connect.mcp
        /\ connect'.here = connect.here /\ connect'.capture = connect.capture /\ connect'.models = connect.models
        /\ connect'.alone = connect.alone
    BY <2>1, <2>2, ReportsNothing
  <2> QED
    BY <2>1, <2>2, <2>3, FilesAlone DEF CrossInv, CrossTables
<1>2. CASE ConnectKilled
  BY <1>2, FilesAlone, NoConnectIsTyped DEF ConnectKilled, CrossInv, CrossTables
<1>3. CASE UNCHANGED <<tool, doc, connect, entered>> /\ path' \in Path /\ pulled' \in SUBSET Model
  BY <1>3 DEF CrossInv, CrossTables, OddFilesAreBare, IsBare, OthersKeepTheirs, ReadIsCurrent, SameAs, FileOf, IsRegistered, IsHooked, HooksAre,
              ModelsAreNamed, TablesAreNamed
<1> QED
  BY <1>1, <1>2, <1>3 DEF RefreshSkill, MoveCheckout, PullOrRemoveModel, CrossInv, CrossTables, Model

(* The worker's refresh sets an approval where nothing was. *)
LEMMA RefreshingKeeps == ASSUME CrossInv, RefreshCodexApprovals PROVE CrossInv'
<1> DEFINE new == Approved(doc["main"])
<1>1. /\ tool = "codex" /\ doc["main"].approval = "unset" /\ doc' = [doc EXCEPT !["main"] = new]
      /\ UNCHANGED <<tool, path, pulled, connect, entered>>
  BY DEF RefreshCodexApprovals
<1>2. doc["main"] \in File
  BY DEF CrossInv, CrossTables, ToolFile
<1>3. /\ new \in File /\ new.state = "text" /\ SameAs(new, doc["main"]) /\ new.theirs = doc["main"].theirs
  BY <1>2 DEF Approved, File, SameAs
<1> HIDE DEF new
<1>4. doc' \in [ToolFile -> File] /\ doc'["main"] = new /\ doc'["side"] = doc["side"]
  BY <1>1, <1>3 DEF CrossInv, CrossTables, ToolFile
<1>5. CrossTables' /\ OddFilesAreBare' /\ OthersKeepTheirs'
  BY <1>1, <1>3, <1>4 DEF CrossInv, CrossTables, OddFilesAreBare, IsBare, OthersKeepTheirs, ToolFile, SameAs
<1>6. \A f \in ToolFile : SameAs(doc'[f], doc[f])
  BY <1>3, <1>4 DEF SameAs, ToolFile
<1>7. IsRegistered' /\ ModelsAreNamed'
  BY <1>1, <1>3, <1>4 DEF CrossInv, IsRegistered, ModelsAreNamed, SameAs
<1>8. IsHooked' /\ ReadIsCurrent'
  BY <1>1, <1>6 DEF CrossInv, IsHooked, HooksAre, FileOf, ReadIsCurrent, SameAs, ToolFile
<1> QED
  BY <1>5, <1>7, <1>8 DEF CrossInv

(* An edit by others: it stands by what it enters, and the connect under way is no longer alone. *)
LEMMA EditStands ==
  ASSUME CrossInv, connect' = [connect EXCEPT !.alone = FALSE], UNCHANGED <<tool, path, pulled>>, NEW f \in ToolFile,
         NEW new \in File, NEW theirs \in Entered, doc' = [doc EXCEPT ![f] = new], entered' = [entered EXCEPT ![f] = theirs],
         tool # "kimi2" => IsBare(new), theirs.theirs \subseteq new.theirs, theirs.own \subseteq new.own, theirs.asks => new.approval = "ask"
  PROVE  CrossInv'
<1>1. /\ connect' \in Connect /\ connect'.at = connect.at /\ connect'.read = connect.read /\ ~connect'.alone
      /\ connect'.capture = connect.capture
  BY DEF CrossInv, CrossTables, Connect
<1>2. /\ doc' \in [ToolFile -> File] /\ doc'[f] = new /\ \A g \in ToolFile \ {f} : doc'[g] = doc[g]
      /\ entered' \in [ToolFile -> Entered] /\ entered'[f] = theirs /\ \A g \in ToolFile \ {f} : entered'[g] = entered[g]
  BY DEF CrossInv, CrossTables
<1>3. CrossTables' /\ OddFilesAreBare'
  BY <1>1, <1>2 DEF CrossInv, CrossTables, OddFilesAreBare, IsBare
<1>4. OthersKeepTheirs'
  BY <1>2 DEF CrossInv, OthersKeepTheirs
<1>5. ReadIsCurrent' /\ IsRegistered' /\ IsHooked' /\ ModelsAreNamed'
  BY <1>1 DEF CrossInv, ReadIsCurrent, IsRegistered, IsHooked, ModelsAreNamed
<1> QED
  BY <1>3, <1>4, <1>5 DEF CrossInv

(* Every edit by others is such a one. *)
LEMMA EditingKeeps == ASSUME CrossInv, NEW f \in ToolFile, ForeignEdit(f) PROVE CrossInv'
<1> DEFINE was == doc[f]
           edited == [was EXCEPT !.state = "text"]
           had == entered[f]
<1>1. /\ was \in File /\ had \in Entered /\ had.theirs \subseteq was.theirs /\ had.own \subseteq was.own
      /\ (had.asks => was.approval = "ask") /\ was.state # "odd"
  BY DEF CrossInv, CrossTables, OthersKeepTheirs, ForeignEdit
<1>2. /\ connect' = [connect EXCEPT !.alone = FALSE] /\ UNCHANGED <<tool, path, pulled>>
  BY DEF ForeignEdit
<1>3. entered' = entered => entered' = [entered EXCEPT ![f] = had]
  BY DEF CrossInv, CrossTables
<1>4. CASE \E e \in Entry : /\ doc' = [doc EXCEPT ![f] = [edited EXCEPT !.theirs = @ \cup {e}]]
                            /\ entered' = [entered EXCEPT ![f].theirs = @ \cup {e}]
  <2>1. PICK e \in Entry : /\ doc' = [doc EXCEPT ![f] = [edited EXCEPT !.theirs = @ \cup {e}]]
                           /\ entered' = [entered EXCEPT ![f].theirs = @ \cup {e}]
    BY <1>4
  <2> DEFINE new == [edited EXCEPT !.theirs = @ \cup {e}]
             theirs == [had EXCEPT !.theirs = @ \cup {e}]
  <2>2. /\ new \in File /\ theirs \in Entered /\ IsBare(new) /\ theirs.theirs \subseteq new.theirs /\ theirs.own \subseteq new.own
        /\ (theirs.asks => new.approval = "ask")
    <3> HIDE DEF was, had
    <3> QED
      BY <1>1, <2>1 DEF File, Entered, IsBare
  <2>3. doc' = [doc EXCEPT ![f] = new] /\ entered' = [entered EXCEPT ![f] = theirs]
    BY <2>1
  <2> QED
    BY <1>2, <2>2, <2>3, EditStands
<1>5. CASE /\ doc' = [doc EXCEPT ![f] = [edited EXCEPT !.approval = "ask"]]
           /\ entered' = [entered EXCEPT ![f].asks = TRUE]
  <2> DEFINE new == [edited EXCEPT !.approval = "ask"]
             theirs == [had EXCEPT !.asks = TRUE]
  <2>2. /\ new \in File /\ theirs \in Entered /\ IsBare(new) /\ theirs.theirs \subseteq new.theirs /\ theirs.own \subseteq new.own
        /\ (theirs.asks => new.approval = "ask")
    <3> HIDE DEF was, had
    <3> QED
      BY <1>1 DEF File, Entered, IsBare
  <2>3. doc' = [doc EXCEPT ![f] = new] /\ entered' = [entered EXCEPT ![f] = theirs]
    BY <1>5
  <2> QED
    BY <1>2, <2>2, <2>3, EditStands
<1>6. CASE doc' = [doc EXCEPT ![f] = [edited EXCEPT !.mine = <<>>]] /\ entered' = entered
  <2> DEFINE new == [edited EXCEPT !.mine = <<>>]
  <2>2. /\ new \in File /\ IsBare(new) /\ had.theirs \subseteq new.theirs /\ had.own \subseteq new.own
        /\ (had.asks => new.approval = "ask")
    <3>1. <<>> \in AtMostOne
      BY DEF AtMostOne
    <3> HIDE DEF was, had
    <3> QED
      BY <1>1, <3>1 DEF File, IsBare
  <2>3. doc' = [doc EXCEPT ![f] = new] /\ entered' = [entered EXCEPT ![f] = had]
    BY <1>3, <1>6
  <2> QED
    BY <1>1, <1>2, <2>2, <2>3, EditStands
<1>7. CASE \E m \in Model : /\ doc' = [doc EXCEPT ![f] = [edited EXCEPT !.own = @ \cup {m}]]
                            /\ entered' = [entered EXCEPT ![f].own = @ \cup {m}]
  <2>1. PICK m \in Model : /\ doc' = [doc EXCEPT ![f] = [edited EXCEPT !.own = @ \cup {m}]]
                           /\ entered' = [entered EXCEPT ![f].own = @ \cup {m}]
    BY <1>7
  <2> DEFINE new == [edited EXCEPT !.own = @ \cup {m}]
             theirs == [had EXCEPT !.own = @ \cup {m}]
  <2>2. /\ new \in File /\ theirs \in Entered /\ IsBare(new) /\ theirs.theirs \subseteq new.theirs /\ theirs.own \subseteq new.own
        /\ (theirs.asks => new.approval = "ask")
    <3> HIDE DEF was, had
    <3> QED
      BY <1>1, <2>1 DEF File, Entered, IsBare
  <2>3. doc' = [doc EXCEPT ![f] = new] /\ entered' = [entered EXCEPT ![f] = theirs]
    BY <2>1
  <2> QED
    BY <1>2, <2>2, <2>3, EditStands
<1>8. CASE \E m \in Model : doc' = [doc EXCEPT ![f] = [edited EXCEPT !.default = m]] /\ entered' = entered
  <2>1. PICK m \in Model : doc' = [doc EXCEPT ![f] = [edited EXCEPT !.default = m]] /\ entered' = entered
    BY <1>8
  <2> DEFINE new == [edited EXCEPT !.default = m]
  <2>2. /\ new \in File /\ IsBare(new) /\ had.theirs \subseteq new.theirs /\ had.own \subseteq new.own
        /\ (had.asks => new.approval = "ask")
    <3> HIDE DEF was, had
    <3> QED
      BY <1>1, <2>1 DEF File, IsBare
  <2>3. doc' = [doc EXCEPT ![f] = new] /\ entered' = [entered EXCEPT ![f] = had]
    BY <1>3, <2>1
  <2> QED
    BY <1>1, <1>2, <2>2, <2>3, EditStands
<1>9. CASE tool = "kimi2" /\ doc' = [doc EXCEPT ![f].state = "odd"] /\ entered' = entered
  <2> DEFINE new == [was EXCEPT !.state = "odd"]
  <2>2. /\ new \in File /\ had.theirs \subseteq new.theirs /\ had.own \subseteq new.own /\ (had.asks => new.approval = "ask")
    <3> HIDE DEF was, had
    <3> QED
      BY <1>1 DEF File
  <2>3. doc' = [doc EXCEPT ![f] = new] /\ entered' = [entered EXCEPT ![f] = had]
    BY <1>3, <1>9
  <2> QED
    BY <1>1, <1>2, <1>9, <2>2, <2>3, EditStands
<1>10. CASE \E s \in {"broken", "odd"} : /\ doc' = [doc EXCEPT ![f] = [Absent EXCEPT !.state = s]]
                                        /\ entered' = [entered EXCEPT ![f] = [theirs |-> {}, own |-> {}, asks |-> FALSE]]
  <2>1. PICK s \in {"broken", "odd"} : /\ doc' = [doc EXCEPT ![f] = [Absent EXCEPT !.state = s]]
                                       /\ entered' = [entered EXCEPT ![f] = [theirs |-> {}, own |-> {}, asks |-> FALSE]]
    BY <1>10
  <2> DEFINE new == [Absent EXCEPT !.state = s]
             theirs == [theirs |-> {}, own |-> {}, asks |-> FALSE]
  <2>2. /\ new \in File /\ IsBare(new)
    BY NothingRead, <2>1 DEF Absent, File, IsBare
  <2>3. theirs \in Entered /\ theirs.theirs \subseteq new.theirs /\ theirs.own \subseteq new.own /\ (theirs.asks => new.approval = "ask")
    BY DEF Entered
  <2>4. doc' = [doc EXCEPT ![f] = new] /\ entered' = [entered EXCEPT ![f] = theirs]
    BY <2>1
  <2> HIDE DEF new, theirs
  <2> QED
    BY <1>2, <2>2, <2>3, <2>4, EditStands
<1> QED
  BY <1>4, <1>5, <1>6, <1>7, <1>8, <1>9, <1>10 DEF ForeignEdit

(* Every step of a connect, and of everybody else, keeps it. *)
LEMMA CrossStep == ASSUME CrossInv, [CrossNext]_crossVars PROVE CrossInv'
<1>1. CASE UNCHANGED crossVars
  BY <1>1 DEF crossVars, CrossInv, CrossTables, OddFilesAreBare, IsBare, OthersKeepTheirs, ReadIsCurrent, SameAs, FileOf, IsRegistered,
              IsHooked, HooksAre, ModelsAreNamed, TablesAreNamed
<1> QED
  BY <1>1, BeginningKeeps, CommandKeeps, MergingKeeps, ApprovingKeeps, InstallingHooksKeeps, SettingModelsKeeps, SkillsAloneKeep,
     RefreshingKeeps, ReadingAFileKeeps, EditingKeeps DEF CrossNext

(* Which is what a connect promises. *)
LEMMA ConnectsAreSafe == ASSUME CrossInv PROVE ConnectIsSafe
<1>1. RerunsDoNotDuplicate
  <2>1. ASSUME connect.alone, connect.capture = "native", tool = "claude"
        PROVE  Len(doc["main"].hooks) = 1
    <3>1. doc["main"].hooks \in AtMostOne
      BY DEF CrossInv, CrossTables, File, ToolFile
    <3>2. HooksAre(doc[FileOf("hooks")].hooks)
      BY <2>1 DEF CrossInv, IsHooked
    <3>3. FileOf("hooks") = "main" /\ <<connect.here>> # <<>>
      BY <2>1 DEF FileOf
    <3>4. doc["main"].hooks # <<>>
      BY <3>2, <3>3 DEF HooksAre
    <3> QED
      BY <3>1, <3>4 DEF AtMostOne
  <2>2. connect.alone /\ connect.capture = "native"
          => doc[FileOf("hooks")].hooks = <<connect.here>> \/ (tool = "claude" /\ Len(doc["main"].hooks) = 1)
    BY <2>1 DEF CrossInv, IsHooked, HooksAre
  <2> QED
    BY <2>2 DEF RerunsDoNotDuplicate, Finished, CrossInv, IsRegistered
<1>2. KimiStarts
  <2>1. tool = "kimi1" /\ Finished => connect.at > 1 /\ connect.alone
    <3>1. tool \in Tool
      BY DEF CrossInv, CrossTables
    <3>2. tool = "kimi1" => Len(Steps[tool]) = 4
      BY <3>1, StepsOfTools
    <3>3. tool = "kimi1" /\ Finished => connect.at = 4 + 1 /\ connect.alone
      BY <3>2 DEF Finished
    <3> QED
      BY <3>3
  <2> QED
    BY <2>1 DEF KimiStarts, CrossInv, ModelsAreNamed, TablesAreNamed
<1> QED
  BY <1>1, <1>2 DEF ConnectIsSafe, CrossInv

-----------------------------------------------------------------------------
(* Backup and restore                                                      *)


(* The rows of a database among some files. *)
StoredIn(f, d) == IF d \in DOMAIN f THEN f[d] ELSE {}

(* Each command is at one of its steps. *)
RestoreStep ==
  {"stop", "asideMeta", "asideObservations", "asideVectors", "dropWal", "putMeta", "putObservations", "asideEnv", "putEnv",
   "vectors", "start", "reindex", "done"}

(* A command at work has the fields of its kind; a restore has an archive. *)
CommandTyped ==
  /\ op.kind = "none" => op = NoCommand
  /\ op.kind = "create" =>
       /\ op \in [kind : {"create"}, got : {op.got}, vectors : BOOLEAN, step : Db \cup {"archive", "done"}]
       /\ FilesTyped(op.got)
  /\ op.kind = "restore" =>
       /\ op \in [kind : {"restore"}, model : EmbedderModel, reindex : BOOLEAN, anew : BOOLEAN, step : RestoreStep]
       /\ archive # NoArchive
  /\ op.kind \in {"vacuum", "upgrade"} =>
       op \in [kind : {"vacuum", "upgrade"}, up : BOOLEAN, step : {"raise", "rechunk", "stop", "pack", "start", "done"}]
ArchiveTyped(a) ==
  /\ a \in [files : {a.files}, env : EmbedderModel \cup {NoEnv}, model : EmbedderModel, marred : BOOLEAN]
  /\ FilesTyped(a.files)
BackupTypes ==
  /\ BackupTypeOK
  /\ CommandTyped
  /\ archive = NoArchive \/ ArchiveTyped(archive)

(* A command that comes to one of its steps is itself otherwise. *)
LEMMA CommandGoesTo ==
  ASSUME CommandTyped, NEW s, Then(s), archive' = archive,
         op.kind = "create" => s \in Db \cup {"archive", "done"},
         op.kind = "restore" => s \in RestoreStep,
         op.kind \in {"vacuum", "upgrade"} => s \in {"raise", "rechunk", "stop", "pack", "start", "done"},
         op.kind \in {"create", "restore", "vacuum", "upgrade"}
  PROVE  /\ CommandTyped' /\ op'.step = s /\ op'.kind = op.kind
         /\ op.kind = "create" => op'.got = op.got
         /\ op.kind = "restore" => op'.model = op.model /\ op'.reindex = op.reindex /\ op'.anew = op.anew
         /\ op.kind \in {"vacuum", "upgrade"} => op'.up = op.up
<1>1. CASE op.kind = "create"
  BY <1>1 DEF CommandTyped, Then, FilesTyped, DbRows
<1>2. CASE op.kind = "restore"
  BY <1>2 DEF CommandTyped, Then
<1>3. CASE op.kind \in {"vacuum", "upgrade"}
  BY <1>3 DEF CommandTyped, Then
<1> QED
  BY <1>1, <1>2, <1>3

(* A command nobody touches is typed as it was, *)
LEMMA CommandStays ==
  ASSUME CommandTyped, op' = op, archive' = archive
  PROVE  CommandTyped'
BY DEF CommandTyped, FilesTyped, DbRows

(* and an archive nobody touches. *)
LEMMA ArchiveStays ==
  ASSUME archive = NoArchive \/ ArchiveTyped(archive), archive' = archive
  PROVE  (archive = NoArchive \/ ArchiveTyped(archive))'
BY DEF ArchiveTyped, FilesTyped, DbRows
-----------------------------------------------------------------------------
(* Backup and restore: what the steps do to the files and to the worker    *)

(* Starting the worker creates the files that are missing and changes no row of the others. *)
LEMMA Boots ==
  ASSUME BackupTypes, Boot
  PROVE  /\ FilesTyped(disk)' /\ DOMAIN disk' = Db /\ \A d \in Db : disk'[d] = StoredIn(disk, d)
         /\ worker' = [model |-> ModelNow, stale |-> {}] /\ ModelNow \in EmbedderModel /\ Up'
         /\ worker' \in [model : EmbedderModel, stale : SUBSET Db]
<1>1. ModelNow \in EmbedderModel
  BY BackupAssumption DEF BackupTypes, BackupTypeOK, ModelNow
<1>2. worker' = [model |-> ModelNow, stale |-> {}]
  BY DEF Boot
<1>3. Up'
  BY <1>1, <1>2, BackupAssumption DEF Up, NoWorker
<1>4. FilesTyped(disk)' /\ DOMAIN disk' = Db /\ \A d \in Db : disk'[d] = StoredIn(disk, d)
  BY DEF Boot, BackupTypes, BackupTypeOK, FilesTyped, StoredIn
<1> QED
  BY <1>1, <1>2, <1>3, <1>4

(* Closing brings a -wal into the file it belongs to, unless the file has been replaced under the worker. *)
LEMMA Closes ==
  ASSUME BackupTypes, Up, Close
  PROVE  /\ FilesTyped(disk)' /\ DOMAIN disk' = DOMAIN disk
         /\ wal' \in [Durable -> SUBSET Observation]
         /\ worker' = NoWorker
         /\ \A d \in Durable : IF d \in worker.stale THEN StoredIn(disk', d) = StoredIn(disk, d) /\ wal'[d] = wal[d]
                               ELSE /\ wal'[d] = {}
                                    /\ StoredIn(disk', d) = IF d \in DOMAIN disk THEN StoredIn(disk, d) \cup wal[d] ELSE {}
         /\ StoredIn(disk', "vectors") = StoredIn(disk, "vectors")
<1> USE DEF BackupTypes, BackupTypeOK, Close, FilesTyped, DbRows, StoredIn, Db, Durable
<1>1. FilesTyped(disk)' /\ DOMAIN disk' = DOMAIN disk
  OBVIOUS
<1>2. wal' \in [Durable -> SUBSET Observation] /\ worker' = NoWorker
  OBVIOUS
<1>3. ASSUME NEW d \in Durable, d \in worker.stale
      PROVE  StoredIn(disk', d) = StoredIn(disk, d) /\ wal'[d] = wal[d]
  BY <1>3
<1>4. ASSUME NEW d \in Durable, d \notin worker.stale
      PROVE  /\ wal'[d] = {}
             /\ StoredIn(disk', d) = IF d \in DOMAIN disk THEN StoredIn(disk, d) \cup wal[d] ELSE {}
  BY <1>4
<1>5. StoredIn(disk', "vectors") = StoredIn(disk, "vectors")
  OBVIOUS
<1> QED
  BY <1>1, <1>2, <1>3, <1>4, <1>5, Zenon

(* A file that is replaced under a worker that runs is one it holds open and nobody else can name. *)
LEMMA Unnames ==
  ASSUME BackupTypes, NEW d \in Db, Unnamed(d)
  PROVE  /\ worker' = NoWorker \/ worker' \in [model : EmbedderModel, stale : SUBSET Db]
         /\ Up' <=> Up
         /\ Up => worker'.model = worker.model /\ worker'.stale = worker.stale \cup {d}
         /\ ~Up => worker' = worker
<1>1. CASE Up
  BY <1>1, BackupAssumption DEF BackupTypes, BackupTypeOK, Unnamed, Up, NoWorker
<1>2. CASE ~Up
  BY <1>2 DEF BackupTypes, BackupTypeOK, Unnamed, Up
<1> QED
  BY <1>1, <1>2

(* Removing a file leaves the others alone, *)
LEMMA Removes ==
  ASSUME BackupTypes, NEW d, disk' = DiskWithout(d)
  PROVE  /\ FilesTyped(disk)' /\ DOMAIN disk' = DOMAIN disk \ {d}
         /\ StoredIn(disk', d) = {} /\ \A e : e # d => StoredIn(disk', e) = StoredIn(disk, e)
BY DEF BackupTypes, BackupTypeOK, DiskWithout, FilesTyped, StoredIn

(* and so does putting one in place. *)
LEMMA Puts ==
  ASSUME BackupTypes, NEW d \in Db, NEW rows \in SUBSET DbRows(d), disk' = DiskWith(d, rows)
  PROVE  /\ FilesTyped(disk)' /\ DOMAIN disk' = DOMAIN disk \cup {d}
         /\ StoredIn(disk', d) = rows /\ \A e : e # d => StoredIn(disk', e) = StoredIn(disk, e)
BY DEF BackupTypes, BackupTypeOK, DiskWith, FilesTyped, StoredIn

(* A worker that runs has every database open, named or not.  Only a restore that is disturbed replaces one under it.
   A backup, and a restore that does not replace anything at the moment, have a worker beside them; a vacuum or an
   upgrade that must leave one running does. *)
WorkerHasFiles == Up => Db \subseteq DOMAIN disk \cup worker.stale
DisturbedIsMarred ==
  /\ worker.stale # {} => marred
  /\ Replacing /\ Up => marred
WorkerIsAsked == op.kind = "create" \/ (op.kind = "restore" /\ ~Replacing) => Up
CompactedIsUp == op.kind \in {"vacuum", "upgrade"} /\ op.up /\ Step("done") => Up

(* What has to do with types and with who is up. *)
BackupShape ==
  /\ BackupTypes
  /\ WorkerHasFiles
  /\ DisturbedIsMarred
  /\ WorkerIsAsked
  /\ CompactedIsUp

(* A restore in the middle of replacing goes on to the next step in the order of the code. *)
LEMMA RestoreAdvances ==
  ASSUME BackupTypes, op.kind = "restore", op.step \notin {"start", "reindex", "done"}, RestoreGoesOn, archive' = archive
  PROVE  /\ CommandTyped' /\ Replacing' /\ op'.step = RestoreOrder[op.step] /\ (op'.step # "asideMeta" \/ op.step = "stop")
         /\ op'.kind = "restore" /\ op'.model = op.model /\ op'.reindex = op.reindex /\ op'.anew = op.anew
<1>1. RestoreOrder[op.step] \in RestoreStep \ {"stop", "reindex", "done"}
  BY DEF BackupTypes, CommandTyped, RestoreStep, RestoreOrder
<1>2. RestoreOrder[op.step] # "asideMeta" \/ op.step = "stop"
  BY DEF BackupTypes, CommandTyped, RestoreStep, RestoreOrder
<1> QED
  BY <1>1, <1>2, CommandGoesTo DEF BackupTypes, RestoreGoesOn, Replacing

(* A reindex adds the chunks that were missing and replaces vectors by ones of the worker's own model. *)
LEMMA Reindexes ==
  ASSUME BackupTypes, WorkerHasFiles, Up, worker.stale = {}, NEW all \in BOOLEAN, Reindexed(all)
  PROVE  /\ FilesTyped(disk)' /\ DOMAIN disk' = DOMAIN disk /\ wal' \in [Durable -> SUBSET Observation]
         /\ known' \in [Durable -> SUBSET Observation]
         /\ \A d \in Durable : StoredIn(disk', d) = StoredIn(disk, d)
         /\ \A v \in StoredIn(disk', "vectors") : v \in StoredIn(disk, "vectors") \/ v[2] = worker.model
         /\ wal'["observations"] = wal["observations"] /\ known'["observations"] = known["observations"]
         /\ \E redo \in SUBSET Held("observations") :
              /\ Held("meta")' = Held("meta") \cup redo
              /\ known'["meta"] = IF Replacing THEN known["meta"] ELSE known["meta"] \cup redo
<1>1. PICK redo : /\ redo = {r \in Held("observations") : all \/ r \notin Held("meta") \/ ~\E v \in disk["vectors"] : v[1] = r}
                  /\ wal' = [wal EXCEPT !["meta"] = @ \cup (redo \ disk["meta"])]
                  /\ disk' = DiskWith("vectors", {v \in disk["vectors"] : v[1] \notin redo} \cup (redo \X {worker.model}))
                  /\ Commits("meta", redo)
  BY Zenon DEF Reindexed
<1>2. Db \subseteq DOMAIN disk /\ worker.model \in EmbedderModel
  BY DEF WorkerHasFiles, BackupTypes, BackupTypeOK, Up
<1>3. disk["meta"] \subseteq Observation /\ disk["observations"] \subseteq Observation /\ disk["vectors"] \subseteq Observation \X EmbedderModel
  BY <1>2 DEF BackupTypes, BackupTypeOK, FilesTyped, DbRows, Db, Durable
<1>4. redo \subseteq Held("observations") /\ redo \subseteq Observation
  BY <1>1, <1>3 DEF Held, BackupTypes, BackupTypeOK, Db, Durable
<1>5. {v \in disk["vectors"] : v[1] \notin redo} \cup (redo \X {worker.model}) \in SUBSET DbRows("vectors")
  BY <1>2, <1>3, <1>4 DEF DbRows
<1>6. PICK rows : rows = {v \in disk["vectors"] : v[1] \notin redo} \cup (redo \X {worker.model})
  OBVIOUS
<1>11. /\ FilesTyped(disk)' /\ DOMAIN disk' = DOMAIN disk
       /\ \A d \in Durable : StoredIn(disk', d) = StoredIn(disk, d)
       /\ StoredIn(disk', "vectors") = rows
  <2>1. rows \in SUBSET DbRows("vectors") /\ disk' = DiskWith("vectors", rows) /\ "vectors" \in Db
    BY <1>1, <1>5, <1>6, Zenon DEF Db
  <2> QED
    BY <1>2, <2>1, Puts DEF Db, Durable
<1>7. wal' \in [Durable -> SUBSET Observation] /\ wal'["observations"] = wal["observations"]
      /\ wal'["meta"] = wal["meta"] \cup (redo \ disk["meta"])
  BY <1>1, <1>4 DEF BackupTypes, BackupTypeOK, Durable
<1>8. known' \in [Durable -> SUBSET Observation] /\ known'["observations"] = known["observations"]
      /\ known'["meta"] = IF Replacing THEN known["meta"] ELSE known["meta"] \cup redo
  BY <1>1, <1>4 DEF BackupTypes, BackupTypeOK, Durable, Commits
<1>9. Held("meta")' = Held("meta") \cup redo
  <2>1. Held("meta")' = StoredIn(disk', "meta") \cup wal'["meta"] /\ Held("meta") = StoredIn(disk, "meta") \cup wal["meta"]
    BY DEF Held, StoredIn, Durable
  <2>2. StoredIn(disk, "meta") = disk["meta"]
    BY <1>2 DEF StoredIn, Db, Durable
  <2> QED
    BY <1>7, <1>11, <2>1, <2>2 DEF Durable
<1>10. \A v \in StoredIn(disk', "vectors") : v \in StoredIn(disk, "vectors") \/ v[2] = worker.model
  <2>1. ASSUME NEW v \in redo \X {worker.model}
        PROVE  v[2] = worker.model
    OBVIOUS
  <2>2. StoredIn(disk', "vectors") = {v \in disk["vectors"] : v[1] \notin redo} \cup (redo \X {worker.model})
    BY <1>6, <1>11
  <2>3. StoredIn(disk, "vectors") = disk["vectors"]
    BY <1>2 DEF StoredIn, Db
  <2>4. \A v \in StoredIn(disk', "vectors") : v \in disk["vectors"] \/ v \in redo \X {worker.model}
    BY <2>2, Zenon
  <2> QED
    BY <2>1, <2>3, <2>4, Zenon
<1> QED
  BY <1>4, <1>7, <1>8, <1>9, <1>10, <1>11

(* A snapshot adds one database to what the backup has got. *)
LEMMA Snapshot ==
  ASSUME BackupTypes, NEW d \in Db, HotSnapshot(d)
  PROVE  /\ CommandTyped' /\ op'.kind = "create" /\ op'.vectors = op.vectors
         /\ op'.step = IF Snapshots[d] = "vectors" /\ ~op.vectors THEN "archive" ELSE Snapshots[d]
         /\ DOMAIN op'.got = IF d \in DOMAIN disk THEN DOMAIN op.got \cup {d} ELSE DOMAIN op.got
         /\ d \in DOMAIN disk => op'.got[d] = Held(d)
         /\ \A e \in DOMAIN op.got : d \notin DOMAIN disk \/ e # d => op'.got[e] = op.got[e]
<1> DEFINE got == IF d \in DOMAIN disk THEN [e \in DOMAIN op.got \cup {d} |-> IF e = d THEN Held(d) ELSE op.got[e]] ELSE op.got
           s == IF Snapshots[d] = "vectors" /\ ~op.vectors THEN "archive" ELSE Snapshots[d]
<1>1. op.kind = "create" /\ op \in [kind : {"create"}, got : {op.got}, vectors : BOOLEAN, step : Db \cup {"archive", "done"}]
      /\ FilesTyped(op.got)
  BY DEF HotSnapshot, BackupTypes, CommandTyped
<1>2. op' = [op EXCEPT !.step = s, !.got = got]
  BY Zenon DEF HotSnapshot
<1>3. s \in Db \cup {"archive", "done"}
  BY DEF Snapshots, Db, Durable
<1>4. FilesTyped(got)
  <2>1. d \in DOMAIN disk => Held(d) \subseteq DbRows(d)
    BY DEF Held, BackupTypes, BackupTypeOK, FilesTyped, DbRows, Db, Durable
  <2> QED
    BY <1>1, <2>1 DEF FilesTyped
<1> HIDE DEF got, s
<1>5. /\ op' \in [kind : {"create"}, got : {got}, vectors : BOOLEAN, step : Db \cup {"archive", "done"}]
      /\ op'.got = got /\ op'.step = s /\ op'.kind = "create" /\ op'.vectors = op.vectors
  BY <1>1, <1>2, <1>3
<1>6. CommandTyped'
  BY <1>4, <1>5 DEF CommandTyped, FilesTyped, DbRows
<1> QED
  BY <1>5, <1>6 DEF got, s

(* Every step keeps the types, and who is up. *)
LEMMA ShapeStep ==
  ASSUME BackupShape, [BackupNext]_backupVars, ~AsksDown
  PROVE  BackupShape'
<1> USE BackupAssumption DEF BackupShape, BackupTypes, WorkerHasFiles, DisturbedIsMarred, WorkerIsAsked, CompactedIsUp, ghosts, data, Step,
         Replacing
<1>1. ASSUME NEW r \in Observation, Writes(r)
      PROVE  BackupShape'
  BY <1>1, CommandStays, ArchiveStays DEF Writes, Up, BackupTypeOK, Durable, Commits
<1>2. ASSUME NEW r \in Observation, Indexes(r)
      PROVE  BackupShape'
  BY <1>2, CommandStays, ArchiveStays DEF Indexes, Up, BackupTypeOK, Durable, Commits
<1>3. ASSUME NEW r \in Observation, Embeds(r)
      PROVE  BackupShape'
  <2>1. FilesTyped(disk)' /\ DOMAIN disk' = DOMAIN disk
    <3>1. CASE r \in Held("meta")
      <4>1. "vectors" \in DOMAIN disk /\ worker.model \in EmbedderModel
        BY <1>3 DEF Embeds, Up, BackupTypeOK, Db
      <4>2. {v \in disk["vectors"] : v[1] # r} \cup {<<r, worker.model>>} \in SUBSET DbRows("vectors")
        BY <4>1 DEF BackupTypeOK, FilesTyped, DbRows
      <4> QED
        BY <1>3, <3>1, <4>1, <4>2, Puts DEF Embeds, Db
    <3>2. CASE r \notin Held("meta")
      BY <1>3, <3>2 DEF Embeds, BackupTypeOK
    <3> QED
      BY <3>1, <3>2
  <2> QED
    BY <1>3, <2>1, CommandStays, ArchiveStays DEF Embeds, Up, BackupTypeOK
<1>4. CASE ComesUp
  <2>1. Boot /\ UNCHANGED <<wal, aside, envModel, archive, op, pending, born, known, unclosed, operations, cuts>>
        /\ marred' = (marred \/ op.kind = "restore")
    BY <1>4 DEF ComesUp
  <2>2. BackupTypes'
    BY <2>1, Boots, CommandStays, ArchiveStays DEF BackupTypeOK
  <2>3. Up' /\ Db \subseteq DOMAIN disk' /\ worker'.stale = {}
    BY <2>1, Boots
  <2> QED
    BY <2>1, <2>2, <2>3
<1>5. ASSUME NEW m \in EmbedderModel, Reconfigure(m)
      PROVE  BackupShape'
  <2>1. FilesTyped(disk)' /\ DOMAIN disk' = DOMAIN disk
    <3>1. "vectors" \in DOMAIN disk
      BY <1>5 DEF Reconfigure, Up, Db
    <3>2. {v[1] : v \in disk["vectors"]} \X {m} \in SUBSET DbRows("vectors")
      BY <3>1 DEF BackupTypeOK, FilesTyped, DbRows
    <3> QED
      BY <1>5, <3>1, <3>2, Puts DEF Reconfigure, Db
  <2>2. envModel' \in [user : EmbedderModel \cup {NoEnv}, etc : EmbedderModel \cup {NoEnv}]
    BY <1>5 DEF Reconfigure, BackupTypeOK
  <2>3. worker' \in [model : EmbedderModel, stale : SUBSET Db] /\ worker'.stale = {} /\ Up'
    BY <1>5 DEF Reconfigure, BackupTypeOK, Up, NoWorker
  <2>4. BackupTypeOK'
    BY <1>5, <2>1, <2>2, <2>3 DEF Reconfigure, BackupTypeOK
  <2>5. op' = op /\ archive' = archive /\ marred' = marred
    BY <1>5 DEF Reconfigure
  <2>6. op.kind = "none"
    BY <1>5 DEF Reconfigure, NoCommand
  <2> QED
    BY <1>5, <2>1, <2>3, <2>4, <2>5, <2>6, CommandStays, ArchiveStays DEF Reconfigure, Up
<1>6. ASSUME NEW v \in BOOLEAN, BeginCreate(v)
      PROVE  BackupShape'
  <2>1. op' = [kind |-> "create", got |-> NoFiles, vectors |-> v, step |-> "meta"]
    BY <1>6 DEF BeginCreate, Begin, Snapshots
  <2>2. FilesTyped(NoFiles) /\ UNCHANGED <<disk, wal, aside, pending, born, known, unclosed, envModel, worker, archive, marred, cuts>>
    BY <1>6 DEF BeginCreate, FilesTyped, NoFiles
  <2>3. CommandTyped'
    BY <2>1, <2>2 DEF CommandTyped, Db, Durable, FilesTyped
  <2>4. Up /\ operations' \in 0 .. MaxOperations
    BY <1>6 DEF BeginCreate, Begin, BackupTypeOK
  <2> QED
    BY <2>1, <2>2, <2>3, <2>4, ArchiveStays DEF BackupTypeOK, Up
<1>7. ASSUME NEW d \in Db, HotSnapshot(d)
      PROVE  BackupShape'
  <2>1. UNCHANGED <<disk, wal, aside, pending, born, known, unclosed, envModel, worker, archive, marred, operations, cuts>>
    BY <1>7 DEF HotSnapshot
  <2>2. CommandTyped' /\ op'.kind = "create" /\ op.kind = "create"
    BY <1>7, Snapshot, <2>1 DEF HotSnapshot
  <2>3. BackupTypeOK'
    BY <2>1, <2>2 DEF BackupTypeOK
  <2>4. (archive = NoArchive \/ ArchiveTyped(archive))'
    BY <2>1, ArchiveStays
  <2>5. Up /\ Up' /\ worker' = worker /\ disk' = disk /\ marred' = marred /\ DOMAIN disk' = DOMAIN disk
    BY <2>1, <2>2 DEF Up
  <2> QED
    BY <2>2, <2>3, <2>4, <2>5
<1>8. CASE CreateArchive
  <2>1. op.kind = "create" /\ Up
    BY <1>8 DEF CreateArchive, CommandTyped, RestoreStep, NoCommand, BackupTypeOK
  <2>2. UNCHANGED <<disk, wal, aside, pending, born, known, unclosed, envModel, worker, marred, operations, cuts>>
    BY <1>8 DEF CreateArchive
  <2>3. ArchiveTyped(archive)'
    BY <1>8, <2>1 DEF CreateArchive, ArchiveTyped, EmbedderAsked, BackupTypeOK, Up, CommandTyped, FilesTyped, DbRows
  <2>4. CommandTyped' /\ op'.kind = "create"
    BY <1>8, <2>1 DEF CreateArchive, Then, CommandTyped, FilesTyped, DbRows
  <2> QED
    BY <2>1, <2>2, <2>3, <2>4 DEF BackupTypeOK, Up
<1>9. ASSUME NEW v \in BOOLEAN, BeginRestore(v)
      PROVE  BackupShape'
  BY <1>9, ArchiveStays DEF BeginRestore, Begin, BackupTypeOK, Up, RestoreStep, EmbedderAsked, CommandTyped
<1>10. CASE RestoreStops
  <2>1. op.kind = "restore" /\ op.step = "stop" /\ Up
    BY <1>10 DEF RestoreStops
  <2>2. UNCHANGED <<aside, envModel, archive, pending, born, known, operations, cuts>> /\ RestoreGoesOn
    BY <1>10 DEF RestoreStops
  <2>3. CommandTyped' /\ op'.kind = "restore" /\ Replacing'
    BY <2>1, <2>2, RestoreAdvances
  <2>4. \/ Close /\ marred' \in BOOLEAN /\ unclosed' = unclosed
        \/ worker' = NoWorker /\ UNCHANGED <<disk, wal>> /\ marred' \in BOOLEAN /\ unclosed' = TRUE
        \/ UNCHANGED <<disk, wal, worker>> /\ marred' = TRUE /\ unclosed' = TRUE
    <3>1. archive.marred \in BOOLEAN
      <4>1. CASE archive = NoArchive
        BY <4>1 DEF NoArchive
      <4>2. CASE ArchiveTyped(archive)
        BY <4>2 DEF ArchiveTyped
      <4> QED
        BY <4>1, <4>2
    <3> QED
      BY <1>10, <2>1, <3>1 DEF RestoreStops, StopCloses, StopKills
  <2>5. BackupTypeOK' /\ (Up' => worker' = worker /\ disk' = disk /\ marred') /\ (~Up' => worker' = NoWorker)
    <3>1. CASE Close /\ marred' \in BOOLEAN /\ unclosed' = unclosed
      BY <2>1, <2>2, <2>3, <3>1, Closes DEF BackupTypeOK, Up
    <3>2. CASE worker' = NoWorker /\ UNCHANGED <<disk, wal>> /\ marred' \in BOOLEAN /\ unclosed' = TRUE
      BY <2>1, <2>2, <2>3, <3>2 DEF BackupTypeOK, Up
    <3>3. CASE UNCHANGED <<disk, wal, worker>> /\ marred' = TRUE /\ unclosed' = TRUE
      BY <2>1, <2>2, <2>3, <3>3 DEF BackupTypeOK, Up
    <3> QED
      BY <2>4, <3>1, <3>2, <3>3
  <2>6. (archive = NoArchive \/ ArchiveTyped(archive))'
    BY <2>2, ArchiveStays
  <2> QED
    BY <2>1, <2>3, <2>5, <2>6 DEF NoWorker
<1>11. ASSUME NEW d \in Db, MoveAside(d)
      PROVE  BackupShape'
  <2>1. op.kind = "restore" /\ op.step \in {"asideMeta", "asideObservations", "asideVectors"}
    BY <1>11 DEF MoveAside, AsideStep, CommandTyped, BackupTypeOK, NoCommand, Db, Durable
  <2>2. UNCHANGED <<wal, envModel, archive, pending, ghosts, operations, cuts>> /\ RestoreGoesOn /\ Unnamed(d) /\ disk' = DiskWithout(d)
    BY <1>11 DEF MoveAside
  <2>3. CommandTyped' /\ op'.kind = "restore" /\ Replacing'
    BY <2>1, <2>2, RestoreAdvances
  <2>4. aside' \in [Durable -> SUBSET Observation]
    BY <1>11 DEF MoveAside, BackupTypeOK, FilesTyped, DbRows, Durable
  <2>5. BackupTypeOK'
    BY <2>2, <2>3, <2>4, Removes, Unnames DEF BackupTypeOK
  <2>6. (archive = NoArchive \/ ArchiveTyped(archive))'
    BY <2>2, ArchiveStays
  <2> QED
    BY <2>1, <2>2, <2>3, <2>5, <2>6, Removes, Unnames
<1>12. CASE DropWal
  <2>1. op.kind = "restore" /\ op.step = "dropWal"
    BY <1>12 DEF DropWal, CommandTyped, BackupTypeOK, NoCommand, Db, Durable
  <2>2. UNCHANGED <<disk, aside, envModel, worker, archive, pending, ghosts, operations, cuts>> /\ RestoreGoesOn
    BY <1>12 DEF DropWal
  <2>3. CommandTyped' /\ op'.kind = "restore" /\ Replacing'
    BY <2>1, <2>2, RestoreAdvances
  <2>4. wal' \in [Durable -> SUBSET Observation]
    BY <1>12 DEF DropWal
  <2>5. (archive = NoArchive \/ ArchiveTyped(archive))'
    BY <2>2, ArchiveStays
  <2> QED
    BY <2>1, <2>2, <2>3, <2>4, <2>5 DEF BackupTypeOK, Up
<1>13. ASSUME NEW d \in Durable, PutBack(d)
      PROVE  BackupShape'
  <2>1. op.kind = "restore" /\ op.step \in {"putMeta", "putObservations"}
    BY <1>13 DEF PutBack, PutStep, CommandTyped, BackupTypeOK, NoCommand, Db, Durable
  <2>2. UNCHANGED <<wal, aside, envModel, archive, pending, ghosts, operations, cuts>> /\ RestoreGoesOn
    BY <1>13 DEF PutBack
  <2>3. CommandTyped' /\ op'.kind = "restore" /\ Replacing'
    BY <2>1, <2>2, RestoreAdvances
  <2>4. (archive = NoArchive \/ ArchiveTyped(archive))'
    BY <2>2, ArchiveStays
  <2>5. CASE d \in DOMAIN archive.files
    <3>1. disk' = DiskWith(d, archive.files[d]) /\ Unnamed(d) /\ d \in Db /\ archive.files[d] \in SUBSET DbRows(d)
      BY <1>13, <2>1, <2>5 DEF PutBack, ArchiveTyped, FilesTyped, CommandTyped, Db
    <3>2. FilesTyped(disk)' /\ DOMAIN disk' = DOMAIN disk \cup {d}
      BY <3>1, Puts
    <3> QED
      BY <2>1, <2>2, <2>3, <2>4, <3>1, <3>2, Unnames DEF BackupTypeOK
  <2>6. CASE d \notin DOMAIN archive.files
    <3>1. UNCHANGED <<disk, worker>>
      BY <1>13, <2>6 DEF PutBack
    <3> QED
      BY <2>1, <2>2, <2>3, <2>4, <3>1 DEF BackupTypeOK, Up
  <2> QED
    BY <2>5, <2>6
<1>14. CASE RestoreEnv
  <2>1. op.kind = "restore" /\ op.step \in {"asideEnv", "putEnv"}
    BY <1>14 DEF RestoreEnv, CommandTyped, BackupTypeOK, NoCommand, Db, Durable
  <2>2. UNCHANGED <<disk, wal, aside, pending, born, known, unclosed, worker, archive, marred, operations, cuts>> /\ RestoreGoesOn
    BY <1>14 DEF RestoreEnv
  <2>3. CommandTyped' /\ op'.kind = "restore" /\ Replacing'
    BY <2>1, <2>2, RestoreAdvances
  <2>4. envModel' \in [user : EmbedderModel \cup {NoEnv}, etc : EmbedderModel \cup {NoEnv}]
    BY <1>14, <2>1 DEF RestoreEnv, BackupTypeOK, ArchiveTyped, CommandTyped
  <2>5. (archive = NoArchive \/ ArchiveTyped(archive))'
    BY <2>2, ArchiveStays
  <2> QED
    BY <2>1, <2>2, <2>3, <2>4, <2>5 DEF BackupTypeOK, Up
<1>15. CASE RestoreVectors
  <2>1. op.kind = "restore" /\ op.step = "vectors" /\ Unnamed("vectors")
    BY <1>15 DEF RestoreVectors
  <2>2. UNCHANGED <<wal, aside, envModel, archive, pending, ghosts, operations, cuts>>
    BY <1>15 DEF RestoreVectors
  <2>3. CommandTyped' /\ op'.kind = "restore" /\ Replacing'
    <3>1. CASE RestoreGoesOn
      BY <2>1, <2>2, <3>1, RestoreAdvances
    <3>2. CASE op' = [op EXCEPT !.step = RestoreOrder[@], !.anew = TRUE]
      <4>1. op' = [op EXCEPT !.step = "start", !.anew = TRUE]
        BY <2>1, <3>2 DEF RestoreOrder
      <4> QED
        BY <2>1, <2>2, <4>1 DEF CommandTyped, RestoreStep
    <3> QED
      BY <1>15, <3>1, <3>2 DEF RestoreVectors
  <2>4. (archive = NoArchive \/ ArchiveTyped(archive))'
    BY <2>2, ArchiveStays
  <2>5. FilesTyped(disk)' /\ DOMAIN disk \subseteq DOMAIN disk' \cup {"vectors"}
    <3>1. CASE VectorsCompatible /\ disk' = DiskWith("vectors", archive.files["vectors"])
      <4>1. archive.files["vectors"] \in SUBSET DbRows("vectors")
        BY <2>1, <3>1 DEF VectorsCompatible, ArchiveTyped, FilesTyped, CommandTyped
      <4> QED
        BY <3>1, <4>1, Puts DEF Db
    <3>2. CASE disk' = DiskWithout("vectors")
      BY <3>2, Removes
    <3> QED
      BY <1>15, <3>1, <3>2 DEF RestoreVectors
  <2> QED
    BY <2>1, <2>2, <2>3, <2>4, <2>5, Unnames DEF BackupTypeOK, Db
<1>16. CASE RestoreReindexes
  <2>1. op.kind = "restore" /\ op.step = "reindex" /\ Up
    BY <1>16 DEF RestoreReindexes, CommandTyped, BackupTypeOK, NoCommand, Db, Durable
  <2>2. UNCHANGED <<aside, envModel, worker, archive, pending, born, marred, unclosed, operations, cuts>> /\ Then("done")
    BY <1>16 DEF RestoreReindexes
  <2>3. CommandTyped' /\ op'.kind = "restore" /\ op'.step = "done"
    BY <2>1, <2>2, CommandGoesTo DEF RestoreStep
  <2>4. (archive = NoArchive \/ ArchiveTyped(archive))'
    BY <2>2, ArchiveStays
  <2>5. CASE worker.stale = {} /\ Reindexed(TRUE)
    BY <2>1, <2>2, <2>3, <2>4, <2>5, Reindexes DEF BackupTypeOK, Up
  <2>6. CASE UNCHANGED <<wal, disk, known>>
    BY <2>1, <2>2, <2>3, <2>4, <2>6 DEF BackupTypeOK, Up
  <2> QED
    BY <1>16, <2>5, <2>6 DEF RestoreReindexes
<1>17. CASE BeginVacuum
  <2>1. PICK s \in {"stop", "pack"} : op' = [kind |-> "vacuum", up |-> Up, step |-> s]
    BY <1>17 DEF BeginVacuum, Begin
  <2>2. UNCHANGED <<disk, wal, aside, pending, born, known, unclosed, envModel, worker, archive, marred, cuts>>
    BY <1>17 DEF BeginVacuum
  <2>3. CommandTyped' /\ op'.kind = "vacuum" /\ op'.step # "done"
    BY <2>1 DEF CommandTyped, Up
  <2>4. operations' \in 0 .. MaxOperations
    BY <1>17 DEF BeginVacuum, Begin, BackupTypeOK
  <2>5. (archive = NoArchive \/ ArchiveTyped(archive))'
    BY <2>2, ArchiveStays
  <2> QED
    BY <2>2, <2>3, <2>4, <2>5 DEF BackupTypeOK, Up
<1>18. ASSUME NEW v \in BOOLEAN, BeginUpgrade(v)
       PROVE  BackupShape'
  <2>1. PICK s \in {"raise", "rechunk", "stop", "pack"} : op' = [kind |-> "upgrade", up |-> Up \/ v, step |-> s]
    BY <1>18 DEF BeginUpgrade, Begin
  <2>2. UNCHANGED <<disk, wal, aside, pending, born, known, unclosed, envModel, worker, archive, marred, cuts>>
    BY <1>18 DEF BeginUpgrade
  <2>3. CommandTyped' /\ op'.kind = "upgrade" /\ op'.step # "done"
    BY <2>1 DEF CommandTyped, Up
  <2>4. operations' \in 0 .. MaxOperations
    BY <1>18 DEF BeginUpgrade, Begin, BackupTypeOK
  <2>5. (archive = NoArchive \/ ArchiveTyped(archive))'
    BY <2>2, ArchiveStays
  <2> QED
    BY <2>2, <2>3, <2>4, <2>5 DEF BackupTypeOK, Up
<1>19. CASE Rechunk
  <2>1. op.kind \in {"vacuum", "upgrade"} /\ op.step = "rechunk" /\ Up
    <3>1. op.step = "rechunk" /\ Up
      BY <1>19 DEF Rechunk
    <3> QED
      BY <3>1 DEF CommandTyped, BackupTypeOK, NoCommand, Db, Durable, RestoreStep
  <2>2. UNCHANGED <<aside, envModel, worker, archive, pending, born, marred, unclosed, operations, cuts>> /\ Then("stop")
    BY <1>19 DEF Rechunk
  <2>3. CommandTyped' /\ op'.kind = op.kind /\ op'.step = "stop"
    BY <2>1, <2>2, CommandGoesTo
  <2>4. (archive = NoArchive \/ ArchiveTyped(archive))'
    BY <2>2, ArchiveStays
  <2>5. CASE worker.stale = {} /\ Reindexed(FALSE)
    BY <2>1, <2>2, <2>3, <2>4, <2>5, Reindexes DEF BackupTypeOK, Up
  <2>6. CASE UNCHANGED <<wal, disk, known>>
    BY <2>1, <2>2, <2>3, <2>4, <2>6 DEF BackupTypeOK, Up
  <2> QED
    BY <1>19, <2>5, <2>6 DEF Rechunk
<1>20. CASE VacuumStops
  <2>1. op.kind \in {"vacuum", "upgrade"} /\ op.step = "stop"
    BY <1>20 DEF VacuumStops, CommandTyped, BackupTypeOK, NoCommand, Db, Durable
  <2>2. UNCHANGED <<aside, envModel, archive, pending, ghosts, operations, cuts>>
    BY <1>20 DEF VacuumStops
  <2>3. CommandTyped' /\ ((op'.kind = op.kind /\ op'.step = "pack") \/ op' = NoCommand)
    <3>1. CASE Then("pack")
      BY <2>1, <2>2, <3>1, CommandGoesTo
    <3>2. CASE op' = NoCommand
      BY <3>2 DEF CommandTyped, NoCommand
    <3> QED
      BY <1>20, <3>1, <3>2 DEF VacuumStops
  <2>4. (archive = NoArchive \/ ArchiveTyped(archive))'
    BY <2>2, ArchiveStays
  <2>5. BackupTypeOK' /\ (Up' => worker' = worker /\ disk' = disk) /\ (~Up' => worker' = NoWorker)
    <3>0. op'.kind \in {"none", "vacuum", "upgrade"}
      BY <2>1, <2>3 DEF NoCommand
    <3>1. CASE Up /\ Close
      BY <2>2, <3>0, <3>1, Closes DEF BackupTypeOK, Up
    <3>2. CASE worker' = NoWorker /\ UNCHANGED <<disk, wal>>
      BY <2>2, <3>0, <3>2 DEF BackupTypeOK, Up
    <3>3. CASE UNCHANGED <<disk, wal, worker>>
      BY <2>2, <3>0, <3>3 DEF BackupTypeOK, Up
    <3> QED
      BY <1>20, <3>1, <3>2, <3>3 DEF VacuumStops, StopCloses, StopKills
  <2> QED
    BY <2>1, <2>2, <2>3, <2>4, <2>5 DEF NoWorker, NoCommand, Up
<1>21. CASE Vacuum
  <2>1. op.kind \in {"vacuum", "upgrade"} /\ op.step = "pack" /\ op.up \in BOOLEAN
    BY <1>21 DEF Vacuum, CommandTyped, BackupTypeOK, NoCommand, Db, Durable, RestoreStep
  <2>2. UNCHANGED <<aside, envModel, worker, archive, pending, ghosts, operations, cuts>>
    BY <1>21 DEF Vacuum
  <2>3. CommandTyped' /\ ((op'.kind = op.kind /\ op'.up = op.up /\ (op.up => op'.step = "start")) \/ op' = NoCommand)
    <3>1. CASE Packed
      <4>1. PICK s \in {"start", "done"} : Then(s) /\ (op.up => s = "start")
        BY <3>1 DEF Packed
      <4> QED
        BY <2>1, <2>2, <4>1, CommandGoesTo
    <3>2. CASE op' = NoCommand
      BY <3>2 DEF CommandTyped, NoCommand
    <3> QED
      BY <1>21, <3>1, <3>2 DEF Vacuum
  <2>4. (archive = NoArchive \/ ArchiveTyped(archive))'
    BY <2>2, ArchiveStays
  <2>5. FilesTyped(disk)' /\ DOMAIN disk' = DOMAIN disk /\ wal' \in [Durable -> SUBSET Observation]
    BY <1>21 DEF Vacuum, BackupTypeOK, FilesTyped, DbRows, Durable
  <2>6. op'.kind \in {"none", "vacuum", "upgrade"}
    BY <2>1, <2>3 DEF NoCommand
  <2>7. BackupTypeOK' /\ (Up' <=> Up)
    BY <2>2, <2>5, <2>6 DEF BackupTypeOK, Up
  <2> QED
    BY <2>1, <2>2, <2>3, <2>4, <2>5, <2>6, <2>7 DEF NoCommand
<1>24. CASE StartAgain
  <2>1. op.step \in {"raise", "start"} /\ op.kind \in {"restore", "vacuum", "upgrade"}
    BY <1>24 DEF StartAgain, CommandTyped, BackupTypeOK, NoCommand, Db, Durable, RestoreStep
  <2>2. UNCHANGED <<wal, aside, envModel, archive, pending, ghosts, operations, cuts>>
    BY <1>24 DEF StartAgain
  <2>3. CommandTyped' /\ op'.kind = op.kind /\ ~Replacing'
    <3>1. PICK s \in {"rechunk", "reindex", "done"} :
            /\ Then(s)
            /\ s = "reindex" => op.kind = "restore"
            /\ s = "rechunk" => op.step = "raise"
      BY <1>24 DEF StartAgain
    <3>2. op.step = "raise" => op.kind # "restore"
      BY DEF CommandTyped, RestoreStep
    <3> QED
      BY <2>1, <2>2, <3>1, <3>2, CommandGoesTo DEF RestoreStep
  <2>4. (archive = NoArchive \/ ArchiveTyped(archive))'
    BY <2>2, ArchiveStays
  <2>5. BackupTypeOK' /\ Up' /\ ((worker' = worker /\ disk' = disk) \/ (worker'.stale = {} /\ DOMAIN disk' = Db))
    <3>1. CASE Up /\ UNCHANGED <<disk, worker>>
      BY <2>1, <2>2, <2>3, <3>1 DEF BackupTypeOK, Up
    <3>2. CASE Boot
      BY <2>1, <2>2, <2>3, <3>2, Boots DEF BackupTypeOK
    <3> QED
      BY <1>24, <3>1, <3>2 DEF StartAgain
  <2> QED
    BY <2>1, <2>2, <2>3, <2>4, <2>5 DEF Up
<1>25. CASE End
  BY <1>25, ArchiveStays DEF End, BackupTypeOK, NoCommand, Up, CommandTyped
<1>22. CASE CutShort
  BY <1>22, ArchiveStays DEF CutShort, BackupTypeOK, NoCommand, Up, CommandTyped
<1>23. CASE UNCHANGED backupVars
  BY <1>23, CommandStays, ArchiveStays DEF backupVars, BackupTypeOK, Up
<1> QED
  BY <1>1, <1>2, <1>3, <1>4, <1>5, <1>6, <1>7, <1>8, <1>9, <1>10, <1>11, <1>12, <1>13, <1>14, <1>15, <1>16, <1>17, <1>18,
     <1>19, <1>20, <1>21, <1>22, <1>23, <1>24, <1>25, Zenon
     DEF BackupNext, WorkerAtWork, Creates, Restores, Compacts

-----------------------------------------------------------------------------
(* Backup and restore: nothing is lost                                     *)

(* The steps of a restore before the one that moves a database aside. *)
Unmoved == [meta |-> {"asideMeta"}, observations |-> {"asideMeta", "asideObservations"}]

(* What was committed is in the data directory or aside.  While a restore replaces, or once the file has no name, it is not
   in the -wal: that is what DropWal deletes.  From the step that moves the database aside on, it is aside. *)
KnownAt(d) ==
  /\ known[d] \subseteq Held(d) \cup aside[d]
  /\ Replacing \/ d \in worker.stale => known[d] \subseteq StoredIn(disk, d) \cup aside[d]
  /\ Replacing /\ op.step \notin Unmoved[d] => known[d] \subseteq aside[d]
KnownIsKept == ~unclosed => \A d \in Durable : KnownAt(d)

(* What a reader sees is the file's rows and the -wal's. *)
LEMMA HeldIs ==
  ASSUME NEW d \in Durable
  PROVE  Held(d) = StoredIn(disk, d) \cup wal[d] /\ Held(d)' = StoredIn(disk', d) \cup wal'[d]
BY DEF Held, StoredIn

(* Rows that stay or move aside are not lost. *)
LEMMA KnownStays ==
  ASSUME NEW d \in Durable, KnownAt(d), known'[d] = known[d], aside[d] \subseteq aside'[d],
         StoredIn(disk, d) \subseteq StoredIn(disk', d) \cup aside'[d],
         wal[d] \subseteq wal'[d] \cup StoredIn(disk', d) \cup aside'[d],
         Replacing' \/ d \in worker'.stale => Replacing \/ d \in worker.stale,
         Replacing' /\ op'.step \notin Unmoved[d] => Replacing /\ op.step \notin Unmoved[d]
  PROVE  KnownAt(d)'
BY HeldIs DEF KnownAt

(* No step loses what was committed, unless a restore could not close the databases. *)
LEMMA KnownStep ==
  ASSUME BackupShape, KnownIsKept, [BackupNext]_backupVars, ~AsksDown
  PROVE  KnownIsKept'
<1> SUFFICES ASSUME ~unclosed', NEW d \in Durable
             PROVE  KnownAt(d)'
  BY DEF KnownIsKept
<1>0. BackupTypes /\ BackupTypeOK /\ (~unclosed => KnownAt(d)) /\ d \in Db /\ d # "vectors"
  BY DEF BackupShape, BackupTypes, KnownIsKept, Db, Durable
<1>1. ASSUME NEW r \in Observation, Writes(r)
      PROVE  KnownAt(d)'
  <2>1. UNCHANGED <<disk, aside, worker, op, unclosed>> /\ wal'[d] = (IF d = "observations" THEN wal[d] \cup {r} ELSE wal[d])
        /\ known'[d] = (IF d = "observations" /\ ~Replacing THEN known[d] \cup {r} ELSE known[d])
        /\ "observations" \notin worker.stale
    BY <1>0, <1>1 DEF Writes, Commits, BackupTypeOK, Durable
  <2> QED
    BY <1>0, <2>1, HeldIs DEF KnownAt, Replacing
<1>2. ASSUME NEW r \in Observation, Indexes(r)
      PROVE  KnownAt(d)'
  <2>1. UNCHANGED <<disk, aside, worker, op, unclosed>> /\ wal'[d] = (IF d = "meta" THEN wal[d] \cup {r} ELSE wal[d])
        /\ known'[d] = (IF d = "meta" /\ ~Replacing THEN known[d] \cup {r} ELSE known[d])
        /\ "meta" \notin worker.stale
    BY <1>0, <1>2 DEF Indexes, Commits, BackupTypeOK, Durable
  <2> QED
    BY <1>0, <2>1, HeldIs DEF KnownAt, Replacing
<1>3. ASSUME NEW r \in Observation, Embeds(r)
      PROVE  KnownAt(d)'
  <2>1. UNCHANGED <<wal, aside, known, worker, op, unclosed>>
    BY <1>3 DEF Embeds, ghosts
  <2>2. StoredIn(disk', d) = StoredIn(disk, d)
    BY <1>0, <1>3 DEF Embeds, StoredIn, DiskWith
  <2> QED
    BY <1>0, <2>1, <2>2, KnownStays DEF Replacing
<1>4. CASE ComesUp
  <2>1. UNCHANGED <<wal, aside, known, op, unclosed>> /\ Boot
    BY <1>4 DEF ComesUp
  <2>2. StoredIn(disk', d) = StoredIn(disk, d) /\ worker'.stale = {}
    BY <1>0, <2>1, Boots DEF StoredIn
  <2> QED
    BY <1>0, <2>1, <2>2, KnownStays DEF Replacing
<1>5. ASSUME NEW m \in EmbedderModel, Reconfigure(m)
      PROVE  KnownAt(d)'
  <2>1. UNCHANGED <<wal, aside, known, op, unclosed>> /\ worker'.stale = worker.stale
    BY <1>0, <1>5 DEF Reconfigure, ghosts, BackupTypeOK, Up
  <2>2. StoredIn(disk', d) = StoredIn(disk, d)
    BY <1>0, <1>5 DEF Reconfigure, StoredIn, DiskWith
  <2> QED
    BY <1>0, <2>1, <2>2, KnownStays DEF Replacing
<1>6. ASSUME UNCHANGED <<disk, wal, aside, known, unclosed, worker>>,
             Replacing' => Replacing /\ op'.step = op.step
      PROVE  KnownAt(d)'
  BY <1>0, <1>6, KnownStays
<1>7. ASSUME NEW v \in BOOLEAN, BeginCreate(v) \/ BeginRestore(v) \/ BeginUpgrade(v) \/ BeginVacuum
      PROVE  KnownAt(d)'
  <2>1. UNCHANGED <<disk, wal, aside, known, unclosed, worker>>
    BY <1>7 DEF BeginCreate, BeginRestore, BeginUpgrade, BeginVacuum, data
  <2>2. ~Replacing'
    BY <1>7 DEF BeginCreate, BeginRestore, BeginUpgrade, BeginVacuum, Begin, Replacing
  <2> QED
    BY <1>6, <2>1, <2>2
<1>8. ASSUME NEW e \in Db, HotSnapshot(e)
      PROVE  KnownAt(d)'
  <2>1. UNCHANGED <<disk, wal, aside, known, unclosed, worker>> /\ op'.kind = "create"
    BY <1>0, <1>8, Snapshot DEF HotSnapshot, data
  <2> QED
    BY <1>6, <2>1 DEF Replacing
<1>9. CASE CreateArchive
  <2>1. UNCHANGED <<disk, wal, aside, known, unclosed, worker>> /\ op'.step = "done"
    BY <1>0, <1>9 DEF CreateArchive, data, Then, BackupTypes, CommandTyped, NoCommand, Step, RestoreStep
  <2> QED
    BY <1>6, <2>1 DEF Replacing
<1>10. CASE RestoreStops
  <2>1. op.kind = "restore" /\ op.step = "stop" /\ Up /\ UNCHANGED <<aside, archive, known>> /\ RestoreGoesOn
    BY <1>10 DEF RestoreStops, BackupShape, WorkerIsAsked, Replacing, Step
  <2>2. Close /\ ~unclosed
    BY <1>10, <2>1 DEF RestoreStops, StopCloses
  <2>3. op'.step = "asideMeta"
    BY <1>0, <2>1, RestoreAdvances DEF RestoreOrder
  <2>4. known[d] \subseteq StoredIn(disk', d) \cup aside[d]
    <3>1. CASE d \in worker.stale
      BY <1>0, <2>1, <2>2, <3>1, Closes DEF KnownAt
    <3>2. CASE d \notin worker.stale
      BY <1>0, <2>1, <2>2, <3>2, Closes, HeldIs DEF KnownAt, BackupShape, WorkerHasFiles
    <3> QED
      BY <3>1, <3>2
  <2>5. "asideMeta" \in Unmoved[d]
    BY DEF Unmoved, Durable
  <2> QED
    BY <2>1, <2>3, <2>4, <2>5, HeldIs DEF KnownAt
<1>11. ASSUME NEW e \in Db, MoveAside(e)
       PROVE  KnownAt(d)'
  <2>1. op.kind = "restore" /\ op.step = AsideStep[e] /\ op.step \in {"asideMeta", "asideObservations", "asideVectors"}
    BY <1>0, <1>11 DEF MoveAside, AsideStep, CommandTyped, BackupTypes, BackupTypeOK, NoCommand, Db, Durable, Step
  <2>2. UNCHANGED <<wal, archive, known, unclosed>> /\ RestoreGoesOn /\ disk' = DiskWithout(e)
    BY <1>11 DEF MoveAside, ghosts
  <2>3. op'.step = RestoreOrder[op.step] /\ Replacing' /\ Replacing
    BY <1>0, <2>1, <2>2, RestoreAdvances DEF Replacing
  <2>4. aside' = IF e \in Durable /\ e \in DOMAIN disk THEN [aside EXCEPT ![e] = @ \cup disk[e]] ELSE aside
    BY <1>11 DEF MoveAside
  <2>5. CASE e = d
    <3>1. StoredIn(disk', d) = {} /\ aside'[d] = aside[d] \cup StoredIn(disk, d)
      BY <1>0, <2>2, <2>4, <2>5, Removes DEF StoredIn, BackupTypeOK
    <3> QED
      BY <1>0, <2>2, <2>3, <3>1, HeldIs DEF KnownAt
  <2>6. CASE e # d
    <3>1. StoredIn(disk', d) = StoredIn(disk, d) /\ aside'[d] = aside[d]
      <4>1. StoredIn(disk', d) = StoredIn(disk, d)
        BY <1>0, <2>2, <2>6, Removes
      <4>2. aside'[d] = aside[d]
        BY <1>0, <2>4, <2>6 DEF BackupTypeOK
      <4> QED
        BY <4>1, <4>2
    <3>2. op'.step \notin Unmoved[d] => op.step \notin Unmoved[d]
      BY <2>1, <2>3, <2>6 DEF Unmoved, RestoreOrder, AsideStep, Durable, Db
    <3> QED
      BY <1>0, <2>2, <2>3, <3>1, <3>2, KnownStays
  <2> QED
    BY <2>5, <2>6
<1>12. CASE DropWal
  <2>1. op.kind = "restore" /\ op.step = "dropWal"
    BY <1>0, <1>12 DEF DropWal, CommandTyped, BackupTypes, BackupTypeOK, NoCommand, Db, Durable, Step
  <2>2. UNCHANGED <<disk, aside, archive, known, unclosed>> /\ RestoreGoesOn
    BY <1>12 DEF DropWal, ghosts
  <2>3. Replacing
    BY <2>1 DEF Replacing
  <2>4. op.step \notin Unmoved[d]
    BY <2>1 DEF Unmoved, Durable
  <2> QED
    BY <1>0, <2>2, <2>3, <2>4, HeldIs DEF KnownAt
<1>13. ASSUME NEW e \in Durable, PutBack(e)
       PROVE  KnownAt(d)'
  <2>1. op.kind = "restore" /\ op.step \in {"putMeta", "putObservations"}
    BY <1>0, <1>13 DEF PutBack, PutStep, CommandTyped, BackupTypes, BackupTypeOK, NoCommand, Db, Durable, Step
  <2>2. UNCHANGED <<aside, known, unclosed>>
    BY <1>13 DEF PutBack, ghosts
  <2>3. Replacing /\ op.step \notin Unmoved[d]
    BY <2>1 DEF Replacing, Unmoved, Durable
  <2> QED
    BY <1>0, <2>2, <2>3, HeldIs DEF KnownAt
<1>14. CASE RestoreEnv
  <2>1. op.kind = "restore" /\ op.step \in {"asideEnv", "putEnv"}
    BY <1>0, <1>14 DEF RestoreEnv, CommandTyped, BackupTypes, BackupTypeOK, NoCommand, Db, Durable, Step
  <2>2. UNCHANGED <<aside, known, unclosed>>
    BY <1>14 DEF RestoreEnv, data
  <2>3. Replacing /\ op.step \notin Unmoved[d]
    BY <2>1 DEF Replacing, Unmoved, Durable
  <2> QED
    BY <1>0, <2>2, <2>3, HeldIs DEF KnownAt
<1>15. CASE RestoreVectors
  <2>1. op.kind = "restore" /\ op.step = "vectors"
    BY <1>15 DEF RestoreVectors, Step
  <2>2. UNCHANGED <<aside, known, unclosed>>
    BY <1>15 DEF RestoreVectors, ghosts
  <2>3. Replacing /\ op.step \notin Unmoved[d]
    BY <2>1 DEF Replacing, Unmoved, Durable
  <2> QED
    BY <1>0, <2>2, <2>3, HeldIs DEF KnownAt
<1>16. ASSUME ~Replacing, ~Replacing', UNCHANGED <<aside, worker, unclosed>>,
              \/ UNCHANGED <<wal, disk, known>>
              \/ Up /\ worker.stale = {} /\ \E all \in BOOLEAN : Reindexed(all)
       PROVE  KnownAt(d)'
  <2>1. CASE UNCHANGED <<wal, disk, known>>
    BY <1>0, <1>16, <2>1, KnownStays
  <2>2. ASSUME NEW all \in BOOLEAN, Reindexed(all), Up, worker.stale = {}
        PROVE  KnownAt(d)'
    BY <1>0, <1>16, <2>2, Reindexes, HeldIs DEF KnownAt, BackupShape, Durable
  <2> QED
    BY <1>16, <2>1, <2>2
<1>17. CASE RestoreReindexes
  <2>1. op.step = "reindex" /\ op.kind = "restore" /\ UNCHANGED archive /\ Then("done")
    BY <1>0, <1>17 DEF RestoreReindexes, CommandTyped, BackupTypes, BackupTypeOK, NoCommand, Db, Durable, Step
  <2>2. ~Replacing /\ ~Replacing'
    BY <1>0, <2>1, CommandGoesTo DEF Replacing, BackupTypes, RestoreStep
  <2> QED
    BY <1>16, <1>17, <2>2 DEF RestoreReindexes
<1>18. CASE Rechunk
  <2>1. op.step = "rechunk" /\ op.kind # "restore"
    BY <1>0, <1>18 DEF Rechunk, CommandTyped, BackupTypes, RestoreStep, Step
  <2>2. ~Replacing /\ ~Replacing'
    BY <1>18, <2>1 DEF Replacing, Rechunk, Then, BackupTypes, CommandTyped
  <2> QED
    BY <1>16, <1>18, <2>2 DEF Rechunk
<1>19. CASE VacuumStops
  <2>1. ~Replacing /\ ~Replacing' /\ UNCHANGED <<aside, known, unclosed>>
    <3>1. op.kind \in {"vacuum", "upgrade"} /\ op.step = "stop"
      BY <1>0, <1>19 DEF VacuumStops, CommandTyped, BackupTypes, BackupTypeOK, NoCommand, Db, Durable, Step
    <3>2. op' = NoCommand \/ (Then("pack") /\ archive' = archive)
      BY <1>19 DEF VacuumStops
    <3>3. op'.kind # "restore"
      BY <1>0, <3>1, <3>2, CommandGoesTo DEF BackupTypes, NoCommand
    <3> QED
      BY <1>19, <3>1, <3>3 DEF VacuumStops, Replacing, ghosts
  <2>2. CASE Up /\ Close
    <3>1. worker'.stale = {}
      BY <1>0, <2>2, Closes DEF NoWorker
    <3>2. CASE d \in worker.stale
      BY <1>0, <2>1, <2>2, <3>1, <3>2, Closes, KnownStays
    <3>3. CASE d \notin worker.stale
      BY <1>0, <2>1, <2>2, <3>1, <3>3, Closes, KnownStays DEF BackupShape, WorkerHasFiles
    <3> QED
      BY <3>2, <3>3
  <2>3. CASE (worker' = NoWorker \/ worker' = worker) /\ UNCHANGED <<disk, wal>>
    BY <1>0, <2>1, <2>3, KnownStays DEF NoWorker
  <2> QED
    BY <1>19, <2>2, <2>3 DEF VacuumStops, StopCloses, StopKills
<1>20. CASE Vacuum
  <2>1. ~Replacing /\ ~Replacing' /\ UNCHANGED <<aside, known, unclosed, worker>>
    <3>1. op.kind \in {"vacuum", "upgrade"} /\ op.step = "pack"
      BY <1>0, <1>20 DEF Vacuum, CommandTyped, BackupTypes, BackupTypeOK, NoCommand, Db, Durable, Step, RestoreStep
    <3>2. op' = NoCommand \/ (Packed /\ archive' = archive)
      BY <1>20 DEF Vacuum
    <3>3. op'.kind # "restore"
      <4>1. ASSUME Packed, archive' = archive
            PROVE  op'.kind # "restore"
        BY <1>0, <3>1, <4>1, CommandGoesTo DEF BackupTypes, Packed
      <4> QED
        BY <3>2, <4>1 DEF NoCommand
    <3> QED
      BY <1>20, <3>1, <3>3 DEF Vacuum, Replacing, ghosts
  <2>2. CASE UNCHANGED <<disk, wal>>
    BY <1>0, <2>1, <2>2, KnownStays
  <2>3. CASE /\ disk' = [e \in DOMAIN disk |-> IF e = "meta" THEN disk[e] \cup wal[e] ELSE disk[e]]
             /\ wal' = [wal EXCEPT !["meta"] = IF "meta" \in DOMAIN disk THEN {} ELSE @]
    <3>1. StoredIn(disk, d) \subseteq StoredIn(disk', d) /\ wal[d] \subseteq wal'[d] \cup StoredIn(disk', d)
      BY <1>0, <2>3 DEF StoredIn, BackupTypeOK, Durable
    <3> QED
      BY <1>0, <2>1, <3>1, KnownStays
  <2> QED
    BY <1>20, <2>2, <2>3 DEF Vacuum
<1>21. CASE StartAgain
  <2>1. UNCHANGED <<wal, aside, archive, known, unclosed>>
    BY <1>21 DEF StartAgain, ghosts
  <2>2. ~Replacing'
    <3>1. op.kind \in {"restore", "vacuum", "upgrade"}
      BY <1>0, <1>21 DEF StartAgain, CommandTyped, BackupTypes, BackupTypeOK, NoCommand, Db, Durable, Step
    <3>2. CASE op.step = "raise"
      BY <1>0, <1>21, <3>1, <3>2 DEF StartAgain, CommandTyped, BackupTypes, RestoreStep, Step, Then, Replacing
    <3>3. CASE op.step = "start"
      BY <1>0, <1>21, <3>1, <3>3 DEF StartAgain, CommandTyped, BackupTypes, Step, Then, Replacing
    <3> QED
      BY <1>21, <3>2, <3>3 DEF StartAgain, Step
  <2>3. CASE UNCHANGED <<disk, worker>>
    BY <1>0, <2>1, <2>2, <2>3, KnownStays
  <2>4. CASE Boot
    <3>1. StoredIn(disk', d) = StoredIn(disk, d) /\ worker'.stale = {}
      BY <1>0, <2>4, Boots DEF StoredIn
    <3> QED
      BY <1>0, <2>1, <2>2, <3>1, KnownStays
  <2> QED
    BY <1>21, <2>3, <2>4 DEF StartAgain
<1>22. CASE End \/ CutShort
  <2>1. UNCHANGED <<disk, wal, aside, known, unclosed, worker>> /\ op' = NoCommand
    BY <1>22 DEF End, CutShort, data
  <2> QED
    BY <1>6, <2>1 DEF Replacing, NoCommand
<1>23. CASE UNCHANGED backupVars
  BY <1>6, <1>23 DEF backupVars, Replacing
<1> QED
  BY <1>1, <1>2, <1>3, <1>4, <1>5, <1>7, <1>8, <1>9, <1>10, <1>11, <1>12, <1>13, <1>14, <1>15, <1>17, <1>18, <1>19, <1>20,
     <1>21, <1>22, <1>23, Zenon
     DEF BackupNext, WorkerAtWork, Creates, Restores, Compacts

-----------------------------------------------------------------------------
(* Backup and restore: what is served fits                                 *)

(* No row comes from nowhere. *)
BornAt(d) ==
  /\ Held(d) \subseteq born /\ aside[d] \subseteq born
  /\ StoredIn(archive.files, d) \subseteq born
  /\ op.kind = "create" => StoredIn(op.got, d) \subseteq born
StoredIsBorn == \A d \in Durable : BornAt(d)

(* Where there is a worker.env in /etc, its model is the one that runs, and the one a restore believes in. *)
EtcIsLoaded ==
  envModel.etc # NoEnv =>
    /\ Up => worker.model = envModel.etc
    /\ op.kind = "restore" => op.model = envModel.etc

(* Undisturbed, the worker has the model it would be started with, and every chunk its observation. *)
CorpusFits ==
  ~marred /\ ~Replacing =>
    /\ Up => worker.model = ModelNow
    /\ Held("meta") \subseteq Held("observations")

(* Undisturbed, the vectors are of that model: during a restore, once the archive's vectors are in place or gone. *)
VectorsFit == ~marred /\ (Replacing => Step("start")) => \A v \in StoredIn(disk, "vectors") : v[2] = ModelNow

(* The model that an archive's worker.env names. *)
Named(a) == IF a.env # NoEnv THEN a.env ELSE DefaultModel
FilesFit(f, m) ==
  /\ Durable \subseteq DOMAIN f
  /\ f["meta"] \subseteq f["observations"]
  /\ \A v \in StoredIn(f, "vectors") : v[2] = m

(* An archive that was taken undisturbed is complete and fits; where /etc has no worker.env, its own names the model its
   vectors were made with. *)
ArchiveFits ==
  archive # NoArchive /\ ~archive.marred =>
    /\ FilesFit(archive.files, archive.model)
    /\ envModel.etc = NoEnv => archive.model = Named(archive)

(* And so is what a backup has got so far. *)
CopiesFit ==
  op.kind = "create" /\ ~marred =>
    /\ ~Step("meta") => "meta" \in DOMAIN op.got /\ op.got["meta"] \subseteq Held("observations")
    /\ op.step \notin Durable => "observations" \in DOMAIN op.got /\ op.got["meta"] \subseteq op.got["observations"]
    /\ \A v \in StoredIn(op.got, "vectors") : v[2] = worker.model

(* The steps of a restore after the one that puts a database back. *)
PutStage == [meta |-> {"putObservations", "asideEnv", "putEnv", "vectors", "start"},
             observations |-> {"asideEnv", "putEnv", "vectors", "start"}]

(* What an undisturbed restore has put in place is the archive's: the databases without a -wal, then worker.env. *)
RestoringFits ==
  Replacing /\ ~marred =>
    /\ ~archive.marred
    /\ op.step \in PutStage["meta"] \cup {"putMeta"} => \A d \in Durable : wal[d] = {}
    /\ \A d \in Durable : op.step \in PutStage[d] => d \in DOMAIN disk /\ disk[d] = archive.files[d]
    /\ Step("putEnv") => envModel.user = NoEnv
    /\ op.step \in {"vectors", "start"} /\ envModel.etc = NoEnv => ModelNow = archive.model

(* And once it has started the worker, the worker serves the archive's rows and none of those that were moved aside. *)
RestoredFits ==
  op.kind = "restore" /\ op.step \in {"reindex", "done"} /\ ~marred =>
    /\ ~archive.marred
    /\ \A d \in Durable : archive.files[d] \subseteq Held(d)
    /\ \A d \in Durable : Held("observations") \cap aside[d] \subseteq archive.files["observations"]
    /\ Held("meta") \cap aside["meta"] \subseteq archive.files["meta"] \cup archive.files["observations"]

CorpusIsSound ==
  /\ StoredIsBorn
  /\ EtcIsLoaded
  /\ CorpusFits
  /\ VectorsFit
  /\ ArchiveFits
  /\ CopiesFit
  /\ RestoringFits
  /\ RestoredFits

(* A step that only moves rows about, or writes new ones, brings none from nowhere. *)
LEMMA BornStays ==
  ASSUME StoredIsBorn, archive' = archive, born \subseteq born',
         \A d \in Durable : StoredIn(disk', d) \cup wal'[d] \cup aside'[d]
                              \subseteq StoredIn(disk, d) \cup wal[d] \cup aside[d] \cup StoredIn(archive.files, d) \cup born',
         op'.kind = "create" => op.kind = "create" /\ op'.got = op.got
  PROVE  StoredIsBorn'
<1> SUFFICES ASSUME NEW d \in Durable
             PROVE  BornAt(d)'
  BY DEF StoredIsBorn
<1>1. BornAt(d) /\ Held(d) = StoredIn(disk, d) \cup wal[d] /\ Held(d)' = StoredIn(disk', d) \cup wal'[d]
  BY HeldIs DEF StoredIsBorn
<1>2. Held(d)' \subseteq born' /\ aside'[d] \subseteq born'
  BY <1>1 DEF BornAt
<1>3. StoredIn(archive'.files, d) \subseteq born'
  BY <1>1 DEF BornAt
<1>4. op'.kind = "create" => StoredIn(op'.got, d) \subseteq born'
  BY <1>1 DEF BornAt
<1> QED
  BY <1>2, <1>3, <1>4 DEF BornAt, StoredIn

(* Where there is a worker.env in /etc, nothing else decides the model. *)
LEMMA ModelIs ==
  ASSUME BackupTypes, envModel'.etc = envModel.etc, envModel.etc # NoEnv
  PROVE  ModelNow = envModel.etc /\ ModelNow' = envModel.etc
BY DEF ModelNow

(* A restore that was disturbed promises nothing. *)
LEMMA Disturbed ==
  ASSUME CorpusIsSound, marred', StoredIsBorn', archive' = archive, envModel'.etc = envModel.etc,
         Up' /\ envModel.etc # NoEnv => worker'.model = envModel.etc,
         op'.kind = "restore" => op.kind = "restore" /\ op'.model = op.model
  PROVE  CorpusIsSound'
<1>1. EtcIsLoaded'
  BY DEF CorpusIsSound, EtcIsLoaded
<1>2. ArchiveFits'
  BY DEF CorpusIsSound, ArchiveFits, FilesFit, StoredIn, Named
<1>3. CorpusFits' /\ VectorsFit' /\ CopiesFit' /\ RestoringFits' /\ RestoredFits'
  BY DEF CorpusFits, VectorsFit, CopiesFit, RestoringFits, RestoredFits
<1> QED
  BY <1>1, <1>2, <1>3 DEF CorpusIsSound

(* A corpus the worker adds to. *)
LEMMA Grows ==
  ASSUME BackupShape, CorpusIsSound, Up, UNCHANGED <<aside, envModel, worker, archive, marred>>, born \subseteq born',
         \A d \in Durable : Held(d) \subseteq Held(d)' /\ Held(d)' \subseteq born',
         Held("meta")' \subseteq Held("meta") \cup Held("observations"),
         \A r \in Held("observations")' : r \in Held("observations") \/ r \notin born,
         \A v \in StoredIn(disk', "vectors") : v \in StoredIn(disk, "vectors") \/ v[2] = worker.model,
         \/ op' = op
         \/ /\ ~Replacing /\ ~Replacing' /\ op.kind # "create" /\ op'.kind = op.kind
            /\ op.kind = "restore" => op.step = "reindex" /\ op'.model = op.model
  PROVE  CorpusIsSound'
<1>0. Up' /\ ModelNow' = ModelNow /\ (Replacing' <=> Replacing) /\ op'.kind = op.kind
  BY DEF Up, ModelNow, Replacing
<1>1. StoredIsBorn'
  <2> SUFFICES ASSUME NEW d \in Durable
               PROVE  BornAt(d)'
    BY DEF StoredIsBorn
  <2>1. BornAt(d)
    BY DEF CorpusIsSound, StoredIsBorn
  <2> QED
    BY <2>1, <1>0 DEF BornAt, StoredIn
<1>2. EtcIsLoaded'
  BY <1>0 DEF CorpusIsSound, EtcIsLoaded
<1>3. CorpusFits'
  BY <1>0 DEF CorpusIsSound, CorpusFits, Durable
<1>4. ~marred => ~Replacing
  BY DEF BackupShape, DisturbedIsMarred
<1>5. VectorsFit'
  BY <1>0, <1>4 DEF CorpusIsSound, CorpusFits, VectorsFit
<1>6. ArchiveFits'
  BY DEF CorpusIsSound, ArchiveFits, FilesFit, StoredIn, Named
<1>7. CopiesFit'
  BY <1>0 DEF CorpusIsSound, CopiesFit, Step, Durable, StoredIn
<1>8. RestoringFits'
  BY <1>0, <1>4 DEF RestoringFits
<1>9. RestoredFits'
  <2> SUFFICES ASSUME op'.kind = "restore", op'.step \in {"reindex", "done"}, ~marred'
               PROVE  RestoredFits'
    BY DEF RestoredFits
  <2>1. op.kind = "restore" /\ op.step \in {"reindex", "done"} /\ ~marred
    BY <1>0
  <2>2. \A d \in Durable : BornAt(d)
    BY DEF CorpusIsSound, StoredIsBorn
  <2> QED
    BY <2>1, <2>2 DEF CorpusIsSound, RestoredFits, BornAt, Durable
<1> QED
  BY <1>1, <1>2, <1>3, <1>5, <1>6, <1>7, <1>8, <1>9 DEF CorpusIsSound

(* A corpus that stays as it is while the worker is stopped, or started with what worker.env names. *)
LEMMA Rests ==
  ASSUME BackupShape, CorpusIsSound, UNCHANGED <<aside, envModel, archive, marred, born>>,
         ~Replacing, op'.kind \in {"none", "vacuum", "upgrade"},
         Up' => worker' = worker \/ worker'.model = ModelNow,
         \A d \in Durable : Held(d)' \subseteq Held(d),
         ~marred => Held("observations")' = Held("observations"),
         StoredIn(disk', "vectors") = StoredIn(disk, "vectors")
  PROVE  CorpusIsSound'
<1>0. ModelNow' = ModelNow /\ ~Replacing'
  BY DEF ModelNow, Replacing
<1>1. StoredIsBorn'
  BY DEF CorpusIsSound, StoredIsBorn, BornAt, StoredIn
<1>2. EtcIsLoaded'
  BY DEF CorpusIsSound, EtcIsLoaded, ModelNow, Up
<1>3. CorpusFits'
  BY <1>0 DEF CorpusIsSound, CorpusFits, Durable, Up
<1>4. VectorsFit'
  BY <1>0 DEF CorpusIsSound, VectorsFit
<1>5. ArchiveFits'
  BY DEF CorpusIsSound, ArchiveFits, FilesFit, StoredIn, Named
<1>6. CopiesFit' /\ RestoringFits' /\ RestoredFits'
  BY <1>0 DEF CopiesFit, RestoringFits, RestoredFits
<1> QED
  BY <1>1, <1>2, <1>3, <1>4, <1>5, <1>6 DEF CorpusIsSound

(* A corpus nobody touches. *)
LEMMA OnlyOpMoves ==
  ASSUME CorpusIsSound, UNCHANGED <<disk, wal, aside, envModel, worker, archive, marred, born>>,
         ~Replacing, ~Replacing',
         op'.kind = "restore" => op'.step = "stop" /\ (envModel.etc # NoEnv => op'.model = envModel.etc),
         op'.kind = "create" => CopiesFit' /\ \A d \in Durable : StoredIn(op'.got, d) \subseteq born
  PROVE  CorpusIsSound'
<1>1. ModelNow' = ModelNow /\ (Up' <=> Up)
  BY DEF ModelNow, Up
<1>9. \A d \in Durable : Held(d)' = Held(d)
  BY DEF Held
<1>2. StoredIsBorn'
  BY <1>9 DEF CorpusIsSound, StoredIsBorn, BornAt, StoredIn
<1>3. EtcIsLoaded'
  BY <1>1 DEF CorpusIsSound, EtcIsLoaded
<1>4. CorpusFits'
  BY <1>1, <1>9 DEF CorpusIsSound, CorpusFits, Durable
<1>5. VectorsFit'
  BY <1>1 DEF CorpusIsSound, VectorsFit, StoredIn
<1>6. ArchiveFits'
  BY DEF CorpusIsSound, ArchiveFits, FilesFit, StoredIn, Named
<1>7. CopiesFit'
  BY DEF CopiesFit
<1>8. RestoringFits' /\ RestoredFits'
  BY DEF RestoringFits, RestoredFits
<1> QED
  BY <1>2, <1>3, <1>4, <1>5, <1>6, <1>7, <1>8 DEF CorpusIsSound

(* An undisturbed worker holds every file under its name, and nothing is being replaced. *)
LEMMA WhenUndisturbed ==
  ASSUME BackupShape, ~marred, Up
  PROVE  worker.stale = {} /\ Db \subseteq DOMAIN disk /\ ~Replacing
BY DEF BackupShape, DisturbedIsMarred, WorkerHasFiles

(* What a restore does to the files shows when the worker is up again. *)
LEMMA Restoring ==
  ASSUME CorpusIsSound, op.kind = "restore", op'.kind = "restore", Replacing', op'.model = op.model, archive' = archive,
         envModel'.etc = envModel.etc, Up' => Up /\ worker'.model = worker.model,
         StoredIsBorn', RestoringFits', op'.step = "start" => VectorsFit'
  PROVE  CorpusIsSound'
<1>1. EtcIsLoaded'
  BY DEF CorpusIsSound, EtcIsLoaded
<1>2. ArchiveFits'
  BY DEF CorpusIsSound, ArchiveFits, FilesFit, StoredIn, Named
<1>3. CorpusFits' /\ CopiesFit' /\ RestoredFits'
  BY DEF CorpusFits, CopiesFit, RestoredFits, Replacing
<1>4. VectorsFit'
  BY DEF VectorsFit, Step
<1> QED
  BY <1>1, <1>2, <1>3, <1>4 DEF CorpusIsSound

(* Nothing happens. *)
LEMMA SoundStaysPut ==
  ASSUME CorpusIsSound, UNCHANGED backupVars
  PROVE  CorpusIsSound'
<1> USE DEF backupVars
<1>1. ModelNow' = ModelNow /\ (Up' <=> Up) /\ (Replacing' <=> Replacing)
  BY DEF ModelNow, Up, Replacing
<1>2. \A d \in Durable : Held(d)' = Held(d)
  BY DEF Held
<1>3. StoredIsBorn'
  BY <1>2 DEF CorpusIsSound, StoredIsBorn, BornAt, StoredIn
<1>4. EtcIsLoaded' /\ CorpusFits' /\ VectorsFit'
  BY <1>1, <1>2 DEF CorpusIsSound, EtcIsLoaded, CorpusFits, VectorsFit, Durable, StoredIn, Step
<1>5. ArchiveFits' /\ CopiesFit'
  BY <1>2 DEF CorpusIsSound, ArchiveFits, CopiesFit, FilesFit, StoredIn, Named, Durable, Step
<1>6. RestoringFits'
  BY <1>1 DEF CorpusIsSound, RestoringFits, Step
<1>7. RestoredFits'
  BY <1>2 DEF CorpusIsSound, RestoredFits, Durable
<1> QED
  BY <1>3, <1>4, <1>5, <1>6, <1>7 DEF CorpusIsSound

(* The worker's writes, and a worker that is started behind a command's back, keep the corpus sound. *)
LEMMA WorkerKeepsSound ==
  ASSUME BackupShape, CorpusIsSound, WorkerAtWork
  PROVE  CorpusIsSound'
<1>0. BackupTypes /\ BackupTypeOK /\ WorkerHasFiles
  BY DEF BackupShape, BackupTypes
<1>1. ASSUME NEW r \in Observation, Writes(r)
      PROVE  CorpusIsSound'
  <2>1. /\ UNCHANGED <<disk, aside, envModel, worker, archive, marred, op>> /\ Up /\ r \notin born /\ born' = born \cup {r}
        /\ wal'["observations"] = wal["observations"] \cup {r} /\ wal'["meta"] = wal["meta"]
    BY <1>0, <1>1 DEF Writes, BackupTypeOK, Durable
  <2>2. Held("meta")' = Held("meta") /\ Held("observations")' = Held("observations") \cup {r}
    BY <2>1, HeldIs DEF Durable
  <2>3. \A d \in Durable : Held(d) \subseteq born
    BY DEF CorpusIsSound, StoredIsBorn, BornAt
  <2>4. \A d \in Durable : Held(d) \subseteq Held(d)' /\ Held(d)' \subseteq born'
    BY <2>1, <2>2, <2>3 DEF Durable
  <2> QED
    BY <2>1, <2>2, <2>4, Grows
<1>2. ASSUME NEW r \in Observation, Indexes(r)
      PROVE  CorpusIsSound'
  <2>1. /\ UNCHANGED <<disk, aside, envModel, worker, archive, marred, op, born>> /\ Up /\ r \in Held("observations")
        /\ wal'["observations"] = wal["observations"] /\ wal'["meta"] = wal["meta"] \cup {r}
    BY <1>0, <1>2 DEF Indexes, BackupTypeOK, Durable
  <2>2. Held("meta")' = Held("meta") \cup {r} /\ Held("observations")' = Held("observations")
    BY <2>1, HeldIs DEF Durable
  <2>3. \A d \in Durable : Held(d) \subseteq born
    BY DEF CorpusIsSound, StoredIsBorn, BornAt
  <2>4. \A d \in Durable : Held(d) \subseteq Held(d)' /\ Held(d)' \subseteq born'
    BY <2>1, <2>2, <2>3 DEF Durable
  <2> QED
    BY <2>1, <2>2, <2>4, Grows
<1>3. ASSUME NEW r \in Observation, Embeds(r)
      PROVE  CorpusIsSound'
  <2>1. UNCHANGED <<wal, aside, envModel, worker, archive, marred, op, born>> /\ Up /\ "vectors" \notin worker.stale
    BY <1>3 DEF Embeds, ghosts
  <2>2. /\ \A d \in Durable : StoredIn(disk', d) = StoredIn(disk, d)
        /\ \A v \in StoredIn(disk', "vectors") : v \in StoredIn(disk, "vectors") \/ v[2] = worker.model
    <3>1. CASE disk' = disk
      BY <3>1
    <3>2. CASE disk' = DiskWith("vectors", {v \in disk["vectors"] : v[1] # r} \cup {<<r, worker.model>>})
      <4>1. "vectors" \in DOMAIN disk
        BY <1>0, <2>1 DEF WorkerHasFiles, Db
      <4> QED
        BY <3>2, <4>1 DEF StoredIn, DiskWith, Durable
    <3> QED
      BY <1>3, <3>1, <3>2 DEF Embeds
  <2>3. \A d \in Durable : Held(d)' = Held(d) /\ Held(d) \subseteq born
    BY <2>1, <2>2, HeldIs DEF CorpusIsSound, StoredIsBorn, BornAt
  <2> QED
    BY <2>1, <2>2, <2>3, Grows DEF Durable
<1>4. CASE ComesUp
  <2>1. Boot /\ ~Up /\ UNCHANGED <<wal, aside, envModel, archive, op, born>> /\ marred' = (marred \/ op.kind = "restore")
    BY <1>4 DEF ComesUp
  <2>2. worker'.model = ModelNow /\ \A d \in Db : StoredIn(disk', d) = StoredIn(disk, d)
    BY <1>0, <2>1, Boots DEF StoredIn
  <2>3. \A d \in Durable : Held(d)' = Held(d)
    BY <2>1, <2>2, HeldIs DEF Db
  <2>4. CASE op.kind = "restore"
    <3>1. StoredIsBorn'
      BY <2>1, <2>2, BornStays DEF CorpusIsSound, Db
    <3> QED
      BY <1>0, <2>1, <2>2, <2>4, <3>1, ModelIs, Disturbed
  <2>5. CASE op.kind # "restore"
    <3>1. op.kind \in {"none", "vacuum", "upgrade"} /\ ~Replacing
      BY <1>0, <2>1, <2>5 DEF BackupShape, WorkerIsAsked, BackupTypeOK, Replacing
    <3>2. marred' = marred
      BY <1>0, <2>1, <2>5 DEF BackupTypeOK
    <3>3. op'.kind \in {"none", "vacuum", "upgrade"} /\ UNCHANGED <<aside, envModel, archive, born>>
      BY <2>1, <3>1
    <3>4. /\ \A d \in Durable : Held(d)' \subseteq Held(d)
          /\ Held("observations")' = Held("observations")
          /\ StoredIn(disk', "vectors") = StoredIn(disk, "vectors")
      BY <2>2, <2>3 DEF Db, Durable
    <3> QED
      BY <2>2, <3>1, <3>2, <3>3, <3>4, Rests
  <2> QED
    BY <2>4, <2>5
<1> QED
  BY <1>1, <1>2, <1>3, <1>4 DEF WorkerAtWork

(* And so does naming another embedder and embedding everything again, *)
LEMMA ReconfigureKeepsSound ==
  ASSUME BackupShape, CorpusIsSound, NEW m \in EmbedderModel, Reconfigure(m)
  PROVE  CorpusIsSound'
<1>0. BackupTypes /\ BackupTypeOK /\ WorkerHasFiles /\ m # NoEnv /\ m # NoWorker.model
  BY BackupAssumption, Zenon DEF BackupShape, BackupTypes
<1>1. /\ op = NoCommand /\ op' = op /\ Up /\ worker.stale = {}
      /\ UNCHANGED <<wal, aside, archive, born, marred>> /\ ~Replacing /\ ~Replacing'
      /\ op.kind = "none"
  BY DEF Reconfigure, ghosts, NoCommand, Replacing
<1>2. /\ envModel.etc # NoEnv => envModel'.etc = m
      /\ envModel.etc = NoEnv => envModel'.etc = NoEnv /\ envModel'.user = m
      /\ ModelNow' = m
  BY <1>0 DEF Reconfigure, ModelNow, BackupTypeOK
<1>3. worker'.model = m
  BY <1>0, <1>1 DEF Reconfigure, BackupTypeOK, Up
<1>4. PICK rows : rows = {v[1] : v \in disk["vectors"]} \X {m} /\ disk' = DiskWith("vectors", rows)
  BY DEF Reconfigure
<1>5. rows \in SUBSET DbRows("vectors") /\ \A v \in rows : v[2] = m
  <2>1. disk["vectors"] \subseteq Observation \X EmbedderModel
    BY <1>0, <1>1 DEF WorkerHasFiles, BackupTypeOK, FilesTyped, DbRows, Db
  <2> QED
    BY <1>4, <2>1 DEF DbRows
<1>6. StoredIn(disk', "vectors") = rows /\ \A d \in Durable : StoredIn(disk', d) = StoredIn(disk, d)
  <2>1. "vectors" \in Db /\ \A d \in Durable : d # "vectors"
    BY DEF Db, Durable
  <2> QED
    BY <1>0, <1>4, <1>5, <2>1, Puts
<1>7. \A d \in Durable : Held(d)' = Held(d)
  BY <1>1, <1>6, HeldIs
<1>8. StoredIsBorn'
  BY <1>1, <1>6, BornStays DEF CorpusIsSound
<1>9. EtcIsLoaded' /\ CorpusFits' /\ VectorsFit'
  <2>1. CorpusFits'
    BY <1>1, <1>2, <1>3, <1>7 DEF CorpusIsSound, CorpusFits, Durable
  <2> QED
    BY <1>1, <1>2, <1>3, <1>5, <1>6, <2>1 DEF EtcIsLoaded, VectorsFit
<1>10. ArchiveFits'
  BY <1>0, <1>1, <1>2 DEF CorpusIsSound, ArchiveFits, FilesFit, StoredIn, Named
<1>11. CopiesFit' /\ RestoringFits' /\ RestoredFits'
  BY <1>1 DEF CopiesFit, RestoringFits, RestoredFits
<1> QED
  BY <1>8, <1>9, <1>10, <1>11 DEF CorpusIsSound

(* taking a backup beside a worker that writes, *)
LEMMA CreateKeepsSound ==
  ASSUME BackupShape, CorpusIsSound, Creates, ~AsksDown
  PROVE  CorpusIsSound'
<1>0. BackupTypes /\ BackupTypeOK /\ WorkerHasFiles /\ WorkerIsAsked
  BY DEF BackupShape, BackupTypes
<1>1. ASSUME NEW v \in BOOLEAN, BeginCreate(v)
      PROVE  CorpusIsSound'
  <2>1. /\ UNCHANGED <<disk, wal, aside, envModel, worker, archive, marred, born>>
        /\ op.kind = "none" /\ op'.kind = "create" /\ op'.step = "meta" /\ op'.got = NoFiles
    BY <1>1 DEF BeginCreate, Begin, data, NoCommand, Snapshots
  <2>2. ~Replacing /\ ~Replacing'
    BY <2>1 DEF Replacing
  <2>3. CopiesFit' /\ \A d \in Durable : StoredIn(op'.got, d) \subseteq born
    BY <2>1 DEF CopiesFit, StoredIn, NoFiles, Step, Durable
  <2> QED
    BY <2>1, <2>2, <2>3, OnlyOpMoves
<1>2. ASSUME NEW d \in Db, HotSnapshot(d)
      PROVE  CorpusIsSound'
  <2>1. UNCHANGED <<disk, wal, aside, envModel, worker, archive, marred, born>> /\ op.kind = "create" /\ op.step = d
    BY <1>2 DEF HotSnapshot, data, Step
  <2>2. /\ op'.kind = "create"
        /\ op'.step = IF Snapshots[d] = "vectors" /\ ~op.vectors THEN "archive" ELSE Snapshots[d]
        /\ DOMAIN op'.got = IF d \in DOMAIN disk THEN DOMAIN op.got \cup {d} ELSE DOMAIN op.got
        /\ d \in DOMAIN disk => op'.got[d] = Held(d)
        /\ \A e \in DOMAIN op.got : d \notin DOMAIN disk \/ e # d => op'.got[e] = op.got[e]
    BY <1>0, <1>2, Snapshot
  <2>3. ~Replacing /\ ~Replacing' /\ Up
    BY <1>0, <2>1, <2>2 DEF Replacing, WorkerIsAsked
  <2>4. \A e \in Durable : StoredIn(op'.got, e) \subseteq born
    <3> SUFFICES ASSUME NEW e \in Durable
                 PROVE  StoredIn(op'.got, e) \subseteq born
      OBVIOUS
    <3>1. StoredIn(op.got, e) \subseteq born /\ Held(e) \subseteq born
      BY <2>1 DEF CorpusIsSound, StoredIsBorn, BornAt
    <3> QED
      BY <2>2, <3>1 DEF StoredIn
  <2>5. CopiesFit'
    <3> SUFFICES ASSUME ~marred
                 PROVE  CopiesFit'
      BY <2>1 DEF CopiesFit
    <3>1. Db \subseteq DOMAIN disk
      BY <2>3, WhenUndisturbed
    <3>2. Held("meta") \subseteq Held("observations")
      BY <2>3 DEF CorpusIsSound, CorpusFits
    <3>3. /\ op.step # "meta" => "meta" \in DOMAIN op.got /\ op.got["meta"] \subseteq Held("observations")
          /\ op.step \notin Durable => "observations" \in DOMAIN op.got /\ op.got["meta"] \subseteq op.got["observations"]
          /\ \A v \in StoredIn(op.got, "vectors") : v[2] = worker.model
      BY <2>1 DEF CorpusIsSound, CopiesFit, Step
    <3>4. \A e \in Durable : Held(e)' = Held(e)
      BY <2>1 DEF Held
    <3>5. CASE d = "meta"
      <4>1. /\ op'.step = "observations" /\ "meta" \in DOMAIN op'.got /\ op'.got["meta"] = Held("meta")
            /\ StoredIn(op'.got, "vectors") = StoredIn(op.got, "vectors")
        BY <2>2, <3>1, <3>5 DEF Snapshots, StoredIn, Db
      <4> QED
        BY <2>1, <3>2, <3>3, <3>4, <4>1 DEF CopiesFit, Step, Durable
    <3>6. CASE d = "observations"
      <4>1. /\ op'.step \in {"vectors", "archive"} /\ "meta" \in DOMAIN op'.got /\ op'.got["meta"] = op.got["meta"]
            /\ "observations" \in DOMAIN op'.got /\ op'.got["observations"] = Held("observations")
            /\ StoredIn(op'.got, "vectors") = StoredIn(op.got, "vectors")
        BY <2>1, <2>2, <3>1, <3>3, <3>6 DEF Snapshots, StoredIn, Db
      <4> QED
        BY <2>1, <3>6, <3>3, <3>4, <4>1 DEF CopiesFit, Step, Durable
    <3>7. CASE d = "vectors"
      <4>1. /\ op'.step = "archive" /\ "meta" \in DOMAIN op'.got /\ op'.got["meta"] = op.got["meta"]
            /\ "observations" \in DOMAIN op'.got /\ op'.got["observations"] = op.got["observations"]
            /\ StoredIn(op'.got, "vectors") = Held("vectors")
        BY <2>1, <2>2, <3>1, <3>3, <3>7 DEF Snapshots, StoredIn, Db, Durable
      <4>2. \A v \in Held("vectors") : v[2] = worker.model
        <5>1. Held("vectors") = StoredIn(disk, "vectors")
          BY DEF Held, StoredIn, Durable
        <5> QED
          BY <2>3, <5>1 DEF CorpusIsSound, VectorsFit, CorpusFits
      <4> QED
        BY <2>1, <3>3, <3>4, <3>7, <4>1, <4>2 DEF CopiesFit, Step, Durable
    <3> QED
      BY <3>5, <3>6, <3>7 DEF Db, Durable
  <2> QED
    BY <2>1, <2>2, <2>3, <2>4, <2>5, OnlyOpMoves
<1>3. CASE CreateArchive
  <2>1. /\ UNCHANGED <<disk, wal, aside, envModel, worker, marred, born>> /\ op.step = "archive"
        /\ archive' = [files |-> op.got, env |-> IF envModel.user # NoEnv THEN envModel.user ELSE envModel.etc,
                       model |-> EmbedderAsked, marred |-> marred]
    BY <1>3 DEF CreateArchive, data, Step
  <2>2. op.kind = "create" /\ op'.kind = "create" /\ op'.got = op.got /\ op'.step = "done"
    <3>1. op.kind = "create"
      BY <1>0, <2>1 DEF BackupTypes, CommandTyped, BackupTypeOK, RestoreStep, NoCommand
    <3>2. op \in [kind : {"create"}, got : {op.got}, vectors : BOOLEAN, step : Db \cup {"archive", "done"}]
      BY <1>0, <3>1 DEF BackupTypes, CommandTyped
    <3>3. op' = [op EXCEPT !.step = "done"]
      BY <1>3 DEF CreateArchive, Then
    <3> QED
      BY <3>1, <3>2, <3>3
  <2>3. Up /\ Up' /\ ~Replacing /\ ~Replacing' /\ ModelNow' = ModelNow /\ archive'.model = worker.model
    BY <1>0, <2>1, <2>2 DEF Replacing, WorkerIsAsked, Up, ModelNow, EmbedderAsked
  <2>4. \A e \in Durable : Held(e)' = Held(e)
    BY <2>1 DEF Held
  <2>5. StoredIsBorn'
    BY <2>1, <2>2, <2>4 DEF CorpusIsSound, StoredIsBorn, BornAt, StoredIn
  <2>6. EtcIsLoaded' /\ VectorsFit'
    BY <2>1, <2>2, <2>3 DEF CorpusIsSound, EtcIsLoaded, VectorsFit, StoredIn
  <2>7. CorpusFits'
    BY <2>1, <2>3, <2>4 DEF CorpusIsSound, CorpusFits, Durable
  <2>8. ArchiveFits'
    <3> SUFFICES ASSUME ~marred
                 PROVE  /\ FilesFit(op.got, worker.model)
                        /\ envModel.etc = NoEnv => worker.model = IF envModel.user # NoEnv THEN envModel.user ELSE DefaultModel
      BY <2>1, <2>3 DEF ArchiveFits, FilesFit, Named, StoredIn
    <3>1. worker.model = ModelNow
      BY <2>3 DEF CorpusIsSound, CorpusFits
    <3>2. FilesFit(op.got, worker.model)
      BY <2>1, <2>2 DEF CorpusIsSound, CopiesFit, FilesFit, Step, Durable
    <3> QED
      BY <3>1, <3>2 DEF ModelNow
  <2>9. CopiesFit'
    BY <2>1, <2>2, <2>4 DEF CorpusIsSound, CopiesFit, Step, Durable, StoredIn
  <2>10. RestoringFits' /\ RestoredFits'
    BY <2>2 DEF RestoringFits, RestoredFits, Replacing
  <2> QED
    BY <2>5, <2>6, <2>7, <2>8, <2>9, <2>10 DEF CorpusIsSound
<1> QED
  BY <1>1, <1>2, <1>3 DEF Creates

(* (a database that is removed or put back brings no row from nowhere) *)
LEMMA NoFilesButAside ==
  ASSUME BackupTypes, StoredIsBorn, archive' = archive, born' = born, wal' = wal, op'.kind = "restore",
         NEW d \in Db, NEW rows, disk' = DiskWith(d, rows) \/ disk' = DiskWithout(d), rows \subseteq StoredIn(archive.files, d),
         \A e \in Durable : aside'[e] \subseteq aside[e] \cup StoredIn(disk, e)
  PROVE  StoredIsBorn'
<1>1. \A e \in Durable : StoredIn(disk', e) \subseteq StoredIn(disk, e) \cup StoredIn(archive.files, e)
  BY DEF StoredIn, DiskWith, DiskWithout
<1> QED
  BY <1>1, BornStays

(* (a reindex only adds) *)
LEMMA ReindexGrows ==
  ASSUME BackupShape, CorpusIsSound, Up, worker.stale = {}, NEW all \in BOOLEAN, Reindexed(all),
         UNCHANGED <<aside, envModel, worker, archive, marred, born>>,
         ~Replacing, ~Replacing', op.kind # "create", op'.kind = op.kind,
         op.kind = "restore" => op.step = "reindex" /\ op'.model = op.model
  PROVE  CorpusIsSound'
<1>1. /\ \A d \in Durable : StoredIn(disk', d) = StoredIn(disk, d)
      /\ \A v \in StoredIn(disk', "vectors") : v \in StoredIn(disk, "vectors") \/ v[2] = worker.model
      /\ wal'["observations"] = wal["observations"]
      /\ \E redo \in SUBSET Held("observations") : Held("meta")' = Held("meta") \cup redo
  BY Reindexes DEF BackupShape
<1>2. Held("observations")' = Held("observations")
  BY <1>1, HeldIs DEF Durable
<1>3. \A d \in Durable : Held(d) \subseteq born
  BY DEF CorpusIsSound, StoredIsBorn, BornAt
<1>4. Held("meta") \subseteq Held("meta")' /\ Held("meta")' \subseteq Held("meta") \cup Held("observations")
  BY <1>1
<1>5. \A d \in Durable : Held(d) \subseteq Held(d)' /\ Held(d)' \subseteq born'
  BY <1>2, <1>3, <1>4 DEF Durable
<1> QED
  BY <1>1, <1>2, <1>4, <1>5, Grows

(* a restore at each of its steps, *)
LEMMA RestoreKeepsSound ==
  ASSUME BackupShape, CorpusIsSound, Restores, ~AsksDown
  PROVE  CorpusIsSound'
<1>0. BackupTypes /\ BackupTypeOK /\ WorkerHasFiles /\ WorkerIsAsked /\ DisturbedIsMarred
  BY DEF BackupShape, BackupTypes
<1>s. op.kind # "restore" => /\ op.kind = "create" => op.step \in Db \cup {"archive", "done"}
                             /\ op.kind \in {"vacuum", "upgrade"} => op.step \in {"raise", "rechunk", "stop", "pack", "start", "done"}
                             /\ op.kind = "none" => op.step = "done"
  BY <1>0 DEF BackupTypes, CommandTyped, NoCommand
<1>r. op.kind = "restore" => op \in [kind : {"restore"}, model : EmbedderModel, reindex : BOOLEAN, anew : BOOLEAN, step : RestoreStep]
                             /\ archive # NoArchive
  BY <1>0 DEF BackupTypes, CommandTyped
<1>t. StoredIsBorn /\ ArchiveFits /\ RestoringFits
  BY DEF CorpusIsSound
<1>1. ASSUME NEW reindex \in BOOLEAN, BeginRestore(reindex)
      PROVE  CorpusIsSound'
  <2>1. /\ UNCHANGED <<disk, wal, aside, envModel, worker, archive, marred, born>> /\ Up
        /\ op.kind = "none" /\ op'.kind = "restore" /\ op'.step = "stop" /\ op'.model = worker.model
    BY <1>1 DEF BeginRestore, Begin, data, NoCommand, EmbedderAsked
  <2>2. ~Replacing /\ ~Replacing'
    BY <2>1 DEF Replacing
  <2>3. envModel.etc # NoEnv => op'.model = envModel.etc
    BY <2>1 DEF CorpusIsSound, EtcIsLoaded
  <2> QED
    BY <2>1, <2>2, <2>3, OnlyOpMoves
<1>2. CASE RestoreStops
  <2>1. UNCHANGED <<aside, envModel, archive, born>> /\ op.kind = "restore" /\ op.step = "stop" /\ RestoreGoesOn
    BY <1>2 DEF RestoreStops, Step
  <2>2. /\ op'.kind = "restore" /\ op'.model = op.model /\ Replacing' /\ op'.step = "asideMeta"
    <3>1. RestoreOrder["stop"] = "asideMeta"
      BY DEF RestoreOrder
    <3> QED
      BY <1>0, <2>1, <3>1, RestoreAdvances
  <2>3. /\ \A d \in Durable : StoredIn(disk', d) \cup wal'[d] \subseteq StoredIn(disk, d) \cup wal[d]
        /\ Up' => worker' = worker
        /\ marred' \/ (marred' = archive.marred)
        /\ Up' => marred'
    <3>1. CASE Up /\ Close /\ marred' = archive.marred
      <4>1. \A d \in Durable : StoredIn(disk', d) \cup wal'[d] \subseteq StoredIn(disk, d) \cup wal[d]
        BY <1>0, <3>1, Closes
      <4> QED
        BY <1>0, <3>1, <4>1, Closes DEF Up
    <3>2. CASE ~Up /\ UNCHANGED <<disk, wal, worker>> /\ marred' = archive.marred
      BY <3>2 DEF Up
    <3>3. CASE StopKills /\ marred' = archive.marred
      BY <3>3 DEF StopKills, Up
    <3>4. CASE Up /\ UNCHANGED <<disk, wal, worker>> /\ marred' = TRUE
      BY <3>4
    <3> QED
      BY <1>2, <3>1, <3>2, <3>3, <3>4 DEF RestoreStops, StopCloses
  <2>4. StoredIsBorn'
    BY <2>1, <2>2, <2>3, <1>t, BornStays
  <2>5. RestoringFits'
    BY <2>1, <2>2, <2>3 DEF RestoringFits, PutStage, Step, Durable
  <2>6. Up' => Up /\ worker'.model = worker.model
    BY <2>3 DEF Up
  <2> QED
    BY <2>1, <2>2, <2>4, <2>5, <2>6, Restoring
<1>g. ASSUME op.step \in {"asideMeta", "asideObservations", "asideVectors", "dropWal", "putMeta", "putObservations", "asideEnv", "putEnv"},
             RestoreGoesOn, archive' = archive
      PROVE  /\ op.kind = "restore" /\ Replacing /\ archive # NoArchive
             /\ op'.kind = "restore" /\ op'.model = op.model /\ Replacing' /\ op'.step = RestoreOrder[op.step]
  <2>1. op.kind = "restore"
    BY <1>0, <1>g, <1>s DEF BackupTypeOK, Db, Durable
  <2>2. Replacing
    BY <1>g, <2>1 DEF Replacing
  <2> QED
    BY <1>0, <1>g, <1>r, <2>1, <2>2, RestoreAdvances
<1>3. ASSUME NEW d \in Db, MoveAside(d)
      PROVE  CorpusIsSound'
  <2>1. /\ UNCHANGED <<wal, envModel, archive, born, marred>> /\ op.step = AsideStep[d] /\ RestoreGoesOn
        /\ disk' = DiskWithout(d) /\ Unnamed(d)
        /\ aside' = IF d \in Durable /\ d \in DOMAIN disk THEN [aside EXCEPT ![d] = @ \cup disk[d]] ELSE aside
    BY <1>3 DEF MoveAside, ghosts, Step
  <2>2. op.step \in {"asideMeta", "asideObservations", "asideVectors"}
    BY <2>1 DEF AsideStep, Db, Durable
  <2>3. /\ op.kind = "restore" /\ Replacing /\ op'.kind = "restore" /\ op'.model = op.model /\ Replacing'
        /\ op'.step = RestoreOrder[op.step]
    BY <1>g, <2>1, <2>2
  <2>4. op'.step \in {"asideObservations", "asideVectors", "dropWal"}
    BY <2>2, <2>3 DEF RestoreOrder
  <2>5. \A e \in Durable : aside'[e] \subseteq aside[e] \cup StoredIn(disk, e)
    BY <1>0, <2>1 DEF BackupTypeOK, StoredIn
  <2>6. StoredIsBorn'
    <3>1. {} \subseteq StoredIn(archive.files, d)
      OBVIOUS
    <3> QED
      BY <1>0, <1>t, <2>1, <2>3, <2>5, <3>1, NoFilesButAside
  <2>7. RestoringFits'
    BY <1>t, <2>1, <2>3, <2>4 DEF RestoringFits, PutStage, Step, Durable
  <2>8. Up' => Up /\ worker'.model = worker.model
    BY <1>0, <2>1, Unnames
  <2> QED
    BY <2>1, <2>3, <2>4, <2>6, <2>7, <2>8, Restoring
<1>4. CASE DropWal
  <2>1. /\ UNCHANGED <<disk, aside, envModel, worker, archive, born, marred>> /\ op.step = "dropWal" /\ RestoreGoesOn
        /\ \A d \in Durable : wal'[d] = {}
    BY <1>4 DEF DropWal, ghosts, Step
  <2>2. op.kind = "restore" /\ Replacing /\ op'.kind = "restore" /\ op'.model = op.model /\ Replacing' /\ op'.step = "putMeta"
    BY <1>g, <2>1 DEF RestoreOrder
  <2>3. StoredIsBorn'
    BY <1>t, <2>1, <2>2, BornStays DEF StoredIn
  <2>4. RestoringFits'
    BY <1>t, <2>1, <2>2 DEF RestoringFits, PutStage, Step, Durable
  <2> QED
    BY <2>1, <2>2, <2>3, <2>4, Restoring DEF Up
<1>5. ASSUME NEW d \in Durable, PutBack(d)
      PROVE  CorpusIsSound'
  <2>1. /\ UNCHANGED <<wal, aside, envModel, archive, born, marred>> /\ op.step = PutStep[d] /\ RestoreGoesOn
        /\ IF d \in DOMAIN archive.files THEN disk' = DiskWith(d, archive.files[d]) /\ Unnamed(d) ELSE UNCHANGED <<disk, worker>>
    BY <1>5 DEF PutBack, ghosts, Step
  <2>2. op.step \in {"putMeta", "putObservations"} /\ d \in Db
    BY <2>1 DEF PutStep, Db, Durable
  <2>3. /\ op.kind = "restore" /\ Replacing /\ op'.kind = "restore" /\ op'.model = op.model /\ Replacing' /\ archive # NoArchive
        /\ op'.step = RestoreOrder[op.step]
    BY <1>g, <2>1, <2>2
  <2>4. /\ d = "meta" => op'.step = "putObservations"
        /\ d = "observations" => op'.step = "asideEnv"
    BY <2>1, <2>3 DEF RestoreOrder, PutStep
  <2>5. StoredIsBorn'
    <3>1. CASE d \in DOMAIN archive.files
      <4>1. disk' = DiskWith(d, archive.files[d]) /\ archive.files[d] \subseteq StoredIn(archive.files, d)
        BY <2>1, <3>1 DEF StoredIn
      <4> QED
        BY <1>0, <1>t, <2>1, <2>2, <2>3, <4>1, NoFilesButAside
    <3>2. CASE d \notin DOMAIN archive.files
      BY <1>t, <2>1, <2>3, <3>2, BornStays DEF StoredIn
    <3> QED
      BY <3>1, <3>2
  <2>6. RestoringFits'
    <3> SUFFICES ASSUME ~marred
                 PROVE  RestoringFits'
      BY <2>1 DEF RestoringFits
    <3>1. ~archive.marred /\ d \in DOMAIN archive.files /\ \A e \in Durable : wal[e] = {}
      BY <1>t, <2>2, <2>3 DEF RestoringFits, ArchiveFits, FilesFit, PutStage
    <3>2. d \in DOMAIN disk' /\ disk'[d] = archive.files[d] /\ \A e \in DOMAIN disk : e # d => e \in DOMAIN disk' /\ disk'[e] = disk[e]
      BY <2>1, <3>1 DEF DiskWith
    <3>3. d = "observations" => "meta" \in DOMAIN disk /\ disk["meta"] = archive.files["meta"]
      BY <1>t, <2>1, <2>3 DEF RestoringFits, PutStage, PutStep, Durable
    <3>4. \A e \in Durable : wal'[e] = {}
      BY <2>1, <3>1
    <3>5. CASE d = "meta"
      BY <2>1, <2>4, <3>1, <3>2, <3>4, <3>5 DEF RestoringFits, PutStage, Step, Durable
    <3>6. CASE d = "observations"
      BY <2>1, <2>4, <3>1, <3>2, <3>3, <3>4, <3>6 DEF RestoringFits, PutStage, Step, Durable
    <3> QED
      BY <3>5, <3>6 DEF Durable
  <2>7. Up' => Up /\ worker'.model = worker.model
    BY <1>0, <2>1, <2>2, Unnames DEF Up
  <2> QED
    BY <2>1, <2>3, <2>4, <2>5, <2>6, <2>7, Restoring DEF Durable
<1>6. CASE RestoreEnv
  <2>1. UNCHANGED <<disk, wal, aside, worker, archive, born, marred>> /\ op.step \in {"asideEnv", "putEnv"} /\ RestoreGoesOn
    BY <1>6 DEF RestoreEnv, data, Step
  <2>2. /\ op.step = "asideEnv" => envModel' = [envModel EXCEPT !.user = NoEnv]
        /\ op.step = "putEnv" => envModel' = [envModel EXCEPT !.user = IF archive.env # NoEnv THEN archive.env ELSE @]
    BY <1>6 DEF RestoreEnv, Step
  <2>3. /\ op.kind = "restore" /\ Replacing /\ op'.kind = "restore" /\ op'.model = op.model /\ Replacing' /\ archive # NoArchive
        /\ op'.step = RestoreOrder[op.step]
    BY <1>g, <2>1
  <2>4. /\ op.step = "asideEnv" => op'.step = "putEnv"
        /\ op.step = "putEnv" => op'.step = "vectors"
    BY <2>3 DEF RestoreOrder
  <2>5. /\ envModel'.etc = envModel.etc
        /\ op.step = "asideEnv" => envModel'.user = NoEnv
        /\ op.step = "putEnv" => envModel'.user = IF archive.env # NoEnv THEN archive.env ELSE envModel.user
    BY <1>0, <2>1, <2>2 DEF BackupTypeOK
  <2>6. StoredIsBorn'
    BY <1>t, <2>1, <2>3, BornStays DEF StoredIn
  <2>7. RestoringFits'
    <3> SUFFICES ASSUME ~marred
                 PROVE  RestoringFits'
      BY <2>1 DEF RestoringFits
    <3>1. /\ ~archive.marred /\ \A d \in Durable : wal'[d] = {} /\ d \in DOMAIN disk' /\ disk'[d] = archive.files[d]
          /\ op.step = "putEnv" => envModel.user = NoEnv
      BY <1>t, <2>1, <2>3 DEF RestoringFits, PutStage, Step, Durable
    <3>2. CASE op.step = "asideEnv"
      BY <2>1, <2>4, <2>5, <3>1, <3>2 DEF RestoringFits, Step
    <3>3. CASE op.step = "putEnv"
      <4>1. envModel'.etc = NoEnv => ModelNow' = archive.model
        BY <1>t, <2>3, <2>5, <3>1, <3>3 DEF ModelNow, ArchiveFits, Named
      <4> QED
        BY <2>1, <2>4, <3>1, <3>3, <4>1 DEF RestoringFits, Step
    <3> QED
      BY <2>1, <3>2, <3>3
  <2> QED
    BY <2>1, <2>3, <2>4, <2>5, <2>6, <2>7, Restoring DEF Up
<1>7. CASE RestoreVectors
  <2>1. /\ UNCHANGED <<wal, aside, envModel, archive, born, marred>> /\ op.kind = "restore" /\ op.step = "vectors"
        /\ Unnamed("vectors")
        /\ \/ VectorsCompatible /\ disk' = DiskWith("vectors", archive.files["vectors"])
           \/ disk' = DiskWithout("vectors")
    <3>1. UNCHANGED <<wal, aside, envModel, archive, born, marred>> /\ op.kind = "restore" /\ op.step = "vectors"
      BY <1>7 DEF RestoreVectors, ghosts, Step
    <3>2. /\ Unnamed("vectors")
          /\ \/ VectorsCompatible /\ disk' = DiskWith("vectors", archive.files["vectors"])
             \/ disk' = DiskWithout("vectors")
      BY <1>7, Zenon DEF RestoreVectors
    <3> QED
      BY <3>1, <3>2
  <2>2. op'.kind = "restore" /\ op'.model = op.model /\ op'.step = "start"
    <3>1. \/ op' = [op EXCEPT !.step = RestoreOrder[op.step]]
          \/ op' = [op EXCEPT !.step = RestoreOrder[@], !.anew = TRUE]
      BY <1>7, Zenon DEF RestoreVectors, RestoreGoesOn, Then
    <3>2. RestoreOrder[op.step] = "start"
      BY <2>1 DEF RestoreOrder
    <3> QED
      BY <1>r, <2>1, <3>1, <3>2
  <2>3. Replacing /\ Replacing' /\ "vectors" \in Db /\ ModelNow' = ModelNow
    BY <2>1, <2>2 DEF Replacing, Db, ModelNow
  <2>4. StoredIsBorn'
    <3>1. \A d \in Durable : StoredIn(disk', d) = StoredIn(disk, d)
      BY <2>1 DEF StoredIn, DiskWith, DiskWithout, Durable
    <3> QED
      BY <1>t, <2>1, <2>2, <3>1, BornStays
  <2>5. RestoringFits'
    <3> SUFFICES ASSUME ~marred
                 PROVE  RestoringFits'
      BY <2>1 DEF RestoringFits
    <3>1. /\ ~archive.marred /\ \A d \in Durable : wal[d] = {} /\ d \in DOMAIN disk /\ disk[d] = archive.files[d]
          /\ envModel.etc = NoEnv => ModelNow = archive.model
      BY <1>t, <2>1, <2>3 DEF RestoringFits, PutStage, Durable
    <3>2. \A d \in Durable : d \in DOMAIN disk' /\ disk'[d] = disk[d]
      BY <2>1, <3>1 DEF DiskWith, DiskWithout, Durable
    <3> QED
      BY <2>1, <2>2, <2>3, <3>1, <3>2 DEF RestoringFits, Step
  <2>6. VectorsFit'
    <3> SUFFICES ASSUME ~marred, NEW v \in StoredIn(disk', "vectors")
                 PROVE  v[2] = ModelNow
      BY <2>1, <2>3 DEF VectorsFit
    <3>1. /\ "vectors" \in DOMAIN archive.files /\ archive.model = op.model /\ v \in archive.files["vectors"]
      BY <2>1 DEF StoredIn, DiskWith, DiskWithout, VectorsCompatible
    <3>2. v[2] = archive.model
      BY <1>t, <1>r, <2>1, <2>3, <3>1 DEF ArchiveFits, RestoringFits, FilesFit, StoredIn
    <3>3. envModel.etc # NoEnv => op.model = envModel.etc /\ ModelNow = envModel.etc
      BY <2>1 DEF CorpusIsSound, EtcIsLoaded, ModelNow
    <3>4. envModel.etc = NoEnv => ModelNow = archive.model
      BY <1>t, <2>1, <2>3 DEF RestoringFits
    <3> QED
      BY <3>1, <3>2, <3>3, <3>4
  <2>7. Up' => Up /\ worker'.model = worker.model
    BY <1>0, <2>1, <2>3, Unnames
  <2> QED
    BY <2>1, <2>2, <2>3, <2>4, <2>5, <2>6, <2>7, Restoring
<1>8. CASE RestoreReindexes
  <2>1. /\ UNCHANGED <<aside, envModel, worker, archive, born, marred>> /\ op.step = "reindex" /\ Then("done")
        /\ (Up /\ worker.stale = {} /\ Reindexed(TRUE)) \/ UNCHANGED <<wal, disk>>
    BY <1>8 DEF RestoreReindexes, Step
  <2>2. op.kind = "restore"
    BY <1>0, <1>s, <2>1 DEF BackupTypeOK, Db, Durable
  <2>3. op'.kind = "restore" /\ op'.model = op.model /\ op'.step = "done"
    BY <1>r, <2>1, <2>2 DEF Then
  <2>4. ~Replacing /\ ~Replacing' /\ Up
    BY <1>0, <2>1, <2>2, <2>3 DEF Replacing, WorkerIsAsked
  <2>5. CASE Up /\ worker.stale = {} /\ Reindexed(TRUE)
    BY <1>0, <1>t, <2>1, <2>2, <2>3, <2>4, <2>5, ReindexGrows
  <2>6. CASE UNCHANGED <<wal, disk>>
    <3>1. \A d \in Durable : Held(d)' = Held(d) /\ Held(d) \subseteq born
      BY <1>t, <2>6 DEF Held, StoredIsBorn, BornAt
    <3>2. StoredIn(disk', "vectors") = StoredIn(disk, "vectors")
      BY <2>6
    <3> QED
      BY <2>1, <2>2, <2>3, <2>4, <3>1, <3>2, Grows DEF Durable
  <2> QED
    BY <2>1, <2>5, <2>6
<1> QED
  BY <1>1, <1>2, <1>3, <1>4, <1>5, <1>6, <1>7, <1>8 DEF Restores

(* vacuum and upgrade, *)
LEMMA CompactKeepsSound ==
  ASSUME BackupShape, CorpusIsSound, Compacts
  PROVE  CorpusIsSound'
<1>0. BackupTypes /\ BackupTypeOK /\ WorkerHasFiles /\ WorkerIsAsked /\ DisturbedIsMarred
  BY DEF BackupShape, BackupTypes
<1>1. ASSUME UNCHANGED <<disk, wal, aside, envModel, worker, archive, marred, born>>, op.kind = "none", op'.kind \in {"vacuum", "upgrade"}
      PROVE  CorpusIsSound'
  BY <1>1, OnlyOpMoves DEF Replacing
<1>2. CASE BeginVacuum
  BY <1>1, <1>2 DEF BeginVacuum, Begin, data, NoCommand
<1>3. ASSUME NEW rechunk \in BOOLEAN, BeginUpgrade(rechunk)
      PROVE  CorpusIsSound'
  BY <1>1, <1>3 DEF BeginUpgrade, Begin, data, NoCommand
<1>c. ASSUME op.kind # "restore", op.step \in {"rechunk", "stop", "pack"}
      PROVE  op.kind \in {"vacuum", "upgrade"} /\ ~Replacing
             /\ op \in [kind : {"vacuum", "upgrade"}, up : BOOLEAN, step : {"raise", "rechunk", "stop", "pack", "start", "done"}]
  BY <1>0, <1>c DEF BackupTypes, CommandTyped, BackupTypeOK, NoCommand, Replacing, Db, Durable
<1>4. CASE Rechunk
  <2>1. /\ UNCHANGED <<aside, envModel, worker, archive, born, marred>> /\ op.step = "rechunk" /\ Then("stop") /\ Up
        /\ (worker.stale = {} /\ Reindexed(FALSE)) \/ UNCHANGED <<wal, disk>>
    BY <1>4 DEF Rechunk, Step
  <2>2. op.kind # "restore"
    BY <1>0, <2>1 DEF BackupTypes, CommandTyped, RestoreStep
  <2>3. op.kind \in {"vacuum", "upgrade"} /\ op'.kind = op.kind /\ ~Replacing /\ ~Replacing'
    BY <1>c, <2>1, <2>2 DEF Then, Replacing
  <2>4. CASE worker.stale = {} /\ Reindexed(FALSE)
    BY <2>1, <2>2, <2>3, <2>4, ReindexGrows
  <2>5. CASE UNCHANGED <<wal, disk>>
    <3>1. \A d \in Durable : Held(d)' = Held(d) /\ Held(d) \subseteq born
      BY <2>5 DEF Held, CorpusIsSound, StoredIsBorn, BornAt
    <3>2. StoredIn(disk', "vectors") = StoredIn(disk, "vectors")
      BY <2>5
    <3> QED
      BY <2>1, <2>2, <2>3, <3>1, <3>2, Grows DEF Durable
  <2> QED
    BY <2>1, <2>4, <2>5
<1>5. CASE VacuumStops
  <2>1. /\ UNCHANGED <<aside, envModel, archive, born, marred>> /\ op.step = "stop" /\ op.kind # "restore"
        /\ Then("pack") \/ op' = NoCommand
    BY <1>5 DEF VacuumStops, ghosts, Step
  <2>2. ~Replacing /\ op'.kind \in {"none", "vacuum", "upgrade"}
    BY <1>c, <2>1 DEF Then, NoCommand
  <2>3. CASE Up /\ Close
    <3>1. /\ ~Up'
          /\ \A d \in Durable : IF d \in worker.stale THEN StoredIn(disk', d) = StoredIn(disk, d) /\ wal'[d] = wal[d]
                                ELSE /\ wal'[d] = {}
                                     /\ StoredIn(disk', d) = IF d \in DOMAIN disk THEN StoredIn(disk, d) \cup wal[d] ELSE {}
          /\ StoredIn(disk', "vectors") = StoredIn(disk, "vectors")
      BY <1>0, <2>3, Closes DEF Up
    <3>2. \A d \in Durable : Held(d)' \subseteq Held(d)
      BY <3>1, HeldIs
    <3>3. ~marred => Held("observations")' = Held("observations")
      <4> SUFFICES ASSUME ~marred
                   PROVE  Held("observations")' = Held("observations")
        OBVIOUS
      <4>1. worker.stale = {} /\ "observations" \in DOMAIN disk
        BY <2>3, WhenUndisturbed DEF Db, Durable
      <4> QED
        BY <3>1, <4>1, HeldIs DEF Durable
    <3> QED
      BY <2>1, <2>2, <3>1, <3>2, <3>3, Rests
  <2>4. CASE UNCHANGED <<disk, wal>> /\ (worker' = worker \/ worker' = NoWorker)
    <3>1. \A d \in Durable : Held(d)' = Held(d)
      BY <2>4 DEF Held
    <3>2. Up' => worker' = worker
      BY <2>4 DEF Up
    <3> QED
      BY <2>1, <2>2, <2>4, <3>1, <3>2, Rests DEF Durable
  <2> QED
    BY <1>5, <2>3, <2>4 DEF VacuumStops, StopCloses, StopKills
<1>6. CASE Vacuum
  <2>1. /\ UNCHANGED <<aside, envModel, worker, archive, born, marred>> /\ op.step = "pack"
        /\ Packed \/ op' = NoCommand
        /\ \/ /\ disk' = [d \in DOMAIN disk |-> IF d = "meta" THEN disk[d] \cup wal[d] ELSE disk[d]]
              /\ wal' = [wal EXCEPT !["meta"] = IF "meta" \in DOMAIN disk THEN {} ELSE @]
           \/ UNCHANGED <<disk, wal>>
    BY <1>6 DEF Vacuum, ghosts, Step
  <2>2. op.kind # "restore"
    BY <1>0, <2>1 DEF BackupTypes, CommandTyped, RestoreStep
  <2>3. ~Replacing /\ op'.kind \in {"none", "vacuum", "upgrade"}
    BY <1>c, <2>1, <2>2 DEF Packed, Then, NoCommand
  <2>4. (\A d \in Durable : Held(d)' = Held(d)) /\ StoredIn(disk', "vectors") = StoredIn(disk, "vectors")
    BY <1>0, <2>1 DEF BackupTypeOK, Held, StoredIn, Durable
  <2> QED
    BY <2>1, <2>3, <2>4, Rests DEF Durable
<1> QED
  BY <1>2, <1>3, <1>4, <1>5, <1>6 DEF Compacts

(* and starting the worker again: after an undisturbed restore it serves the archive. *)
LEMMA StartKeepsSound ==
  ASSUME BackupShape, CorpusIsSound, StartAgain
  PROVE  CorpusIsSound'
<1>0. BackupTypes /\ BackupTypeOK /\ WorkerHasFiles /\ WorkerIsAsked /\ DisturbedIsMarred
  BY DEF BackupShape, BackupTypes
<1>1. /\ UNCHANGED <<wal, aside, envModel, archive, born, marred>> /\ op.step \in {"raise", "start"}
      /\ \E s \in {"rechunk", "reindex", "done"} : Then(s)
      /\ op.kind = "restore" /\ op.step = "start" => \E s \in {"reindex", "done"} : Then(s)
      /\ (Up /\ UNCHANGED <<disk, worker>>) \/ (~Up /\ Boot)
  BY <1>0 DEF StartAgain, ghosts, Step
<1>2. /\ Up' /\ ((worker' = worker /\ Up) \/ worker'.model = ModelNow)
      /\ \A d \in Db : StoredIn(disk', d) = StoredIn(disk, d)
  <2>1. CASE ~Up /\ Boot
    BY <1>0, <2>1, Boots DEF StoredIn
  <2>2. CASE Up /\ UNCHANGED <<disk, worker>>
    BY <2>2 DEF Up
  <2> QED
    BY <1>1, <2>1, <2>2
<1>3. \A d \in Durable : Held(d)' = Held(d)
  BY <1>1, <1>2, HeldIs DEF Db
<1>4. StoredIn(disk', "vectors") = StoredIn(disk, "vectors")
  BY <1>2 DEF Db
<1>5. CASE op.kind # "restore"
  <2>1. /\ op.kind \in {"vacuum", "upgrade"} /\ ~Replacing
        /\ op \in [kind : {"vacuum", "upgrade"}, up : BOOLEAN, step : {"raise", "rechunk", "stop", "pack", "start", "done"}]
    BY <1>0, <1>1, <1>5 DEF BackupTypes, CommandTyped, BackupTypeOK, NoCommand, Replacing, Db, Durable
  <2>2. op'.kind \in {"none", "vacuum", "upgrade"}
    BY <1>1, <2>1 DEF Then
  <2> QED
    BY <1>1, <1>2, <1>3, <1>4, <2>1, <2>2, Rests DEF Durable
<1>6. CASE op.kind = "restore"
  <2>1. /\ op.step = "start" /\ Replacing /\ archive # NoArchive
        /\ op \in [kind : {"restore"}, model : EmbedderModel, reindex : BOOLEAN, anew : BOOLEAN, step : RestoreStep]
    BY <1>0, <1>1, <1>6 DEF BackupTypes, CommandTyped, RestoreStep, Replacing
  <2>2. op'.kind = "restore" /\ op'.model = op.model /\ op'.step \in {"reindex", "done"} /\ ~Replacing'
    BY <1>1, <1>6, <2>1 DEF Then, Replacing
  <2>3. StoredIsBorn'
    BY <1>1, <1>2, <2>2, BornStays DEF CorpusIsSound, Db
  <2>4. envModel.etc # NoEnv => worker'.model = envModel.etc
    BY <1>2 DEF CorpusIsSound, EtcIsLoaded, ModelNow
  <2>5. CASE marred
    BY <1>1, <1>6, <2>2, <2>3, <2>4, <2>5, Disturbed
  <2>6. CASE ~marred
    <3>1. ModelNow' = ModelNow /\ ~Up
      BY <1>0, <1>1, <2>1, <2>6 DEF ModelNow, DisturbedIsMarred
    <3>2. worker'.model = ModelNow
      BY <1>2, <3>1
    <3>3. /\ ~archive.marred /\ \A d \in Durable : wal[d] = {} /\ d \in DOMAIN disk /\ disk[d] = archive.files[d]
      BY <2>1, <2>6 DEF CorpusIsSound, RestoringFits, PutStage, Durable
    <3>4. \A d \in Durable : Held(d) = archive.files[d]
      BY <3>3 DEF Held
    <3>5. FilesFit(archive.files, archive.model)
      BY <2>1, <3>3 DEF CorpusIsSound, ArchiveFits
    <3>6. EtcIsLoaded'
      BY <1>1, <1>6, <2>2, <2>4 DEF CorpusIsSound, EtcIsLoaded
    <3>7. CorpusFits'
      BY <1>3, <3>1, <3>2, <3>4, <3>5 DEF CorpusFits, FilesFit, Durable
    <3>8. VectorsFit'
      BY <1>1, <1>4, <2>1, <2>2, <3>1 DEF CorpusIsSound, VectorsFit, Step
    <3>9. ArchiveFits'
      BY <1>1 DEF CorpusIsSound, ArchiveFits, FilesFit, StoredIn, Named
    <3>10. CopiesFit' /\ RestoringFits'
      BY <2>2 DEF CopiesFit, RestoringFits
    <3>11. RestoredFits'
      BY <1>1, <1>3, <3>3, <3>4 DEF RestoredFits, Durable
    <3> QED
      BY <2>3, <3>6, <3>7, <3>8, <3>9, <3>10, <3>11 DEF CorpusIsSound
  <2> QED
    BY <2>5, <2>6
<1> QED
  BY <1>5, <1>6

(* Every step keeps the corpus sound, killed commands included. *)
LEMMA SoundStep ==
  ASSUME BackupShape, CorpusIsSound, [BackupNext]_backupVars, ~AsksDown
  PROVE  CorpusIsSound'
<1>0. BackupTypes /\ BackupTypeOK /\ WorkerIsAsked
  BY DEF BackupShape, BackupTypes
<1>1. ASSUME NEW m \in EmbedderModel, Reconfigure(m)
      PROVE  CorpusIsSound'
  BY <1>1, ReconfigureKeepsSound
<1>2. CASE CutShort
  <2>1. /\ UNCHANGED <<disk, wal, aside, envModel, worker, archive, born>> /\ op' = NoCommand
        /\ marred' = (marred \/ Replacing)
    BY <1>2 DEF CutShort, data
  <2>2. op'.kind = "none" /\ ~Replacing'
    BY <2>1 DEF NoCommand, Replacing
  <2>3. CASE Replacing
    <3>1. StoredIsBorn'
      BY <2>1, <2>2, BornStays DEF CorpusIsSound, StoredIn
    <3>2. Up' /\ envModel.etc # NoEnv => worker'.model = envModel.etc
      BY <2>1 DEF CorpusIsSound, EtcIsLoaded, Up
    <3> QED
      BY <2>1, <2>2, <2>3, <3>1, <3>2, Disturbed
  <2>4. CASE ~Replacing
    <3>1. marred' = marred
      BY <1>0, <2>1, <2>4 DEF BackupTypeOK
    <3> QED
      BY <2>1, <2>2, <2>4, <3>1, OnlyOpMoves
  <2> QED
    BY <2>3, <2>4
<1>3. CASE End
  <2>1. /\ UNCHANGED <<disk, wal, aside, envModel, worker, archive, born, marred>> /\ op' = NoCommand /\ op.step = "done"
    BY <1>3 DEF End, data, Step
  <2> QED
    BY <2>1, OnlyOpMoves DEF NoCommand, Replacing
<1>4. CASE UNCHANGED backupVars
  BY <1>4, SoundStaysPut
<1> QED
  BY <1>1, <1>2, <1>3, <1>4, WorkerKeepsSound, CreateKeepsSound, RestoreKeepsSound, CompactKeepsSound, StartKeepsSound, Zenon
     DEF BackupNext

-----------------------------------------------------------------------------
(* Backup and restore: every state                                         *)

(* An archive brought from another machine was taken, if undisturbed, of a corpus that fits, from a worker whose model
   the archive's worker.env names. *)
ElsewhereIsSound ==
  \A a \in Elsewhere : ArchiveTyped(a) /\ (~a.marred => FilesFit(a.files, a.model) /\ a.model = Named(a))

(* Everything that is kept. *)
BackupsInv ==
  /\ BackupShape
  /\ KnownIsKept
  /\ CorpusIsSound
  /\ BackupsAreSound

(* It is what the backups promise. *)
LEMMA SoundBackups ==
  ASSUME BackupShape, KnownIsKept, CorpusIsSound
  PROVE  BackupsAreSound
<1>0. BackupTypes /\ BackupTypeOK /\ WorkerIsAsked /\ CompactedIsUp
  BY DEF BackupShape, BackupTypes
<1>r. op.kind = "restore" => op \in [kind : {"restore"}, model : EmbedderModel, reindex : BOOLEAN, anew : BOOLEAN, step : RestoreStep]
                             /\ archive # NoArchive
  BY <1>0 DEF BackupTypes, CommandTyped
<1>1. NothingIsLost
  BY DEF NothingIsLost, KnownIsKept, KnownAt
<1>2. RestoredIsServed
  <2> SUFFICES ASSUME op.kind = "restore", Step("done"), ~marred
               PROVE  /\ Up /\ worker.stale = {}
                      /\ \A d \in Durable \cap DOMAIN archive.files :
                           /\ archive.files[d] \subseteq Held(d)
                           /\ Held(d) \cap aside[d] \subseteq archive.files[d] \cup archive.files["observations"]
    BY Zenon DEF RestoredIsServed
  <2>1. Up
    BY <1>0 DEF WorkerIsAsked, Replacing, Step
  <2>2. worker.stale = {}
    BY <2>1, WhenUndisturbed
  <2>3. RestoredFits
    BY DEF CorpusIsSound
  <2> QED
    BY <2>1, <2>2, <2>3 DEF RestoredFits, Step, Durable
<1>3. VectorsFitTheEmbedder
  <2> SUFFICES ASSUME Up, ~marred, op.kind # "restore"
               PROVE  \A v \in disk["vectors"] : v[2] = worker.model
    BY DEF VectorsFitTheEmbedder
  <2>1. ~Replacing /\ "vectors" \in DOMAIN disk
    BY WhenUndisturbed DEF Db
  <2> QED
    BY <2>1 DEF CorpusIsSound, CorpusFits, VectorsFit, StoredIn
<1>4. ChunksHaveTheirObservation
  <2>1. archive # NoArchive /\ ~archive.marred => archive.files["meta"] \subseteq archive.files["observations"]
    BY DEF CorpusIsSound, ArchiveFits, FilesFit
  <2>2. ~marred /\ op.kind # "restore" => Held("meta") \subseteq Held("observations")
    BY DEF CorpusIsSound, CorpusFits, Replacing
  <2> QED
    BY <2>1, <2>2 DEF ChunksHaveTheirObservation
<1>5. WorkerIsBroughtBack
  BY <1>0 DEF WorkerIsBroughtBack, CompactedIsUp
<1> QED
  BY <1>1, <1>2, <1>3, <1>4, <1>5 DEF BackupsAreSound

(* A machine that was set up and has taken nothing yet, with archives from elsewhere that are sound, begins so. *)
LEMMA BackupBegins ==
  ASSUME BackupInit, ElsewhereIsSound
  PROVE  BackupsInv
<1> USE BackupAssumption DEF BackupInit
<1>1. ModelNow \in EmbedderModel /\ envModel \in [user : EmbedderModel \cup {NoEnv}, etc : EmbedderModel \cup {NoEnv}]
  BY DEF ModelNow
<1>2. worker = [model |-> ModelNow, stale |-> {}] /\ Up /\ worker.model = ModelNow /\ worker.stale = {}
  BY <1>1 DEF Up, NoWorker
<1>3. op.kind = "none" /\ op = NoCommand /\ ~Replacing /\ ~Step("start")
  BY DEF NoCommand, Replacing, Step
<1>4. DOMAIN disk = Db /\ FilesTyped(disk) /\ \A d \in Db : StoredIn(disk, d) = {} /\ disk[d] = {}
  BY DEF FilesTyped, StoredIn
<1>5. archive = NoArchive \/ (archive \in Elsewhere /\ ArchiveTyped(archive))
  BY DEF ElsewhereIsSound
<1>6. BackupTypes
  <2>1. BackupTypeOK
    <3>1. worker \in [model : EmbedderModel, stale : SUBSET Db]
      BY <1>1, <1>2
    <3>2. /\ wal \in [Durable -> SUBSET Observation] /\ aside \in [Durable -> SUBSET Observation]
          /\ known \in [Durable -> SUBSET Observation]
          /\ pending \subseteq Observation /\ born \subseteq Observation
      OBVIOUS
    <3>3. marred \in BOOLEAN /\ unclosed \in BOOLEAN
      OBVIOUS
    <3>4. operations \in 0 .. MaxOperations /\ cuts \in 0 .. MaxCuts
      OBVIOUS
    <3> QED
      BY <1>1, <1>3, <1>4, <3>1, <3>2, <3>3, <3>4 DEF BackupTypeOK
  <2> QED
    BY <1>3, <1>5, <2>1 DEF BackupTypes, CommandTyped
<1>7. BackupShape
  BY <1>2, <1>3, <1>4, <1>6 DEF BackupShape, WorkerHasFiles, DisturbedIsMarred, WorkerIsAsked, CompactedIsUp
<1>8. KnownIsKept
  BY DEF KnownIsKept, KnownAt
<1>9. \A d \in Durable : Held(d) = {}
  BY <1>4 DEF Held, Db
<1>10. StoredIsBorn
  <2> SUFFICES ASSUME NEW d \in Durable
               PROVE  StoredIn(archive.files, d) \subseteq born
    BY <1>3, <1>9 DEF StoredIsBorn, BornAt
  <2>1. CASE archive = NoArchive
    BY <2>1 DEF NoArchive, NoFiles, StoredIn
  <2>2. CASE archive \in Elsewhere /\ ArchiveTyped(archive)
    BY <2>2 DEF ArchiveTyped, FilesTyped, DbRows, StoredIn, Durable
  <2> QED
    BY <1>5, <2>1, <2>2
<1>11. EtcIsLoaded /\ CorpusFits /\ VectorsFit
  BY <1>1, <1>2, <1>3, <1>4, <1>9 DEF EtcIsLoaded, CorpusFits, VectorsFit, ModelNow, Durable, Db
<1>12. ArchiveFits
  BY <1>5 DEF ArchiveFits, ElsewhereIsSound
<1>13. CopiesFit /\ RestoringFits /\ RestoredFits
  BY <1>3 DEF CopiesFit, RestoringFits, RestoredFits
<1>14. CorpusIsSound
  BY <1>10, <1>11, <1>12, <1>13 DEF CorpusIsSound
<1> QED
  BY <1>7, <1>8, <1>14, SoundBackups DEF BackupsInv

(* And every step keeps it, if backups and restores are begun with the worker up. *)
LEMMA BackupsKeepOn ==
  ASSUME BackupsInv, [BackupNext]_backupVars, ~AsksDown
  PROVE  BackupsInv'
<1>1. BackupShape' /\ KnownIsKept' /\ CorpusIsSound'
  BY ShapeStep, KnownStep, SoundStep DEF BackupsInv
<1>2. BackupsAreSound'
  BY <1>1, SoundBackups, PTL
<1> QED
  BY <1>1, <1>2 DEF BackupsInv

-----------------------------------------------------------------------------
(* Sums over finite sets                                                   *)

(* The member that a fold over a set takes first: which one it is does not matter to a sum. *)
Some(s) == CHOOSE x \in s : TRUE

(* g gives every subset of T the sum of the values w has there, one member after the other. *)
IsSum(g, w, T) == g = [s \in SUBSET T |-> IF s = {} THEN 0 ELSE w[Some(s)] + g[s \ {Some(s)}]]
TheSum(w, T) == CHOOSE g : IsSum(g, w, T)

(* The library's sum is the value of such a g at the whole set. *)
LEMMA SumIs ==
  ASSUME NEW w, NEW S
  PROVE  SumFunctionOnSet(w, S) = TheSum(w, S)[S]
BY Zenon DEF SumFunctionOnSet, FoldFunctionOnSet, MapThenFoldSet, IsSum, Some, TheSum

(* Among the bad subsets of a finite set is one with no bad subset of its own: what the proofs below put in the place of an
   induction over the set. *)
LEMMA SmallestExists ==
  ASSUME NEW S, IsFiniteSet(S), NEW Bad, Bad \subseteq SUBSET S, Bad # {}
  PROVE  \E T \in Bad : \A U \in Bad : U \subseteq T => U = T
<1>1. IsWellFoundedOn(StrictSubsetOrdering(S), SUBSET S)
  BY FS_StrictSubsetOrderingWellFounded, FS_FiniteSubsetsOfFinite, Zenon
<1>2. PICK T \in Bad : \A U \in Bad : ~(<<U, T>> \in StrictSubsetOrdering(S))
  BY <1>1, WFMin, Zenon
<1>3. \A U \in Bad : U \subseteq T => U = T
  BY <1>2 DEF StrictSubsetOrdering
<1> QED
  BY <1>3

(* The member taken first is a member. *)
LEMMA SomeIsIn == ASSUME NEW s, s # {} PROVE Some(s) \in s
BY DEF Some

(* Two such functions agree where both are defined. *)
LEMMA SumsAgree ==
  ASSUME NEW w, NEW S, IsFiniteSet(S), NEW g, IsSum(g, w, S), NEW T \in SUBSET S, NEW h, IsSum(h, w, T)
  PROVE  \A s \in SUBSET T : g[s] = h[s]
<1> SUFFICES ASSUME NEW bad \in SUBSET T, g[bad] # h[bad]
             PROVE  FALSE
  OBVIOUS
<1> DEFINE Bad == {s \in SUBSET T : g[s] # h[s]}
<1>1. PICK s \in Bad : \A u \in Bad : u \subseteq s => u = s
  <2>1. Bad \subseteq SUBSET S /\ Bad # {}
    OBVIOUS
  <2> HIDE DEF Bad
  <2> QED
    BY <2>1, SmallestExists
<1>2. s \in SUBSET T /\ s \in SUBSET S /\ g[s] # h[s]
  OBVIOUS
<1>3. s # {}
  <2>1. g[{}] = 0 /\ h[{}] = 0
    BY DEF IsSum
  <2> QED
    BY <1>2, <2>1
<1>4. Some(s) \in s
  BY <1>3, SomeIsIn
<1>5. s \ {Some(s)} \in SUBSET T /\ s \ {Some(s)} # s
  BY <1>2, <1>4
<1>6. g[s \ {Some(s)}] = h[s \ {Some(s)}]
  BY <1>1, <1>5
<1>7. g[s] = w[Some(s)] + g[s \ {Some(s)}] /\ h[s] = w[Some(s)] + h[s \ {Some(s)}]
  BY <1>2, <1>3 DEF IsSum
<1> QED
  BY <1>2, <1>6, <1>7, Zenon

(* And one restricted to fewer subsets is one. *)
LEMMA SumRestricts ==
  ASSUME NEW w, NEW S, NEW g, IsSum(g, w, S), NEW T \in SUBSET S
  PROVE  IsSum([s \in SUBSET T |-> g[s]], w, T)
<1> DEFINE h == [s \in SUBSET T |-> g[s]]
<1>1. ASSUME NEW s \in SUBSET T
      PROVE  h[s] = IF s = {} THEN 0 ELSE w[Some(s)] + h[s \ {Some(s)}]
  <2>1. s \in SUBSET S /\ s \ {Some(s)} \in SUBSET T
    OBVIOUS
  <2>2. g[s] = IF s = {} THEN 0 ELSE w[Some(s)] + g[s \ {Some(s)}]
    BY <2>1 DEF IsSum
  <2> QED
    BY <2>1, <2>2, Zenon
<1>2. h = [s \in SUBSET T |-> IF s = {} THEN 0 ELSE w[Some(s)] + h[s \ {Some(s)}]]
  BY <1>1, Zenon
<1> QED
  BY <1>2 DEF IsSum

(* There is one for every finite set. *)
LEMMA SumExists ==
  ASSUME NEW w, NEW S, IsFiniteSet(S)
  PROVE  \E g : IsSum(g, w, S)
<1> SUFFICES ASSUME ~ \E g : IsSum(g, w, S)
             PROVE  FALSE
  OBVIOUS
<1> DEFINE Bad == {T \in SUBSET S : ~ \E g : IsSum(g, w, T)}
<1>1. PICK T \in Bad : \A U \in Bad : U \subseteq T => U = T
  <2>1. Bad \subseteq SUBSET S /\ S \in Bad
    OBVIOUS
  <2> HIDE DEF Bad
  <2>2. Bad # {}
    BY <2>1
  <2> QED
    BY <2>1, <2>2, SmallestExists
<1>2. T \in SUBSET S /\ ~ \E g : IsSum(g, w, T)
  OBVIOUS
<1>3. \A U \in SUBSET T : U # T => IsSum(TheSum(w, U), w, U)
  <2> SUFFICES ASSUME NEW U \in SUBSET T, U # T
               PROVE  IsSum(TheSum(w, U), w, U)
    OBVIOUS
  <2>1. U \in SUBSET S /\ U \notin Bad
    BY <1>1
  <2>2. PICK g : IsSum(g, w, U)
    BY <2>1
  <2> QED
    BY <2>2, Zenon DEF TheSum
<1> HIDE DEF Bad
<1> DEFINE V(u) == TheSum(w, u)[u]
           g == [s \in SUBSET T |-> IF s = {} THEN 0 ELSE w[Some(s)] + V(s \ {Some(s)})]
<1>4. \A U \in SUBSET S : IsFiniteSet(U)
  BY FS_Subset
<1>5. ASSUME NEW u \in SUBSET T, u # T
      PROVE  g[u] = V(u)
  <2>1. IsSum(TheSum(w, u), w, u)
    BY <1>3, <1>5
  <2>2. CASE u = {}
    <3>1. TheSum(w, u)[u] = 0
      BY <2>1, <2>2, Zenon DEF IsSum
    <3> QED
      BY <2>2, <3>1, Zenon
  <2>3. CASE u # {}
    <3>1. Some(u) \in u
      BY <2>3, SomeIsIn
    <3>2. PICK r : r = u \ {Some(u)}
      OBVIOUS
    <3>3. r \in SUBSET u /\ r \in SUBSET T /\ r # T /\ u \in SUBSET u
      BY <3>1, <3>2
    <3>4. TheSum(w, u)[u] = w[Some(u)] + TheSum(w, u)[r]
      BY <2>1, <2>3, <3>2, <3>3, Zenon DEF IsSum
    <3>5. IsSum(TheSum(w, r), w, r) /\ r \in SUBSET r
      BY <1>3, <3>3
    <3>6. TheSum(w, u)[r] = TheSum(w, r)[r]
      <4>1. IsFiniteSet(u)
        BY <1>2, <1>4
      <4>2. PICK gu : gu = TheSum(w, u)
        OBVIOUS
      <4>3. PICK gr : gr = TheSum(w, r)
        OBVIOUS
      <4>4. \A q \in SUBSET r : gu[q] = gr[q]
        BY <2>1, <3>3, <3>5, <4>1, <4>2, <4>3, SumsAgree
      <4> QED
        BY <3>5, <4>2, <4>3, <4>4, Zenon
    <3> QED
      BY <2>3, <3>2, <3>4, <3>6, Zenon
  <2> QED
    BY <2>2, <2>3
<1>6. IsSum(g, w, T)
  <2>1. ASSUME NEW s \in SUBSET T, s # {}
        PROVE  g[s \ {Some(s)}] = V(s \ {Some(s)})
    <3>1. Some(s) \in s
      BY <2>1, SomeIsIn
    <3>2. s \ {Some(s)} \in SUBSET T /\ s \ {Some(s)} # T
      BY <3>1
    <3> QED
      BY <1>5, <3>2, Zenon
  <2>2. ASSUME NEW s \in SUBSET T
        PROVE  g[s] = IF s = {} THEN 0 ELSE w[Some(s)] + g[s \ {Some(s)}]
    BY <2>1, Zenon
  <2>3. g = [s \in SUBSET T |-> IF s = {} THEN 0 ELSE w[Some(s)] + g[s \ {Some(s)}]]
    BY <2>2, Zenon
  <2> QED
    BY <2>3 DEF IsSum
<1> QED
  BY <1>2, <1>6

(* So the sum of a set is the first value and the sum of the rest. *)
LEMMA SumUnfolds ==
  ASSUME NEW w, NEW S, IsFiniteSet(S)
  PROVE  /\ SumFunctionOnSet(w, {}) = 0
         /\ S # {} => SumFunctionOnSet(w, S) = w[Some(S)] + SumFunctionOnSet(w, S \ {Some(S)})
<1>1. \A T \in SUBSET S : IsFiniteSet(T) /\ IsSum(TheSum(w, T), w, T)
  BY FS_Subset, SumExists, Zenon DEF TheSum
<1>2. SumFunctionOnSet(w, {}) = 0
  <2>1. IsSum(TheSum(w, {}), w, {})
    BY <1>1
  <2>2. TheSum(w, {})[{}] = 0
    BY <2>1, Zenon DEF IsSum
  <2> QED
    BY <2>2, SumIs, Zenon
<1>3. ASSUME S # {}
      PROVE  SumFunctionOnSet(w, S) = w[Some(S)] + SumFunctionOnSet(w, S \ {Some(S)})
  <2>1. PICK r : r = S \ {Some(S)}
    OBVIOUS
  <2>2. r \in SUBSET S /\ r \in SUBSET r /\ S \in SUBSET S
    BY <2>1
  <2>3. TheSum(w, S)[S] = w[Some(S)] + TheSum(w, S)[r]
    BY <1>1, <1>3, <2>1, <2>2, Zenon DEF IsSum
  <2>4. TheSum(w, S)[r] = TheSum(w, r)[r]
    <3>1. PICK gs : gs = TheSum(w, S)
      OBVIOUS
    <3>2. PICK gr : gr = TheSum(w, r)
      OBVIOUS
    <3>3. IsSum(gs, w, S) /\ IsSum(gr, w, r)
      BY <1>1, <2>2, <3>1, <3>2, Zenon
    <3>4. \A q \in SUBSET r : gs[q] = gr[q]
      BY <1>1, <2>2, <3>3, SumsAgree
    <3> QED
      BY <2>2, <3>1, <3>2, <3>4, Zenon
  <2> QED
    BY <2>1, <2>3, <2>4, SumIs, Zenon
<1> QED
  BY <1>2, <1>3

(* A sum of integers is an integer. *)
LEMMA SumTyped ==
  ASSUME NEW w, NEW S, IsFiniteSet(S), \A x \in S : w[x] \in Int
  PROVE  SumFunctionOnSet(w, S) \in Int
<1> SUFFICES ASSUME SumFunctionOnSet(w, S) \notin Int
             PROVE  FALSE
  OBVIOUS
<1> DEFINE Bad == {T \in SUBSET S : SumFunctionOnSet(w, T) \notin Int}
<1>1. PICK T \in Bad : \A U \in Bad : U \subseteq T => U = T
  <2>1. Bad \subseteq SUBSET S /\ S \in Bad
    OBVIOUS
  <2> HIDE DEF Bad
  <2>2. Bad # {}
    BY <2>1
  <2> QED
    BY <2>1, <2>2, SmallestExists
<1>2. T \in SUBSET S /\ SumFunctionOnSet(w, T) \notin Int /\ IsFiniteSet(T)
  BY FS_Subset
<1>3. T # {} /\ SumFunctionOnSet(w, T) = w[Some(T)] + SumFunctionOnSet(w, T \ {Some(T)})
  BY <1>2, SumUnfolds
<1>4. Some(T) \in T
  BY <1>3, SomeIsIn
<1>5. SumFunctionOnSet(w, T \ {Some(T)}) \in Int
  BY <1>1, <1>2, <1>4
<1> QED
  BY <1>2, <1>3, <1>4, <1>5

(* Whichever member is taken out, its value is what the sum loses: the order does not matter. *)
LEMMA SumTakesOut ==
  ASSUME NEW w, NEW S, IsFiniteSet(S), \A x \in S : w[x] \in Int, NEW x \in S
  PROVE  SumFunctionOnSet(w, S) = w[x] + SumFunctionOnSet(w, S \ {x})
<1> SUFFICES ASSUME SumFunctionOnSet(w, S) # w[x] + SumFunctionOnSet(w, S \ {x})
             PROVE  FALSE
  OBVIOUS
<1> DEFINE Bad == {T \in SUBSET S : \E y \in T : SumFunctionOnSet(w, T) # w[y] + SumFunctionOnSet(w, T \ {y})}
<1>1. PICK T \in Bad : \A U \in Bad : U \subseteq T => U = T
  <2>1. Bad \subseteq SUBSET S /\ S \in Bad
    OBVIOUS
  <2> HIDE DEF Bad
  <2>2. Bad # {}
    BY <2>1
  <2> QED
    BY <2>1, <2>2, SmallestExists
<1>2. PICK y \in T : SumFunctionOnSet(w, T) # w[y] + SumFunctionOnSet(w, T \ {y})
  OBVIOUS
<1>3. T \in SUBSET S /\ \A U \in SUBSET S : IsFiniteSet(U)
  BY FS_Subset
<1>4. PICK c : c = Some(T)
  OBVIOUS
<1>5. c \in T /\ SumFunctionOnSet(w, T) = w[c] + SumFunctionOnSet(w, T \ {c})
  BY <1>2, <1>3, <1>4, SomeIsIn, SumUnfolds
<1>6. c # y
  BY <1>2, <1>5
<1>7. T \ {c} \in SUBSET S /\ T \ {c} # T /\ T \ {c} \subseteq T /\ y \in T \ {c}
      /\ T \ {y} \in SUBSET S /\ T \ {y} # T /\ T \ {y} \subseteq T /\ c \in T \ {y}
  BY <1>3, <1>5, <1>6
<1>8. SumFunctionOnSet(w, T \ {c}) = w[y] + SumFunctionOnSet(w, (T \ {c}) \ {y})
  BY <1>1, <1>7
<1>9. SumFunctionOnSet(w, T \ {y}) = w[c] + SumFunctionOnSet(w, (T \ {y}) \ {c})
  BY <1>1, <1>7
<1>10. (T \ {c}) \ {y} = (T \ {y}) \ {c} /\ (T \ {c}) \ {y} \in SUBSET S
  BY <1>3
<1>11. SumFunctionOnSet(w, (T \ {c}) \ {y}) \in Int /\ w[c] \in Int /\ w[y] \in Int
  BY <1>3, <1>5, <1>10, SumTyped
<1> HIDE DEF Bad
<1>12. PICK a, b, z : a = w[c] /\ b = w[y] /\ z = SumFunctionOnSet(w, (T \ {c}) \ {y})
  OBVIOUS
<1>13. a \in Int /\ b \in Int /\ z \in Int
  BY <1>11, <1>12
<1>14. SumFunctionOnSet(w, T) = a + (b + z) /\ SumFunctionOnSet(w, T \ {y}) = a + z
  BY <1>5, <1>8, <1>9, <1>10, <1>12, Zenon
<1>15. SumFunctionOnSet(w, T) # b + (a + z)
  BY <1>2, <1>12, <1>14, Zenon
<1> QED
  BY <1>13, <1>14, <1>15

(* The sum of two sets that share no member is the sum of their sums. *)
LEMMA SumJoins ==
  ASSUME NEW w, NEW S, IsFiniteSet(S), NEW T, IsFiniteSet(T), S \cap T = {}, \A x \in S \cup T : w[x] \in Int
  PROVE  SumFunctionOnSet(w, S \cup T) = SumFunctionOnSet(w, S) + SumFunctionOnSet(w, T)
<1> SUFFICES ASSUME SumFunctionOnSet(w, S \cup T) # SumFunctionOnSet(w, S) + SumFunctionOnSet(w, T)
             PROVE  FALSE
  OBVIOUS
<1> DEFINE Bad == {U \in SUBSET S : SumFunctionOnSet(w, U \cup T) # SumFunctionOnSet(w, U) + SumFunctionOnSet(w, T)}
<1>1. PICK U \in Bad : \A V \in Bad : V \subseteq U => V = U
  <2>1. Bad \subseteq SUBSET S /\ S \in Bad
    OBVIOUS
  <2> HIDE DEF Bad
  <2>2. Bad # {}
    BY <2>1
  <2> QED
    BY <2>1, <2>2, SmallestExists
<1>2. U \in SUBSET S /\ SumFunctionOnSet(w, U \cup T) # SumFunctionOnSet(w, U) + SumFunctionOnSet(w, T)
  OBVIOUS
<1>3. IsFiniteSet(U) /\ IsFiniteSet(U \cup T)
  BY <1>2, FS_Subset, FS_Union
<1>4. SumFunctionOnSet(w, T) \in Int
  BY SumTyped
<1>5. U # {}
  <2>1. SumFunctionOnSet(w, {}) = 0
    BY <1>3, SumUnfolds
  <2>2. {} \cup T = T
    OBVIOUS
  <2>3. ASSUME U = {}
        PROVE  FALSE
    <3>1. SumFunctionOnSet(w, U \cup T) = SumFunctionOnSet(w, T) /\ SumFunctionOnSet(w, U) = 0
      BY <2>1, <2>2, <2>3, Zenon
    <3>2. SumFunctionOnSet(w, T) # 0 + SumFunctionOnSet(w, T)
      BY <1>2, <3>1, Zenon
    <3> QED
      BY <1>4, <3>2
  <2> QED
    BY <2>3
<1>6. PICK x \in U : TRUE
  BY <1>5
<1>7. U \ {x} \in SUBSET S /\ U \ {x} # U /\ (U \cup T) \ {x} = (U \ {x}) \cup T
  BY <1>2
<1>8. SumFunctionOnSet(w, (U \ {x}) \cup T) = SumFunctionOnSet(w, U \ {x}) + SumFunctionOnSet(w, T)
  BY <1>1, <1>7
<1>9. IsFiniteSet(U \ {x}) /\ SumFunctionOnSet(w, U \ {x}) \in Int /\ w[x] \in Int
  BY <1>2, <1>3, FS_Subset, SumTyped
<1>10. SumFunctionOnSet(w, U) = w[x] + SumFunctionOnSet(w, U \ {x})
  BY <1>2, <1>3, SumTakesOut
<1>11. SumFunctionOnSet(w, U \cup T) = w[x] + SumFunctionOnSet(w, (U \ {x}) \cup T)
  BY <1>2, <1>3, <1>7, SumTakesOut
<1> HIDE DEF Bad
<1>12. PICK a, b, c : a = w[x] /\ b = SumFunctionOnSet(w, U \ {x}) /\ c = SumFunctionOnSet(w, T)
  OBVIOUS
<1>13. a \in Int /\ b \in Int /\ c \in Int
  BY <1>4, <1>9, <1>12
<1>14. a + (b + c) # (a + b) + c
  BY <1>2, <1>8, <1>10, <1>11, <1>12, Zenon
<1> QED
  BY <1>13, <1>14

(* A sum stays what it is when every member is replaced by another one with its value. *)
LEMMA SumMoves ==
  ASSUME NEW v, NEW w, NEW h, NEW S, IsFiniteSet(S), \A x \in S : v[x] \in Int /\ w[h[x]] = v[x],
         \A x, y \in S : h[x] = h[y] => x = y
  PROVE  SumFunctionOnSet(v, S) = SumFunctionOnSet(w, {h[x] : x \in S})
<1> SUFFICES ASSUME SumFunctionOnSet(v, S) # SumFunctionOnSet(w, {h[x] : x \in S})
             PROVE  FALSE
  OBVIOUS
<1> DEFINE Bad == {U \in SUBSET S : SumFunctionOnSet(v, U) # SumFunctionOnSet(w, {h[x] : x \in U})}
<1>1. PICK U \in Bad : \A V \in Bad : V \subseteq U => V = U
  <2>1. Bad \subseteq SUBSET S /\ S \in Bad
    OBVIOUS
  <2> HIDE DEF Bad
  <2>2. Bad # {}
    BY <2>1
  <2> QED
    BY <2>1, <2>2, SmallestExists
<1>2. U \in SUBSET S /\ SumFunctionOnSet(v, U) # SumFunctionOnSet(w, {h[x] : x \in U})
  OBVIOUS
<1>3. PICK I : I = {h[x] : x \in U}
  OBVIOUS
<1>4. IsFiniteSet(U) /\ IsFiniteSet(I)
  <2>1. IsFiniteSet(U)
    BY <1>2, FS_Subset
  <2>2. PICK k : k = [x \in U |-> h[x]]
    OBVIOUS
  <2>3. k \in Surjection(U, I)
    BY <1>3, <2>2 DEF Surjection
  <2> QED
    BY <2>1, <2>3, FS_Surjection
<1>5. \A y \in I : w[y] \in Int
  BY <1>2, <1>3
<1>6. U # {}
  <2>1. SumFunctionOnSet(v, {}) = 0 /\ SumFunctionOnSet(w, {}) = 0
    BY <1>4, SumUnfolds
  <2>2. CASE U = {}
    <3>1. I = {}
      BY <1>3, <2>2
    <3> QED
      BY <1>2, <1>3, <2>1, <2>2, <3>1, Zenon
  <2> QED
    BY <2>2
<1>7. PICK x \in U : TRUE
  BY <1>6
<1>8. U \ {x} \in SUBSET S /\ U \ {x} # U /\ h[x] \in I
  BY <1>2, <1>3
<1>9. I \ {h[x]} = {h[y] : y \in U \ {x}}
  BY <1>2, <1>3
<1>10. SumFunctionOnSet(v, U \ {x}) = SumFunctionOnSet(w, I \ {h[x]})
  BY <1>1, <1>8, <1>9
<1>11. SumFunctionOnSet(v, U) = v[x] + SumFunctionOnSet(v, U \ {x})
  BY <1>2, <1>4, SumTakesOut
<1>12. SumFunctionOnSet(w, I) = w[h[x]] + SumFunctionOnSet(w, I \ {h[x]})
  BY <1>4, <1>5, <1>8, SumTakesOut
<1>13. w[h[x]] = v[x]
  BY <1>2
<1> HIDE DEF Bad
<1> QED
  BY <1>2, <1>3, <1>10, <1>11, <1>12, <1>13, Zenon

(* Equal values have equal sums. *)
LEMMA SumsAreEqual ==
  ASSUME NEW v, NEW w, NEW S, IsFiniteSet(S), \A x \in S : v[x] \in Int /\ w[x] = v[x]
  PROVE  SumFunctionOnSet(v, S) = SumFunctionOnSet(w, S)
<1>1. PICK h : h = [x \in S |-> x]
  OBVIOUS
<1>2. {h[x] : x \in S} = S /\ \A x \in S : h[x] = x
  BY <1>1
<1>3. SumFunctionOnSet(v, S) = SumFunctionOnSet(w, {h[x] : x \in S})
  BY <1>2, SumMoves
<1> QED
  BY <1>2, <1>3, Zenon

(* A sum of naturals is one. *)
LEMMA SumIsNatural ==
  ASSUME NEW w, NEW S, IsFiniteSet(S), \A x \in S : w[x] \in Nat
  PROVE  SumFunctionOnSet(w, S) \in Nat
<1> SUFFICES ASSUME SumFunctionOnSet(w, S) \notin Nat
             PROVE  FALSE
  OBVIOUS
<1> DEFINE Bad == {T \in SUBSET S : SumFunctionOnSet(w, T) \notin Nat}
<1>1. PICK T \in Bad : \A U \in Bad : U \subseteq T => U = T
  <2>1. Bad \subseteq SUBSET S /\ S \in Bad
    OBVIOUS
  <2> HIDE DEF Bad
  <2>2. Bad # {}
    BY <2>1
  <2> QED
    BY <2>1, <2>2, SmallestExists
<1>2. T \in SUBSET S /\ SumFunctionOnSet(w, T) \notin Nat /\ IsFiniteSet(T)
  BY FS_Subset
<1>3. T # {} /\ SumFunctionOnSet(w, T) = w[Some(T)] + SumFunctionOnSet(w, T \ {Some(T)})
  <2>1. SumFunctionOnSet(w, {}) = 0 /\ (T # {} => SumFunctionOnSet(w, T) = w[Some(T)] + SumFunctionOnSet(w, T \ {Some(T)}))
    BY <1>2, SumUnfolds
  <2>2. 0 \in Nat
    OBVIOUS
  <2> QED
    BY <1>2, <2>1, <2>2, Zenon
<1>4. Some(T) \in T
  BY <1>3, SomeIsIn
<1>5. SumFunctionOnSet(w, T \ {Some(T)}) \in Nat
  BY <1>1, <1>2, <1>4
<1> QED
  BY <1>2, <1>3, <1>4, <1>5

(* And does not fall when members are added. *)
LEMMA SumGrows ==
  ASSUME NEW w, NEW T, IsFiniteSet(T), \A x \in T : w[x] \in Nat, NEW S \in SUBSET T
  PROVE  SumFunctionOnSet(w, S) <= SumFunctionOnSet(w, T)
<1>1. PICK U : U = T \ S
  OBVIOUS
<1>2. IsFiniteSet(S) /\ IsFiniteSet(U) /\ S \cap U = {} /\ S \cup U = T
  BY <1>1, FS_Subset
<1>3. SumFunctionOnSet(w, S) \in Nat /\ SumFunctionOnSet(w, U) \in Nat
  BY <1>1, <1>2, SumIsNatural
<1>4. SumFunctionOnSet(w, S \cup U) = SumFunctionOnSet(w, S) + SumFunctionOnSet(w, U)
  BY <1>1, <1>2, SumJoins
<1>5. PICK a, b, c : a = SumFunctionOnSet(w, S) /\ b = SumFunctionOnSet(w, U) /\ c = SumFunctionOnSet(w, T)
  OBVIOUS
<1>6. c = a + b
  BY <1>2, <1>4, <1>5, Zenon
<1> QED
  BY <1>3, <1>5, <1>6

(* Nor when values rise. *)
LEMMA SumIsMonotone ==
  ASSUME NEW v, NEW w, NEW S, IsFiniteSet(S), \A x \in S : v[x] \in Nat /\ w[x] \in Nat /\ v[x] <= w[x]
  PROVE  SumFunctionOnSet(v, S) <= SumFunctionOnSet(w, S)
<1> SUFFICES ASSUME ~(SumFunctionOnSet(v, S) <= SumFunctionOnSet(w, S))
             PROVE  FALSE
  OBVIOUS
<1> DEFINE Bad == {T \in SUBSET S : ~(SumFunctionOnSet(v, T) <= SumFunctionOnSet(w, T))}
<1>1. PICK T \in Bad : \A U \in Bad : U \subseteq T => U = T
  <2>1. Bad \subseteq SUBSET S /\ S \in Bad
    OBVIOUS
  <2> HIDE DEF Bad
  <2>2. Bad # {}
    BY <2>1
  <2> QED
    BY <2>1, <2>2, SmallestExists
<1>2. T \in SUBSET S /\ ~(SumFunctionOnSet(v, T) <= SumFunctionOnSet(w, T)) /\ IsFiniteSet(T)
  BY FS_Subset
<1>3. T # {}
  <2>1. SumFunctionOnSet(v, {}) = 0 /\ SumFunctionOnSet(w, {}) = 0
    BY <1>2, SumUnfolds
  <2> QED
    BY <1>2, <2>1
<1>4. PICK x \in T : TRUE
  BY <1>3
<1>5. PICK U : U = T \ {x}
  OBVIOUS
<1>6. IsFiniteSet(U) /\ U \in SUBSET S /\ U \subseteq T /\ U # T
  BY <1>2, <1>4, <1>5, FS_Subset
<1>7. SumFunctionOnSet(v, U) <= SumFunctionOnSet(w, U)
  BY <1>1, <1>6
<1>8. SumFunctionOnSet(v, T) = v[x] + SumFunctionOnSet(v, U) /\ SumFunctionOnSet(w, T) = w[x] + SumFunctionOnSet(w, U)
  BY <1>2, <1>4, <1>5, SumTakesOut
<1>9. SumFunctionOnSet(v, U) \in Nat /\ SumFunctionOnSet(w, U) \in Nat
  BY <1>6, SumIsNatural
<1> HIDE DEF Bad
<1>10. v[x] \in Nat /\ w[x] \in Nat /\ v[x] <= w[x]
  BY <1>2, <1>4
<1> QED
  BY <1>2, <1>7, <1>8, <1>9, <1>10

(* Where every value is 0 the sum is. *)
LEMMA SumOfNothing ==
  ASSUME NEW w, NEW S, IsFiniteSet(S), \A x \in S : w[x] = 0
  PROVE  SumFunctionOnSet(w, S) = 0
<1> SUFFICES ASSUME SumFunctionOnSet(w, S) # 0
             PROVE  FALSE
  OBVIOUS
<1> DEFINE Bad == {T \in SUBSET S : SumFunctionOnSet(w, T) # 0}
<1>1. PICK T \in Bad : \A U \in Bad : U \subseteq T => U = T
  <2>1. Bad \subseteq SUBSET S /\ S \in Bad
    OBVIOUS
  <2> HIDE DEF Bad
  <2>2. Bad # {}
    BY <2>1
  <2> QED
    BY <2>1, <2>2, SmallestExists
<1>2. T \in SUBSET S /\ SumFunctionOnSet(w, T) # 0 /\ IsFiniteSet(T)
  BY FS_Subset
<1>3. T # {} /\ SumFunctionOnSet(w, T) = w[Some(T)] + SumFunctionOnSet(w, T \ {Some(T)})
  BY <1>2, SumUnfolds
<1>4. Some(T) \in T
  BY <1>3, SomeIsIn
<1>5. SumFunctionOnSet(w, T \ {Some(T)}) = 0
  BY <1>1, <1>2, <1>4
<1> QED
  BY <1>2, <1>3, <1>4, <1>5

(* What a function makes of a finite set is finite. *)
LEMMA ImageIsFinite ==
  ASSUME NEW S, IsFiniteSet(S), NEW h
  PROVE  IsFiniteSet({h[x] : x \in S})
<1>1. PICK k, T : k = [x \in S |-> h[x]] /\ T = {h[x] : x \in S}
  OBVIOUS
<1>2. k \in Surjection(S, T)
  BY <1>1 DEF Surjection
<1>3. IsFiniteSet(T)
  BY <1>2, FS_Surjection
<1> QED
  BY <1>1, <1>3

(* A finite set of naturals has a greatest member. *)
HasGreatest(U) == \E x \in U : \A y \in U : x >= y

(* And it is the one that Max names. *)
LEMMA GreatestIsIn ==
  ASSUME NEW S, IsFiniteSet(S), \A x \in S : x \in Nat, S # {}
  PROVE  Max(S) \in S /\ \A y \in S : Max(S) >= y
<1>1. HasGreatest(S)
  <2> SUFFICES ASSUME ~HasGreatest(S)
               PROVE  FALSE
    OBVIOUS
  <2> DEFINE Bad == {U \in SUBSET S : U # {} /\ ~HasGreatest(U)}
  <2>1. PICK U \in Bad : \A V \in Bad : V \subseteq U => V = U
    <3>1. Bad \subseteq SUBSET S /\ S \in Bad
      OBVIOUS
    <3> HIDE DEF Bad
    <3>2. Bad # {}
      BY <3>1
    <3> QED
      BY <3>1, <3>2, SmallestExists
  <2>2. PICK x \in U : TRUE
    OBVIOUS
  <2>3. CASE U \ {x} = {}
    <3>1. \A y \in U : y = x
      BY <2>3
    <3> QED
      BY <2>1, <2>2, <3>1 DEF HasGreatest
  <2>4. CASE U \ {x} # {}
    <3>1. HasGreatest(U \ {x})
      <4>1. PICK V : V = U \ {x}
        OBVIOUS
      <4>2. V \in SUBSET S /\ V \subseteq U /\ V # U /\ V # {}
        BY <2>1, <2>2, <2>4, <4>1
      <4>3. HasGreatest(V)
        BY <2>1, <4>2
      <4> QED
        BY <4>1, <4>3
    <3>2. PICK z \in U \ {x} : \A y \in U \ {x} : z >= y
      BY <3>1 DEF HasGreatest
    <3>3. CASE x >= z
      <4>1. \A y \in U : x >= y
        BY <3>2, <3>3
      <4> QED
        BY <2>1, <4>1 DEF HasGreatest
    <3>4. CASE ~(x >= z)
      <4>1. \A y \in U : z >= y
        BY <3>2, <3>4
      <4> QED
        BY <2>1, <3>2, <4>1 DEF HasGreatest
    <3> QED
      BY <3>3, <3>4
  <2> QED
    BY <2>3, <2>4
<1> QED
  BY <1>1, Zenon DEF Max, HasGreatest

-----------------------------------------------------------------------------
(* The rows of observations.db                                             *)

(* What a row's two counters hold. *)
Counts == [seen : Int, drilled : Int]

(* Adding and taking off are one the inverse of the other. *)
LEMMA PlusIsSound ==
  ASSUME NEW a \in Counts, NEW b \in Counts
  PROVE  /\ Plus(a, b) \in Counts /\ Minus(a, b) \in Counts /\ NoCount \in Counts
         /\ Plus(a, NoCount) = a /\ Plus(a, b) = Plus(b, a) /\ Minus(Plus(a, b), b) = a
BY DEF Plus, Minus, NoCount, Counts

(* And the order of additions does not matter. *)
LEMMA PlusAssociates ==
  ASSUME NEW a \in Counts, NEW b \in Counts, NEW c \in Counts
  PROVE  /\ Plus(a, Plus(b, c)) = Plus(Plus(a, b), c)
         /\ Plus(Plus(a, b), c) = Plus(Plus(a, c), b)
         /\ Minus(Plus(a, Plus(b, c)), c) = Plus(a, b)
BY DEF Plus, Minus, Counts

(* The two columns of a function to counts. *)
Seen(f) == [x \in DOMAIN f |-> f[x].seen]
Drilled(f) == [x \in DOMAIN f |-> f[x].drilled]

(* The sum of counts is made of the sums of its columns. *)
LEMMA CountSumIs ==
  ASSUME NEW S, IsFiniteSet(S), NEW f \in [S -> Counts]
  PROVE  /\ \E u, v : /\ CountSum(f) = [seen |-> SumFunctionOnSet(u, S), drilled |-> SumFunctionOnSet(v, S)]
                      /\ \A x \in S : u[x] = f[x].seen /\ u[x] \in Int /\ v[x] = f[x].drilled /\ v[x] \in Int
         /\ CountSum(f) \in Counts
<1>1. DOMAIN f = S /\ DOMAIN Seen(f) = S /\ DOMAIN Drilled(f) = S
  BY DEF Seen, Drilled
<1>2. CountSum(f) = [seen |-> SumFunctionOnSet(Seen(f), S), drilled |-> SumFunctionOnSet(Drilled(f), S)]
  <2>1. CountSum(f) = [seen |-> SumFunction(Seen(f)), drilled |-> SumFunction(Drilled(f))]
    BY Zenon DEF CountSum, Seen, Drilled
  <2>2. SumFunction(Seen(f)) = SumFunctionOnSet(Seen(f), S) /\ SumFunction(Drilled(f)) = SumFunctionOnSet(Drilled(f), S)
    BY <1>1, Zenon DEF SumFunction
  <2> QED
    BY <2>1, <2>2, Zenon
<1>3. \A x \in S : f[x].seen \in Int /\ f[x].drilled \in Int
  BY DEF Counts
<1>4. \A x \in S : Seen(f)[x] = f[x].seen /\ Seen(f)[x] \in Int /\ Drilled(f)[x] = f[x].drilled /\ Drilled(f)[x] \in Int
  BY <1>1, <1>3 DEF Seen, Drilled
<1>5. PICK u, v : u = Seen(f) /\ v = Drilled(f)
  OBVIOUS
<1>6. SumFunctionOnSet(u, S) \in Int /\ SumFunctionOnSet(v, S) \in Int
  BY <1>4, <1>5, SumTyped
<1>7. CountSum(f) = [seen |-> SumFunctionOnSet(u, S), drilled |-> SumFunctionOnSet(v, S)]
  BY <1>2, <1>5, Zenon
<1>8. \A x \in S : u[x] = f[x].seen /\ u[x] \in Int /\ v[x] = f[x].drilled /\ v[x] \in Int
  BY <1>4, <1>5, Zenon
<1>9. CountSum(f) \in Counts
  BY <1>6, <1>7 DEF Counts
<1> QED
  BY <1>7, <1>8, <1>9, Zenon

(* The sum of no counts is none. *)
LEMMA CountSumOfNone ==
  ASSUME NEW f \in [{} -> Counts]
  PROVE  CountSum(f) = NoCount
<1>1. PICK N : N = {} /\ IsFiniteSet(N)
  BY FS_EmptySet
<1>2. f \in [N -> Counts]
  BY <1>1
<1>3. PICK fs, fd :
           /\ CountSum(f) = [seen |-> SumFunctionOnSet(fs, N), drilled |-> SumFunctionOnSet(fd, N)]
           /\ \A x \in N : fs[x] = f[x].seen /\ fs[x] \in Int /\ fd[x] = f[x].drilled /\ fd[x] \in Int
  <2>1. IsFiniteSet(N)
    BY <1>1
  <2> QED
    BY <1>2, <2>1, CountSumIs
<1>4. SumFunctionOnSet(fs, N) = 0 /\ SumFunctionOnSet(fd, N) = 0
  BY <1>1, SumUnfolds
<1> QED
  BY <1>3, <1>4, Zenon DEF NoCount

(* Two sets of ledger rows bring what each of them brings. *)
LEMMA CountSumJoins ==
  ASSUME NEW S, IsFiniteSet(S), NEW T, IsFiniteSet(T), S \cap T = {},
         NEW f \in [S -> Counts], NEW g \in [T -> Counts], NEW h \in [S \cup T -> Counts],
         \A x \in S : h[x] = f[x], \A x \in T : h[x] = g[x]
  PROVE  CountSum(h) = Plus(CountSum(f), CountSum(g))
<1>2. PICK U : U = S \cup T /\ IsFiniteSet(U)
  BY FS_Union
<1>3. PICK fs, fd :
           /\ CountSum(f) = [seen |-> SumFunctionOnSet(fs, S), drilled |-> SumFunctionOnSet(fd, S)]
           /\ \A x \in S : fs[x] = f[x].seen /\ fs[x] \in Int /\ fd[x] = f[x].drilled /\ fd[x] \in Int
  BY CountSumIs
<1>4. PICK gs, gd :
           /\ CountSum(g) = [seen |-> SumFunctionOnSet(gs, T), drilled |-> SumFunctionOnSet(gd, T)]
           /\ \A x \in T : gs[x] = g[x].seen /\ gs[x] \in Int /\ gd[x] = g[x].drilled /\ gd[x] \in Int
  BY CountSumIs
<1>5. PICK hs, hd :
           /\ CountSum(h) = [seen |-> SumFunctionOnSet(hs, U), drilled |-> SumFunctionOnSet(hd, U)]
           /\ \A x \in U : hs[x] = h[x].seen /\ hs[x] \in Int /\ hd[x] = h[x].drilled /\ hd[x] \in Int
  <2>1. h \in [U -> Counts]
    BY <1>2
  <2> QED
    BY <1>2, <2>1, CountSumIs
<1>6. \A x \in S : hs[x] = fs[x] /\ hd[x] = fd[x] /\ hs[x] \in Int /\ hd[x] \in Int
  BY <1>2, <1>3, <1>5
<1>7. \A x \in T : hs[x] = gs[x] /\ hd[x] = gd[x] /\ hs[x] \in Int /\ hd[x] \in Int
  BY <1>2, <1>4, <1>5
<1>8. SumFunctionOnSet(hs, S) = SumFunctionOnSet(fs, S) /\ SumFunctionOnSet(hd, S) = SumFunctionOnSet(fd, S)
  BY <1>6, SumsAreEqual
<1>9. SumFunctionOnSet(hs, T) = SumFunctionOnSet(gs, T) /\ SumFunctionOnSet(hd, T) = SumFunctionOnSet(gd, T)
  BY <1>7, SumsAreEqual
<1>10. /\ SumFunctionOnSet(hs, S \cup T) = SumFunctionOnSet(hs, S) + SumFunctionOnSet(hs, T)
       /\ SumFunctionOnSet(hd, S \cup T) = SumFunctionOnSet(hd, S) + SumFunctionOnSet(hd, T)
  BY <1>6, <1>7, SumJoins
<1> QED
  BY <1>2, <1>3, <1>4, <1>5, <1>8, <1>9, <1>10 DEF Plus

(* And ledger rows that are replaced one for one by rows of the same counts bring the same. *)
LEMMA CountSumMoves ==
  ASSUME NEW S, IsFiniteSet(S), NEW h, \A x, y \in S : h[x] = h[y] => x = y,
         NEW T, \A x \in S : h[x] \in T, \A y \in T : \E x \in S : y = h[x],
         NEW f \in [S -> Counts], NEW g \in [T -> Counts], \A x \in S : g[h[x]] = f[x]
  PROVE  CountSum(f) = CountSum(g)
<1>2. IsFiniteSet(T)
  <2>1. PICK k : k = [x \in S |-> h[x]]
    OBVIOUS
  <2>2. k \in Surjection(S, T)
    BY <2>1 DEF Surjection
  <2> QED
    BY <2>2, FS_Surjection
<1>3. PICK fs, fd :
           /\ CountSum(f) = [seen |-> SumFunctionOnSet(fs, S), drilled |-> SumFunctionOnSet(fd, S)]
           /\ \A x \in S : fs[x] = f[x].seen /\ fs[x] \in Int /\ fd[x] = f[x].drilled /\ fd[x] \in Int
  BY CountSumIs
<1>4. PICK gs, gd :
           /\ CountSum(g) = [seen |-> SumFunctionOnSet(gs, T), drilled |-> SumFunctionOnSet(gd, T)]
           /\ \A x \in T : gs[x] = g[x].seen /\ gs[x] \in Int /\ gd[x] = g[x].drilled /\ gd[x] \in Int
  <2>1. PICK U : U = T
    OBVIOUS
  <2>2. IsFiniteSet(U) /\ g \in [U -> Counts]
    BY <1>2, <2>1, Zenon
  <2>3. \E gs, gd :
           /\ CountSum(g) = [seen |-> SumFunctionOnSet(gs, U), drilled |-> SumFunctionOnSet(gd, U)]
           /\ \A x \in U : gs[x] = g[x].seen /\ gs[x] \in Int /\ gd[x] = g[x].drilled /\ gd[x] \in Int
    BY <2>2, CountSumIs
  <2> QED
    BY <2>1, <2>3, Zenon
<1>5. T = {h[x] : x \in S}
  OBVIOUS
<1>6. \A x \in S : fs[x] \in Int /\ gs[h[x]] = fs[x] /\ fd[x] \in Int /\ gd[h[x]] = fd[x]
  BY <1>3, <1>4
<1>7. SumFunctionOnSet(fs, S) = SumFunctionOnSet(gs, {h[x] : x \in S})
  BY <1>6, SumMoves
<1>8. SumFunctionOnSet(fd, S) = SumFunctionOnSet(gd, {h[x] : x \in S})
  BY <1>6, SumMoves
<1> QED
  BY <1>3, <1>4, <1>5, <1>7, <1>8, Zenon

(* A row of the table, put together of its columns. *)
IsRow(r) ==
  /\ r = [kind |-> r.kind, count |-> r.count, last |-> r.last, archived |-> r.archived, into |-> r.into, members |-> r.members]
  /\ r.kind \in {"none", "observation", "theme"} /\ r.count \in Counts /\ r.last \in Nat
  /\ r.archived \in BOOLEAN /\ r.into \in Id \cup {0}

(* A row of merge_events. *)
LedgerRow == [fold : Nat, survivor : Id, member : Id, count : Counts, at : Nat, prev : Nat, open : BOOLEAN]

(* Rows and ledger are of their types, at whatever number of recalls and folds. *)
StoreTyped ==
  /\ DOMAIN obs = Id /\ \A i \in Id : IsRow(obs[i])
  /\ own \in [Id -> Counts]
  /\ IsFiniteSet(ledger) /\ ledger \subseteq LedgerRow
  /\ folds \in Nat /\ epoch \in Nat

(* A fold writes one row for a member, never the survivor itself, onto a row that exists; what is live is under nothing. *)
LedgerIsSound ==
  /\ \A e \in ledger : e.fold <= folds /\ obs[e.survivor].kind # "none" /\ e.survivor # e.member
  /\ \A e, f \in ledger : e.fold = f.fold /\ e.member = f.member => e = f
  /\ \A i \in Id : ~obs[i].archived => obs[i].into = 0

(* A pass stamps its folds with a second. *)
PassesAreTimed == DOMAIN pass = Job /\ \A j \in Job : DOMAIN pass[j] = {"on", "plan", "at"} /\ pass[j].at \in Nat

(* What the steps that write rows keep: counts and ledger agree, and a fold can be taken back. *)
RowsAreKept == StoreTyped /\ LedgerIsSound /\ CountsAreLedgered /\ FoldsAreReversible

StoreInv == RowsAreKept /\ PassesAreTimed

(* The counts that the open folds into a row brought. *)
Brought(i) == [e \in OpenInto(i) |-> e.count]

(* They are finitely many and have a sum. *)
LEMMA BroughtIsTyped ==
  ASSUME StoreTyped, NEW i \in Id
  PROVE  /\ IsFiniteSet(OpenInto(i)) /\ Brought(i) \in [OpenInto(i) -> Counts]
         /\ CountSum(Brought(i)) \in Counts
<1>1. IsFiniteSet(OpenInto(i))
  BY FS_Subset DEF StoreTyped, OpenInto
<1>2. Brought(i) \in [OpenInto(i) -> Counts]
  BY DEF StoreTyped, OpenInto, Brought, LedgerRow
<1>3. CountSum(Brought(i)) \in Counts
  BY <1>1, <1>2, CountSumIs
<1> QED
  BY <1>1, <1>2, <1>3

(* Among finitely many ledger rows one is the earliest. *)
HasFirst(U) == \E e \in U : \A f \in U : ~Before(f, e)

(* And it is the one that EarliestOf names. *)
LEMMA EarliestIsIn ==
  ASSUME NEW S, IsFiniteSet(S), S \subseteq LedgerRow, S # {}
  PROVE  EarliestOf(S) \in S
<1>1. HasFirst(S)
  <2> SUFFICES ASSUME ~HasFirst(S)
               PROVE  FALSE
    OBVIOUS
  <2> DEFINE Bad == {U \in SUBSET S : U # {} /\ ~HasFirst(U)}
  <2>1. PICK U \in Bad : \A V \in Bad : V \subseteq U => V = U
    <3>1. Bad \subseteq SUBSET S /\ S \in Bad
      OBVIOUS
    <3> HIDE DEF Bad
    <3>2. Bad # {}
      BY <3>1
    <3> QED
      BY <3>1, <3>2, SmallestExists
  <2>2. PICK x \in U : TRUE
    OBVIOUS
  <2>3. \A e \in U : e.at \in Nat /\ e.fold \in Nat
    BY DEF LedgerRow
  <2>4. CASE U \ {x} = {}
    <3>1. \A y \in U : y = x
      BY <2>4
    <3>2. ~Before(x, x)
      BY <2>2, <2>3 DEF Before
    <3> QED
      BY <2>1, <2>2, <3>1, <3>2 DEF HasFirst
  <2>5. CASE U \ {x} # {}
    <3>1. HasFirst(U \ {x})
      <4>1. PICK V : V = U \ {x}
        OBVIOUS
      <4>2. V \in SUBSET S /\ V \subseteq U /\ V # U /\ V # {}
        BY <2>1, <2>2, <2>5, <4>1
      <4>3. HasFirst(V)
        BY <2>1, <4>2
      <4> QED
        BY <4>1, <4>3
    <3>2. PICK z \in U \ {x} : \A y \in U \ {x} : ~Before(y, z)
      BY <3>1 DEF HasFirst
    <3>3. CASE Before(x, z)
      <4>1. \A y \in U : ~Before(y, x)
        BY <2>2, <2>3, <3>2, <3>3 DEF Before
      <4> QED
        BY <2>1, <2>2, <4>1 DEF HasFirst
    <3>4. CASE ~Before(x, z)
      <4>1. \A y \in U : ~Before(y, z)
        BY <3>2, <3>4
      <4> QED
        BY <2>1, <3>2, <4>1 DEF HasFirst
    <3> QED
      BY <3>3, <3>4
  <2> QED
    BY <2>4, <2>5
<1> QED
  BY <1>1, Zenon DEF EarliestOf, HasFirst

(* A table begins so: nothing recalled, nothing folded. *)
LEMMA StoreBegins ==
  ASSUME StoreInit
  PROVE  StoreInv
<1> USE DEF StoreInit
<1>1. NoCount \in Counts /\ Plus(NoCount, NoCount) = NoCount
  BY DEF NoCount, Counts, Plus
<1>2. StoreTyped
  <2>1. IsFiniteSet(ledger) /\ ledger \subseteq LedgerRow
    BY FS_EmptySet
  <2>2. \A i \in Id : IsRow(obs[i])
    BY <1>1, StoreAssumption DEF IsRow, NotYet, FreshRow
  <2> QED
    BY <1>1, <2>1, <2>2 DEF StoreTyped
<1>3. LedgerIsSound
  BY DEF LedgerIsSound, NotYet, FreshRow
<1>4. CountsAreLedgered
  <2> SUFFICES ASSUME NEW i \in Id
               PROVE  obs[i].count = Plus(own[i], CountSum(Brought(i)))
    BY DEF CountsAreLedgered, Brought
  <2>1. Brought(i) \in [{} -> Counts]
    BY DEF Brought, OpenInto
  <2>2. CountSum(Brought(i)) = NoCount
    BY <2>1, CountSumOfNone
  <2>3. obs[i].count = NoCount /\ own[i] = NoCount
    BY DEF NotYet, FreshRow
  <2> QED
    BY <1>1, <2>2, <2>3, Zenon
<1>5. FoldsAreReversible
  BY DEF FoldsAreReversible, Stored, NotYet, FreshRow
<1>6. PassesAreTimed
  BY DEF PassesAreTimed, NoPass
<1> QED
  BY <1>2, <1>3, <1>4, <1>5, <1>6 DEF StoreInv, RowsAreKept

(* What leaves the rows, the ledger and the recalls as they are keeps them. *)
LEMMA UntouchedRows ==
  ASSUME RowsAreKept, UNCHANGED <<obs, ledger, folds, own>>, epoch' \in Nat
  PROVE  RowsAreKept'
<1>1. StoreTyped'
  BY DEF RowsAreKept, StoreTyped, IsRow
<1>2. LedgerIsSound'
  BY DEF RowsAreKept, LedgerIsSound
<1>3. CountsAreLedgered'
  BY DEF RowsAreKept, CountsAreLedgered, OpenInto
<1>4. FoldsAreReversible'
  BY DEF RowsAreKept, FoldsAreReversible, OpenInto, Stored, IsTheme
<1> QED
  BY <1>1, <1>2, <1>3, <1>4 DEF RowsAreKept

(* A recall adds to the row and to its history alike (bumpRetrieval). *)
LEMMA BumpStep ==
  ASSUME RowsAreKept, NEW i \in Id, NEW source, Bump(i, source)
  PROVE  RowsAreKept'
<1> DEFINE one == IF source = "drill" THEN [seen |-> 0, drilled |-> 1] ELSE [seen |-> 1, drilled |-> 0]
<1>1. PICK c \in Counts : c = one
  <2>1. [seen |-> 0, drilled |-> 1] \in Counts /\ [seen |-> 1, drilled |-> 0] \in Counts
    BY DEF Counts
  <2> QED
    BY <2>1, Zenon
<1>2. /\ obs' = [obs EXCEPT ![i].count = Plus(@, c), ![i].last = epoch]
      /\ own' = [own EXCEPT ![i] = Plus(@, c)]
      /\ epoch' = epoch + 1 /\ UNCHANGED <<ledger, folds>>
  BY <1>1, Zenon DEF Bump
<1> HIDE DEF one
<1>3. StoreTyped
  BY DEF RowsAreKept
<1>4. obs[i].count \in Counts /\ own[i] \in Counts /\ Plus(obs[i].count, c) \in Counts /\ Plus(own[i], c) \in Counts
  BY <1>3, PlusIsSound DEF StoreTyped, IsRow
<1>5. DOMAIN obs' = Id /\ \A k \in Id \ {i} : obs'[k] = obs[k]
  BY <1>2, <1>3 DEF StoreTyped
<1>6. obs'[i] = [kind |-> obs[i].kind, count |-> Plus(obs[i].count, c), last |-> epoch, archived |-> obs[i].archived,
                 into |-> obs[i].into, members |-> obs[i].members]
  <2>1. PICK r, n : r = obs[i] /\ n = Plus(obs[i].count, c)
    OBVIOUS
  <2>2. obs'[i] = [r EXCEPT !.count = n, !.last = epoch]
    BY <1>2, <1>3, <2>1 DEF StoreTyped
  <2>3. r = [kind |-> r.kind, count |-> r.count, last |-> r.last, archived |-> r.archived, into |-> r.into, members |-> r.members]
    BY <1>3, <2>1 DEF StoreTyped, IsRow
  <2>4. obs'[i] = [kind |-> r.kind, count |-> n, last |-> epoch, archived |-> r.archived, into |-> r.into, members |-> r.members]
    BY <2>2, <2>3
  <2> QED
    BY <2>1, <2>4, Zenon
<1>7. own' \in [Id -> Counts] /\ own'[i] = Plus(own[i], c) /\ \A k \in Id \ {i} : own'[k] = own[k]
  BY <1>2, <1>3, <1>4 DEF StoreTyped
<1>8. StoreTyped'
  <2>1. IsRow(obs'[i])
    BY <1>3, <1>4, <1>6 DEF StoreTyped, IsRow
  <2>2. \A k \in Id : IsRow(obs'[k])
    BY <1>3, <1>5, <2>1 DEF StoreTyped
  <2> QED
    BY <1>2, <1>3, <1>5, <1>7, <2>2 DEF StoreTyped, IsRow
<1>9. \A k \in Id : /\ obs'[k].kind = obs[k].kind /\ obs'[k].archived = obs[k].archived
                    /\ obs'[k].into = obs[k].into
  BY <1>5, <1>6
<1>10. LedgerIsSound'
  BY <1>2, <1>3, <1>9 DEF RowsAreKept, LedgerIsSound, StoreTyped, LedgerRow
<1>11. CountsAreLedgered'
  <2> SUFFICES ASSUME NEW k \in Id
               PROVE  (obs[k].count = Plus(own[k], CountSum(Brought(k))))'
    BY DEF CountsAreLedgered, Brought
  <2>1. Brought(k)' = Brought(k)
    BY <1>2 DEF Brought, OpenInto
  <2>2. obs[k].count = Plus(own[k], CountSum(Brought(k)))
    BY DEF RowsAreKept, CountsAreLedgered, Brought
  <2>3. PICK b \in Counts : b = CountSum(Brought(k))
    BY <1>3, BroughtIsTyped
  <2>4. Plus(Plus(own[i], b), c) = Plus(Plus(own[i], c), b)
    BY <1>4, PlusAssociates
  <2>5. CASE k = i
    BY <1>6, <1>7, <2>1, <2>2, <2>3, <2>4, <2>5
  <2>6. CASE k # i
    BY <1>5, <1>7, <2>1, <2>2, <2>6
  <2> QED
    BY <2>5, <2>6
<1>12. FoldsAreReversible'
  BY <1>2, <1>3, <1>9 DEF RowsAreKept, FoldsAreReversible, StoreTyped, IsRow, OpenInto, Stored, IsTheme
<1> QED
  BY <1>8, <1>10, <1>11, <1>12 DEF RowsAreKept

(* The latest of finitely many recencies is one. *)
LEMMA LaterIsNatural ==
  ASSUME NEW S, IsFiniteSet(S), \A x \in S : x \in Nat
  PROVE  Later(S) \in Nat
<1>1. CASE S = {}
  BY <1>1 DEF Later
<1>2. CASE S # {}
  BY <1>2, GreatestIsIn DEF Later
<1> QED
  BY <1>1, <1>2

(* So is that of finitely many rows, with or without one more. *)
LEMMA LatestIsNatural ==
  ASSUME StoreTyped, NEW T \in SUBSET Id
  PROVE  /\ Later({obs[m].last : m \in T}) \in Nat
         /\ \A n \in Nat : Later({n} \cup {obs[m].last : m \in T}) \in Nat
<1>1. PICK L : L = {obs[m].last : m \in T}
  OBVIOUS
<1>2. \A x \in L : x \in Nat
  BY <1>1 DEF StoreTyped, IsRow
<1>3. IsFiniteSet(L)
  <2>1. IsFiniteSet(T)
    BY FS_Subset, StoreAssumption
  <2>2. PICK h : h = [m \in T |-> obs[m].last]
    OBVIOUS
  <2>3. {h[m] : m \in T} = L
    BY <1>1, <2>2
  <2>4. IsFiniteSet({h[m] : m \in T})
    BY <2>1, ImageIsFinite
  <2> QED
    BY <2>3, <2>4
<1>4. Later(L) \in Nat
  BY <1>2, <1>3, LaterIsNatural
<1>5. ASSUME NEW n \in Nat
      PROVE  Later({n} \cup L) \in Nat
  <2>1. IsFiniteSet({n} \cup L)
    BY <1>3, FS_AddElement, FS_Singleton, FS_Union
  <2>2. PICK M : M = {n} \cup L
    OBVIOUS
  <2>3. \A x \in M : x \in Nat
    BY <1>2, <2>2
  <2> QED
    BY <2>1, <2>2, <2>3, LaterIsNatural
<1> QED
  BY <1>1, <1>4, <1>5

(* Columns of their types make a row. *)
LEMMA RowIs ==
  ASSUME NEW k \in {"none", "observation", "theme"}, NEW c \in Counts, NEW l \in Nat, NEW a \in BOOLEAN, NEW n \in Id \cup {0},
         NEW ms, NEW r, r = [kind |-> k, count |-> c, last |-> l, archived |-> a, into |-> n, members |-> ms]
  PROVE  IsRow(r)
<1>1. r.kind = k /\ r.count = c /\ r.last = l /\ r.archived = a /\ r.into = n /\ r.members = ms
  OBVIOUS
<1> QED
  BY <1>1, Zenon DEF IsRow

(* A fold puts on the survivor what its ledger rows say, and archives only what they name (mergeDuplicateGroup). *)
LEMMA MergeStep ==
  ASSUME RowsAreKept, NEW s, NEW ms, NEW at \in Nat, MergeDuplicateGroup(s, ms, at), UNCHANGED <<own, epoch>>
  PROVE  RowsAreKept'
<1> SUFFICES ASSUME ~UNCHANGED <<obs, ledger, folds>>
             PROVE  RowsAreKept'
  BY UntouchedRows DEF RowsAreKept, StoreTyped
<1>1. StoreTyped /\ LedgerIsSound
  BY DEF RowsAreKept
<1>2. PICK T : T = Eligible(s, ms)
  OBVIOUS
<1>3. s \in Stored /\ T # {} /\ T \subseteq Stored /\ s \notin T
  BY <1>2 DEF MergeDuplicateGroup, Eligible
<1>4. s \in Id /\ T \subseteq Id /\ IsFiniteSet(T) /\ obs[s].kind # "none"
  BY <1>3, FS_Subset, StoreAssumption DEF Stored
<1> DEFINE Rec(m) == [fold |-> folds + 1, survivor |-> s, member |-> m, count |-> obs[m].count,
                      at |-> at, prev |-> obs[s].last, open |-> TRUE]
<1>5. PICK f, sum, late :
        f = [m \in T |-> obs[m].count] /\ sum = CountSum(f) /\ late = Later({obs[s].last} \cup {obs[m].last : m \in T})
  OBVIOUS
<1>6. /\ folds' = folds + 1
      /\ ledger' = ledger \cup {Rec(m) : m \in T}
      /\ obs' = [i \in Id |->
                IF i = s THEN [obs[s] EXCEPT !.count = Plus(@, sum), !.members = T, !.last = late]
                ELSE IF i \in T THEN [obs[i] EXCEPT !.archived = TRUE, !.into = s]
                ELSE obs[i]]
  BY <1>2, <1>3, <1>5, Zenon DEF MergeDuplicateGroup
<1>24. folds' = folds + 1 /\ folds \in Nat
  BY <1>1, <1>6 DEF StoreTyped
<1>7. f \in [T -> Counts] /\ sum \in Counts /\ late \in Nat
  <2>1. f \in [T -> Counts]
    BY <1>1, <1>4, <1>5 DEF StoreTyped, IsRow
  <2>2. obs[s].last \in Nat
    BY <1>1, <1>4 DEF StoreTyped, IsRow
  <2>3. late \in Nat
    BY <1>1, <1>4, <1>5, <2>2, LatestIsNatural
  <2> QED
    BY <1>4, <1>5, <2>1, <2>3, CountSumIs
<1>8. \A m \in T : Rec(m) \in LedgerRow
  BY <1>1, <1>4 DEF StoreTyped, IsRow, LedgerRow
<1>9. PICK new, h : h = [m \in T |-> Rec(m)] /\ new = {h[m] : m \in T}
  OBVIOUS
<1>10. /\ new = {Rec(m) : m \in T} /\ \A m \in T : h[m] = Rec(m)
       /\ IsFiniteSet(new) /\ new \subseteq LedgerRow
  <2>1. IsFiniteSet(new)
    <3>1. IsFiniteSet({h[m] : m \in T})
      BY <1>4, ImageIsFinite
    <3> QED
      BY <1>9, <3>1, Zenon
  <2> QED
    BY <1>8, <1>9, <2>1
<1>11. \A e \in new : e.fold = folds + 1 /\ e.survivor = s /\ e.open /\ e.member \in T /\ e = h[e.member]
                      /\ e.count = f[e.member]
  BY <1>5, <1>10
<1>12. /\ obs'[s] = [kind |-> obs[s].kind, count |-> Plus(obs[s].count, sum), last |-> late, archived |-> obs[s].archived,
                     into |-> obs[s].into, members |-> T]
       /\ \A i \in T : obs'[i] = [kind |-> obs[i].kind, count |-> obs[i].count, last |-> obs[i].last, archived |-> TRUE,
                                  into |-> s, members |-> obs[i].members]
       /\ \A i \in Id : i \notin T /\ i # s => obs'[i] = obs[i]
  <2>1. \A i \in Id : obs[i] = [kind |-> obs[i].kind, count |-> obs[i].count, last |-> obs[i].last,
                                archived |-> obs[i].archived, into |-> obs[i].into, members |-> obs[i].members]
    BY <1>1 DEF StoreTyped, IsRow
  <2>2. obs'[s] = [obs[s] EXCEPT !.count = Plus(@, sum), !.members = T, !.last = late]
    BY <1>4, <1>6
  <2>3. \A i \in T : obs'[i] = [obs[i] EXCEPT !.archived = TRUE, !.into = s]
    BY <1>3, <1>4, <1>6
  <2>4. ASSUME NEW i \in T
        PROVE  obs'[i] = [kind |-> obs[i].kind, count |-> obs[i].count, last |-> obs[i].last, archived |-> TRUE,
                          into |-> s, members |-> obs[i].members]
    <3>1. obs'[i] = [obs[i] EXCEPT !.archived = TRUE, !.into = s]
      BY <2>3
    <3>2. obs[i] = [kind |-> obs[i].kind, count |-> obs[i].count, last |-> obs[i].last,
                    archived |-> obs[i].archived, into |-> obs[i].into, members |-> obs[i].members]
      BY <1>4, <2>1
    <3> QED
      BY <3>1, <3>2
  <2>5. obs'[s] = [kind |-> obs[s].kind, count |-> Plus(obs[s].count, sum), last |-> late, archived |-> obs[s].archived,
                   into |-> obs[s].into, members |-> T]
    <3>1. PICK r, n : r = obs[s] /\ n = Plus(obs[s].count, sum)
      OBVIOUS
    <3>2. obs'[s] = [r EXCEPT !.count = n, !.members = T, !.last = late]
      BY <2>2, <3>1, Zenon
    <3>3. r = [kind |-> r.kind, count |-> r.count, last |-> r.last, archived |-> r.archived, into |-> r.into, members |-> r.members]
      BY <1>4, <2>1, <3>1, Zenon
    <3>4. obs'[s] = [kind |-> r.kind, count |-> n, last |-> late, archived |-> r.archived, into |-> r.into, members |-> T]
      BY <3>2, <3>3
    <3> QED
      BY <3>1, <3>4, Zenon
  <2> QED
    BY <1>6, <2>4, <2>5
<1> HIDE DEF Rec
<1>13. ledger' = ledger \cup new
  BY <1>6, <1>10
<1>14. StoreTyped'
  <2>1. DOMAIN obs' = Id
    BY <1>6
  <2>2. obs[s].count \in Counts /\ Plus(obs[s].count, sum) \in Counts
    BY <1>1, <1>4, <1>7, PlusIsSound DEF StoreTyped, IsRow
  <2>3. IsRow(obs[s]) /\ \A i \in T : IsRow(obs[i])
    BY <1>1, <1>4 DEF StoreTyped
  <2>4. IsRow(obs'[s])
    <3>1. PICK c, q : c = Plus(obs[s].count, sum) /\ q = obs'[s]
      OBVIOUS
    <3>2. q = [kind |-> obs[s].kind, count |-> c, last |-> late, archived |-> obs[s].archived, into |-> obs[s].into, members |-> T]
      BY <1>12, <3>1, Zenon
    <3>3. obs[s].kind \in {"none", "observation", "theme"} /\ obs[s].archived \in BOOLEAN /\ obs[s].into \in Id \cup {0} /\ c \in Counts
      BY <2>2, <2>3, <3>1, Zenon DEF IsRow
    <3>4. IsRow(q)
      BY <1>7, <3>2, <3>3, RowIs
    <3> QED
      BY <3>1, <3>4, Zenon
  <2>5. ASSUME NEW i \in T
        PROVE  IsRow(obs'[i])
    <3>1. PICK q, n, a : q = obs'[i] /\ n = s /\ a = TRUE
      OBVIOUS
    <3>2. q = [kind |-> obs[i].kind, count |-> obs[i].count, last |-> obs[i].last, archived |-> a, into |-> n, members |-> obs[i].members]
      BY <1>12, <3>1, Zenon
    <3>3. obs[i].kind \in {"none", "observation", "theme"} /\ obs[i].count \in Counts /\ obs[i].last \in Nat
          /\ a \in BOOLEAN /\ n \in Id \cup {0}
      BY <1>4, <2>3, <3>1, Zenon DEF IsRow
    <3>4. IsRow(q)
      BY <3>2, <3>3, RowIs
    <3> QED
      BY <3>1, <3>4, Zenon
  <2>6. \A i \in Id : IsRow(obs'[i])
    BY <1>1, <1>12, <2>4, <2>5 DEF StoreTyped
  <2>7. IsFiniteSet(ledger') /\ ledger' \subseteq LedgerRow
    BY <1>1, <1>10, <1>13, FS_Union DEF StoreTyped
  <2>8. folds' \in Nat /\ epoch' \in Nat /\ own' \in [Id -> Counts]
    BY <1>1, <1>24 DEF StoreTyped
  <2> QED
    BY <2>1, <2>6, <2>7, <2>8 DEF StoreTyped
<1>15. /\ \A i \in Id : obs'[i].kind = obs[i].kind
       /\ \A i \in Id : i \notin T => obs'[i].archived = obs[i].archived /\ obs'[i].into = obs[i].into
       /\ \A i \in T : obs'[i].archived /\ obs'[i].into = s
       /\ \A i \in Id : i # s => obs'[i].count = obs[i].count
       /\ obs'[s].count = Plus(obs[s].count, sum)
  <2>1. obs'[s].kind = obs[s].kind /\ obs'[s].archived = obs[s].archived /\ obs'[s].into = obs[s].into
        /\ obs'[s].count = Plus(obs[s].count, sum)
    BY <1>12
  <2>2. ASSUME NEW i \in T
        PROVE  obs'[i].kind = obs[i].kind /\ obs'[i].archived /\ obs'[i].into = s /\ obs'[i].count = obs[i].count
    <3>1. obs'[i] = [kind |-> obs[i].kind, count |-> obs[i].count, last |-> obs[i].last, archived |-> TRUE,
                     into |-> s, members |-> obs[i].members]
      BY <1>12
    <3> QED
      BY <3>1
  <2> QED
    BY <1>12, <2>1, <2>2
<1>16. \A e \in ledger : e.fold \in Nat /\ e.fold <= folds /\ e.survivor \in Id /\ e.member \in Id
  BY <1>1 DEF StoreTyped, LedgerRow, LedgerIsSound
<1>17. folds \in Nat
  BY <1>1 DEF StoreTyped
<1>18. new \cap ledger = {}
  BY <1>11, <1>16, <1>17
<1>19. LedgerIsSound'
  <2>1. ASSUME NEW e \in ledger'
        PROVE  e.fold <= folds' /\ obs'[e.survivor].kind # "none" /\ e.survivor # e.member
    <3>1. CASE e \in new
      BY <1>3, <1>4, <1>11, <1>15, <1>24, <3>1
    <3>2. CASE e \in ledger
      <4>1. e.fold \in Nat /\ e.fold <= folds /\ e.survivor \in Id /\ obs[e.survivor].kind # "none"
            /\ e.survivor # e.member
        BY <1>1, <1>16, <3>2 DEF LedgerIsSound
      <4>2. e.fold <= folds'
        BY <1>24, <4>1
      <4> QED
        BY <1>15, <4>1, <4>2
    <3> QED
      BY <1>13, <3>1, <3>2
  <2>2. ASSUME NEW e \in ledger', NEW g \in ledger', e.fold = g.fold, e.member = g.member
        PROVE  e = g
    <3>1. CASE e \in ledger /\ g \in ledger
      BY <1>1, <2>2, <3>1 DEF LedgerIsSound
    <3>2. CASE e \in new /\ g \in new
      BY <1>11, <2>2, <3>2, Zenon
    <3>3. CASE e \in new /\ g \in ledger
      BY <1>11, <1>16, <1>17, <2>2, <3>3
    <3>4. CASE e \in ledger /\ g \in new
      BY <1>11, <1>16, <1>17, <2>2, <3>4
    <3> QED
      BY <1>13, <3>1, <3>2, <3>3, <3>4
  <2>3. \A i \in Id : ~obs'[i].archived => obs'[i].into = 0
    BY <1>1, <1>15 DEF LedgerIsSound
  <2> QED
    BY <2>1, <2>2, <2>3 DEF LedgerIsSound
<1>20. /\ OpenInto(s)' = OpenInto(s) \cup new
       /\ \A i \in Id : i # s => OpenInto(i)' = OpenInto(i)
  BY <1>11, <1>13 DEF OpenInto
<1>21. CountsAreLedgered'
  <2> SUFFICES ASSUME NEW i \in Id
               PROVE  obs'[i].count = Plus(own'[i], CountSum(Brought(i)'))
    BY DEF CountsAreLedgered, Brought
  <2>1. obs[i].count = Plus(own[i], CountSum(Brought(i))) /\ own[i] \in Counts /\ obs[i].count \in Counts
    BY <1>1 DEF RowsAreKept, CountsAreLedgered, Brought, StoreTyped, IsRow
  <2>2. own' = own
    OBVIOUS
  <2>3. CASE i # s
    <3>1. Brought(i)' = Brought(i)
      BY <1>20, <2>3 DEF Brought
    <3> QED
      BY <1>15, <2>1, <2>2, <2>3, <3>1
  <2>4. CASE i = s
    <3>1. PICK O, b, g, k : O = OpenInto(s) /\ b = Brought(s) /\ g = [e \in new |-> e.count] /\ k = Brought(s)'
      OBVIOUS
    <3>2. IsFiniteSet(O) /\ b \in [O -> Counts] /\ CountSum(b) \in Counts /\ O \cap new = {}
      <4>1. O \subseteq ledger
        BY <3>1 DEF OpenInto
      <4> QED
        BY <1>1, <1>4, <1>18, <3>1, <4>1, BroughtIsTyped
    <3>3. k = [e \in O \cup new |-> e.count] /\ b = [e \in O |-> e.count]
      BY <1>20, <3>1 DEF Brought
    <3>4. \A e \in new : e.count \in Counts
      BY <1>10 DEF LedgerRow
    <3>5. g \in [new -> Counts] /\ k \in [O \cup new -> Counts] /\ (\A e \in O : k[e] = b[e]) /\ \A e \in new : k[e] = g[e]
      <4>1. \A e \in O : e.count \in Counts
        BY <3>2, <3>3
      <4>2. g \in [new -> Counts]
        BY <3>1, <3>4
      <4>3. k \in [O \cup new -> Counts]
        BY <3>3, <3>4, <4>1
      <4>4. (\A e \in O : k[e] = b[e]) /\ \A e \in new : k[e] = g[e]
        BY <3>1, <3>3
      <4> QED
        BY <4>2, <4>3, <4>4
    <3>6. CountSum(k) = Plus(CountSum(b), CountSum(g))
      <4>1. IsFiniteSet(new)
        BY <1>10
      <4> QED
        BY <3>2, <3>5, <4>1, CountSumJoins
    <3>7. CountSum(f) = CountSum(g)
      <4>1. \A m \in T : h[m] \in new /\ g[h[m]] = f[m] /\ h[m].member = m
        <5>1. ASSUME NEW m \in T
              PROVE  h[m].member = m
          <6>1. h[m] = Rec(m)
            BY <1>10
          <6> QED
            BY <6>1 DEF Rec
        <5> QED
          BY <1>9, <1>11, <3>1, <5>1
      <4>2. \A m, n \in T : h[m] = h[n] => m = n
        BY <4>1, Zenon
      <4> QED
        <5>1. IsFiniteSet(T) /\ f \in [T -> Counts] /\ g \in [new -> Counts]
          BY <1>4, <1>7, <3>5
        <5>2. \A y \in new : \E x \in T : y = h[x]
          BY <1>11
        <5>3. (\A x \in T : h[x] \in new) /\ \A x \in T : g[h[x]] = f[x]
          BY <4>1
        <5> QED
          BY <4>2, <5>1, <5>2, <5>3, CountSumMoves
    <3>8. Plus(Plus(own[s], CountSum(b)), sum) = Plus(own[s], Plus(CountSum(b), sum))
      BY <1>7, <2>1, <2>4, <3>2, PlusAssociates
    <3>9. obs[s].count = Plus(own[s], CountSum(b)) /\ sum = CountSum(g)
      BY <1>5, <2>1, <2>4, <3>1, <3>7, Zenon
    <3>10. CountSum(k) = Plus(CountSum(b), sum)
      BY <3>6, <3>9, Zenon
    <3> QED
      BY <1>15, <2>2, <2>4, <3>1, <3>8, <3>9, <3>10, Zenon
  <2> QED
    BY <2>3, <2>4
<1>22. FoldsAreReversible'
  <2> SUFFICES ASSUME NEW i \in Id, obs'[i].kind # "none", obs'[i].archived, obs'[i].into # 0, obs'[obs'[i].into].kind # "theme"
               PROVE  \E e \in ledger' : e.survivor = obs'[i].into /\ e.open /\ e.member = i
    BY Zenon DEF FoldsAreReversible, Stored, IsTheme, OpenInto
  <2>1. CASE i \in T
    <3>1. h[i] = Rec(i) /\ h[i] \in new
      BY <1>9, <1>10, <2>1
    <3>2. h[i].member = i
      BY <3>1 DEF Rec
    <3> QED
      BY <1>11, <1>13, <1>15, <2>1, <3>1, <3>2
  <2>2. CASE i \notin T
    <3>1. obs[i].archived /\ obs[i].into # 0 /\ obs'[i].into = obs[i].into /\ obs[i].into \in Id
      BY <1>1, <1>15, <2>2 DEF StoreTyped, IsRow
    <3>2. obs[obs[i].into].kind # "theme" /\ obs[i].kind # "none"
      BY <1>15, <3>1
    <3>3. \E e \in ledger : e.survivor = obs[i].into /\ e.open /\ e.member = i
      BY <3>1, <3>2, Zenon DEF RowsAreKept, FoldsAreReversible, Stored, IsTheme, OpenInto
    <3> QED
      BY <1>13, <3>1, <3>3
  <2> QED
    BY <2>1, <2>2
<1> QED
  BY <1>14, <1>19, <1>21, <1>22 DEF RowsAreKept

(* A theme is a row of its own that no fold went into: its counts are its history (createTheme). *)
LEMMA CreateStep ==
  ASSUME RowsAreKept, NEW t \in Spare, obs[t].kind = "none", NEW ms, CreateTheme(t, ms), UNCHANGED <<ledger, folds, epoch>>
  PROVE  RowsAreKept'
<1>1. StoreTyped /\ LedgerIsSound
  BY DEF RowsAreKept
<1>2. PICK T : T = ms \cap Live
  OBVIOUS
<1>3. t \in Id /\ T \subseteq Id /\ t \notin T /\ IsFiniteSet(T) /\ \A i \in T : ~obs[i].archived
  <2>1. T \subseteq Id
    BY <1>2 DEF Live, Stored
  <2>2. t \in Id /\ t \notin T /\ \A i \in T : ~obs[i].archived
    BY <1>2 DEF Live, Stored, Id
  <2> QED
    BY <2>1, <2>2, FS_Subset, StoreAssumption
<1>4. PICK f, sum, late : f = [m \in T |-> obs[m].count] /\ sum = CountSum(f) /\ late = Later({obs[m].last : m \in T})
  OBVIOUS
<1>5. /\ own' = [own EXCEPT ![t] = sum]
      /\ obs' = [i \in Id |->
           IF i = t THEN [FreshRow("theme") EXCEPT !.count = sum, !.members = ms, !.last = late]
           ELSE IF i \in T THEN [obs[i] EXCEPT !.archived = TRUE, !.into = t]
           ELSE obs[i]]
  BY <1>2, <1>4, Zenon DEF CreateTheme
<1>6. f \in [T -> Counts] /\ sum \in Counts /\ late \in Nat
  <2>1. f \in [T -> Counts]
    BY <1>1, <1>3, <1>4 DEF StoreTyped, IsRow
  <2>2. late \in Nat
    BY <1>1, <1>3, <1>4, LatestIsNatural
  <2> QED
    BY <1>3, <1>4, <2>1, <2>2, CountSumIs
<1>7. obs'[t] = [kind |-> "theme", count |-> sum, last |-> late, archived |-> FALSE, into |-> 0, members |-> ms]
  <2>1. obs'[t] = [FreshRow("theme") EXCEPT !.count = sum, !.members = ms, !.last = late]
    BY <1>3, <1>5
  <2> QED
    BY <2>1 DEF FreshRow
<1>8. ASSUME NEW i \in T
      PROVE  obs'[i] = [kind |-> obs[i].kind, count |-> obs[i].count, last |-> obs[i].last, archived |-> TRUE,
                        into |-> t, members |-> obs[i].members]
  <2>1. obs'[i] = [obs[i] EXCEPT !.archived = TRUE, !.into = t]
    BY <1>3, <1>5
  <2>2. obs[i] = [kind |-> obs[i].kind, count |-> obs[i].count, last |-> obs[i].last,
                  archived |-> obs[i].archived, into |-> obs[i].into, members |-> obs[i].members]
    BY <1>1, <1>3 DEF StoreTyped, IsRow
  <2> QED
    BY <2>1, <2>2
<1>9. DOMAIN obs' = Id /\ \A i \in Id : i \notin T /\ i # t => obs'[i] = obs[i]
  BY <1>5
<1>10. own' \in [Id -> Counts] /\ own'[t] = sum /\ \A i \in Id : i # t => own'[i] = own[i]
  BY <1>1, <1>3, <1>5, <1>6 DEF StoreTyped
<1>11. /\ obs'[t].kind = "theme" /\ ~obs'[t].archived /\ obs'[t].into = 0 /\ obs'[t].count = sum
       /\ \A i \in T : obs'[i].kind = obs[i].kind /\ obs'[i].archived /\ obs'[i].into = t /\ obs'[i].count = obs[i].count
  <2>1. obs'[t].kind = "theme" /\ ~obs'[t].archived /\ obs'[t].into = 0 /\ obs'[t].count = sum
    BY <1>7
  <2>2. ASSUME NEW i \in T
        PROVE  obs'[i].kind = obs[i].kind /\ obs'[i].archived /\ obs'[i].into = t /\ obs'[i].count = obs[i].count
    <3>1. obs'[i] = [kind |-> obs[i].kind, count |-> obs[i].count, last |-> obs[i].last, archived |-> TRUE,
                     into |-> t, members |-> obs[i].members]
      BY <1>8
    <3> QED
      BY <3>1
  <2> QED
    BY <2>1, <2>2
<1>12. StoreTyped'
  <2>1. IsRow(obs'[t])
    <3>1. PICK q, k, a, n : q = obs'[t] /\ k = "theme" /\ a = FALSE /\ n = 0
      OBVIOUS
    <3>2. q = [kind |-> k, count |-> sum, last |-> late, archived |-> a, into |-> n, members |-> ms]
      BY <1>7, <3>1, Zenon
    <3>3. k \in {"none", "observation", "theme"} /\ a \in BOOLEAN /\ n \in Id \cup {0}
      BY <3>1
    <3>4. IsRow(q)
      BY <1>6, <3>2, <3>3, RowIs
    <3> QED
      BY <3>1, <3>4, Zenon
  <2>2. ASSUME NEW i \in T
        PROVE  IsRow(obs'[i])
    <3>1. PICK q, n, a : q = obs'[i] /\ n = t /\ a = TRUE
      OBVIOUS
    <3>2. q = [kind |-> obs[i].kind, count |-> obs[i].count, last |-> obs[i].last, archived |-> a, into |-> n, members |-> obs[i].members]
      BY <1>8, <3>1, Zenon
    <3>3. IsRow(obs[i]) /\ a \in BOOLEAN /\ n \in Id \cup {0}
      BY <1>1, <1>3, <3>1 DEF StoreTyped
    <3>4. obs[i].kind \in {"none", "observation", "theme"} /\ obs[i].count \in Counts /\ obs[i].last \in Nat
      BY <3>3, Zenon DEF IsRow
    <3>5. IsRow(q)
      BY <3>2, <3>3, <3>4, RowIs
    <3> QED
      BY <3>1, <3>5, Zenon
  <2>3. \A i \in Id : IsRow(obs'[i])
    BY <1>1, <1>9, <2>1, <2>2 DEF StoreTyped
  <2>4. IsFiniteSet(ledger') /\ ledger' \subseteq LedgerRow /\ folds' \in Nat /\ epoch' \in Nat
    BY <1>1 DEF StoreTyped
  <2> QED
    BY <1>9, <1>10, <2>3, <2>4 DEF StoreTyped
<1>13. \A e \in ledger : e.survivor \in Id /\ obs[e.survivor].kind # "none" /\ e.survivor # t
  BY <1>1 DEF StoreTyped, LedgerRow, LedgerIsSound
<1>14. LedgerIsSound'
  <2>1. \A e \in ledger' : e.fold <= folds' /\ obs'[e.survivor].kind # "none" /\ e.survivor # e.member
    BY <1>1, <1>9, <1>11, <1>13 DEF LedgerIsSound
  <2>2. \A i \in Id : ~obs'[i].archived => obs'[i].into = 0
    BY <1>1, <1>9, <1>11 DEF LedgerIsSound
  <2> QED
    BY <1>1, <2>1, <2>2 DEF LedgerIsSound
<1>15. CountsAreLedgered'
  <2> SUFFICES ASSUME NEW i \in Id
               PROVE  obs'[i].count = Plus(own'[i], CountSum(Brought(i)'))
    BY DEF CountsAreLedgered, Brought
  <2>1. Brought(i)' = Brought(i)
    BY DEF Brought, OpenInto
  <2>2. CASE i # t
    <3>1. obs[i].count = Plus(own[i], CountSum(Brought(i)))
      BY DEF RowsAreKept, CountsAreLedgered, Brought
    <3>2. obs'[i].count = obs[i].count
      BY <1>9, <1>11, <2>2
    <3> QED
      BY <1>10, <2>1, <2>2, <3>1, <3>2
  <2>3. CASE i = t
    <3>1. Brought(i) \in [{} -> Counts]
      BY <1>13, <2>3 DEF Brought, OpenInto
    <3>2. CountSum(Brought(i)) = NoCount
      BY <3>1, CountSumOfNone
    <3>3. Plus(sum, NoCount) = sum
      BY <1>6, PlusIsSound
    <3> QED
      BY <1>10, <1>11, <2>1, <2>3, <3>2, <3>3, Zenon
  <2> QED
    BY <2>2, <2>3
<1>16. FoldsAreReversible'
  <2> SUFFICES ASSUME NEW i \in Id, obs'[i].kind # "none", obs'[i].archived, obs'[i].into # 0, obs'[obs'[i].into].kind # "theme"
               PROVE  \E e \in ledger' : e.survivor = obs'[i].into /\ e.open /\ e.member = i
    BY Zenon DEF FoldsAreReversible, Stored, IsTheme, OpenInto
  <2>1. i \notin T /\ i # t
    BY <1>11
  <2>2. obs'[i] = obs[i] /\ obs[i].into \in Id /\ obs[i].into # t
    BY <1>1, <1>9, <1>11, <2>1 DEF StoreTyped, IsRow
  <2>3. obs[obs[i].into].kind # "theme"
    BY <1>9, <1>11, <2>2
  <2>4. \E e \in ledger : e.survivor = obs[i].into /\ e.open /\ e.member = i
    BY <2>2, <2>3, Zenon DEF RowsAreKept, FoldsAreReversible, Stored, IsTheme, OpenInto
  <2> QED
    BY <2>2, <2>4
<1> QED
  BY <1>12, <1>14, <1>15, <1>16 DEF RowsAreKept

(* Taking a theme back archives a theme and brings rows back, no observation is put under another (unmakeTheme). *)
LEMMA UnmakeStep ==
  ASSUME RowsAreKept, NEW t \in Id, UnmakeTheme(t)
  PROVE  RowsAreKept'
<1>1. StoreTyped /\ LedgerIsSound
  BY DEF RowsAreKept
<1>2. PICK T : T = {i \in obs[t].members : i \in Id /\ i # t /\ obs[i].into = t}
  OBVIOUS
<1>3. /\ UNCHANGED <<ledger, folds, epoch, own>>
      /\ IsTheme(t) /\ ~obs[t].archived
      /\ obs' = [i \in Id |->
           IF i = t THEN [obs[t] EXCEPT !.archived = TRUE]
           ELSE IF i \in T THEN [obs[i] EXCEPT !.archived = FALSE, !.into = 0]
           ELSE obs[i]]
  BY <1>2 DEF UnmakeTheme
<1>4. DOMAIN obs' = Id /\ \A i \in Id : i \notin T /\ i # t => obs'[i] = obs[i]
  BY <1>3
<1>5. \A i \in Id : obs[i] = [kind |-> obs[i].kind, count |-> obs[i].count, last |-> obs[i].last,
                              archived |-> obs[i].archived, into |-> obs[i].into, members |-> obs[i].members]
  BY <1>1 DEF StoreTyped, IsRow
<1>6. obs'[t] = [kind |-> obs[t].kind, count |-> obs[t].count, last |-> obs[t].last,
                 archived |-> TRUE, into |-> obs[t].into, members |-> obs[t].members]
  <2>1. obs'[t] = [obs[t] EXCEPT !.archived = TRUE]
    BY <1>3
  <2> QED
    BY <1>5, <2>1
<1>7. ASSUME NEW i \in T
      PROVE  obs'[i] = [kind |-> obs[i].kind, count |-> obs[i].count, last |-> obs[i].last,
                        archived |-> FALSE, into |-> 0, members |-> obs[i].members]
  <2>1. i \in Id /\ i # t
    BY <1>2
  <2>2. obs'[i] = [obs[i] EXCEPT !.archived = FALSE, !.into = 0]
    BY <1>3, <2>1
  <2> QED
    BY <1>5, <2>1, <2>2
<1>8. T \subseteq Id /\ \A i \in T : i # t
  BY <1>2
<1>9. /\ \A i \in T : obs'[i].kind = obs[i].kind /\ obs'[i].count = obs[i].count /\ ~obs'[i].archived /\ obs'[i].into = 0
      /\ obs'[t].kind = obs[t].kind /\ obs'[t].count = obs[t].count /\ obs'[t].archived /\ obs'[t].into = obs[t].into
  <2>1. obs'[t].kind = obs[t].kind /\ obs'[t].count = obs[t].count /\ obs'[t].archived /\ obs'[t].into = obs[t].into
    BY <1>6
  <2>2. ASSUME NEW i \in T
        PROVE  obs'[i].kind = obs[i].kind /\ obs'[i].count = obs[i].count /\ ~obs'[i].archived /\ obs'[i].into = 0
    <3>1. obs'[i] = [kind |-> obs[i].kind, count |-> obs[i].count, last |-> obs[i].last,
                     archived |-> FALSE, into |-> 0, members |-> obs[i].members]
      BY <1>7
    <3> QED
      BY <3>1
  <2> QED
    BY <2>1, <2>2
<1>10. /\ \A i \in Id : obs'[i].kind = obs[i].kind /\ obs'[i].count = obs[i].count
       /\ obs[t].into = 0
  BY <1>1, <1>3, <1>4, <1>9 DEF LedgerIsSound
<1>11. StoreTyped'
  <2>1. ASSUME NEW i \in Id
        PROVE  IsRow(obs'[i])
    <3>1. IsRow(obs[i])
      BY <1>1 DEF StoreTyped
    <3>2. obs[i].kind \in {"none", "observation", "theme"} /\ obs[i].count \in Counts /\ obs[i].last \in Nat /\ obs[i].into \in Id \cup {0}
      BY <3>1, Zenon DEF IsRow
    <3>3. PICK q, a, n : q = obs'[i] /\ a = (i = t) /\ n = 0
      OBVIOUS
    <3>4. a \in BOOLEAN /\ n \in Id \cup {0}
      BY <3>3
    <3>5. CASE i \in T \/ i = t
      <4>1. a = TRUE \/ a = FALSE
        BY <3>4
      <4>2. q = [kind |-> obs[i].kind, count |-> obs[i].count, last |-> obs[i].last, archived |-> a, into |-> n, members |-> obs[i].members]
        <5>1. CASE i = t
          BY <1>6, <1>10, <3>3, <5>1
        <5>2. CASE i \in T
          BY <1>7, <1>8, <3>3, <5>2
        <5> QED
          BY <3>5, <5>1, <5>2
      <4>3. IsRow(q)
        BY <3>2, <3>4, <4>2, RowIs
      <4> QED
        BY <3>3, <4>3, Zenon
    <3>6. CASE ~(i \in T \/ i = t)
      BY <1>4, <3>1, <3>6
    <3> QED
      BY <3>5, <3>6
  <2>2. IsFiniteSet(ledger') /\ ledger' \subseteq LedgerRow /\ folds' \in Nat /\ epoch' \in Nat /\ own' \in [Id -> Counts]
    BY <1>1, <1>3 DEF StoreTyped
  <2> QED
    BY <1>4, <2>1, <2>2 DEF StoreTyped
<1>12. ledger' = ledger /\ folds' = folds /\ own' = own
  BY <1>3
<1>13. LedgerIsSound'
  <2>1. \A e \in ledger : e.survivor \in Id
    BY <1>1 DEF StoreTyped, LedgerRow
  <2>2. \A e \in ledger' : e.fold <= folds' /\ obs'[e.survivor].kind # "none" /\ e.survivor # e.member
    BY <1>1, <1>10, <1>12, <2>1 DEF LedgerIsSound
  <2>3. \A i \in Id : ~obs'[i].archived => obs'[i].into = 0
    BY <1>1, <1>4, <1>9 DEF LedgerIsSound
  <2> QED
    BY <1>1, <1>12, <2>2, <2>3 DEF LedgerIsSound
<1>14. CountsAreLedgered'
  BY <1>10, <1>12 DEF RowsAreKept, CountsAreLedgered, OpenInto
<1>15. FoldsAreReversible'
  <2> SUFFICES ASSUME NEW i \in Id, obs'[i].kind # "none", obs'[i].archived, obs'[i].into # 0, obs'[obs'[i].into].kind # "theme"
               PROVE  \E e \in ledger' : e.survivor = obs'[i].into /\ e.open /\ e.member = i
    BY Zenon DEF FoldsAreReversible, Stored, IsTheme, OpenInto
  <2>1. i \notin T /\ i # t
    BY <1>9, <1>10
  <2>2. obs'[i] = obs[i] /\ obs[i].into \in Id
    BY <1>1, <1>4, <2>1 DEF StoreTyped, IsRow
  <2>3. obs[obs[i].into].kind # "theme"
    BY <1>10, <2>2
  <2>4. \E e \in ledger : e.survivor = obs[i].into /\ e.open /\ e.member = i
    BY <2>2, <2>3, Zenon DEF RowsAreKept, FoldsAreReversible, Stored, IsTheme, OpenInto
  <2> QED
    BY <1>12, <2>2, <2>4
<1> QED
  BY <1>11, <1>13, <1>14, <1>15 DEF RowsAreKept

(* An undo takes off the survivor what the closed ledger rows brought, leaves the others open, and a row it does not bring
   back still has its own (unmergeDuplicateGroup). *)
LEMMA UnmergeStep ==
  ASSUME RowsAreKept, NEW s \in Id, NEW P, UnmergeDuplicateGroup(s, P)
  PROVE  RowsAreKept'
<1>1. StoreTyped /\ LedgerIsSound
  BY DEF RowsAreKept
<1>2. PICK O, L : O = OpenInto(s) /\ L = O \ P
  OBVIOUS
<1>3. P # {} /\ P \subseteq O /\ O \subseteq ledger /\ UNCHANGED <<folds, epoch, own>>
  BY <1>2 DEF UnmergeDuplicateGroup, OpenInto
<1>4. \A e \in O : e \in LedgerRow /\ e.survivor = s /\ e.open
  BY <1>1, <1>2 DEF OpenInto, StoreTyped
<1>5. IsFiniteSet(O) /\ IsFiniteSet(P) /\ IsFiniteSet(L)
  <2>1. IsFiniteSet(O)
    BY <1>1, <1>3, FS_Subset DEF StoreTyped
  <2> QED
    BY <1>2, <1>3, <2>1, FS_Subset
<1>6. PICK p : p = EarliestOf(P).prev
  OBVIOUS
<1>7. p \in Nat
  <2>1. P \subseteq LedgerRow
    BY <1>3, <1>4
  <2>2. EarliestOf(P) \in P
    BY <1>3, <1>5, <2>1, EarliestIsIn
  <2> QED
    BY <1>6, <2>1, <2>2 DEF LedgerRow
<1>8. PICK H : H = IF L # {} /\ EarliestOf(P) = EarliestOf(O) THEN {EarliestOf(L)} ELSE {}
  OBVIOUS
<1>9. H \subseteq L
  <2>1. CASE L # {}
    <3>1. L \subseteq LedgerRow
      BY <1>2, <1>4
    <3>2. EarliestOf(L) \in L
      BY <1>5, <2>1, <3>1, EarliestIsIn
    <3> QED
      BY <1>8, <3>2
  <2>2. CASE L = {}
    BY <1>8, <2>2
  <2> QED
    BY <2>1, <2>2
<1>10. PICK f, off : f = [e \in P |-> e.count] /\ off = CountSum(f)
  OBVIOUS
<1>11. PICK B : B = {m \in Id : m # s /\ m \in BroughtBack(s, P)}
  OBVIOUS
<1>12. /\ obs' = [i \in Id |->
           IF i = s THEN [obs[s] EXCEPT !.count = Minus(@, off), !.members = {e.member : e \in L},
                                        !.last = IF L = {} THEN p ELSE @]
           ELSE IF i \in BroughtBack(s, P) THEN [obs[i] EXCEPT !.archived = FALSE, !.into = 0]
           ELSE obs[i]]
       /\ ledger' = (ledger \ (P \cup H)) \cup {[e EXCEPT !.open = FALSE] : e \in P} \cup {[e EXCEPT !.prev = p] : e \in H}
  <2>1. Reversed(s, P) = P
    BY <1>2, <1>3 DEF Reversed
  <2>2. PICK R : R = Reversed(s, P)
    OBVIOUS
  <2>3. off = CountSum([e \in R |-> e.count])
    BY <1>10, <2>1, <2>2, Zenon
  <2> QED
    BY <1>2, <1>6, <1>8, <2>2, <2>3, Zenon DEF UnmergeDuplicateGroup
<1> DEFINE After(e) == IF e \in P THEN [e EXCEPT !.open = FALSE] ELSE IF e \in H THEN [e EXCEPT !.prev = p] ELSE e
<1>13. PICK A : A = [e \in ledger |-> After(e)]
  OBVIOUS
<1>14. ledger' = {A[e] : e \in ledger}
  <2>1. \A e \in P : e \in ledger /\ A[e] = [e EXCEPT !.open = FALSE]
    BY <1>3, <1>13
  <2>2. \A e \in H : e \in ledger /\ A[e] = [e EXCEPT !.prev = p]
    BY <1>2, <1>3, <1>9, <1>13
  <2>3. \A e \in ledger \ (P \cup H) : A[e] = e
    BY <1>13
  <2>4. \A e \in ledger : A[e] \in ledger'
    BY <1>12, <2>1, <2>2, <2>3
  <2>5. \A x \in ledger' : \E e \in ledger : x = A[e]
    <3> SUFFICES ASSUME NEW x \in ledger' PROVE \E e \in ledger : x = A[e]
      OBVIOUS
    <3>1. CASE x \in ledger \ (P \cup H)
      BY <2>3, <3>1
    <3>2. CASE x \in {[e EXCEPT !.open = FALSE] : e \in P}
      BY <2>1, <3>2
    <3>3. CASE x \in {[e EXCEPT !.prev = p] : e \in H}
      BY <2>2, <3>3
    <3> QED
      BY <1>12, <3>1, <3>2, <3>3
  <2> QED
    BY <2>4, <2>5
<1>15. ASSUME NEW e \in ledger
       PROVE  /\ A[e] \in LedgerRow /\ A[e].fold = e.fold /\ A[e].survivor = e.survivor /\ A[e].member = e.member
              /\ A[e].count = e.count /\ (A[e].open <=> e.open /\ e \notin P) /\ (e \notin O => A[e] = e)
  <2>1. e \in LedgerRow
    BY <1>1 DEF StoreTyped
  <2>2. A[e] = After(e)
    BY <1>13
  <2>3. CASE e \in P
    <3>1. A[e] = [e EXCEPT !.open = FALSE] /\ e \in O
      BY <1>3, <2>2, <2>3
    <3> QED
      BY <2>1, <2>3, <3>1 DEF LedgerRow
  <2>4. CASE e \notin P /\ e \in H
    <3>1. A[e] = [e EXCEPT !.prev = p] /\ e \in O
      BY <1>2, <1>9, <2>2, <2>4
    <3> QED
      BY <1>7, <2>1, <2>4, <3>1 DEF LedgerRow
  <2>5. CASE e \notin P /\ e \notin H
    BY <2>1, <2>2, <2>5
  <2> QED
    BY <2>3, <2>4, <2>5
<1> HIDE DEF After
<1>16. \A d, e \in ledger : A[d] = A[e] => d = e
  <2> SUFFICES ASSUME NEW d \in ledger, NEW e \in ledger, A[d] = A[e] PROVE d = e
    OBVIOUS
  <2>1. d.fold = e.fold /\ d.member = e.member
    BY <1>15
  <2> QED
    BY <1>1, <2>1 DEF LedgerIsSound
<1>17. B \subseteq Id /\ (\A i \in B : i # s /\ obs[i].into = s) /\ \A i \in Id : i # s /\ i \notin B => i \notin BroughtBack(s, P)
  BY <1>11 DEF BroughtBack
<1>18. DOMAIN obs' = Id /\ \A i \in Id : i # s /\ i \notin B => obs'[i] = obs[i]
  BY <1>12, <1>17
<1>19. \A i \in Id : obs[i] = [kind |-> obs[i].kind, count |-> obs[i].count, last |-> obs[i].last,
                               archived |-> obs[i].archived, into |-> obs[i].into, members |-> obs[i].members]
  BY <1>1 DEF StoreTyped, IsRow
<1>20. PICK q, late, ms : q = Minus(obs[s].count, off) /\ late = (IF L = {} THEN p ELSE obs[s].last) /\ ms = {e.member : e \in L}
  OBVIOUS
<1>21. obs'[s] = [kind |-> obs[s].kind, count |-> q, last |-> late,
                  archived |-> obs[s].archived, into |-> obs[s].into, members |-> ms]
  <2>1. PICK r : r = obs[s]
    OBVIOUS
  <2>2. obs'[s] = [obs[s] EXCEPT !.count = Minus(@, off), !.members = {e.member : e \in L}, !.last = IF L = {} THEN p ELSE @]
    BY <1>12
  <2>3. r = [kind |-> r.kind, count |-> r.count, last |-> r.last, archived |-> r.archived, into |-> r.into, members |-> r.members]
    BY <1>19, <2>1, Zenon
  <2>4. obs'[s] = [r EXCEPT !.count = q, !.members = ms, !.last = late]
    <3>1. r.count = obs[s].count /\ r.last = obs[s].last
      BY <2>1
    <3>2. obs'[s] = [r EXCEPT !.count = Minus(r.count, off), !.members = ms, !.last = IF L = {} THEN p ELSE r.last]
      BY <1>20, <2>1, <2>2, <2>3
    <3> QED
      BY <1>20, <3>1, <3>2, Zenon
  <2>5. obs'[s] = [kind |-> r.kind, count |-> q, last |-> late, archived |-> r.archived, into |-> r.into, members |-> ms]
    BY <2>3, <2>4
  <2> QED
    BY <2>1, <2>5, Zenon
<1>22. ASSUME NEW i \in B
       PROVE  obs'[i] = [kind |-> obs[i].kind, count |-> obs[i].count, last |-> obs[i].last,
                         archived |-> FALSE, into |-> 0, members |-> obs[i].members]
  <2>1. i \in Id /\ i # s /\ i \in BroughtBack(s, P)
    BY <1>11
  <2>2. obs'[i] = [obs[i] EXCEPT !.archived = FALSE, !.into = 0]
    BY <1>12, <2>1
  <2> QED
    BY <1>19, <2>1, <2>2
<1>23. obs'[s].kind = obs[s].kind /\ obs'[s].count = q /\ obs'[s].archived = obs[s].archived /\ obs'[s].into = obs[s].into
  BY <1>21
<1>24. ASSUME NEW i \in B
       PROVE  obs'[i].kind = obs[i].kind /\ obs'[i].count = obs[i].count /\ ~obs'[i].archived /\ obs'[i].into = 0
  <2>1. obs'[i] = [kind |-> obs[i].kind, count |-> obs[i].count, last |-> obs[i].last,
                   archived |-> FALSE, into |-> 0, members |-> obs[i].members]
    BY <1>22
  <2> QED
    BY <2>1
<1>25. f \in [P -> Counts] /\ off \in Counts
  <2>1. f \in [P -> Counts]
    BY <1>3, <1>4, <1>10 DEF LedgerRow
  <2> QED
    BY <1>5, <1>10, <2>1, CountSumIs
<1>26. StoreTyped'
  <2>1. ASSUME NEW i \in Id
        PROVE  IsRow(obs'[i])
    <3>1. IsRow(obs[i])
      BY <1>1 DEF StoreTyped
    <3>2. /\ obs[i].kind \in {"none", "observation", "theme"} /\ obs[i].count \in Counts /\ obs[i].last \in Nat
          /\ obs[i].archived \in BOOLEAN /\ obs[i].into \in Id \cup {0}
      BY <3>1, Zenon DEF IsRow
    <3>3. CASE i = s
      <4>1. PICK r : r = obs'[s]
        OBVIOUS
      <4>2. q \in Counts /\ late \in Nat
        BY <1>7, <1>20, <1>25, <3>2, <3>3, PlusIsSound
      <4>3. r = [kind |-> obs[s].kind, count |-> q, last |-> late, archived |-> obs[s].archived, into |-> obs[s].into, members |-> ms]
        BY <1>21, <4>1, Zenon
      <4>4. IsRow(r)
        BY <3>2, <3>3, <4>2, <4>3, RowIs
      <4> QED
        BY <3>3, <4>1, <4>4, Zenon
    <3>4. CASE i \in B
      <4>1. PICK r, a, n : r = obs'[i] /\ a = FALSE /\ n = 0
        OBVIOUS
      <4>2. r = [kind |-> obs[i].kind, count |-> obs[i].count, last |-> obs[i].last, archived |-> a, into |-> n, members |-> obs[i].members]
        BY <1>22, <3>4, <4>1, Zenon
      <4>3. a \in BOOLEAN /\ n \in Id \cup {0}
        BY <4>1
      <4>4. IsRow(r)
        BY <3>2, <4>2, <4>3, RowIs
      <4> QED
        BY <4>1, <4>4, Zenon
    <3>5. CASE i # s /\ i \notin B
      BY <1>18, <3>1, <3>5
    <3> QED
      BY <3>3, <3>4, <3>5
  <2>2. IsFiniteSet(ledger') /\ ledger' \subseteq LedgerRow
    <3>1. IsFiniteSet({A[e] : e \in ledger})
      BY <1>1, ImageIsFinite DEF StoreTyped
    <3>2. IsFiniteSet(ledger')
      BY <1>14, <3>1, Zenon
    <3> QED
      BY <1>14, <1>15, <3>2
  <2>3. folds' \in Nat /\ epoch' \in Nat /\ own' \in [Id -> Counts]
    BY <1>1, <1>3 DEF StoreTyped
  <2> QED
    BY <1>18, <2>1, <2>2, <2>3 DEF StoreTyped
<1>27. \A i \in Id : obs'[i].kind = obs[i].kind
  BY <1>18, <1>23, <1>24
<1>28. LedgerIsSound'
  <2>1. ASSUME NEW x \in ledger'
        PROVE  x.fold <= folds' /\ obs'[x.survivor].kind # "none" /\ x.survivor # x.member
    <3>1. PICK e \in ledger : x = A[e]
      BY <1>14
    <3>2. x.fold = e.fold /\ x.survivor = e.survivor /\ x.member = e.member /\ e.survivor \in Id
      BY <1>1, <1>15, <3>1 DEF StoreTyped, LedgerRow
    <3> QED
      BY <1>1, <1>3, <1>27, <3>2 DEF LedgerIsSound
  <2>2. ASSUME NEW x \in ledger', NEW y \in ledger', x.fold = y.fold, x.member = y.member
        PROVE  x = y
    <3>1. PICK d, e : d \in ledger /\ e \in ledger /\ x = A[d] /\ y = A[e]
      BY <1>14
    <3>2. d.fold = e.fold /\ d.member = e.member
      BY <1>15, <2>2, <3>1
    <3> QED
      BY <1>1, <3>1, <3>2 DEF LedgerIsSound
  <2>3. \A i \in Id : ~obs'[i].archived => obs'[i].into = 0
    BY <1>1, <1>18, <1>23, <1>24 DEF LedgerIsSound
  <2> QED
    BY <2>1, <2>2, <2>3 DEF LedgerIsSound
<1>29. CountsAreLedgered'
  <2> SUFFICES ASSUME NEW i \in Id
               PROVE  obs'[i].count = Plus(own'[i], CountSum(Brought(i)'))
    BY DEF CountsAreLedgered, Brought
  <2>1. obs[i].count = Plus(own[i], CountSum(Brought(i))) /\ own[i] \in Counts /\ own' = own
    BY <1>1, <1>3 DEF RowsAreKept, CountsAreLedgered, Brought, StoreTyped
  <2>2. CASE i # s
    <3>1. \A e \in ledger : e.survivor = i => A[e] = e
      BY <1>4, <1>15, <2>2
    <3>2. \A e \in ledger : A[e].survivor = e.survivor
      BY <1>15
    <3>3. OpenInto(i)' = OpenInto(i)
      <4>1. \A x \in ledger : x.survivor = i => x \in ledger'
        BY <1>14, <3>1
      <4>2. \A x \in ledger' : x.survivor = i => x \in ledger
        BY <1>14, <3>1, <3>2
      <4> QED
        BY <4>1, <4>2 DEF OpenInto
    <3>4. Brought(i)' = Brought(i)
      BY <3>3 DEF Brought
    <3>5. obs'[i].count = obs[i].count
      BY <1>18, <1>24, <2>2
    <3> QED
      BY <2>1, <3>4, <3>5
  <2>3. CASE i = s
    <3>1. PICK b, l, N, k : b = Brought(s) /\ l = [e \in L |-> e.count] /\ N = OpenInto(s)' /\ k = Brought(s)'
      OBVIOUS
    <3>2. b = [e \in O |-> e.count] /\ k = [e \in N |-> e.count]
      BY <1>2, <3>1 DEF Brought
    <3>3. \A e \in O : e.count \in Counts
      BY <1>4 DEF LedgerRow
    <3>4. PICK U : U = L \cup P
      OBVIOUS
    <3>5. U = O /\ L \cap P = {}
      BY <1>2, <1>3, <3>4
    <3>6. l \in [L -> Counts] /\ b \in [L \cup P -> Counts] /\ (\A e \in L : b[e] = l[e]) /\ \A e \in P : b[e] = f[e]
      <4>1. l \in [L -> Counts]
        BY <1>2, <3>1, <3>3
      <4>2. b \in [O -> Counts]
        BY <3>2, <3>3
      <4>3. \A e \in L : b[e] = l[e]
        BY <1>2, <3>1, <3>2
      <4>4. \A e \in P : b[e] = f[e]
        BY <1>3, <1>10, <3>2
      <4> QED
        BY <3>4, <3>5, <4>1, <4>2, <4>3, <4>4, Zenon
    <3>7. CountSum(b) = Plus(CountSum(l), off) /\ CountSum(l) \in Counts
      <4>1. IsFiniteSet(L) /\ IsFiniteSet(P)
        BY <1>5
      <4>2. CountSum(b) = Plus(CountSum(l), CountSum(f))
        <5>1. L \cap P = {}
          BY <3>5
        <5>2. l \in [L -> Counts] /\ b \in [L \cup P -> Counts] /\ (\A e \in L : b[e] = l[e]) /\ \A e \in P : b[e] = f[e]
          BY <3>6
        <5> QED
          BY <1>25, <4>1, <5>1, <5>2, CountSumJoins
      <4>3. CountSum(l) \in Counts
        BY <3>6, <4>1, CountSumIs
      <4> QED
        BY <1>10, <4>2, <4>3, Zenon
    <3>8. \A x : x \in N <=> \E e \in L : x = A[e]
      <4>1. ASSUME NEW e \in L
            PROVE  A[e] \in N
        <5>1. e \in ledger /\ e.open /\ e.survivor = s /\ e \notin P
          BY <1>2, <1>3, <1>4
        <5>2. A[e] \in ledger' /\ A[e].open /\ A[e].survivor = s
          BY <1>14, <1>15, <5>1
        <5> QED
          BY <3>1, <5>2 DEF OpenInto
      <4>2. ASSUME NEW x \in N
            PROVE  \E e \in L : x = A[e]
        <5>1. x \in ledger' /\ x.open /\ x.survivor = s
          BY <3>1 DEF OpenInto
        <5>2. PICK e \in ledger : x = A[e]
          BY <1>14, <5>1
        <5>3. e.open /\ e.survivor = s /\ e \notin P
          BY <1>15, <5>1, <5>2
        <5> QED
          BY <1>2, <5>2, <5>3 DEF OpenInto
      <4> QED
        BY <4>1, <4>2
    <3>9. CountSum(l) = CountSum(k)
      <4>1. IsFiniteSet(L) /\ L \subseteq ledger
        BY <1>2, <1>3, <1>5
      <4>2. (\A x, y \in L : A[x] = A[y] => x = y) /\ (\A x \in L : A[x] \in N) /\ \A y \in N : \E x \in L : y = A[x]
        BY <1>16, <3>8, <4>1
      <4>3. \A x \in L : A[x].count = x.count
        BY <1>15, <4>1
      <4>4. k \in [N -> Counts] /\ \A x \in L : k[A[x]] = l[x]
        <5>1. \A y \in N : y.count \in Counts
          <6> SUFFICES ASSUME NEW y \in N PROVE y.count \in Counts
            OBVIOUS
          <6>1. PICK x \in L : y = A[x]
            BY <4>2
          <6>2. y.count = x.count /\ x \in O
            BY <1>2, <4>3, <6>1
          <6> QED
            BY <3>3, <6>2
        <5>2. k \in [N -> Counts]
          BY <3>2, <5>1
        <5>3. \A x \in L : k[A[x]] = l[x]
          BY <3>1, <3>2, <4>2, <4>3
        <5> QED
          BY <5>2, <5>3
      <4> QED
        BY <3>6, <4>1, <4>2, <4>4, CountSumMoves
    <3>10. Minus(Plus(own[s], Plus(CountSum(l), off)), off) = Plus(own[s], CountSum(l))
      BY <1>25, <2>1, <2>3, <3>7, PlusAssociates
    <3>11. q = Minus(Plus(own[s], Plus(CountSum(l), off)), off)
      BY <1>20, <2>1, <2>3, <3>1, <3>7, Zenon
    <3> QED
      BY <1>23, <2>1, <2>3, <3>1, <3>9, <3>10, <3>11, Zenon
  <2> QED
    BY <2>2, <2>3
<1>30. FoldsAreReversible'
  <2> SUFFICES ASSUME NEW i \in Id, obs'[i].kind # "none", obs'[i].archived, obs'[i].into # 0, obs'[obs'[i].into].kind # "theme"
               PROVE  \E e \in ledger' : e.survivor = obs'[i].into /\ e.open /\ e.member = i
    BY Zenon DEF FoldsAreReversible, Stored, IsTheme, OpenInto
  <2>1. obs'[i].into = obs[i].into /\ obs'[i].archived = obs[i].archived /\ i \notin B
    BY <1>18, <1>23, <1>24
  <2>2. obs[i].into \in Id /\ obs[obs[i].into].kind # "theme" /\ obs[i].kind # "none"
    BY <1>1, <1>27, <2>1 DEF StoreTyped, IsRow
  <2>3. PICK e \in ledger : e.survivor = obs[i].into /\ e.open /\ e.member = i
    BY <2>1, <2>2, Zenon DEF RowsAreKept, FoldsAreReversible, Stored, IsTheme, OpenInto
  <2>4. e \notin P
    <3> SUFFICES ASSUME e \in P PROVE FALSE
      OBVIOUS
    <3>1. e.survivor = s /\ obs[i].into = s /\ e.survivor # e.member
      BY <1>1, <1>3, <1>4, <2>3 DEF LedgerIsSound
    <3>2. i # s /\ i \in BroughtBack(s, P)
      BY <2>3, <3>1 DEF BroughtBack
    <3> QED
      BY <1>11, <2>1, <3>2
  <2>5. A[e] \in ledger' /\ A[e].survivor = e.survivor /\ A[e].member = e.member /\ A[e].open
    BY <1>14, <1>15, <2>3, <2>4
  <2> QED
    BY <2>1, <2>3, <2>5
<1> QED
  BY <1>26, <1>28, <1>29, <1>30 DEF RowsAreKept

(* Passes begin with the second of the clock and keep it. *)
LEMMA PassesStayTimed ==
  ASSUME StoreInv, [StoreNext]_storeVars
  PROVE  PassesAreTimed'
<1>1. PassesAreTimed /\ epoch \in Nat
  BY DEF StoreInv, RowsAreKept, StoreTyped
<1>2. CASE pass' = pass
  BY <1>1, <1>2 DEF PassesAreTimed
<1>3. ASSUME NEW j \in Job, NEW p, p = pass'[j], pass' = [pass EXCEPT ![j] = p], DOMAIN p = {"on", "plan", "at"}, p.at \in Nat
      PROVE  PassesAreTimed'
  BY <1>1, <1>3 DEF PassesAreTimed
<1>4. ASSUME NEW j \in Job, StartPass(j)
      PROVE  PassesAreTimed'
  <2>1. PICK p, plan : p = [on |-> TRUE, plan |-> plan, at |-> epoch] /\ pass' = [pass EXCEPT ![j] = p]
    BY <1>4 DEF StartPass
  <2>2. p = pass'[j] /\ DOMAIN p = {"on", "plan", "at"} /\ p.at \in Nat
    BY <1>1, <2>1 DEF PassesAreTimed
  <2> QED
    BY <1>3, <2>1, <2>2
<1>5. ASSUME NEW j \in Job, FoldGroup(j)
      PROVE  PassesAreTimed'
  <2>1. PICK p, q, plan : q = pass[j] /\ p = [q EXCEPT !.plan = plan] /\ pass' = [pass EXCEPT ![j] = p]
    BY <1>5 DEF FoldGroup
  <2>2. DOMAIN q = {"on", "plan", "at"} /\ q.at \in Nat /\ p = pass'[j]
    BY <1>1, <2>1 DEF PassesAreTimed
  <2>3. DOMAIN p = {"on", "plan", "at"} /\ p.at \in Nat
    BY <2>1, <2>2
  <2> QED
    BY <1>3, <2>1, <2>2, <2>3
<1>6. ASSUME NEW j \in Job, EndPass(j)
      PROVE  PassesAreTimed'
  <2>1. PICK p : p = NoPass /\ pass' = [pass EXCEPT ![j] = p]
    BY <1>6 DEF EndPass
  <2>2. p = pass'[j] /\ DOMAIN p = {"on", "plan", "at"} /\ p.at \in Nat
    BY <1>1, <2>1 DEF PassesAreTimed, NoPass
  <2> QED
    BY <1>3, <2>1, <2>2
<1>7. ASSUME NEW i \in Id, Bump(i, "search") \/ Bump(i, "drill") \/ UndoFolds(i) \/ UnmakeTheme(i)
      PROVE  pass' = pass
  BY <1>7 DEF Bump, UndoFolds, UnmergeDuplicateGroup, UnmakeTheme
<1>8. StartTheme \/ JudgeCluster \/ EndTheme \/ ClearRefoldBlocks => pass' = pass
  BY DEF StartTheme, JudgeCluster, EndTheme, ClearRefoldBlocks
<1> QED
  BY <1>2, <1>4, <1>5, <1>6, <1>7, <1>8 DEF StoreNext, storeVars

(* Whatever the judge says of a cluster, rows and ledger stay so (runThemePass). *)
LEMMA JudgeStep ==
  ASSUME RowsAreKept, JudgeCluster
  PROVE  RowsAreKept'
<1>1. epoch \in Nat /\ UNCHANGED <<ledger, folds, epoch>>
  BY DEF RowsAreKept, StoreTyped, JudgeCluster
<1>2. CASE UNCHANGED <<obs, own>>
  BY <1>1, <1>2, UntouchedRows
<1>3. CASE ~UNCHANGED <<obs, own>>
  <2>1. PICK t, ms : t \in Spare /\ obs[t].kind = "none" /\ CreateTheme(t, ms)
    BY <1>3 DEF JudgeCluster
  <2> QED
    BY <1>1, <2>1, CreateStep
<1> QED
  BY <1>2, <1>3

(* Every step of recalls, passes, judge and commands keeps the rows so. *)
LEMMA StoreStep ==
  ASSUME StoreInv, [StoreNext]_storeVars
  PROVE  StoreInv'
<1>1. RowsAreKept /\ PassesAreTimed /\ epoch \in Nat
  BY DEF StoreInv, RowsAreKept, StoreTyped
<1>2. ASSUME UNCHANGED <<obs, ledger, folds, own, epoch>>
      PROVE  RowsAreKept'
  BY <1>1, <1>2, UntouchedRows
<1>3. ASSUME NEW i \in Id, Bump(i, "search") \/ Bump(i, "drill")
      PROVE  RowsAreKept'
  BY <1>1, <1>3, BumpStep
<1>4. ASSUME NEW s \in Id, UndoFolds(s)
      PROVE  RowsAreKept'
  BY <1>1, <1>4, UnmergeStep DEF UndoFolds
<1>5. ASSUME NEW t \in Id, UnmakeTheme(t)
      PROVE  RowsAreKept'
  BY <1>1, <1>5, UnmakeStep
<1>6. ASSUME NEW j \in Job, FoldGroup(j)
      PROVE  RowsAreKept'
  <2>1. PICK s, ms, at : MergeDuplicateGroup(s, ms, at) /\ at = pass[j].at
    BY <1>6 DEF FoldGroup
  <2>2. at \in Nat /\ UNCHANGED <<own, epoch>>
    BY <1>1, <1>6, <2>1 DEF FoldGroup, PassesAreTimed
  <2> QED
    BY <1>1, <2>1, <2>2, MergeStep
<1>7. ASSUME NEW j \in Job, StartPass(j) \/ EndPass(j)
      PROVE  RowsAreKept'
  BY <1>2, <1>7 DEF StartPass, EndPass
<1>8. StartTheme \/ EndTheme \/ ClearRefoldBlocks => RowsAreKept'
  BY <1>2 DEF StartTheme, EndTheme, ClearRefoldBlocks
<1>9. ASSUME JudgeCluster
      PROVE  RowsAreKept'
  BY <1>1, <1>9, JudgeStep
<1>10. ASSUME UNCHANGED storeVars
       PROVE  RowsAreKept'
  <2>1. UNCHANGED <<obs, ledger, folds, own, epoch>>
    BY <1>10 DEF storeVars
  <2> QED
    BY <1>2, <2>1
<1>11. RowsAreKept'
  BY <1>3, <1>4, <1>5, <1>6, <1>7, <1>8, <1>9, <1>10 DEF StoreNext
<1>12. PassesAreTimed'
  BY PassesStayTimed
<1> QED
  BY <1>11, <1>12 DEF StoreInv

-----------------------------------------------------------------------------
(* The embedder's budget                                                   *)

(* Two minutes that share a slot of the ring are a whole ring apart. *)
LEMMA WrapsOnce ==
  ASSUME NEW n \in Nat \ {0}, NEW a \in Nat, NEW b \in Nat, a % n = b % n, a < b
  PROVE  a + n <= b
<1>1. PICK p, q \in Int : a = n * p + (a % n) /\ b = n * q + (b % n)
  <2>1. a = n * (a \div n) + (a % n) /\ b = n * (b \div n) + (b % n) /\ a \div n \in Int /\ b \div n \in Int
    OBVIOUS
  <2> QED
    BY <2>1
<1>2. PICK r \in Int : a = n * p + r /\ b = n * q + r
  BY <1>1
<1>3. q >= p + 1
  <2> SUFFICES ASSUME q <= p PROVE FALSE
    OBVIOUS
  <2>1. n * q <= n * p
    OBVIOUS
  <2> QED
    BY <1>2, <2>1
<1>4. n * q >= n * (p + 1) /\ n * (p + 1) = n * p + n
  BY <1>3
<1> QED
  BY <1>2, <1>4

(* Every minute has a slot. *)
LEMMA SlotIs ==
  ASSUME NEW n \in Nat \ {0}, NEW a \in Nat
  PROVE  a % n \in 0 .. n - 1
OBVIOUS

(* The slots of the ring. *)
Slots == 0 .. Ring - 1

(* Ring consecutive minutes. *)
MeterWindow(from) == {m \in Minutes : from <= m /\ m < from + Ring}

(* The most one interactive request sends. *)
Largest == Max({Tokens[c] : c \in Interactive})

(* Clock, ring and spending are of their types, at whatever number of tokens. *)
MeterTyped ==
  /\ minute \in Minutes /\ spent \in [Minutes -> Nat]
  /\ DOMAIN ring = Slots /\ \A slot \in Slots : ring[slot].minute \in Minutes /\ ring[slot].sent \in Nat

(* Nothing is spent in advance; no slot says more than was spent in its minute; and whatever was spent in a minute that the ring
   still reaches back to stands in its slot. *)
RingIsTrue ==
  /\ \A m \in Minutes : m > minute => spent[m] = 0
  /\ \A slot \in Slots : ring[slot].sent <= spent[ring[slot].minute]
  /\ \A m \in Minutes : spent[m] > 0 /\ m + Ring > minute => ring[m % Ring].minute = m /\ ring[m % Ring].sent = spent[m]

(* No hour is more than one request over the budget. *)
WindowsAreBounded ==
  BudgetLimit > 0 => \A from \in Minutes : SumFunctionOnSet(spent, MeterWindow(from)) < BudgetLimit + Largest

MeterInv == MeterTyped /\ RingIsTrue /\ WindowsAreBounded

(* It is there, and every interactive request sends that much or less. *)
LEMMA LargestIs ==
  /\ Largest \in Nat \ {0}
  /\ \A c \in Interactive : Tokens[c] \in Nat \ {0} /\ Tokens[c] <= Largest
<1>1. PICK S : S = {Tokens[c] : c \in Interactive}
  OBVIOUS
<1>2. IsFiniteSet(Interactive) /\ \A c \in Interactive : Tokens[c] \in Nat \ {0}
  BY FS_Subset, MeterAssumption
<1>3. IsFiniteSet(S)
  <2>1. IsFiniteSet({Tokens[c] : c \in Interactive})
    BY <1>2, ImageIsFinite
  <2> QED
    BY <1>1, <2>1, Zenon
<1>4. S # {} /\ \A x \in S : x \in Nat \ {0}
  BY <1>1, <1>2, MeterAssumption
<1>5. Max(S) \in S /\ \A y \in S : Max(S) >= y
  BY <1>3, <1>4, GreatestIsIn
<1>6. Largest = Max(S)
  BY <1>1, Zenon DEF Largest
<1>7. PICK l : l = Max(S)
  OBVIOUS
<1> QED
  BY <1>1, <1>2, <1>4, <1>5, <1>6, <1>7

(* Such an hour is made of finitely many minutes. *)
LEMMA WindowIsFinite ==
  ASSUME NEW from
  PROVE  IsFiniteSet(MeterWindow(from)) /\ MeterWindow(from) \subseteq Minutes
<1>1. IsFiniteSet(Minutes)
  BY MeterAssumption, FS_Interval DEF Minutes
<1> QED
  BY <1>1, FS_Subset DEF MeterWindow

(* A meter begins so: nothing spent. *)
LEMMA MeterBegins ==
  ASSUME MeterInit
  PROVE  MeterInv
<1> USE DEF MeterInit
<1>1. MeterTyped
  BY MeterAssumption DEF MeterTyped, Minutes, Slots
<1>2. RingIsTrue
  BY MeterAssumption DEF RingIsTrue, Minutes, Slots
<1>3. WindowsAreBounded
  <2> SUFFICES ASSUME BudgetLimit > 0, NEW from \in Minutes
               PROVE  SumFunctionOnSet(spent, MeterWindow(from)) < BudgetLimit + Largest
    BY DEF WindowsAreBounded
  <2>1. IsFiniteSet(MeterWindow(from)) /\ \A x \in MeterWindow(from) : spent[x] = 0
    BY WindowIsFinite
  <2>2. SumFunctionOnSet(spent, MeterWindow(from)) = 0
    BY <2>1, SumOfNothing
  <2> QED
    BY <2>2, LargestIs, MeterAssumption
<1> QED
  BY <1>1, <1>2, <1>3 DEF MeterInv

(* What an hour that holds this minute spent so far is in the sum of the ring: its minutes have slots of their own. *)
LEMMA RingCoversWindow ==
  ASSUME MeterTyped, RingIsTrue, NEW from \in Minutes, minute \in MeterWindow(from)
  PROVE  SumFunctionOnSet(spent, MeterWindow(from)) <= WindowTokens(ring) /\ WindowTokens(ring) \in Nat
<1>1. PICK v : v = [slot \in Slots |-> IF ring[slot].minute + Ring > minute THEN ring[slot].sent ELSE 0]
  OBVIOUS
<1>2. PICK h, W : h = [m \in Minutes |-> m % Ring] /\ W = MeterWindow(from)
  OBVIOUS
<1>3. IsFiniteSet(Slots) /\ (\A x \in Slots : v[x] \in Nat) /\ DOMAIN v = Slots
  <2>1. IsFiniteSet(Slots)
    BY MeterAssumption, FS_Interval DEF Slots
  <2>2. \A x \in Slots : v[x] \in Nat
    BY <1>1 DEF MeterTyped
  <2> QED
    BY <1>1, <2>1, <2>2
<1>4. WindowTokens(ring) = SumFunctionOnSet(v, Slots)
  <2>1. WindowTokens(ring) = SumFunction(v)
    BY <1>1, Zenon DEF WindowTokens, Slots
  <2> QED
    BY <1>3, <2>1, Zenon DEF SumFunction
<1>5. IsFiniteSet(W) /\ W \subseteq Minutes /\ Minutes \subseteq Nat
  BY <1>2, WindowIsFinite DEF Minutes
<1>6. \A m \in W : h[m] = m % Ring /\ h[m] \in Slots
  BY <1>2, <1>5, SlotIs, MeterAssumption DEF Slots
<1>7. \A x, y \in W : h[x] = h[y] => x = y
  <2>1. ASSUME NEW x \in W, NEW y \in W, x % Ring = y % Ring, x < y
        PROVE  FALSE
    <3>1. x \in Nat /\ y \in Nat /\ from \in Nat /\ Ring \in Nat \ {0}
      BY <1>5, MeterAssumption
    <3>2. x + Ring <= y
      BY <2>1, <3>1, WrapsOnce
    <3>3. from <= x /\ y < from + Ring
      BY <1>2, <2>1 DEF MeterWindow
    <3> QED
      BY <3>1, <3>2, <3>3
  <2> QED
    BY <1>5, <1>6, <2>1
<1>8. ASSUME NEW m \in W
      PROVE  spent[m] \in Nat /\ v[h[m]] \in Nat /\ spent[m] <= v[h[m]]
  <2>1. spent[m] \in Nat /\ m \in Minutes /\ from <= m /\ from + Ring > minute
    BY <1>2, <1>5 DEF MeterTyped, MeterWindow
  <2>2. v[h[m]] \in Nat
    BY <1>3, <1>6
  <2>3. CASE spent[m] > 0
    <3>1. m + Ring > minute
      BY <2>1, MeterAssumption DEF MeterTyped, Minutes
    <3>2. ring[m % Ring].minute = m /\ ring[m % Ring].sent = spent[m]
      BY <2>1, <2>3, <3>1 DEF RingIsTrue
    <3>3. v[h[m]] = spent[m]
      BY <1>1, <1>6, <3>1, <3>2
    <3> QED
      BY <2>1, <3>3
  <2> QED
    BY <2>1, <2>2, <2>3
<1>9. PICK u : u = [m \in W |-> v[h[m]]]
  OBVIOUS
<1>10. SumFunctionOnSet(spent, W) <= SumFunctionOnSet(u, W)
  BY <1>5, <1>8, <1>9, SumIsMonotone
<1>11. PICK T : T = {h[x] : x \in W}
  OBVIOUS
<1>12. SumFunctionOnSet(u, W) = SumFunctionOnSet(v, T)
  <2>1. \A x \in W : u[x] \in Int /\ v[h[x]] = u[x]
    BY <1>8, <1>9
  <2>2. SumFunctionOnSet(u, W) = SumFunctionOnSet(v, {h[x] : x \in W})
    <3>1. IsFiniteSet(W)
      BY <1>5
    <3> QED
      BY <1>7, <2>1, <3>1, SumMoves
  <2> QED
    BY <1>11, <2>2, Zenon
<1>13. T \in SUBSET Slots
  BY <1>6, <1>11
<1>14. SumFunctionOnSet(v, T) <= SumFunctionOnSet(v, Slots)
  BY <1>3, <1>13, SumGrows
<1>15. /\ SumFunctionOnSet(v, Slots) \in Nat /\ SumFunctionOnSet(v, T) \in Nat
       /\ SumFunctionOnSet(spent, W) \in Nat
  <2>1. IsFiniteSet(T) /\ \A x \in T : v[x] \in Nat
    BY <1>3, <1>13, FS_Subset
  <2>2. \A x \in W : spent[x] \in Nat
    BY <1>8
  <2> QED
    BY <1>3, <1>5, <2>1, <2>2, SumIsNatural
<1>16. SumFunctionOnSet(spent, W) <= WindowTokens(ring)
  <2>1. PICK a, b, c : a = SumFunctionOnSet(spent, W) /\ b = SumFunctionOnSet(v, T) /\ c = SumFunctionOnSet(v, Slots)
    OBVIOUS
  <2>2. a <= b /\ b <= c /\ a \in Nat /\ b \in Nat /\ c \in Nat
    BY <1>10, <1>12, <1>14, <1>15, <2>1, Zenon
  <2>3. a <= c
    BY <2>2
  <2> QED
    BY <1>4, <2>1, <2>3, Zenon
<1> QED
  BY <1>2, <1>4, <1>15, <1>16, Zenon

(* What leaves clock, ring and spending as they are keeps them. *)
LEMMA MeterUntouched ==
  ASSUME MeterInv, UNCHANGED <<ring, spent>>, minute' = minute
  PROVE  MeterInv'
<1>1. MeterTyped'
  BY DEF MeterInv, MeterTyped
<1>2. RingIsTrue'
  BY DEF MeterInv, RingIsTrue
<1>3. WindowsAreBounded'
  BY DEF MeterInv, WindowsAreBounded, MeterWindow
<1> QED
  BY <1>1, <1>2, <1>3 DEF MeterInv

(* A minute that passes takes slots out of reach and spends nothing. *)
LEMMA MinuteStep ==
  ASSUME MeterInv, MinutePasses
  PROVE  MeterInv'
<1>1. MeterTyped /\ minute' = minute + 1 /\ minute' \in Minutes /\ UNCHANGED <<ring, spent>>
  BY MeterAssumption DEF MeterInv, MeterTyped, MinutePasses, Minutes
<1>2. MeterTyped'
  BY <1>1 DEF MeterTyped
<1>3. RingIsTrue'
  BY <1>1, MeterAssumption DEF MeterInv, MeterTyped, RingIsTrue, Minutes
<1>4. WindowsAreBounded'
  BY <1>1 DEF MeterInv, WindowsAreBounded, MeterWindow
<1> QED
  BY <1>2, <1>3, <1>4 DEF MeterInv

(* A request that the budget lets pass finds less than the budget in the ring, and adds itself to ring and spending alike
   (assertWithinBudget, meter). *)
LEMMA SendStep ==
  ASSUME MeterInv, NEW c \in Interactive, ~OverBudget(c), NEW left, NEW attempt, Send(c, left, attempt)
  PROVE  MeterInv'
<1>1. MeterTyped /\ RingIsTrue
  BY DEF MeterInv
<1>2. PICK k, t : k = minute % Ring /\ t = Tokens[c]
  OBVIOUS
<1>3. t \in Nat \ {0} /\ t <= Largest /\ Largest \in Nat
  BY <1>2, LargestIs
<1>4. minute \in Nat /\ k \in Slots /\ Minutes \subseteq Nat
  <2>1. minute \in Nat /\ Minutes \subseteq Nat
    BY <1>1 DEF MeterTyped, Minutes
  <2>2. Ring \in Nat \ {0}
    BY MeterAssumption
  <2>3. minute % Ring \in 0 .. Ring - 1
    BY <2>1, <2>2, SlotIs
  <2> QED
    BY <1>2, <2>1, <2>3 DEF Slots
<1>5. PICK a : a = (IF ring[k].minute = minute THEN ring[k].sent ELSE 0) + t
  OBVIOUS
<1>6. ring' = [ring EXCEPT ![k] = [minute |-> minute, sent |-> a]] /\ spent' = [spent EXCEPT ![minute] = @ + t] /\ minute' = minute
  BY <1>2, <1>5, Zenon DEF Send, Metered
<1>7. a = spent[minute] + t
  <2>1. ring[k].sent \in Nat /\ spent[minute] \in Nat
    BY <1>1, <1>4 DEF MeterTyped
  <2>2. CASE spent[minute] > 0
    <3>1. ring[k].minute = minute /\ ring[k].sent = spent[minute]
      BY <1>1, <1>2, <1>4, <2>2, MeterAssumption DEF MeterTyped, RingIsTrue
    <3> QED
      BY <1>5, <3>1
  <2>3. CASE spent[minute] = 0 /\ ring[k].minute = minute
    <3>1. ring[k].sent <= 0
      BY <1>1, <1>4, <2>3 DEF RingIsTrue
    <3> QED
      BY <1>5, <2>1, <2>3, <3>1
  <2>4. CASE spent[minute] = 0 /\ ring[k].minute # minute
    BY <1>5, <2>4
  <2> QED
    BY <2>1, <2>2, <2>3, <2>4
<1>8. /\ spent' \in [Minutes -> Nat] /\ spent'[minute] = spent[minute] + t
      /\ \A m \in Minutes : m # minute => spent'[m] = spent[m]
  BY <1>1, <1>3, <1>6 DEF MeterTyped
<1>9. /\ DOMAIN ring' = Slots /\ ring'[k].minute = minute /\ ring'[k].sent = a
      /\ \A slot \in Slots : slot # k => ring'[slot] = ring[slot]
  BY <1>1, <1>4, <1>6 DEF MeterTyped
<1>10. MeterTyped'
  <2>1. a \in Nat
    BY <1>1, <1>3, <1>7 DEF MeterTyped
  <2> QED
    BY <1>1, <1>6, <1>8, <1>9, <2>1 DEF MeterTyped
<1>11. RingIsTrue'
  <2>1. \A m \in Minutes : m > minute => spent'[m] = 0
    BY <1>1, <1>4, <1>8 DEF RingIsTrue
  <2>2. ASSUME NEW slot \in Slots
        PROVE  ring'[slot].sent <= spent'[ring'[slot].minute]
    <3>1. CASE slot = k
      BY <1>1, <1>3, <1>7, <1>8, <1>9, <3>1 DEF MeterTyped
    <3>2. CASE slot # k
      <4>1. PICK m : m = ring[slot].minute
        OBVIOUS
      <4>2. m \in Minutes /\ ring[slot].sent <= spent[m] /\ ring[slot].sent \in Nat /\ spent[m] \in Nat
        BY <1>1, <4>1 DEF MeterTyped, RingIsTrue
      <4>3. spent[m] <= spent'[m]
        BY <1>3, <1>8, <4>2
      <4> QED
        BY <1>8, <1>9, <1>3, <3>2, <4>1, <4>2, <4>3
    <3> QED
      BY <3>1, <3>2
  <2>3. ASSUME NEW m \in Minutes, spent'[m] > 0, m + Ring > minute
        PROVE  ring'[m % Ring].minute = m /\ ring'[m % Ring].sent = spent'[m]
    <3>1. CASE m = minute
      BY <1>2, <1>7, <1>8, <1>9, <3>1
    <3>2. CASE m # minute
      <4>1. spent'[m] = spent[m] /\ spent[m] > 0 /\ m \in Nat
        BY <1>4, <1>8, <2>3, <3>2
      <4>2. m < minute
        BY <1>1, <1>4, <3>2, <4>1 DEF RingIsTrue
      <4>3. m % Ring # k
        <5> SUFFICES ASSUME m % Ring = k PROVE FALSE
          OBVIOUS
        <5>1. m + Ring <= minute
          BY <1>2, <1>4, <4>1, <4>2, WrapsOnce, MeterAssumption
        <5> QED
          BY <1>4, <2>3, <4>1, <5>1, MeterAssumption
      <4>4. ring[m % Ring].minute = m /\ ring[m % Ring].sent = spent[m] /\ m % Ring \in Slots
        BY <1>1, <2>3, <4>1, SlotIs, MeterAssumption DEF RingIsTrue, Slots
      <4> QED
        BY <1>9, <4>1, <4>3, <4>4
    <3> QED
      BY <3>1, <3>2
  <2> QED
    BY <1>6, <2>1, <2>2, <2>3 DEF RingIsTrue
<1>12. WindowsAreBounded'
  <2> SUFFICES ASSUME BudgetLimit > 0, NEW from \in Minutes
               PROVE  SumFunctionOnSet(spent', MeterWindow(from)) < BudgetLimit + Largest
    BY DEF WindowsAreBounded, MeterWindow
  <2>1. PICK W, s, r : W = MeterWindow(from) /\ s = spent /\ r = spent'
    OBVIOUS
  <2>2. IsFiniteSet(W) /\ W \subseteq Minutes
    BY <2>1, WindowIsFinite
  <2>3. s \in [Minutes -> Nat] /\ r \in [Minutes -> Nat] /\ r[minute] = s[minute] + t /\ \A m \in Minutes : m # minute => r[m] = s[m]
    BY <1>1, <1>8, <2>1 DEF MeterTyped
  <2>4. SumFunctionOnSet(s, W) < BudgetLimit + Largest
    BY <2>1 DEF MeterInv, WindowsAreBounded
  <2>5. CASE minute \notin W
    <3>1. \A x \in W : s[x] \in Int /\ r[x] = s[x]
      BY <2>2, <2>3, <2>5
    <3>2. SumFunctionOnSet(s, W) = SumFunctionOnSet(r, W)
      BY <2>2, <3>1, SumsAreEqual
    <3> QED
      BY <2>1, <2>4, <3>2, Zenon
  <2>6. CASE minute \in W
    <3>1. PICK U : U = W \ {minute}
      OBVIOUS
    <3>2. IsFiniteSet(U) /\ U \subseteq W
      BY <2>2, <3>1, FS_Subset
    <3>3. SumFunctionOnSet(s, U) = SumFunctionOnSet(r, U)
      <4>1. \A x \in U : s[x] \in Int /\ r[x] = s[x]
        BY <2>2, <2>3, <3>1
      <4> QED
        BY <3>2, <4>1, SumsAreEqual
    <3>4. SumFunctionOnSet(s, W) = s[minute] + SumFunctionOnSet(s, U)
      <4>1. \A x \in W : s[x] \in Int
        BY <2>2, <2>3
      <4> QED
        BY <2>2, <2>6, <3>1, <4>1, SumTakesOut
    <3>5. SumFunctionOnSet(r, W) = r[minute] + SumFunctionOnSet(r, U)
      <4>1. \A x \in W : r[x] \in Int
        BY <2>2, <2>3
      <4> QED
        BY <2>2, <2>6, <3>1, <4>1, SumTakesOut
    <3>6. SumFunctionOnSet(s, W) <= WindowTokens(ring) /\ WindowTokens(ring) \in Nat
      BY <1>1, <2>1, <2>6, RingCoversWindow
    <3>7. WindowTokens(ring) < BudgetLimit
      BY <3>6, MeterAssumption DEF OverBudget
    <3>8. PICK x, y, z, w : x = SumFunctionOnSet(s, W) /\ y = SumFunctionOnSet(s, U) /\ z = SumFunctionOnSet(r, W) /\ w = WindowTokens(ring)
      OBVIOUS
    <3>9. y \in Nat /\ s[minute] \in Nat
      <4>1. \A m \in U : s[m] \in Nat
        BY <2>2, <2>3, <3>2
      <4>2. SumFunctionOnSet(s, U) \in Nat
        BY <3>2, <4>1, SumIsNatural
      <4> QED
        BY <2>2, <2>3, <2>6, <3>8, <4>2
    <3>10. x = s[minute] + y /\ z = s[minute] + t + y /\ x <= w /\ w < BudgetLimit /\ w \in Nat
      <4>1. z = r[minute] + y
        BY <3>3, <3>5, <3>8, Zenon
      <4>2. r[minute] = s[minute] + t
        BY <2>3
      <4>3. x = s[minute] + y
        BY <3>4, <3>8, Zenon
      <4>4. x <= w /\ w < BudgetLimit /\ w \in Nat
        BY <3>6, <3>7, <3>8, Zenon
      <4> QED
        BY <4>1, <4>2, <4>3, <4>4
    <3>11. z < BudgetLimit + Largest
      BY <1>3, <3>9, <3>10, MeterAssumption
    <3> QED
      BY <2>1, <3>8, <3>11, Zenon
  <2> QED
    BY <2>5, <2>6
<1> QED
  BY <1>10, <1>11, <1>12 DEF MeterInv

(* A request that is refused, or that nobody waits on, is in neither. *)
LEMMA RequestStep ==
  ASSUME MeterInv, NEW c \in Caller, NEW left, NEW attempt, Request(c, left, attempt)
  PROVE  MeterInv'
<1>1. CASE Refuse(c)
  BY <1>1, MeterUntouched DEF Refuse
<1>2. CASE ~Refused(c) /\ Send(c, left, attempt) /\ c \in Interactive
  BY <1>2, SendStep DEF Refused
<1>3. CASE Send(c, left, attempt) /\ c \notin Interactive
  BY <1>3, MeterUntouched DEF Send
<1> QED
  BY <1>1, <1>2, <1>3 DEF Request

(* Every step of callers, answers and clock keeps the meter so. *)
LEMMA MeterStep ==
  ASSUME MeterInv, [MeterNext]_meterVars
  PROVE  MeterInv'
<1>1. CASE MinutePasses
  BY <1>1, MinuteStep
<1>2. ASSUME NEW c \in Caller, Embed(c) \/ NextBatch(c) \/ Retry(c)
      PROVE  MeterInv'
  <2>1. PICK left, attempt : Request(c, left, attempt)
    BY <1>2 DEF Embed, NextBatch, Retry
  <2> QED
    BY <2>1, RequestStep
<1>3. ASSUME NEW c \in Caller, Answered(c) \/ Lost(c) \/ ServerError(c) \/ Rejected(c)
      PROVE  MeterInv'
  <2>1. UNCHANGED <<ring, spent>> /\ minute' = minute
    BY <1>3 DEF Answered, Lost, ServerError, Rejected
  <2> QED
    BY <2>1, MeterUntouched
<1>4. ASSUME UNCHANGED meterVars
      PROVE  MeterInv'
  <2>1. UNCHANGED <<ring, spent>> /\ minute' = minute
    BY <1>4 DEF meterVars
  <2> QED
    BY <2>1, MeterUntouched
<1> QED
  BY <1>1, <1>2, <1>3, <1>4 DEF MeterNext

(* So the spending is bounded. *)
LEMMA MeterInvBounds ==
  ASSUME MeterInv
  PROVE  SpendIsBounded
BY DEF MeterInv, WindowsAreBounded, SpendIsBounded, MeterWindow, Largest
=============================================================================
