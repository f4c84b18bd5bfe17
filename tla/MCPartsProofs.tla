---------------------------- MODULE MCPartsProofs ----------------------------
(***************************************************************************)
(* What the parts promise, for the behaviours of MCParts: a behaviour that *)
(* is one part stays that part, and its steps are that part's, so what     *)
(* PartsProofs shows of the part holds of the behaviour.                   *)
(***************************************************************************)
EXTENDS MCParts, PartsProofs

-----------------------------------------------------------------------------
(* A behaviour is one part at work                                         *)

(* A behaviour that is one part begins as that part does. *)
LEMMA PartBegins ==
  ASSUME PartsInit
  PROVE  /\ part = "cache" => CacheInit
         /\ part = "migration" => MigrationInit
         /\ part = "clusters" => ClustersInit
         /\ part = "installation" => InstallationInit
         /\ part \in UpkeepParts => UpkeepInit
         /\ part = "deploy" => DeployInit
         /\ part = "crossAi" => CrossInit
         /\ part = "backup" => BackupInit
         /\ part = "store" => StoreInit
         /\ part = "meter" => MeterInit
BY DEF PartsInit, UpkeepParts

(* No step makes one part another. *)
LEMMA PartStays ==
  ASSUME [PartsNext]_partVars
  PROVE  part' = part
<1>1. CASE PartsNext
  BY <1>1, Zenon DEF PartsNext, Rest
<1>2. CASE UNCHANGED partVars
  BY <1>2, Zenon DEF partVars
<1> QED
  BY <1>1, <1>2, Zenon

(* The steps of a behaviour that is the plugin cache are the plugin cache's. *)
LEMMA CacheGoesOn ==
  ASSUME [PartsNext]_partVars, part = "cache"
  PROVE  [CacheNext]_cacheVars
<1>1. CASE PartsNext
  BY <1>1 DEF PartsNext, UpkeepParts
<1>2. CASE UNCHANGED partVars
  BY <1>2, Zenon DEF partVars, extendedVars
<1> QED
  BY <1>1, <1>2, Zenon

(* And the steps of one that is a migration are the migration's. *)
LEMMA MigrationGoesOn ==
  ASSUME [PartsNext]_partVars, part = "migration"
  PROVE  [MigrationNext]_migrationVars
<1>1. CASE PartsNext
  BY <1>1 DEF PartsNext, UpkeepParts
<1>2. CASE UNCHANGED partVars
  BY <1>2, Zenon DEF partVars, extendedVars
<1> QED
  BY <1>1, <1>2, Zenon

(* And those of one that is an installation are the installation's. *)
LEMMA InstallationGoesOn ==
  ASSUME [PartsNext]_partVars, part = "installation"
  PROVE  [InstallationNext]_installationVars
<1>1. CASE PartsNext
  BY <1>1 DEF PartsNext, UpkeepParts
<1>2. CASE UNCHANGED partVars
  BY <1>2, Zenon DEF partVars, extendedVars
<1> QED
  BY <1>1, <1>2, Zenon

(* And those of one that is the vector store are the clusters'. *)
LEMMA ClustersGoOn ==
  ASSUME [PartsNext]_partVars, part = "clusters"
  PROVE  [ClustersNext]_clusterVars
<1>1. CASE PartsNext
  BY <1>1 DEF PartsNext, UpkeepParts
<1>2. CASE UNCHANGED partVars
  BY <1>2, Zenon DEF partVars, extendedVars
<1> QED
  BY <1>1, <1>2, Zenon

(* And those of one that is the tide, the links or the promotion are theirs. *)
LEMMA UpkeepGoesOn ==
  ASSUME [PartsNext]_partVars, part \in UpkeepParts
  PROVE  [TideNext \/ LinkNext]_upkeepVars \/ [PromotionNext]_upkeepVars
<1>1. CASE PartsNext
  BY <1>1 DEF PartsNext, UpkeepParts
<1>2. CASE UNCHANGED partVars
  BY <1>2, Zenon DEF partVars, extendedVars
<1> QED
  BY <1>1, <1>2, Zenon

(* And those of one that is the deploy guard are the guard's. *)
LEMMA DeploysGoOn ==
  ASSUME [PartsNext]_partVars, part = "deploy"
  PROVE  [DeployNext]_deployVars
<1>1. CASE PartsNext
  BY <1>1 DEF PartsNext, UpkeepParts
<1>2. CASE UNCHANGED partVars
  BY <1>2, Zenon DEF partVars, extendedVars
<1> QED
  BY <1>1, <1>2, Zenon

(* And those of one that connects a tool are the connect's. *)
LEMMA ConnectsGoOn ==
  ASSUME [PartsNext]_partVars, part = "crossAi"
  PROVE  [CrossNext]_crossVars
<1>1. CASE PartsNext
  BY <1>1 DEF PartsNext, UpkeepParts
<1>2. CASE UNCHANGED partVars
  BY <1>2, Zenon DEF partVars, extendedVars
<1> QED
  BY <1>1, <1>2, Zenon

(* And those of one that backs up and restores are the commands' and the worker's. *)
LEMMA BackupsGoOn ==
  ASSUME [PartsNext]_partVars, part = "backup"
  PROVE  [BackupNext]_backupVars
<1>1. CASE PartsNext
  BY <1>1 DEF PartsNext, UpkeepParts
<1>2. CASE UNCHANGED partVars
  BY <1>2, Zenon DEF partVars, extendedVars
<1> QED
  BY <1>1, <1>2, Zenon

(* And those of one that is the table of observations are recalls', passes' and commands'. *)
LEMMA RowsGoOn ==
  ASSUME [PartsNext]_partVars, part = "store"
  PROVE  [StoreNext]_storeVars
<1>1. CASE PartsNext
  BY <1>1 DEF PartsNext, UpkeepParts
<1>2. CASE UNCHANGED partVars
  BY <1>2, Zenon DEF partVars, extendedVars
<1> QED
  BY <1>1, <1>2, Zenon

(* And those of one that is an embedder are its callers' and the clock's. *)
LEMMA MeterGoesOn ==
  ASSUME [PartsNext]_partVars, part = "meter"
  PROVE  [MeterNext]_meterVars
<1>1. CASE PartsNext
  BY <1>1 DEF PartsNext, UpkeepParts
<1>2. CASE UNCHANGED partVars
  BY <1>2, Zenon DEF partVars, extendedVars
<1> QED
  BY <1>1, <1>2, Zenon

-----------------------------------------------------------------------------
(* What the parts promise                                                  *)

(* A running session never loses the tree it runs from and a new one always finds the active tree
   (refreshPluginCacheIfStale, planPrune, removeCacheTree). *)
THEOREM SessionsKeepTheirTrees == PartsSpec => []SessionsKeepTheirTree
<1> DEFINE Kept == part = "cache" => CacheInv
<1>1. PartsInit => Kept
  BY CacheBegins, PartBegins
<1>2. Kept /\ [PartsNext]_partVars => Kept'
  BY PartStays, CacheGoesOn, CacheStep
<1>3. Kept => SessionsKeepTheirTree
  BY DEF SessionsKeepTheirTree, CacheInv, CacheIsKept, TreesInUseStay
<1> QED
  BY <1>1, <1>2, <1>3, PTL DEF PartsSpec

(* A row that is marked is in the index whole and no vector outlives its chunk, whatever was killed or failed between
   two statements; and a run that was given no limit and came to its end leaves only rows that failed themselves
   (runMigration, its flush, commitDocument). *)
THEOREM MigrationsBringAllOver == PartsSpec => []MigrationBringsAllOver
<1> DEFINE Whole == part = "migration" => MigrationInv
<1>1. PartsInit => Whole
  BY MigrationBegins, PartBegins
<1>2. Whole /\ [PartsNext]_partVars => Whole'
  BY PartStays, MigrationGoesOn, MigrationStep
<1>3. Whole => MigrationBringsAllOver
  BY MigrationKeepsPromise DEF MigrationBringsAllOver
<1> QED
  BY <1>1, <1>2, <1>3, PTL DEF PartsSpec

(* A search that probes every cluster meets every chunk that has a vector with a direction, and the sweep changes and loses
   no vector, however repairs, adds, deletions and placements are interleaved (add, delete, migrateLegacyBatch,
   reassignClusterBatch, the slices of ivf-sweep.ts). *)
THEOREM VectorsStayFound == PartsSpec => []VectorsAreFound
<1> DEFINE Sound == part = "clusters" => ClustersInv
<1>1. PartsInit => Sound
  BY ClustersBegin, PartBegins
<1>2. Sound /\ [PartsNext]_partVars => Sound'
  BY PartStays, ClustersGoOn, ClustersStep
<1>3. Sound => VectorsAreFound
  BY DEF VectorsAreFound, ClustersInv, ClustersAreThere, EveryVectorIsProbed, Probed, IsProbed
<1> QED
  BY <1>1, <1>2, <1>3, PTL DEF PartsSpec

(* Wherever an install or uninstall is cut off, what the operator settled on is in worker.env or its backup, and a plugin
   that was removed stays removed: where removing the service ends the worker (not so on Windows), and where nobody is
   told that a config is kept which then is not (installCommand, uninstallCommand, healPluginRegistration). *)
THEOREM InstallationsAreSafe == StopsWorker /\ ~OffersKeep => (PartsSpec => []InstallationIsSafe)
<1> SUFFICES ASSUME StopsWorker, ~OffersKeep PROVE PartsSpec => []InstallationIsSafe
  OBVIOUS
<1> DEFINE Safe == part = "installation" => SettingsInv /\ RemovalInv
<1>1. PartsInit => Safe
  BY InstallationBegins, PartBegins
<1>2. Safe /\ [PartsNext]_partVars => Safe'
  BY PartStays, InstallationGoesOn, SettingsStep, RemovalStep
<1>3. Safe => InstallationIsSafe
  BY DEF InstallationIsSafe, InstallationSafety, SettingsSurvive, RemovedStaysRemoved, SettingsInv, FilesAreChosen,
         RemovalInv, NobodyPutsItBack
<1> QED
  BY <1>1, <1>2, <1>3, PTL DEF PartsSpec

(* A row that is stamped promoted, which no slice looks at again, has its memory: whatever fails or is killed between writing
   the file and stamping the row, and whatever the other slice does to the row meanwhile (the promotion pass). *)
THEOREM PromotionsHaveMemories == PartsSpec => []PromotionsAreWritten
<1> DEFINE Written == part \in UpkeepParts => PromotedInv
<1>1. PartsInit => Written
  BY UpkeepBegins, PartBegins
<1>2. Written /\ [PartsNext]_partVars => Written'
  BY PartStays, UpkeepGoesOn, TideKeepsPromoted, PromotionStep
<1>3. Written => PromotionsAreWritten
  BY DEF PromotionsAreWritten, PromotedInv
<1> QED
  BY <1>1, <1>2, <1>3, PTL DEF PartsSpec

(* No upload that the guard vouched for destroys a content its session has never had in its hands, unless it came there after
   the check and past the claims, under a name this session does not claim or from somebody who claims nothing: for any sessions,
   hosts, commands and overrides (checkUploads, the claims in work-notes, recordBaseline). *)
THEOREM DeploysAreVouched == PartsSpec => DeploysDestroyNothing
<1> DEFINE Vouched == part = "deploy" => DeployInv
<1>1. PartsInit => Vouched
  BY DeployBegins, PartBegins
<1>2. Vouched /\ [PartsNext]_partVars => Vouched'
  BY PartStays, DeploysGoOn, DeployStep
<1>3. Vouched => (part = "deploy" => \A s \in Deployer : ~Destroys(s))
  BY NothingUnknown
<1> QED
  BY <1>1, <1>2, <1>3, PTL DEF PartsSpec, DeploysDestroyNothing

(* Whatever earlier connects left, cut off or made from another checkout, one that finishes alone and reports a registration
   leaves exactly one, at this checkout, and one that reports native hooks exactly one set; what others entered stays, and
   what they want to be asked about is asked; Kimi starts (connect's merges, the worker's refresh, edits of everybody else). *)
THEOREM ToolsAreSafe == PartsSpec => []ToolsStayUsable
<1> DEFINE Usable == part = "crossAi" => CrossInv
<1>1. PartsInit => Usable
  BY CrossBegins, PartBegins
<1>2. Usable /\ [PartsNext]_partVars => Usable'
  BY PartStays, ConnectsGoOn, CrossStep
<1>3. Usable => ToolsStayUsable
  BY ConnectsAreSafe DEF ToolsStayUsable
<1> QED
  BY <1>1, <1>2, <1>3, PTL DEF PartsSpec

(* What the worker committed is in the data directory or moved aside, wherever a command is cut short, unless a restore could
   not close the databases; an undisturbed restore serves the archive and nothing older, with vectors of the model that runs;
   every chunk has its observation, in archives too; a worker that was stopped is brought back: where backups and restores are
   begun with the worker up, and what comes from elsewhere is sound (createBackup, restoreBackup, vacuum, upgrade). *)
THEOREM BackupsAreKept == ~AsksDown /\ ElsewhereIsSound => (PartsSpec => []BackupsKeepTheCorpus)
<1> SUFFICES ASSUME ~AsksDown, ElsewhereIsSound PROVE PartsSpec => []BackupsKeepTheCorpus
  OBVIOUS
<1> DEFINE Kept == part = "backup" => BackupsInv
<1>1. PartsInit => Kept
  BY BackupBegins, PartBegins
<1>2. Kept /\ [PartsNext]_partVars => Kept'
  BY PartStays, BackupsGoOn, BackupsKeepOn
<1>3. Kept => BackupsKeepTheCorpus
  BY DEF BackupsKeepTheCorpus, BackupsInv
<1> QED
  BY <1>1, <1>2, <1>3, PTL DEF PartsSpec

(* A row's counts are its own recalls and what the open folds into it brought, and what is archived under an observation has
   an open fold that an undo takes back: however recalls, the two passes, themes and undos in any parts are interleaved
   (bumpRetrieval, mergeDuplicateGroup, unmergeDuplicateGroup, createTheme, unmakeTheme). *)
THEOREM FoldsCanBeUndone == PartsSpec => []ObservationsAreKept
<1> DEFINE Kept == part = "store" => StoreInv
<1>1. PartsInit => Kept
  BY StoreBegins, PartBegins
<1>2. Kept /\ [PartsNext]_partVars => Kept'
  BY PartStays, RowsGoOn, StoreStep
<1>3. Kept => ObservationsAreKept
  BY DEF ObservationsAreKept, StoreInv, RowsAreKept
<1> QED
  BY <1>1, <1>2, <1>3, PTL DEF PartsSpec

(* In no hour, wherever it begins, do the callers somebody waits on send the budget and more than one request over it: for
   any callers, requests, repeats, ring and budget (assertWithinBudget before every batch and repeat, meter). *)
THEOREM BudgetsHold == PartsSpec => []EmbedderSpendIsBounded
<1> DEFINE Metering == part = "meter" => MeterInv
<1>1. PartsInit => Metering
  BY MeterBegins, PartBegins
<1>2. Metering /\ [PartsNext]_partVars => Metering'
  BY PartStays, MeterGoesOn, MeterStep
<1>3. Metering => EmbedderSpendIsBounded
  BY MeterInvBounds DEF EmbedderSpendIsBounded
<1> QED
  BY <1>1, <1>2, <1>3, PTL DEF PartsSpec
=============================================================================
