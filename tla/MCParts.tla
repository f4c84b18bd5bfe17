------------------------------- MODULE MCParts -------------------------------
(***************************************************************************)
(* The parts of the system that keep state of their own and share none, in *)
(* one run of TLC.  A behaviour is one part at work, the others do not     *)
(* exist: the states add up instead of multiplying.  To keep a state small *)
(* the parts that are instantiated take their variables from one set,      *)
(* v1 .. v21, which stand for nothing but what the part at work makes of   *)
(* them; what a part has no use for is 0.                                  *)
(***************************************************************************)
EXTENDS Migration, PluginCache, VectorClusters, Installation, ObservationUpkeep, CrossAi, DeployGuard, BackupRestore, ObservationStore, EmbedderMeter, TLC

VARIABLES
  part,      \* the part at work
  v1, v2, v3, v4, v5, v6, v7, v8, v9, v10, v11, v12, v13, v14, v15, v16, v17, v18, v19, v20, v21

used == <<v1, v2, v3, v4, v5, v6, v7, v8, v9, v10, v11, v12, v13, v14, v15, v16, v17, v18, v19, v20, v21>>
extendedVars == <<migrationVars, cacheVars, clusterVars, installationVars, upkeepVars, crossVars, deployVars, backupVars,
                  storeVars, meterVars>>
partVars == <<part, used, extendedVars>>

-----------------------------------------------------------------------------
(* The parts                                                               *)

MCSourceRow == {<<"observation", 1>>, <<"observation", 2>>, <<"summary", 1>>, <<"summary", 2>>}
MCPieces == [r \in MCSourceRow |-> CASE r = <<"observation", 2>> -> 2 [] r = <<"summary", 1>> -> 0 [] OTHER -> 1]

MCAlike == [dedup |-> {{1, 3}, {1, 4}}, semantic |-> {{1, 2}}]
MCSession == <<"a", "a", "b">>
MCScope == <<"p", "p", "p", "p">>
MCTokens == [query |-> 1, ingest |-> 2]
MCChannel == [memory |-> "memory", long |-> "observation", brief |-> "observation"]

PutFile(h, p, plain) == [verb |-> "put", host |-> h, path |-> p, plain |-> plain]
GetFile(h, p) == [verb |-> "get", host |-> h, path |-> p, plain |-> TRUE]
MCCommand ==
  {<<PutFile("host", "dir", TRUE)>>, <<PutFile("host", "dir/file", TRUE)>>, <<GetFile("host", "dir/file")>>,
   <<PutFile("host", "dir", FALSE)>>, <<PutFile("host", "dir", TRUE), PutFile("root@host", "dir/file", TRUE)>>}

MCMayLift == {<<"host", "dir/file">>}
MCVersionOf == <<1, 2>>

MCSetup == {[user |-> "none", etc |-> "B"], [user |-> "B", etc |-> "none"]}
MCElsewhere ==
  {[files |-> [meta |-> {"r2"}, observations |-> {"r2"}, vectors |-> {<<"r2", "A">>}],
    env |-> "A", model |-> "A", marred |-> FALSE]}

Usage == INSTANCE UsageStats WITH
  MaxRecords <- [session |-> 2, agent |-> 1], Remembered <- 1, StatsCaller <- {"c1", "c2"}, MaxLines <- 3,
  MaxCuts <- 1, MaxWrites <- 3,
  file <- v1, result <- v2, acc <- v3, scan <- v4, allTime <- v5, due <- v6, script <- v7, names <- v8,
  wasNamed <- v9, log <- v10, cuts <- v11, injected <- v12, tally <- v13, dream <- v14, writes <- v15,
  cache <- v16, stale <- v17, gen <- v18, inflight <- v19, compute <- v20, ask <- v21

Envelope == INSTANCE Recall WITH
  Client <- {"c1"}, Item <- {"memory", "long", "brief"}, Channel <- MCChannel, Size <- [memory |-> 3, long |-> 4, brief |-> 1],
  MaxTop <- 2, Budget <- {0, 3, 6, 9, 12}, PoolFactor <- 2, PerStrategy <- 3, SnippetFloor <- 2, MaxRequests <- 1, MaxChanges <- 1,
  present <- v1, archived <- v2, sunk <- v3, superseded <- v4, request <- v5, answer <- v6, relay <- v7,
  counted <- v8, shown <- v9, requests <- v10, changes <- v11

Sources == INSTANCE TranscriptSources WITH
  MaxSourceRecords <- 3, MaxRewrites <- 1, Window <- 2, AnyOpening <- FALSE,
  format <- v1, source <- v2, torn <- v3, rewrites <- v4, resume <- v5

(* The sessions of the plugin cache and of the deploy guard are alike. *)
Sessions == Permutations(Claude)

ASSUME PartsAssumption ==
  /\ Usage!StatsAssumption /\ Sources!TranscriptAssumption

-----------------------------------------------------------------------------
(* What a part does not use is 0.                                          *)
NoMigration ==
  /\ inSource = 0 /\ migrated = 0 /\ documents = 0 /\ chunks = 0 /\ vectors = 0 /\ importer = 0 /\ migrations = 0
NoCache == checkout = 0 /\ active = 0 /\ tree = 0 /\ loaded = 0 /\ refresh = 0 /\ doomed = 0
NoClusters ==
  /\ vec = 0 /\ old = 0 /\ named = 0 /\ centroids = 0 /\ flat = 0 /\ nextId = 0 /\ builtFor = 0 /\ adding = 0
  /\ clustering = 0 /\ written = 0 /\ relics = 0
NoInstallation ==
  /\ env = 0 /\ bak = 0 /\ unit = 0 /\ up = 0 /\ setup = 0 /\ setups = 0 /\ plugin = 0 /\ market = 0 /\ marker = 0
  /\ healing = 0 /\ chosen = 0 /\ removed = 0
NoUpkeep ==
  /\ sea = 0 /\ sweep = 0 /\ day = 0 /\ stamp = 0 /\ shadow = 0 /\ memory = 0 /\ slice = 0 /\ newer = 0 /\ link = 0
NoCross ==
  /\ tool = 0 /\ path = 0 /\ doc = 0 /\ skill = 0 /\ pulled = 0 /\ connect = 0 /\ count = 0 /\ entered = 0
NoDeploy ==
  /\ isDir = 0 /\ server = 0 /\ copy = 0 /\ held = 0 /\ base = 0 /\ claim = 0 /\ forced = 0 /\ shell = 0
  /\ versions = 0 /\ commands = 0
NoBackup ==
  /\ disk = 0 /\ wal = 0 /\ aside = 0 /\ envModel = 0 /\ worker = 0 /\ archive = 0 /\ op = 0 /\ pending = 0 /\ born = 0
  /\ known = 0 /\ marred = 0 /\ unclosed = 0 /\ operations = 0 /\ cuts = 0
NoStore ==
  /\ obs = 0 /\ ledger = 0 /\ blocks = 0 /\ declines = 0 /\ pass = 0 /\ themes = 0 /\ epoch = 0 /\ folds = 0
  /\ started = 0 /\ own = 0
NoMeter ==
  /\ minute = 0 /\ ring = 0 /\ budgetUntil = 0 /\ waste = 0 /\ pausedUntil = 0 /\ call = 0 /\ spent = 0
UpkeepParts == {"tide", "link", "promotion"}
NoOther ==
  /\ part # "migration" => NoMigration
  /\ part # "cache" => NoCache
  /\ part # "clusters" => NoClusters
  /\ part # "installation" => NoInstallation
  /\ part \notin UpkeepParts => NoUpkeep
  /\ part # "crossAi" => NoCross
  /\ part # "deploy" => NoDeploy
  /\ part # "backup" => NoBackup
  /\ part # "store" => NoStore
  /\ part # "meter" => NoMeter
Unused(n) ==
  /\ (n < 1 => v1 = 0) /\ (n < 2 => v2 = 0) /\ (n < 3 => v3 = 0)
  /\ (n < 4 => v4 = 0) /\ (n < 5 => v5 = 0) /\ (n < 6 => v6 = 0)
  /\ (n < 7 => v7 = 0) /\ (n < 8 => v8 = 0) /\ (n < 9 => v9 = 0)
  /\ (n < 10 => v10 = 0) /\ (n < 11 => v11 = 0) /\ (n < 12 => v12 = 0)
  /\ (n < 13 => v13 = 0) /\ (n < 14 => v14 = 0) /\ (n < 15 => v15 = 0)
  /\ (n < 16 => v16 = 0) /\ (n < 17 => v17 = 0) /\ (n < 18 => v18 = 0)
  /\ (n < 19 => v19 = 0) /\ (n < 20 => v20 = 0) /\ (n < 21 => v21 = 0)

Rest ==
  /\ UNCHANGED part
  /\ part # "migration" => UNCHANGED migrationVars
  /\ part # "cache" => UNCHANGED cacheVars
  /\ part # "clusters" => UNCHANGED clusterVars
  /\ part # "installation" => UNCHANGED installationVars
  /\ part \notin UpkeepParts => UNCHANGED upkeepVars
  /\ part # "crossAi" => UNCHANGED crossVars
  /\ part # "deploy" => UNCHANGED deployVars
  /\ part # "backup" => UNCHANGED backupVars
  /\ part # "store" => UNCHANGED storeVars
  /\ part # "meter" => UNCHANGED meterVars
KeepUnused(n) ==      \* no part has fewer than five
  /\ (n < 6 => UNCHANGED v6)
  /\ (n < 7 => UNCHANGED v7) /\ (n < 8 => UNCHANGED v8) /\ (n < 9 => UNCHANGED v9)
  /\ (n < 10 => UNCHANGED v10) /\ (n < 11 => UNCHANGED v11) /\ (n < 12 => UNCHANGED v12)
  /\ (n < 13 => UNCHANGED v13) /\ (n < 14 => UNCHANGED v14) /\ (n < 15 => UNCHANGED v15)
  /\ (n < 16 => UNCHANGED v16) /\ (n < 17 => UNCHANGED v17) /\ (n < 18 => UNCHANGED v18)
  /\ (n < 19 => UNCHANGED v19) /\ (n < 20 => UNCHANGED v20) /\ (n < 21 => UNCHANGED v21)

PartsInit ==
  \/ part = "migration" /\ MigrationInit /\ Unused(0) /\ NoOther
  \/ part = "cache" /\ CacheInit /\ Unused(0) /\ NoOther
  \/ part = "clusters" /\ ClustersInit /\ Unused(0) /\ NoOther
  \/ part = "installation" /\ InstallationInit /\ Unused(0) /\ NoOther
  \/ part \in UpkeepParts /\ UpkeepInit /\ Unused(0) /\ NoOther
  \/ part = "crossAi" /\ CrossInit /\ Unused(0) /\ NoOther
  \/ part = "deploy" /\ DeployInit /\ Unused(0) /\ NoOther
  \/ part = "store" /\ StoreInit /\ Unused(0) /\ NoOther
  \/ part = "meter" /\ MeterInit /\ Unused(0) /\ NoOther
  \/ part \in {"scan", "naming", "audit", "snapshot"} /\ Usage!StatsInit /\ Unused(21) /\ NoOther
  \/ part = "recall" /\ Envelope!RecallInit /\ Unused(11) /\ NoOther
  \/ part = "source" /\ Sources!SourceInit /\ Unused(5) /\ NoOther
  \/ part = "backup" /\ BackupInit /\ Unused(0) /\ NoOther

PartsNext ==
  \/ part = "migration" /\ MigrationNext /\ Rest /\ UNCHANGED used
  \/ part = "cache" /\ CacheNext /\ Rest /\ UNCHANGED used
  \/ part = "clusters" /\ ClustersNext /\ Rest /\ UNCHANGED used
  \/ part = "installation" /\ InstallationNext /\ Rest /\ UNCHANGED used
  \/ part = "tide" /\ TideNext /\ Rest /\ UNCHANGED used
  \/ part = "link" /\ LinkNext /\ Rest /\ UNCHANGED used
  \/ part = "promotion" /\ PromotionNext /\ Rest /\ UNCHANGED used
  \/ part = "crossAi" /\ CrossNext /\ Rest /\ UNCHANGED used
  \/ part = "deploy" /\ DeployNext /\ Rest /\ UNCHANGED used
  \/ part = "store" /\ StoreNext /\ Rest /\ UNCHANGED used
  \/ part = "meter" /\ MeterNext /\ Rest /\ UNCHANGED used
  \/ part = "scan" /\ Usage!ScanNext /\ Rest
  \/ part = "naming" /\ Usage!NamingNext /\ Rest
  \/ part = "audit" /\ Usage!AuditNext /\ Rest
  \/ part = "snapshot" /\ Usage!SnapshotNext /\ Rest
  \/ part = "recall" /\ Envelope!RecallNext /\ Rest /\ KeepUnused(11)
  \/ part = "source" /\ Sources!SourceNext /\ Rest /\ KeepUnused(5)
  \/ part = "backup" /\ BackupNext /\ Rest /\ UNCHANGED used

PartsSpec == PartsInit /\ [][PartsNext]_partVars

-----------------------------------------------------------------------------
(* Properties: those of the modules, each for the behaviours of its part.  *)

(* Every part keeps its types. *)
PartsTypeOK ==
  /\ part = "store" => StoreTypeOK
  /\ part \in UpkeepParts => UpkeepTypeOK
  /\ part = "clusters" => ClustersTypeOK
  /\ part = "meter" => MeterTypeOK
  /\ part = "migration" => MigrationTypeOK
  /\ part \in {"scan", "naming", "audit", "snapshot"} => Usage!StatsTypeOK
  /\ part = "recall" => Envelope!RecallTypeOK
  /\ part = "source" => Sources!SourceTypeOK
  /\ part = "installation" => InstallationTypeOK
  /\ part = "cache" => CacheTypeOK
  /\ part = "crossAi" => CrossTypeOK
  /\ part = "deploy" => DeployTypeOK
  /\ part = "backup" => BackupTypeOK

(* Recall counters agree with their ledger through every fold and undo, and every fold can be taken back
   (module ObservationStore: bumpRetrieval, mergeDuplicateGroup, unmergeDuplicateGroup, the theme commands). *)
ObservationsAreKept == part = "store" => CountsAreLedgered /\ FoldsAreReversible

(* What is stamped promoted is in a memory file (module ObservationUpkeep: the promotion pass). *)
PromotionsAreWritten == part \in UpkeepParts => PromotedIsWritten

(* A vector is probed by some query and none is lost, through repairs, sweeps and additions
   (module VectorClusters: add, sweepUnclustered, the clustering repair). *)
VectorsAreFound == part = "clusters" => EveryVectorIsProbed /\ SweepKeepsVectors

(* What the embedder spends stays under its budgets (module EmbedderMeter). *)
EmbedderSpendIsBounded == part = "meter" => SpendIsBounded

(* A migration run again until it reports no error has brought every row over, once (module Migration). *)
MigrationBringsAllOver == part = "migration" => MigrationIsWhole

(* The figures of /stats are those of the transcripts and logs (module UsageStats). *)
StatsAreExact == part \in {"scan", "naming", "audit", "snapshot"} => Usage!FiguresAreExact

(* What is injected fits its budget, wastes none of it and is what is counted (module Recall). *)
InjectionsAreTrue == part = "recall" => Envelope!InjectionIsTrue

(* Reading on from a resume point gives what reading the whole transcript does (module TranscriptSources). *)
ResumingIsFaithful == part = "source" => Sources!ResumeReadsTheSame

(* Settings survive, and what was removed stays removed (module Installation). *)
InstallationIsSafe == part = "installation" => InstallationSafety

(* A restore loses nothing and leaves what it says, and vacuum and upgrade leave the worker as they found it
   (module BackupRestore). *)
BackupsKeepTheCorpus == part = "backup" => BackupsAreSound

(* No tree of the plugin cache that a session runs from is deleted (module PluginCache). *)
SessionsKeepTheirTree == part = "cache" => TreesInUseStay

(* Connecting a tool again doubles nothing and takes nothing of others (module CrossAi). *)
ToolsStayUsable == part = "crossAi" => ConnectIsSafe

(* No upload the guard vouched for destroys what its session has never had (module DeployGuard). *)
DeploysDestroyNothing == [][part = "deploy" => \A s \in Deployer : ~Destroys(s)]_partVars
=============================================================================
