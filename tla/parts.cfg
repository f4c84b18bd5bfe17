SPECIFICATION PartsSpec
CONSTANTS
  SourceRow <- MCSourceRow
  Pieces <- MCPieces
  BatchSize = 2
  Limits = {1}
  MaxMigrations = 2
  Claude = {s1, s2}
  Refresher = {"h1", "h2"}
  MaxVersion = 3
  SeesProcesses = TRUE
  Vector = {"zero", "a", "b"}
  VectorChunk = {"c1", "c2"}
  Adder = {"a1"}
  MinCorpus = 1
  SweepBatch = 1
  Regrow = 2
  MaxCluster = 3
  HandKey = {"k1"}
  MaxSetups = 3
  StopsWorker = TRUE
  OffersKeep = FALSE
  Obs = {1, 2}
  Version <- MCVersionOf
  AgeFloor = 1
  ArchiveAge = 2
  MaxPerRun = 1
  MaxDays = 3
  Path = {"p1", "p2"}
  Entry = {"e1"}
  MaxConnects = 2
  MaxEdits = 1
  Deployer = {s1, s2}
  Host = {"host", "root@host"}
  Command <- MCCommand
  MaxChecked = 1
  KeptBases = 1
  MaxVersions = 1
  MaxCommands = 2
  MayLift <- MCMayLift
  Observation = {"r1", "r2"}
  EmbedderModel = {"A", "B"}
  DefaultModel = "A"
  Setup <- MCSetup
  Elsewhere <- MCElsewhere
  AsksDown = FALSE
  MaxOperations = 2
  MaxCuts = 1
  Captured = {1, 2, 3}
  Spare = {4}
  Job = {"dedup", "semantic"}
  Session <- MCSession
  Scope <- MCScope
  Alike <- MCAlike
  CoRecalled = {{2, 3}}
  MaxRecalls = 2
  MaxPasses = 2
  Caller = {"query", "ingest"}
  Interactive = {"query"}
  Tokens <- MCTokens
  Batches = 2
  MaxRetries = 2
  Ring = 2
  BudgetLimit = 3
  WasteLimit = 4
  WasteWindow = 1
  PauseFor = 1
  MaxMinute = 2
INVARIANTS
  PartsTypeOK
  
  PromotionsAreWritten
  
  EmbedderSpendIsBounded
  MigrationBringsAllOver
  
  InjectionsAreTrue
  
  
  SessionsKeepTheirTree
  
  ToolsStayUsable
PROPERTY
  DeploysDestroyNothing
SYMMETRY Sessions
CHECK_DEADLOCK FALSE
