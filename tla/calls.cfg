SPECIFICATION EndingSpec
CONSTANTS
  Session = {s1}
  Historic = {s1}
  Tick = {int, bf1, bf2}
  Backfill = {bf1, bf2}
  RedactYieldEvery = 2
  MaxTurns = 3
  MaxWork = 1
  MaxRestarts = 2
  Upgrades = TRUE
  LateGrowth = TRUE
  Unreadable = TRUE
  None = None
  Asker = {"pipeline", "judge"}
  Providers <- MCProviders
  Models <- MCModels
  Windows = TRUE
  MaxLogins = 1
INVARIANTS
  LoginsTakeEffect
  TurnsAreQueuedOnce
PROPERTIES
  
  BackfillsComeThrough
CHECK_DEADLOCK FALSE
