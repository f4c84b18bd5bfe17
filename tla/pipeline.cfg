SPECIFICATION Spec
CONSTANTS
  Event = {"edit", "ask"}
  TurnOf <- MCTurnOf
  NoEvent = NoEvent
  MaxRow = 3
  MaxRetries = 2
  None = None
  Caller = {"tick", "flush"}
  Tick = "tick"
  Provider = {p1, p2}
  HasSeam = TRUE
  BatchSize = 2
  ReleaseLimit = 2
  DemoteAfter = 2
  SummarizeFailures = {"retryable", "overloaded", "permanent", "auth"}
  IngestFailures = {"retryable"}
  Many = 1
SYMMETRY Symmetry
INVARIANTS
  TypeOK
  NothingFinishedUnwritten
  ProcessingIsOneBatch
  DemotionBlamesTheCulprit
PROPERTIES
  RowsGetTheirDue
  ImplementsLedger
