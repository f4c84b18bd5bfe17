SPECIFICATION FairSpec
CONSTANTS
  Event = {"edit", "ask"}
  TurnOf <- MCTurnOf
  NoEvent = NoEvent
  MaxRow = 2
  MaxRetries = 2
  None = None
  Caller = {"tick", "flush"}
  Tick = "tick"
  Provider = {p1, p2}
  HasSeam = TRUE
  BatchSize = 1
  ReleaseLimit = 2
  DemoteAfter = 2
  SummarizeFailures = {"retryable", "overloaded", "permanent", "auth"}
  IngestFailures = {"retryable"}
  Many = 1
PROPERTIES
  EveryRowResolves
  
