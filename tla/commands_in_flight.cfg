SPECIFICATION CliSpec
CONSTANTS
  Event = {"edit", "ask"}
  TurnOf <- OneEventPerTurn
  NoEvent = NoEvent
  MaxRow = 3
  MaxRetries = 2
  None = None
  Caller = {"tick"}
  Tick = "tick"
  Provider = {p1}
  HasSeam = TRUE
  BatchSize = 2
  ReleaseLimit = 2
  DemoteAfter = 2
  SummarizeFailures = {"retryable"}
  IngestFailures = {}
  Many = 1
  Commands = {"dedupe --apply"}
PROPERTY InFlightRowsAreKept
