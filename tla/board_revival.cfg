SPECIFICATION Spec
CONSTANTS
  Session <- PairOfSessions
  PidOf <- PairPidOf
  Call = {"edit1", "edit2"}
  SessionOf <- MCSessionOf
  File = {"f", "g"}
  StaleAfter = 1
  DefaultTtl = 3
  Ttls = {3}
  OverrideTtl = 1
  OneToolAtATime = TRUE
  QuickHooks = TRUE
  Outages = FALSE
  None = None
PROPERTY StaleClaimIsOutranked
CHECK_DEADLOCK FALSE
