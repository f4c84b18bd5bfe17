SPECIFICATION Spec
CONSTANTS
  Session <- TrioOfSessions
  PidOf <- TrioPidOf
  Call = {"edit1", "edit2"}
  SessionOf <- MCSessionOf
  File = {"f"}
  StaleAfter = 0
  DefaultTtl = 1
  Ttls = {2}
  OverrideTtl = 1
  OneToolAtATime = TRUE
  QuickHooks = FALSE
  Outages = TRUE
  None = None
INVARIANTS
  
  DeclarationOutlivesEdits
CHECK_DEADLOCK FALSE
