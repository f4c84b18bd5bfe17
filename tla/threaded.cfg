SPECIFICATION FairSpec
CONSTANTS
  Writer = Writer
  Reader = {rd1, rd2}
  Request = {q1, q2, w1}
  Reads = {q1, q2}
  ListedWrites = {w1}
  MaxCrashes = 1
  MaxDeaths = 2
  None = None
INVARIANTS
  ThreadsAreAccountedFor
  RunningWriteIsNotFailed
PROPERTIES
  ReadsStayOffTheWriter
  EveryRequestAnswered
  ImplementsService
CHECK_DEADLOCK FALSE
