SPECIFICATION LifeFairSpec
CONSTANTS
  Session = {"s1"}
  MaxRelease = 2
  Boots = {1}
  MaxFaults = 2

  
PROPERTIES
  WorkerComesBack
CHECK_DEADLOCK FALSE
