\* As the edge service builds it: the monitor has nothing to check.
SPECIFICATION FairSpec
CONSTANTS
  s1 = s1
  Sensors <- MCSensors
  Limit = 50
  HasTargets = FALSE
  MaxItems = 1
  MaxRecordings = 1
  MaxSecond = 0
  MaxOutages = 0
  MaxFaults = 0
PROPERTY EventuallySynced
CHECK_DEADLOCK FALSE
