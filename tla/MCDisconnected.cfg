\* A monitor with a host to check; passes of one row, two rows recorded,
\* of one or of two ids; an outage and a failing transaction or a restart.
SPECIFICATION FairSpec
CONSTANTS
  s1 = s1
  Sensors <- MCSensors
  Limit = 1
  HasTargets = TRUE
  MaxItems = 2
  MaxRecordings = 2
  MaxSecond = 1
  MaxOutages = 1
  MaxFaults = 1
INVARIANTS TypeOK MarkedWasRead OldestFirst FewCopies
PROPERTY EventuallySynced
