\* Does the buffer send the readings it took?
SPECIFICATION Spec
CONSTANTS
  r1 = r1
  r2 = r2
  loop = loop
  t1 = t1
  Readings <- MCReadings
  Workers <- MCWorkers
  Loop = loop
  DuckDBBuild = TRUE
  MaxBuffer = 4
  MaxRetries = 1
  MaxFaults = 0
  MaxPosts <- MCMaxPosts
  MaxOutages = 0
INVARIANT SentInFull
CHECK_DEADLOCK FALSE
