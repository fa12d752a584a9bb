\* Both builds of the buffer, which is full after one record; a fault and an outage.
SPECIFICATION FairSpec
CONSTANTS
  r1 = r1
  r2 = r2
  loop = loop
  t1 = t1
  Readings <- MCReadings
  Workers <- MCWorkers
  Loop = loop
  DuckDBBuild = TRUE
  MaxBuffer = 1
  MaxRetries = 1
  MaxFaults = 1
  MaxPosts <- MCMaxPosts
  MaxOutages = 1
INVARIANTS TypeOK NothingVanishes NearlyBounded ResendOnlyAfterFault
PROPERTY EventuallyStreamed
CHECK_DEADLOCK FALSE
