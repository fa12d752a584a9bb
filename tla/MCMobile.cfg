\* Two alerts, one tap at a time and one flush of the offline queue.
SPECIFICATION AlertPlaneSpec
CONSTANTS
  i1 = i1
  i2 = i2
  w1 = w1
  None = None
  Ids <- MCIds
  Wells = {w1}
  Conditions <- MCConditions
  Severities = {"critical"}
  Texted = {}
  Window = 0
  MinWells = 2
  RuleLimit = 2
  WellLimit = 2
  Phones = {}
  MaxClock = 0
  MaxReports = 2
  MaxAsks = 0
  Flushes = {"f1"}
  Taps = {"t1"}
  MaxTaps = 2
INVARIANT QueuedAreKept
CHECK_DEADLOCK FALSE
