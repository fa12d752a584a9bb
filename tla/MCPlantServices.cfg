\* Alerts in and out of a window of one tick, two flushes of the offline queue,
\* two sessions with the broker, two trainings, two runs of workflows.
SPECIFICATION Spec
CONSTANTS
  i1 = i1
  i2 = i2
  i3 = i3
  w1 = w1
  w2 = w2
  None = None
  Ids <- MCIds
  Wells = {w1, w2}
  Conditions <- MCConditions
  Severities = {"critical"}
  Texted = {"critical"}
  Window = 0
  MinWells = 2
  RuleLimit = 2
  WellLimit = 2
  Phones = {"p1"}
  MaxClock = 1
  MaxReports = 3
  MaxAsks = 1
  Flushes = {"f1", "f2"}
  Taps = {"t1", "t2"}
  MaxTaps = 2
  Topics <- MCTopics
  Plus = {"sensors/+/data"}
  MaxSessions = 2
  MaxMessages = 1
  BatchSize = 2
  Retries = 1
  InFlight = 2
  MaxRecords = 3
  MaxLeaks = 1
  Models = {"anomaly", "failure", "series"}
  Scaled = {"failure", "series"}
  Series = "series"
  HasTensorFlow = TRUE
  Sensors = {"s1", "s2"}
  Seeds = {42}
  FullWeight = 2
  Bucket <- MCBucket
  Rollouts <- MCRollouts
  NoPlan = NoPlan
  MaxTrainings = 2
  MaxSamples = 1
  Codes = {"MIS"}
  WellCounts = {0, 1}
  Fluids = {"oil"}
  Equipments = {"rig1"}
  WellNames = {"w1"}
  LastDay = 2
  Curves <- MCCurves
  NoCurve = NoCurve
  Rates = {9, 20}
  MaxCalls = 4
  Plans <- MCPlans
  Callers = {"r1"}
  Keys = {"all:1000"}
  CacheTtl = 1
  MaxWorkflows = 2
  MaxRuns = 2
  MaxTime = 2
  Faults = {"a1"}
  Jobs = {"j1"}
  Systems = {"sap"}
  Devices = {"d1"}
  MaxOrders = 2
  MaxSecond = 1
  Uplinks <- MCUplinks
  MqttPayloads <- MCMqttPayloads
  MaxTopic = 3
  Nodes = {"n1", "n2"}
  Accuracies = {600, 900}
  Sizes = {0, 1, 2}
  MaxRounds = 2
  Tags = {"t1", "t2"}
  Ranges <- MCRanges
  ReadingValues = {0, 1}
  Qualities = {"good", "bad"}
  MaxReadings = 4
  TwinWells = {w1}
  TwinTags = {"t1", "t2"}
  TwinTag <- MCTwinTag
  NoNumber = NoNumber
  TwinValues = {50, 3000}
  Fragments = {"t"}
  TagsWith <- MCTagsWith
  Segments = 4
  DefaultDepth = 3000
  ViewTtl = 1
  Scenarios <- MCScenarios
  MaxTwinTime = 2
  MaxSimulations = 1
  Monitored = {"s1"}
  Samples = {100, 112, 150, 900}
  ValidRange <- MCValidRange
  NoBaseline = NoBaseline
  HistorySize = 3
  Enough = 2
  MaxBatch = 2
INVARIANTS
  TypeOK
  OneOpenAlert
  EveryReportCounted
  FacilitySpansWells
  SubscribedWhileUp
  OnlyRetriesRepeat
  AnsweredAsLabelled
  DependenciesFirst
  ReportFresh
  DeclineGoesOn
  PassedOverWasTried
PROPERTIES
  OnlyStaleWritesDrop
CONSTRAINT Focus
CHECK_DEADLOCK FALSE
