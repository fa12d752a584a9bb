\* The remote operations service alone; up to two faults, Kafka works.
SPECIFICATION FairSpec
CONSTANTS
  Workflow = {w1}
  Control = {}
  Procs <- MCProcs
  Ids = {c1, c2}
  ann = ann
  bob = bob
  Users <- MCUsers
  Admins <- MCUsers
  TwoFactorUsers <- MCTwoFactorUsers
  Nobody = nobody
  BrokerFaults = FALSE
  MaxFaults = 2
INVARIANTS GatesBeforeRelay ColumnsAgree ResendOnlyAfterFault FailedWasNotSent ExecutedReachedTopic
PROPERTIES ImplementsGate NothingLeftHanging
CHECK_DEADLOCK FALSE
