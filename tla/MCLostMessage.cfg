\* Is a command called executed only once Kafka has it?
SPECIFICATION Spec
CONSTANTS
  Workflow = {w1}
  Control = {}
  Procs <- MCProcs
  Ids = {c1}
  ann = ann
  bob = bob
  Users <- MCUsers
  Admins <- MCUsers
  TwoFactorUsers <- MCTwoFactorUsers
  Nobody = nobody
  BrokerFaults = TRUE
  MaxFaults = 0
INVARIANT ExecutedReachedTopic

CHECK_DEADLOCK FALSE
