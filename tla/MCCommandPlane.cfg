\* Both command services on one table; a crash or a failed commit, and Kafka may lose messages.
SPECIFICATION Spec
CONSTANTS
  Workflow = {w1}
  Control = {k1}
  Procs <- MCProcs
  Ids = {c1}
  ann = ann
  bob = bob
  Users <- MCUsers
  Admins <- MCUsers
  TwoFactorUsers <- MCTwoFactorUsers
  Nobody = nobody
  BrokerFaults = TRUE
  MaxFaults = 1
INVARIANTS TypeOK TwoPersonRule ExecutedWasSent ApprovalSpentOnce
PROPERTY StageNeverGoesBack
CHECK_DEADLOCK FALSE
