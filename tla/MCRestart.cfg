\* Does a command survive a restart of the process that was working on it?
SPECIFICATION FairSpec
CONSTANTS
  Workflow = {w1}
  Control = {}
  Procs <- MCProcs
  Ids = {c1}
  ann = ann
  bob = bob
  Users <- MCUsers
  Admins <- MCUsers
  TwoFactorUsers <- MCTwoFactorUsers
  Nobody = nobody
  BrokerFaults = FALSE
  MaxFaults = 1
PROPERTY SurvivesRestarts

CHECK_DEADLOCK FALSE
