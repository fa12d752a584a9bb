\* Does every operation go through the gates when the other service is up?
SPECIFICATION Spec
CONSTANTS
  Workflow = {w1}
  Control = {k1}
  Procs <- MCProcs
  Ids = {c1}
  ann = ann
  bob = bob
  Users <- MCUsers
  Admins <- MCUsers
  TwoFactorUsers <- MCTwoFactorUsers
  Nobody = nobody
  BrokerFaults = FALSE
  MaxFaults = 0
INVARIANT GatesBeforeRelay

CHECK_DEADLOCK FALSE
