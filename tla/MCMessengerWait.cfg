CONSTANTS
  NumSockets = 1
  NumApps = 1
  MaxCalls = 2
  MaxEvents = 1
  Ops <- EndOps
  Policies <- AllPolicies
SPECIFICATION FairSpec
PROPERTY WaitReturns
CHECK_DEADLOCK FALSE
