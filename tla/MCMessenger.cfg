CONSTANTS
  NumSockets = 2
  NumApps = 1
  MaxCalls = 2
  MaxEvents = 2
  Ops <- SomeOps
  Policies <- AllPolicies
SPECIFICATION Spec
INVARIANTS RefsExact NoUseAfterFree Registered Settled
CHECK_DEADLOCK FALSE
