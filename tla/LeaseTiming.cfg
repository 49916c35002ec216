SPECIFICATION Spec
CONSTANTS
  SwitchTimeout = 12
  Poll = 1
  Apply = 1
  Reply = 5
  Skew = 4
  MaxTime = 40
INVARIANTS
  HealthyLeaseKept
  LeaseInvariant
CHECK_DEADLOCK FALSE
