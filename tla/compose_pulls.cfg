SPECIFICATION Spec
CONSTANTS
  Plans <- ComposedPlan
  MaxFaults = 2
  Unordered <- NoPlan
  LeavesThings <- NoPlan
  FaultsLeak <- NoPlan
  Masking <- NoPlan
INVARIANTS
  PullsAnswered
CHECK_DEADLOCK FALSE
