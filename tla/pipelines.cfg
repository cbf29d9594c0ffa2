SPECIFICATION Spec
CONSTANTS
  Plans <- AllPlans
  MaxFaults = 2
  Unordered <- PlansUnordered
  LeavesThings <- PlansLeavingThings
  FaultsLeak <- PlansWithLeaks
  Masking <- PlansMasking
INVARIANTS
  TypeOK
  HasWhatItNeeds
  PullsAnswered
  QuietPlanCompletes
  FaultsDoNotLeak
  FailuresShow
PROPERTIES
  PlansEnd
CHECK_DEADLOCK FALSE
