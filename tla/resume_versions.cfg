SPECIFICATION ResumeSpec
CONSTANTS
  Versions <- AllVersions
  Doubled <- OnlyOldest
  Rescheduled <- OnlyNewest
  Dags = {d1, d2}
  Late = {d2}
  ActiveDags <- NoneOrAll
  Runs = {r1, r2}
  FirstRun = r1
  Tokens = {k1, k2}
  FirstToken = k1
  NoToken = NoToken
  Faulty <- SomeTasks
  MayFail = TRUE
  TimingOut <- AllButOldest
  UpdateAfterRestore = TRUE
INVARIANTS
  ResumeTypeOK
  SuccessMeansResumed
  ImportInOwnEnvironment
  LoadedInOrder
  HistoryFirst
  OnlyFormerlyActive
  FinishedMeansAnswered
CHECK_DEADLOCK FALSE
