SPECIFICATION ResumeSpec
CONSTANTS
  Versions <- OnlyNewest
  Doubled <- NoVersions
  Rescheduled <- NoVersions
  Dags = {d1, d2}
  Late = {}
  ActiveDags <- NoneOrAll
  Runs = {r1}
  FirstRun = r1
  Tokens = {k1}
  FirstToken = k1
  NoToken = NoToken
  Faulty <- NoTasks
  MayFail = FALSE
  TimingOut <- NoVersions
  UpdateAfterRestore = TRUE
INVARIANTS
  FormerlyActiveAgain
CHECK_DEADLOCK FALSE
