SPECIFICATION PauseSpec
CONSTANTS
  Dags = {d1}
  Working = {}
  Keys = {}
  Runs = {r1}
  Tokens = {k1}
  NoToken = NoToken
  Earlier = Earlier
  NoObject = NoObject
  InitialTables <- LeftByImport
  UserActive = TRUE
  ObjectsToExport <- OneTable
  Faulty <- SomeTasks
  Configs = {c1, c2}
  NoDetails = NoDetails
  MayFail = TRUE
  MayTimeOut = TRUE
INVARIANTS
  PauseTypeOK
  SucceededMeansGone
  BackupOfOneRun
PROPERTIES
  ImplementsExport
CHECK_DEADLOCK FALSE
