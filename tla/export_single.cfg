SPECIFICATION FairSpec
CONSTANTS
  Dags = {d1, d2}
  Working = {d1}
  Keys = {}
  Runs = {r1}
  Tokens = {t1}
  NoToken = NoToken
  Earlier = Earlier
  NoObject = NoObject
  InitialTables <- NoTables
  UserActive = FALSE
  ObjectsToExport <- LinkedTables
  Faulty <- EveryTask
INVARIANTS
  TypeOK
  ActiveDagsSaved
  UndoneExportRestoresDags
  TaskInstancesHaveRuns
PROPERTIES
  FailureIsCompensated
CHECK_DEADLOCK FALSE
