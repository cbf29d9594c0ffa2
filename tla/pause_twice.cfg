SPECIFICATION PauseSpec
CONSTANTS
  Dags = {}
  Working = {}
  Keys = {}
  Runs = {r1, r2}
  Tokens = {k1, k2}
  NoToken = NoToken
  Earlier = Earlier
  NoObject = NoObject
  InitialTables <- NoTables
  UserActive = FALSE
  ObjectsToExport <- OneTable
  Faulty <- NoTask
  Configs = {c1, c2}
  NoDetails = NoDetails
  MayFail = TRUE
  MayTimeOut = TRUE
INVARIANTS
  SuccessMeansExported
  DeletedMeansExported
  DetailsSaved
  DeletedMeansBackedUp
PROPERTIES
  AnsweredRunIsDone
SYMMETRY Symmetry
CHECK_DEADLOCK FALSE
