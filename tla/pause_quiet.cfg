SPECIFICATION PauseFairSpec
CONSTANTS
  Dags = {d1}
  Working = {}
  Keys = {}
  Runs = {r1}
  Tokens = {k1}
  NoToken = NoToken
  Earlier = Earlier
  NoObject = NoObject
  InitialTables <- NoTables
  UserActive = FALSE
  ObjectsToExport <- OneTable
  Faulty <- NoTask
  Configs = {c1, c2}
  NoDetails = NoDetails
  MayFail = FALSE
  MayTimeOut = FALSE
PROPERTIES
  PauseCompletes
CHECK_DEADLOCK FALSE
