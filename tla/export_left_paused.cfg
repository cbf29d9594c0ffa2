SPECIFICATION Spec
CONSTANTS
  Dags = {d1}
  Working = {}
  Keys = {}
  Runs = {r1}
  Tokens = {t1}
  NoToken = NoToken
  Earlier = Earlier
  NoObject = NoObject
  InitialTables <- NoTables
  UserActive = FALSE
  ObjectsToExport <- AllTables
  Faulty <- NoTask
INVARIANTS
  NoDagLeftPaused
CHECK_DEADLOCK FALSE
