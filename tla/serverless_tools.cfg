SPECIFICATION Spec
CONSTANTS
  Calls = {c1, c2}
  Ops <- AllOps
  Arns = {a1, a2}
  Names <- TwoNames
  Asked <- TwoNames
  Contains <- TwoNamesContain
  Keys <- TheKeys
  KeysOf <- TheKeysOf
  Bodies = {b1, b2}
  NoArn = NoArn
  NoName = NoName
  NoKey = NoKey
  NoBody = NoBody
  EarlierRuns <- SomeRuns
  PageSize = 2
  MaxRuns = 3
  MaxPolls = 2
  MayFail = TRUE
SYMMETRY Symmetry
INVARIANTS
  TypeOK
  DefinitionsInStep
  OwnDefinitionRuns
  
  CompletedIsOver
  DeletionSpares
PROPERTIES
  ExactNameFirst
CHECK_DEADLOCK FALSE
