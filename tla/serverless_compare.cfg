SPECIFICATION Spec
CONSTANTS
  Calls = {c1, c2}
  Ops <- DeployAndCompare
  Arns = {a1, a2}
  Names <- TwoNames
  Asked <- TwoNames
  Contains <- TwoNamesContain
  Keys <- TheKeys
  KeysOf <- TheKeysOf
  Bodies = {b1, b2}
  NoArn = NoArn
  NoName = NoName
  NoKey = NoKey
  NoBody = NoBody
  EarlierRuns <- SomeRuns
  PageSize = 2
  MaxRuns = 3
  MaxPolls = 2
  MayFail = FALSE
SYMMETRY Symmetry
INVARIANTS
  ChangesShown
CHECK_DEADLOCK FALSE
