SPECIFICATION FairSpec
CONSTANTS
  Polls = {p1, p2}
  Command = "checkCreated"
  MayFail = TRUE
  MayTimeOut = TRUE
INVARIANTS
  ToldTruth
PROPERTIES
  CompletionIsTold
CHECK_DEADLOCK FALSE
