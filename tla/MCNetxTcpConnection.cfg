SPECIFICATION FairSpec
CONSTANTS
  a = a
  b = b
  Ends = {a, b}
  Servers = {b}
  FirstIsn <- Isns
  IsnStep = 10
  Window = 4
  MaxRetries = 1
  MaxOpens = 2
INVARIANTS
  SleeperHasConnection
PROPERTY AnswerOrGiveUp
CHECK_DEADLOCK FALSE
