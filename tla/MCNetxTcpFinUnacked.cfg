SPECIFICATION FairSpec
CONSTANTS
  Writers = {w}
  Readers = {t}
  Header = hd
  Calls = 2
  Length = 1
  WindowDefault = 1
  ULongSize = 64
  Mss = 1
  QueueMaximum = 2
  MaxRetries = 2
  Congestion = {1}
  NoWait = FALSE
  Ordered = TRUE
  Faults = 1
PROPERTIES
  DisconnectEnds
CHECK_DEADLOCK FALSE
