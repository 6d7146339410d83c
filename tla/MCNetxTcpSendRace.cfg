SPECIFICATION Spec
CONSTANTS
  Writers = {w, v}
  Readers = {t}
  Header = hd
  Calls = 1
  Length = 1
  WindowDefault = 3
  ULongSize = 64
  Mss = 2
  QueueMaximum = 2
  MaxRetries = 2
  Congestion = {2, 4}
  NoWait = FALSE
  Ordered = TRUE
  Faults = 1
INVARIANTS
  NoHeaderSent
CHECK_DEADLOCK FALSE
