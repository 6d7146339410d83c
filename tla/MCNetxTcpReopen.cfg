SPECIFICATION ReopenSpec
CONSTANTS
  a = a
  b = b
  Ends = {a, b}
  Servers = {b}
  FirstIsn <- Isns
  IsnStep = 10
  Window = 4
  MaxRetries = 0
  MaxOpens = 3
INVARIANTS
  SameConnection
  NoStrayReset
  OrderlyClose
CHECK_DEADLOCK FALSE
VIEW Live
