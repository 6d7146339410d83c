SPECIFICATION Spec
CONSTANTS
  Entries = {e1, e2}
  Addresses = {a1, a2}
  Packets = {k1}
  None = None
  UpdateRate = 1
  ExpirationRate = 0
  MaxRetries = 1
  MaxQueue = 1
  Services = {"delete"}
INVARIANT AgesActive
CHECK_DEADLOCK FALSE
