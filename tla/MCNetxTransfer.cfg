SPECIFICATION FairSpec
CONSTANTS
  None = None
  Header = Header
  One = {w}
  Two = {w, v}
  Three = {k1, k2, k3}
INVARIANTS
  FragmentsAccounted
  QueuesHoldStream
PROPERTIES
  ImplementsStream
  WindowKept
  AllArrives
  FragmentsEnd
CHECK_DEADLOCK FALSE
