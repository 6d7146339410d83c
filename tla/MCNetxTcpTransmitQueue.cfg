SPECIFICATION FairSpec
CONSTANTS
  Packets = {p1, p2, p3, p4}
  QueueMaximum = 2
  Writers = 2
INVARIANTS
  TypeOK
  HandshakeTrue
PROPERTIES
  LastUserFrees
  RemovedIsFreed
