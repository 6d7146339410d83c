SPECIFICATION FairSpec
CONSTANTS
  Sockets = {s1, s2, s3}
  Ports = {p1}
  None = None
  MaxWaiting = 2
  ULongMax = 7
INVARIANTS
  TypeOK
  ResultTellsTable
  WaitersListed
  NoTimeoutMissed
PROPERTIES
  PortHandedOver
  ExpiredWaitEnds
