SPECIFICATION Spec
CONSTANTS
  Threads = {t1, t2, t3}
  Isr = Isr
  Packets = {p1, p2}
  NoThread = NoThread
  NoPacket = NoPacket
  Pool = Pool
  MaxInvalid = 1
SYMMETRY Symmetric
INVARIANTS
  TypeOK
  PacketsAccounted
  NoWaitBesideFree
  WaitersConsistent
PROPERTIES
  ServedInOrder
  ImplementsOwnership
