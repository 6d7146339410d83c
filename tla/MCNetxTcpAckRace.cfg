SPECIFICATION Spec
CONSTANTS
  Packets = {p1, p2, p3}
  QueueMaximum = 1
  Writers = 2
SYMMETRY Symmetric
INVARIANT LeftPacketIsWithDriver
