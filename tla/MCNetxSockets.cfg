SPECIFICATION Spec
CONSTANTS
  None = None
  Two = {a, b}
  Three = {c, d, e}
  Four = {c, d, e, f}
  Ports = {p1, p2}
  Threads = {t1, t2}
  Sources = {x, y, z}
  Datagrams = {k1, k2}
SYMMETRY Symmetric
INVARIANTS
  DatagramsAccounted
  UdpResultTellsTable
  ClientsAccounted
  ArpConsistent
PROPERTIES
  UdpPortDecides
  ImplementsBacklog
CHECK_DEADLOCK FALSE
