SPECIFICATION FairSpec
CONSTANTS
  None = None
  Two = {a, b}
  Three = {c, d, e}
  Datagrams = {k1, k2, k3}
  Threads = {t1, t2, t3}
INVARIANTS
  OffloadConsistent
  AddressesOwned
PROPERTIES
  DeleteWakesAll
  PeersServed
  WalksEnd
  ArpWaitingEnds
  ClientBinds
CHECK_DEADLOCK FALSE
