CONSTANTS
  c1 = c1
  c2 = c2
  p1 = p1
  p2 = p2
  Conn = {c1, c2}
  Process = {p1, p2}
  MaxPage = 2
  Start <- Starts
  MaxTx = 2
  MaxFault = 2
SPECIFICATION Spec
INVARIANTS LocksExclude CacheIsCurrent
PROPERTIES WritesAlone ImplementsAtomicStore
SYMMETRY Exchange
