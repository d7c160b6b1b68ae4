CONSTANTS
  Job = {j1, j2, j3}
  Absent = Absent
  Partial = Partial
  DefaultCapacity = 2
  Capacities = {1, 2}
  MaxFile = 3
  MaxKinds = 2
SPECIFICATION Spec
INVARIANTS EntriesHaveTheirFiles SizeIsBounded NoOrphans DestroyCleansUp
PROPERTIES EvictsEldestFirst ImplementsPersistentTileCache
SYMMETRY Symmetry
CHECK_DEADLOCK FALSE
