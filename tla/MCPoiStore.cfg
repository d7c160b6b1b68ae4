CONSTANTS
  m1 = m1  m2 = m2  m3 = m3
  p1 = p1  p2 = p2
  Managers = {m1, m2, m3}
  Pois = {p1, p2}
  MaxCrash = 1
SPECIFICATION Spec
INVARIANT TablesAgree
PROPERTY PointsStay
SYMMETRY Exchange
CHECK_DEADLOCK FALSE
