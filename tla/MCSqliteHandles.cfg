CONSTANTS
  d1 = d1  d2 = d2
  s1 = s1  v1 = v1  b1 = b1  u1 = u1
  Databases = {d1, d2}
  Children = {s1, v1, b1, u1}
  KindOf <- Classes
  MaxConnections = 2
SPECIFICATION MCSpec
INVARIANTS ListsAreExact ConnectionOutlivesItsChildren
PROPERTY CloseClosesTheConnection
SYMMETRY Exchange
CHECK_DEADLOCK FALSE
