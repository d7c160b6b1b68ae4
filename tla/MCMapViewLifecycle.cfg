CONSTANTS
  Files = {f1, f2}
  Generators = {g1, g2}
  Nothing = nothing
  Unread = unread
  Recycled = recycled
  MaxOps = 5
SPECIFICATION Spec
INVARIANTS SwitchIsSafe
PROPERTIES CallsReturn DestroyEndsThreads
CHECK_DEADLOCK FALSE
