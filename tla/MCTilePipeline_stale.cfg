CONSTANTS
  t1 = t1
  t2 = t2
  t3 = t3
  Tile <- Tiles
  Views <- TwoViews
  Param = {p1, p2}
  NoImage = NoImage
  Ui = ui
  Animator = animator
  Redrawer = {ui}
  Capacity = 2
  FileCapacity = 4
  Plans <- OneChange
  MaxOps = 1
SPECIFICATION Spec
INVARIANTS StaleChecksAreHarmless
CHECK_DEADLOCK FALSE
