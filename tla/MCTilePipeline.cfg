CONSTANTS
  t1 = t1
  t2 = t2
  t3 = t3
  Tile <- Tiles
  Views <- TwoViews
  Param = {p1, p2}
  NoImage = NoImage
  Ui = ui
  Animator = animator
  Redrawer = {ui, animator}
  Capacity = 1
  FileCapacity = 2
  Plans <- AllPlans
  MaxOps = 2
SPECIFICATION Spec
INVARIANTS OnlySharingMixesTiles RendersOnlyMissingTiles UndisturbedMeansComplete
PROPERTY WorkShrinks
SYMMETRY Symmetry
CHECK_DEADLOCK FALSE
