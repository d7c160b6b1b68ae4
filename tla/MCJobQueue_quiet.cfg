CONSTANTS
  Job <- Tiles
  Position <- Positions
  Importance <- TileImportance
  Mover = {ui, mover}
  ZoomLevel = {3, 7, 8}
  MaxZoomDiff = 5
SPECIFICATION QueueSpec
INVARIANT QuietQueueIsScheduled
PROPERTY PollsMostImportant
