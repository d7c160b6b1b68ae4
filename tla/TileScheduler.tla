----------------------------- MODULE TileScheduler -----------------------------
(* TileScheduler.java: the priority of a tile, the smaller the more important, *)
(* from the distance between its centre and the map centre and from both zoom *)
(* levels. The map is a line and centres are whole degrees; priorities are    *)
(* multiplied by Unit, which keeps them whole for zoom levels that differ by  *)
(* at most MaxZoomDiff, where the code divides doubles.                       *)
EXTENDS Integers

CONSTANT MaxZoomDiff

ASSUME MaxZoomDiffAssumption == MaxZoomDiff \in Nat

ZOOM_LEVEL_PENALTY == 5
Unit == 2 ^ MaxZoomDiff

Distance(tile, position) ==
  IF tile.at < position.at THEN position.at - tile.at ELSE tile.at - position.at

(* Without the factor for another zoom level.                                 *)
Unpenalised(tile, position) == Distance(tile, position) * Unit

GetPriority(tile, position) ==
  LET down == tile.zoom - position.zoom
      up == -down
  IN  CASE down = 0 -> Unpenalised(tile, position)
        [] down > 0 -> Unpenalised(tile, position) * 2 ^ down * (down * ZOOM_LEVEL_PENALTY)
        [] up > 0 -> (Unpenalised(tile, position) \div 2 ^ up) * (up * ZOOM_LEVEL_PENALTY)
=============================================================================
