------------------------------ MODULE MCJobQueue ------------------------------
(* Tiles of three zoom levels, and a map position at each of these levels.    *)
EXTENDS JobQueue, TileScheduler

CONSTANT ZoomLevel

Tiles == {[zoom |-> z, at |-> 2] : z \in ZoomLevel}
Positions == [zoom : ZoomLevel, at : {1, 4}]
TileImportance == [t \in Tiles |-> [p \in Positions |-> GetPriority(t, p)]]

(* "If the zoom level of a tile differs from the zoom level of the MapView,   *)
(* its priority decreases" (getPriority): a scheduled tile of another level   *)
(* is less important, its number larger, than its distance alone makes it.    *)
(* The distance to a tile above is divided by 2 ^ diff and multiplied by      *)
(* 5 * diff, so that five levels make it 25/32 of what it was.                *)
OtherZoomLosesImportance ==
  moving = {} /\ ~scheduleNeeded =>
    \A job \in Queued \ unscheduled :
      job.zoom # position.zoom => priority[job] > Unpenalised(job, position)
=============================================================================
