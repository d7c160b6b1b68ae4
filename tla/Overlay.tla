------------------------------- MODULE Overlay -------------------------------
(***************************************************************************)
(* An Overlay of a MapView: its thread draws it for the position that the  *)
(* map has, while the MapMover, the ZoomAnimator and the UI thread change   *)
(* that position and the matrix by which the drawing follows the map until  *)
(* it is redrawn.  The OverlayList holds at most this overlay.              *)
(*                                                                         *)
(* A position has a place x and a zoom level z.  A matrix is what it does   *)
(* to a position: a drawing made for p is shown by matrix m as if it were   *)
(* made for p + m.  Pixels and pivots are left out.  z counts halves of a    *)
(* zoom level, for a pinch may end between two; zooming out is zooming in,   *)
(* the other way round.                                                     *)
(***************************************************************************)
EXTENDS Integers

CONSTANTS
  MaxUi,    \* bound: calls on the UI thread
  MaxMoves  \* bound: steps of the MapMover

ASSUME OverlayAssumption == MaxUi \in Nat /\ MaxMoves \in Nat

Walkers == {"ui", "mover", "animator"}

VARIABLES
  view,      \* the MapViewPosition
  sized,     \* the MapView has a positive width and height
  executing, remaining,  \* of the ZoomAnimator: executeAnimation, what it has yet to scale
  pinched,    \* how far the pinch in progress has scaled the overlays
  difference, \* zoomEnd less zoomStart, of the animation that zoom is about to start
  refused,    \* auxiliary: a pinch was refused, and no redraw requested of all overlays since
  listed,    \* the overlay is in the list
  at,        \* where the threads are
  seen,      \* the size that a thread has read of the list it walks over
  overlay,   \* where the overlay's thread is
  interrupted, changedSize, redraw,  \* its flags
  valid,     \* hasValidDimensions
  before, after,   \* positionBeforeDraw and positionAfterDraw, with the zoom levels
  bitmap,    \* overlayBitmap1: "none", "blank", "drawn" or "recycled"
  shown,     \* the position that it was drawn for
  matrix,
  crashed,   \* the uncaught exception that ended the process
  calls, moves,
  missed     \* auxiliary: a redraw was requested of all overlays but the one being added

gesture == <<pinched, difference, refused>>
mapVars == <<view, sized, executing, remaining, gesture>>
walkVars == <<listed, at, seen, calls, moves, missed>>
flags == <<interrupted, changedSize, redraw>>
drawVars == <<valid, before, after, bitmap, shown>>
vars == <<mapVars, walkVars, overlay, flags, drawVars, matrix, crashed>>

Origin == [x |-> 0, z |-> 0]
Plus(p, q) == [x |-> p.x + q.x, z |-> p.z + q.z]
Minus(p, q) == [x |-> p.x - q.x, z |-> p.z - q.z]

Level == 2  \* one zoom level

(* How many levels a scale factor is, in halves of them, rounded either way.  *)
Rounded(scale) == {diff \in 0 .. (scale + 1) : diff % Level = 0 /\ diff - scale \in -1 .. 1}

Init ==
  /\ view = Origin /\ sized \in BOOLEAN
  /\ executing = FALSE /\ remaining = 0
  /\ pinched = 0 /\ difference = 0 /\ refused = FALSE
  /\ listed = FALSE
  /\ at = [t \in Walkers |-> "loop"] /\ seen = [t \in Walkers |-> FALSE]
  /\ overlay = "new"
  /\ interrupted = FALSE /\ changedSize = FALSE /\ redraw = FALSE
  /\ valid = FALSE /\ before = Origin /\ after = Origin
  /\ bitmap = "none" /\ shown = Origin /\ matrix = Origin
  /\ crashed = "no" /\ calls = 0 /\ moves = 0 /\ missed = FALSE

----------------------------------------------------------------------------
(* The overlay's thread.                                                    *)

OverlayAt(place) == overlay = place /\ crashed = "no"

(* Its private steps leave the map, the list and the matrix alone. *)
Alone == UNCHANGED <<mapVars, walkVars, matrix, crashed>>

(* redrawOverlay goes on, or returns if `stop`; then what it has read of the
   position is forgotten, for the next drawing reads it again.               *)
GoesOn(stop, next, b, a) ==
  /\ overlay' = IF stop THEN "loop" ELSE next
  /\ before' = IF stop THEN Origin ELSE b
  /\ after' = IF stop THEN Origin ELSE a

(* sizeHasChanged or isInterrupted *)
Stop == interrupted \/ changedSize

(* Broken: what was requested is not seen. *)
Wake_SizeOnly ==
  /\ OverlayAt("loop")
  /\ ~interrupted /\ changedSize
  /\ overlay' = "resize"
  /\ Alone /\ UNCHANGED <<flags, drawVars>>

Wake ==
  /\ OverlayAt("loop")
  /\ ~interrupted /\ (changedSize \/ redraw)
  /\ overlay' = IF changedSize THEN "resize" ELSE "redraw"
  /\ Alone /\ UNCHANGED <<flags, drawVars>>

(* changeSize recycles the bitmaps, and then creates others. *)
Recycle ==
  /\ OverlayAt("resize")
  /\ changedSize' = FALSE
  /\ bitmap' = IF bitmap = "none" THEN "none" ELSE "recycled"
  /\ overlay' = "create"
  /\ Alone /\ UNCHANGED <<interrupted, redraw, valid, before, after, shown>>

Create ==
  /\ OverlayAt("create")
  /\ valid' = sized
  /\ bitmap' = IF sized THEN "blank" ELSE bitmap
  /\ redraw' = (redraw \/ sized)
  /\ overlay' = IF redraw' THEN "redraw" ELSE "loop"
  /\ Alone /\ UNCHANGED <<interrupted, changedSize, before, after, shown>>

(* redrawOverlay *)
BeginRedraw ==
  /\ OverlayAt("redraw")
  /\ redraw' = FALSE
  /\ overlay' = IF valid THEN "zoomBefore" ELSE "loop"
  /\ Alone /\ UNCHANGED <<interrupted, changedSize, drawVars>>

(* The zoom level is read, and then the place. *)
ReadZoom(here, next) ==
  /\ OverlayAt(here)
  /\ IF here = "zoomBefore" THEN before' = [before EXCEPT !.z = view.z] /\ UNCHANGED after
     ELSE after' = [after EXCEPT !.z = view.z] /\ UNCHANGED before
  /\ overlay' = next
  /\ Alone /\ UNCHANGED <<flags, valid, bitmap, shown>>

ReadBefore ==
  /\ OverlayAt("before")
  /\ GoesOn(Stop, "draw", [before EXCEPT !.x = view.x], after)
  /\ Alone /\ UNCHANGED <<flags, valid, bitmap, shown>>

(* drawOverlayBitmap, on the second bitmap. *)
DrawBitmap ==
  /\ OverlayAt("draw")
  /\ GoesOn(Stop, "zoomAfter", before, after)
  /\ Alone /\ UNCHANGED <<flags, valid, bitmap, shown>>

ReadAfter ==
  /\ OverlayAt("after")
  /\ after' = [after EXCEPT !.x = view.x]
  /\ overlay' = "check"
  /\ Alone /\ UNCHANGED <<flags, valid, before, bitmap, shown>>

(* An animation is not disturbed: its end brings another redraw. *)
CheckAnimation ==
  /\ OverlayAt("check")
  /\ GoesOn(executing, "place", before, after)
  /\ Alone /\ UNCHANGED <<flags, valid, bitmap, shown>>

(* Broken: only now is the request of a redraw taken back. *)
Place_ResetsLate ==
  /\ OverlayAt("place")
  /\ matrix' = Minus(after, before)
  /\ bitmap' = "drawn" /\ shown' = before
  /\ redraw' = FALSE
  /\ GoesOn(TRUE, "loop", before, after)
  /\ UNCHANGED <<mapVars, walkVars, interrupted, changedSize, valid, crashed>>

(* The matrix is set and the bitmaps are swapped. *)
Place ==
  /\ OverlayAt("place")
  /\ matrix' = Minus(after, before)
  /\ bitmap' = "drawn" /\ shown' = before
  /\ GoesOn(TRUE, "loop", before, after)
  /\ UNCHANGED <<mapVars, walkVars, flags, valid, crashed>>

(* An interrupt finds the thread in wait(), which clears the status as it
   throws; the handler sets it again.                                        *)
Caught ==
  /\ OverlayAt("loop")
  /\ interrupted /\ ~changedSize /\ ~redraw
  /\ interrupted' = FALSE
  /\ overlay' = "caught"
  /\ Alone /\ UNCHANGED <<changedSize, redraw, drawVars>>

Restore ==
  /\ OverlayAt("caught")
  /\ interrupted' = TRUE
  /\ overlay' = "leave"
  /\ Alone /\ UNCHANGED <<changedSize, redraw, drawVars>>

Leave ==
  /\ OverlayAt("loop") \/ OverlayAt("leave")
  /\ interrupted
  /\ bitmap' = IF bitmap = "none" THEN "none" ELSE "recycled"
  /\ interrupted' = FALSE
  /\ overlay' = "ended"
  /\ Alone /\ UNCHANGED <<changedSize, redraw, valid, before, after, shown>>

OverlayStep ==
  \/ Wake \/ Recycle \/ Create \/ BeginRedraw \/ ReadBefore \/ DrawBitmap \/ ReadAfter
  \/ ReadZoom("zoomBefore", "before") \/ ReadZoom("zoomAfter", "after")
  \/ CheckAnimation \/ Place \/ Caught \/ Restore \/ Leave

----------------------------------------------------------------------------
(* Walks over the list: first its size is read, then its elements.          *)

Walks(t, here, there) == /\ at[t] = here /\ crashed = "no"
                         /\ at' = [at EXCEPT ![t] = there]

Count(t) == seen' = [seen EXCEPT ![t] = listed]
Counted(t) == seen' = [seen EXCEPT ![t] = FALSE]  \* the walk is over

(* get(0) of a list that is empty by now *)
Fails(t) == seen[t] /\ ~listed

Crash(exception) == crashed' = exception
                    /\ UNCHANGED <<mapVars, walkVars, overlay, flags, drawVars, matrix>>

(* FrameBuffer.matrixPostTranslate and matrixPostScale, for the overlays *)
Transform(t, change) ==
  /\ IF seen[t] THEN matrix' = Plus(matrix, change) ELSE UNCHANGED matrix
  /\ Counted(t)
  /\ UNCHANGED <<listed, calls, moves, missed, overlay, flags, drawVars, crashed>>

Translate(t) ==
  /\ ~Fails(t)
  /\ Walks(t, "translate", "position")
  /\ Transform(t, [x |-> 1, z |-> 0])
  /\ UNCHANGED mapVars

(* ScaleListener.onScale, from the UI thread *)
ScaleOverlays ==
  /\ ~Fails("ui")
  /\ Walks("ui", "scale", "loop")
  /\ Transform("ui", [x |-> 0, z |-> 1])
  /\ UNCHANGED mapVars

(* moveMap; setMapCenterAndZoomLevel may change the zoom level as well. *)
Position(t) ==
  /\ Walks(t, "position", "redrawTiles")
  /\ \E up \in IF t = "ui" THEN {0, Level} ELSE {0} : view' = Plus(view, [x |-> 1, z |-> up])
  /\ UNCHANGED <<sized, executing, remaining, gesture, listed, seen, calls, moves, missed, overlay,
                 flags, drawVars, matrix, crashed>>

(* redrawTiles requests a redraw of the overlays, if the view has a size. *)
RedrawTiles(t) ==
  /\ Walks(t, "redrawTiles", IF sized THEN "request" ELSE "loop")
  /\ Count(t)
  /\ missed' = (missed \/ (at["ui"] = "list"))
  /\ refused' = (refused /\ ~sized)
  /\ UNCHANGED <<view, sized, executing, remaining, pinched, difference, listed, calls, moves, overlay,
                 flags, drawVars, matrix, crashed>>

RequestRedraw(t, next) ==
  /\ ~Fails(t)
  /\ Walks(t, "request", next)
  /\ redraw' = (redraw \/ seen[t])
  /\ Counted(t)
  /\ UNCHANGED <<mapVars, listed, calls, moves, missed, overlay, interrupted, changedSize,
                 drawVars, matrix, crashed>>

WalkFails(t) ==
  /\ at[t] \in {"translate", "scale", "request"} /\ crashed = "no"
  /\ Fails(t)
  /\ Crash("index")

----------------------------------------------------------------------------
(* MapMover.doWork *)
Move ==
  /\ moves < MaxMoves /\ moves' = moves + 1
  /\ Walks("mover", "loop", "translate")
  /\ Count("mover")
  /\ UNCHANGED <<mapVars, listed, calls, missed, overlay, flags, drawVars, matrix, crashed>>

MoverStep == Translate("mover") \/ Position("mover") \/ RedrawTiles("mover")
             \/ RequestRedraw("mover", "loop") \/ WalkFails("mover")

(* ZoomAnimator.doWork *)
Animate ==
  /\ executing
  /\ Walks("animator", "loop", "scale")
  /\ Count("animator")
  /\ UNCHANGED <<mapVars, listed, calls, moves, missed, overlay, flags, drawVars, matrix, crashed>>

(* The last scaling brings the matrix to the end of the animation; an earlier
   one, which stands for all of those, may have done so.                     *)
Scale ==
  /\ ~Fails("animator")
  /\ \/ Walks("animator", "scale", "over")
     \/ remaining # 0 /\ Walks("animator", "scale", "loop")
  /\ Transform("animator", [x |-> 0, z |-> remaining])
  /\ remaining' = 0
  /\ UNCHANGED <<view, sized, executing, gesture>>

EndAnimation ==
  /\ Walks("animator", "over", "redrawTiles")
  /\ executing' = FALSE
  /\ UNCHANGED <<view, sized, remaining, gesture, listed, seen, calls, moves, missed, overlay, flags,
                 drawVars, matrix, crashed>>

AnimatorStep == Animate \/ Scale \/ EndAnimation \/ RedrawTiles("animator")
                \/ RequestRedraw("animator", "loop") \/ WalkFails("animator")

----------------------------------------------------------------------------
(* The UI thread.                                                           *)

Call(place) == /\ Walks("ui", "loop", place)
               /\ calls < MaxUi /\ calls' = calls + 1

(* setCenterAndZoom *)
SetCenterAndZoom ==
  /\ Call("translate")
  /\ Count("ui")
  /\ UNCHANGED <<mapVars, listed, moves, missed, overlay, flags, drawVars, matrix, crashed>>

(* The fingers of a pinch move: onScale. *)
OnScale ==
  /\ Call("scale")
  /\ pinched' = pinched + 1
  /\ Count("ui")
  /\ UNCHANGED <<view, sized, executing, remaining, difference, refused, listed, moves, missed,
                 overlay, flags, drawVars, matrix, crashed>>

(* zoom changes the zoom level, from zoom factor `start` on, and then begins an
   animation, whatever is left of the last one.                              *)
ZoomBy(diff, start) ==
  /\ view' = Plus(view, [x |-> 0, z |-> diff])
  /\ difference' = diff - start
  /\ UNCHANGED <<sized, executing, remaining, refused, listed, seen, moves, missed, overlay, flags,
                 drawVars, matrix, crashed>>

(* Called by a button; if a limit refuses that, nothing changes. *)
Zoom == Call("start") /\ ZoomBy(Level, 0) /\ UNCHANGED pinched

(* Called by onScaleEnd *)
OnScaleEnd ==
  /\ pinched # 0
  /\ Walks("ui", "loop", "start")
  /\ \E diff \in Rounded(pinched) : ZoomBy(diff, pinched)
  /\ pinched' = 0
  /\ UNCHANGED calls

(* The new zoom level is beyond a limit, which may have changed: zoom returns,
   and nothing tells the overlays.                                           *)
PinchRefused ==
  /\ pinched # 0 /\ Rounded(pinched) # {0}
  /\ at["ui"] = "loop" /\ crashed = "no"
  /\ pinched' = 0 /\ refused' = TRUE
  /\ UNCHANGED <<view, sized, executing, remaining, difference, walkVars, overlay, flags, drawVars,
                 matrix, crashed>>

StartAnimation ==
  /\ Walks("ui", "start", "loop")
  /\ remaining' = difference /\ difference' = 0
  /\ executing' = TRUE
  /\ UNCHANGED <<view, sized, pinched, refused, listed, seen, calls, moves, missed, overlay, flags,
                 drawVars, matrix, crashed>>

(* onSizeChanged redraws the tiles, and then tells the overlays. *)
OnSizeChanged(positive) ==
  /\ Call(IF positive THEN "resized" ELSE "loop")
  /\ sized' = positive
  /\ UNCHANGED <<view, executing, remaining, gesture, listed, seen, moves, missed, overlay, flags,
                 drawVars, matrix, crashed>>

RedrawResized ==
  /\ Walks("ui", "resized", "sizeChanged")
  /\ redraw' = (redraw \/ listed)
  /\ refused' = FALSE
  /\ UNCHANGED <<view, sized, executing, remaining, pinched, difference, listed, seen, calls, moves,
                 missed, overlay, interrupted, changedSize, drawVars, matrix, crashed>>

SizeChanged ==
  /\ Walks("ui", "sizeChanged", "loop")
  /\ changedSize' = (changedSize \/ listed)
  /\ UNCHANGED <<mapVars, listed, seen, calls, moves, missed, overlay, interrupted, redraw,
                 drawVars, matrix, crashed>>

(* OverlayList.add: setupOverlay, which starts the thread or finds that it was
   interrupted, and then the list is changed.                                *)
SetupOverlay ==
  /\ ~listed
  /\ overlay # "ended" /\ ~interrupted
  /\ Call("list")
  /\ overlay' = IF overlay = "new" THEN "loop" ELSE overlay
  /\ changedSize' = TRUE
  /\ missed' = FALSE /\ refused' = FALSE
  /\ UNCHANGED <<view, sized, executing, remaining, pinched, difference, listed, seen, moves,
                 interrupted, redraw, drawVars, matrix, crashed>>

List ==
  /\ Walks("ui", "list", "loop")
  /\ listed' = TRUE
  /\ UNCHANGED <<mapVars, seen, calls, moves, missed, overlay, flags, drawVars, matrix, crashed>>

(* OverlayList.remove: the list is changed, and then the thread interrupted. *)
Remove ==
  /\ listed
  /\ Call("interrupt")
  /\ listed' = FALSE
  /\ UNCHANGED <<mapVars, seen, moves, missed, overlay, flags, drawVars, matrix, crashed>>

Interrupt ==
  /\ Walks("ui", "interrupt", "loop")
  /\ interrupted' = (overlay # "ended")
  /\ UNCHANGED <<mapVars, listed, seen, calls, moves, missed, overlay, changedSize, redraw,
                 drawVars, matrix, crashed>>

(* OverlayList.clear does so in the other order. *)
Clear ==
  /\ listed
  /\ Call("clear")
  /\ interrupted' = (overlay # "ended")
  /\ UNCHANGED <<mapVars, listed, seen, moves, missed, overlay, changedSize, redraw, drawVars,
                 matrix, crashed>>

Unlist ==
  /\ Walks("ui", "clear", "loop")
  /\ listed' = FALSE
  /\ UNCHANGED <<mapVars, seen, calls, moves, missed, overlay, flags, drawVars, matrix, crashed>>

(* onDraw fails if the bitmap is recycled. *)
OnDraw ==
  /\ at["ui"] = "loop" /\ crashed = "no"
  /\ listed /\ bitmap = "recycled"
  /\ Crash("recycled")

UiStep == Translate("ui") \/ Position("ui") \/ RedrawTiles("ui") \/ RequestRedraw("ui", "loop")
          \/ ScaleOverlays \/ StartAnimation \/ RedrawResized \/ SizeChanged
          \/ List \/ Interrupt \/ Unlist

Next ==
  \/ OverlayStep \/ MoverStep \/ AnimatorStep \/ UiStep
  \/ Move \/ SetCenterAndZoom \/ Zoom \/ OnScale \/ OnScaleEnd \/ PinchRefused
  \/ SetupOverlay \/ Remove \/ Clear \/ OnDraw
  \/ \E positive \in BOOLEAN : OnSizeChanged(positive)

(* Threads are scheduled, and calls and animations end. *)
Fairness ==
  /\ WF_vars(OverlayStep) /\ WF_vars(MoverStep) /\ WF_vars(AnimatorStep) /\ WF_vars(UiStep)

Spec == Init /\ [][Next]_vars /\ Fairness

----------------------------------------------------------------------------

Point == [x : Int, z : Int]

Places == {"loop", "translate", "position", "redrawTiles", "request", "scale", "over", "start",
           "resized", "sizeChanged", "list", "interrupt", "clear"}
Steps == {"new", "loop", "resize", "create", "redraw", "zoomBefore", "before", "draw", "zoomAfter",
          "after", "check", "place", "caught", "leave", "ended"}

TypeOK ==
  /\ {view, before, after, shown, matrix} \subseteq Point
  /\ at \in [Walkers -> Places] /\ seen \in [Walkers -> BOOLEAN]
  /\ overlay \in Steps
  /\ bitmap \in {"none", "blank", "drawn", "recycled"} /\ crashed \in {"no", "index", "recycled"}
  /\ sized \in BOOLEAN /\ executing \in BOOLEAN /\ listed \in BOOLEAN /\ missed \in BOOLEAN
  /\ interrupted \in BOOLEAN /\ changedSize \in BOOLEAN /\ redraw \in BOOLEAN /\ valid \in BOOLEAN
  /\ remaining \in Int /\ difference \in Int /\ pinched \in Nat /\ refused \in BOOLEAN
  /\ calls \in 0 .. MaxUi /\ moves \in 0 .. MaxMoves

(* The overlay is shown where the map is. *)
Aligned == bitmap = "drawn" /\ Plus(shown, matrix) = view

AtRest == /\ \A t \in Walkers : at[t] = "loop"
          /\ ~executing /\ pinched = 0
          /\ overlay = "loop" /\ ~interrupted /\ ~changedSize /\ ~redraw

(* When nothing goes on the overlay is shown where the map is, however moves,
   pinches, animations and changes of size came in between: the flag is taken back
   before anything is read, and every change of the position or of the matrix is
   followed by a request.  (Not after a pinch that a zoom limit refused, see
   RefusedIsAligned, nor if the request came while the overlay was being added, see
   AddedIsAligned.)                                                            *)
QuietMeansAligned == AtRest /\ listed /\ sized /\ ~missed /\ ~refused => Aligned

(* After the last move, pinch and call the overlay gets there. *)
SettlesAligned ==
  <>[](crashed # "no" \/ overlay \in {"new", "leave", "ended"} \/ ~listed \/ ~sized
       \/ missed \/ refused \/ pinched # 0 \/ Aligned)

(* The thread of an overlay that was removed ends. *)
RemovedEnds ==
  overlay # "new" /\ ~listed /\ at["ui"] # "list"
    ~> (overlay = "ended" \/ listed \/ at["ui"] = "list" \/ crashed # "no")

(* What the code does not guarantee. *)

(* The list may be changed while others walk over it under its lock. *)
IterationIsSafe == crashed # "index"

(* No bitmap is drawn after it was recycled. *)
DrawsNoRecycledBitmap == crashed # "recycled"

(* Once at rest an overlay is aligned, also one that has just been added. *)
AddedIsAligned == AtRest /\ listed /\ sized /\ ~refused => Aligned

(* So is it after a pinch that was refused: it stays scaled. *)
RefusedIsAligned == AtRest /\ listed /\ sized /\ ~missed => Aligned

(* An overlay of the list has a thread: a removed one cannot be added again. *)
ListedIsAlive == listed /\ at["ui"] = "loop" => overlay # "ended"
=============================================================================
