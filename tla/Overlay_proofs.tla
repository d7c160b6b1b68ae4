---------------------------- MODULE Overlay_proofs ----------------------------
(* For any number of calls and moves: an overlay at rest is shown where the   *)
(* map is.                                                                    *)
EXTENDS Overlay, TLAPS

(* A thread walks from one place to another.                                  *)
LEMMA AtTyped == ASSUME TypeOK, Next PROVE at' \in [Walkers -> Places]
<1>1. at \in [Walkers -> Places]
  BY DEF TypeOK
<1>2. \A t, here, there : Walks(t, here, there) /\ there \in Places => at' \in [Walkers -> Places]
  BY <1>1 DEF Walks
<1>3. {"loop", "translate", "position", "redrawTiles", "request", "scale", "over", "start", "resized",
       "sizeChanged", "list", "interrupt", "clear"} = Places
  BY DEF Places
<1>4. CASE OverlayStep \/ OnDraw
  BY <1>1, <1>4 DEF OverlayStep, Wake, Recycle, Create, BeginRedraw, ReadBefore, DrawBitmap, ReadAfter,
     ReadZoom, CheckAnimation, Place, Caught, Restore, Leave, OnDraw, Crash, Alone, walkVars
<1>5. ASSUME NEW t,
             Translate(t) \/ Position(t) \/ RedrawTiles(t) \/ RequestRedraw(t, "loop") \/ WalkFails(t)
      PROVE  at' \in [Walkers -> Places]
  BY <1>1, <1>2, <1>3, <1>5 DEF Translate, Position, RedrawTiles, RequestRedraw, WalkFails, Crash,
     walkVars
<1>6. CASE Move \/ Animate \/ Scale \/ EndAnimation
  BY <1>2, <1>3, <1>6 DEF Move, Animate, Scale, EndAnimation
<1>7. CASE StartAnimation \/ RedrawResized \/ SizeChanged \/ List \/ Interrupt \/ Unlist
  BY <1>2, <1>3, <1>7 DEF StartAnimation, RedrawResized, SizeChanged, List, Interrupt, Unlist
<1>8. CASE SetCenterAndZoom \/ Zoom \/ SetupOverlay \/ Remove \/ Clear
           \/ \E positive \in BOOLEAN : OnSizeChanged(positive)
  BY <1>2, <1>3, <1>8 DEF SetCenterAndZoom, Zoom, SetupOverlay, Remove, Clear, OnSizeChanged, Call
<1>9. CASE OnScale \/ ScaleOverlays \/ OnScaleEnd \/ PinchRefused
  BY <1>1, <1>2, <1>3, <1>9 DEF OnScale, ScaleOverlays, OnScaleEnd, PinchRefused, Call, walkVars
<1> QED
  BY <1>4, <1>5, <1>6, <1>7, <1>8, <1>9 DEF Next, MoverStep, AnimatorStep, UiStep

LEMMA SeenTyped == ASSUME TypeOK, Next PROVE seen' \in [Walkers -> BOOLEAN]
<1>1. seen \in [Walkers -> BOOLEAN] /\ listed \in BOOLEAN
  BY DEF TypeOK
<1>2. \A t : Count(t) \/ Counted(t) => seen' \in [Walkers -> BOOLEAN]
  BY <1>1 DEF Count, Counted
<1>3. CASE UNCHANGED seen
  BY <1>1, <1>3
<1>4. CASE OverlayStep \/ OnDraw
  BY <1>3, <1>4 DEF OverlayStep, Wake, Recycle, Create, BeginRedraw, ReadBefore, DrawBitmap, ReadAfter,
     ReadZoom, CheckAnimation, Place, Caught, Restore, Leave, OnDraw, Crash, Alone, walkVars
<1>5. ASSUME NEW t,
             Translate(t) \/ Position(t) \/ RedrawTiles(t) \/ RequestRedraw(t, "loop") \/ WalkFails(t)
      PROVE  seen' \in [Walkers -> BOOLEAN]
  BY <1>2, <1>3, <1>5 DEF Translate, Transform, Position, RedrawTiles, RequestRedraw, WalkFails, Crash,
     walkVars
<1>6. CASE Move \/ Animate \/ Scale \/ EndAnimation
  BY <1>2, <1>3, <1>6 DEF Move, Animate, Scale, Transform, EndAnimation
<1>7. CASE StartAnimation \/ RedrawResized \/ SizeChanged \/ List \/ Interrupt \/ Unlist
  BY <1>3, <1>7 DEF StartAnimation, RedrawResized, SizeChanged, List, Interrupt, Unlist
<1>8. CASE SetCenterAndZoom \/ Zoom \/ SetupOverlay \/ Remove \/ Clear
           \/ \E positive \in BOOLEAN : OnSizeChanged(positive)
  BY <1>2, <1>3, <1>8
     DEF SetCenterAndZoom, Zoom, ZoomBy, SetupOverlay, Remove, Clear, OnSizeChanged, Call
<1>9. CASE OnScale \/ ScaleOverlays \/ OnScaleEnd \/ PinchRefused
  BY <1>2, <1>3, <1>9
     DEF OnScale, ScaleOverlays, Transform, OnScaleEnd, ZoomBy, PinchRefused, walkVars
<1> QED
  BY <1>4, <1>5, <1>6, <1>7, <1>8, <1>9 DEF Next, MoverStep, AnimatorStep, UiStep

(* The overlay's drawing, its matrix and the position of the map.             *)
LEMMA PointsTyped ==
  ASSUME TypeOK, Next
  PROVE  {view, before, after, shown, matrix}' \subseteq Point
<1>1. \A p, q \in Point : /\ [p EXCEPT !.x = q.x] \in Point /\ [p EXCEPT !.z = q.z] \in Point
                          /\ Plus(p, q) \in Point /\ Minus(p, q) \in Point
  BY DEF Point, Plus, Minus
<1>2. Origin \in Point /\ \A step, up \in Int : [x |-> step, z |-> up] \in Point
  BY DEF Origin, Point
<1>3. view \in Point /\ before \in Point /\ after \in Point /\ shown \in Point /\ matrix \in Point
  BY DEF TypeOK
<1> SUFFICES /\ view' \in Point /\ before' \in Point /\ after' \in Point
             /\ shown' \in Point /\ matrix' \in Point
  OBVIOUS
<1>4. remaining \in Int /\ pinched \in Int /\ Walkers = {"ui", "mover", "animator"}
  BY DEF TypeOK, Walkers
<1>5. CASE OverlayStep
  <2> USE <1>1, <1>2, <1>3 DEF Alone, GoesOn, mapVars, drawVars
  <2>1. CASE Wake \/ Recycle \/ Create \/ BeginRedraw \/ Caught \/ Restore \/ Leave
    BY <2>1 DEF Wake, Recycle, Create, BeginRedraw, Caught, Restore, Leave
  <2>2. CASE ReadBefore
    BY <2>2 DEF ReadBefore
  <2>3. CASE DrawBitmap \/ CheckAnimation
    BY <2>3 DEF DrawBitmap, CheckAnimation
  <2>4. CASE ReadZoom("zoomBefore", "before") \/ ReadZoom("zoomAfter", "after")
    <3>1. /\ before' = before \/ before' = [before EXCEPT !.z = view.z]
          /\ after' = after \/ after' = [after EXCEPT !.z = view.z]
          /\ UNCHANGED <<view, shown, matrix>>
      BY <2>4 DEF ReadZoom
    <3>2. [before EXCEPT !.z = view.z] \in Point /\ [after EXCEPT !.z = view.z] \in Point
      OBVIOUS
    <3> HIDE <1>1
    <3> QED
      BY <3>1, <3>2
  <2>5. CASE ReadAfter
    BY <2>5 DEF ReadAfter
  <2>6. CASE Place
    BY <2>6 DEF Place
  <2> QED
    BY <1>5, <2>1, <2>2, <2>3, <2>4, <2>5, <2>6 DEF OverlayStep
<1>6. ASSUME NEW t, NEW change \in Point, Transform(t, change), UNCHANGED view
      PROVE  /\ view' \in Point /\ before' \in Point /\ after' \in Point
             /\ shown' \in Point /\ matrix' \in Point
  BY <1>1, <1>3, <1>6 DEF Transform, drawVars
<1>7. ASSUME NEW t, Translate(t)
      PROVE  /\ view' \in Point /\ before' \in Point /\ after' \in Point
             /\ shown' \in Point /\ matrix' \in Point
  BY <1>2, <1>6, <1>7 DEF Translate, mapVars
<1>8. CASE Scale
  BY <1>2, <1>4, <1>6, <1>8 DEF Scale
<1>9. ASSUME NEW t, Position(t)
      PROVE  /\ view' \in Point /\ before' \in Point /\ after' \in Point
             /\ shown' \in Point /\ matrix' \in Point
  <2>1. PICK up \in Int : view' = Plus(view, [x |-> 1, z |-> up])
    BY <1>9 DEF Position, Level
  <2>2. [x |-> 1, z |-> up] \in Point
    BY DEF Point
  <2>3. Plus(view, [x |-> 1, z |-> up]) \in Point
    BY <1>1, <1>3, <2>2
  <2> QED
    BY <1>3, <1>9, <2>1, <2>3 DEF Position, drawVars
<1>10. CASE Zoom \/ OnScaleEnd
  <2>1. PICK diff \in Int, start \in Int : ZoomBy(diff, start)
    BY <1>4, <1>10 DEF Zoom, OnScaleEnd, Rounded, Level
  <2>2. [x |-> 0, z |-> diff] \in Point
    BY DEF Point
  <2>3. Plus(view, [x |-> 0, z |-> diff]) \in Point
    BY <1>1, <1>3, <2>2
  <2> QED
    BY <1>3, <2>1, <2>3 DEF ZoomBy, drawVars
<1>11. CASE UNCHANGED <<view, drawVars, matrix>>
  BY <1>3, <1>11 DEF drawVars
<1>12. ASSUME NEW t, RedrawTiles(t) \/ RequestRedraw(t, "loop") \/ WalkFails(t)
       PROVE  UNCHANGED <<view, drawVars, matrix>>
  BY <1>12 DEF RedrawTiles, RequestRedraw, WalkFails, Crash, mapVars, drawVars
<1>13. CASE Move \/ Animate \/ EndAnimation \/ OnDraw
  BY <1>11, <1>13 DEF Move, Animate, EndAnimation, OnDraw, Crash, mapVars
<1>14. CASE StartAnimation \/ RedrawResized \/ SizeChanged \/ List \/ Interrupt \/ Unlist
  BY <1>11, <1>14 DEF StartAnimation, RedrawResized, SizeChanged, List, Interrupt, Unlist, mapVars
<1>15. CASE SetCenterAndZoom \/ SetupOverlay \/ Remove \/ Clear
            \/ \E positive \in BOOLEAN : OnSizeChanged(positive)
  BY <1>11, <1>15 DEF SetCenterAndZoom, SetupOverlay, Remove, Clear, OnSizeChanged, mapVars
<1>16. CASE OnScale \/ PinchRefused
  BY <1>11, <1>16 DEF OnScale, PinchRefused
<1>17. CASE ScaleOverlays
  BY <1>2, <1>6, <1>17 DEF ScaleOverlays, mapVars
<1> QED
  BY <1>5, <1>7, <1>8, <1>9, <1>10, <1>11, <1>12, <1>13, <1>14, <1>15, <1>16, <1>17
     DEF Next, MoverStep, AnimatorStep, UiStep

LEMMA FlagsTyped ==
  ASSUME TypeOK, Next
  PROVE  /\ sized' \in BOOLEAN /\ executing' \in BOOLEAN /\ listed' \in BOOLEAN /\ missed' \in BOOLEAN
         /\ interrupted' \in BOOLEAN /\ changedSize' \in BOOLEAN /\ redraw' \in BOOLEAN
         /\ valid' \in BOOLEAN
<1> USE DEF mapVars, walkVars, flags, drawVars
<1>1. /\ sized \in BOOLEAN /\ executing \in BOOLEAN /\ listed \in BOOLEAN /\ missed \in BOOLEAN
      /\ interrupted \in BOOLEAN /\ changedSize \in BOOLEAN /\ redraw \in BOOLEAN
      /\ valid \in BOOLEAN
  BY DEF TypeOK
<1>2. CASE OverlayStep \/ OnDraw
  <2>1. CASE Wake \/ Recycle \/ BeginRedraw \/ Caught \/ Restore \/ Leave
    BY <1>1, <2>1 DEF Wake, Recycle, BeginRedraw, Caught, Restore, Leave, Alone
  <2>2. CASE Create
    BY <1>1, <2>2 DEF Create, Alone
  <2>3. CASE ReadZoom("zoomBefore", "before") \/ ReadZoom("zoomAfter", "after") \/ OnDraw
    BY <1>1, <2>3 DEF ReadZoom, OnDraw, Crash, Alone
  <2>4. CASE ReadBefore \/ DrawBitmap \/ ReadAfter \/ CheckAnimation \/ Place
    BY <1>1, <2>4 DEF ReadBefore, DrawBitmap, ReadAfter, CheckAnimation, Place, Alone
  <2> QED
    BY <1>2, <2>1, <2>2, <2>3, <2>4 DEF OverlayStep
<1>3. ASSUME NEW t,
             Translate(t) \/ Position(t) \/ RedrawTiles(t) \/ RequestRedraw(t, "loop") \/ WalkFails(t)
      PROVE  /\ sized' \in BOOLEAN /\ executing' \in BOOLEAN /\ listed' \in BOOLEAN
             /\ missed' \in BOOLEAN /\ interrupted' \in BOOLEAN /\ changedSize' \in BOOLEAN
             /\ redraw' \in BOOLEAN /\ valid' \in BOOLEAN
  BY <1>1, <1>3 DEF Translate, Transform, Position, RedrawTiles, RequestRedraw, WalkFails, Crash
<1>4. CASE Move \/ Animate \/ Scale \/ EndAnimation
  BY <1>1, <1>4 DEF Move, Animate, Scale, Transform, EndAnimation
<1>5. CASE StartAnimation \/ RedrawResized \/ SizeChanged \/ List \/ Interrupt \/ Unlist
  BY <1>1, <1>5 DEF StartAnimation, RedrawResized, SizeChanged, List, Interrupt, Unlist
<1>6. CASE SetCenterAndZoom \/ Zoom \/ SetupOverlay \/ Remove \/ Clear
           \/ \E positive \in BOOLEAN : OnSizeChanged(positive)
  BY <1>1, <1>6 DEF SetCenterAndZoom, Zoom, ZoomBy, SetupOverlay, Remove, Clear, OnSizeChanged
<1>7. CASE OnScale \/ ScaleOverlays \/ OnScaleEnd \/ PinchRefused
  BY <1>1, <1>7 DEF OnScale, ScaleOverlays, Transform, OnScaleEnd, ZoomBy, PinchRefused
<1> QED
  BY <1>2, <1>3, <1>4, <1>5, <1>6, <1>7 DEF Next, MoverStep, AnimatorStep, UiStep

(* What is to be scaled, and by which pinch.                                  *)
LEMMA ScalesTyped ==
  ASSUME TypeOK, Next
  PROVE  remaining' \in Int /\ difference' \in Int /\ pinched' \in Nat /\ refused' \in BOOLEAN
<1> USE DEF mapVars, gesture
<1>1. /\ remaining \in Int /\ difference \in Int /\ pinched \in Nat /\ refused \in BOOLEAN
      /\ sized \in BOOLEAN
  BY DEF TypeOK
<1>2. CASE UNCHANGED <<remaining, gesture>>
  BY <1>1, <1>2
<1>3. CASE OverlayStep \/ OnDraw
  BY <1>2, <1>3 DEF OverlayStep, Wake, Recycle, Create, BeginRedraw, ReadBefore, DrawBitmap,
     ReadAfter, ReadZoom, CheckAnimation, Place, Caught, Restore, Leave, OnDraw, Crash, Alone
<1>4. ASSUME NEW t, Translate(t) \/ Position(t) \/ RequestRedraw(t, "loop") \/ WalkFails(t)
      PROVE  UNCHANGED <<remaining, gesture>>
  BY <1>4 DEF Translate, Position, RequestRedraw, WalkFails, Crash
<1>5. ASSUME NEW t, RedrawTiles(t)
      PROVE  UNCHANGED <<remaining, pinched, difference>> /\ refused' \in BOOLEAN
  BY <1>1, <1>5 DEF RedrawTiles
<1>6. CASE Move \/ Animate \/ EndAnimation \/ ScaleOverlays
  BY <1>2, <1>6 DEF Move, Animate, EndAnimation, ScaleOverlays
<1>7. CASE Scale
  BY <1>1, <1>7 DEF Scale
<1>8. CASE SizeChanged \/ List \/ Interrupt \/ Unlist \/ SetCenterAndZoom \/ Remove \/ Clear
           \/ \E positive \in BOOLEAN : OnSizeChanged(positive)
  BY <1>2, <1>8
     DEF SizeChanged, List, Interrupt, Unlist, SetCenterAndZoom, Remove, Clear, OnSizeChanged
<1>9. CASE RedrawResized \/ SetupOverlay
  BY <1>1, <1>9 DEF RedrawResized, SetupOverlay
<1>10. CASE StartAnimation
  BY <1>1, <1>10 DEF StartAnimation
<1>11. CASE Zoom
  BY <1>1, <1>11 DEF Zoom, ZoomBy, Level
<1>12. CASE OnScale
  BY <1>1, <1>12 DEF OnScale
<1>13. CASE OnScaleEnd
  <2>1. PICK diff \in Int : ZoomBy(diff, pinched)
    BY <1>1, <1>13 DEF OnScaleEnd, Rounded
  <2>2. pinched' = 0
    BY <1>13 DEF OnScaleEnd
  <2> QED
    BY <1>1, <2>1, <2>2 DEF ZoomBy
<1>14. CASE PinchRefused
  BY <1>1, <1>14 DEF PinchRefused
<1> QED
  BY <1>1, <1>2, <1>3, <1>4, <1>5, <1>6, <1>7, <1>8, <1>9, <1>10, <1>11, <1>12, <1>13, <1>14
     DEF Next, MoverStep, AnimatorStep, UiStep

LEMMA OthersTyped ==
  ASSUME TypeOK, Next
  PROVE  /\ overlay' \in Steps /\ bitmap' \in {"none", "blank", "drawn", "recycled"}
         /\ crashed' \in {"no", "index", "recycled"}
         /\ calls' \in 0 .. MaxUi /\ moves' \in 0 .. MaxMoves
<1> USE DEF mapVars, walkVars, flags, drawVars
<1>1. /\ overlay \in Steps /\ bitmap \in {"none", "blank", "drawn", "recycled"}
      /\ crashed \in {"no", "index", "recycled"} /\ calls \in 0 .. MaxUi /\ moves \in 0 .. MaxMoves
  BY DEF TypeOK
<1>2. CASE OverlayStep \/ OnDraw
  BY <1>1, <1>2 DEF Steps, OverlayStep, Wake, Recycle, Create, BeginRedraw, ReadBefore, DrawBitmap,
     ReadAfter, ReadZoom, CheckAnimation, Place, GoesOn, Caught, Restore, Leave, OnDraw, Crash, Alone
<1>3. ASSUME NEW t,
             Translate(t) \/ Position(t) \/ RedrawTiles(t) \/ RequestRedraw(t, "loop") \/ WalkFails(t)
      PROVE  UNCHANGED <<overlay, bitmap, calls, moves>> /\ crashed' \in {crashed, "index"}
  BY <1>3 DEF Translate, Transform, Position, RedrawTiles, RequestRedraw, WalkFails, Crash
<1>4. CASE Move \/ Animate \/ Scale \/ EndAnimation
  BY <1>1, <1>4, OverlayAssumption DEF Move, Animate, Scale, Transform, EndAnimation
<1>5. CASE StartAnimation \/ RedrawResized \/ SizeChanged \/ List \/ Interrupt \/ Unlist
  BY <1>1, <1>5 DEF StartAnimation, RedrawResized, SizeChanged, List, Interrupt, Unlist
<1>6. CASE SetCenterAndZoom \/ Zoom \/ SetupOverlay \/ Remove \/ Clear
           \/ \E positive \in BOOLEAN : OnSizeChanged(positive)
  BY <1>1, <1>6, OverlayAssumption
     DEF SetCenterAndZoom, Zoom, ZoomBy, SetupOverlay, Remove, Clear, OnSizeChanged, Call, Steps
<1>7. CASE OnScale
  BY <1>1, <1>7, OverlayAssumption DEF OnScale, Call
<1>8. CASE ScaleOverlays \/ OnScaleEnd \/ PinchRefused
  <2>1. UNCHANGED <<overlay, bitmap, crashed, calls, moves>>
    BY <1>8 DEF ScaleOverlays, Transform, OnScaleEnd, ZoomBy, PinchRefused
  <2> QED
    BY <1>1, <2>1
<1> QED
  BY <1>1, <1>2, <1>3, <1>4, <1>5, <1>6, <1>7, <1>8 DEF Next, MoverStep, AnimatorStep, UiStep

LEMMA Typed == TypeOK /\ [Next]_vars => TypeOK'
<1>1. CASE UNCHANGED vars
  BY <1>1 DEF TypeOK, vars, mapVars, gesture, walkVars, flags, drawVars
<1> QED
  BY <1>1, AtTyped, SeenTyped, PointsTyped, FlagsTyped, ScalesTyped, OthersTyped DEF TypeOK

(* The state of the map, of the list and of the overlay is well formed.       *)
THEOREM OverlayTypeCorrect == Spec => []TypeOK
<1>1. Init => TypeOK
  <2>1. /\ Origin \in Point /\ 0 \in 0 .. MaxUi /\ 0 \in 0 .. MaxMoves /\ "loop" \in Places
        /\ "new" \in Steps
    BY OverlayAssumption DEF Origin, Point, Places, Steps
  <2>2. ASSUME Init PROVE remaining \in Int /\ difference \in Int /\ pinched \in Nat
    BY <2>2 DEF Init
  <2> QED
    BY <2>1, <2>2 DEF Init, TypeOK
<1> QED
  BY <1>1, Typed, PTL DEF Spec
-----------------------------------------------------------------------------
(* How a change of the map reaches the overlay. Whoever changes the position  *)
(* or the matrix still has to request a redraw, and a request stays in a flag *)
(* until the overlay's thread reads the position afresh.                      *)
RequestComes ==
  \/ \E t \in Walkers : \/ at[t] \in {"translate", "position", "redrawTiles"}
                        \/ at[t] = "request" /\ seen[t]
  \/ executing
  \/ at["ui"] \in {"start", "resized", "sizeChanged"}
  \/ pinched # 0
Requested == redraw \/ changedSize \/ RequestComes

(* An overlay that is removed never comes to rest again.                      *)
Ends == interrupted \/ overlay \in {"caught", "leave", "ended"}
InUse == (listed \/ at["ui"] = "list") /\ sized /\ ~missed /\ ~Ends

(* What the thread has read, or has shown, is where the map is, or it has yet *)
(* to read, or another request makes it read again; but a pinch that is       *)
(* refused is followed by none.                                               *)
Follows ==
  InUse /\ ~refused =>
           \/ Requested
           \/ overlay \in {"resize", "create", "redraw", "zoomBefore", "before", "draw", "zoomAfter"}
           \/ overlay = "after" /\ after.z = view.z
           \/ overlay \in {"check", "place"} /\ after = view
           \/ overlay = "loop" /\ Aligned

(* A view that has a size gives the overlay dimensions.                       *)
GetsDimensions ==
  InUse /\ ~valid => \/ changedSize \/ overlay \in {"resize", "create"}
                     \/ at["ui"] \in {"resized", "sizeChanged"}

(* Whoever scales the overlays has yet to end an animation, or a pinch.       *)
ScalingEnds ==
  /\ at["animator"] \in {"scale", "over"} => executing
  /\ at["ui"] = "scale" => pinched # 0

(* An overlay that is not in the list has no thread yet, or the thread ends,  *)
(* which clear() has seen to before it changes the list.                      *)
UnlistedEnds ==
  at["ui"] = "clear" \/ (~listed /\ at["ui"] \notin {"list", "interrupt"}) =>
    Ends \/ overlay = "new"

FollowsInv == Follows /\ GetsDimensions /\ ScalingEnds /\ UnlistedEnds

LEMMA EndsStays == ASSUME TypeOK, Next, Ends PROVE Ends'
<1> USE DEF Ends, mapVars, walkVars, flags, drawVars
<1>1. CASE OverlayStep \/ OnDraw
  BY <1>1 DEF OverlayStep, OverlayAt, Wake, Recycle, Create, BeginRedraw, ReadBefore, DrawBitmap,
     ReadAfter, ReadZoom, CheckAnimation, Place, GoesOn, Caught, Restore, Leave, OnDraw, Crash, Alone
<1>2. ASSUME NEW t,
             Translate(t) \/ Position(t) \/ RedrawTiles(t) \/ RequestRedraw(t, "loop") \/ WalkFails(t)
      PROVE  Ends'
  BY <1>2 DEF Translate, Transform, Position, RedrawTiles, RequestRedraw, WalkFails, Crash
<1>3. CASE Move \/ Animate \/ Scale \/ EndAnimation
  BY <1>3 DEF Move, Animate, Scale, Transform, EndAnimation
<1>4. CASE StartAnimation \/ RedrawResized \/ SizeChanged \/ List \/ Interrupt \/ Unlist
  BY <1>4 DEF StartAnimation, RedrawResized, SizeChanged, List, Interrupt, Unlist
<1>5. CASE SetCenterAndZoom \/ Zoom \/ Remove \/ Clear
           \/ \E positive \in BOOLEAN : OnSizeChanged(positive)
  BY <1>5 DEF SetCenterAndZoom, Zoom, ZoomBy, Remove, Clear, OnSizeChanged
<1>6. CASE SetupOverlay
  BY <1>6 DEF SetupOverlay
<1>7. CASE OnScale \/ ScaleOverlays \/ OnScaleEnd \/ PinchRefused
  BY <1>7 DEF OnScale, ScaleOverlays, Transform, OnScaleEnd, ZoomBy, PinchRefused
<1> QED
  BY <1>1, <1>2, <1>3, <1>4, <1>5, <1>6, <1>7 DEF Next, MoverStep, AnimatorStep, UiStep

LEMMA WalkMoves ==
  ASSUME TypeOK, NEW t \in Walkers, NEW here, NEW there, Walks(t, here, there)
  PROVE  /\ at[t] = here /\ at'[t] = there
         /\ \A other \in Walkers \ {t} : at'[other] = at[other]
BY DEF TypeOK, Walks

(* The private steps of the overlay's thread leave alone who is where.        *)
LEMMA OverlayFollows ==
  ASSUME TypeOK, FollowsInv, Next, OverlayStep
  PROVE  FollowsInv'
<1> USE DEF FollowsInv, OverlayAt, gesture
<1>1. UNCHANGED <<mapVars, walkVars>>
  BY DEF OverlayStep, Wake, Recycle, Create, BeginRedraw, ReadBefore, DrawBitmap, ReadAfter,
     ReadZoom, CheckAnimation, Place, Caught, Restore, Leave, Alone
<1>2. /\ RequestComes' = RequestComes /\ ScalingEnds'
      /\ InUse' => InUse
  BY <1>1, EndsStays DEF RequestComes, ScalingEnds, InUse, mapVars, walkVars
<1>3. overlay # "new" /\ overlay' # "new"
  BY DEF OverlayStep, Wake, Recycle, Create, BeginRedraw, ReadBefore, DrawBitmap, ReadAfter,
     ReadZoom, CheckAnimation, Place, GoesOn, Caught, Restore, Leave
<1>4. UnlistedEnds'
  BY <1>1, <1>3, EndsStays DEF UnlistedEnds, walkVars
<1>5. view \in Point /\ before \in Point /\ after \in Point
  BY DEF TypeOK
<1>6. InUse => ~interrupted /\ overlay \notin {"caught", "leave", "ended"} /\ sized
  BY DEF InUse, Ends
<1> SUFFICES ASSUME InUse' PROVE Follows' /\ GetsDimensions'
  BY <1>2, <1>4 DEF Follows, GetsDimensions
<1>7. CASE Wake
  BY <1>1, <1>2, <1>7 DEF Wake, Follows, GetsDimensions, walkVars, drawVars, flags
<1>8. CASE Recycle
  BY <1>1, <1>2, <1>8 DEF Recycle, Follows, GetsDimensions
<1>9. CASE Create
  BY <1>1, <1>2, <1>6, <1>9 DEF Create, Follows, GetsDimensions
<1>10. CASE BeginRedraw
  BY <1>1, <1>2, <1>10
     DEF BeginRedraw, Follows, GetsDimensions, Requested, RequestComes, walkVars, drawVars
<1>11. CASE ReadZoom("zoomBefore", "before")
  BY <1>1, <1>2, <1>11 DEF ReadZoom, Follows, GetsDimensions, Requested, walkVars, flags
<1>12. CASE ReadZoom("zoomAfter", "after")
  <2>1. after'.z = view'.z
    BY <1>1, <1>5, <1>12 DEF ReadZoom, mapVars, Point
  <2> QED
    BY <1>1, <1>2, <1>12, <2>1 DEF ReadZoom, Follows, GetsDimensions, Requested, walkVars, flags
<1>13. CASE ReadBefore \/ DrawBitmap
  BY <1>1, <1>2, <1>6, <1>13
     DEF ReadBefore, DrawBitmap, GoesOn, Stop, Follows, GetsDimensions, Requested, walkVars, flags
<1>14. CASE ReadAfter
  <2>1. after.z = view.z => after' = view'
    BY <1>1, <1>5, <1>14 DEF ReadAfter, mapVars, Point
  <2> QED
    BY <1>1, <1>2, <1>14, <2>1
       DEF ReadAfter, Follows, GetsDimensions, Requested, Aligned, mapVars, walkVars, flags
<1>15. CASE CheckAnimation
  BY <1>1, <1>2, <1>15
     DEF CheckAnimation, GoesOn, Follows, GetsDimensions, Requested, RequestComes, mapVars, walkVars,
         flags
<1>16. CASE Place
  <2>1. after = view => Aligned'
    BY <1>1, <1>5, <1>16 DEF Place, Aligned, Plus, Minus, Point, mapVars
  <2>2. Requested' = Requested /\ overlay' = "loop" /\ UNCHANGED <<valid, changedSize>>
    BY <1>2, <1>16 DEF Place, GoesOn, Requested, flags
  <2> QED
    BY <1>1, <1>2, <1>16, <2>1, <2>2 DEF Place, Follows, GetsDimensions, mapVars, walkVars
<1>17. CASE Caught \/ Restore \/ Leave
  BY <1>2, <1>6, <1>17 DEF Caught, Restore, Leave, InUse, Ends
<1> QED
  BY <1>7, <1>8, <1>9, <1>10, <1>11, <1>12, <1>13, <1>14, <1>15, <1>16, <1>17 DEF OverlayStep
(* A thread that walks over the list, or begins to, goes from one of these    *)
(* places to another.                                                         *)
Walk(t) ==
  \/ Translate(t) \/ Position(t) \/ RedrawTiles(t) \/ RequestRedraw(t, "loop")
  \/ (t = "mover" /\ Move) \/ (t = "ui" /\ SetCenterAndZoom)
Visited == {"loop", "translate", "position", "redrawTiles", "request"}

LEMMA WalkVisits ==
  ASSUME TypeOK, NEW t \in Walkers, Walk(t)
  PROVE  /\ at[t] \in Visited /\ at'[t] \in Visited
         /\ \A other \in Walkers \ {t} : at'[other] = at[other] /\ seen'[other] = seen[other]
         /\ UNCHANGED <<sized, executing, pinched, listed, interrupted, changedSize, overlay, drawVars>>
<1> USE DEF mapVars, gesture, walkVars, flags, drawVars, Visited
<1>1. seen \in [Walkers -> BOOLEAN]
  BY DEF TypeOK
<1>2. CASE Translate(t)
  BY <1>1, <1>2, WalkMoves DEF Translate, Transform, Counted
<1>3. CASE Position(t)
  BY <1>1, <1>3, WalkMoves DEF Position
<1>4. CASE RedrawTiles(t)
  BY <1>1, <1>4, WalkMoves DEF RedrawTiles, Count
<1>5. CASE RequestRedraw(t, "loop")
  BY <1>1, <1>5, WalkMoves DEF RequestRedraw, Counted
<1>6. CASE t = "mover" /\ Move
  BY <1>1, <1>6, WalkMoves DEF Move, Count
<1>7. CASE t = "ui" /\ SetCenterAndZoom
  BY <1>1, <1>7, WalkMoves DEF SetCenterAndZoom, Call, Count
<1> QED
  BY <1>2, <1>3, <1>4, <1>5, <1>6, <1>7 DEF Walk

(* Until the walk is over a request is to come, and at its end it has come.   *)
LEMMA WalkRequests ==
  ASSUME TypeOK, FollowsInv, NEW t \in Walkers, Walk(t), InUse'
  PROVE  Requested' \/ (~Requested /\ UNCHANGED <<view, matrix, refused>>)
<1> USE DEF mapVars, gesture, Walkers, Visited
<1>1. CASE Translate(t) \/ Position(t) \/ (t = "mover" /\ Move) \/ (t = "ui" /\ SetCenterAndZoom)
  <2>1. at'[t] \in {"translate", "position", "redrawTiles"}
    BY <1>1, WalkMoves DEF Translate, Position, Move, SetCenterAndZoom, Call
  <2> QED
    BY <2>1 DEF Requested, RequestComes
<1>2. CASE RedrawTiles(t)
  <2>1. at'[t] = IF sized THEN "request" ELSE "loop"
    BY <1>2, WalkMoves DEF RedrawTiles
  <2>2. sized /\ listed
    BY <1>2, <2>1, WalkVisits DEF InUse, RedrawTiles
  <2>3. seen'[t]
    BY <1>2, <2>2 DEF RedrawTiles, Count, TypeOK
  <2> QED
    BY <2>1, <2>2, <2>3 DEF Requested, RequestComes
<1>3. CASE RequestRedraw(t, "loop")
  <2>1. redraw' = (redraw \/ seen[t]) /\ at[t] = "request" /\ at'[t] = "loop"
    BY <1>3, WalkMoves DEF RequestRedraw
  <2>2. CASE seen[t]
    BY <2>1, <2>2 DEF Requested
  <2>3. CASE ~seen[t]
    BY <1>3, <2>1, <2>3, WalkVisits DEF RequestRedraw, Requested, RequestComes, mapVars
  <2> QED
    BY <2>2, <2>3
<1> QED
  BY <1>1, <1>2, <1>3 DEF Walk

LEMMA WalkFollows ==
  ASSUME TypeOK, FollowsInv, Next, NEW t \in Walkers, Walk(t)
  PROVE  FollowsInv'
<1>1. /\ at[t] \in Visited /\ at'[t] \in Visited
      /\ \A other \in Walkers \ {t} : at'[other] = at[other]
      /\ UNCHANGED <<sized, executing, pinched, listed, interrupted, changedSize, overlay, drawVars>>
  BY WalkVisits
<1>2. missed => missed'
  BY DEF Walk, Translate, Transform, Position, RedrawTiles, RequestRedraw, Move, SetCenterAndZoom
<1>3. /\ at'["ui"] = at["ui"] \/ (at["ui"] \in Visited /\ at'["ui"] \in Visited)
      /\ at'["animator"] = at["animator"] \/ at'["animator"] \in Visited
  BY <1>1 DEF Walkers
<1>4. InUse' => InUse
  BY <1>1, <1>2, <1>3 DEF InUse, Ends, Visited
<1>5. Follows'
  BY <1>1, <1>4, WalkRequests DEF FollowsInv, Follows, Aligned, drawVars
<1>6. GetsDimensions'
  BY <1>1, <1>3, <1>4 DEF FollowsInv, GetsDimensions, Visited, drawVars
<1>7. ScalingEnds'
  BY <1>1, <1>3 DEF FollowsInv, ScalingEnds, Visited
<1>8. UnlistedEnds'
  BY <1>1, <1>3 DEF FollowsInv, UnlistedEnds, Ends, Visited
<1> QED
  BY <1>5, <1>6, <1>7, <1>8 DEF FollowsInv
(* While an animation is executed a request is to come.                       *)
LEMMA AnimationFollows ==
  ASSUME TypeOK, FollowsInv, Next, Animate \/ Scale \/ EndAnimation
  PROVE  FollowsInv'
<1> USE DEF mapVars, gesture, walkVars, flags, drawVars, Walkers
<1>1. RequestComes'
  <2>1. CASE Animate
    BY <2>1 DEF Animate, RequestComes
  <2>2. CASE Scale
    BY <2>2 DEF Scale, Walks, FollowsInv, ScalingEnds, RequestComes
  <2>3. CASE EndAnimation
    BY <2>3, WalkMoves DEF EndAnimation, RequestComes
  <2> QED
    BY <2>1, <2>2, <2>3
<1>2. /\ UNCHANGED <<listed, sized, missed, interrupted, changedSize, overlay, valid>>
      /\ at'["ui"] = at["ui"]
  BY WalkMoves DEF Animate, Scale, Transform, EndAnimation
<1>3. ScalingEnds'
  BY WalkMoves DEF FollowsInv, ScalingEnds, Animate, Scale, EndAnimation
<1> QED
  BY <1>1, <1>2, <1>3
     DEF FollowsInv, Follows, Requested, GetsDimensions, UnlistedEnds, InUse, Ends

(* Calls that change the list, and so what is in use.                         *)
LEMMA ListFollows ==
  ASSUME TypeOK, FollowsInv, Next, SetupOverlay \/ List \/ Remove \/ Interrupt \/ Clear \/ Unlist
  PROVE  FollowsInv'
<1> USE DEF mapVars, gesture, walkVars, flags, drawVars, Walkers
<1>1. /\ UNCHANGED <<view, matrix, drawVars, sized, executing, pinched, seen, redraw>>
      /\ at'["animator"] = at["animator"] /\ at'["mover"] = at["mover"] /\ at'["ui"] # "scale"
  BY WalkMoves DEF SetupOverlay, List, Remove, Interrupt, Clear, Unlist, Call
<1>2. ScalingEnds'
  BY <1>1 DEF FollowsInv, ScalingEnds
<1>3. CASE SetupOverlay
  <2>1. at'["ui"] = "list" /\ changedSize'
    BY <1>3, WalkMoves DEF SetupOverlay, Call
  <2> QED
    BY <1>2, <2>1 DEF FollowsInv, Follows, Requested, GetsDimensions, UnlistedEnds
<1>4. CASE List
  <2>1. /\ at["ui"] = "list" /\ at'["ui"] = "loop" /\ listed'
        /\ UNCHANGED <<overlay, interrupted, changedSize, missed, refused>>
    BY <1>4, WalkMoves DEF List
  <2>2. (InUse' => InUse) /\ (RequestComes' = RequestComes)
    BY <1>1, <2>1 DEF InUse, Ends, RequestComes
  <2> QED
    BY <1>1, <1>2, <2>1, <2>2
       DEF FollowsInv, Follows, Requested, Aligned, GetsDimensions, UnlistedEnds
<1>5. CASE Remove
  <2>1. at'["ui"] = "interrupt" /\ ~listed'
    BY <1>5, WalkMoves DEF Remove, Call
  <2> QED
    BY <1>2, <2>1 DEF FollowsInv, Follows, GetsDimensions, UnlistedEnds, InUse
<1>6. CASE Interrupt \/ Clear
  <2>1. Ends'
    BY <1>6 DEF Interrupt, Clear, Ends
  <2> QED
    BY <1>2, <2>1 DEF FollowsInv, Follows, GetsDimensions, UnlistedEnds, InUse
<1>7. CASE Unlist
  <2>1. at["ui"] = "clear" /\ at'["ui"] = "loop" /\ ~listed' /\ UNCHANGED <<overlay, interrupted>>
    BY <1>7, WalkMoves DEF Unlist
  <2> QED
    BY <1>2, <2>1 DEF FollowsInv, Follows, GetsDimensions, UnlistedEnds, InUse, Ends
<1> QED
  BY <1>3, <1>4, <1>5, <1>6, <1>7

(* Calls that change the zoom level or the size of the view, and pinches.     *)
LEMMA CallFollows ==
  ASSUME TypeOK, FollowsInv, Next,
         \/ Zoom \/ OnScale \/ ScaleOverlays \/ OnScaleEnd \/ PinchRefused
         \/ StartAnimation \/ RedrawResized \/ SizeChanged
         \/ \E positive \in BOOLEAN : OnSizeChanged(positive)
  PROVE  FollowsInv'
<1> USE DEF mapVars, gesture, walkVars, flags, drawVars, Walkers
<1>1. /\ UNCHANGED <<listed, missed, interrupted, overlay, valid>>
      /\ at'["animator"] = at["animator"] /\ (executing => executing')
      /\ at["ui"] \in {"loop", "scale", "start", "resized", "sizeChanged"}
      /\ at'["ui"] \in {"loop", "scale", "start", "resized", "sizeChanged"}
  <2>1. CASE Zoom \/ OnScaleEnd
    <3>1. UNCHANGED <<listed, missed, interrupted, overlay, valid, executing>>
      BY <2>1 DEF Zoom, OnScaleEnd, ZoomBy
    <3>2. at["ui"] = "loop" /\ at'["ui"] = "start" /\ at'["animator"] = at["animator"]
      BY <2>1, WalkMoves DEF Zoom, OnScaleEnd, Call
    <3> QED
      BY <3>1, <3>2
  <2>2. CASE OnScale \/ ScaleOverlays \/ PinchRefused
    BY <2>2, WalkMoves DEF OnScale, Call, ScaleOverlays, Transform, PinchRefused
  <2>3. CASE \/ StartAnimation \/ RedrawResized \/ SizeChanged
             \/ \E positive \in BOOLEAN : OnSizeChanged(positive)
    BY <2>3, WalkMoves DEF StartAnimation, RedrawResized, SizeChanged, OnSizeChanged, Call
  <2> QED
    BY <2>1, <2>2, <2>3
<1>2. UnlistedEnds' /\ (at'["ui"] # "scale" => ScalingEnds')
  BY <1>1 DEF FollowsInv, ScalingEnds, UnlistedEnds, Ends
<1>3. CASE Zoom \/ OnScaleEnd
  <2>1. at["ui"] = "loop" /\ at'["ui"] = "start" /\ UNCHANGED <<sized, changedSize>>
    BY <1>3, WalkMoves DEF Zoom, OnScaleEnd, ZoomBy, Call
  <2> QED
    BY <1>1, <1>2, <2>1
       DEF FollowsInv, Follows, Requested, RequestComes, GetsDimensions, InUse, Ends
<1>4. CASE StartAnimation
  <2>1. /\ at["ui"] = "start" /\ at'["ui"] = "loop" /\ executing'
        /\ UNCHANGED <<sized, changedSize>>
    BY <1>4, WalkMoves DEF StartAnimation
  <2> QED
    BY <1>1, <1>2, <2>1
       DEF FollowsInv, Follows, Requested, RequestComes, GetsDimensions, InUse, Ends
<1>5. CASE RedrawResized
  <2>1. at'["ui"] = "sizeChanged"
    BY <1>5, WalkMoves DEF RedrawResized
  <2> QED
    BY <1>2, <2>1 DEF FollowsInv, Follows, Requested, RequestComes, GetsDimensions
<1>6. CASE SizeChanged
  <2>1. at'["ui"] = "loop" /\ changedSize' = (changedSize \/ listed)
    BY <1>6, WalkMoves DEF SizeChanged
  <2>2. InUse' => changedSize'
    BY <1>1, <2>1 DEF InUse
  <2> QED
    BY <1>2, <2>1, <2>2 DEF FollowsInv, Follows, Requested, GetsDimensions
<1>7. ASSUME NEW positive \in BOOLEAN, OnSizeChanged(positive) PROVE FollowsInv'
  <2>1. at'["ui"] = (IF positive THEN "resized" ELSE "loop") /\ sized' = positive
    BY <1>7, WalkMoves DEF OnSizeChanged, Call
  <2>2. InUse' => at'["ui"] = "resized"
    BY <2>1 DEF InUse
  <2> QED
    BY <1>2, <2>1, <2>2 DEF FollowsInv, Follows, Requested, RequestComes, GetsDimensions
<1>8. CASE OnScale \/ ScaleOverlays
  <2>1. /\ pinched' # 0 /\ UNCHANGED <<sized, changedSize>>
        /\ at["ui"] \in {"loop", "scale"} /\ at'["ui"] \in {"loop", "scale"}
    BY <1>8, WalkMoves DEF TypeOK, FollowsInv, ScalingEnds, OnScale, Call, ScaleOverlays, Transform
  <2>2. ScalingEnds'
    BY <1>1, <2>1 DEF FollowsInv, ScalingEnds
  <2> QED
    BY <1>1, <1>2, <2>1, <2>2
       DEF FollowsInv, Follows, Requested, RequestComes, GetsDimensions, InUse, Ends
<1>9. CASE PinchRefused
  <2>1. /\ refused' /\ UNCHANGED <<sized, changedSize>>
        /\ at["ui"] = "loop" /\ at'["ui"] = "loop"
    BY <1>9 DEF PinchRefused
  <2> QED
    BY <1>1, <1>2, <2>1 DEF FollowsInv, Follows, GetsDimensions, InUse, Ends
<1> QED
  BY <1>3, <1>4, <1>5, <1>6, <1>7, <1>8, <1>9

LEMMA FollowsStays == TypeOK /\ FollowsInv /\ [Next]_vars => FollowsInv'
<1> SUFFICES ASSUME TypeOK, FollowsInv, [Next]_vars PROVE FollowsInv'
  OBVIOUS
<1>1. CASE UNCHANGED vars \/ OnDraw \/ \E t \in Walkers : WalkFails(t)
  <2>1. UNCHANGED <<mapVars, walkVars, overlay, flags, drawVars, matrix>>
    BY <1>1 DEF vars, OnDraw, WalkFails, Crash
  <2> QED
    BY <2>1 DEF FollowsInv, Follows, Requested, RequestComes, Aligned, GetsDimensions,
       ScalingEnds, UnlistedEnds, InUse, Ends, mapVars, gesture, walkVars, flags, drawVars
<1>2. CASE Next
  <2>1. CASE \E t \in Walkers : Walk(t)
    BY <1>2, <2>1, WalkFollows
  <2>2. CASE OverlayStep
    BY <1>2, <2>2, OverlayFollows
  <2>3. CASE Animate \/ Scale \/ EndAnimation
    BY <1>2, <2>3, AnimationFollows
  <2>4. CASE SetupOverlay \/ List \/ Remove \/ Interrupt \/ Clear \/ Unlist
    BY <1>2, <2>4, ListFollows
  <2>5. CASE \/ Zoom \/ OnScale \/ ScaleOverlays \/ OnScaleEnd \/ PinchRefused
             \/ StartAnimation \/ RedrawResized \/ SizeChanged
             \/ \E positive \in BOOLEAN : OnSizeChanged(positive)
    BY <1>2, <2>5, CallFollows
  <2> QED
    BY <1>1, <1>2, <2>1, <2>2, <2>3, <2>4, <2>5
       DEF Next, MoverStep, AnimatorStep, UiStep, Walk, Walkers
<1> QED
  BY <1>1, <1>2

(* When nothing goes on the overlay is shown where the map is, however many   *)
(* moves, pinches, animations, changes of size and other calls came in between *)
(* since a pinch was refused, if one was.                                     *)
THEOREM OverlayQuietAligned == Spec => []QuietMeansAligned
<1>1. Init => FollowsInv
  BY DEF Init, FollowsInv, Follows, GetsDimensions, ScalingEnds, UnlistedEnds, InUse, Walkers
<1>2. FollowsInv => QuietMeansAligned
  <2> SUFFICES ASSUME FollowsInv, AtRest, listed, sized, ~missed, ~refused PROVE Aligned
    BY DEF QuietMeansAligned
  <2>1. InUse /\ ~Requested
    BY DEF AtRest, InUse, Ends, Requested, RequestComes, Walkers
  <2> QED
    BY <2>1 DEF FollowsInv, Follows, AtRest
<1> QED
  BY <1>1, <1>2, FollowsStays, OverlayTypeCorrect, PTL DEF Spec
=============================================================================
