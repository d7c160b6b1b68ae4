---------------------------- MODULE MCTilePipeline ----------------------------
(* Three tiles in a row, of which the screen shows two neighbours.            *)
EXTENDS TilePipeline, TLC

CONSTANTS t1, t2, t3

Tiles == {t1, t2, t3}
TwoViews == {{t1, t2}, {t2, t3}}

(* Either the user travels, on a storage that loses files, or stays at one    *)
(* zoom level while whatever can fail does.                                   *)
AllPlans == {{"move", "zoom", "change", "damage"},
             {"redraw", "move", "change", "resize", "fail", "damage"}}
OneChange == {{"change"}}

(* Parameters are alike, and so are the two ends of the row.                  *)
Mirrored == (t1 :> t3) @@ (t3 :> t1)
Symmetry == Permutations(Param) \cup {Mirrored}

(* What the threads have to do before they rest.  A redraw that takes a tile  *)
(* leaves at most one job to the worker, which eight steps complete.          *)
WholeRedraw == 20 * Cardinality(Tile) + 2

RedrawSteps ==
  [idle |-> 0, next |-> 1, draw |-> 2, missing |-> 10, store |-> 11]
  @@ ("in memory" :> 3) @@ ("draw file" :> 12) @@ ("in file" :> 13) @@ ("not in memory" :> 14)
  @@ [s \in {"resize", "clear frame"} |-> WholeRedraw]
  @@ [s \in {"clear queue", "animate"} |-> WholeRedraw + 1]

WorkerSteps ==
  [poll |-> 0, idle |-> 1, save |-> 2, store |-> 3, draw |-> 4, execute |-> 5, polled |-> 7]
  @@ ("not in memory" :> 6)

Distance(r) == 20 * Cardinality(redraw[r].todo) + RedrawSteps[redraw[r].at]

Work == WorkerSteps[worker.at] + 8 * Cardinality(queue)
        + Distance(Ui) + Distance(Animator) + (IF animating THEN WholeRedraw ELSE 0)

(* No retry, no job put back, no redraw that starts another one keeps the     *)
(* threads busy: while the user leaves the map alone, every one of their      *)
(* steps brings them nearer to rest.                                          *)
WorkShrinks == [][ops' = ops /\ crashed' = "no" => Work' < Work]_vars
=============================================================================
