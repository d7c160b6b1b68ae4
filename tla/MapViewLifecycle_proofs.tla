----------------------- MODULE MapViewLifecycle_proofs -----------------------
(***************************************************************************)
(* A switch of map files goes unnoticed by the worker.  The invariant says *)
(* which file the fields of MapDatabase stand for at each step of          *)
(* setMapFile, and that from awaitPausing until the file is open nobody    *)
(* makes a job: the threads are at rest, and there is nothing they would   *)
(* do.  When destroy closes the file the worker has ended, unless destroy  *)
(* was interrupted.                                                        *)
(***************************************************************************)
EXTENDS MapViewLifecycle, TLAPS

Paths == Files \union {Nothing}

Calls == {"idle", "await", "proceed", "close", "closing", "open", "opening", "reading",
          "failing", "clear", "redraw", "resize", "generator", "join", "free"}

Types ==
  /\ ui \in Calls
  /\ target \in Paths /\ mapFile \in Paths /\ header \in Paths \union {Unread} /\ input \in Paths
  /\ activity \in {"resumed", "paused", "destroyed"}
  /\ generator \in Generators /\ with \in Generators
  /\ queue \subseteq Generators
  /\ cached \in [Generators -> Images \union {Nothing}]
  /\ at \in [Threads -> {"loop", "header", "blocks", "test", "draw", "store", "redraw", "show", "ended"}]
  /\ at["worker"] \notin {"redraw", "show"}
  /\ \A t \in Redrawers : at[t] \notin {"header", "blocks", "test", "draw", "store"}
  /\ shouldPause \in [Threads -> BOOLEAN] /\ interrupted \in [Threads -> BOOLEAN]
  /\ busy \in [Redrawers -> BOOLEAN]
  /\ inFlight \in BOOLEAN /\ hasty \in BOOLEAN
  /\ at["worker"] \in {"header", "blocks", "test", "draw", "store"} => job \in Generators
  /\ at["worker"] \in {"blocks", "test", "draw", "store"} => image \in Images

(* What destroy does comes after all other calls. *)
Ending ==
  /\ activity # "destroyed" =>
       /\ ui \notin {"join", "free"} /\ ~hasty
       /\ \A t \in Threads : ~interrupted[t] /\ at[t] # "ended"
  /\ activity = "destroyed" => ui \in {"join", "free", "idle"}
  /\ activity = "destroyed" /\ ui # "join" /\ ~hasty => at["worker"] = "ended"

(* MapDatabase has the file of the view, but while setMapFile changes both. *)
Database ==
  /\ ui = "closing" => header = Nothing /\ input = mapFile
  /\ ui = "open" => header = Nothing /\ input = Nothing
  /\ ui = "opening" => header = Nothing /\ input = target
  /\ ui = "reading" => header = Unread /\ input = target
  /\ ui = "failing" => header = Nothing /\ input = target
  /\ ui \notin {"closing", "open", "opening", "reading", "failing"} /\ at["worker"] # "ended" /\ ~hasty =>
       header = mapFile /\ input = mapFile

Switching == ui \in {"proceed", "close", "closing", "open", "opening", "reading", "failing"}

AtRest == /\ queue = {}
          /\ \A t \in Threads : at[t] = "loop"
          /\ \A t \in Redrawers : ~busy[t]

Reads ==
  ~inFlight /\ ~hasty =>
    /\ Switching => AtRest
    /\ crashed = "no file" => mapFile = Nothing
    /\ at["worker"] = "blocks" => image.header = mapFile
    /\ at["worker"] \in {"test", "draw", "store"} => image.header = mapFile /\ image.input = mapFile

IInv == Types /\ Ending /\ Database /\ Reads

----------------------------------------------------------------------------

(* Each part of the invariant is kept by every action. *)

LEMMA NothingChanges ==
  /\ Types
  /\ UNCHANGED <<ui, target, userVars, mapFile, generator, dbVars, queue, cached, threadVars, with,
                 inFlight, hasty>>
  => Types'
BY DEF Types, userVars, dbVars, threadVars

LEMMA KeepsTypes == IInv /\ [Next]_vars => Types'
<1> SUFFICES ASSUME IInv, [Next]_vars PROVE Types'
  OBVIOUS
<1> USE LifecycleAssumption DEF IInv, Types, Calls, Paths, Threads, Redrawers, Images
<1>1. ASSUME NEW t \in Threads, Exit(t) PROVE Types'
  BY <1>1 DEF Exit, IsAt, Goes, userVars, dbVars, threadVars
<1>2. CASE Poll
  BY <1>2 DEF Poll, MayWork, IsAt, Goes, userVars, dbVars, threadVars
<1>3. CASE ReadHeader
  <2>1. CASE header \in {Nothing, Unread}
    <3>1. UNCHANGED <<ui, target, userVars, mapFile, generator, dbVars, queue, cached, threadVars,
                      with, inFlight, hasty>>
      BY <1>3, <2>1 DEF ReadHeader, Crash
    <3> QED
      BY <3>1, NothingChanges
  <2>2. CASE header \notin {Nothing, Unread}
    <3>1. header \in Files /\ with \in Generators
      BY <2>2
    <3>2. image' = [header |-> header, input |-> Nothing, by |-> with]
      BY <1>3, <2>2 DEF ReadHeader
    <3>3. image' \in Images
      BY <3>1, <3>2
    <3>4. at' = [at EXCEPT !["worker"] = "blocks"] /\ at["worker"] = "header" /\ job' = job
      BY <1>3, <2>2 DEF ReadHeader, IsAt, Goes
    <3> QED
      BY <1>3, <2>2, <3>3, <3>4 DEF ReadHeader, userVars, dbVars, threadVars
  <2> QED
    BY <2>1, <2>2
<1>4. CASE ReadBlocks
  <2>1. CASE input = Nothing
    <3>1. UNCHANGED <<ui, target, userVars, mapFile, generator, dbVars, queue, cached, threadVars,
                      with, inFlight, hasty>>
      BY <1>4, <2>1 DEF ReadBlocks, Crash
    <3> QED
      BY <3>1, NothingChanges
  <2>2. CASE input # Nothing
    <3>1. at' = [at EXCEPT !["worker"] = "test"] /\ at["worker"] = "blocks" /\ job' = job
      BY <1>4, <2>2 DEF ReadBlocks, IsAt, Goes
    <3>2. image \in Images /\ image' = [image EXCEPT !.input = input]
      BY <1>4, <2>2, <3>1 DEF ReadBlocks
    <3>3. image' \in Images
      BY <3>2
    <3> QED
      BY <1>4, <2>2, <3>1, <3>3 DEF ReadBlocks, userVars, dbVars, threadVars
  <2> QED
    BY <2>1, <2>2
<1>5. CASE WorkerDraws
  BY <1>5 DEF WorkerDraws, DrawBitmap, IsAt, Goes, userVars, dbVars, threadVars
<1>6. CASE WorkerStores
  BY <1>6 DEF WorkerStores, IsAt, WorkerRests, userVars, dbVars, threadVars
<1>7. ASSUME NEW t \in Redrawers, Moves(t) PROVE Types'
  <2>1. at[t] = "loop" /\ t # "worker"
    BY <1>7 DEF Moves, MayWork, IsAt
  <2>2. at' = at \/ at' = [at EXCEPT ![t] = "redraw"]
    BY <1>7 DEF Moves, Goes
  <2>3. busy' = busy \/ busy' = [busy EXCEPT ![t] = FALSE]
    BY <1>7 DEF Moves
  <2>4. busy' \in [Redrawers -> BOOLEAN]
    BY <2>3
  <2> QED
    BY <1>7, <2>1, <2>2, <2>4 DEF Moves, userVars, dbVars, threadVars
<1>8. ASSUME NEW t \in Redrawers, Looks(t) PROVE Types'
  <2>1. at[t] = "redraw" /\ t # "worker"
    BY <1>8 DEF Looks, IsAt
  <2>2. at' = at \/ at' = [at EXCEPT ![t] = "loop"] \/ at' = [at EXCEPT ![t] = "show"]
    BY <1>8 DEF Looks, Goes
  <2>3. queue' = queue \/ queue' = queue \union {generator}
    BY <1>8 DEF Looks
  <2>4. queue' \subseteq Generators
    BY <2>3
  <2>5. /\ UNCHANGED <<ui, target, activity, mapFile, generator, header, input, cached>>
        /\ UNCHANGED <<shouldPause, interrupted, busy, job, with, image, inFlight, hasty>>
    BY <1>8 DEF Looks, userVars, dbVars
  <2>6. /\ at' \in [Threads -> {"loop", "header", "blocks", "test", "draw", "store",
                                "redraw", "show", "ended"}]
        /\ at'["worker"] = at["worker"]
        /\ \A r \in Redrawers : at'[r] \notin {"header", "blocks", "test", "draw", "store"}
    BY <2>1, <2>2
  <2> QED
    BY <2>4, <2>5, <2>6
<1>9. ASSUME NEW t \in Redrawers, Shows(t) PROVE Types'
  BY <1>9 DEF Shows, DrawBitmap, IsAt, Goes, userVars, dbVars, threadVars
<1>10. ASSUME NEW t \in Redrawers, Navigate(t) PROVE Types'
  BY <1>10 DEF Navigate, Begins, UiAt, userVars, dbVars, threadVars
<1>11. CASE AwaitPausing
  BY <1>11 DEF AwaitPausing, UiAt, Awaited, userVars, dbVars, threadVars
<1>12. CASE Proceed
  BY <1>12 DEF Proceed, UiAt, userVars, dbVars, threadVars
<1>13. CASE CloseFile
  <2>1. UNCHANGED <<target, activity, mapFile, generator, queue, cached, at, shouldPause, interrupted,
                    busy, job, image, with, inFlight, hasty>>
    BY <1>13 DEF CloseFile, userVars, threadVars
  <2>2. ui' \in {"closing", "open"} /\ header' \in {header, Nothing} /\ input' \in {input, Nothing}
    BY <1>13 DEF CloseFile, UiAt
  <2> QED
    BY <2>1, <2>2
<1>14. CASE OpenFile
  BY <1>14 DEF OpenFile, UiAt, userVars, dbVars, threadVars
<1>15. CASE OpenedFile
  BY <1>15 DEF OpenedFile, UiAt, userVars, dbVars, threadVars
<1>16. CASE Clear
  BY <1>16 DEF Clear, UiAt, userVars, dbVars, threadVars
<1>17. CASE UiRedraws
  <2>1. queue' = queue \/ queue' = queue \union {generator}
    BY <1>17 DEF UiRedraws
  <2>2. queue' \subseteq Generators
    BY <2>1
  <2>3. ui' = "idle" /\ target' = Nothing
    BY <1>17 DEF UiRedraws
  <2> QED
    BY <1>17, <2>2, <2>3 DEF UiRedraws, userVars, dbVars, threadVars
<1>18. CASE GiveWorker
  BY <1>18 DEF GiveWorker, UiAt, userVars, dbVars, threadVars
<1>19. CASE Join
  BY <1>19 DEF Join, UiAt, IsAt, userVars, dbVars, threadVars
<1>20. CASE Free
  BY <1>20 DEF Free, UiAt, userVars, dbVars, threadVars
<1>21. ASSUME NEW f \in Files, SetMapFile(f) PROVE Types'
  BY <1>21 DEF SetMapFile, Begins, UiAt, userVars, dbVars, threadVars
<1>22. ASSUME NEW g \in Generators, SetMapGenerator(g) PROVE Types'
  BY <1>22 DEF SetMapGenerator, Begins, UiAt, userVars, dbVars, threadVars
<1>23. CASE OnSizeChanged
  BY <1>23 DEF OnSizeChanged, Begins, UiAt, userVars, dbVars, threadVars
<1>24. CASE SetCenter
  BY <1>24 DEF SetCenter, Begins, UiAt, userVars, dbVars, threadVars
<1>25. CASE OnPause
  BY <1>25 DEF OnPause, Begins, UiAt, userVars, dbVars, threadVars
<1>26. CASE OnResume
  BY <1>26 DEF OnResume, Begins, UiAt, userVars, dbVars, threadVars
<1>27. CASE Destroy
  BY <1>27 DEF Destroy, Begins, UiAt, userVars, dbVars, threadVars
<1>28. CASE WorkerTests
  BY <1>28 DEF WorkerTests, IsAt, Goes, WorkerRests, userVars, dbVars, threadVars
<1>29. CASE NewHeader
  BY <1>29 DEF NewHeader, UiAt, userVars, dbVars, threadVars
<1>30. CASE FailedFile
  BY <1>30 DEF FailedFile, UiAt, userVars, dbVars, threadVars
<1>31. CASE NewFrame
  BY <1>31 DEF NewFrame, UiAt, userVars, dbVars, threadVars
<1>32. CASE JoinInterrupted
  BY <1>32 DEF JoinInterrupted, UiAt, userVars, dbVars, threadVars
<1>33. CASE UNCHANGED vars
  BY <1>33 DEF vars, userVars, dbVars, threadVars
<1> QED
  BY <1>1, <1>2, <1>3, <1>4, <1>5, <1>6, <1>7, <1>8, <1>9, <1>10, <1>11, <1>12, <1>13, <1>14,
     <1>15, <1>16, <1>17, <1>18, <1>19, <1>20, <1>21, <1>22, <1>23, <1>24, <1>25, <1>26, <1>27, <1>28,
     <1>29, <1>30, <1>31, <1>32, <1>33
  DEF Next, UiStep, WorkerStep, RedrawerStep, Redrawers, Threads

LEMMA KeepsEnding == IInv /\ [Next]_vars => Ending'
<1> SUFFICES ASSUME IInv, [Next]_vars PROVE Ending'
  OBVIOUS
<1> USE LifecycleAssumption DEF IInv, Types, Ending, Calls, Threads, Redrawers
<1>1. ASSUME NEW t \in Threads, Exit(t) PROVE Ending'
  BY <1>1 DEF Exit, IsAt, Goes, userVars, dbVars, threadVars
<1>2. CASE Poll
  BY <1>2 DEF Poll, MayWork, IsAt, Goes, userVars, dbVars, threadVars
<1>3. CASE ReadHeader
  BY <1>3 DEF ReadHeader, IsAt, Goes, Crash, userVars, dbVars, threadVars
<1>4. CASE ReadBlocks
  BY <1>4 DEF ReadBlocks, IsAt, Goes, Crash, Images, userVars, dbVars, threadVars
<1>5. CASE WorkerDraws
  BY <1>5 DEF WorkerDraws, DrawBitmap, IsAt, Goes, userVars, dbVars, threadVars
<1>6. CASE WorkerStores
  BY <1>6 DEF WorkerStores, IsAt, WorkerRests, userVars, dbVars, threadVars
<1>7. ASSUME NEW t \in Redrawers, Moves(t) PROVE Ending'
  BY <1>7 DEF Moves, MayWork, IsAt, Goes, userVars, dbVars, threadVars
<1>8. ASSUME NEW t \in Redrawers, Looks(t) PROVE Ending'
  BY <1>8 DEF Looks, IsAt, Goes, userVars, dbVars, threadVars
<1>9. ASSUME NEW t \in Redrawers, Shows(t) PROVE Ending'
  BY <1>9 DEF Shows, DrawBitmap, IsAt, Goes, userVars, dbVars, threadVars
<1>10. ASSUME NEW t \in Redrawers, Navigate(t) PROVE Ending'
  BY <1>10 DEF Navigate, Begins, UiAt, userVars, dbVars, threadVars
<1>11. CASE AwaitPausing
  BY <1>11 DEF AwaitPausing, UiAt, Awaited, userVars, dbVars, threadVars
<1>12. CASE Proceed
  BY <1>12 DEF Proceed, UiAt, userVars, dbVars, threadVars
<1>13. CASE CloseFile
  BY <1>13 DEF CloseFile, UiAt, userVars, dbVars, threadVars
<1>14. CASE OpenFile
  BY <1>14 DEF OpenFile, UiAt, userVars, dbVars, threadVars
<1>15. CASE OpenedFile
  BY <1>15 DEF OpenedFile, UiAt, userVars, dbVars, threadVars
<1>16. CASE Clear
  BY <1>16 DEF Clear, UiAt, userVars, dbVars, threadVars
<1>17. CASE UiRedraws
  BY <1>17 DEF UiRedraws, UiAt, userVars, dbVars, threadVars
<1>18. CASE GiveWorker
  BY <1>18 DEF GiveWorker, UiAt, userVars, dbVars, threadVars
<1>19. CASE Join
  BY <1>19 DEF Join, UiAt, IsAt, userVars, dbVars, threadVars
<1>20. CASE Free
  BY <1>20 DEF Free, UiAt, userVars, dbVars, threadVars
<1>21. ASSUME NEW f \in Files, SetMapFile(f) PROVE Ending'
  BY <1>21 DEF SetMapFile, Begins, UiAt, userVars, dbVars, threadVars
<1>22. ASSUME NEW g \in Generators, SetMapGenerator(g) PROVE Ending'
  BY <1>22 DEF SetMapGenerator, Begins, UiAt, userVars, dbVars, threadVars
<1>23. CASE OnSizeChanged
  BY <1>23 DEF OnSizeChanged, Begins, UiAt, userVars, dbVars, threadVars
<1>24. CASE SetCenter
  BY <1>24 DEF SetCenter, Begins, UiAt, userVars, dbVars, threadVars
<1>25. CASE OnPause
  BY <1>25 DEF OnPause, Begins, UiAt, userVars, dbVars, threadVars
<1>26. CASE OnResume
  BY <1>26 DEF OnResume, Begins, UiAt, userVars, dbVars, threadVars
<1>27. CASE Destroy
  BY <1>27 DEF Destroy, Begins, UiAt, userVars, dbVars, threadVars
<1>28. CASE WorkerTests
  BY <1>28 DEF WorkerTests, IsAt, Goes, WorkerRests, userVars, dbVars, threadVars
<1>29. CASE NewHeader
  BY <1>29 DEF NewHeader, UiAt, userVars, dbVars, threadVars
<1>30. CASE FailedFile
  BY <1>30 DEF FailedFile, UiAt, userVars, dbVars, threadVars
<1>31. CASE NewFrame
  BY <1>31 DEF NewFrame, UiAt, userVars, dbVars, threadVars
<1>32. CASE JoinInterrupted
  BY <1>32 DEF JoinInterrupted, UiAt, userVars, dbVars, threadVars
<1>33. CASE UNCHANGED vars
  BY <1>33 DEF vars, userVars, dbVars, threadVars
<1> QED
  BY <1>1, <1>2, <1>3, <1>4, <1>5, <1>6, <1>7, <1>8, <1>9, <1>10, <1>11, <1>12, <1>13, <1>14,
     <1>15, <1>16, <1>17, <1>18, <1>19, <1>20, <1>21, <1>22, <1>23, <1>24, <1>25, <1>26, <1>27, <1>28,
     <1>29, <1>30, <1>31, <1>32, <1>33
  DEF Next, UiStep, WorkerStep, RedrawerStep, Redrawers, Threads

LEMMA KeepsDatabase == IInv /\ [Next]_vars => Database'
<1> SUFFICES ASSUME IInv, [Next]_vars PROVE Database'
  OBVIOUS
<1> USE LifecycleAssumption DEF IInv, Types, Ending, Database, Calls, Threads, Redrawers
<1>1. ASSUME NEW t \in Threads, Exit(t) PROVE Database'
  BY <1>1 DEF Exit, IsAt, Goes, userVars, dbVars, threadVars
<1>2. CASE Poll
  BY <1>2 DEF Poll, MayWork, IsAt, Goes, userVars, dbVars, threadVars
<1>3. CASE ReadHeader
  BY <1>3 DEF ReadHeader, IsAt, Goes, Crash, userVars, dbVars, threadVars
<1>4. CASE ReadBlocks
  BY <1>4 DEF ReadBlocks, IsAt, Goes, Crash, Images, userVars, dbVars, threadVars
<1>5. CASE WorkerDraws
  BY <1>5 DEF WorkerDraws, DrawBitmap, IsAt, Goes, userVars, dbVars, threadVars
<1>6. CASE WorkerStores
  BY <1>6 DEF WorkerStores, IsAt, WorkerRests, userVars, dbVars, threadVars
<1>7. ASSUME NEW t \in Redrawers, Moves(t) PROVE Database'
  BY <1>7 DEF Moves, MayWork, IsAt, Goes, userVars, dbVars, threadVars
<1>8. ASSUME NEW t \in Redrawers, Looks(t) PROVE Database'
  BY <1>8 DEF Looks, IsAt, Goes, userVars, dbVars, threadVars
<1>9. ASSUME NEW t \in Redrawers, Shows(t) PROVE Database'
  BY <1>9 DEF Shows, DrawBitmap, IsAt, Goes, userVars, dbVars, threadVars
<1>10. ASSUME NEW t \in Redrawers, Navigate(t) PROVE Database'
  BY <1>10 DEF Navigate, Begins, UiAt, userVars, dbVars, threadVars
<1>11. CASE AwaitPausing
  BY <1>11 DEF AwaitPausing, UiAt, Awaited, userVars, dbVars, threadVars
<1>12. CASE Proceed
  BY <1>12 DEF Proceed, UiAt, userVars, dbVars, threadVars
<1>13. CASE CloseFile
  BY <1>13 DEF CloseFile, UiAt, userVars, dbVars, threadVars
<1>14. CASE OpenFile
  BY <1>14 DEF OpenFile, UiAt, userVars, dbVars, threadVars
<1>15. CASE OpenedFile
  BY <1>15 DEF OpenedFile, UiAt, userVars, dbVars, threadVars
<1>16. CASE Clear
  BY <1>16 DEF Clear, UiAt, userVars, dbVars, threadVars
<1>17. CASE UiRedraws
  BY <1>17 DEF UiRedraws, UiAt, userVars, dbVars, threadVars
<1>18. CASE GiveWorker
  BY <1>18 DEF GiveWorker, UiAt, userVars, dbVars, threadVars
<1>19. CASE Join
  BY <1>19 DEF Join, UiAt, IsAt, userVars, dbVars, threadVars
<1>20. CASE Free
  BY <1>20 DEF Free, UiAt, userVars, dbVars, threadVars
<1>21. ASSUME NEW f \in Files, SetMapFile(f) PROVE Database'
  BY <1>21 DEF SetMapFile, Begins, UiAt, userVars, dbVars, threadVars
<1>22. ASSUME NEW g \in Generators, SetMapGenerator(g) PROVE Database'
  BY <1>22 DEF SetMapGenerator, Begins, UiAt, userVars, dbVars, threadVars
<1>23. CASE OnSizeChanged
  BY <1>23 DEF OnSizeChanged, Begins, UiAt, userVars, dbVars, threadVars
<1>24. CASE SetCenter
  BY <1>24 DEF SetCenter, Begins, UiAt, userVars, dbVars, threadVars
<1>25. CASE OnPause
  BY <1>25 DEF OnPause, Begins, UiAt, userVars, dbVars, threadVars
<1>26. CASE OnResume
  BY <1>26 DEF OnResume, Begins, UiAt, userVars, dbVars, threadVars
<1>27. CASE Destroy
  BY <1>27 DEF Destroy, Begins, UiAt, userVars, dbVars, threadVars
<1>28. CASE WorkerTests
  BY <1>28 DEF WorkerTests, IsAt, Goes, WorkerRests, userVars, dbVars, threadVars
<1>29. CASE NewHeader
  BY <1>29 DEF NewHeader, UiAt, userVars, dbVars, threadVars
<1>30. CASE FailedFile
  BY <1>30 DEF FailedFile, UiAt, userVars, dbVars, threadVars
<1>31. CASE NewFrame
  BY <1>31 DEF NewFrame, UiAt, userVars, dbVars, threadVars
<1>32. CASE JoinInterrupted
  BY <1>32 DEF JoinInterrupted, UiAt, userVars, dbVars, threadVars
<1>33. CASE UNCHANGED vars
  BY <1>33 DEF vars, userVars, dbVars, threadVars
<1> QED
  BY <1>1, <1>2, <1>3, <1>4, <1>5, <1>6, <1>7, <1>8, <1>9, <1>10, <1>11, <1>12, <1>13, <1>14,
     <1>15, <1>16, <1>17, <1>18, <1>19, <1>20, <1>21, <1>22, <1>23, <1>24, <1>25, <1>26, <1>27, <1>28,
     <1>29, <1>30, <1>31, <1>32, <1>33
  DEF Next, UiStep, WorkerStep, RedrawerStep, Redrawers, Threads

LEMMA KeepsReads == IInv /\ [Next]_vars => Reads'
<1> SUFFICES ASSUME IInv, [Next]_vars PROVE Reads'
  OBVIOUS
<1> USE LifecycleAssumption
    DEF IInv, Types, Ending, Database, Reads, AtRest, Switching, Calls, Paths, Threads, Redrawers
<1>1. ASSUME NEW t \in Threads, Exit(t) PROVE Reads'
  BY <1>1 DEF Exit, IsAt, Goes, userVars, dbVars, threadVars
<1>2. CASE Poll
  BY <1>2 DEF Poll, MayWork, IsAt, Goes, userVars, dbVars, threadVars
<1>3. CASE ReadHeader
  <2>1. at["worker"] = "header"
    BY <1>3 DEF ReadHeader, IsAt
  <2> at["worker"] # "loop" /\ (~inFlight /\ ~hasty => header = mapFile)
    BY <2>1
  <2>2. CASE header \in {Nothing, Unread}
    BY <1>3, <2>1, <2>2 DEF ReadHeader, Crash, userVars, dbVars, threadVars
  <2>3. CASE header \notin {Nothing, Unread}
    <3>1. image' = [header |-> header, input |-> Nothing, by |-> with]
      BY <1>3, <2>3 DEF ReadHeader
    <3> image'.header = header
      BY <3>1
    <3>2. at' = [at EXCEPT !["worker"] = "blocks"]
      BY <1>3, <2>3 DEF ReadHeader, Goes
    <3>3. /\ UNCHANGED <<ui, mapFile, queue, busy, inFlight, hasty, crashed>>
          /\ at'["worker"] = "blocks"
      BY <1>3, <2>3, <3>2 DEF ReadHeader, threadVars
    <3>4. ~inFlight /\ ~hasty => ~Switching
      BY <2>1
    <3> QED
      BY <2>1, <3>1, <3>3, <3>4
  <2> QED
    BY <2>2, <2>3
<1>4. CASE ReadBlocks
  BY <1>4 DEF ReadBlocks, IsAt, Goes, Crash, Images, userVars, dbVars, threadVars
<1>5. CASE WorkerDraws
  BY <1>5 DEF WorkerDraws, DrawBitmap, IsAt, Goes, userVars, dbVars, threadVars
<1>6. CASE WorkerStores
  BY <1>6 DEF WorkerStores, IsAt, WorkerRests, userVars, dbVars, threadVars
<1>7. ASSUME NEW t \in Redrawers, Moves(t) PROVE Reads'
  BY <1>7 DEF Moves, MayWork, IsAt, Goes, userVars, dbVars, threadVars
<1>8. ASSUME NEW t \in Redrawers, Looks(t) PROVE Reads'
  BY <1>8 DEF Looks, IsAt, Goes, userVars, dbVars, threadVars
<1>9. ASSUME NEW t \in Redrawers, Shows(t) PROVE Reads'
  BY <1>9 DEF Shows, DrawBitmap, IsAt, Goes, userVars, dbVars, threadVars
<1>10. ASSUME NEW t \in Redrawers, Navigate(t) PROVE Reads'
  BY <1>10 DEF Navigate, Begins, UiAt, userVars, dbVars, threadVars
<1>11. CASE AwaitPausing
  BY <1>11 DEF AwaitPausing, UiAt, Awaited, userVars, dbVars, threadVars
<1>12. CASE Proceed
  BY <1>12 DEF Proceed, UiAt, userVars, dbVars, threadVars
<1>13. CASE CloseFile
  BY <1>13 DEF CloseFile, UiAt, userVars, dbVars, threadVars
<1>14. CASE OpenFile
  BY <1>14 DEF OpenFile, UiAt, userVars, dbVars, threadVars
<1>15. CASE OpenedFile
  BY <1>15 DEF OpenedFile, UiAt, userVars, dbVars, threadVars
<1>16. CASE Clear
  BY <1>16 DEF Clear, UiAt, userVars, dbVars, threadVars
<1>17. CASE UiRedraws
  BY <1>17 DEF UiRedraws, UiAt, userVars, dbVars, threadVars
<1>18. CASE GiveWorker
  BY <1>18 DEF GiveWorker, UiAt, userVars, dbVars, threadVars
<1>19. CASE Join
  BY <1>19 DEF Join, UiAt, IsAt, userVars, dbVars, threadVars
<1>20. CASE Free
  BY <1>20 DEF Free, UiAt, userVars, dbVars, threadVars
<1>21. ASSUME NEW f \in Files, SetMapFile(f) PROVE Reads'
  BY <1>21 DEF SetMapFile, Begins, UiAt, userVars, dbVars, threadVars
<1>22. ASSUME NEW g \in Generators, SetMapGenerator(g) PROVE Reads'
  BY <1>22 DEF SetMapGenerator, Begins, UiAt, userVars, dbVars, threadVars
<1>23. CASE OnSizeChanged
  BY <1>23 DEF OnSizeChanged, Begins, UiAt, userVars, dbVars, threadVars
<1>24. CASE SetCenter
  BY <1>24 DEF SetCenter, Begins, UiAt, userVars, dbVars, threadVars
<1>25. CASE OnPause
  BY <1>25 DEF OnPause, Begins, UiAt, userVars, dbVars, threadVars
<1>26. CASE OnResume
  BY <1>26 DEF OnResume, Begins, UiAt, userVars, dbVars, threadVars
<1>27. CASE Destroy
  BY <1>27 DEF Destroy, Begins, UiAt, userVars, dbVars, threadVars
<1>28. CASE WorkerTests
  BY <1>28 DEF WorkerTests, IsAt, Goes, WorkerRests, userVars, dbVars, threadVars
<1>29. CASE NewHeader
  BY <1>29 DEF NewHeader, UiAt, userVars, dbVars, threadVars
<1>30. CASE FailedFile
  BY <1>30 DEF FailedFile, UiAt, userVars, dbVars, threadVars
<1>31. CASE NewFrame
  BY <1>31 DEF NewFrame, UiAt, userVars, dbVars, threadVars
<1>32. CASE JoinInterrupted
  BY <1>32 DEF JoinInterrupted, UiAt, userVars, dbVars, threadVars
<1>33. CASE UNCHANGED vars
  BY <1>33 DEF vars, userVars, dbVars, threadVars
<1> QED
  BY <1>1, <1>2, <1>3, <1>4, <1>5, <1>6, <1>7, <1>8, <1>9, <1>10, <1>11, <1>12, <1>13, <1>14,
     <1>15, <1>16, <1>17, <1>18, <1>19, <1>20, <1>21, <1>22, <1>23, <1>24, <1>25, <1>26, <1>27, <1>28,
     <1>29, <1>30, <1>31, <1>32, <1>33
  DEF Next, UiStep, WorkerStep, RedrawerStep, Redrawers, Threads

LEMMA Starts == Init => IInv
BY LifecycleAssumption
DEF Init, IInv, Types, Ending, Database, Reads, Switching, Calls, Paths, Threads, Redrawers, Images

LEMMA IsInductive == Spec => []IInv
<1>1. IInv /\ [Next]_vars => IInv'
  BY KeepsTypes, KeepsEnding, KeepsDatabase, KeepsReads DEF IInv
<1> QED
  BY Starts, <1>1, PTL DEF Spec

(* setMapFile keeps the MapWorker from reading while the file is switched, but
   for an animation that it paused; and destroy closes the file only when the
   MapWorker does not read it, unless it was interrupted.                    *)
THEOREM LifecycleSwitchIsSafe == Spec => []SwitchIsSafe
<1>1. IInv => SwitchIsSafe
  BY DEF IInv, Reads, SwitchIsSafe
<1> QED
  BY IsInductive, <1>1, PTL
=============================================================================
