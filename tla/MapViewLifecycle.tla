--------------------------- MODULE MapViewLifecycle ---------------------------
(***************************************************************************)
(* MapView from its construction to destroy: the UI thread switches map    *)
(* files and generators, pauses, resumes and destroys, while the three     *)
(* threads of the view work.                                               *)
(*                                                                         *)
(* A thread begins its work when it has some and is neither paused nor     *)
(* interrupted, and awaitPausing returns once a paused thread is in its    *)
(* loop: that is what PausableThread promises.  Of the map one tile is     *)
(* visible, and a redraw of it by the UI thread is a step; both caches are *)
(* one.  A map file is read in two steps, as they are opened and closed in *)
(* several: the two threads share MapDatabase without a lock.              *)
(***************************************************************************)
EXTENDS Naturals

CONSTANTS
  Files,       \* the paths that setMapFile is given
  Generators,  \* MapGenerators that read the map file
  Nothing,     \* null, a blank frame, a tile that is not cached
  Unread,      \* a MapFileHeader before readHeader has filled it
  Recycled,    \* a frame buffer that was destroyed
  MaxOps       \* bound: what users, the application and Android do

(* What was read for a job, of a map file and by a generator. *)
Images == [header : Files, input : Files \union {Nothing}, by : Generators]

ASSUME LifecycleAssumption ==
  /\ MaxOps \in Nat
  /\ Nothing # Recycled /\ Nothing # Unread /\ Recycled # Unread
  /\ {Nothing, Unread, Recycled} \intersect (Files \union Generators \union Images) = {}

Threads == {"worker", "mover", "animator"}
Redrawers == {"mover", "animator"}

VARIABLES
  ui,         \* where the UI thread is
  target,     \* the argument of its setMapFile
  activity,   \* "resumed", "paused" or "destroyed"
  laidOut,    \* the view has a size that is not zero
  centered,   \* its position is valid
  mapFile, generator,    \* fields of MapView
  header, input,         \* mapFileHeader and inputFile of MapDatabase
  queue,      \* the generators of the queued jobs: all else about them is equal
  cached,     \* of each job, which file's image the caches have
  frame,      \* which file's image is shown; or the frame buffer is recycled
  at,         \* where each thread is in its work
  shouldPause, interrupted,  \* of each thread
  busy,       \* whether a redrawer has work: moveX and moveY, executeAnimation
  job, with, image,  \* of the worker: its job, its generator, what was read
  ops,
  crashed,    \* the uncaught exception that ended the process
  inFlight,   \* auxiliary: an animation was executing when the last setMapFile
              \* had paused the threads
  hasty       \* auxiliary: destroy was interrupted while it waited for the worker

userVars == <<activity, laidOut, centered>>
dbVars == <<header, input>>
threadVars == <<at, shouldPause, interrupted, busy, job, image>>
vars == <<ui, target, userVars, mapFile, generator, dbVars, queue, cached, frame, threadVars,
          with, ops, crashed, inFlight, hasty>>

Init ==
  /\ ui = "idle" /\ target = Nothing
  /\ activity = "resumed" /\ laidOut = FALSE /\ centered = FALSE
  /\ mapFile = Nothing /\ header = Nothing /\ input = Nothing
  /\ generator \in Generators /\ with = generator
  /\ queue = {} /\ cached = [g \in Generators |-> Nothing] /\ frame = Nothing
  /\ at = [t \in Threads |-> "loop"]
  /\ shouldPause = [t \in Threads |-> FALSE] /\ interrupted = [t \in Threads |-> FALSE]
  /\ busy = [t \in Redrawers |-> FALSE]
  /\ job = Nothing /\ image = Nothing
  /\ ops = 0 /\ crashed = "no" /\ inFlight = FALSE /\ hasty = FALSE

Crash(exception) ==
  /\ crashed' = exception
  /\ UNCHANGED <<ui, target, userVars, mapFile, generator, dbVars, queue, cached, frame,
                 threadVars, with, ops, inFlight, hasty>>

----------------------------------------------------------------------------
(* The threads.                                                             *)

IsAt(t, place) == at[t] = place /\ crashed = "no"

Goes(t, place) == at' = [at EXCEPT ![t] = place]

MayWork(t) == IsAt(t, "loop") /\ ~shouldPause[t] /\ ~interrupted[t]

(* Broken: a thread that is paused does not see that it was interrupted. *)
Exit_Paused(t) ==
  /\ IsAt(t, "loop") /\ interrupted[t] /\ ~shouldPause[t]
  /\ Goes(t, "ended")
  /\ interrupted' = [interrupted EXCEPT ![t] = FALSE]
  /\ UNCHANGED <<ui, target, userVars, mapFile, generator, dbVars, queue, cached, frame,
                 shouldPause, busy, job, with, image, ops, crashed, inFlight, hasty>>

Exit(t) ==
  /\ IsAt(t, "loop") /\ interrupted[t]
  /\ Goes(t, "ended")
  /\ interrupted' = [interrupted EXCEPT ![t] = FALSE]
  /\ UNCHANGED <<ui, target, userVars, mapFile, generator, dbVars, queue, cached, frame,
                 shouldPause, busy, job, with, image, ops, crashed, inFlight, hasty>>

(* MapWorker.doWork: a job that a cache has by now is dropped. *)
Poll ==
  /\ MayWork("worker")
  /\ \E g \in queue :
       /\ queue' = queue \ {g}
       /\ IF cached[g] # Nothing THEN UNCHANGED <<at, job>> ELSE Goes("worker", "header") /\ job' = g
  /\ UNCHANGED <<ui, target, userVars, mapFile, generator, dbVars, cached, frame, shouldPause,
                 interrupted, busy, with, image, ops, crashed, inFlight, hasty>>

(* MapDatabase.executeQuery, by the generator that the worker has now.  It
   uses the header, and later the file, without a look whether they are there,
   and whether the header has been read.                                     *)
ReadHeader ==
  /\ IsAt("worker", "header")
  /\ IF header \in {Nothing, Unread} THEN Crash("no file")
     ELSE /\ Goes("worker", "blocks")
          /\ image' = [header |-> header, input |-> Nothing, by |-> with]
          /\ UNCHANGED <<ui, target, userVars, mapFile, generator, dbVars, queue, cached, frame,
                         shouldPause, interrupted, busy, job, with, ops, crashed, inFlight, hasty>>

ReadBlocks ==
  /\ IsAt("worker", "blocks")
  /\ IF input = Nothing THEN Crash("no file")
     ELSE /\ Goes("worker", "test")
          /\ image' = [image EXCEPT !.input = input]
          /\ UNCHANGED <<ui, target, userVars, mapFile, generator, dbVars, queue, cached, frame,
                         shouldPause, interrupted, busy, job, with, ops, crashed, inFlight, hasty>>

WorkerRests == at' = [at EXCEPT !["worker"] = "loop"] /\ job' = Nothing /\ image' = Nothing

(* An interrupted worker does not draw; but it may be interrupted after the test. *)
WorkerTests ==
  /\ IsAt("worker", "test")
  /\ IF interrupted["worker"] THEN WorkerRests
     ELSE Goes("worker", "draw") /\ UNCHANGED <<job, image>>
  /\ UNCHANGED <<ui, target, userVars, mapFile, generator, dbVars, queue, cached, frame,
                 shouldPause, interrupted, busy, with, ops, crashed, inFlight, hasty>>

(* drawBitmap does not disturb an animation.  It does not expect that its bitmaps
   are recycled: it fails when it has to copy one to the other.              *)
DrawBitmap(i) ==
  IF busy["animator"] THEN UNCHANGED <<frame, crashed>>
  ELSE IF frame = Recycled THEN crashed' \in {"no", "recycled"} /\ UNCHANGED frame
  ELSE frame' = i /\ UNCHANGED crashed

WorkerDraws ==
  /\ IsAt("worker", "draw")
  /\ DrawBitmap(image)
  /\ Goes("worker", "store")
  /\ UNCHANGED <<ui, target, userVars, mapFile, generator, dbVars, queue, cached, shouldPause,
                 interrupted, busy, job, image, with, ops, inFlight, hasty>>

WorkerStores ==
  /\ IsAt("worker", "store")
  /\ cached' = [cached EXCEPT ![job] = image]
  /\ WorkerRests
  /\ UNCHANGED <<ui, target, userVars, mapFile, generator, dbVars, queue, frame, shouldPause,
                 interrupted, busy, with, ops, crashed, inFlight, hasty>>

(* MapMover.doWork and ZoomAnimator.doWork, up to redrawTiles; the animation
   may be over.                                                              *)
Moves(t) ==
  /\ MayWork(t)
  /\ busy[t]
  /\ IF t = "mover" THEN Goes(t, "redraw") /\ UNCHANGED busy
     ELSE \/ busy' = [busy EXCEPT ![t] = FALSE] /\ Goes(t, "redraw")
          \/ UNCHANGED <<at, busy>>
  /\ UNCHANGED <<ui, target, userVars, mapFile, generator, dbVars, queue, cached, frame,
                 shouldPause, interrupted, job, with, image, ops, crashed, inFlight, hasty>>

(* redrawTiles: the tile comes from a cache, or a job for it is queued. *)
Looks(t) ==
  /\ IsAt(t, "redraw")
  /\ IF ~laidOut THEN Goes(t, "loop") /\ UNCHANGED <<queue, crashed>>
     ELSE IF ~centered THEN crashed' = "no position" /\ UNCHANGED <<at, queue>>
     ELSE IF cached[generator] # Nothing THEN Goes(t, "show") /\ UNCHANGED <<queue, crashed>>
     ELSE queue' = queue \union {generator} /\ Goes(t, "loop") /\ UNCHANGED crashed
  /\ UNCHANGED <<ui, target, userVars, mapFile, generator, dbVars, cached, frame, shouldPause,
                 interrupted, busy, job, with, image, ops, inFlight, hasty>>

Shows(t) ==
  /\ IsAt(t, "show")
  /\ DrawBitmap(IF cached[generator] # Nothing THEN cached[generator] ELSE frame)
  /\ Goes(t, "loop")
  /\ UNCHANGED <<ui, target, userVars, mapFile, generator, dbVars, queue, cached, shouldPause,
                 interrupted, busy, job, with, image, ops, inFlight, hasty>>

----------------------------------------------------------------------------
(* What the UI thread does within a call.                                   *)

UiAt(place) == ui = place /\ crashed = "no"

(* awaitPausing of a thread returns. *)
Awaited(t) == interrupted[t] \/ (shouldPause[t] /\ at[t] = "loop")

(* Broken: the map goes on moving. *)
AwaitPausing_KeepsMoving ==
  /\ UiAt("await")
  /\ \A t \in Threads : Awaited(t)
  /\ queue' = {}
  /\ inFlight' = busy["animator"]
  /\ ui' = "proceed"
  /\ UNCHANGED <<target, userVars, mapFile, generator, dbVars, cached, frame, threadVars, with,
                 ops, crashed, hasty>>

(* Then stopMove and JobQueue.clear. *)
AwaitPausing ==
  /\ UiAt("await")
  /\ \A t \in Threads : Awaited(t)
  /\ busy' = [busy EXCEPT !["mover"] = FALSE]
  /\ queue' = {}
  /\ inFlight' = busy["animator"]
  /\ ui' = "proceed"
  /\ UNCHANGED <<target, userVars, mapFile, generator, dbVars, cached, frame, at, shouldPause,
                 interrupted, job, image, with, ops, crashed, hasty>>

Proceed ==
  /\ UiAt("proceed")
  /\ shouldPause' = [t \in Threads |-> FALSE]
  /\ ui' = "close"
  /\ UNCHANGED <<target, userVars, mapFile, generator, dbVars, queue, cached, frame, at,
                 interrupted, busy, job, image, with, ops, crashed, inFlight, hasty>>

CloseFile ==
  /\ \/ UiAt("close") /\ header' = Nothing /\ ui' = "closing" /\ UNCHANGED input
     \/ UiAt("closing") /\ input' = Nothing /\ ui' = "open" /\ UNCHANGED header
  /\ UNCHANGED <<target, userVars, mapFile, generator, queue, cached, frame, threadVars, with,
                 ops, crashed, inFlight, hasty>>

(* openFile: the file may be missing, or its header may not be valid. *)
OpenFile ==
  /\ UiAt("open")
  /\ \/ input' = target /\ ui' = "opening" /\ UNCHANGED mapFile
     \/ mapFile' = Nothing /\ ui' = "clear" /\ UNCHANGED input
  /\ UNCHANGED <<target, userVars, generator, header, queue, cached, frame, threadVars, with,
                 ops, crashed, inFlight, hasty>>

(* The header is there before it is read. *)
NewHeader ==
  /\ UiAt("opening")
  /\ header' = Unread
  /\ ui' = "reading"
  /\ UNCHANGED <<target, userVars, mapFile, generator, input, queue, cached, frame, threadVars,
                 with, ops, crashed, inFlight, hasty>>

(* A header that is not valid closes the file again. *)
OpenedFile ==
  /\ UiAt("reading")
  /\ \/ header' = target /\ mapFile' = target /\ centered' = TRUE /\ ui' = "clear"
     \/ header' = Nothing /\ ui' = "failing" /\ UNCHANGED <<mapFile, centered>>
  /\ UNCHANGED <<target, activity, laidOut, generator, input, queue, cached, frame, threadVars,
                 with, ops, crashed, inFlight, hasty>>

FailedFile ==
  /\ UiAt("failing")
  /\ input' = Nothing
  /\ mapFile' = Nothing
  /\ ui' = "clear"
  /\ UNCHANGED <<target, userVars, generator, header, queue, cached, frame, threadVars, with,
                 ops, crashed, inFlight, hasty>>

(* clearAndRedrawMapView: recycled bitmaps cannot be erased. *)
Clear ==
  /\ UiAt("clear")
  /\ queue' = {}
  /\ IF frame = Recycled THEN crashed' = "recycled" /\ UNCHANGED frame
     ELSE frame' = Nothing /\ UNCHANGED crashed
  /\ ui' = "redraw"
  /\ UNCHANGED <<target, userVars, mapFile, generator, dbVars, cached, threadVars, with, ops,
                 inFlight, hasty>>

(* onSizeChanged, after the former frame buffer was destroyed: a view without
   a size does not get another.                                              *)
NewFrame ==
  /\ UiAt("resize")
  /\ IF laidOut THEN frame' = Nothing /\ ui' = "redraw" ELSE ui' = "idle" /\ UNCHANGED frame
  /\ UNCHANGED <<target, userVars, mapFile, generator, dbVars, queue, cached, threadVars, with,
                 ops, crashed, inFlight, hasty>>

UiRedraws ==
  /\ UiAt("redraw")
  /\ ui' = "idle"
  /\ target' = Nothing
  /\ IF laidOut /\ ~centered THEN crashed' = "no position" /\ UNCHANGED <<queue, frame>>
     ELSE /\ queue' = IF laidOut /\ cached[generator] = Nothing THEN queue \union {generator} ELSE queue
          /\ frame' = IF laidOut /\ cached[generator] # Nothing /\ ~busy["animator"]
                      THEN cached[generator] ELSE frame
          /\ UNCHANGED crashed
  /\ UNCHANGED <<userVars, mapFile, generator, dbVars, cached, threadVars, with, ops, inFlight, hasty>>

(* setMapGeneratorInternal: two fields, of the view and of the worker. *)
GiveWorker ==
  /\ UiAt("generator")
  /\ with' = generator
  /\ ui' = "clear"
  /\ UNCHANGED <<target, userVars, mapFile, generator, dbVars, queue, cached, frame, threadVars,
                 ops, crashed, inFlight, hasty>>

Join ==
  /\ UiAt("join")
  /\ IsAt("worker", "ended")
  /\ ui' = "free"
  /\ UNCHANGED <<target, userVars, mapFile, generator, dbVars, queue, cached, frame, threadVars,
                 with, ops, crashed, inFlight, hasty>>

(* An interruption ends the wait, and destroy goes on. *)
JoinInterrupted ==
  /\ UiAt("join")
  /\ ui' = "free"
  /\ hasty' = TRUE
  /\ UNCHANGED <<target, userVars, mapFile, generator, dbVars, queue, cached, frame, threadVars,
                 with, ops, crashed, inFlight>>

(* The rest of destroy. *)
Free ==
  /\ UiAt("free")
  /\ frame' = Recycled
  /\ cached' = [g \in Generators |-> Nothing]
  /\ header' = Nothing /\ input' = Nothing
  /\ ui' = "idle"
  /\ UNCHANGED <<target, userVars, mapFile, generator, queue, threadVars, with, ops, crashed,
                 inFlight, hasty>>

----------------------------------------------------------------------------
(* What begins a call.                                                      *)

Begins(place) == /\ UiAt("idle") /\ activity # "destroyed"
                 /\ ops < MaxOps /\ ops' = ops + 1
                 /\ ui' = place

SetMapFile(f) ==
  /\ Begins("await")
  /\ f # mapFile
  /\ target' = f
  /\ shouldPause' = [t \in Threads |-> TRUE]
  /\ UNCHANGED <<userVars, mapFile, generator, dbVars, queue, cached, frame, at, interrupted,
                 busy, job, image, with, crashed, inFlight, hasty>>

SetMapGenerator(g) ==
  /\ Begins("generator")
  /\ g # generator
  /\ generator' = g
  /\ UNCHANGED <<target, userVars, mapFile, dbVars, queue, cached, frame, threadVars, with,
                 crashed, inFlight, hasty>>

(* onSizeChanged, once the view has its new size: what was drawn for the former
   one is destroyed.                                                         *)
OnSizeChanged ==
  /\ Begins("resize")
  /\ \E sized \in BOOLEAN : (sized \/ laidOut) /\ laidOut' = sized
  /\ frame' = IF laidOut THEN Recycled ELSE frame
  /\ UNCHANGED <<target, activity, centered, mapFile, generator, dbVars, queue, cached,
                 threadVars, with, crashed, inFlight, hasty>>

SetCenter ==
  /\ Begins("redraw")
  /\ centered' = TRUE
  /\ UNCHANGED <<target, activity, laidOut, mapFile, generator, dbVars, queue, cached, frame,
                 threadVars, with, crashed, inFlight, hasty>>

(* A key or the trackball moves the map, or stops it; zoom starts an animation. *)
Navigate(t) ==
  /\ Begins("idle")
  /\ busy' = [busy EXCEPT ![t] = IF t = "mover" THEN ~@ ELSE TRUE]
  /\ UNCHANGED <<target, userVars, mapFile, generator, dbVars, queue, cached, frame, at,
                 shouldPause, interrupted, job, image, with, crashed, inFlight, hasty>>

OnPause ==
  /\ Begins("idle")
  /\ activity = "resumed"
  /\ activity' = "paused"
  /\ shouldPause' = [t \in Threads |-> TRUE]
  /\ UNCHANGED <<target, laidOut, centered, mapFile, generator, dbVars, queue, cached, frame, at,
                 interrupted, busy, job, image, with, crashed, inFlight, hasty>>

OnResume ==
  /\ Begins("idle")
  /\ activity = "paused"
  /\ activity' = "resumed"
  /\ shouldPause' = [t \in Threads |-> FALSE]
  /\ UNCHANGED <<target, laidOut, centered, mapFile, generator, dbVars, queue, cached, frame, at,
                 interrupted, busy, job, image, with, crashed, inFlight, hasty>>

(* Broken: only the thread that destroy waits for is interrupted. *)
Destroy_Worker ==
  /\ Begins("join")
  /\ activity = "paused"
  /\ activity' = "destroyed"
  /\ interrupted' = [t \in Threads |-> t = "worker"]
  /\ UNCHANGED <<target, laidOut, centered, mapFile, generator, dbVars, queue, cached, frame, at,
                 shouldPause, busy, job, image, with, crashed, inFlight, hasty>>

(* onDestroy follows onPause, which has not waited for the threads. *)
Destroy ==
  /\ Begins("join")
  /\ activity = "paused"
  /\ activity' = "destroyed"
  /\ interrupted' = [t \in Threads |-> TRUE]
  /\ UNCHANGED <<target, laidOut, centered, mapFile, generator, dbVars, queue, cached, frame, at,
                 shouldPause, busy, job, image, with, crashed, inFlight, hasty>>

UiStep == \/ AwaitPausing \/ Proceed \/ CloseFile \/ OpenFile \/ NewHeader \/ OpenedFile
          \/ FailedFile \/ Clear \/ UiRedraws \/ NewFrame \/ GiveWorker \/ Join \/ Free

WorkerStep == Exit("worker") \/ Poll \/ ReadHeader \/ ReadBlocks \/ WorkerTests \/ WorkerDraws \/ WorkerStores

RedrawerStep(t) == Exit(t) \/ Moves(t) \/ Looks(t) \/ Shows(t)

Next ==
  \/ UiStep \/ WorkerStep \/ JoinInterrupted
  \/ \E t \in Redrawers : RedrawerStep(t) \/ Navigate(t)
  \/ \E f \in Files : SetMapFile(f)
  \/ \E g \in Generators : SetMapGenerator(g)
  \/ OnSizeChanged \/ SetCenter \/ OnPause \/ OnResume \/ Destroy

(* Threads are scheduled, and the UI thread ends its calls.  Users need do
   nothing, and an animation may be executing for as long as one looks.      *)
Fairness ==
  /\ WF_vars(UiStep)
  /\ WF_vars(WorkerStep)
  /\ \A t \in Redrawers : WF_vars(RedrawerStep(t))

Spec == Init /\ [][Next]_vars /\ Fairness

----------------------------------------------------------------------------

(* A switch of map files goes unnoticed by the worker: it never finds the file
   closed, and what it is about to store was read from one file, the current
   one.  Nor does destroy close the file while the worker reads.  It is so unless
   setMapFile paused an animation, which may then end with a redraw while the
   file is switched; unless destroy was interrupted while it waited for the
   worker; and unless no file could be opened.                               *)
SwitchIsSafe ==
  ~inFlight /\ ~hasty =>
    /\ crashed = "no file" => mapFile = Nothing
    /\ at["worker"] \in {"test", "draw", "store"} => image.header = mapFile /\ image.input = mapFile

(* setMapFile, which waits for three threads, and destroy, which waits for one,
   return, whether the activity is paused or not.                            *)
CallsReturn == ui # "idle" ~> (ui = "idle" \/ crashed # "no")

(* destroy ends all the threads, also those it does not wait for. *)
DestroyEndsThreads ==
  activity = "destroyed" ~> (crashed # "no" \/ \A t \in Threads : at[t] = "ended")

(* What the code does not guarantee. *)

(* The worker has a map file to read whenever it renders. *)
WorkerHasAFile == crashed # "no file"

(* A redraw has a position to draw. *)
RedrawHasAPosition == crashed # "no position"

(* Nobody draws on a frame buffer that was destroyed, by destroy or for a new
   size.                                                                     *)
NobodyDrawsOnRecycled == crashed # "recycled"

(* destroy frees what the worker uses only when the worker has ended: not if it
   was interrupted.                                                          *)
CleanupIsLast == ui = "free" => at["worker"] = "ended"

(* At rest the view shows the current map file. *)
ShowsCurrentFile ==
  /\ UiAt("idle") /\ queue = {} /\ \A t \in Threads : at[t] = "loop"
  /\ frame \notin {Nothing, Recycled}
  => frame.header = mapFile

(* A job is executed by its own generator. *)
JobsHaveTheirGenerator == at["worker"] = "store" => image.by = job

(* A paused activity's threads come to rest. *)
PausedMeansResting ==
  activity = "paused" ~> (activity # "paused" \/ crashed # "no" \/ \A t \in Threads : shouldPause[t] /\ at[t] = "loop")
=============================================================================
