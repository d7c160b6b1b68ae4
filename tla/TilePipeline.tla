----------------------------- MODULE TilePipeline -----------------------------
(* How tiles get on the screen: the threads that call MapView.redrawTiles     *)
(* (the UI thread, MapMover, ZoomAnimator) and the MapWorker, with the job    *)
(* queue, the two tile caches and the frame buffer between them. Each of      *)
(* these locks itself only, so every call on one of them is a step and the    *)
(* check-then-act sequences built from them interleave.                       *)
(*                                                                            *)
(* A tile belongs to a zoom level; the visible ones are all of the current    *)
(* one. The image of a job is the job itself: a bitmap shows the tile, with   *)
(* the job parameters, that it was rendered for. Poll takes any queued job; the   *)
(* order of the queue is the subject of JobQueue. The worker's waiting and    *)
(* pausing is the subject of PausableThread.                                  *)
EXTENDS Integers, Sequences, FiniteSets

CONSTANTS Tile, Param,        \* tiles, and values of the job parameters
          NoImage,            \* a blank part of the frame, an unused bitmap
          Views,              \* the sets of tiles that can be visible together
          Ui, Animator,       \* the UI thread, ZoomAnimator
          Redrawer,           \* all threads that redraw
          Capacity,           \* of the in-memory cache
          FileCapacity,       \* of the file cache
          Plans,              \* sets of what the user and the storage do (see Act),
                              \* each in behaviours of its own
          MaxOps              \* bound on how often they do it

Job == Tile \X Param
TileOf(job) == job[1]

ASSUME BoundsAssumption == {Capacity, FileCapacity, MaxOps} \subseteq Nat
ASSUME NoImageAssumption == NoImage \notin Job
ASSUME ViewsAssumption == Views \subseteq SUBSET Tile /\ Ui \in Redrawer

VARIABLES map, older, bitmapPool, pixels,  \* the in-memory cache
          files,       \* the jobs that have a file in the file cache
          damaged,     \* those whose file cannot be read back in full
          bitmapGet,   \* the one bitmap in which the file cache returns images
          mixed,       \* auxiliary: whether it was overwritten while it was in use
          queue,       \* the pending jobs
          frame,       \* what the frame buffer shows in the place of each tile
          view, param, \* the visible tiles and the current job parameters
          sized,       \* MapView has a size that is not zero
          recycled,    \* the bitmaps of the frame buffer are
          animating,   \* ZoomAnimator.executeAnimation
          worker,      \* [at, job]: MapWorker.doWork
          redraw,      \* [Redrawer -> [at, todo, job, bitmap]]: redrawTiles
          failed,      \* auxiliary: since the last act, the jobs that could not be
                       \* executed, and those whose file could not be read
          ops, plan,
          calm,        \* auxiliary: all were at rest when the last act began
          crashed      \* the uncaught exception that ended the process

memory == <<map, older, bitmapPool, pixels>>
disk == <<files, damaged, bitmapGet, mixed>>
scene == <<view, param, sized, animating>>
screen == <<frame, recycled, scene>>
acts == <<ops, calm, plan>>
vars == <<memory, disk, queue, screen, worker, redraw, failed, acts, crashed>>

Memory == INSTANCE InMemoryTileCache WITH Image <- Job, recycled <- {}

NoJob == <<>>
Idle == [at |-> "idle", todo |-> {}, job |-> NoJob, bitmap |-> Memory!NoBitmap]
Blank == [t \in Tile |-> NoImage]

(* The first layout has called onSizeChanged, which redraws.                  *)
Init == /\ Memory!Init
        /\ files = {} /\ damaged = {} /\ bitmapGet = NoImage /\ mixed = FALSE
        /\ queue = {}
        /\ frame = Blank
        /\ view \in Views
        /\ param \in Param
        /\ sized = TRUE /\ recycled = FALSE /\ animating = FALSE
        /\ worker = [at |-> "idle", job |-> NoJob]
        /\ redraw = [r \in Redrawer |->
                       IF r = Ui THEN [Idle EXCEPT !.at = "next", !.todo = view] ELSE Idle]
        /\ failed = {}
        /\ ops = 0 /\ plan \in Plans /\ calm = TRUE
        /\ crashed = "no"

(* FrameBuffer.drawBitmap: TRUE, and the image is drawn, if the tile is       *)
(* visible at this moment, at its zoom level, and no animation is executing.  *)
Shows(tile) == tile \in view /\ ~animating

(* It does not expect its bitmaps to be recycled: it fails when it has to copy *)
(* one to the other.                                                          *)
Draw(tile, img) ==
  IF ~Shows(tile) THEN UNCHANGED <<frame, crashed>>
  ELSE IF recycled THEN crashed' \in {"no", "recycled"} /\ UNCHANGED frame
  ELSE frame' = [frame EXCEPT ![tile] = img] /\ UNCHANGED crashed

(* FileSystemTileCache.put: a full cache loses some entry; which one the      *)
(* access order says is left open.                                            *)
FilePut(job) ==
  \E kept \in {files} \cup {files \ {lost} : lost \in files} :
    /\ kept = files <=> FileCapacity = 0 \/ job \in files \/ Cardinality(files) < FileCapacity
    /\ files' = IF FileCapacity = 0 THEN files ELSE kept \cup {job}
    /\ damaged' = (damaged \cap kept) \ {job}

Crash(exception) ==
  /\ crashed' = exception
  /\ UNCHANGED <<memory, disk, queue, screen, worker, redraw, failed, acts>>

-----------------------------------------------------------------------------
(* MapWorker                                                                  *)

WorkerAt(step) == worker.at = step
WorkerGoes(step) == worker' = [worker EXCEPT !.at = step]
WorkerRests == worker' = [at |-> "idle", job |-> NoJob]

(* hasWork() in PausableThread.run, some time before doWork polls.            *)
HasWork == /\ WorkerAt("idle")
           /\ queue # {}
           /\ WorkerGoes("poll")
           /\ UNCHANGED <<memory, disk, queue, screen, redraw, failed, acts, crashed>>

Poll_Peeks == /\ WorkerAt("poll")
              /\ \E job \in queue : worker' = [at |-> "polled", job |-> job]
              /\ UNCHANGED <<memory, disk, queue, screen, redraw, failed, acts, crashed>>

Poll == /\ WorkerAt("poll")
        /\ \E job \in queue :
             /\ queue' = queue \ {job}
             /\ worker' = [at |-> "polled", job |-> job]
        /\ UNCHANGED <<memory, disk, screen, redraw, failed, acts, crashed>>

(* poll() returns null, no cache contains it, and executeJob dereferences it. *)
PollNull == /\ WorkerAt("poll")
            /\ queue = {}
            /\ Crash("null job")

CheckMemory_AnyParameters ==
  /\ WorkerAt("polled")
  /\ IF \E job \in Memory!Keys : TileOf(job) = TileOf(worker.job)
       THEN WorkerRests ELSE WorkerGoes("not in memory")
  /\ UNCHANGED <<memory, disk, queue, screen, redraw, failed, acts, crashed>>

CheckMemory == /\ WorkerAt("polled")
               /\ IF worker.job \in Memory!Keys THEN WorkerRests ELSE WorkerGoes("not in memory")
               /\ UNCHANGED <<memory, disk, queue, screen, redraw, failed, acts, crashed>>

CheckFiles_Skipped == /\ WorkerAt("not in memory")
                      /\ WorkerGoes("execute")
                      /\ UNCHANGED <<memory, disk, queue, screen, redraw, failed, acts, crashed>>

CheckFiles == /\ WorkerAt("not in memory")
              /\ IF worker.job \in files THEN WorkerRests ELSE WorkerGoes("execute")
              /\ UNCHANGED <<memory, disk, queue, screen, redraw, failed, acts, crashed>>

Execute == /\ WorkerAt("execute")
           /\ WorkerGoes("draw")
           /\ UNCHANGED <<memory, disk, queue, screen, redraw, failed, acts, crashed>>

ExecuteFails == /\ WorkerAt("execute")
                /\ "fail" \in plan
                /\ failed' = failed \cup {worker.job}
                /\ WorkerRests
                /\ UNCHANGED <<memory, disk, queue, screen, redraw, acts, crashed>>

WorkerDraws == /\ WorkerAt("draw")
               /\ Draw(TileOf(worker.job), worker.job)
               /\ WorkerGoes(IF Shows(TileOf(worker.job)) THEN "store" ELSE "save")
               /\ UNCHANGED <<memory, disk, queue, scene, recycled, redraw, failed, acts>>

WorkerStores_CurrentParameters ==
  /\ WorkerAt("store")
  /\ Memory!Put(<<TileOf(worker.job), param>>, worker.job)
  /\ WorkerGoes("save")
  /\ UNCHANGED <<disk, queue, screen, redraw, failed, acts, crashed>>

WorkerStores == /\ WorkerAt("store")
                /\ Memory!Put(worker.job, worker.job)
                /\ WorkerGoes("save")
                /\ UNCHANGED <<disk, queue, screen, redraw, failed, acts, crashed>>

(* An IOException while the file is written leaves the cache as it was.       *)
WorkerSaves == /\ WorkerAt("save")
               /\ FilePut(worker.job) \/ ("fail" \in plan /\ UNCHANGED <<files, damaged>>)
               /\ WorkerRests
               /\ UNCHANGED <<memory, bitmapGet, mixed, queue, screen, redraw, failed, acts, crashed>>

WorkerStep == \/ HasWork \/ Poll \/ PollNull \/ CheckMemory \/ CheckFiles \/ Execute
              \/ ExecuteFails \/ WorkerDraws \/ WorkerStores \/ WorkerSaves

-----------------------------------------------------------------------------
(* MapView.redrawTiles, for the tiles visible when it was called              *)

At(r, step) == redraw[r].at = step
Goes(r, step) == redraw' = [redraw EXCEPT ![r].at = step]
TileDone(r) == redraw' = [redraw EXCEPT ![r] = [Idle EXCEPT !.at = "next", !.todo = redraw[r].todo]]

(* The next tile's job, and inMemoryTileCache.containsKey.                    *)
NextTile(r) ==
  /\ At(r, "next")
  /\ \E tile \in redraw[r].todo :
       LET job == <<tile, param>> IN
       redraw' = [redraw EXCEPT ![r] =
                    [at |-> IF job \in Memory!Keys THEN "in memory" ELSE "not in memory",
                     todo |-> redraw[r].todo \ {tile}, job |-> job,
                     bitmap |-> Memory!NoBitmap]]
  /\ UNCHANGED <<memory, disk, queue, screen, worker, failed, acts, crashed>>

(* The cached bitmap itself is returned, or null if it was evicted meanwhile. *)
GetFromMemory(r) ==
  /\ At(r, "in memory")
  /\ redraw' = [redraw EXCEPT ![r].at = "draw", ![r].bitmap = map[redraw[r].job]]
  /\ IF redraw[r].job \in Memory!Keys THEN Memory!Get(redraw[r].job) ELSE UNCHANGED memory
  /\ UNCHANGED <<disk, queue, screen, worker, failed, acts, crashed>>

DrawFromMemory(r) ==
  /\ At(r, "draw")
  /\ redraw[r].bitmap # Memory!NoBitmap
  /\ Draw(TileOf(redraw[r].job), pixels[redraw[r].bitmap])
  /\ TileDone(r)
  /\ UNCHANGED <<memory, disk, queue, scene, recycled, worker, failed, acts>>

(* Canvas.drawBitmap(null, ...), unless the tile is not shown any more.       *)
DrawNull(r) ==
  /\ At(r, "draw")
  /\ redraw[r].bitmap = Memory!NoBitmap
  /\ IF Shows(TileOf(redraw[r].job))
       THEN Crash("null bitmap")
       ELSE TileDone(r) /\ UNCHANGED <<memory, disk, queue, screen, worker, failed, acts, crashed>>

FindFile(r) ==
  /\ At(r, "not in memory")
  /\ Goes(r, IF redraw[r].job \in files THEN "in file" ELSE "missing")
  /\ UNCHANGED <<memory, disk, queue, screen, worker, failed, acts, crashed>>

UsesBitmapGet(r) == redraw[r].at \in {"draw file", "store"}

ReadFile(r) ==
  /\ At(r, "in file")
  /\ redraw[r].job \in files \ damaged
  /\ bitmapGet' = redraw[r].job
  /\ mixed' = (mixed \/ \E q \in Redrawer \ {r} : UsesBitmapGet(q) /\ redraw[q].job # redraw[r].job)
  /\ Goes(r, "draw file")
  /\ UNCHANGED <<memory, files, damaged, queue, screen, worker, failed, acts, crashed>>

(* Broken: the tile is not rendered either.                                   *)
ReadFails_NoJob(r) ==
  /\ At(r, "in file")
  /\ redraw[r].job \in damaged
  /\ files' = files \ {redraw[r].job} /\ damaged' = damaged \ {redraw[r].job}
  /\ TileDone(r)
  /\ UNCHANGED <<memory, bitmapGet, mixed, queue, screen, worker, failed, acts, crashed>>

(* get() returns null. It keeps the entry of a file with too few bytes and    *)
(* removes the entry of a file that has gone.                                 *)
ReadFails(r) ==
  /\ At(r, "in file")
  /\ redraw[r].job \in damaged
  /\ \/ /\ files' = files \ {redraw[r].job} /\ damaged' = damaged \ {redraw[r].job}
        /\ UNCHANGED failed
     \/ failed' = failed \cup {redraw[r].job} /\ UNCHANGED <<files, damaged>>
  /\ Goes(r, "missing")
  /\ UNCHANGED <<memory, bitmapGet, mixed, queue, screen, worker, acts, crashed>>

(* get() of a key that was evicted meanwhile: new FileInputStream(null).      *)
ReadNull(r) ==
  /\ At(r, "in file")
  /\ redraw[r].job \notin files
  /\ Crash("null file")

DrawFromFile(r) ==
  /\ At(r, "draw file")
  /\ Draw(TileOf(redraw[r].job), bitmapGet)
  /\ Goes(r, "store")
  /\ UNCHANGED <<memory, disk, queue, scene, recycled, worker, failed, acts>>

StoreInMemory(r) ==
  /\ At(r, "store")
  /\ Memory!Put(redraw[r].job, bitmapGet)
  /\ TileDone(r)
  /\ UNCHANGED <<disk, queue, screen, worker, failed, acts, crashed>>

AddJob(r) ==
  /\ At(r, "missing")
  /\ queue' = queue \cup {redraw[r].job}
  /\ TileDone(r)
  /\ UNCHANGED <<memory, disk, screen, worker, failed, acts, crashed>>

EndRedraw(r) ==
  /\ At(r, "next")
  /\ redraw[r].todo = {}
  /\ redraw' = [redraw EXCEPT ![r] = Idle]
  /\ UNCHANGED <<memory, disk, queue, screen, worker, failed, acts, crashed>>

(* A view without a size has no tiles.                                        *)
RedrawTiles(r, visible) ==
  redraw' = [redraw EXCEPT ![r].at = "next", ![r].todo = IF sized THEN visible ELSE {}]

(* clearAndRedrawMapView; recycled bitmaps cannot be erased.                  *)
ClearQueue == /\ At(Ui, "clear queue")
              /\ queue' = {}
              /\ Goes(Ui, "clear frame")
              /\ UNCHANGED <<memory, disk, screen, worker, failed, acts, crashed>>

ClearFrame ==
  /\ At(Ui, "clear frame")
  /\ IF recycled THEN Crash("recycled")
     ELSE /\ frame' = Blank
          /\ RedrawTiles(Ui, view)
          /\ UNCHANGED <<memory, disk, queue, scene, recycled, worker, failed, acts, crashed>>

(* onSizeChanged, after it has destroyed the bitmaps: new, blank ones, unless *)
(* the view has no size.                                                      *)
NewFrame ==
  /\ At(Ui, "resize")
  /\ IF sized THEN frame' = Blank /\ recycled' = FALSE /\ RedrawTiles(Ui, view)
     ELSE Goes(Ui, "idle") /\ UNCHANGED <<frame, recycled>>
  /\ UNCHANGED <<memory, disk, queue, scene, worker, failed, acts, crashed>>

(* What was drawn since the zoom level changed is scaled, too.                *)
StartAnimation ==
  /\ At(Ui, "animate")
  /\ animating' = TRUE
  /\ frame' = Blank
  /\ Goes(Ui, "idle")
  /\ UNCHANGED <<memory, disk, queue, view, param, sized, recycled, worker, failed, acts, crashed>>

UiStep == ClearQueue \/ ClearFrame \/ NewFrame \/ StartAnimation

RedrawStep(r) == \/ NextTile(r) \/ GetFromMemory(r) \/ DrawFromMemory(r) \/ DrawNull(r)
                 \/ FindFile(r) \/ ReadFile(r) \/ ReadFails(r) \/ ReadNull(r)
                 \/ DrawFromFile(r) \/ StoreInMemory(r) \/ AddJob(r) \/ EndRedraw(r)

-----------------------------------------------------------------------------
(* What starts a redraw. A thread that redraws does nothing else meanwhile.   *)

Quiet == /\ worker.at = "idle" /\ queue = {} /\ ~animating
         /\ \A r \in Redrawer : redraw[r].at = "idle"

Act(op) == /\ op \in plan /\ ops < MaxOps
           /\ ops' = ops + 1 /\ plan' = plan
           /\ calm' = (Quiet /\ op # "damage")
           /\ failed' = {}

Redraw(r) == /\ Act("redraw")
             /\ r # Animator
             /\ At(r, "idle")
             /\ RedrawTiles(r, view)
             /\ UNCHANGED <<memory, disk, queue, screen, worker, crashed>>

(* matrixPostTranslate and moveMap: what stays visible stays on the frame.    *)
Move(r) == /\ Act("move")
           /\ r # Animator
           /\ At(r, "idle")
           /\ \E visible \in Views \ {view} :
                /\ view' = visible
                /\ frame' = [t \in Tile |-> IF t \in view \cap visible THEN frame[t] ELSE NoImage]
                /\ RedrawTiles(r, visible)
           /\ UNCHANGED <<memory, disk, queue, param, sized, recycled, animating, worker, crashed>>

(* MapView.zoom: what is on the frame is scaled, and redrawn after the        *)
(* animation (StartAnimation), to another zoom level or, when a pinch ends, to *)
(* the same.                                                                  *)
Zoom == /\ Act("zoom")
        /\ At(Ui, "idle")
        /\ view' \in Views
        /\ frame' = Blank
        /\ Goes(Ui, "animate")
        /\ UNCHANGED <<memory, disk, queue, param, sized, recycled, animating, worker, crashed>>

(* ZoomAnimator.doWork, when the time of the animation is over.               *)
EndAnimation(r) == /\ r = Animator
                   /\ animating
                   /\ At(r, "idle")
                   /\ animating' = FALSE
                   /\ RedrawTiles(r, view)
                   /\ UNCHANGED <<memory, disk, queue, frame, view, param, sized, recycled, worker,
                                  failed, acts, crashed>>

(* onSizeChanged: the bitmaps of the frame buffer are destroyed, before there *)
(* are new ones (NewFrame). The same tiles fit the new size, or none.         *)
Resize == /\ Act("resize")
          /\ At(Ui, "idle")
          /\ sized' \in BOOLEAN
          /\ recycled' = TRUE
          /\ frame' = Blank
          /\ Goes(Ui, "resize")
          /\ UNCHANGED <<memory, disk, queue, view, param, animating, worker, crashed>>

(* setTextScale, setRenderTheme, setDebugSettings.                            *)
ChangeParameters == /\ Act("change")
                    /\ At(Ui, "idle")
                    /\ \E p \in Param \ {param} : param' = p
                    /\ Goes(Ui, "clear queue")
                    /\ UNCHANGED <<memory, disk, queue, frame, view, sized, recycled, animating,
                                   worker, crashed>>

(* The external storage loses a file or a part of it.                         *)
DamageFile == /\ Act("damage")
              /\ \E job \in files \ damaged : damaged' = damaged \cup {job}
              /\ UNCHANGED <<memory, files, bitmapGet, mixed, queue, screen, worker, redraw, crashed>>

-----------------------------------------------------------------------------
System == \/ WorkerStep
          \/ \E r \in Redrawer : RedrawStep(r) \/ EndAnimation(r)
          \/ UiStep

Next == /\ crashed = "no"
        /\ \/ System
           \/ \E r \in Redrawer : Redraw(r) \/ Move(r)
           \/ Zoom \/ Resize \/ ChangeParameters \/ DamageFile

(* Threads are scheduled; nobody need redraw.                                 *)
Fairness == /\ WF_vars(crashed = "no" /\ WorkerStep)
            /\ \A r \in Redrawer : WF_vars(crashed = "no" /\ (RedrawStep(r) \/ EndAnimation(r)))
            /\ WF_vars(crashed = "no" /\ UiStep)

Spec == Init /\ [][Next]_vars
FairSpec == Spec /\ Fairness

-----------------------------------------------------------------------------
(* Where a thread is that redraws: done with one tile and before the next, or *)
(* at the tile of a job.                                                      *)
Between == [at : {"idle", "clear queue", "clear frame", "resize", "animate"}, todo : {{}}, job : {NoJob},
            bitmap : {Memory!NoBitmap}]
           \cup [at : {"next"}, todo : SUBSET Tile, job : {NoJob}, bitmap : {Memory!NoBitmap}]
AtTile == [at : {"in memory", "draw", "not in memory", "in file", "draw file", "store", "missing"},
           todo : SUBSET Tile, job : Job, bitmap : Memory!Bitmap \cup {Memory!NoBitmap}]

Flags == {sized, recycled, animating, mixed, calm} \subseteq BOOLEAN

TypeOK ==
  /\ Memory!TypeOK
  /\ files \subseteq Job /\ damaged \subseteq files
  /\ bitmapGet \in IF \E r \in Redrawer : UsesBitmapGet(r) THEN Job ELSE Job \cup {NoImage}
  /\ queue \subseteq Job
  /\ frame \in [Tile -> Job \cup {NoImage}]
  /\ view \in Views /\ param \in Param
  /\ Flags
  /\ worker \in [at : {"idle", "poll"}, job : {NoJob}]
               \cup [at : {"polled", "not in memory", "execute", "draw", "store", "save"}, job : Job]
  /\ redraw \in [Redrawer -> Between \cup AtTile]
  /\ failed \subseteq Job
  /\ ops \in 0 .. MaxOps /\ plan \in Plans
  /\ crashed \in {"no", "null job", "null bitmap", "null file", "recycled"}

(* A cached image is the image of its job, whatever the threads interleave, as *)
(* long as none gets an image from a file while another one still uses the    *)
(* shared bitmap of the file cache. Every other put copies from a bitmap that *)
(* only the caller uses.                                                      *)
CacheHoldsItsTile == \A job \in Memory!Keys : pixels[map[job]] = job
OnlySharingMixesTiles == ~mixed => CacheHoldsItsTile

(* A tile's place on the screen shows nothing but that tile, whatever happens *)
(* to the bitmap between the cache's get and drawBitmap.                      *)
FrameShowsItsTile == \A tile \in Tile : frame[tile] = NoImage \/ TileOf(frame[tile]) = tile

(* A tile is rendered only while no cache on disk has it, although the check  *)
(* is made long before: rendering is the expensive step.                      *)
RendersOnlyMissingTiles == worker.at \in {"execute", "draw", "store", "save"} => worker.job \notin files

(* The bitmaps of the in-memory cache stay unshared for its real clients,     *)
(* which do put existing keys.                                                *)
BitmapsStayUnshared == Memory!BitmapsUnshared /\ Memory!OrderIsTotal

(* The pool of the in-memory cache keeps all of its bitmaps.                  *)
NoBitmapLeaks == Memory!NothingLeaks

(* What a look at shared state promised is still true when it is acted upon:  *)
(* hasWork() that poll returns a job, containsKey that get returns an image,  *)
(* the frame buffer that it has bitmaps.                                      *)
StaleChecksAreHarmless == crashed = "no"

(* Every visible tile is on the screen, rendered with the current parameters, *)
(* unless that failed.                                                        *)
ScreenIsComplete ==
  \A tile \in view : frame[tile] = <<tile, param>> \/ <<tile, param>> \in failed

(* When all are at rest the screen is complete.  The code does not guarantee  *)
(* it to whoever acts while others are at work.                               *)
QuietMeansComplete == Quiet /\ sized /\ crashed = "no" => ScreenIsComplete

(* It is so, whatever has happened before, after a redraw, a move, a zoom, a  *)
(* change of the parameters or of the size that began when all were at rest   *)
(* and that no other act disturbed: earlier ones may have lost files, filled  *)
(* the caches with other tiles, or left holes in the screen.                  *)
UndisturbedMeansComplete == calm /\ ~mixed => QuietMeansComplete

(* The threads come to rest: no job stays in the queue and no redraw goes on  *)
(* for ever.                                                                  *)
ComesToRest == <>[](Quiet \/ crashed # "no")
=============================================================================
