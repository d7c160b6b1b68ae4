------------------------- MODULE TilePipeline_proofs -------------------------
(* Proofs about TilePipeline, for all tiles and parameters, any threads that  *)
(* redraw and any capacities.                                                 *)
EXTENDS TilePipeline, FiniteSetTheorems, TLAPS

(* The cache in the pipeline is InMemoryTileCache, with what is proved of it. *)
Cache == INSTANCE InMemoryTileCache_proofs WITH Image <- Job, recycled <- {}

LEMMA MemoryIsCache ==
  /\ Memory!TypeOK <=> Cache!TypeOK
  /\ Memory!BitmapsUnshared <=> Cache!BitmapsUnshared
  /\ Memory!OrderIsTotal <=> Cache!OrderIsTotal
  /\ Memory!Keys = Cache!Keys
  /\ Memory!Bitmap = Cache!Bitmap /\ Memory!NoBitmap = Cache!NoBitmap
BY DEF Memory!TypeOK, Cache!TypeOK, Memory!Bitmap, Cache!Bitmap, Memory!NoBitmap, Cache!NoBitmap,
   Memory!BitmapsUnshared, Cache!BitmapsUnshared, Memory!OrderIsTotal, Cache!OrderIsTotal,
   Memory!Keys, Cache!Keys, Memory!Mapped, Cache!Mapped, Memory!Pooled, Cache!Pooled

LEMMA SameCardinality ==
  \A S : Memory!Cardinality(S) = Cardinality(S) /\ Cache!Cardinality(S) = Cardinality(S)
BY DEF Memory!Cardinality, Cache!Cardinality, Cardinality

LEMMA PutIsPut ==
  ASSUME NEW job \in Job, NEW img \in Job, Memory!Put(job, img)
  PROVE  Cache!Put(job, img)
<1>1. /\ Memory!Keys = Cache!Keys /\ Memory!NoBitmap = Cache!NoBitmap
      /\ Memory!Last = Cache!Last /\ Memory!AllButLast = Cache!AllButLast
      /\ \A kept : Memory!Accessed(kept, job) = Cache!Accessed(kept, job)
  BY MemoryIsCache DEF Memory!Last, Cache!Last, Memory!AllButLast, Cache!AllButLast,
     Memory!Accessed, Cache!Accessed
<1>2. \A eldest : Memory!IsEldest(eldest) <=> Cache!IsEldest(eldest)
  BY <1>1 DEF Memory!IsEldest, Cache!IsEldest
<1>3. Memory!Copies(img) <=> Cache!Copies(img)
  BY <1>1 DEF Memory!Copies, Cache!Copies
<1>4. Memory!PutIgnored(job, img) => Cache!PutIgnored(job, img)
  BY DEF Memory!PutIgnored, Cache!PutIgnored, Memory!vars, Cache!vars
<1>5. Memory!PutReplaces(job, img) => Cache!PutReplaces(job, img)
  BY <1>1, <1>3 DEF Memory!PutReplaces, Cache!PutReplaces
<1>6. Memory!PutAdds(job, img) => Cache!PutAdds(job, img)
  BY <1>1, <1>3, SameCardinality DEF Memory!PutAdds, Cache!PutAdds
<1>7. Memory!PutEvicts(job, img) => Cache!PutEvicts(job, img)
  BY <1>1, <1>2, <1>3, SameCardinality DEF Memory!PutEvicts, Cache!PutEvicts
<1> QED
  BY <1>4, <1>5, <1>6, <1>7 DEF Memory!Put, Cache!Put

(* The threads put and get jobs only, with images of jobs.                    *)
LEMMA IsClient == ASSUME TypeOK, [Next]_vars PROVE [Cache!Next]_(Cache!vars)
<1>1. CASE UNCHANGED memory
  BY <1>1 DEF memory, Cache!vars
<1>2. ASSUME NEW job \in Job, job \in Memory!Keys, Memory!Get(job) PROVE Cache!Next
  BY <1>2 DEF Cache!Next, Memory!Get, Cache!Get, Memory!Keys, Cache!Keys, Memory!Accessed,
     Cache!Accessed, Memory!NoBitmap, Cache!NoBitmap
<1>3. ASSUME NEW job \in Job, NEW img \in Job, Memory!Put(job, img) PROVE Cache!Next
  BY <1>3, PutIsPut DEF Cache!Next
<1>4. CASE WorkerStores
  <2>1. worker.job \in Job /\ Memory!Put(worker.job, worker.job)
    BY <1>4 DEF WorkerStores, WorkerAt, TypeOK
  <2> QED
    BY <1>3, <2>1
<1>5. ASSUME NEW r \in Redrawer, GetFromMemory(r) PROVE [Cache!Next]_(Cache!vars)
  <2>1. redraw[r].job \in Job
    BY <1>5 DEF GetFromMemory, At, TypeOK, Between, AtTile
  <2> QED
    BY <1>1, <1>2, <1>5, <2>1 DEF GetFromMemory
<1>6. ASSUME NEW r \in Redrawer, StoreInMemory(r) PROVE Cache!Next
  <2>1. redraw[r].job \in Job /\ bitmapGet \in Job
    BY <1>6 DEF StoreInMemory, At, UsesBitmapGet, TypeOK, Between, AtTile
  <2> QED
    BY <1>3, <1>6, <2>1 DEF StoreInMemory
<1>7. CASE WorkerStep
  BY <1>1, <1>4, <1>7 DEF WorkerStep, HasWork, Poll, PollNull, CheckMemory, CheckFiles, Execute,
     ExecuteFails, WorkerDraws, WorkerSaves, Crash
<1>8. ASSUME NEW r \in Redrawer, RedrawStep(r) PROVE [Cache!Next]_(Cache!vars)
  BY <1>1, <1>5, <1>6, <1>8 DEF RedrawStep, NextTile, DrawFromMemory, DrawNull, FindFile, ReadFile,
     ReadFails, ReadNull, DrawFromFile, AddJob, EndRedraw, Crash
<1>9. ASSUME NEW r \in Redrawer, Redraw(r) \/ Move(r) \/ EndAnimation(r) PROVE UNCHANGED memory
  BY <1>9 DEF Redraw, Move, EndAnimation
<1>10. CASE UiStep \/ Zoom \/ Resize \/ ChangeParameters \/ DamageFile
  BY <1>1, <1>10 DEF UiStep, ClearQueue, ClearFrame, NewFrame, StartAnimation, Crash, Zoom, Resize,
     ChangeParameters,
     DamageFile
<1> QED
  BY <1>1, <1>7, <1>8, <1>9, <1>10 DEF Next, System, vars

-----------------------------------------------------------------------------
(* A redraw looks at one tile after the other.                                *)
LEMMA RedrawTyped ==
  ASSUME TypeOK, NEW r \in Redrawer
  PROVE  /\ redraw[r] \in Between \cup AtTile
         /\ redraw[r].at \notin {"idle", "clear queue", "clear frame", "resize", "animate", "next"}
              => redraw[r] \in AtTile /\ redraw[r].job \in Job
         /\ redraw[r].todo \subseteq Tile
BY DEF TypeOK, Between, AtTile

LEMMA RedrawDomain ==
  ASSUME TypeOK, NEW r \in Redrawer
  PROVE  DOMAIN redraw = Redrawer /\ DOMAIN redraw[r] = {"at", "todo", "job", "bitmap"}
<1>1. DOMAIN redraw = Redrawer /\ (redraw[r] \in Between \/ redraw[r] \in AtTile)
  BY DEF TypeOK
<1>2. CASE redraw[r] \in Between
  BY <1>1, <1>2 DEF Between
<1>3. CASE redraw[r] \in AtTile
  BY <1>1, <1>3 DEF AtTile
<1> QED
  BY <1>1, <1>2, <1>3

LEMMA RedrawMoves ==
  ASSUME TypeOK, NEW r \in Redrawer
  PROVE  /\ NextTile(r) =>
              \E tile \in redraw[r].todo :
                /\ redraw'[r].at \in {"in memory", "not in memory"}
                /\ redraw'[r].at = "in memory" => <<tile, param>> \in Memory!Keys
                /\ redraw'[r].todo = redraw[r].todo \ {tile} /\ redraw'[r].job = <<tile, param>>
         /\ GetFromMemory(r) =>
              /\ redraw'[r].at = "draw" /\ redraw'[r].bitmap = map[redraw[r].job]
              /\ redraw'[r].todo = redraw[r].todo /\ redraw'[r].job = redraw[r].job
         /\ \A step : Goes(r, step) =>
              /\ redraw'[r].at = step /\ redraw'[r].bitmap = redraw[r].bitmap
              /\ redraw'[r].todo = redraw[r].todo /\ redraw'[r].job = redraw[r].job
         /\ TileDone(r) => redraw'[r].at = "next" /\ redraw'[r].todo = redraw[r].todo
         /\ \A visible : RedrawTiles(r, visible) =>
              redraw'[r].at = "next" /\ redraw'[r].todo = IF sized THEN visible ELSE {}
         /\ EndRedraw(r) => redraw'[r].at = "idle" /\ redraw[r].todo = {}
<1>1. DOMAIN redraw = Redrawer /\ DOMAIN redraw[r] = {"at", "todo", "job", "bitmap"}
  BY RedrawDomain
<1>2. ASSUME NextTile(r)
      PROVE  \E tile \in redraw[r].todo :
                /\ redraw'[r].at \in {"in memory", "not in memory"}
                /\ redraw'[r].at = "in memory" => <<tile, param>> \in Memory!Keys
                /\ redraw'[r].todo = redraw[r].todo \ {tile} /\ redraw'[r].job = <<tile, param>>
  <2>1. PICK tile \in redraw[r].todo :
          redraw' = [redraw EXCEPT ![r] =
                       [at |-> IF <<tile, param>> \in Memory!Keys THEN "in memory"
                               ELSE "not in memory",
                        todo |-> redraw[r].todo \ {tile}, job |-> <<tile, param>>,
                        bitmap |-> Memory!NoBitmap]]
    BY <1>2 DEF NextTile
  <2>2. /\ redraw'[r].at = IF <<tile, param>> \in Memory!Keys THEN "in memory" ELSE "not in memory"
        /\ redraw'[r].todo = redraw[r].todo \ {tile} /\ redraw'[r].job = <<tile, param>>
    BY <1>1, <2>1
  <2> QED
    BY <2>2
<1>3. GetFromMemory(r) =>
        redraw'[r] = [redraw[r] EXCEPT !.at = "draw", !.bitmap = map[redraw[r].job]]
  BY <1>1 DEF GetFromMemory
<1>4. \A step : Goes(r, step) => redraw'[r] = [redraw[r] EXCEPT !.at = step]
  BY <1>1 DEF Goes
<1>5. TileDone(r) => redraw'[r] = [Idle EXCEPT !.at = "next", !.todo = redraw[r].todo]
  BY <1>1 DEF TileDone
<1>6. \A visible : RedrawTiles(r, visible) =>
        redraw'[r] = [redraw[r] EXCEPT !.at = "next", !.todo = IF sized THEN visible ELSE {}]
  BY <1>1 DEF RedrawTiles
<1>7. EndRedraw(r) => redraw'[r].at = "idle" /\ redraw[r].todo = {}
  BY <1>1 DEF EndRedraw, Idle
<1>8. GetFromMemory(r) =>
        /\ redraw'[r].at = "draw" /\ redraw'[r].bitmap = map[redraw[r].job]
        /\ redraw'[r].todo = redraw[r].todo /\ redraw'[r].job = redraw[r].job
  BY <1>1, <1>3
<1>9. \A step : Goes(r, step) =>
        /\ redraw'[r].at = step /\ redraw'[r].bitmap = redraw[r].bitmap
        /\ redraw'[r].todo = redraw[r].todo /\ redraw'[r].job = redraw[r].job
  BY <1>1, <1>4
<1>10. TileDone(r) => redraw'[r].at = "next" /\ redraw'[r].todo = redraw[r].todo
  BY <1>5 DEF Idle
<1>11. ASSUME NEW visible, RedrawTiles(r, visible)
       PROVE  redraw'[r].at = "next" /\ redraw'[r].todo = IF sized THEN visible ELSE {}
  <2> DEFINE todo == IF sized THEN visible ELSE {}
  <2>1. redraw'[r] = [redraw[r] EXCEPT !.at = "next", !.todo = todo]
    BY <1>6, <1>11
  <2> HIDE DEF todo
  <2>2. redraw'[r].at = "next" /\ redraw'[r].todo = todo
    BY <1>1, <2>1
  <2> QED
    BY <2>2 DEF todo
<1> QED
  BY <1>2, <1>7, <1>8, <1>9, <1>10, <1>11

(* Nobody else touches what a thread is doing.                                *)
LEMMA RedrawsApart ==
  ASSUME TypeOK, [Next]_vars, NEW q \in Redrawer
  PROVE  \/ UNCHANGED redraw[q]
         \/ RedrawStep(q)
         \/ q = Ui /\ (UiStep \/ Zoom \/ Resize \/ ChangeParameters)
         \/ Redraw(q) \/ Move(q) \/ EndAnimation(q)
<1>1. ASSUME NEW r \in Redrawer, RedrawStep(r) \/ Redraw(r) \/ Move(r) \/ EndAnimation(r), r # q
      PROVE  UNCHANGED redraw[q]
  BY <1>1, RedrawDomain DEF RedrawStep, NextTile, GetFromMemory, DrawFromMemory, DrawNull, FindFile,
     ReadFile, ReadFails, ReadNull, DrawFromFile, StoreInMemory, AddJob, EndRedraw, Crash, Goes,
     TileDone, Redraw, Move, EndAnimation, RedrawTiles
<1>2. CASE WorkerStep \/ DamageFile \/ UNCHANGED vars
  BY <1>2 DEF WorkerStep, HasWork, Poll, PollNull, CheckMemory, CheckFiles, Execute, ExecuteFails,
     WorkerDraws, WorkerStores, WorkerSaves, Crash, DamageFile, vars
<1>3. CASE (UiStep \/ Zoom \/ Resize \/ ChangeParameters) /\ q # Ui
  BY <1>3, RedrawDomain DEF UiStep, ClearQueue, ClearFrame, NewFrame, StartAnimation, Crash, Zoom, Resize,
     ChangeParameters, Goes, RedrawTiles
<1> QED
  BY <1>1, <1>2, <1>3 DEF Next, System

LEMMA DrawTyped ==
  ASSUME TypeOK, NEW tile \in Tile, NEW img \in Job \cup {NoImage}, Draw(tile, img)
  PROVE  /\ frame' \in [Tile -> Job \cup {NoImage}]
         /\ crashed' \in {"no", "null job", "null bitmap", "null file", "recycled"}
BY DEF TypeOK, Draw

LEMMA FlagsTyped == ASSUME TypeOK, [Next]_vars PROVE Flags'
<1>1. Flags
  BY DEF TypeOK
<1>2. ASSUME UNCHANGED <<sized, recycled, animating, mixed, calm>> PROVE Flags'
  BY <1>1, <1>2 DEF Flags
<1>3. CASE WorkerStep \/ ClearQueue \/ UNCHANGED vars
  BY <1>2, <1>3 DEF WorkerStep, HasWork, Poll, PollNull, CheckMemory, CheckFiles, Execute,
     ExecuteFails, WorkerDraws, WorkerStores, WorkerSaves, ClearQueue, Crash, vars, disk, screen,
     scene, acts
<1>4. ASSUME NEW r \in Redrawer, ReadFile(r) PROVE Flags'
  <2>1. mixed' \in BOOLEAN /\ UNCHANGED <<sized, recycled, animating, calm>>
    BY <1>4, Zenon DEF ReadFile, screen, scene, acts
  <2> QED
    BY <1>1, <2>1 DEF Flags
<1>5. ASSUME NEW r \in Redrawer, RedrawStep(r) PROVE Flags'
  BY <1>2, <1>4, <1>5 DEF RedrawStep, NextTile, GetFromMemory, DrawFromMemory, DrawNull, FindFile,
     ReadFails, ReadNull, DrawFromFile, StoreInMemory, AddJob, EndRedraw, Crash, disk, screen,
     scene,
     acts
<1>6. ASSUME StartAnimation \/ \E r \in Redrawer : EndAnimation(r) PROVE Flags'
  BY <1>1, <1>6 DEF StartAnimation, EndAnimation, Flags, disk, acts
<1>7. CASE ClearFrame \/ NewFrame
  <2>1. recycled' \in BOOLEAN /\ UNCHANGED <<sized, animating, mixed, calm>>
    BY <1>1, <1>7 DEF ClearFrame, NewFrame, StartAnimation, Crash, Flags, disk, screen, scene, acts
  <2> QED
    BY <1>1, <2>1 DEF Flags
<1>8. ASSUME NEW op, Act(op), sized' \in BOOLEAN, recycled' \in BOOLEAN, animating' \in BOOLEAN,
             UNCHANGED mixed
      PROVE  Flags'
  <2>1. calm' \in BOOLEAN
    BY <1>8, Zenon DEF Act
  <2> QED
    BY <1>1, <1>8, <2>1 DEF Flags
<1>9. ASSUME NEW r \in Redrawer, Redraw(r) \/ Move(r) PROVE Flags'
  BY <1>1, <1>8, <1>9 DEF Redraw, Move, Flags, disk, screen, scene
<1>10. CASE Zoom \/ Resize \/ ChangeParameters \/ DamageFile
  BY <1>1, <1>8, <1>10 DEF Zoom, Resize, ChangeParameters, DamageFile, Flags, disk, screen, scene
<1> QED
  BY <1>3, <1>5, <1>6, <1>7, <1>9, <1>10 DEF Next, System, UiStep

LEMMA MemoryTyped ==
  ASSUME TypeOK, [Next]_vars
  PROVE  Memory!TypeOK'
<1>1. (Memory!TypeOK <=> Cache!TypeOK)'
  BY MemoryIsCache, PTL
<1>2. Cache!TypeOK
  BY MemoryIsCache DEF TypeOK
<1>3. [Cache!Next]_(Cache!vars)
  BY IsClient
<1>4. Cache!TypeOK'
  BY <1>2, <1>3, Cache!TypeStep, BoundsAssumption, NoImageAssumption
<1> QED
  BY <1>1, <1>4

(* What the threads that redraw do leaves the rest of the types alone.        *)
LEMMA WorkerTyped == ASSUME TypeOK, Memory!TypeOK', Flags', WorkerStep PROVE TypeOK'
<1> USE DEF WorkerAt, WorkerGoes, WorkerRests, UsesBitmapGet
<1> DEFINE Resting == [at : {"idle", "poll"}, job : {NoJob}]
           Working == [at : {"polled", "not in memory", "execute", "draw", "store", "save"},
           job : Job]
<1>1. worker \in Resting \cup Working
  BY DEF TypeOK
<1>2. ASSUME UNCHANGED <<disk, queue, screen, redraw, failed, acts, crashed>>,
             worker' \in Resting \cup Working
      PROVE  TypeOK'
  BY <1>2 DEF TypeOK, disk, screen, scene, acts, Between, AtTile, Memory!Bitmap, Memory!NoBitmap
<1>3. CASE HasWork
  BY <1>1, <1>2, <1>3 DEF HasWork
<1>4. CASE Poll
  <2>1. PICK job \in queue : queue' = queue \ {job} /\ worker' = [at |-> "polled", job |-> job]
    BY <1>4 DEF Poll
  <2>2. worker' \in Working /\ queue' \subseteq Job
    BY <2>1 DEF TypeOK
  <2> QED
    BY <1>4, <2>2 DEF Poll, TypeOK, disk, screen, scene, acts, Between, AtTile, Memory!Bitmap,
       Memory!NoBitmap
<1>5. CASE PollNull
  BY <1>1, <1>5 DEF PollNull, Crash, TypeOK, disk, screen, scene, acts, Between, AtTile,
     Memory!Bitmap,
     Memory!NoBitmap
<1>6. CASE CheckMemory
  <2>1. worker \in Working
    BY <1>1, <1>6 DEF CheckMemory
  <2>2. worker' \in Resting \cup Working
    <3>1. CASE WorkerRests
      BY <3>1
    <3>2. CASE WorkerGoes("not in memory")
      BY <2>1, <3>2
    <3> QED
      BY <1>6, <3>1, <3>2 DEF CheckMemory
  <2> QED
    BY <1>2, <1>6, <2>2 DEF CheckMemory
<1>7. CASE CheckFiles
  <2>1. worker \in Working
    BY <1>1, <1>7 DEF CheckFiles
  <2>2. worker' \in Resting \cup Working
    <3>1. CASE WorkerRests
      BY <3>1
    <3>2. CASE WorkerGoes("execute")
      BY <2>1, <3>2
    <3> QED
      BY <1>7, <3>1, <3>2 DEF CheckFiles
  <2> QED
    BY <1>2, <1>7, <2>2 DEF CheckFiles
<1>8. CASE Execute
  BY <1>1, <1>2, <1>8 DEF Execute
<1>9. CASE ExecuteFails
  <2>1. failed' \subseteq Job
    BY <1>1, <1>9 DEF ExecuteFails, TypeOK
  <2> QED
    BY <1>9, <2>1 DEF ExecuteFails, TypeOK, disk, screen, scene, acts, Between, AtTile,
       Memory!Bitmap,
       Memory!NoBitmap
<1>10. CASE WorkerDraws
  <2>1. worker \in Working /\ TileOf(worker.job) \in Tile
    BY <1>1, <1>10 DEF WorkerDraws, Job, TileOf
  <2>2. /\ frame' \in [Tile -> Job \cup {NoImage}]
        /\ crashed' \in {"no", "null job", "null bitmap", "null file", "recycled"}
    BY <1>10, <2>1, DrawTyped DEF WorkerDraws
  <2>3. worker' \in Working
    BY <1>10, <2>1 DEF WorkerDraws
  <2> QED
    BY <1>10, <2>2, <2>3 DEF WorkerDraws, TypeOK, disk, scene, acts, Between, AtTile, Memory!Bitmap,
       Memory!NoBitmap
<1>11. CASE WorkerStores
  BY <1>1, <1>2, <1>11 DEF WorkerStores
<1>12. CASE WorkerSaves
  <2>1. worker.job \in Job
    BY <1>1, <1>12 DEF WorkerSaves
  <2>2. files' \subseteq Job /\ damaged' \subseteq files'
    BY <1>12, <2>1 DEF WorkerSaves, FilePut, TypeOK
  <2> QED
    BY <1>12, <2>2 DEF WorkerSaves, TypeOK, screen, scene, acts, Between, AtTile, Memory!Bitmap,
       Memory!NoBitmap
<1> QED
  BY <1>3, <1>4, <1>5, <1>6, <1>7, <1>8, <1>9, <1>10, <1>11, <1>12 DEF WorkerStep

(* The step of a redraw takes it from one place to another.                   *)
LEMMA RedrawChanges ==
  ASSUME TypeOK, NEW r \in Redrawer, redraw' = [redraw EXCEPT ![r] = redraw'[r]],
         redraw'[r] \in Between \cup AtTile
  PROVE  redraw' \in [Redrawer -> Between \cup AtTile]
BY DEF TypeOK

LEMMA RedrawTypes ==
  ASSUME TypeOK, Memory!TypeOK', NEW r \in Redrawer, RedrawStep(r)
  PROVE  redraw' \in [Redrawer -> Between \cup AtTile]
<1> USE RedrawTyped, RedrawChanges DEF At, Goes, TileDone, Idle, Between, AtTile
<1>1. CASE NextTile(r)
  <2>1. PICK tile \in redraw[r].todo :
          redraw' = [redraw EXCEPT ![r] =
                       [at |-> IF <<tile, param>> \in Memory!Keys THEN "in memory"
                               ELSE "not in memory",
                        todo |-> redraw[r].todo \ {tile}, job |-> <<tile, param>>,
                        bitmap |-> Memory!NoBitmap]]
    BY <1>1 DEF NextTile
  <2>2. <<tile, param>> \in Job
    BY <2>1 DEF Job, TypeOK
  <2> QED
    BY <2>1, <2>2 DEF TypeOK
<1>2. CASE GetFromMemory(r)
  <2>1. redraw[r] \in AtTile /\ map[redraw[r].job] \in Memory!Bitmap \cup {Memory!NoBitmap}
    BY <1>2 DEF GetFromMemory, TypeOK, Memory!TypeOK
  <2> QED
    BY <1>2, <2>1 DEF GetFromMemory, TypeOK
<1>3. ASSUME TileDone(r) PROVE redraw' \in [Redrawer -> Between \cup AtTile]
  BY <1>3 DEF TypeOK
<1>4. ASSUME NEW step \in {"in file", "draw file", "store", "missing"}, Goes(r, step),
             redraw[r] \in AtTile
      PROVE  redraw' \in [Redrawer -> Between \cup AtTile]
  <2>1. redraw'[r] = [redraw[r] EXCEPT !.at = step]
    BY <1>4 DEF TypeOK
  <2>2. redraw'[r] \in AtTile
    BY ONLY <1>4, <2>1
  <2> QED
    BY <1>4, <2>1, <2>2
<1>5. ASSUME UNCHANGED redraw PROVE redraw' \in [Redrawer -> Between \cup AtTile]
  BY <1>5 DEF TypeOK
<1>6. CASE DrawFromMemory(r) \/ DrawNull(r) \/ StoreInMemory(r) \/ AddJob(r)
  BY <1>3, <1>5, <1>6 DEF DrawFromMemory, DrawNull, Crash, StoreInMemory, AddJob
<1>7. CASE FindFile(r)
  BY <1>4, <1>7 DEF FindFile
<1>8. CASE ReadFile(r)
  BY <1>4, <1>8 DEF ReadFile
<1>9. CASE ReadFails(r)
  BY <1>4, <1>9 DEF ReadFails
<1>10. CASE DrawFromFile(r)
  BY <1>4, <1>10 DEF DrawFromFile
<1>11. CASE ReadNull(r)
  BY <1>5, <1>11 DEF ReadNull, Crash
<1>12. CASE EndRedraw(r)
  BY <1>12 DEF EndRedraw, TypeOK
<1> QED
  BY <1>1, <1>2, <1>6, <1>7, <1>8, <1>9, <1>10, <1>11, <1>12 DEF RedrawStep
LEMMA RedrawLeavesTyped ==
  ASSUME TypeOK, NEW r \in Redrawer, RedrawStep(r)
  PROVE  /\ files' \subseteq Job /\ damaged' \subseteq files'
         /\ queue' \subseteq Job
         /\ frame' \in [Tile -> Job \cup {NoImage}]
         /\ crashed' \in {"no", "null job", "null bitmap", "null file", "recycled"}
         /\ failed' \subseteq Job
         /\ UNCHANGED <<view, param, worker, ops, plan>>
<1> DEFINE Typed == /\ files' \subseteq Job /\ damaged' \subseteq files'
                    /\ queue' \subseteq Job
                    /\ frame' \in [Tile -> Job \cup {NoImage}]
                    /\ crashed' \in {"no", "null job", "null bitmap", "null file", "recycled"}
                    /\ failed' \subseteq Job
         /\ UNCHANGED <<view, param, worker, ops, plan>>
<1>1. ASSUME UNCHANGED <<disk, queue, screen, worker, failed, acts, crashed>> PROVE Typed
  BY <1>1 DEF TypeOK, disk, screen, scene, acts
<1>2. ASSUME NEW exception \in {"null bitmap", "null file"}, Crash(exception) PROVE Typed
  BY <1>2 DEF Crash, TypeOK, disk, screen, scene, acts
<1>3. CASE NextTile(r) \/ GetFromMemory(r) \/ FindFile(r) \/ StoreInMemory(r) \/ EndRedraw(r)
  BY <1>1, <1>3 DEF NextTile, GetFromMemory, FindFile, StoreInMemory, EndRedraw
<1>4. CASE DrawNull(r) \/ ReadNull(r)
  BY <1>1, <1>2, <1>4 DEF DrawNull, ReadNull
<1>5. CASE DrawFromMemory(r)
  <2>1. redraw[r] \in AtTile
    BY <1>5, RedrawTyped DEF DrawFromMemory, At
  <2>2. TileOf(redraw[r].job) \in Tile /\ redraw[r].bitmap \in Memory!Bitmap
    BY <1>5, <2>1 DEF DrawFromMemory, AtTile, Job, TileOf
  <2>3. pixels[redraw[r].bitmap] \in Job \cup {NoImage}
    BY <2>2 DEF TypeOK, Memory!TypeOK
  <2>4. /\ frame' \in [Tile -> Job \cup {NoImage}]
        /\ crashed' \in {"no", "null job", "null bitmap", "null file", "recycled"}
    BY <1>5, <2>2, <2>3, DrawTyped DEF DrawFromMemory
  <2> QED
    BY <1>5, <2>4 DEF DrawFromMemory, TypeOK, disk, scene, acts, scene, acts
<1>6. CASE DrawFromFile(r)
  <2>1. redraw[r] \in AtTile
    BY <1>6, RedrawTyped DEF DrawFromFile, At
  <2>2. TileOf(redraw[r].job) \in Tile /\ bitmapGet \in Job \cup {NoImage}
    BY <2>1 DEF AtTile, Job, TileOf, TypeOK
  <2>3. /\ frame' \in [Tile -> Job \cup {NoImage}]
        /\ crashed' \in {"no", "null job", "null bitmap", "null file", "recycled"}
    BY <1>6, <2>2, DrawTyped DEF DrawFromFile
  <2> QED
    BY <1>6, <2>3 DEF DrawFromFile, TypeOK, disk, scene, acts, scene, acts
<1>7. CASE ReadFile(r) \/ ReadFails(r)
  BY <1>7 DEF ReadFile, ReadFails, TypeOK, screen, scene, acts
<1>8. CASE AddJob(r)
  <2>1. redraw[r].job \in Job
    BY <1>8, RedrawTyped DEF AddJob, At
  <2> QED
    BY <1>8, <2>1 DEF AddJob, TypeOK, disk, screen, scene, acts
<1> QED
  BY <1>3, <1>4, <1>5, <1>6, <1>7, <1>8 DEF RedrawStep

(* The shared bitmap of the file cache shows an image whenever one was read.  *)
LEMMA BitmapGetTyped ==
  TypeOK => /\ bitmapGet \in Job \cup {NoImage}
            /\ \A r \in Redrawer : redraw[r].at \in {"draw file", "store"} => bitmapGet \in Job
BY DEF TypeOK, UsesBitmapGet

LEMMA RedrawStepTyped ==
  ASSUME TypeOK, Memory!TypeOK', Flags', NEW r \in Redrawer, RedrawStep(r)
  PROVE  TypeOK'
<1> USE DEF UsesBitmapGet
<1> DEFINE Reading(q) == redraw[q].at \in {"draw file", "store"}
<1>1. redraw' \in [Redrawer -> Between \cup AtTile]
  BY RedrawTypes
<1>2. bitmapGet' \in Job \/ UNCHANGED bitmapGet
  BY BitmapGetTyped, RedrawTyped DEF RedrawStep, NextTile, GetFromMemory, DrawFromMemory, DrawNull,
     FindFile, ReadFile, ReadFails, ReadNull, DrawFromFile, StoreInMemory, AddJob, EndRedraw, Crash,
     disk, At
<1>3. \A q \in Redrawer \ {r} : UNCHANGED redraw[q]
  BY DEF RedrawStep, NextTile, GetFromMemory, DrawFromMemory, DrawNull, FindFile, ReadFile,
     ReadFails, ReadNull, DrawFromFile, StoreInMemory, AddJob, EndRedraw, Crash, Goes, TileDone,
     TypeOK
<1>4. bitmapGet' \in Job \/ ~Reading(r)'
  <2>0. DOMAIN redraw = Redrawer
    BY DEF TypeOK
  <2>1. CASE NextTile(r)
    <3>1. PICK tile \in redraw[r].todo :
            redraw' = [redraw EXCEPT ![r] =
                         [at |-> IF <<tile, param>> \in Memory!Keys THEN "in memory"
                                 ELSE "not in memory",
                          todo |-> redraw[r].todo \ {tile}, job |-> <<tile, param>>,
                          bitmap |-> Memory!NoBitmap]]
      BY <2>1 DEF NextTile
    <3>2. redraw'[r].at = IF <<tile, param>> \in Memory!Keys THEN "in memory" ELSE "not in memory"
      BY <2>0, <3>1
    <3> QED
      BY <3>2
  <2>2. CASE ReadFile(r)
    BY <2>2, RedrawTyped DEF ReadFile, At
  <2>3. CASE DrawFromFile(r) \/ StoreInMemory(r)
    BY <2>3, BitmapGetTyped DEF DrawFromFile, StoreInMemory, At, disk
  <2>4. TileDone(r) \/ Goes(r, "in file") \/ Goes(r, "missing") => ~Reading(r)'
    <3>1. TileDone(r) => redraw'[r].at = "next"
      BY <2>0 DEF TileDone, Idle
    <3>2. \A step : Goes(r, step) => redraw'[r] = [redraw[r] EXCEPT !.at = step]
      BY <2>0 DEF Goes
    <3>3. \A step : Goes(r, step) => redraw'[r].at = step
      BY <3>2, RedrawDomain
    <3> QED
      BY <3>1, <3>3
  <2>5. CASE GetFromMemory(r)
    <3>1. redraw'[r] = [redraw[r] EXCEPT !.at = "draw", !.bitmap = map[redraw[r].job]]
      BY <2>0, <2>5 DEF GetFromMemory
    <3>2. redraw'[r].at = "draw"
      BY <3>1, RedrawDomain
    <3> QED
      BY <3>2
  <2>8. CASE EndRedraw(r)
    BY <2>0, <2>8 DEF EndRedraw, Idle
  <2>6. CASE FindFile(r) \/ ReadFails(r) \/ DrawFromMemory(r) \/ AddJob(r)
    BY <2>4, <2>6 DEF FindFile, ReadFails, DrawFromMemory, AddJob
  <2>7. CASE DrawNull(r) \/ ReadNull(r)
    BY <2>4, <2>7 DEF DrawNull, ReadNull, Crash, At
  <2> QED
    BY <2>1, <2>2, <2>3, <2>5, <2>6, <2>7, <2>8 DEF RedrawStep
<1>5. (bitmapGet \in IF \E q \in Redrawer : Reading(q) THEN Job ELSE Job \cup {NoImage})'
  <2>1. bitmapGet' \in Job \cup {NoImage}
    BY <1>2, BitmapGetTyped
  <2>2. ASSUME NEW q \in Redrawer, Reading(q)' PROVE bitmapGet' \in Job
    BY <1>2, <1>3, <1>4, <2>2, BitmapGetTyped
  <2> QED
    BY <2>1, <2>2
<1> QED
  BY <1>1, <1>5, RedrawLeavesTyped
  DEF TypeOK, Between, AtTile, Memory!Bitmap, Memory!NoBitmap

(* The user, and the storage.                                                 *)
LEMMA OtherTyped ==
  ASSUME TypeOK, Memory!TypeOK', Flags',
         \/ UiStep \/ Zoom \/ Resize \/ ChangeParameters \/ DamageFile
         \/ \E r \in Redrawer : Redraw(r) \/ Move(r) \/ EndAnimation(r)
  PROVE  TypeOK'
<1> USE DEF UsesBitmapGet
<1> DEFINE Reading(q) == redraw[q].at \in {"draw file", "store"}
           RedrawsTyped == /\ redraw \in [Redrawer -> Between \cup AtTile]
                           /\ bitmapGet \in IF \E q \in Redrawer : Reading(q)
                                            THEN Job ELSE Job \cup {NoImage}
<1>1. RedrawsTyped
  BY DEF TypeOK
<1>2. ASSUME NEW r \in Redrawer, redraw'[r] \in Between, UNCHANGED bitmapGet,
             redraw' = [redraw EXCEPT ![r] = redraw'[r]]
      PROVE  RedrawsTyped'
  <2>1. ~Reading(r)'
    BY <1>2 DEF Between
  <2>2. \A q \in Redrawer \ {r} : UNCHANGED redraw[q]
    BY <1>1, <1>2
  <2> QED
    BY <1>1, <1>2, <2>1, <2>2 DEF Between, AtTile
<1>3. Blank \in [Tile -> Job \cup {NoImage}]
  BY DEF Blank
<1>4. ASSUME NEW r \in Redrawer, redraw[r] \in Between, redraw[r].at # "next",
             NEW visible \in SUBSET Tile, RedrawTiles(r, visible), UNCHANGED bitmapGet
      PROVE  RedrawsTyped'
  <2>1. PICK todo \in SUBSET Tile : redraw'[r] = [redraw[r] EXCEPT !.at = "next", !.todo = todo]
    BY <1>4, RedrawDomain DEF RedrawTiles
  <2>2. redraw'[r] \in Between
    BY ONLY <1>4, <2>1 DEF Between
  <2> QED
    BY <1>2, <1>4, <2>1, <2>2 DEF RedrawTiles
<1>5. ASSUME NEW r \in Redrawer, redraw[r] \in Between, redraw[r].at # "next",
             NEW step \in {"idle", "clear queue", "clear frame", "resize", "animate"}, Goes(r, step),
             UNCHANGED bitmapGet
      PROVE  RedrawsTyped'
  <2>1. redraw'[r] = [redraw[r] EXCEPT !.at = step]
    BY <1>5, RedrawDomain DEF Goes
  <2>2. redraw'[r] \in Between
    BY ONLY <1>5, <2>1 DEF Between
  <2> QED
    BY <1>2, <1>5, <2>1, <2>2 DEF Goes
<1>6. \A r \in Redrawer : \A step \in {"idle", "clear queue", "clear frame", "resize", "animate"} :
        At(r, step) => redraw[r] \in Between /\ redraw[r].at # "next"
  BY RedrawTyped DEF At, AtTile
<1>7. Ui \in Redrawer /\ view \in SUBSET Tile
  BY ViewsAssumption DEF TypeOK
<1>8. ASSUME NEW op, Act(op) PROVE ops' \in 0 .. MaxOps /\ plan' \in Plans /\ failed' = {}
  <2>1. ops \in 0 .. MaxOps /\ plan \in Plans /\ MaxOps \in Nat
    BY BoundsAssumption DEF TypeOK
  <2> QED
    BY <1>8, <2>1 DEF Act
<1>9. CASE ClearQueue
  <2>1. RedrawsTyped'
    BY <1>5, <1>6, <1>7, <1>9 DEF ClearQueue, disk
  <2> QED
    BY <1>9, <2>1 DEF ClearQueue, TypeOK, disk, screen, scene, acts
<1>10. CASE ClearFrame
  <2>1. CASE recycled
    <3>1. Crash("recycled")
      BY <1>10, <2>1 DEF ClearFrame
    <3> QED
      BY <3>1 DEF Crash, TypeOK, disk, screen, scene, acts, Between, AtTile, Memory!Bitmap,
         Memory!NoBitmap
  <2>2. CASE ~recycled
    <3>1. /\ frame' = Blank /\ RedrawTiles(Ui, view)
          /\ UNCHANGED <<memory, disk, queue, scene, recycled, worker, failed, acts, crashed>>
      BY <1>10, <2>2 DEF ClearFrame
    <3>2. RedrawsTyped'
      BY <1>4, <1>6, <1>7, <1>10, <3>1 DEF ClearFrame, disk
    <3> QED
      BY <1>3, <3>1, <3>2 DEF TypeOK, disk, scene, acts
  <2> QED
    BY <2>1, <2>2
<1>11. CASE Resize
  <2>1. RedrawsTyped'
    BY <1>5, <1>6, <1>7, <1>11 DEF Resize, disk
  <2>2. ops' \in 0 .. MaxOps /\ plan' \in Plans /\ failed' = {}
    BY <1>8, <1>11 DEF Resize
  <2> QED
    BY <1>3, <1>11, <2>1, <2>2 DEF Resize, TypeOK, disk
<1>16. CASE NewFrame
  <2>1. /\ frame' = Blank \/ frame' = frame
        /\ RedrawTiles(Ui, view) \/ Goes(Ui, "idle")
        /\ UNCHANGED <<memory, disk, queue, scene, worker, failed, acts, crashed>>
    BY <1>16 DEF NewFrame
  <2>2. RedrawsTyped'
    BY <1>4, <1>5, <1>6, <1>7, <1>16, <2>1 DEF NewFrame, disk
  <2> QED
    BY <1>3, <2>1, <2>2 DEF TypeOK, disk, scene, acts
<1>17. CASE Zoom
  <2>1. RedrawsTyped'
    BY <1>5, <1>6, <1>7, <1>17 DEF Zoom, disk
  <2>2. ops' \in 0 .. MaxOps /\ plan' \in Plans /\ failed' = {}
    BY <1>8, <1>17 DEF Zoom
  <2> QED
    BY <1>3, <1>17, <2>1, <2>2 DEF Zoom, TypeOK, disk
<1>19. CASE StartAnimation
  <2>1. RedrawsTyped'
    BY <1>5, <1>6, <1>7, <1>19 DEF StartAnimation, disk
  <2> QED
    BY <1>3, <1>19, <2>1 DEF StartAnimation, TypeOK, disk, acts
<1>18. ASSUME NEW r \in Redrawer, EndAnimation(r) PROVE TypeOK'
  <2>1. RedrawsTyped'
    BY <1>4, <1>6, <1>7, <1>18 DEF EndAnimation, disk
  <2> QED
    BY <1>18, <2>1 DEF EndAnimation, TypeOK, disk, acts
<1>12. CASE ChangeParameters
  <2>1. RedrawsTyped'
    BY <1>5, <1>6, <1>7, <1>12 DEF ChangeParameters, disk
  <2>2. ops' \in 0 .. MaxOps /\ plan' \in Plans /\ failed' = {}
    BY <1>8, <1>12 DEF ChangeParameters
  <2> QED
    BY <1>12, <2>1, <2>2 DEF ChangeParameters, TypeOK, disk, scene, acts, scene, acts
<1>13. CASE DamageFile
  <2>1. RedrawsTyped'
    BY <1>1, <1>13 DEF DamageFile, Between, AtTile, Memory!Bitmap, Memory!NoBitmap
  <2>2. ops' \in 0 .. MaxOps /\ plan' \in Plans /\ failed' = {}
    BY <1>8, <1>13 DEF DamageFile
  <2> QED
    BY <1>13, <2>1, <2>2 DEF DamageFile, TypeOK, screen, scene, acts
<1>14. ASSUME NEW r \in Redrawer, Redraw(r) PROVE TypeOK'
  <2>1. RedrawsTyped'
    BY <1>4, <1>6, <1>7, <1>14 DEF Redraw, disk
  <2>2. ops' \in 0 .. MaxOps /\ plan' \in Plans /\ failed' = {}
    BY <1>8, <1>14 DEF Redraw
  <2> QED
    BY <1>14, <2>1, <2>2 DEF Redraw, TypeOK, disk, screen, scene, acts
<1>15. ASSUME NEW r \in Redrawer, Move(r) PROVE TypeOK'
  <2>1. PICK visible \in Views :
          /\ view' = visible
          /\ frame' = [t \in Tile |-> IF t \in view \cap visible THEN frame[t] ELSE NoImage]
          /\ RedrawTiles(r, visible)
    BY <1>15 DEF Move
  <2>2. visible \in SUBSET Tile
    BY ViewsAssumption
  <2>3. RedrawsTyped'
    BY <1>4, <1>6, <1>15, <2>1, <2>2 DEF Move, disk
  <2>4. ops' \in 0 .. MaxOps /\ plan' \in Plans /\ failed' = {}
    BY <1>8, <1>15 DEF Move
  <2>5. frame' \in [Tile -> Job \cup {NoImage}]
    BY <2>1 DEF TypeOK
  <2> QED
    BY <1>15, <2>1, <2>3, <2>4, <2>5 DEF Move, TypeOK, disk, scene, acts, scene, acts
<1> QED
  BY <1>9, <1>10, <1>11, <1>12, <1>13, <1>14, <1>15, <1>16, <1>17, <1>18, <1>19 DEF UiStep

LEMMA Typed == ASSUME TypeOK, [Next]_vars PROVE TypeOK'
<1>1. Memory!TypeOK'
  BY MemoryTyped
<1>2. CASE UNCHANGED vars
  BY <1>2, FlagsTyped DEF TypeOK, UsesBitmapGet, vars, memory, disk, screen, scene, acts,
     Memory!TypeOK, Memory!Bitmap, Memory!NoBitmap,
     Between, AtTile
<1> QED
  BY <1>1, <1>2, FlagsTyped, WorkerTyped, RedrawStepTyped, OtherTyped DEF Next, System

LEMMA MemoryInit == Memory!Init <=> Cache!Init
BY DEF Memory!Init, Cache!Init, Memory!Bitmap, Cache!Bitmap, Memory!NoBitmap, Cache!NoBitmap

LEMMA InitTyped == ASSUME Init PROVE TypeOK
<1>1. Memory!TypeOK
  <2>1. Capacity \in Nat
    BY BoundsAssumption
  <2>2. Memory!Init
    BY DEF Init
  <2>3. bitmapPool \in Seq(Memory!Bitmap)
    BY <2>1, <2>2 DEF Memory!Init, Memory!Bitmap
  <2> QED
    BY <2>1, <2>2, <2>3 DEF Memory!Init, Memory!TypeOK, Memory!Bitmap, Memory!NoBitmap, Memory!Keys
<1>2. Idle \in Between
  BY DEF Idle, Between
<1>3. [Idle EXCEPT !.at = "next", !.todo = view] \in Between
  BY ViewsAssumption DEF Init, Idle, Between
<1>4. redraw \in [Redrawer -> Between \cup AtTile]
  BY <1>2, <1>3 DEF Init
<1>5. \A r \in Redrawer : redraw[r].at \notin {"draw file", "store"}
  BY DEF Init, Idle
<1>6. frame \in [Tile -> Job \cup {NoImage}]
  BY DEF Init, Blank
<1>7. worker \in [at : {"idle", "poll"}, job : {NoJob}]
  BY DEF Init
<1>8. ops \in 0 .. MaxOps /\ plan \in Plans
  BY BoundsAssumption DEF Init
<1>9. bitmapGet \in IF \E r \in Redrawer : UsesBitmapGet(r) THEN Job ELSE Job \cup {NoImage}
  BY <1>5 DEF Init, UsesBitmapGet
<1>10. Flags
  BY DEF Init, Flags
<1>11. /\ files \subseteq Job /\ damaged \subseteq files /\ queue \subseteq Job /\ failed \subseteq Job
       /\ view \in Views /\ param \in Param /\ crashed = "no"
  BY DEF Init
<1> QED
  BY <1>1, <1>4, <1>6, <1>7, <1>8, <1>9, <1>10, <1>11 DEF TypeOK

(* Every value is one that the code handles: the jobs in the queue, the files *)
(* and the caches are jobs, and a thread is at the tile of a job wherever the *)
(* code uses that job.                                                        *)
THEOREM TypeCorrect == Spec => []TypeOK
BY InitTyped, Typed, PTL DEF Spec
-----------------------------------------------------------------------------
(* The cache in the pipeline is a cache of InMemoryTileCache.tla: the threads *)
(* of the application are clients of the kind it is proved correct for, and   *)
(* nobody destroys it.                                                        *)
THEOREM UsesCache == Spec => Cache!Spec
<1>1. Init => Cache!Init
  BY MemoryInit DEF Init
<1>2. TypeOK /\ [Next]_vars => [Cache!Next]_(Cache!vars)
  BY IsClient
<1> QED
  BY <1>1, <1>2, TypeCorrect, PTL DEF Spec, Cache!Spec

(* What InMemoryTileCache_proofs shows of a step of the cache, carried over.  *)
LEMMA UnsharedStep == ASSUME TypeOK, BitmapsStayUnshared, [Next]_vars PROVE BitmapsStayUnshared'
<1>1. Cache!TypeOK /\ Cache!BitmapsUnshared /\ Cache!OrderIsTotal
  BY MemoryIsCache DEF TypeOK, BitmapsStayUnshared
<1>2. [Cache!Next]_(Cache!vars)
  BY IsClient
<1>3. Cache!BitmapsUnshared'
  BY <1>1, <1>2, Cache!UnsharedStep, BoundsAssumption, NoImageAssumption
<1>4. Cache!OrderIsTotal'
  BY <1>1, <1>2, Cache!OrderStep, BoundsAssumption, NoImageAssumption
<1>5. (Memory!BitmapsUnshared <=> Cache!BitmapsUnshared)'
      /\ (Memory!OrderIsTotal <=> Cache!OrderIsTotal)'
  BY MemoryIsCache, PTL
<1> QED
  BY <1>3, <1>4, <1>5 DEF BitmapsStayUnshared

(* So no two tiles share a bitmap and the access order stays an order, however *)
(* the worker and the threads that redraw take turns.                         *)
THEOREM UnsharedCorrect == Spec => []BitmapsStayUnshared
<1>1. Init => BitmapsStayUnshared
  <2>1. ASSUME Init PROVE /\ bitmapPool = [b \in Memory!Bitmap |-> b]
                          /\ older = {} /\ Memory!Keys = {}
    BY <2>1 DEF Init, Memory!Init, Memory!Keys
  <2> QED
    BY <2>1 DEF BitmapsStayUnshared, Memory!BitmapsUnshared, Memory!OrderIsTotal, Memory!Mapped,
       Memory!Pooled
<1> QED
  BY <1>1, UnsharedStep, TypeCorrect, PTL DEF Spec

-----------------------------------------------------------------------------
(* A file appears only when the worker saves one, so that what CheckFiles saw *)
(* is still true when the worker executes, draws and stores the job.          *)
THEOREM RendersOnlyMissingCorrect == Spec => []RendersOnlyMissingTiles
<1>1. Init => RendersOnlyMissingTiles
  BY DEF Init, RendersOnlyMissingTiles
<1>2. ASSUME TypeOK, RendersOnlyMissingTiles, [Next]_vars PROVE RendersOnlyMissingTiles'
  <2>1. CASE UNCHANGED <<worker, files>>
    BY <1>2, <2>1 DEF RendersOnlyMissingTiles
  <2>2. CASE WorkerStep
    <3> USE DEF WorkerAt, WorkerRests, RendersOnlyMissingTiles
    <3>1. DOMAIN worker = {"at", "job"}
      BY <1>2 DEF TypeOK
    <3>2. \A step : WorkerGoes(step) => worker'.at = step /\ worker'.job = worker.job
      BY <3>1 DEF WorkerGoes
    <3>3. CASE HasWork
      BY <3>2, <3>3 DEF HasWork
    <3>4. CASE Poll
      BY <3>4 DEF Poll
    <3>5. CASE PollNull
      BY <2>1, <3>5 DEF PollNull, Crash, disk
    <3>6. ASSUME worker'.at \notin {"execute", "draw", "store", "save"}
          PROVE  RendersOnlyMissingTiles'
      BY <3>6
    <3>7. CASE CheckMemory
      <4>1. CASE WorkerRests
        BY <3>6, <4>1
      <4>2. CASE WorkerGoes("not in memory")
        <5>1. worker'.at = "not in memory"
          BY <3>2, <4>2
        <5> QED
          BY <5>1
      <4> QED
        BY <3>7, <4>1, <4>2 DEF CheckMemory
    <3>8. CASE CheckFiles
      <4>1. CASE WorkerRests
        BY <3>6, <4>1
      <4>2. CASE worker.job \notin files /\ WorkerGoes("execute")
        BY <3>2, <3>8, <4>2 DEF CheckFiles, disk
      <4> QED
        BY <3>8, <4>1, <4>2 DEF CheckFiles
    <3>9. CASE ExecuteFails \/ WorkerSaves
      BY <3>6, <3>9 DEF ExecuteFails, WorkerSaves
    <3>10. CASE Execute \/ WorkerDraws \/ WorkerStores
      <4>1. worker.job \notin files /\ UNCHANGED files
        BY <1>2, <3>10 DEF Execute, WorkerDraws, WorkerStores, disk
      <4>2. worker'.job = worker.job
        BY <3>2, <3>10 DEF Execute, WorkerDraws, WorkerStores
      <4> QED
        BY <4>1, <4>2
    <3> QED
      BY <2>2, <3>3, <3>4, <3>5, <3>7, <3>8, <3>9, <3>10 DEF WorkerStep
  <2>3. ASSUME NEW r \in Redrawer, RedrawStep(r) PROVE UNCHANGED worker /\ files' \subseteq files
    BY <2>3 DEF RedrawStep, NextTile, GetFromMemory, DrawFromMemory, DrawNull, FindFile, ReadFile,
       ReadFails, ReadNull, DrawFromFile, StoreInMemory, AddJob, EndRedraw, Crash, disk
  <2>4. ASSUME UNCHANGED worker, files' \subseteq files PROVE RendersOnlyMissingTiles'
    BY <1>2, <2>4 DEF RendersOnlyMissingTiles
  <2>5. CASE UiStep \/ Zoom \/ Resize \/ ChangeParameters \/ DamageFile
             \/ \E r \in Redrawer : Redraw(r) \/ Move(r) \/ EndAnimation(r)
    BY <2>1, <2>5 DEF UiStep, ClearQueue, ClearFrame, NewFrame, StartAnimation, Crash, Zoom, Resize,
       ChangeParameters, DamageFile, Redraw, Move, EndAnimation, disk
  <2> QED
    BY <1>2, <2>1, <2>2, <2>3, <2>4, <2>5 DEF Next, System, vars, disk
<1> QED
  BY <1>1, <1>2, TypeCorrect, PTL DEF Spec
-----------------------------------------------------------------------------
(* What the cache holds. Until one thread overwrites the shared bitmap of the *)
(* file cache while another one uses it, it shows the image of the tile that  *)
(* each of its users is at.                                                   *)
ReadsItsTile == ~mixed => \A r \in Redrawer : UsesBitmapGet(r) => bitmapGet = redraw[r].job

LEMMA ReadsItsTileStep ==
  ASSUME TypeOK, ReadsItsTile, [Next]_vars
  PROVE  ReadsItsTile' /\ (~mixed' => ~mixed)
<1>1. CASE \E r \in Redrawer : ReadFile(r)
  <2>1. PICK r \in Redrawer : ReadFile(r)
    BY <1>1
  <2>2. ~mixed' =>
          ~mixed /\ \A q \in Redrawer \ {r} : UsesBitmapGet(q) => redraw[q].job = redraw[r].job
    BY <2>1, Zenon DEF ReadFile
  <2>3. bitmapGet' = redraw[r].job /\ Goes(r, "draw file")
    BY <2>1 DEF ReadFile
  <2>4. redraw'[r].job = redraw[r].job /\ \A q \in Redrawer \ {r} : redraw'[q] = redraw[q]
    BY <2>3, RedrawDomain DEF Goes
  <2>5. ASSUME NEW q \in Redrawer, UsesBitmapGet(q)', ~mixed' PROVE bitmapGet' = redraw'[q].job
    <3>1. CASE q = r
      BY <2>3, <2>4, <3>1
    <3>2. CASE q # r
      BY <2>2, <2>3, <2>4, <2>5, <3>2 DEF UsesBitmapGet
    <3> QED
      BY <3>1, <3>2
  <2> QED
    BY <2>2, <2>5 DEF ReadsItsTile
<1>2. CASE ~ \E r \in Redrawer : ReadFile(r)
  <2>1. UNCHANGED <<bitmapGet, mixed>>
    BY <1>2 DEF Next, System, WorkerStep, HasWork, Poll, PollNull, CheckMemory, CheckFiles, Execute,
       ExecuteFails, WorkerDraws, WorkerStores, WorkerSaves, RedrawStep, NextTile, GetFromMemory,
       DrawFromMemory, DrawNull, FindFile, ReadFails, ReadNull, DrawFromFile, StoreInMemory, AddJob,
       EndRedraw, UiStep, ClearQueue, ClearFrame, NewFrame, StartAnimation, Redraw, Move, Zoom, EndAnimation,
       Resize,
       ChangeParameters, DamageFile, Crash, vars, disk
  <2>2. ASSUME NEW q \in Redrawer, UsesBitmapGet(q)'
        PROVE  UsesBitmapGet(q) /\ redraw'[q].job = redraw[q].job
    <3>1. ASSUME redraw'[q].at \notin {"draw file", "store"} PROVE FALSE
      BY <2>2, <3>1 DEF UsesBitmapGet
    <3>2. ASSUME NEW step, step \notin {"draw file", "store"}, Goes(q, step) PROVE FALSE
      <4>1. redraw'[q].at = step
        BY <3>2, RedrawMoves
      <4> QED
        BY <3>1, <3>2, <4>1
    <3>3. ASSUME TileDone(q) PROVE FALSE
      <4>1. redraw'[q].at = "next"
        BY <3>3, RedrawMoves
      <4> QED
        BY <3>1, <4>1
    <3>4. ASSUME NEW visible, RedrawTiles(q, visible) PROVE FALSE
      <4>1. redraw'[q].at = "next"
        BY <3>4, RedrawMoves
      <4> QED
        BY <3>1, <4>1
    <3>5. CASE NextTile(q)
      <4>1. redraw'[q].at \in {"in memory", "not in memory"}
        BY <3>5, RedrawMoves
      <4> QED
        BY <3>1, <4>1
    <3>6. CASE GetFromMemory(q) \/ EndRedraw(q)
      <4>1. redraw'[q].at = "draw" \/ redraw'[q].at = "idle"
        BY <3>6, RedrawMoves
      <4> QED
        BY <3>1, <4>1
    <3>7. CASE UNCHANGED redraw[q]
      BY <2>2, <3>7 DEF UsesBitmapGet
    <3>8. CASE DrawFromMemory(q) \/ DrawNull(q) \/ ReadNull(q) \/ StoreInMemory(q) \/ AddJob(q)
      BY <3>3, <3>7, <3>8 DEF DrawFromMemory, DrawNull, ReadNull, StoreInMemory, AddJob, Crash
    <3>9. CASE FindFile(q) \/ ReadFails(q)
      <4>1. Goes(q, "in file") \/ Goes(q, "missing")
        BY <3>9 DEF FindFile, ReadFails
      <4> QED
        BY <3>2, <4>1
    <3>10. CASE DrawFromFile(q)
      <4>1. UsesBitmapGet(q) /\ Goes(q, "store")
        BY <3>10 DEF DrawFromFile, UsesBitmapGet, At
      <4> QED
        BY <4>1, RedrawMoves
    <3>11. CASE q = Ui /\ (UiStep \/ Zoom \/ Resize \/ ChangeParameters)
      <4>1. \/ UNCHANGED redraw \/ RedrawTiles(q, view)
            \/ \E step \in {"clear queue", "clear frame", "resize", "animate", "idle"} : Goes(q, step)
        BY <3>11 DEF UiStep, ClearQueue, ClearFrame, NewFrame, StartAnimation, Zoom, Resize,
           ChangeParameters, Crash
      <4> QED
        BY <3>2, <3>4, <3>7, <4>1
    <3>12. CASE Redraw(q) \/ Move(q) \/ EndAnimation(q)
      <4>1. \E visible : RedrawTiles(q, visible)
        BY <3>12 DEF Redraw, Move, EndAnimation
      <4> QED
        BY <3>4, <4>1
    <3> QED
      BY <1>2, <3>5, <3>6, <3>7, <3>8, <3>9, <3>10, <3>11, <3>12, RedrawsApart DEF RedrawStep
  <2> QED
    BY <2>1, <2>2 DEF ReadsItsTile
<1> QED
  BY <1>1, <1>2

LEMMA PutKeepsTiles ==
  ASSUME TypeOK, BitmapsStayUnshared, CacheHoldsItsTile, NEW job \in Job, Memory!Put(job, job)
  PROVE  CacheHoldsItsTile'
<1>1. Cache!TypeOK /\ Cache!BitmapsUnshared /\ Memory!Keys = Cache!Keys
  BY MemoryIsCache DEF TypeOK, BitmapsStayUnshared
<1>2. Cache!Put(job, job)
  BY PutIsPut
<1>3. \A j \in Cache!Keys' : \/ j = job /\ pixels'[map'[j]] = job
                             \/ j \in Cache!Keys /\ pixels'[map'[j]] = pixels[map[j]]
  BY <1>1, <1>2, Cache!PutKeepsImages, BoundsAssumption, NoImageAssumption
<1>4. (Memory!Keys = Cache!Keys)'
  BY MemoryIsCache, PTL
<1> QED
  BY <1>1, <1>3, <1>4 DEF CacheHoldsItsTile

(* Whichever threads redraw and whatever they interleave, a cached image is   *)
(* the image of its job as long as none of them gets an image from a file     *)
(* while another one still uses the shared bitmap: the file cache's bitmap is *)
(* the only way to mix tiles. It takes that no two entries share a bitmap     *)
(* (BitmapsStayUnshared): otherwise the put of one job would paint over the   *)
(* image of another.                                                          *)
THEOREM OnlySharingMixesCorrect == Spec => []OnlySharingMixesTiles
<1>1. Init => ReadsItsTile /\ OnlySharingMixesTiles
  <2>1. ASSUME Init PROVE Memory!Keys = {} /\ \A r \in Redrawer : redraw[r].at \in {"idle", "next"}
    BY <2>1 DEF Init, Memory!Init, Memory!Keys, Idle
  <2> QED
    BY <2>1 DEF ReadsItsTile, UsesBitmapGet, OnlySharingMixesTiles, CacheHoldsItsTile
<1>2. ASSUME TypeOK, BitmapsStayUnshared, ReadsItsTile, OnlySharingMixesTiles, [Next]_vars
      PROVE  OnlySharingMixesTiles'
  <2> SUFFICES ASSUME ~mixed' PROVE CacheHoldsItsTile'
    BY DEF OnlySharingMixesTiles
  <2>0. ~mixed /\ CacheHoldsItsTile
    BY <1>2, ReadsItsTileStep DEF OnlySharingMixesTiles
  <2>1. CASE UNCHANGED <<map, pixels>>
    BY <2>0, <2>1 DEF CacheHoldsItsTile, Memory!Keys
  <2>2. CASE WorkerStores
    <3>1. worker.job \in Job /\ Memory!Put(worker.job, worker.job)
      BY <1>2, <2>2 DEF WorkerStores, WorkerAt, TypeOK
    <3> QED
      BY <1>2, <2>0, <3>1, PutKeepsTiles
  <2>3. ASSUME NEW r \in Redrawer, StoreInMemory(r) PROVE CacheHoldsItsTile'
    <3>1. redraw[r].job \in Job /\ Memory!Put(redraw[r].job, redraw[r].job)
      BY <1>2, <2>0, <2>3, RedrawTyped DEF StoreInMemory, At, UsesBitmapGet, ReadsItsTile
    <3> QED
      BY <1>2, <2>0, <3>1, PutKeepsTiles
  <2>4. ASSUME NEW r \in Redrawer, GetFromMemory(r) PROVE UNCHANGED <<map, pixels>>
    BY <2>4 DEF GetFromMemory, Memory!Get, memory
  <2>5. CASE WorkerStep
    BY <2>1, <2>2, <2>5 DEF WorkerStep, HasWork, Poll, PollNull, CheckMemory, CheckFiles, Execute,
       ExecuteFails, WorkerDraws, WorkerSaves, Crash, memory
  <2>6. ASSUME NEW r \in Redrawer, RedrawStep(r) PROVE CacheHoldsItsTile'
    BY <2>1, <2>3, <2>4, <2>6 DEF RedrawStep, NextTile, DrawFromMemory, DrawNull, FindFile,
       ReadFile, ReadFails, ReadNull, DrawFromFile, AddJob, EndRedraw, Crash, memory
  <2>7. CASE UiStep \/ Zoom \/ Resize \/ ChangeParameters \/ DamageFile \/ UNCHANGED vars
             \/ \E r \in Redrawer : Redraw(r) \/ Move(r) \/ EndAnimation(r)
    BY <2>1, <2>7 DEF UiStep, ClearQueue, ClearFrame, NewFrame, StartAnimation, Crash, Zoom, Resize,
       ChangeParameters, DamageFile, Redraw, Move, EndAnimation, vars, memory
  <2> QED
    BY <1>2, <2>5, <2>6, <2>7 DEF Next, System
<1>3. TypeOK /\ ReadsItsTile /\ [Next]_vars => ReadsItsTile'
  BY ReadsItsTileStep
<1> QED
  BY <1>1, <1>2, <1>3, UnsharedCorrect, TypeCorrect, PTL DEF Spec
-----------------------------------------------------------------------------
(* What the screen shows. The thread that redraws holds a cached bitmap from  *)
(* get until drawBitmap, and the worker puts meanwhile. Only the jobs that    *)
(* are queued or rendered by then can push it out of the cache: with one      *)
(* thread that redraws and nobody who moves they are jobs of visible tiles,   *)
(* and the worker's.                                                          *)
Still == /\ Redrawer = {Ui} /\ \A p \in Plans : {"move", "zoom"} \cap p = {}
         /\ \A visible \in Views : IsFiniteSet(visible) /\ Cardinality(visible) < Capacity

Current == {<<tile, param>> : tile \in view}

StaysInView ==
  /\ redraw[Ui].todo \subseteq view
  /\ redraw[Ui].at \notin {"idle", "clear queue", "clear frame", "resize", "animate", "next"}
       => redraw[Ui].job \in Current
  /\ redraw[Ui].at # "clear queue" => queue \subseteq Current

Rendered == IF worker.at \in {"idle", "poll"} THEN {} ELSE {worker.job}
Rivals(job) == (Cache!Younger(job) \cup queue \cup Rendered) \ {job}

(* The bitmap still shows its tile, and the rivals are too few to evict it.   *)
(* If its entry was replaced it is in no entry and no pool: it leaked.        *)
HeldBitmapStays ==
  redraw[Ui].at = "draw" /\ redraw[Ui].bitmap # Memory!NoBitmap =>
    /\ TileOf(pixels[redraw[Ui].bitmap]) = TileOf(redraw[Ui].job)
    /\ redraw[Ui].bitmap \notin Cache!Pooled
    /\ \A job \in Memory!Keys : map[job] = redraw[Ui].bitmap =>
         /\ job = redraw[Ui].job
         /\ IsFiniteSet(Rivals(job)) /\ Cardinality(Rivals(job)) < Capacity

LEMMA StaysInViewStep ==
  ASSUME Still, TypeOK, StaysInView, [Next]_vars
  PROVE  StaysInView'
<1>1. Ui \in Redrawer /\ ~Zoom /\ \A r \in Redrawer : r = Ui /\ ~Move(r)
  BY DEF Still, TypeOK, Move, Zoom, Act
<1>2. CASE UNCHANGED <<redraw, view, param>> /\ queue' \subseteq queue
  BY <1>2 DEF StaysInView, Current
<1>3. CASE WorkerStep \/ DamageFile \/ UNCHANGED vars
  BY <1>2, <1>3 DEF WorkerStep, HasWork, Poll, PollNull, CheckMemory, CheckFiles, Execute,
     ExecuteFails, WorkerDraws, WorkerStores, WorkerSaves, Crash, DamageFile, vars, screen, scene
<1>4. ASSUME UNCHANGED <<view, param>>, queue' \subseteq queue, redraw[Ui].at # "clear queue",
             redraw'[Ui].at = "next", redraw'[Ui].todo \subseteq view
      PROVE  StaysInView'
  BY <1>4 DEF StaysInView, Current
<1>5. ASSUME UNCHANGED <<view, param>>, queue' \subseteq queue, redraw[Ui].at # "clear queue",
             redraw'[Ui].job \in Current, redraw'[Ui].todo \subseteq view,
             redraw'[Ui].at # "clear queue"
      PROVE  StaysInView'
  BY <1>5 DEF StaysInView, Current
<1>6. ASSUME UNCHANGED <<view, param, queue>>, NEW step, step \notin {"idle", "next", "clear queue"},
             Goes(Ui, step),
             redraw[Ui].at \notin {"idle", "next", "clear queue", "clear frame", "resize", "animate"}
      PROVE  StaysInView'
  <2>1. /\ redraw'[Ui].at = step
        /\ redraw'[Ui].todo = redraw[Ui].todo /\ redraw'[Ui].job = redraw[Ui].job
    BY <1>1, <1>6, RedrawMoves
  <2> QED
    BY <1>5, <1>6, <2>1 DEF StaysInView
<1>7. CASE RedrawStep(Ui)
  <2>1. CASE NextTile(Ui)
    <3>1. PICK tile \in redraw[Ui].todo :
            /\ redraw'[Ui].at \in {"in memory", "not in memory"}
            /\ redraw'[Ui].todo = redraw[Ui].todo \ {tile} /\ redraw'[Ui].job = <<tile, param>>
      BY <1>1, <2>1, RedrawMoves
    <3> QED
      BY <1>5, <2>1, <3>1 DEF NextTile, At, screen, scene, StaysInView, Current
  <2>2. CASE GetFromMemory(Ui)
    <3>1. /\ redraw'[Ui].at = "draw"
          /\ redraw'[Ui].todo = redraw[Ui].todo /\ redraw'[Ui].job = redraw[Ui].job
      BY <1>1, <2>2, RedrawMoves
    <3> QED
      BY <1>5, <2>2, <3>1 DEF GetFromMemory, At, screen, scene, StaysInView
  <2>3. CASE FindFile(Ui) \/ ReadFile(Ui) \/ ReadFails(Ui) \/ DrawFromFile(Ui)
    BY <1>6, <2>3 DEF FindFile, ReadFile, ReadFails, DrawFromFile, At, screen, scene
  <2>4. CASE DrawNull(Ui) \/ ReadNull(Ui) \/ DrawFromMemory(Ui) \/ StoreInMemory(Ui)
    <3>1. /\ UNCHANGED <<view, param, queue>>
          /\ TileDone(Ui) \/ UNCHANGED redraw
          /\ redraw[Ui].at # "clear queue"
      BY <2>4 DEF DrawNull, ReadNull, DrawFromMemory, StoreInMemory, At, Crash, screen, scene
    <3>2. TileDone(Ui) => redraw'[Ui].at = "next" /\ redraw'[Ui].todo = redraw[Ui].todo
      BY <1>1, RedrawMoves
    <3> QED
      BY <1>2, <1>4, <3>1, <3>2 DEF StaysInView
  <2>5. CASE AddJob(Ui)
    <3>1. redraw'[Ui].at = "next" /\ redraw'[Ui].todo = redraw[Ui].todo
      BY <1>1, <2>5, RedrawMoves DEF AddJob
    <3>2. queue' \subseteq Current /\ UNCHANGED <<view, param>>
      BY <2>5 DEF AddJob, At, StaysInView, screen, scene
    <3> QED
      BY <3>1, <3>2 DEF StaysInView, Current
  <2>6. CASE EndRedraw(Ui)
    <3>1. redraw'[Ui].at = "idle" /\ redraw'[Ui].todo = {}
      BY <1>1, <2>6, RedrawDomain DEF EndRedraw, Idle
    <3>2. UNCHANGED <<view, param, queue>> /\ redraw[Ui].at = "next"
      BY <2>6 DEF EndRedraw, At, screen, scene
    <3> QED
      BY <3>1, <3>2 DEF StaysInView, Current
  <2> QED
    BY <1>7, <2>1, <2>2, <2>3, <2>4, <2>5, <2>6 DEF RedrawStep
<1>8. CASE ClearQueue \/ ChangeParameters
  <2>1. redraw[Ui].todo = {}
    BY <1>1, <1>8, RedrawTyped DEF ClearQueue, ChangeParameters, At, Between, AtTile
  <2>2. CASE ClearQueue
    <3>1. redraw'[Ui].at = "clear frame" /\ redraw'[Ui].todo = {} /\ queue' = {}
      BY <1>1, <2>1, <2>2, RedrawMoves DEF ClearQueue
    <3> QED
      BY <3>1 DEF StaysInView
  <2>3. CASE ChangeParameters
    <3>1. redraw'[Ui].at = "clear queue" /\ redraw'[Ui].todo = {}
      BY <1>1, <2>1, <2>3, RedrawMoves DEF ChangeParameters
    <3> QED
      BY <3>1 DEF StaysInView
  <2> QED
    BY <1>8, <2>2, <2>3
<1>9. ASSUME RedrawTiles(Ui, view), UNCHANGED <<view, param, queue>>, redraw[Ui].at # "clear queue"
      PROVE  StaysInView'
  <2>1. redraw'[Ui].at = "next" /\ redraw'[Ui].todo \subseteq view
    BY <1>1, <1>9, RedrawMoves
  <2> QED
    BY <1>4, <1>9, <2>1
<1>10. ASSUME NEW step \in {"idle", "resize", "animate"}, Goes(Ui, step), UNCHANGED <<view, param, queue>>,
              redraw[Ui].at \in {"idle", "resize", "animate"}
       PROVE  StaysInView'
  <2>1. redraw'[Ui].at = step /\ redraw'[Ui].todo = redraw[Ui].todo
    BY <1>1, <1>10, RedrawMoves
  <2> QED
    BY <1>10, <2>1 DEF StaysInView, Current
<1>11. CASE ClearFrame
  <2>1. UNCHANGED <<view, param, queue>> /\ redraw[Ui].at = "clear frame"
        /\ (RedrawTiles(Ui, view) \/ UNCHANGED redraw)
    BY <1>11 DEF ClearFrame, At, Crash, screen, scene
  <2> QED
    BY <1>2, <1>9, <2>1
<1>12. CASE NewFrame
  <2>1. UNCHANGED <<view, param, queue>> /\ redraw[Ui].at = "resize"
        /\ (RedrawTiles(Ui, view) \/ Goes(Ui, "idle"))
    BY <1>12 DEF NewFrame, At, scene
  <2> QED
    BY <1>9, <1>10, <2>1
<1>13. CASE Resize
  BY <1>10, <1>13 DEF Resize, At
<1>15. CASE StartAnimation
  BY <1>10, <1>15 DEF StartAnimation, At
<1>14. CASE Redraw(Ui) \/ EndAnimation(Ui)
  BY <1>9, <1>14 DEF Redraw, EndAnimation, At, screen, scene
<1> QED
  BY <1>1, <1>3, <1>7, <1>8, <1>11, <1>12, <1>13, <1>14, <1>15 DEF Next, System, UiStep

(* When get has returned the bitmap, its job is the youngest, and the jobs    *)
(* that can be put before it is drawn are fewer than the cache holds.         *)
LEMMA FewRivals ==
  ASSUME Still, TypeOK, NEW job \in Current, queue \subseteq Current,
         NEW rivals, rivals = (queue \cup Rendered) \ {job}
  PROVE  IsFiniteSet(rivals) /\ Cardinality(rivals) < Capacity
<1> DEFINE others == Current \ {job}
<1>1. /\ IsFiniteSet(Current) /\ Cardinality(Current) <= Cardinality(view)
      /\ IsFiniteSet(view) /\ Cardinality(view) < Capacity
  <2>1. IsFiniteSet(view) /\ Cardinality(view) < Capacity
    BY DEF Still, TypeOK
  <2> DEFINE toJob == [tile \in view |-> <<tile, param>>]
  <2>2. toJob \in Surjection(view, Current)
    BY DEF Surjection, Current
  <2> QED
    BY <2>1, <2>2, FS_Surjection
<1>2. /\ IsFiniteSet(others)
      /\ Cardinality(others) = Cardinality(Current) - 1
  BY <1>1, FS_RemoveElement
<1>3. rivals \subseteq others \cup Rendered
  OBVIOUS
<1> HIDE DEF others
<1>4. IsFiniteSet(Rendered) /\ (Cardinality(Rendered) = 0 \/ Cardinality(Rendered) = 1)
  <2>1. CASE Rendered = {}
    BY <2>1, FS_EmptySet
  <2>2. CASE Rendered = {worker.job}
    BY <2>2, FS_Singleton
  <2> QED
    BY <2>1, <2>2 DEF Rendered
<1>5. /\ IsFiniteSet(others \cup Rendered)
      /\ Cardinality(others \cup Rendered) <= Cardinality(others) + Cardinality(Rendered)
  <2>1. IsFiniteSet(others \cap Rendered)
    BY <1>2, FS_Intersection
  <2>2. /\ Cardinality(others \cap Rendered) \in Nat /\ Cardinality(others) \in Nat
        /\ Cardinality(Rendered) \in Nat
    BY <1>2, <1>4, <2>1, FS_CardinalityType
  <2>3. IsFiniteSet(others \cup Rendered)
    BY <1>2, <1>4, FS_Union
  <2>4. Cardinality(others \cup Rendered)
          = Cardinality(others) + Cardinality(Rendered) - Cardinality(others \cap Rendered)
    BY <1>2, <1>4, FS_Union
  <2> QED
    BY <2>2, <2>3, <2>4
<1>6. IsFiniteSet(rivals) /\ Cardinality(rivals) <= Cardinality(others \cup Rendered)
  BY <1>3, <1>5, FS_Subset
<1>7. /\ Cardinality(rivals) \in Nat /\ Cardinality(others \cup Rendered) \in Nat
      /\ Cardinality(Current) \in Nat /\ Cardinality(view) \in Nat /\ Cardinality(Rendered) \in Nat
      /\ Cardinality(others) \in Nat
  BY <1>1, <1>2, <1>4, <1>5, <1>6, FS_CardinalityType
<1>8. Capacity \in Nat
  BY BoundsAssumption
<1> QED
  BY <1>1, <1>2, <1>4, <1>5, <1>6, <1>7, <1>8

LEMMA HeldByGet ==
  ASSUME Still, TypeOK, BitmapsStayUnshared, CacheHoldsItsTile, StaysInView, GetFromMemory(Ui)
  PROVE  HeldBitmapStays'
<1>1. Ui \in Redrawer
  BY ViewsAssumption
<1>2. /\ redraw[Ui].at = "in memory" /\ redraw'[Ui].bitmap = map[redraw[Ui].job]
      /\ redraw'[Ui].job = redraw[Ui].job /\ redraw[Ui].job \in Job
  BY <1>1, RedrawMoves, RedrawTyped DEF GetFromMemory, At
<1> SUFFICES ASSUME NEW mine, mine = redraw[Ui].job PROVE HeldBitmapStays'
  OBVIOUS
<1>3. CASE mine \notin Memory!Keys
  BY <1>2, <1>3 DEF HeldBitmapStays, Memory!Keys, Memory!NoBitmap
<1>4. CASE mine \in Memory!Keys
  <2>1. /\ UNCHANGED <<map, bitmapPool, pixels, queue, worker>>
        /\ older' = Memory!Accessed(Memory!Keys, mine)
    BY <1>4 DEF GetFromMemory, Memory!Get
  <2>2. TileOf(pixels[map[mine]]) = TileOf(mine)
    BY <1>4 DEF CacheHoldsItsTile
  <2>3. map[mine] \notin Memory!Pooled
    BY <1>4 DEF BitmapsStayUnshared, Memory!BitmapsUnshared, Memory!Mapped
  <2>4. \A job \in Memory!Keys : map[job] = map[mine] => job = mine
    BY <1>4 DEF BitmapsStayUnshared, Memory!BitmapsUnshared
  <2>5. Rendered' = Rendered /\ Memory!Keys' = Memory!Keys /\ Cache!Pooled' = Memory!Pooled
    BY <2>1 DEF Rendered, Memory!Keys, Memory!Pooled, Cache!Pooled
  <2>6. Cache!Younger(mine)' = {}
    BY <1>2, <2>1 DEF Cache!Younger, Memory!Accessed
  <2>7. Rivals(mine)' = (queue \cup Rendered) \ {mine}
    BY <1>2, <2>1, <2>5, <2>6 DEF Rivals
  <2>8. IsFiniteSet(Rivals(mine)') /\ Cardinality(Rivals(mine)') < Capacity
    <3>1. mine \in Current /\ queue \subseteq Current
      BY <1>2 DEF StaysInView
    <3> QED
      BY <2>7, <3>1, FewRivals
  <2>9. ASSUME NEW job \in Memory!Keys', map'[job] = map[mine]
        PROVE  job = mine /\ IsFiniteSet(Rivals(job)') /\ Cardinality(Rivals(job)') < Capacity
    BY <2>1, <2>4, <2>5, <2>8, <2>9
  <2> QED
    BY <1>2, <2>1, <2>2, <2>3, <2>5, <2>9 DEF HeldBitmapStays
<1> QED
  BY <1>3, <1>4

LEMMA FewerRivals ==
  ASSUME NEW rivals, IsFiniteSet(rivals), Cardinality(rivals) < Capacity, NEW fewer,
         fewer \subseteq rivals
  PROVE  IsFiniteSet(fewer) /\ Cardinality(fewer) < Capacity
<1>1. IsFiniteSet(fewer) /\ Cardinality(fewer) <= Cardinality(rivals)
  BY FS_Subset
<1>2. Cardinality(fewer) \in Nat /\ Cardinality(rivals) \in Nat /\ Capacity \in Nat
  BY <1>1, FS_CardinalityType, BoundsAssumption
<1> QED
  BY <1>1, <1>2

(* The worker's steps while the bitmap is held.                               *)
LEMMA HeldByWorker ==
  ASSUME Still, TypeOK, BitmapsStayUnshared, HeldBitmapStays, WorkerStep
  PROVE  HeldBitmapStays'
<1>1. UNCHANGED redraw /\ Ui \in Redrawer
  BY ViewsAssumption DEF WorkerStep, HasWork, Poll, PollNull, CheckMemory, CheckFiles, Execute,
     ExecuteFails, WorkerDraws, WorkerStores, WorkerSaves, Crash
<1>2. ASSUME UNCHANGED memory, queue' \cup Rendered' \subseteq queue \cup Rendered
      PROVE  HeldBitmapStays'
  <2>1. ASSUME NEW job, IsFiniteSet(Rivals(job)), Cardinality(Rivals(job)) < Capacity
        PROVE  IsFiniteSet(Rivals(job)') /\ Cardinality(Rivals(job)') < Capacity
    <3>1. Rivals(job)' \subseteq Rivals(job)
      BY <1>2 DEF Rivals, Cache!Younger, Cache!Keys, Cache!NoBitmap, memory
    <3> QED
      BY <2>1, <3>1, FewerRivals
  <2>2. /\ UNCHANGED <<pixels, map>>
        /\ Cache!Pooled' = Cache!Pooled /\ Memory!Keys' = Memory!Keys
        /\ Memory!NoBitmap' = Memory!NoBitmap
    BY <1>2 DEF memory, Cache!Pooled, Memory!Keys, Memory!NoBitmap
  <2> QED
    BY <1>1, <2>1, <2>2 DEF HeldBitmapStays
<1>3. DOMAIN worker = {"at", "job"}
  BY DEF TypeOK
<1>4. ASSUME NEW step, WorkerGoes(step), worker.at \notin {"idle", "poll"}
      PROVE  Rendered' \subseteq Rendered
  BY <1>3, <1>4 DEF WorkerGoes, Rendered
<1>5. WorkerRests => Rendered' = {}
  BY DEF WorkerRests, Rendered
<1>6. CASE HasWork \/ PollNull
  BY <1>2, <1>3, <1>6 DEF HasWork, PollNull, Crash, WorkerAt, WorkerGoes, Rendered
<1>7. CASE Poll
  <2>1. UNCHANGED memory
    BY <1>7 DEF Poll
  <2>2. PICK job \in queue : queue' = queue \ {job} /\ worker' = [at |-> "polled", job |-> job]
    BY <1>7 DEF Poll
  <2>3. Rendered' = {job}
    BY <2>2 DEF Rendered
  <2> QED
    BY <1>2, <2>1, <2>2, <2>3
<1>8. CASE CheckMemory \/ CheckFiles
  <2>1. UNCHANGED <<memory, queue>> /\ worker.at \notin {"idle", "poll"}
    BY <1>8 DEF CheckMemory, CheckFiles, WorkerAt
  <2>2. WorkerRests \/ WorkerGoes("not in memory") \/ WorkerGoes("execute")
    BY <1>8 DEF CheckMemory, CheckFiles
  <2>3. Rendered' \subseteq Rendered
    BY <1>4, <1>5, <2>1, <2>2
  <2> QED
    BY <1>2, <2>1, <2>3
<1>9. CASE Execute \/ ExecuteFails \/ WorkerDraws \/ WorkerSaves
  <2>1. UNCHANGED <<memory, queue>> /\ worker.at \notin {"idle", "poll"}
    BY <1>9 DEF Execute, ExecuteFails, WorkerDraws, WorkerSaves, WorkerAt
  <2>2. WorkerRests \/ \E step : WorkerGoes(step)
    BY <1>9 DEF Execute, ExecuteFails, WorkerDraws, WorkerSaves
  <2>3. Rendered' \subseteq Rendered
    BY <1>4, <1>5, <2>1, <2>2
  <2> QED
    BY <1>2, <2>1, <2>3
<1>10. CASE WorkerStores
  <2> SUFFICES ASSUME NEW b, b = redraw[Ui].bitmap, NEW mine, mine = redraw[Ui].job,
                      redraw[Ui].at = "draw", b # Memory!NoBitmap
               PROVE  HeldBitmapStays'
    BY <1>1 DEF HeldBitmapStays, Memory!NoBitmap
  <2>1. /\ worker.at = "store" /\ worker.job \in Job /\ Memory!Put(worker.job, worker.job)
        /\ WorkerGoes("save") /\ UNCHANGED queue
    BY <1>10 DEF WorkerStores, WorkerAt, TypeOK
  <2>2. Rendered = {worker.job} /\ Rendered' = {worker.job}
    BY <1>3, <2>1 DEF Rendered, WorkerGoes
  <2>3. b \in Cache!Bitmap /\ mine \in Job
    BY <1>1, RedrawTyped, MemoryIsCache DEF AtTile
  <2>4. Cache!TypeOK /\ Cache!BitmapsUnshared /\ Memory!Keys = Cache!Keys
    BY MemoryIsCache DEF TypeOK, BitmapsStayUnshared
  <2>5. Cache!Put(worker.job, worker.job)
    BY <2>1, PutIsPut
  <2>6. /\ TileOf(pixels[b]) = TileOf(mine) /\ b \notin Cache!Pooled
        /\ \A j \in Cache!Keys : map[j] = b =>
             j = mine /\ IsFiniteSet(Rivals(mine)) /\ Cardinality(Rivals(mine)) < Capacity
    BY <2>4 DEF HeldBitmapStays
  <2>7. PICK rivals :
          /\ IsFiniteSet(rivals) /\ Cardinality(rivals) < Capacity
          /\ \A j \in Cache!Keys : map[j] = b => j = mine /\ rivals = Rivals(mine)
    <3>1. CASE \E j \in Cache!Keys : map[j] = b
      BY <2>6, <3>1
    <3>2. CASE \A j \in Cache!Keys : map[j] # b
      <4>1. IsFiniteSet({}) /\ Cardinality({}) < Capacity
        <5>1. IsFiniteSet(view) /\ Cardinality(view) < Capacity
          BY DEF Still, TypeOK
        <5>2. {} \subseteq view
          OBVIOUS
        <5> QED
          BY <5>1, <5>2, FewerRivals
      <4> QED
        BY <3>2, <4>1
    <3> QED
      BY <3>1, <3>2
  <2>8. \A j \in Cache!Keys : map[j] = b =>
          j = mine /\ (Cache!Younger(mine) \cup {worker.job}) \ {mine} \subseteq rivals
    BY <2>2, <2>7 DEF Rivals
  <2>9. Cache!Cardinality(rivals) < Capacity /\ Cache!IsFiniteSet(rivals)
    BY <2>7, SameCardinality DEF Cache!IsFiniteSet, IsFiniteSet
  <2>10. /\ pixels'[b] = pixels[b]
         /\ b \notin Cache!Pooled'
         /\ \A j \in Cache!Keys' : map'[j] = b =>
              /\ j = mine /\ j \in Cache!Keys /\ map[j] = b
              /\ (Cache!Younger(mine)' \cup {worker.job}) \ {mine} \subseteq rivals
    BY <2>1, <2>3, <2>4, <2>5, <2>6, <2>8, <2>9, Cache!PutSparesBitmap, BoundsAssumption,
       NoImageAssumption
  <2>11. ASSUME NEW job \in Memory!Keys', map'[job] = b
         PROVE  job = mine /\ IsFiniteSet(Rivals(job)') /\ Cardinality(Rivals(job)') < Capacity
    <3>1. (Memory!Keys = Cache!Keys)'
      BY MemoryIsCache, PTL
    <3>2. /\ job = mine /\ rivals = Rivals(mine)
          /\ (Cache!Younger(mine)' \cup {worker.job}) \ {mine} \subseteq rivals
      BY <2>7, <2>10, <2>11, <3>1
    <3>3. Rivals(mine)' \subseteq rivals
      BY <2>1, <2>2, <3>2 DEF Rivals
    <3> QED
      BY <2>7, <3>2, <3>3, FewerRivals
  <2> QED
    BY <1>1, <2>6, <2>10, <2>11 DEF HeldBitmapStays
<1> QED
  BY <1>6, <1>7, <1>8, <1>9, <1>10 DEF WorkerStep

LEMMA HeldStep ==
  ASSUME Still, TypeOK, BitmapsStayUnshared, CacheHoldsItsTile, StaysInView, HeldBitmapStays,
         [Next]_vars
  PROVE  HeldBitmapStays'
<1>1. Ui \in Redrawer /\ ~Zoom /\ \A r \in Redrawer : r = Ui /\ ~Move(r)
  BY ViewsAssumption DEF Still, TypeOK, Move, Zoom, Act
<1>2. CASE DamageFile \/ UNCHANGED vars
  <2>1. UNCHANGED <<memory, queue, worker, redraw>>
    BY <1>2 DEF DamageFile, vars
  <2>2. /\ \A job : Rivals(job)' = Rivals(job)
        /\ Cache!Pooled' = Cache!Pooled /\ Memory!Keys' = Memory!Keys
        /\ Memory!NoBitmap' = Memory!NoBitmap
        /\ UNCHANGED <<pixels, map>>
    BY <2>1 DEF Rivals, Rendered, Cache!Younger, Cache!Keys, Cache!NoBitmap, Cache!Pooled,
       Memory!Keys, Memory!NoBitmap, memory
  <2> QED
    BY <2>1, <2>2 DEF HeldBitmapStays
<1>3. ASSUME redraw'[Ui].at # "draw" PROVE HeldBitmapStays'
  BY <1>3 DEF HeldBitmapStays
<1>4. CASE ClearQueue \/ ChangeParameters
  <2>1. redraw'[Ui].at = "clear frame" \/ redraw'[Ui].at = "clear queue"
    BY <1>1, <1>4, RedrawMoves DEF ClearQueue, ChangeParameters
  <2> QED
    BY <1>3, <2>1
<1>5. CASE \/ RedrawTiles(Ui, view)
           \/ \E step \in {"idle", "resize", "animate"} : Goes(Ui, step)
  <2>1. redraw'[Ui].at \in {"next", "idle", "resize", "animate"}
    BY <1>1, <1>5, RedrawMoves
  <2> QED
    BY <1>3, <2>1
<1>7. CASE NewFrame \/ StartAnimation \/ Resize \/ Redraw(Ui) \/ EndAnimation(Ui)
  BY <1>5, <1>7 DEF NewFrame, StartAnimation, Resize, Redraw, EndAnimation
<1>8. CASE ClearFrame
  <2>1. CASE RedrawTiles(Ui, view)
    BY <1>5, <2>1
  <2>2. CASE UNCHANGED redraw
    BY <1>3, <1>8, <2>2 DEF ClearFrame, At
  <2> QED
    BY <1>8, <2>1, <2>2 DEF ClearFrame, Crash
<1>6. CASE RedrawStep(Ui)
  <2>1. CASE NextTile(Ui) \/ EndRedraw(Ui)
    <3>1. redraw'[Ui].at \in {"in memory", "not in memory"} \/ redraw'[Ui].at = "idle"
      BY <1>1, <2>1, RedrawMoves
    <3> QED
      BY <1>3, <3>1
  <2>2. CASE GetFromMemory(Ui)
    BY <2>2, HeldByGet
  <2>3. ASSUME TileDone(Ui) PROVE HeldBitmapStays'
    <3>1. redraw'[Ui].at = "next"
      BY <1>1, <2>3, RedrawMoves
    <3> QED
      BY <1>3, <3>1
  <2>4. ASSUME NEW step, step # "draw", Goes(Ui, step) PROVE HeldBitmapStays'
    <3>1. redraw'[Ui].at = step
      BY <1>1, <2>4, RedrawMoves
    <3> QED
      BY <1>3, <2>4, <3>1
  <2>5. CASE FindFile(Ui) \/ ReadFile(Ui) \/ ReadFails(Ui) \/ DrawFromFile(Ui)
    <3>1. Goes(Ui, "in file") \/ Goes(Ui, "missing") \/ Goes(Ui, "draw file") \/ Goes(Ui, "store")
      BY <2>5 DEF FindFile, ReadFile, ReadFails, DrawFromFile
    <3> QED
      BY <2>4, <3>1
  <2>6. CASE DrawFromMemory(Ui) \/ StoreInMemory(Ui) \/ AddJob(Ui)
    BY <2>3, <2>6 DEF DrawFromMemory, StoreInMemory, AddJob
  <2>7. CASE ReadNull(Ui) \/ DrawNull(Ui)
    <3>1. CASE TileDone(Ui)
      BY <2>3, <3>1
    <3>2. CASE UNCHANGED redraw
      <4>1. redraw[Ui].at = "draw" => redraw[Ui].bitmap = Memory!NoBitmap
        BY <2>7 DEF ReadNull, DrawNull, At
      <4> QED
        BY <3>2, <4>1 DEF HeldBitmapStays, Memory!NoBitmap
    <3> QED
      BY <2>7, <3>1, <3>2 DEF ReadNull, DrawNull, Crash
  <2> QED
    BY <1>6, <2>1, <2>2, <2>5, <2>6, <2>7 DEF RedrawStep
<1> QED
  BY <1>1, <1>2, <1>4, <1>6, <1>7, <1>8, HeldByWorker DEF Next, System, UiStep

LEMMA DrawsItsTile ==
  ASSUME TypeOK, FrameShowsItsTile, NEW tile \in Tile, NEW img \in Job \cup {NoImage},
         img = NoImage \/ TileOf(img) = tile, Draw(tile, img)
  PROVE  FrameShowsItsTile'
<1>1. /\ \A t \in Tile \ {tile} : frame'[t] = frame[t]
      /\ frame'[tile] = img \/ frame'[tile] = frame[tile]
  BY DEF Draw, TypeOK
<1> QED
  BY <1>1 DEF FrameShowsItsTile

(* One thread does not share the bitmap of the file cache.                    *)
LEMMA NeverMixed == ASSUME Redrawer = {Ui} PROVE Spec => []~mixed
<1>1. Init => ~mixed
  BY DEF Init
<1>2. ASSUME ~mixed, [Next]_vars PROVE ~mixed'
  <2>1. ASSUME NEW r \in Redrawer, ReadFile(r) PROVE ~mixed'
    <3>1. mixed' = (mixed \/ \E q \in Redrawer \ {r} : UsesBitmapGet(q) /\ redraw[q].job # redraw[r].job)
      BY <2>1 DEF ReadFile
    <3>2. Redrawer \ {r} = {}
      BY <2>1
    <3> QED
      BY <1>2, <3>1, <3>2, Zenon
  <2>2. CASE UNCHANGED mixed
    BY <1>2, <2>2
  <2>3. ASSUME NEW r \in Redrawer, RedrawStep(r) PROVE ~mixed'
    BY <2>1, <2>2, <2>3 DEF RedrawStep, NextTile, GetFromMemory, DrawFromMemory, DrawNull, FindFile,
       ReadFails, ReadNull, DrawFromFile, StoreInMemory, AddJob, EndRedraw, Crash, disk
  <2>4. CASE WorkerStep
    BY <2>2, <2>4 DEF WorkerStep, HasWork, Poll, PollNull, CheckMemory, CheckFiles, Execute,
       ExecuteFails, WorkerDraws, WorkerStores, WorkerSaves, Crash, disk
  <2>5. CASE UiStep \/ Zoom \/ Resize \/ ChangeParameters \/ DamageFile \/ UNCHANGED vars
             \/ \E r \in Redrawer : Redraw(r) \/ Move(r) \/ EndAnimation(r)
    BY <2>2, <2>5 DEF UiStep, ClearQueue, ClearFrame, NewFrame, StartAnimation, Crash, Zoom, Resize,
       ChangeParameters, DamageFile, Redraw, Move, EndAnimation, vars, disk
  <2> QED
    BY <1>2, <2>3, <2>4, <2>5 DEF Next, System
<1> QED
  BY <1>1, <1>2, PTL DEF Spec

(* While the visible tiles are fewer than the cache holds, one thread redraws *)
(* and nobody moves or zooms, a tile's place on the screen shows nothing but  *)
(* that tile, although drawBitmap uses a cached bitmap after the cache has given   *)
(* its lock up.                                                               *)
THEOREM FrameShowsCorrect == ASSUME Still PROVE Spec => []FrameShowsItsTile
<1>1. Init => ReadsItsTile /\ StaysInView /\ HeldBitmapStays /\ FrameShowsItsTile
  <2>1. ASSUME Init
        PROVE  /\ redraw[Ui].at = "next" /\ redraw[Ui].todo = view /\ queue = {}
               /\ \A r \in Redrawer : redraw[r].at \in {"idle", "next"}
               /\ \A t \in Tile : frame[t] = NoImage
    BY <2>1, ViewsAssumption DEF Init, Idle, Blank
  <2> QED
    BY <2>1 DEF ReadsItsTile, UsesBitmapGet, StaysInView, HeldBitmapStays, FrameShowsItsTile
<1>2. ASSUME TypeOK, ~mixed, ReadsItsTile, HeldBitmapStays, FrameShowsItsTile, [Next]_vars
      PROVE  FrameShowsItsTile'
  <2>1. CASE UNCHANGED frame
    BY <1>2, <2>1 DEF FrameShowsItsTile
  <2>2. CASE WorkerDraws
    <3>1. worker.job \in Job /\ TileOf(worker.job) \in Tile
      BY <1>2, <2>2 DEF WorkerDraws, WorkerAt, TypeOK, Job, TileOf
    <3> QED
      BY <1>2, <2>2, <3>1, DrawsItsTile DEF WorkerDraws
  <2>3. CASE DrawFromMemory(Ui)
    <3>1. /\ redraw[Ui] \in AtTile /\ redraw[Ui].at = "draw"
          /\ redraw[Ui].bitmap # Memory!NoBitmap
      BY <1>2, <2>3, ViewsAssumption, RedrawTyped DEF DrawFromMemory, At
    <3>2. TileOf(redraw[Ui].job) \in Tile /\ redraw[Ui].bitmap \in Memory!Bitmap
      BY <3>1 DEF AtTile, Job, TileOf
    <3>3. pixels[redraw[Ui].bitmap] \in Job \cup {NoImage}
      BY <1>2, <3>2 DEF TypeOK, Memory!TypeOK
    <3>4. TileOf(pixels[redraw[Ui].bitmap]) = TileOf(redraw[Ui].job)
      BY <1>2, <3>1 DEF HeldBitmapStays
    <3> QED
      BY <1>2, <2>3, <3>2, <3>3, <3>4, DrawsItsTile DEF DrawFromMemory
  <2>4. ASSUME NEW r \in Redrawer, DrawFromFile(r) PROVE FrameShowsItsTile'
    <3>1. redraw[r] \in AtTile /\ bitmapGet = redraw[r].job
      BY <1>2, <2>4, RedrawTyped DEF DrawFromFile, At, UsesBitmapGet, ReadsItsTile
    <3>2. TileOf(redraw[r].job) \in Tile /\ redraw[r].job \in Job
      BY <3>1 DEF AtTile, Job, TileOf
    <3> QED
      BY <1>2, <2>4, <3>1, <3>2, DrawsItsTile DEF DrawFromFile
  <2>5. CASE ClearFrame \/ NewFrame \/ StartAnimation \/ Resize
    <3>1. frame' = Blank \/ UNCHANGED frame
      BY <2>5 DEF ClearFrame, NewFrame, StartAnimation, Resize, Crash, screen
    <3>2. CASE frame' = Blank
      BY <3>2 DEF Blank, FrameShowsItsTile
    <3> QED
      BY <2>1, <3>1, <3>2
  <2>6. CASE WorkerStep
    BY <2>1, <2>2, <2>6 DEF WorkerStep, HasWork, Poll, PollNull, CheckMemory, CheckFiles, Execute,
       ExecuteFails, WorkerStores, WorkerSaves, Crash, screen, scene
  <2>7. ASSUME NEW r \in Redrawer, RedrawStep(r) PROVE FrameShowsItsTile'
    BY <2>1, <2>3, <2>4, <2>7 DEF Still, RedrawStep, NextTile, GetFromMemory, DrawNull, FindFile,
       ReadFile, ReadFails, ReadNull, StoreInMemory, AddJob, EndRedraw, Crash, screen, scene
  <2>8. CASE ClearQueue \/ ChangeParameters \/ DamageFile \/ UNCHANGED vars
             \/ \E r \in Redrawer : Redraw(r) \/ EndAnimation(r)
    BY <2>1, <2>8 DEF ClearQueue, ChangeParameters, DamageFile, Redraw, EndAnimation, vars, screen
  <2>9. ~Zoom /\ \A r \in Redrawer : ~Move(r)
    BY <1>2 DEF Still, TypeOK, Move, Zoom, Act
  <2> QED
    BY <1>2, <2>5, <2>6, <2>7, <2>8, <2>9 DEF Next, System, UiStep
<1>3. Redrawer = {Ui}
  BY DEF Still
<1>4. Spec => []~mixed
  BY <1>3, NeverMixed
<1>5. TypeOK /\ ReadsItsTile /\ [Next]_vars => ReadsItsTile'
  BY ReadsItsTileStep
<1>8. ~mixed /\ OnlySharingMixesTiles => CacheHoldsItsTile
  BY DEF OnlySharingMixesTiles
<1>6. TypeOK /\ StaysInView /\ [Next]_vars => StaysInView'
  BY StaysInViewStep
<1>7. TypeOK /\ BitmapsStayUnshared /\ CacheHoldsItsTile /\ StaysInView /\ HeldBitmapStays
      /\ [Next]_vars => HeldBitmapStays'
  BY HeldStep
<1> QED
  BY <1>1, <1>2, <1>4, <1>5, <1>6, <1>7, <1>8, OnlySharingMixesCorrect, UnsharedCorrect,
     TypeCorrect, PTL DEF Spec
=============================================================================
