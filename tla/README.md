# A verification of mapsforge

mapsforge draws vector maps on Android and stores points of interest beside them. This
directory holds TLA+ modules of the parts where most can go wrong without a test
noticing: the threads, queues and caches between a touch on the screen and a tile in
the frame buffer (`mapsforge-map`), and the storage of points of interest
(`mapsforge-poi`) down to the pages of its SQLite file. TLC checks the modules on small
instances; TLAPS proves the main results for every instance. Paths below are
relative to `mapsforge-map/src/main/java/org/mapsforge/android/maps/`, or name a file
of `mapsforge-poi`.

## The system

| Component | State | Operations | Interacts with |
|---|---|---|---|
| `PausableThread` | `pausing`, `shouldPause`, interrupt status | `run`, `pause`, `awaitPausing`, `proceed`, `interrupt` | base of `MapWorker`, `MapMover`, `ZoomAnimator` |
| `mapgenerator/InMemoryTileCache` | access-ordered map to pooled bitmaps | `containsKey`, `get`, `put`, `destroy` | read and written by the worker and by every thread that redraws |
| `mapgenerator/FileSystemTileCache` | access-ordered map to files, one bitmap for results, a serialized map between runs | the same, `setCapacity`, `setPersistent` | the same; the external storage |
| `mapgenerator/JobQueue` | pending jobs, `scheduleNeeded` | `addJob`, `clear`, `isEmpty`, `poll`, `requestSchedule` | filled by redraws, emptied by the worker, prioritised by `TileScheduler` with the MapView's position |
| `mapgenerator/MapWorker` | the job in hand, one bitmap | `doWork` | queue, map generator, frame buffer, both caches |
| `MapView` | position, job parameters, map file, map generator | `redrawTiles`, `clearAndRedrawMapView`, `setMapFile`, `setMapGenerator`, `zoom`, `setCenterAndZoom`, `onSizeChanged`, `onPause`, `onResume`, `destroy` | everything |
| `FrameBuffer` | two bitmaps, a matrix | `drawBitmap`, `matrixPostTranslate`, `matrixPostScale`, `clear`, `onSizeChanged` | drawn to by worker and redraws; passes matrix operations on to the overlays |
| `inputhandling/` `MapMover`, `ZoomAnimator`, touch handlers, `LongPressDetector` | speeds, animation flag, press time | callbacks of the UI thread, `doWork` | move the position, redraw |
| `overlay/` | per overlay a thread of its own kind, two bitmaps, a matrix; the list of overlays | `requestRedraw`, `run`, matrix operations, list operations | frame buffer, MapView |
| `mapgenerator/databaserenderer`, `tiledownloader`, `rendertheme` | renderer state of one thread | `executeJob` | called by the worker |
| `SQLitePoiPersistenceManager` (poi) | prepared statements, an open transaction | open or create a file, insert, remove, find, close | several managers of one file, through SQLite |
| JNI bridge `jni/sqlite3_jni.c` (poi) | a handle per `Database`, linked lists of its statements, blobs and backups | open, prepare, step, close, finalize | called by the program and by the finalizer thread of the virtual machine |
| SQLite's pager and file locks, `jni/sqlite3.c` (poi) | database file, rollback journal, page cache, POSIX locks | begin, read, write, spill, commit, roll back, recover | all connections of a file, of one process or of several |
| map reader, map writer, routing, applications | see `PROJECT.json` | | mostly independent of the above |

What is hard here is concurrency and failure. In `mapsforge-map` every class locks
itself, and its callers combine calls without a lock of their own: `containsKey` and
then `get`, `isEmpty` and then `poll`, a change of the position and then a redraw. Up to
four threads (UI, `MapMover`, `ZoomAnimator`, `MapWorker`) and one per overlay
interleave between those calls. In `mapsforge-poi` it is what a statement that fails,
a process that dies and an object that is finalized late leave behind. `PROJECT.json`
lists the hazards line by line, with the properties that cover them.

## Modules

| Module | Models | Correspondence |
|---|---|---|
| `TileCache` | the interface's promise, an LRU cache | abstract specification |
| `PersistentTileCache` | the same promise of a cache with a variable size that survives its process | abstract specification; `Destroy` and `Crash` are where one process ends and the next begins |
| `InMemoryTileCache` | `InMemoryTileCache.java` | `map` and its order `older` are the LinkedHashMap; `bitmapPool` is the list; `pixels` the content of bitmaps. `Get`, `PutIgnored`, `PutReplaces`, `PutAdds`, `PutEvicts`, `Destroy` are its synchronized methods |
| `PausableThread` | `PausableThread.java` | `pc` is the place in `run()`; `client` that of each caller; `Notify` picks any member of the one wait set |
| `FileSystemTileCache` | `FileSystemTileCache.java` | `map`, `older`, `capacity`, `cacheId`, `persistent` are its fields; `disk` is the cache directory and `saved` is `cache.ser`, both of which outlive the process; `at` and `writing` say where the process is between two operations on the storage |
| `JobQueue` | `JobQueue.java` | `priority` holds each queued job's priority; `PollBegins`, `Schedule`, `PollReturns` are one call of `poll`, which keeps the lock while the position may change |
| `TileScheduler` | `TileScheduler.java` | operators only; `MCJobQueue` gives them to `JobQueue` as its constant `Importance` |
| `TilePipeline` | `MapWorker.doWork`, `MapView.redrawTiles`, `clearAndRedrawMapView`, `zoom`, `onSizeChanged`, `FrameBuffer.drawBitmap` | composes an instance of `InMemoryTileCache` with the file cache, the queue and the frame; one step per call on a shared object. `animating` is the flag with which `drawBitmap` refuses to draw, `recycled` says that the frame buffer's bitmaps are destroyed (between the two calls of `onSizeChanged`, or because the view has no size) |
| `MapViewLifecycle` | `MapView.java` from construction to `destroy`, with `MapDatabase.openFile`, `closeFile` and its queries | `ui` is where the UI thread is within `setMapFile`, `setMapGenerator` or `destroy`; `at` where each thread is in its work; `header` and `input` are the two fields of `MapDatabase` that are set and cleared one after the other |
| `Overlay` | `Overlay.java`, `OverlayList.java`, the steps of `MapMover`, `ZoomAnimator`, `MapView` and `ScaleListener` that move or scale | `overlay` is the place in `run`; `seen` is the size that a walk over the list has read; `view` is the position, `shown` the one that was drawn, `matrix` what the matrix makes up for; `pinched` is what `onScale` has done to the matrices before the pinch ends in a zoom, or in a refused one |
| `PoiStore` | `SQLitePoiPersistenceManager.java` | `mgr[m].pc` is the place between two statements, `active` the statements that were stepped and not reset, `lock` and `view` what its connection has of the file |
| `SqliteHandles` | `sqlite3_jni.c`, `Database.java` | `handle` and `child` are the native structures, with `lists` for the chains of `next` pointers; `java` tells what the program still holds; `open` are SQLite's connections. `using` is what a method of the application has read when it was entered; `unlinking` and `closing` are where the finalizer thread is in a `finalize` of a child or in `doclose` |
| `UnixLocks` | `sqlite3.c`, os_unix.c: `unixLock`, `_posixUnlock`, `unixCheckReservedLock`, `unixClose` | `eFileLock` is each connection's level, `inodeLock` and `nShared` are the `unixInodeInfo` of a process, and the three bytes are the POSIX locks |
| `Pager` | `sqlite3.c`, pager.c with a rollback journal | EXTENDS `UnixLocks`; `eState` is `Pager.eState`; `job` and `step` say where a call is between two system calls; `db`, `journal` are the files as processes read them, `dbDisk`, `journalDisk` and `ghosts` what a loss of power may leave of them. The headers between a journal's records are abstracted to `nRec`, the number of records that those with a magic number count together |
| `AtomicStore` | what the pager promises | abstract specification |
| `..._proofs` | the theorems of a module | |
| `MC...` | instances for TLC | |

In `TilePipeline` an image is the job that it was rendered for, so that "the
right image" is an equation. A bitmap that `get` returned is a reference: what is
drawn is what the bitmap shows when `drawBitmap` runs. The pipeline abstracts the order of
the queue (any queued job may be polled) and the file cache's order of eviction (any
file may go), both of which only add behaviours. `Move`, `Zoom` and the end of an animation
take the change of the position and of the matrix, and the look at which tiles are then
visible, as one step; `Overlay` splits them. `mixed`, `calm` and `failed` are auxiliary: they record what
the exceptions in the properties speak of.

`MapViewLifecycle` composes the other way: it takes from `PausableThread` what is
proved there (a thread that is awaited does no work until it may proceed) and looks at
one visible tile, so that it can follow map files, generators and the three threads
through every order of calls. `Overlay` has one overlay and a line for a map, and
leaves out pixels and pivots; a scale factor between two zoom levels is rounded either way.

`Pager` takes SQLite as this build configures it: journal mode DELETE, synchronous
FULL, no write-ahead log, no exclusive mode. Left out are master journals (one file
only), savepoints and vacuum (nothing here uses them), memory-mapped or
temporary files. A page's content is the transaction that wrote it, and on page 1 the
change counter, so that a page from elsewhere shows. Records whose checksum fails are
records that are not there; the tail that an overwritten, dead journal may leave behind
the new one is left out; a failing write of a journal record has no effect. A call of
`unixLock` is one step, for it runs under a mutex of its process; where another
process can see its parts, `PassingReader` says so.

Operators whose names have an underscore (`Pause_WithoutNotify`, `Validate_`) are wrong on
purpose. Each stands before the definition it could replace, and shows that some
property notices.

## Runs

| Run | Result | What it shows |
|---|---|---|
| `cache_any` | holds | whatever is put: no shared bitmap, LRU; puts of absent jobs lose no bitmap, and then one spare bitmap suffices; implements `TileCache` |
| `thread_ui` | holds | one client: pausing is safe and live |
| `queue_quiet` | holds | at rest all jobs have the priorities of the present position, and `poll` returns a most important one |
| `queue_zoom` | violated | a tile five zoom levels above the map's gains importance |
| `files` | holds | over restarts, killed processes and a failing storage: entries name files with their images, no file is left over, the eldest are evicted first; implements `PersistentTileCache` |
| `pipeline` | holds | two threads that move and zoom, or one that does all else on a failing storage, with caches too small for the screen: a cached image is that of its job unless the shared bitmap was overwritten; nothing on disk is rendered again; an act that begins at rest and is not disturbed ends with a complete screen; every step of the threads brings them nearer to rest |
| `pipeline_stale_check` | violated | the queue is cleared between `hasWork` and `poll`: an uncaught exception |
| `pager` | holds | two connections, in two processes with failures or in one process without: locks exclude, no stale page, one writer, and an atomic store over killed processes, losses of power and failing input and output |
| `handles` | holds | two databases with statements, a blob or a backup, closed, dropped and finalized step by step in any order: until one thread overtakes the other within a method, exact lists, no statement and no blob on a closed connection, no connection kept open by a statement |
| `poi` | holds | three managers, failing statements, a process that dies: both tables agree, and a point is lost only by its removal |
| `lifecycle` | holds | a switch of map files, and `destroy`, go unnoticed by the worker unless an animation was executing or `destroy` was interrupted; `setMapFile` and `destroy` return; all threads end |
| `overlay` | holds | an overlay is shown where the map is once all is at rest, unless a pinch was refused, and gets there |

Each of the two violated runs states what a comment in the code promises; `PROJECT.json`
quotes it beside the line that breaks it.

### Other configurations

The same modules show more, of which no run is kept. The properties in this section
are defined in the modules, and TLC finds them violated or, where it says so, held.

The tile pipeline:

- `AwaitReturns` with clients that are interrupted (`InterruptingSpec`): the handler in
  `PausableThread.java:34` restores the interrupt status within the loop, so every
  further `wait(100)` throws at once, and the thread never gets the monitor to become
  pausing. Line 25: "Causes the current thread to wait until this thread is pausing."
- Two clients of one `PausableThread`: the second waits in `awaitPausing` on the same
  monitor and can take the one `notify` that the thread needed.
- `CacheHoldsItsTile` with two redrawing threads: they share the one `bitmapGet`
  (`FileSystemTileCache.java:266`), and the image of one job is stored under the other.
  `TileCache.java:38` promises "the tile image for the given key". `mixed` records that one thread
  read an image into it while another was between its `get` and the end of its `put`;
  `OnlySharingMixesTiles`, which is proved for any threads, says that nothing else mixes tiles.
- `NoBitmapLeaks`: `redrawTiles` asks the memory before the worker's puts and the disk
  after them, and puts a cached job (`MapView.java:395`); the pool loses a bitmap, where
  `InMemoryTileCache.java:29` promises "a fixed size". Each such put costs one; when the
  spare ones are gone a full cache ignores every put: `LeakFreezes`, which is proved.
- `QuietMeansComplete`, when one act disturbs another. A move while jobs are pending: a job that a
  cache has by the time it is polled is dropped without being drawn (`MapWorker.java:67`), and its tile
  stays blank. A change of parameters while the worker renders: it draws its job of before over
  the finished screen. An animation: what arrives while it executes is stored, not drawn. Two threads
  with the shared bitmap. `UndisturbedMeansComplete` excepts these and no more: whatever
  happened before, an act that begins when all are at rest and is followed by no other completes the
  screen. It also held, each checked once, for three acts without `redraw` (7.76 million states) and for all
  acts with the animator in one plan (8.8 million).
- The tile of a file with too few bytes stays blank: `FileSystemTileCache.get` returns null and keeps
  the entry (line 270), the redraw queues a job, and the worker drops it because the file cache has
  it (`MapWorker.java:67`). `ScreenIsComplete` excepts these tiles (`failed`).
- `ComesToRest` (under `FairSpec`; two tiles, `Capacity` and `FileCapacity` 1, `MaxOps` 2, changes,
  resizes, failures and damage; 538,344 states) held when it was checked once. `WorkShrinks` is its reason: a measure of
  the work left that every step of the threads lowers, so that weak fairness is enough.
- `FrameShowsItsTile` with `Capacity` 3, two visible tiles, three parameters and three changes or failures
  (702,103 states) held when it was checked once. It is proved in general (below).
- During a redraw `poll` can return a job that has no priority yet (0, the most
  important): `PollsMostImportant` is for a queue at rest.
- If an image is evicted from the file cache between `containsKey` and `get`, or from
  memory between `containsKey` and `drawBitmap`, the null is dereferenced, as in
  `pipeline_stale_check`.
- `FrameShowsItsTile` if the in-memory cache holds no more tiles than are visible: with
  `Capacity` 1, two visible tiles and a change of parameters, the worker still renders a
  job of before the change, both jobs are put while a redraw holds a bitmap, and one of them paints over it.
  The code's 20 bitmaps are enough for 19 visible tiles of 256 pixels a side.
- A restored file cache keeps the capacity that it was saved with, while `getCapacity`
  returns the constructor's; `setCapacity` with the latter returns early. So
  `SizeIsBounded` is about the bound that the map was created with.
- After a restart, numbers start at 1 again. If somebody else removed a mapped file, or
  `cache.ser` could not be deleted, a new image can take an entry's file name, and `get`
  returns it for the wrong job: the exception in `EntriesHaveTheirFiles`.

The life cycle:

- `WorkerHasAFile`: if `setMapFile` finds an animation executing, the last redraw of
  that animation queues a job while the file is closed, or a file cannot be opened and
  the worker goes on; the reader dereferences null.
- `RedrawHasAPosition`: a view that is laid out before it has a map file draws at an
  invalid position (`MapView.java:371`).
- `NobodyDrawsOnRecycled`: `destroy` joins the worker only (`MapView.java:711`), and `onSizeChanged`
  destroys the bitmaps in one locked step and creates others in the next (lines 683 and 686), none if the view has no
  size; a mover, an animator or a worker may draw on a recycled bitmap in between.
- `CleanupIsLast`: an interrupt of the UI thread in `join` is caught (`MapView.java:712`), and `destroy`
  frees the caches and closes the map file while the worker is alive.
- `ShowsCurrentFile`: images of the former file are found in the caches, for the map
  file is not part of a job's equality (`MapGeneratorJob.java:104`).
- `JobsHaveTheirGenerator`: the generator is changed between the poll of a job and its
  execution (`MapWorker.java:73`).
- `PausedMeansResting`: `setMapFile` in a paused activity lets the threads proceed
  (`MapView.java:482`).

Overlays:

- `IterationIsSafe`: `OverlayList.remove` and `clear` do not take the lock under which
  others walk over the list, and a walker can ask for an element that is gone.
- `DrawsNoRecycledBitmap`: the overlay's thread recycles its bitmap before it has
  another, and when it ends (`Overlay.java:396`), without the lock under which the UI
  thread draws.
- `AddedIsAligned`: a redraw that is requested after an overlay's setup and before it is
  in the list (`OverlayList.java:47`) misses it; `missed` excepts that case from `QuietMeansAligned`.
- `RefusedIsAligned`: a pinch scales the matrices of all overlays as it goes on (`ScaleListener.java:41`);
  the zoom that it ends with is refused at a zoom limit (`MapView.java:611` and 617), before anything is
  redrawn or scaled back, so that the overlays stay scaled until the next redraw. `refused` excepts that
  case from `QuietMeansAligned` and `SettlesAligned`.
- `ListedIsAlive`: an overlay that is removed and at once added again is listed, and ends.
- `RemovedEnds` holds.

Points of interest and SQLite:

- `OpenedIsUsable`: a process that dies between two `CREATE`s leaves a file that no
  manager can use: `isValidDataBase` leaves its `SELECT` active, and every `DROP` fails
  (`SQLITE_LOCKED`). The same active statement is what keeps `PointsStay`: a manager that
  cannot read a valid file takes it for an invalid one.
- `CollectionIsStored`: `insertPointsOfInterest` binds values to a statement that has run and
  was not reset, which SQLite refuses: of two or more points none is stored.
- `NeverRaced`: a program that calls from one thread, as `Stmt.java:6` asks ("it is up to the caller to
  ensure that only one thread is in these methods at any one time"), still has the virtual machine's finalizer
  thread in the bridge (`Stmt.java:344`, `Database.java:135`). That one unlinks a statement
  (`sqlite3_jni.c:1447`) from a list that the application is changing; and, as a statement has no reference
  to its Database, it runs `doclose` (lines 518 to 580) between the check of a statement's handle
  (line 2134) and `sqlite3_step` (line 2137), so that the application steps a statement that is finalized. What
  follows is undefined, so that no behaviour is followed any further: `ListsAreExact` and
  `ConnectionOutlivesItsChildren` say what holds until then, which includes all that the application begins between
  the steps of a finalization. One database and one statement are enough for the violation.
- `FinalizedOnce`: `doclose` finalizes a statement that is still open twice (`sqlite3_jni.c:532` and 534).
- `_open4` opens two connections and remembers one; the answer `SQLITE_BUSY` of
  `sqlite3_close` is not looked at, so a blob or a backup that is open leaks the
  connection; the destination of a backup may be closed before the backup.
- `CacheIsCurrent` with two connections of *one* process and a fault (`Start <- OneProcess` in
  `MCPager`): one connection wants to recover a hot journal, does not get the EXCLUSIVE
  lock and stays PENDING; `unixCheckReservedLock` tells the other that somebody has a
  RESERVED lock, so it takes the journal for a live one and reads an unrecovered file.
- `ImplementsAtomicStore` with a new, empty file and two faults (`Start <- NewFile`): the journal
  of an empty file is deleted as obsolete, though the file may have grown.

### Bounds

- `cache_any`: capacity 2 and three jobs, so that there are evictions,
  replacements, and an order of more than two; two images, to tell old from new.
- `thread_ui`: one client; `MaxWork` 2 pending units, enough for work to be added
  while work is done.
- `queue_quiet`, `queue_zoom`: tiles of zoom levels 3, 7 and 8 and two moving threads, so that
  differences of one, four and five occur. `JobQueue` needs no bound; `MaxZoomDiff` 5 keeps every
  priority whole.
- `files`: three jobs, capacities 1 and 2, three file numbers (`MaxFile`), one more
  than entries, so that a number can be skipped, reused after a restart, or left
  over. The number of processes and operations is not bounded; a behaviour sees at most two of the four
  kinds of fault (`MaxKinds`), each as often as it likes. Jobs are symmetric.
- `pipeline`: two visible tiles of three, so that a move keeps one tile and replaces another; two parameters; one
  image in memory, fewer than the screen shows, and two files, fewer than the jobs of two parameters, so that evictions come in the middle of everything. The code's
  capacities are 20 and 100. `MaxOps` 2: one act to leave something behind or to disturb, one to be disturbed. A
  behaviour follows one of two `Plans`: moves, zooms, changes and damaged files, where the
  animator is the second thread that redraws and so shares the bitmap; or redraws, moves, changes, resizes, failures and
  damaged files, with one thread. Both plans in one would be 8.8 million states (checked once). Parameters are symmetric, and
  so are the ends of the row of tiles. 2.65 million states. `pipeline_stale_check` needs one change only.
- `pager`: two pages, so that one can be written and the other not; two connections,
  in two processes or in one (`Starts`); in two processes one transaction meets two faults and two
  transactions meet one, in one process two transactions meet none. A second transaction is what makes a cache
  stale, and a second fault interrupts a recovery. Both at once (two transactions, two
  faults, one page; 1.35 million states) was checked once. The locks alone were checked with
  four connections in two processes.
- `handles`: two databases, which may be the two ends of a backup, with a connection each; a statement, a blob, and
  either a second statement, of the other class, before or after the first in its list, or a backup: `MCInit` lets one
  of the latter two be dead from the start, since both at once take too long. 1.86 million states.
- `poi`: three managers, so that a reader and two writers meet; two points; one crash (`MaxCrash`).
- `lifecycle`: two files and two generators, to tell old from new; five calls (`MaxOps`), enough for a
  layout, a file, an animation, another file and one call more. 191,174 states.
- `overlay`: one call after the overlay was added (`MaxUi` 2) and two moves; a pinch may scale and end on top of
  that. 231,077 states. `MaxUi` 3 with one move (1.77 million states) was checked once, and
  `QuietMeansAligned` is proved for any number.

### Fairness

`PausableThread`: the Java scheduler runs a runnable thread (weak fairness of
`Run`), a timed wait ends, and a producer reaches its `notify` (strong fairness,
because the monitor it needs is given up again and again). `doWork` is assumed to
return. Nobody need pause, interrupt or proceed. `TilePipeline`: each thread goes
on with what it has begun (weak fairness of its steps, in `FairSpec`); nobody need redraw. The run needs no fairness: `WorkShrinks`
is about single steps. `MapViewLifecycle` and `Overlay`: each
thread that can go on does (weak fairness of its steps), and the UI thread ends the
calls that it has begun; nobody need call anything. An animation's end is one of two outcomes of a step in
`MapViewLifecycle`, and it need not come; in `Overlay` it comes, because the animator has
finitely much to scale. The modules of `mapsforge-poi` state safety only:
a busy lock makes a call fail, and nothing there waits.
`CHECK_DEADLOCK FALSE` stands where a
system may stop: a dead thread, a screen at rest, a crashed process, a bound that is used up.

## Proofs

All theorems are for any constants that satisfy the named assumptions (capacity
and bounds are naturals, priorities are naturals, an image is not `NoImage`,
connections are finitely many).

- `InMemoryTileCache_proofs`. `TypeOK` and `BitmapsUnshared` are inductive together;
  `OrderIsTotal` with `TypeOK`. `SizeIsFixed` counts: `Mapped`, `Pooled` and `Leaked` are
  disjoint, so their cardinalities add up (`BitmapsAddUp`), and a step moves one
  bitmap. `ChecksSuffice` is one step's case: where the put job was absent, the
  bitmap that leaves the map or the pool is the one that comes back.
  `PoolNeverEmpty` is the count without leaks: at most `Capacity` bitmaps of
  `Capacity + 1` are mapped. `Refinement` maps the
  abstract image of a job to the pixels of its bitmap; it needs `BitmapsUnshared`, so
  that a copy changes no other image, and the count, so that an eviction happens
  exactly at capacity. It holds for any client; an ignored put is a stutter. Two lemmas
  say what `TilePipeline` needs of a put: it changes no other entry's image
  (`PutKeepsImages`), and of `Capacity` entries the one that `get` returned last is not
  the eldest, so that it outlives the puts of fewer than `Capacity` other jobs (`PutSparesBitmap`).
- `TilePipeline_proofs`. The pipeline's threads are clients of the kind that
  `InMemoryTileCache_proofs` is about, so the instance `Cache` of that module lends its lemmas (`UsesCache`,
  `UnsharedCorrect`). `RendersOnlyMissingTiles` is inductive with `TypeOK`, because only the worker
  saves files. `OnlySharingMixesCorrect` is for any threads that redraw: until `mixed`, what a thread
  has read from a file is the image of its job until it is stored (`ReadsItsTile`), and a put
  paints over no other entry for none shares its bitmap. `FrameShowsCorrect` assumes `Still`:
  one redrawing thread, which never mixes (`NeverMixed`), no plan with moves or zooms, and fewer visible tiles than `Capacity`. From `get` to `drawBitmap`
  that thread holds a bitmap that nobody protects. What can evict it are puts of
  the queued jobs and the worker's (`Rivals`), which are fewer than `Capacity`, as all queued ones are
  of visible tiles (`StaysInView`); so the bitmap is still in place (`HeldBitmapStays`). With
  fewer entries than that the property is false, as said above.
- `FileSystemTileCache_proofs`. The invariant is `FilesInv`. `HasItsFile` alone is not
  inductive: that a new file is no entry's needs that `cacheId` grows past the files
  of this process (`NumbersGrow`) and that the file being written is no entry's
  (`WritingIsNew`); that a restart finds its images needs the same of the saved
  map (`SavedWaits`). Faults only accumulate (`DamagedForEver`), so the
  exceptions stay true. `SizeIsBounded` is inductive with the size of the saved map.
  `EvictsEldestFirst` needs that the job of a put has no entry yet (`PutIsNew`). `NoOrphans`
  follows from `OrphanInv`, which says who still knows of an image: the map, the put in progress,
  or between processes `cache.ser`. `DestroyCleansUp` is inductive as it stands.
  `PersistentCacheCorrect` is the refinement: until a file is lost or cannot be deleted, all processes together use one
  persistent LRU cache. Its image of a job is what the entry's file shows, of the map in memory or, between
  processes, of `cache.ser`. `FilesInv` makes every image that of its job, which leaves sets of jobs to compare; `HandsOver`
  says what a process knows of `cache.ser` while it begins (the same map, so that being killed then
  changes nothing) and ends (it only clears a persistent cache that it failed to write). Restarts, the opening of a file
  and failed puts are stutters. The cache is allowed to lose everything when its process is killed,
  because `cache.ser` is deleted when it is read, and when `cache.ser` cannot be written. That a saved map names complete
  images (`SavedCorrect`) is checked as a part of it.
- `MapWorker_proofs`, the thread. `PausingThreadIsIdle` is inductive with `TypeOK` for any
  set of clients. `AwaitedThreadIsIdle` is for one client: with two, one may
  proceed while the other relies on the pause.
- `MapWorker_proofs`, its queue. `QuietQueueIsScheduled` is inductive because a thread that moved
  or added is in `moving` until `requestSchedule`, and a request needs the
  monitor that `poll` holds. `PollsMostImportant` follows at the one step that removes
  a least job.
- `Overlay_proofs`. `QuietMeansAligned` speaks of states at rest; `FollowsInv` says how a change gets
  there. While a thread has changed the position or the matrix and has not
  requested a redraw yet (`RequestComes`), and while a flag is set, nothing is asked; else what the
  overlay's thread has read so far is the position (`Follows`). Only that a walk's request reaches the
  overlay needs the list: who counts the elements finds it, unless it is just being added.
  A pinch in progress, or the zoom that it ends with, is a request to come, unless it is refused; whoever scales
  the overlays has yet to end an animation or a pinch (`ScalingEnds`). `GetsDimensions` is why a redraw is not skipped for lack of a size, and `UnlistedEnds` why a removed
  overlay is not added again while it still runs.
- `Pager_proofs`, the locks. `LocksExclude` says nothing of the POSIX locks, which are why it
  holds between processes, nor of `unixInodeInfo`, which is why it holds within one. `LocksInv` ties the
  three together: `nShared` is the number of connections with a lock (`Counted`),
  `inodeLock` is the highest of their levels (`Highest`), at most one of them is above SHARED
  (`Single`), the POSIX locks follow from `inodeLock` (`Bytes`), and no byte has two
  writers (`Exclusive`). It holds for any number of connections and processes.
- `Pager_proofs`, the pager. Every step of the pager is a step of the locks, so `LocksInv` carries over. `WritesAlone` needs
  that a connection between its EXCLUSIVE lock and the end of its commit, spill,
  rollback or recovery still has it (`HoldsExclusive`); with `LocksInv` the others then have none.
- `Pager_proofs`, the store: `PagerCacheIsCurrent` and `PagerImplementsAtomicStore`, for any connections, numbers
  of pages, losses of power, dying processes and failing calls, under two hypotheses: `Separate` (no process has two
  connections) and `Nonempty` (the file begins with a page). The two exceptions above
  show why neither can be dropped; two of the four `Starts` of `pager` satisfy both. The change counter is a
  number here and has 32 bits in the file, so that `MaxTx` stands for less than 2^32 commits. `StoreInv` is
  inductive. Neither property is near to it, because a page of a cache is only as
  good as the journal from which others may read another image, and the journal only as good as what a loss of power
  leaves of it. Its parts:
  - `FileHasPage`: the first page is never lost, so that the journal is not deleted as obsolete.
  - `Durable`: the journal is well formed (its records are of different pages, not after `orig`), what is
    synced of it is a prefix, and a page on the disk is as readers see it unless its original is among the
    records that a synced header counts (`Protected`). This is the rule of writing ahead, said of the disk.
  - `GhostsUndo`: a journal that a loss of power may bring back gives the image or the one before.
  - `Control`, `Locked`, `HotIsOwn`: the places of a call that go with each `eState`, the locks that each place has, and
    that a hot journal without its writer is met by nobody who trusts the file.
  - `ConnInv`: what the cache is worth at each place. A closed connection's is outdated in a way that its change
    counter shows (`Outdated`), a reader's is that of the file (`UpToDate`), a writer's pages are its own or the
    originals (`Originals`), the journal is ahead of the file (`WriteAhead`), and a rollback and a recovery
    differ from the image only by records that are still to be played.

  Most steps keep the image, so that only two arguments are long: which pages a write,
  a playback or half a write may touch (`FileStep` wants them `Protected`), and what the deletion of the
  journal makes of the image (`Unlink`). Files and journals never need induction: what `pager_playback` makes
  of a file is said page by page (`RecoveredHot`). TLC checked `StoreInv` on the two starts before it was proved.
  The refinement maps `Validate` to the abstract `Begin`, the `Unlink` of a commit to `Commit`, where it
  needs that nobody else reads, `SyncRecords` to `Settle` or a stutter, the ends of transactions, failures and
  dying processes to `End`, `LosePower` to itself, where it needs `Durable` and
  `GhostsUndo`, and all else to a stutter.
- `Poi_proofs`, the store. `PoiInv` says where a manager's place implies its lock (`Placed`), that one
  manager writes (`OneWriter`), and how its transaction differs from the file at each
  statement (`Written`). `BEGIN` fails in a transaction that an earlier call left open, so
  only a transaction with both its statements is committed. That `create` is only
  reached with an active `SELECT` is what `PointsStay` needs.
- `Poi_proofs`, the handles. `Exact` is `ListsAreExact` for the handles that are not there as well, whose
  lists are empty. `Connected` says that no two handles share a connection, that what a handle or a child
  refers to is open, and that a handle's connection has no statements but its own: so when
  `doclose` has finalized those of its list, only blobs and backups can keep the connection open. `Finalizing`
  says what the two threads rely on between their steps: nobody else frees the node that the finalizer thread is about to
  unlink, unless the whole handle goes, and what the application is in the middle of is held by it. Each step
  of `doclose` keeps `Exact` and `Connected`, which is why a method that begins between two of them is safe. Where one thread
  overtakes the other the program is undefined, and the invariant only says that no step follows.
- `MapViewLifecycle_proofs`. `IInv` says which file `MapDatabase` stands for at each step of
  `setMapFile` (`Database`), and that from `awaitPausing` to the opened file all threads rest with
  nothing to do (`AtRest`), which is why it is harmless that they may proceed too early.
  `Ending` orders the calls: what `destroy` closes is not read by the
  worker, unless an interrupt cut the wait for it short (`hasty`).

Only model-checked: liveness, for which TLAPS has no rule that fits; of `TilePipeline`
`UndisturbedMeansComplete`, which depends on what has been asked for before, and `WorkShrinks`, whose sums over sets and tables of
steps are data; `TileScheduler`'s
arithmetic (`OtherZoomLosesImportance`), which needs powers, a recursive definition. The runs of `pager` also
check `CacheIsCurrent` and `ImplementsAtomicStore` where the theorems do not apply: an empty file with a
fault, and two connections of one process without one.

## Not modelled

- Drawing, label placement, themes, gestures and widgets: data, not control.
- Map files, the map writer, clustering and the servers: sequential batch work or input
  and output.
- Most of the vendored `sqlite3.c`, which with 127,798 of their 141,318 lines dominates
  the C sources: the SQL parser, code generator and virtual machine, b-trees, full-text
  and r-tree tables, memory management, other operating systems, the write-ahead log
  that this build never turns on. What mapsforge relies on is that its file survives
  crashes and that two connections do not disturb each other, so the pager and its locks are
  modelled; the rest computes results of SQL, and models of it would either repeat it
  line by line or say nothing. The ciphers (`rijndael.c`, `codec.c`) and generated protocol buffers
  are left out for the same reason.
- The zeroing and rewinding of byte buffers by Android's `Bitmap`.

`PROJECT.json` gives the reason per component.

## Plan

What is left, in this order:

1. `FrameBuffer`: its two bitmaps and its matrix against the drawn tiles, as `Overlay` has
   them for overlays.
2. `LongPressDetector`: a long press is reported only of a press that lasted.
3. Routing: the heap with its index against a priority queue, the device's caches,
   the threaded computations; then the map reader's index cache and the map writer's
   tile bookkeeping.
4. `PoiStore` over `Pager`: that a manager's transaction is the pager's.
