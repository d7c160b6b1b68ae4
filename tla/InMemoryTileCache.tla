-------------------------- MODULE InMemoryTileCache --------------------------
(* InMemoryTileCache.java: an access-ordered LinkedHashMap over a pool of     *)
(* Capacity + 1 preallocated bitmaps. A put takes a bitmap from the pool and  *)
(* copies the image into it; an eviction gives the bitmap of the eldest entry *)
(* back. Every method runs inside synchronized (map): one action each.        *)
(* containsKey changes nothing and does not count as an access.               *)
EXTENDS Integers, Sequences, FiniteSets

CONSTANTS Job, Image, NoImage, Capacity

ASSUME CapacityAssumption == Capacity \in Nat
ASSUME ImageAssumption == NoImage \notin Image

VARIABLES map,         \* [Job -> Bitmap \cup {NoBitmap}], the entries
          older,       \* the access order: <<j, k>> when j comes before k
          bitmapPool,  \* the free bitmaps, a list used at its end
          pixels,      \* what each bitmap shows
          recycled     \* the bitmaps that were recycled

vars == <<map, older, bitmapPool, pixels, recycled>>

(* Operators whose names have an underscore are broken variants of the        *)
(* definition that follows them, for checking that the properties notice.     *)
Bitmap_NoSpare == 1 .. Capacity
Bitmap == 1 .. Capacity + 1    \* createBitmapPool(capacity + 1)
NoBitmap == 0                  \* map.get's null

Keys == {j \in Job : map[j] # NoBitmap}
Mapped == {map[j] : j \in Keys}
Pooled == {bitmapPool[i] : i \in DOMAIN bitmapPool}

(* The access order of LinkedHashMap once `kept` remains and `job` is moved   *)
(* to its end.                                                                *)
Accessed(kept, job) ==
  LET rest == kept \ {job}
  IN  {p \in older : p[1] \in rest /\ p[2] \in rest} \cup (rest \X {job})

IsEldest_Youngest(job) ==
  job \in Keys /\ \A other \in Keys \ {job} : <<other, job>> \in older

IsEldest(job) ==
  job \in Keys /\ \A other \in Keys \ {job} : <<job, other>> \in older

Init == /\ map = [j \in Job |-> NoBitmap]
        /\ older = {}
        /\ bitmapPool = [b \in Bitmap |-> b]
        /\ pixels = [b \in Bitmap |-> NoImage]
        /\ recycled = {}

Get(job) == /\ job \in Keys
            /\ older' = Accessed(Keys, job)
            /\ UNCHANGED <<map, bitmapPool, pixels, recycled>>

AllButLast_OnlyGets == bitmapPool

(* bitmapPool.remove(bitmapPool.size() - 1)                                   *)
Last == bitmapPool[Len(bitmapPool)]
AllButLast == SubSeq(bitmapPool, 1, Len(bitmapPool) - 1)

(* Both early returns of put.                                                 *)
PutIgnored(job, img) == /\ Capacity = 0 \/ bitmapPool = <<>>
                        /\ UNCHANGED vars

(* The part of put that copies the image into the last bitmap of the pool.    *)
Copies(img) == /\ Capacity > 0
               /\ bitmapPool # <<>>
               /\ pixels' = [pixels EXCEPT ![Last] = img]
               /\ UNCHANGED recycled

(* map.put of a job that has an entry: only its value is replaced, so nobody  *)
(* asks removeEldestEntry and the former bitmap goes nowhere.                 *)
PutReplaces(job, img) ==
  /\ Copies(img)
  /\ job \in Keys
  /\ map' = [map EXCEPT ![job] = Last]
  /\ older' = Accessed(Keys, job)
  /\ bitmapPool' = AllButLast

PutAdds(job, img) ==
  /\ Copies(img)
  /\ job \notin Keys
  /\ Cardinality(Keys) < Capacity
  /\ map' = [map EXCEPT ![job] = Last]
  /\ older' = Accessed(Keys, job)
  /\ bitmapPool' = AllButLast

PutEvicts_ForgetsBitmap(job, img) ==
  /\ Copies(img)
  /\ job \notin Keys
  /\ Cardinality(Keys) >= Capacity
  /\ \E eldest \in Keys :
       /\ IsEldest(eldest)
       /\ map' = [map EXCEPT ![eldest] = NoBitmap, ![job] = Last]
       /\ older' = Accessed(Keys \ {eldest}, job)
       /\ bitmapPool' = AllButLast

(* removeEldestEntry finds size() > mapCapacity.                              *)
PutEvicts(job, img) ==
  /\ Copies(img)
  /\ job \notin Keys
  /\ Cardinality(Keys) >= Capacity
  /\ \E eldest \in Keys :
       /\ IsEldest(eldest)
       /\ map' = [map EXCEPT ![eldest] = NoBitmap, ![job] = Last]
       /\ older' = Accessed(Keys \ {eldest}, job)
       /\ bitmapPool' = Append(AllButLast, map[eldest])

Put(job, img) == \/ PutIgnored(job, img)
                 \/ PutReplaces(job, img)
                 \/ PutAdds(job, img)
                 \/ PutEvicts(job, img)

Destroy == /\ recycled' = recycled \cup Mapped \cup Pooled
           /\ map' = [j \in Job |-> NoBitmap]
           /\ older' = {}
           /\ bitmapPool' = <<>>
           /\ UNCHANGED pixels

-----------------------------------------------------------------------------
(* Any client, and clients that put only what containsKey just denied, as one *)
(* thread alone does (MapWorker.doWork, MapView.redrawTiles).                 *)
Next == \/ \E job \in Job : Get(job) \/ \E img \in Image : Put(job, img)
        \/ Destroy

NextChecked == \/ \E job \in Job : \/ Get(job)
                                   \/ job \notin Keys /\ \E img \in Image : Put(job, img)
               \/ Destroy

Spec == Init /\ [][Next]_vars
CheckedSpec == Init /\ [][NextChecked]_vars

-----------------------------------------------------------------------------
Leaked == Bitmap \ (Mapped \cup Pooled \cup recycled)

TypeOK == /\ map \in [Job -> Bitmap \cup {NoBitmap}]
          /\ older \subseteq Job \X Job
          /\ bitmapPool \in Seq(Bitmap)
          /\ pixels \in [Bitmap -> Image \cup {NoImage}]
          /\ recycled \subseteq Bitmap

(* No bitmap is in two places: two entries never share one, the pool never    *)
(* holds one twice nor one that an entry still shows. Otherwise the next put  *)
(* would paint over a cached tile (put, lines 140-146, and the bitmap that    *)
(* removeEldestEntry gives back, line 58).                                    *)
BitmapsUnshared ==
  /\ \A j, k \in Keys : map[j] = map[k] => j = k
  /\ \A m, n \in DOMAIN bitmapPool : bitmapPool[m] = bitmapPool[n] => m = n
  /\ Mapped \cap Pooled = {}

(* The access order is a strict total order of the entries, so that there is  *)
(* always exactly one eldest entry to evict.                                  *)
OrderIsTotal ==
  /\ older \subseteq Keys \X Keys
  /\ \A j, k, m \in Keys :
       /\ <<j, j>> \notin older
       /\ j # k => <<j, k>> \in older \/ <<k, j>> \in older
       /\ <<j, k>> \in older /\ <<k, m>> \in older => <<j, m>> \in older

(* "A cache with a fixed size": the entries never exceed the capacity, and a  *)
(* leaked bitmap is paid for: entries, free and leaked bitmaps are            *)
(* Capacity + 1 together until the cache is destroyed.                        *)
SizeIsFixed ==
  /\ Cardinality(Keys) <= Capacity
  /\ recycled = {} =>
       Cardinality(Keys) + Len(bitmapPool) + Cardinality(Leaked) = Capacity + 1

NothingLeaks == Leaked = {}

(* Only a put of a job that is cached already loses a bitmap: clients that    *)
(* check first never do ...                                                   *)
ChecksSuffice == [][NothingLeaks /\ NextChecked => NothingLeaks']_vars

(* ... and then the spare bitmap of createBitmapPool(capacity + 1) is enough  *)
(* for the early return on an empty pool never to be taken before destroy.    *)
PoolNeverEmpty == recycled = {} /\ NothingLeaks => bitmapPool # <<>>

(* One lost bitmap is enough to freeze the cache: when it is full again, every *)
(* put finds an empty pool, so that its jobs never change until destroy.      *)
LeakFreezes ==
  [][Leaked # {} /\ Cardinality(Keys) = Capacity => Keys' = Keys \/ Keys' = {}]_vars

-----------------------------------------------------------------------------
(* The images that get returns.                                               *)
Shown == [j \in Job |-> IF j \in Keys THEN pixels[map[j]] ELSE NoImage]

Promised == INSTANCE TileCache WITH image <- Shown, destroyed <- recycled # {}

(* Whatever the clients do, get sees a cache with LRU policy: a put that is   *)
(* not ignored stores its image and discards at most the entry used longest   *)
(* ago. That no put is ignored is PoolNeverEmpty.                             *)
ImplementsTileCache == Promised!Spec
=============================================================================
