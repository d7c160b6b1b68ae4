------------------------------ MODULE TileCache ------------------------------
(* What the interface TileCache promises, for a cache "with a fixed size and  *)
(* LRU policy": a bounded map from jobs to images. A put stores its image,    *)
(* and the image it may push out is the one whose job was used longest ago.   *)
(* A get and a put are a use; containsKey is none.                            *)
EXTENDS Integers, FiniteSets

CONSTANTS Job,        \* the keys: jobs that equals() tells apart
          Image,      \* tile images
          NoImage,    \* get's null
          Capacity    \* "the maximum number of entries in this cache"

VARIABLES image,      \* [Job -> Image \cup {NoImage}]
          older,      \* <<j, k>>: j was used before k, both being cached
          destroyed

cacheVars == <<image, older, destroyed>>

Cached == {j \in Job : image[j] # NoImage}

(* The order once the jobs of `kept` remain and `job` is the last one used.   *)
UsedLast(order, kept, job) ==
  LET rest == kept \ {job}
  IN  {p \in order : p[1] \in rest /\ p[2] \in rest} \cup (rest \X {job})

IsEldest(order, keys, job) ==
  job \in keys /\ \A other \in keys \ {job} : <<job, other>> \in order

Init == /\ image = [j \in Job |-> NoImage]
        /\ older = {}
        /\ destroyed = FALSE

Get(job) == /\ job \in Cached
            /\ older' = UsedLast(older, Cached, job)
            /\ UNCHANGED <<image, destroyed>>

(* A put of a cached job, or one that leaves the cache within its capacity.   *)
PutKeepsAll(job, img) ==
  /\ ~destroyed
  /\ Capacity > 0
  /\ job \in Cached \/ Cardinality(Cached) < Capacity
  /\ image' = [image EXCEPT ![job] = img]
  /\ older' = UsedLast(older, Cached, job)
  /\ UNCHANGED destroyed

(* A put into a full cache discards the job used longest ago.                 *)
PutDiscards(job, img) ==
  /\ ~destroyed
  /\ Capacity > 0
  /\ job \notin Cached
  /\ Cardinality(Cached) = Capacity
  /\ \E eldest \in Cached :
       /\ IsEldest(older, Cached, eldest)
       /\ image' = [image EXCEPT ![eldest] = NoImage, ![job] = img]
       /\ older' = UsedLast(older, Cached \ {eldest}, job)
  /\ UNCHANGED destroyed

Put(job, img) == PutKeepsAll(job, img) \/ PutDiscards(job, img)

Destroy == /\ destroyed' = TRUE
           /\ image' = [j \in Job |-> NoImage]
           /\ older' = {}

Next == \/ \E job \in Job : Get(job) \/ \E img \in Image : Put(job, img)
        \/ Destroy

Spec == Init /\ [][Next]_cacheVars
=============================================================================
