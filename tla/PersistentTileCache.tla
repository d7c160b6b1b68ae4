-------------------------- MODULE PersistentTileCache --------------------------
(* What TileCache promises of a cache with a variable size that can be        *)
(* persistent, over all the processes that use it one after the other: a map  *)
(* from jobs to images that discards those used longest ago. A persistent     *)
(* cache is in the next process what it was in the last one, its order of use *)
(* and its bound included, unless it could not be saved or the process was    *)
(* killed. Then, and if it is not persistent, the next one starts anew.       *)
EXTENDS Integers, FiniteSets

CONSTANTS Job,
          NoImage,           \* get's null
          DefaultCapacity,   \* of a new cache
          Capacities         \* what setCapacity is called with

VARIABLES image,      \* [Job -> Job \cup {NoImage}]: an image is the job that it shows
          older,      \* <<j, k>>: j was used before k, both being cached
          bound,      \* "the maximum number of entries in this cache"
          persistent,
          unsaved     \* the persistent cache could not be saved

content == <<image, older, bound>>
cacheVars == <<content, persistent, unsaved>>

Cached == {j \in Job : image[j] # NoImage}

(* The order of use once a job is the last one used.                          *)
Used(job) ==
  LET rest == Cached \ {job}
  IN  {p \in older : p[1] \in rest /\ p[2] \in rest} \cup (rest \X {job})

Among(order, jobs) == {p \in order : p[1] \in jobs /\ p[2] \in jobs}

Anew == /\ image' = [j \in Job |-> NoImage]
        /\ older' = {}
        /\ bound' = DefaultCapacity

Init == /\ image = [j \in Job |-> NoImage]
        /\ older = {}
        /\ bound = DefaultCapacity
        /\ persistent = FALSE
        /\ unsaved = FALSE

Get(job) == /\ job \in Cached
            /\ older' = Used(job)
            /\ UNCHANGED <<image, bound, persistent, unsaved>>

PutKeepsAll(job) == /\ job \notin Cached
                    /\ Cardinality(Cached) < bound
                    /\ image' = [image EXCEPT ![job] = job]
                    /\ older' = Used(job)
                    /\ UNCHANGED <<bound, persistent, unsaved>>

(* The eldest may be the new one: the bound can be 0.                         *)
PutDiscards(job) ==
  /\ job \notin Cached
  /\ Cardinality(Cached) = bound
  /\ \E eldest \in Cached \cup {job} :
       LET kept == (Cached \cup {job}) \ {eldest} IN
       /\ {eldest} \X kept \subseteq Used(job)
       /\ image' = [j \in Job |-> IF j \notin kept THEN NoImage
                                  ELSE IF j = job THEN job ELSE image[j]]
       /\ older' = Among(Used(job), kept)
  /\ UNCHANGED <<bound, persistent, unsaved>>

(* "items are discarded based on the cache policy"                            *)
SetCapacity(c) ==
  /\ bound' = c
  /\ \E kept \in SUBSET Cached :
       /\ kept = Cached \/ Cardinality(kept) = c
       /\ Cardinality(kept) <= c
       /\ (Cached \ kept) \X kept \subseteq older
       /\ image' = [j \in Job |-> IF j \in kept THEN image[j] ELSE NoImage]
       /\ older' = Among(older, kept)
  /\ UNCHANGED <<persistent, unsaved>>

SetPersistent(p) == persistent' = p /\ UNCHANGED <<content, unsaved>>

SavingFails == persistent /\ unsaved' = TRUE /\ UNCHANGED <<content, persistent>>

Destroy == /\ IF persistent /\ ~unsaved THEN UNCHANGED content ELSE Anew
           /\ persistent' = FALSE
           /\ unsaved' = FALSE

(* A killed process takes its cache along; one that has only just begun need  *)
(* not.                                                                       *)
Crash == /\ UNCHANGED content \/ Anew
         /\ persistent' = FALSE
         /\ unsaved' = FALSE

Next == \/ \E job \in Job : Get(job) \/ PutKeepsAll(job) \/ PutDiscards(job)
        \/ \E c \in Capacities : SetCapacity(c)
        \/ \E p \in BOOLEAN : SetPersistent(p)
        \/ SavingFails \/ Destroy \/ Crash

Spec == Init /\ [][Next]_cacheVars
=============================================================================
