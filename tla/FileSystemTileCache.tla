------------------------- MODULE FileSystemTileCache -------------------------
(* FileSystemTileCache.java: an access-ordered LinkedHashMap from jobs to     *)
(* files, which a persistent cache serializes into cache.ser for the next     *)
(* process. Every method holds the monitor, so that calls do not interleave;  *)
(* what does is the end of the process, between any two operations on the     *)
(* external storage. The content of an image file is the job that it shows.   *)
EXTENDS Integers, FiniteSets

CONSTANTS Job,
          Absent, Partial,   \* no file, and a file with too few bytes
          DefaultCapacity,   \* what MapView gives to the constructor
          Capacities,        \* what setCapacity is called with
          MaxFile,           \* bound on the numbers that files are named with
          MaxKinds           \* bound on the kinds of fault in one behaviour

Fault == {"crash", "write", "delete", "loss"}

ASSUME BoundsAssumption == MaxFile \in Nat /\ MaxKinds \in Nat
ASSUME CapacityAssumption == {DefaultCapacity} \cup Capacities \subseteq Nat
ASSUME ContentAssumption == Absent \notin Job /\ Partial \notin Job /\ Absent # Partial

VARIABLES at,          \* where the process is in the life of the cache
          map,         \* [Job -> File \cup {NoFile}]
          older,       \* the access order: <<j, k>> when j comes before k
          mapCapacity, \* the bound that the map was created with
          capacity, cacheId, persistent,
          writing,     \* the job and the file of the put in progress
          disk,        \* [File -> Job \cup {Absent, Partial}]
          saved,       \* cache.ser: a map if is = "map"
          restored,    \* the map was read from cache.ser
          faults       \* the kinds of fault so far

heap == <<map, older, mapCapacity, capacity, cacheId, persistent, writing, restored>>
vars == <<at, heap, disk, saved, faults>>

File == 1 .. MaxFile
NoFile == 0
Content == Job \cup {Absent, Partial}

NoMap == [j \in Job |-> NoFile]
Nothing(is) == [is |-> is, map |-> NoMap, older |-> {}, mapCapacity |-> 0]
NotWriting == <<>>
Over == {"destroyed", "killed"}   \* there is no cache object

Keys == {j \in Job : map[j] # NoFile}
Images == {f \in File : disk[f] # Absent}

Accessed(kept, job) ==
  LET rest == kept \ {job}
  IN  {p \in older : p[1] \in rest /\ p[2] \in rest} \cup (rest \X {job})

Happens(fault) == /\ faults' = faults \cup {fault}
                  /\ Cardinality(faults \cup {fault}) <= MaxKinds

(* File.delete for each of `files`, of which it leaves some if it fails;      *)
(* deleteOnExit does nothing for a process that is killed.                    *)
Deletes(files, left) == /\ left \subseteq files
                        /\ IF left = {} THEN UNCHANGED faults ELSE Happens("delete")

(* Nothing in memory outlives destroy or the process.                         *)
Ends(how) == /\ at' = how
             /\ map' = NoMap /\ older' = {} /\ writing' = NotWriting
             /\ mapCapacity' = 0 /\ capacity' = 0 /\ cacheId' = 0
             /\ persistent' = FALSE /\ restored' = FALSE

Init == /\ at = "destroyed"
        /\ map = NoMap /\ older = {} /\ writing = NotWriting
        /\ mapCapacity = 0 /\ capacity = 0 /\ cacheId = 0
        /\ persistent = FALSE /\ restored = FALSE
        /\ disk = [f \in File |-> Absent]
        /\ saved = Nothing("none")
        /\ faults = {}

-----------------------------------------------------------------------------
(* The constructor                                                            *)

(* deserializeMap returns null if there is no cache.ser or it is unreadable.  *)
StartEmpty == /\ at \in Over
              /\ saved.is # "map"
              /\ at' = "up"
              /\ capacity' = DefaultCapacity /\ mapCapacity' = DefaultCapacity
              /\ UNCHANGED <<map, older, cacheId, persistent, writing, restored, disk, saved, faults>>

(* The map comes with the bound that it was created with.                     *)
StartRestored == /\ at \in Over
                 /\ saved.is = "map"
                 /\ at' = "restoring"
                 /\ map' = saved.map /\ older' = saved.older /\ mapCapacity' = saved.mapCapacity
                 /\ capacity' = DefaultCapacity
                 /\ restored' = TRUE
                 /\ UNCHANGED <<cacheId, persistent, writing, disk, saved, faults>>

DeleteSaved_Keeps == /\ at = "restoring"
                     /\ at' = "up"
                     /\ UNCHANGED <<heap, disk, saved, faults>>

DeleteSaved == /\ at = "restoring"
               /\ at' = "up"
               /\ \/ saved' = Nothing("none") /\ UNCHANGED faults
                  \/ UNCHANGED saved /\ Happens("delete")
               /\ UNCHANGED <<heap, disk>>

-----------------------------------------------------------------------------
(* get. A file that is gone loses its entry; one with too few bytes keeps it. *)
Get(job) ==
  /\ at = "up" /\ capacity > 0
  /\ job \in Keys
  /\ IF disk[map[job]] = Absent
       THEN /\ map' = [map EXCEPT ![job] = NoFile]
            /\ older' = {p \in older : job \notin {p[1], p[2]}}
       ELSE /\ older' = Accessed(Keys, job)
            /\ UNCHANGED map
  /\ UNCHANGED <<at, mapCapacity, capacity, cacheId, persistent, writing, restored,
                 disk, saved, faults>>

NextFile_Unchecked(file) == file = cacheId + 1

(* The next number that no file has: ++cacheId while the file exists.         *)
NextFile(file) == /\ file > cacheId /\ file \notin Images
                  /\ \A f \in File : cacheId < f /\ f < file => f \in Images

(* put opens the file. Its only client, MapWorker, puts absent jobs.          *)
PutOpens(job) ==
  /\ at = "up" /\ capacity > 0
  /\ job \notin Keys
  /\ \E file \in File :
       /\ NextFile(file)
       /\ cacheId' = file
       /\ writing' = <<job, file>>
       /\ disk' = [disk EXCEPT ![file] = Partial]
  /\ at' = "writing"
  /\ UNCHANGED <<map, older, mapCapacity, capacity, persistent, restored, saved, faults>>

(* map.put of an open file's job, with room for it ...                        *)
PutAdds ==
  /\ at = "writing"
  /\ Cardinality(Keys) < mapCapacity
  /\ LET job == writing[1]  file == writing[2] IN
       /\ map' = [map EXCEPT ![job] = file]
       /\ older' = Accessed(Keys, job)
       /\ disk' = [disk EXCEPT ![file] = job]
  /\ at' = "up" /\ writing' = NotWriting
  /\ UNCHANGED <<mapCapacity, capacity, cacheId, persistent, restored, saved, faults>>

PutEvicts_KeepsFile ==
  /\ at = "writing"
  /\ Cardinality(Keys) >= mapCapacity
  /\ LET job == writing[1]  file == writing[2]
         stored == [map EXCEPT ![job] = file] IN
     \E eldest \in Keys \cup {job} :
       /\ \A other \in (Keys \cup {job}) \ {eldest} : <<eldest, other>> \in Accessed(Keys, job)
       /\ map' = [stored EXCEPT ![eldest] = NoFile]
       /\ older' = {p \in Accessed(Keys, job) : eldest \notin {p[1], p[2]}}
       /\ disk' = [disk EXCEPT ![file] = job]
  /\ at' = "up" /\ writing' = NotWriting
  /\ UNCHANGED <<mapCapacity, capacity, cacheId, persistent, restored, saved, faults>>

(* ... and without: removeEldestEntry removes the eldest and its file, which  *)
(* is the new one in a map that was created for no entries.                   *)
PutEvicts ==
  /\ at = "writing"
  /\ Cardinality(Keys) >= mapCapacity
  /\ LET job == writing[1]  file == writing[2]
         stored == [map EXCEPT ![job] = file] IN
     \E eldest \in Keys \cup {job}, left \in SUBSET File :
       /\ \A other \in (Keys \cup {job}) \ {eldest} : <<eldest, other>> \in Accessed(Keys, job)
       /\ map' = [stored EXCEPT ![eldest] = NoFile]
       /\ older' = {p \in Accessed(Keys, job) : eldest \notin {p[1], p[2]}}
       /\ Deletes({stored[eldest]}, left)
       /\ disk' = [f \in File |-> IF f = stored[eldest] /\ f \notin left THEN Absent
                                  ELSE IF f = file THEN job ELSE disk[f]]
  /\ at' = "up" /\ writing' = NotWriting
  /\ UNCHANGED <<mapCapacity, capacity, cacheId, persistent, restored, saved>>

(* The file cannot be opened, and does not come to be: its number is used up. *)
PutFailsToOpen == /\ at = "up" /\ capacity > 0
                  /\ Keys # Job
                  /\ Happens("write")
                  /\ \E file \in File : NextFile(file) /\ cacheId' = file
                  /\ UNCHANGED <<at, map, older, mapCapacity, capacity, persistent, writing,
                                 restored, disk, saved>>

(* A later IOException leaves the file that was begun.                        *)
PutFails == /\ at = "writing"
            /\ Happens("write")
            /\ at' = "up" /\ writing' = NotWriting
            /\ UNCHANGED <<map, older, mapCapacity, capacity, cacheId, persistent, restored,
                           disk, saved>>

-----------------------------------------------------------------------------
SetCapacity_KeepsAll(c) ==
  /\ at = "up" /\ c # capacity
  /\ capacity' = c /\ mapCapacity' = c
  /\ UNCHANGED <<at, map, older, cacheId, persistent, writing, restored, disk, saved, faults>>

SetCapacity_KeepsEldest(c) ==
  /\ at = "up" /\ c # capacity
  /\ capacity' = c /\ mapCapacity' = c
  /\ \E kept \in SUBSET Keys :
       /\ kept = Keys \/ Cardinality(kept) = c
       /\ Cardinality(kept) <= c
       /\ \A j \in Keys \ kept, k \in kept : <<k, j>> \in older
       /\ map' = [j \in Job |-> IF j \in kept THEN map[j] ELSE NoFile]
       /\ older' = {p \in older : p[1] \in kept /\ p[2] \in kept}
       /\ disk' = [f \in File |-> IF \E j \in Keys \ kept : f = map[j] THEN Absent ELSE disk[f]]
  /\ UNCHANGED <<at, cacheId, persistent, writing, restored, saved, faults>>

(* setCapacity puts all entries, from the eldest on, into a new map, which    *)
(* evicts as it grows, and so keeps those used last.                          *)
SetCapacity(c) ==
  /\ at = "up" /\ c # capacity
  /\ capacity' = c /\ mapCapacity' = c
  /\ \E kept \in SUBSET Keys, left \in SUBSET File :
       /\ kept = Keys \/ Cardinality(kept) = c
       /\ Cardinality(kept) <= c
       /\ \A j \in Keys \ kept, k \in kept : <<j, k>> \in older
       /\ map' = [j \in Job |-> IF j \in kept THEN map[j] ELSE NoFile]
       /\ older' = {p \in older : p[1] \in kept /\ p[2] \in kept}
       /\ Deletes({map[j] : j \in Keys \ kept}, left)
       /\ disk' = [f \in File |-> IF f \notin left /\ \E j \in Keys \ kept : f = map[j]
                                  THEN Absent ELSE disk[f]]
  /\ UNCHANGED <<at, cacheId, persistent, writing, restored, saved>>

SetPersistent(p) == /\ at = "up"
                    /\ persistent' = p
                    /\ UNCHANGED <<at, map, older, mapCapacity, capacity, cacheId, writing,
                                   restored, disk, saved, faults>>

-----------------------------------------------------------------------------
(* destroy: a persistent cache is serialized ...                              *)
DestroySaves == /\ at = "up" /\ persistent
                /\ at' = "saving"
                /\ saved' = Nothing("broken")
                /\ UNCHANGED <<heap, disk, faults>>

(* ... unless an old cache.ser cannot be deleted. Otherwise files are removed. *)
DestroyClears == /\ at = "up"
                 /\ IF persistent THEN saved.is # "none" /\ Happens("delete")
                                  ELSE UNCHANGED faults
                 /\ at' = "clearing"
                 /\ UNCHANGED <<heap, disk, saved>>

SaveEnds == /\ at = "saving"
            /\ saved' = [is |-> "map", map |-> map, older |-> older, mapCapacity |-> mapCapacity]
            /\ Ends("destroyed")
            /\ UNCHANGED <<disk, faults>>

SaveFails == /\ at = "saving"
             /\ Happens("write")
             /\ at' = "clearing"
             /\ UNCHANGED <<heap, disk, saved>>

ClearEnds_MappedOnly ==
  /\ at = "clearing"
  /\ disk' = [f \in File |-> IF \E j \in Keys : f = map[j] THEN Absent ELSE disk[f]]
  /\ Ends("destroyed")
  /\ UNCHANGED <<saved, faults>>

(* The files of the map, and then every file with the name of an image.       *)
ClearEnds == /\ at = "clearing"
             /\ \E left \in SUBSET Images :
                  /\ Deletes(Images, left)
                  /\ disk' = [f \in File |-> IF f \in left THEN disk[f] ELSE Absent]
             /\ Ends("destroyed")
             /\ UNCHANGED saved

-----------------------------------------------------------------------------
(* The environment                                                            *)

(* The process is killed. While it clears, some of the files are gone.        *)
Crash == /\ at \notin Over
         /\ Happens("crash")
         /\ \E gone \in SUBSET Images :
              /\ gone = {} \/ at = "clearing"
              /\ disk' = [f \in File |-> IF f \in gone THEN Absent ELSE disk[f]]
         /\ Ends("killed")
         /\ UNCHANGED saved

(* Somebody else removes or truncates an image.                               *)
LoseFile == /\ Happens("loss")
            /\ \E f \in Images, content \in {Absent, Partial} : disk' = [disk EXCEPT ![f] = content]
            /\ UNCHANGED <<at, heap, saved>>

Next == \/ StartEmpty \/ StartRestored \/ DeleteSaved
        \/ \E job \in Job : Get(job) \/ PutOpens(job)
        \/ PutAdds \/ PutEvicts \/ PutFails \/ PutFailsToOpen
        \/ \E c \in Capacities : SetCapacity(c)
        \/ \E p \in BOOLEAN : SetPersistent(p)
        \/ DestroySaves \/ DestroyClears \/ SaveEnds \/ SaveFails \/ ClearEnds
        \/ Crash \/ LoseFile

Spec == Init /\ [][Next]_vars

-----------------------------------------------------------------------------
Maps == [Job -> File \cup {NoFile}]
Saved == [is : {"none", "broken", "map"}, map : Maps, older : SUBSET (Job \X Job),
          mapCapacity : Nat]
SavedKeys == {j \in Job : saved.map[j] # NoFile}

TypeOK ==
  /\ at \in Over \cup {"restoring", "up", "writing", "saving", "clearing"}
  /\ map \in Maps
  /\ older \subseteq Keys \X Keys
  /\ mapCapacity \in Nat /\ capacity \in Nat /\ cacheId \in File \cup {0}
  /\ persistent \in BOOLEAN /\ restored \in BOOLEAN
  /\ writing \in IF at = "writing" THEN Job \X File ELSE {NotWriting}
  /\ disk \in [File -> Content]
  /\ saved \in Saved /\ saved.older \subseteq SavedKeys \X SavedKeys
  /\ faults \subseteq Fault

(* get never returns the image of another job: an entry's file shows its job, *)
(* however processes were killed between writing images and the map of them.  *)
(* A file that somebody else damaged is no image; only after a restart, which *)
(* numbers files from 1 again, can the name of a lost file be given to        *)
(* another job, or that of one which a cache.ser that could not be deleted    *)
(* brought back.                                                              *)
EntriesHaveTheirFiles ==
  \A job \in Keys :
    \/ disk[map[job]] = job
    \/ faults \cap {"loss", "delete"} # {} /\ (restored \/ disk[map[job]] \in {Absent, Partial})

(* "A variable size": the map stays within the bound it was created with.     *)
SizeIsBounded == Cardinality(Keys) <= mapCapacity

(* No image is left on the external storage without an entry, unless a        *)
(* process was killed or the storage failed.                                  *)
NoOrphans ==
  faults = {} /\ at \in {"restoring", "up", "writing"} =>
    \A f \in Images : (\E job \in Keys : map[job] = f) \/ (at = "writing" /\ f = writing[2])

(* "LRU policy": the entries that a put or setCapacity evicts were used less  *)
(* recently than all that stay. Otherwise only entries of lost files go.      *)
EvictsEldestFirst ==
  [][at' = "up" =>
       \A gone \in Keys \ Keys', kept \in Keys \cap Keys' :
         <<gone, kept>> \in older \/ disk[map[gone]] = Absent]_vars

(* A cache that is destroyed without being saved cleans up, even after        *)
(* earlier processes that were killed.                                        *)
DestroyCleansUp ==
  at = "destroyed" /\ "delete" \notin faults => saved.is = "map" \/ Images = {}
-----------------------------------------------------------------------------
(* The cache over its processes: between two of them it is what cache.ser     *)
(* says, if there is one.                                                     *)
Current ==
  IF at \notin Over THEN [map |-> map, older |-> older, bound |-> mapCapacity]
  ELSE IF saved.is = "map"
    THEN [map |-> saved.map, older |-> saved.older, bound |-> saved.mapCapacity]
    ELSE [map |-> NoMap, older |-> {}, bound |-> DefaultCapacity]

Shown == [j \in Job |-> IF Current.map[j] = NoFile THEN Absent ELSE disk[Current.map[j]]]

Unsaved == at = "clearing" /\ persistent /\ "write" \in faults

Promise == INSTANCE PersistentTileCache
             WITH NoImage <- Absent, image <- Shown, older <- Current.older,
                  bound <- Current.bound, unsaved <- Unsaved

(* "LRU policy", persistence and a size that varies, whenever processes are   *)
(* killed or fail to write: every step of the code is one of the cache that   *)
(* the interface promises, as long as no file is lost or cannot be deleted.   *)
ImplementsPersistentTileCache ==
  Promise!Init /\ [][faults' \cap {"loss", "delete"} # {} \/ Promise!Next]_(Promise!cacheVars)
=============================================================================
