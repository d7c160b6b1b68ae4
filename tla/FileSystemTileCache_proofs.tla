---------------------- MODULE FileSystemTileCache_proofs ----------------------
(* What the file cache holds for any jobs, capacities and bounds. The point   *)
(* is that numbers of files are unique among the files that exist, and within *)
(* a process even among those that did, so that no put opens the file of an   *)
(* entry; and that a saved map waits only while nothing touches the files.    *)
(* With it the cache is, over all its processes, the persistent LRU cache     *)
(* that its interface promises.                                               *)
EXTENDS FileSystemTileCache, FiniteSetTheorems, TLAPS

(* What one access does to the order.                                         *)
LEMMA AccessedTyped ==
  ASSUME older \subseteq Keys \X Keys, NEW job \in Job
  PROVE  Accessed(Keys, job) \subseteq (Keys \cup {job}) \X (Keys \cup {job})
BY DEF Accessed

LEMMA EndsTyped ==
  ASSUME NEW how \in Over, Ends(how)
  PROVE  /\ at' \in Over /\ map' = NoMap /\ Keys' = {}
         /\ map' \in Maps /\ older' \subseteq Keys' \X Keys'
         /\ mapCapacity' \in Nat /\ capacity' \in Nat /\ cacheId' \in File \cup {0}
         /\ persistent' \in BOOLEAN /\ restored' \in BOOLEAN
         /\ at' # "writing" /\ writing' = NotWriting
BY DEF Ends, Keys, NoMap, NoFile, Maps, Over

LEMMA HappensTyped ==
  ASSUME faults \subseteq Fault, NEW fault \in Fault, Happens(fault)
  PROVE  faults' \subseteq Fault
BY DEF Happens

LEMMA DeletesTyped ==
  ASSUME faults \subseteq Fault, NEW files, NEW left, Deletes(files, left)
  PROVE  faults' \subseteq Fault
BY HappensTyped DEF Deletes, Fault

LEMMA NoMapTyped == NoMap \in Maps
BY DEF NoMap, Maps

LEMMA NothingTyped ==
  ASSUME NEW is \in {"none", "broken"}, saved' = Nothing(is)
  PROVE  saved' \in Saved /\ saved'.is # "map" /\ (saved.older \subseteq SavedKeys \X SavedKeys)'
<1>1. /\ saved'.is = is /\ saved'.map = NoMap
      /\ saved'.older = {} /\ saved'.mapCapacity = 0
  BY DEF Nothing
<1>2. saved' \in Saved
  BY NoMapTyped DEF Nothing, Saved
<1> QED
  BY <1>1, <1>2

(* The state of the file cache is well formed, whatever fails.                *)
THEOREM TypeCorrect == Spec => []TypeOK
<1>1. Init => TypeOK
  <2> SUFFICES ASSUME Init PROVE TypeOK
    OBVIOUS
  <2>1. saved \in Saved /\ saved.older \subseteq SavedKeys \X SavedKeys
    BY NoMapTyped DEF Init, Nothing, Saved
  <2> QED
    BY <2>1, NoMapTyped DEF Init, TypeOK, Over, Keys, NoMap, NoFile, Content
<1>2. TypeOK /\ [Next]_vars => TypeOK'
  <2> SUFFICES ASSUME TypeOK, [Next]_vars PROVE TypeOK'
    OBVIOUS
  <2> USE DEF TypeOK
  <2>0. ASSUME UNCHANGED saved
        PROVE  saved' \in Saved /\ (saved.older \subseteq SavedKeys \X SavedKeys)'
    BY <2>0 DEF SavedKeys
  <2>1. CASE StartEmpty
    BY <2>0, <2>1, CapacityAssumption DEF StartEmpty, Over, Keys
  <2>2. CASE StartRestored
    <3>1. saved.map \in Maps /\ saved.older \subseteq Job \X Job /\ saved.mapCapacity \in Nat
      BY DEF Saved
    <3>2. Keys' = SavedKeys
      BY <2>2 DEF StartRestored, Keys, SavedKeys
    <3> QED
      BY <2>0, <2>2, <3>1, <3>2, CapacityAssumption DEF StartRestored, Over
  <2>3. CASE DeleteSaved
    <3>1. saved' \in Saved /\ (saved.older \subseteq SavedKeys \X SavedKeys)'
      BY <2>0, <2>3, NothingTyped DEF DeleteSaved
    <3>2. faults' \subseteq Fault
      BY <2>3, HappensTyped DEF DeleteSaved, Fault
    <3> QED
      BY <2>3, <3>1, <3>2 DEF DeleteSaved, Over, Keys, heap
  <2>4. ASSUME NEW job \in Job, Get(job) PROVE TypeOK'
    <3>1. CASE disk[map[job]] = Absent
      <4>1. map' = [map EXCEPT ![job] = NoFile] /\ older' = {p \in older : job \notin {p[1], p[2]}}
        BY <2>4, <3>1 DEF Get
      <4>2. Keys' = Keys \ {job} /\ map' \in Maps
        BY <4>1 DEF Keys, Maps, NoFile
      <4> QED
        BY <2>0, <2>4, <4>1, <4>2 DEF Get, Over
    <3>2. CASE disk[map[job]] # Absent
      <4>1. map' = map /\ older' = Accessed(Keys, job) /\ Keys' = Keys /\ job \in Keys
        BY <2>4, <3>2 DEF Get, Keys
      <4>2. older' \subseteq Keys' \X Keys'
        BY <4>1, AccessedTyped
      <4> QED
        BY <2>0, <2>4, <4>1, <4>2 DEF Get, Over
    <3> QED
      BY <3>1, <3>2
  <2>5. ASSUME NEW job \in Job, PutOpens(job) PROVE TypeOK'
    <3>1. PICK file \in File : /\ cacheId' = file /\ writing' = <<job, file>>
                               /\ disk' = [disk EXCEPT ![file] = Partial]
      BY <2>5 DEF PutOpens
    <3> QED
      BY <2>0, <2>5, <3>1 DEF PutOpens, Over, Keys, Content
  <2>6. CASE PutAdds
    <3>0. writing \in Job \X File
      BY <2>6 DEF PutAdds
    <3> DEFINE job == writing[1]
               file == writing[2]
    <3>1. job \in Job /\ file \in File
      BY <3>0
    <3>2. /\ map' = [map EXCEPT ![job] = file] /\ older' = Accessed(Keys, job)
          /\ disk' = [disk EXCEPT ![file] = job]
      BY <2>6 DEF PutAdds
    <3>3. Keys' = Keys \cup {job} /\ map' \in Maps
      BY <3>1, <3>2 DEF Keys, Maps, NoFile, File
    <3>4. older' \subseteq Keys' \X Keys'
      BY <3>1, <3>2, <3>3, AccessedTyped
    <3> QED
      BY <2>0, <2>6, <3>1, <3>2, <3>3, <3>4 DEF PutAdds, Over, Content
  <2>7. CASE PutEvicts
    <3>0. writing \in Job \X File
      BY <2>7 DEF PutEvicts
    <3> DEFINE job == writing[1]
               file == writing[2]
               stored == [map EXCEPT ![job] = file]
    <3>1. job \in Job /\ file \in File
      BY <3>0
    <3>2. PICK eldest \in Keys \cup {job}, left \in SUBSET File :
            /\ map' = [stored EXCEPT ![eldest] = NoFile]
            /\ \A other \in (Keys \cup {job}) \ {eldest} : <<eldest, other>> \in Accessed(Keys, job)
            /\ older' = {p \in Accessed(Keys, job) : eldest \notin {p[1], p[2]}}
            /\ Deletes({stored[eldest]}, left)
            /\ disk' = [f \in File |-> IF f = stored[eldest] /\ f \notin left THEN Absent
                                       ELSE IF f = file THEN job ELSE disk[f]]
      BY <2>7 DEF PutEvicts
    <3>3. Keys' = (Keys \cup {job}) \ {eldest} /\ map' \in Maps
      BY <3>1, <3>2 DEF Keys, Maps, NoFile, File
    <3>4. older' \subseteq Keys' \X Keys'
      BY <3>1, <3>2, <3>3, AccessedTyped
    <3>5. disk' \in [File -> Content]
      BY <3>1, <3>2 DEF Content
    <3>6. faults' \subseteq Fault
      BY <3>2, DeletesTyped
    <3> QED
      BY <2>0, <2>7, <3>3, <3>4, <3>5, <3>6 DEF PutEvicts, Over
  <2>8. CASE PutFails \/ PutFailsToOpen
    BY <2>0, <2>8, HappensTyped DEF PutFails, PutFailsToOpen, Over, Keys, Fault
  <2>9. ASSUME NEW c \in Capacities, SetCapacity(c) PROVE TypeOK'
    <3>1. PICK kept \in SUBSET Keys, left \in SUBSET File :
            /\ map' = [j \in Job |-> IF j \in kept THEN map[j] ELSE NoFile]
            /\ older' = {p \in older : p[1] \in kept /\ p[2] \in kept}
            /\ Deletes({map[j] : j \in Keys \ kept}, left)
            /\ disk' = [f \in File |-> IF f \notin left /\ \E j \in Keys \ kept : f = map[j]
                                       THEN Absent ELSE disk[f]]
      BY <2>9 DEF SetCapacity
    <3>2. Keys' = kept /\ map' \in Maps
      BY <3>1 DEF Keys, Maps, NoFile
    <3>3. faults' \subseteq Fault
      BY <3>1, DeletesTyped
    <3>4. disk' \in [File -> Content]
      BY <3>1 DEF Content
    <3> QED
      BY <2>0, <2>9, <3>1, <3>2, <3>3, <3>4, CapacityAssumption DEF SetCapacity, Over
  <2>10. ASSUME NEW p \in BOOLEAN, SetPersistent(p) PROVE TypeOK'
    BY <2>0, <2>10 DEF SetPersistent, Over, Keys
  <2>11. CASE DestroySaves
    <3>1. saved' \in Saved /\ (saved.older \subseteq SavedKeys \X SavedKeys)'
      BY <2>11, NothingTyped DEF DestroySaves
    <3> QED
      BY <2>11, <3>1 DEF DestroySaves, Over, Keys, heap
  <2>12. CASE DestroyClears
    <3>1. faults' \subseteq Fault
      BY <2>12, HappensTyped DEF DestroyClears, Fault
    <3> QED
      BY <2>0, <2>12, <3>1 DEF DestroyClears, Over, Keys, heap
  <2>13. CASE SaveEnds
    <3>1. saved' = [is |-> "map", map |-> map, older |-> older, mapCapacity |-> mapCapacity]
      BY <2>13 DEF SaveEnds
    <3>2. saved' \in Saved
      BY <3>1 DEF Saved, Keys
    <3>3. SavedKeys' = Keys /\ saved'.older = older
      BY <3>1 DEF SavedKeys, Keys
    <3>4. Ends("destroyed") /\ UNCHANGED <<disk, faults>>
      BY <2>13 DEF SaveEnds
    <3> QED
      BY <3>2, <3>3, <3>4, EndsTyped DEF Over
  <2>14. CASE SaveFails
    BY <2>0, <2>14, HappensTyped DEF SaveFails, Over, Keys, heap, Fault
  <2>15. CASE ClearEnds
    <3>1. PICK left \in SUBSET Images :
            /\ Deletes(Images, left)
            /\ disk' = [f \in File |-> IF f \in left THEN disk[f] ELSE Absent]
      BY <2>15 DEF ClearEnds
    <3>2. disk' \in [File -> Content] /\ faults' \subseteq Fault
      BY <3>1, DeletesTyped DEF Content
    <3>3. Ends("destroyed") /\ UNCHANGED saved
      BY <2>15 DEF ClearEnds
    <3> QED
      BY <2>0, <3>2, <3>3, EndsTyped DEF Over
  <2>16. CASE Crash
    <3>1. disk' \in [File -> Content] /\ faults' \subseteq Fault
      BY <2>16, HappensTyped DEF Crash, Content, Fault
    <3>2. Ends("killed") /\ UNCHANGED saved
      BY <2>16 DEF Crash
    <3> QED
      BY <2>0, <3>1, <3>2, EndsTyped DEF Over
  <2>17. CASE LoseFile
    <3>1. disk' \in [File -> Content] /\ faults' \subseteq Fault
      BY <2>17, HappensTyped DEF LoseFile, Content, Fault
    <3> QED
      BY <2>0, <2>17, <3>1 DEF LoseFile, Over, Keys, heap
  <2>18. CASE UNCHANGED vars
    BY <2>0, <2>18 DEF vars, heap, Over, Keys
  <2> QED
    BY <2>1, <2>2, <2>3, <2>4, <2>5, <2>6, <2>7, <2>8, <2>9, <2>10, <2>11, <2>12, <2>13,
       <2>14, <2>15, <2>16, <2>17, <2>18 DEF Next
<1> QED
  BY <1>1, <1>2, PTL DEF Spec

-----------------------------------------------------------------------------
(* The inductive invariant of the files. Damaged is what the properties       *)
(* exempt; it never ends.                                                     *)
Damaged == faults \cap {"loss", "delete"} # {}
HasItsFile(job) == \/ disk[map[job]] = job
                   \/ Damaged /\ (restored \/ disk[map[job]] \in {Absent, Partial})

(* Within a process numbers only grow.                                        *)
NumbersGrow == ~restored => \A job \in Keys : map[job] <= cacheId

(* The file that is being written has the last number and is nobody else's.   *)
WritingIsNew ==
  at = "writing" => /\ writing[2] = cacheId
                    /\ (restored /\ Damaged) \/ \A job \in Keys : map[job] # writing[2]

(* A saved map waits for the next process, and nothing is done meanwhile.     *)
SavedWaits ==
  saved.is = "map" /\ ~Damaged =>
    at \in Over \cup {"restoring"} /\ \A job \in SavedKeys : disk[saved.map[job]] = job

FilesInv == /\ \A job \in Keys : HasItsFile(job)
            /\ NumbersGrow /\ WritingIsNew /\ SavedWaits

LEMMA DamagedForEver == ASSUME [Next]_vars, Damaged PROVE Damaged'
<1>1. ASSUME NEW files, NEW left, Deletes(files, left) PROVE faults \subseteq faults'
  BY <1>1 DEF Deletes, Happens
<1>2. ASSUME NEW fault, Happens(fault) PROVE faults \subseteq faults'
  BY <1>2 DEF Happens
<1>3. faults \subseteq faults'
  BY <1>1, <1>2 DEF Next, vars, heap, StartEmpty, StartRestored, DeleteSaved, Get, PutOpens, PutAdds,
     PutEvicts, PutFails, PutFailsToOpen, SetCapacity, SetPersistent, DestroySaves, DestroyClears, SaveEnds,
     SaveFails, ClearEnds, Crash, LoseFile
<1> QED
  BY <1>3 DEF Damaged

LEMMA LeftIsDamage ==
  ASSUME NEW files, NEW left, Deletes(files, left), ~Damaged'
  PROVE  left = {}
BY DEF Deletes, Happens, Damaged

LEMMA DeleteIsDamage == ASSUME Happens("delete") \/ Happens("loss") PROVE Damaged'
BY DEF Happens, Damaged

(* The end of a process leaves no entries to care for.                        *)
LEMMA EndsKeepsFiles ==
  ASSUME NEW how \in Over, Ends(how), SavedWaits' PROVE FilesInv'
BY EndsTyped DEF FilesInv, NumbersGrow, WritingIsNew, Over

(* Steps that leave the heap and the images alone.                            *)
LEMMA OthersKeepFiles ==
  ASSUME FilesInv, Damaged => Damaged', UNCHANGED <<map, restored, disk, cacheId>>,
         WritingIsNew', SavedWaits'
  PROVE  FilesInv'
BY DEF FilesInv, HasItsFile, NumbersGrow, Keys

LEMMA FilesStep == ASSUME TypeOK, FilesInv, [Next]_vars PROVE FilesInv'
<1> USE DEF TypeOK
<1>0. Damaged => Damaged'
  BY DamagedForEver
<1>1. CASE StartEmpty
  <2>1. WritingIsNew'
    BY <1>1 DEF StartEmpty, WritingIsNew
  <2>2. SavedWaits'
    BY <1>1 DEF StartEmpty, SavedWaits
  <2> QED
    BY <1>0, <1>1, <2>1, <2>2, OthersKeepFiles DEF StartEmpty
<1>2. CASE StartRestored
  <2>1. Keys' = SavedKeys /\ map' = saved.map /\ restored' = TRUE /\ disk' = disk
    BY <1>2 DEF StartRestored, Keys, SavedKeys
  <2>2. saved.is = "map" /\ saved' = saved /\ faults' = faults /\ at' = "restoring"
    BY <1>2 DEF StartRestored
  <2>3. \A job \in Keys' : HasItsFile(job)'
    BY <2>1, <2>2 DEF FilesInv, SavedWaits, HasItsFile, Damaged
  <2>4. NumbersGrow' /\ WritingIsNew'
    BY <2>1, <2>2 DEF NumbersGrow, WritingIsNew
  <2>5. SavedWaits'
    BY <2>1, <2>2 DEF FilesInv, SavedWaits, SavedKeys, Damaged
  <2> QED
    BY <2>3, <2>4, <2>5 DEF FilesInv
<1>3. CASE DeleteSaved
  <2>1. WritingIsNew'
    BY <1>3 DEF DeleteSaved, WritingIsNew
  <2>2. SavedWaits'
    BY <1>3, DeleteIsDamage, NothingTyped DEF DeleteSaved, SavedWaits
  <2> QED
    BY <1>0, <1>3, <2>1, <2>2, OthersKeepFiles DEF DeleteSaved, heap
<1>4. ASSUME NEW job \in Job, Get(job) PROVE FilesInv'
  <2>1. /\ Keys' \subseteq Keys /\ \A k \in Keys' : map'[k] = map[k]
        /\ UNCHANGED <<at, cacheId, writing, restored, disk, saved, faults>>
    BY <1>4 DEF Get, Keys, Maps
  <2> QED
    BY <2>1 DEF FilesInv, HasItsFile, NumbersGrow, WritingIsNew, SavedWaits, SavedKeys, Damaged
<1>5. ASSUME NEW job \in Job, PutOpens(job) PROVE FilesInv'
  <2>1. PICK file \in File : /\ NextFile(file)
                             /\ cacheId' = file /\ writing' = <<job, file>>
                             /\ disk' = [disk EXCEPT ![file] = Partial]
    BY <1>5 DEF PutOpens
  <2>2. UNCHANGED <<map, restored, saved, faults>> /\ at = "up" /\ Keys' = Keys /\ at' = "writing"
    BY <1>5 DEF PutOpens, Keys
  <2>3. file > cacheId /\ disk[file] = Absent
    BY <2>1 DEF NextFile, Images
  <2>4. ASSUME ~(restored /\ Damaged), NEW k \in Keys PROVE map[k] # file
    <3>1. CASE ~restored
      <4>1. map[k] <= cacheId
        BY <3>1 DEF FilesInv, NumbersGrow
      <4>2. map[k] \in Int /\ cacheId \in Int /\ file \in Int
        BY BoundsAssumption DEF Maps, Keys, File, NoFile
      <4> QED
        BY <2>3, <4>1, <4>2
    <3>2. CASE ~Damaged
      <4>1. disk[map[k]] = k /\ k \in Job
        BY <3>2 DEF FilesInv, HasItsFile, Keys
      <4> QED
        BY <2>3, <4>1, ContentAssumption
    <3> QED
      BY <2>4, <3>1, <3>2
  <2>5. \A k \in Keys' : HasItsFile(k)'
    <3> SUFFICES ASSUME NEW k \in Keys PROVE HasItsFile(k)'
      BY <2>2
    <3>1. CASE restored /\ Damaged
      BY <2>2, <3>1 DEF HasItsFile, Damaged
    <3>2. CASE ~(restored /\ Damaged)
      <4>1. disk'[map'[k]] = disk[map[k]]
        BY <2>1, <2>2, <2>4, <3>2 DEF Maps, Keys
      <4> QED
        BY <2>2, <4>1 DEF FilesInv, HasItsFile, Damaged
    <3> QED
      BY <3>1, <3>2
  <2>6. NumbersGrow'
    <3> SUFFICES ASSUME ~restored, NEW k \in Keys PROVE map[k] <= file
      BY <2>1, <2>2 DEF NumbersGrow
    <3>1. map[k] <= cacheId
      BY DEF FilesInv, NumbersGrow
    <3>2. map[k] \in Int /\ cacheId \in Int /\ file \in Int
      BY BoundsAssumption DEF Maps, Keys, File, NoFile
    <3> QED
      BY <2>3, <3>1, <3>2
  <2>7. WritingIsNew'
    BY <2>1, <2>2, <2>4 DEF WritingIsNew, Damaged
  <2>8. SavedWaits'
    BY <2>2 DEF FilesInv, SavedWaits, Over, Damaged
  <2> QED
    BY <2>5, <2>6, <2>7, <2>8 DEF FilesInv
<1>6. CASE PutAdds
  <2>0. writing \in Job \X File /\ at = "writing"
    BY <1>6 DEF PutAdds
  <2> DEFINE job == writing[1]
             file == writing[2]
  <2>1. job \in Job /\ file \in File
    BY <2>0
  <2>2. /\ map' = [map EXCEPT ![job] = file] /\ disk' = [disk EXCEPT ![file] = job]
        /\ at' = "up" /\ UNCHANGED <<cacheId, restored, saved, faults>>
    BY <1>6 DEF PutAdds
  <2>3. Keys' = Keys \cup {job} /\ map'[job] = file /\ disk'[file] = job
    BY <2>1, <2>2 DEF Keys, Maps, NoFile, File
  <2>4. \A k \in Keys \ {job} : map'[k] = map[k]
    BY <2>2 DEF Keys, Maps
  <2>5. file = cacheId /\ ((restored /\ Damaged) \/ \A k \in Keys : map[k] # file)
    BY <2>0 DEF FilesInv, WritingIsNew
  <2>6. ASSUME NEW k \in Keys' PROVE HasItsFile(k)'
    <3>1. CASE k = job
      BY <2>3, <3>1 DEF HasItsFile
    <3>2. CASE k # job /\ restored /\ Damaged
      BY <1>0, <2>2, <3>2 DEF HasItsFile
    <3>3. CASE k # job /\ ~(restored /\ Damaged)
      <4>1. k \in Keys /\ map'[k] = map[k] /\ map[k] # file
        BY <2>3, <2>4, <2>5, <3>3
      <4>2. disk'[map'[k]] = disk[map[k]]
        BY <2>2, <4>1 DEF Maps, Keys
      <4> QED
        BY <2>2, <4>1, <4>2 DEF FilesInv, HasItsFile, Damaged
    <3> QED
      BY <3>1, <3>2, <3>3
  <2>7. ASSUME ~restored, NEW k \in Keys' PROVE map'[k] <= cacheId
    <3>1. CASE k = job
      BY <2>0, <2>3, <2>5, <3>1 DEF File
    <3>2. CASE k # job
      BY <2>3, <2>4, <2>7, <3>2 DEF FilesInv, NumbersGrow
    <3> QED
      BY <3>1, <3>2
  <2>8. NumbersGrow' /\ WritingIsNew'
    BY <2>2, <2>7 DEF NumbersGrow, WritingIsNew
  <2>9. SavedWaits'
    BY <2>0, <2>2 DEF FilesInv, SavedWaits, Over, Damaged
  <2> QED
    BY <2>6, <2>8, <2>9 DEF FilesInv
<1>7. CASE PutEvicts
  <2>0. writing \in Job \X File /\ at = "writing"
    BY <1>7 DEF PutEvicts
  <2> DEFINE job == writing[1]
             file == writing[2]
             stored == [map EXCEPT ![job] = file]
  <2>1. job \in Job /\ file \in File
    BY <2>0
  <2>2. PICK eldest \in Keys \cup {job}, left \in SUBSET File :
          /\ map' = [stored EXCEPT ![eldest] = NoFile]
          /\ Deletes({stored[eldest]}, left)
          /\ disk' = [f \in File |-> IF f = stored[eldest] /\ f \notin left THEN Absent
                                     ELSE IF f = file THEN job ELSE disk[f]]
    BY <1>7 DEF PutEvicts
  <2>3. at' = "up" /\ UNCHANGED <<cacheId, restored, saved>>
    BY <1>7 DEF PutEvicts
  <2>4. /\ Keys' = (Keys \cup {job}) \ {eldest}
        /\ \A k \in Keys' : map'[k] = stored[k] /\ stored[k] \in File
        /\ stored[eldest] \in File
    BY <2>1, <2>2 DEF Keys, Maps, NoFile, File
  <2>5. /\ stored[job] = file
        /\ \A k \in Keys \ {job} : stored[k] = map[k]
    BY <2>1 DEF Maps, Keys
  <2>6. file = cacheId /\ ((restored /\ Damaged) \/ \A k \in Keys : map[k] # file)
    BY <2>0 DEF FilesInv, WritingIsNew
  <2>7. ASSUME NEW k \in Keys' PROVE HasItsFile(k)'
    <3>1. CASE restored /\ Damaged
      BY <1>0, <2>3, <3>1 DEF HasItsFile
    <3>2. CASE ~(restored /\ Damaged)
      <4>1. \A j \in Keys : map[j] # file
        BY <2>6, <3>2
      <4>2. map'[k] = stored[k] /\ stored[k] \in File /\ k # eldest
        BY <2>4
      <4>3. CASE k = job
        <5>1. stored[eldest] # file
          BY <2>5, <4>1, <4>2, <4>3
        <5>2. disk'[file] = job
          BY <2>1, <2>2, <5>1
        <5> QED
          BY <2>5, <4>2, <4>3, <5>2 DEF HasItsFile
      <4>4. CASE k # job
        <5>1. k \in Keys /\ stored[k] = map[k] /\ map[k] # file /\ map[k] \in File
          BY <2>4, <2>5, <4>1, <4>2, <4>4
        <5>2. \/ disk'[map'[k]] = disk[map[k]]
              \/ disk'[map'[k]] = Absent /\ map[k] = stored[eldest]
          BY <2>2, <4>2, <5>1
        <5>3. HasItsFile(k)
          BY <5>1 DEF FilesInv
        <5>4. CASE Damaged
          BY <1>0, <2>3, <3>2, <5>2, <5>3, <5>4, ContentAssumption DEF HasItsFile
        <5>5. CASE ~Damaged
          <6>1. disk[map[k]] = k
            BY <5>3, <5>5 DEF HasItsFile
          <6>2. map[k] # stored[eldest]
            <7>1. CASE eldest = job
              BY <2>5, <5>1, <7>1
            <7>2. CASE eldest # job
              <8>1. eldest \in Keys /\ stored[eldest] = map[eldest]
                BY <2>5, <7>2
              <8>2. disk[map[eldest]] = eldest
                BY <5>5, <8>1 DEF FilesInv, HasItsFile
              <8> QED
                BY <4>2, <6>1, <8>1, <8>2
            <7> QED
              BY <7>1, <7>2
          <6> QED
            BY <5>2, <6>1, <6>2 DEF HasItsFile
        <5> QED
          BY <5>4, <5>5
      <4> QED
        BY <4>3, <4>4
    <3> QED
      BY <3>1, <3>2
  <2>8. ASSUME ~restored, NEW k \in Keys' PROVE map'[k] <= cacheId
    <3>1. CASE k = job
      BY <2>0, <2>4, <2>5, <2>6, <3>1 DEF File
    <3>2. CASE k # job
      BY <2>4, <2>5, <2>8, <3>2 DEF FilesInv, NumbersGrow
    <3> QED
      BY <3>1, <3>2
  <2>9. NumbersGrow' /\ WritingIsNew'
    BY <2>3, <2>8 DEF NumbersGrow, WritingIsNew
  <2>10. SavedWaits'
    BY <1>0, <2>0, <2>3 DEF FilesInv, SavedWaits, Over
  <2> QED
    BY <2>7, <2>9, <2>10 DEF FilesInv
<1>8. CASE PutFails
  <2>1. WritingIsNew'
    BY <1>8 DEF PutFails, WritingIsNew
  <2>2. SavedWaits'
    BY <1>0, <1>8 DEF PutFails, FilesInv, SavedWaits, Over
  <2> QED
    BY <1>0, <1>8, <2>1, <2>2, OthersKeepFiles DEF PutFails
<1>9. ASSUME NEW c \in Capacities, SetCapacity(c) PROVE FilesInv'
  <2>1. PICK kept \in SUBSET Keys, left \in SUBSET File :
          /\ map' = [j \in Job |-> IF j \in kept THEN map[j] ELSE NoFile]
          /\ Deletes({map[j] : j \in Keys \ kept}, left)
          /\ disk' = [f \in File |-> IF f \notin left /\ \E j \in Keys \ kept : f = map[j]
                                     THEN Absent ELSE disk[f]]
    BY <1>9 DEF SetCapacity
  <2>2. /\ UNCHANGED <<at, cacheId, restored, saved>> /\ at = "up"
        /\ Keys' = kept /\ \A k \in kept : map'[k] = map[k] /\ map[k] \in File
    BY <1>9, <2>1 DEF SetCapacity, Keys, Maps, NoFile
  <2>3. ASSUME NEW k \in kept PROVE HasItsFile(k)'
    <3>1. /\ HasItsFile(k)
          /\ \/ disk'[map'[k]] = disk[map[k]]
             \/ disk'[map'[k]] = Absent /\ \E j \in Keys \ kept : map[k] = map[j]
      BY <2>1, <2>2 DEF FilesInv
    <3>2. CASE Damaged
      BY <1>0, <2>2, <3>1, <3>2, ContentAssumption DEF HasItsFile
    <3>3. CASE ~Damaged
      <4>1. \A j \in Keys : disk[map[j]] = j
        BY <3>3 DEF FilesInv, HasItsFile
      <4> QED
        BY <3>1, <4>1 DEF HasItsFile
    <3> QED
      BY <3>2, <3>3
  <2>4. NumbersGrow' /\ WritingIsNew'
    BY <2>2 DEF FilesInv, NumbersGrow, WritingIsNew
  <2>5. SavedWaits'
    BY <1>0, <2>2 DEF FilesInv, SavedWaits, Over
  <2> QED
    BY <2>2, <2>3, <2>4, <2>5 DEF FilesInv
<1>10. ASSUME NEW p \in BOOLEAN, SetPersistent(p) PROVE FilesInv'
  <2>1. WritingIsNew' /\ SavedWaits'
    BY <1>10 DEF SetPersistent, FilesInv, WritingIsNew, SavedWaits, SavedKeys, Damaged
  <2> QED
    BY <1>0, <1>10, <2>1, OthersKeepFiles DEF SetPersistent
<1>11. CASE DestroySaves
  <2>1. SavedWaits'
    BY <1>11, NothingTyped DEF DestroySaves, SavedWaits
  <2>2. WritingIsNew'
    BY <1>11 DEF DestroySaves, WritingIsNew
  <2> QED
    BY <1>0, <1>11, <2>1, <2>2, OthersKeepFiles DEF DestroySaves, heap
<1>12. CASE DestroyClears
  <2>1. SavedWaits'
    BY <1>0, <1>12 DEF DestroyClears, FilesInv, SavedWaits, Over
  <2>2. WritingIsNew'
    BY <1>12 DEF DestroyClears, WritingIsNew
  <2> QED
    BY <1>0, <1>12, <2>1, <2>2, OthersKeepFiles DEF DestroyClears, heap
<1>13. CASE SaveEnds
  <2>1. /\ saved'.map = map /\ Ends("destroyed") /\ UNCHANGED <<disk, faults>>
    BY <1>13 DEF SaveEnds
  <2>2. SavedKeys' = Keys
    BY <2>1 DEF SavedKeys, Keys
  <2>3. SavedWaits'
    BY <2>1, <2>2, EndsTyped DEF FilesInv, HasItsFile, SavedWaits, Damaged, Over
  <2> QED
    BY <2>1, <2>3, EndsKeepsFiles DEF Over
<1>14. CASE SaveFails
  <2>1. SavedWaits'
    BY <1>0, <1>14 DEF SaveFails, FilesInv, SavedWaits, Over
  <2>2. WritingIsNew'
    BY <1>14 DEF SaveFails, WritingIsNew
  <2> QED
    BY <1>0, <1>14, <2>1, <2>2, OthersKeepFiles DEF SaveFails, heap
<1>15. CASE ClearEnds
  <2>1. at = "clearing" /\ Ends("destroyed") /\ UNCHANGED saved
    BY <1>15 DEF ClearEnds
  <2>2. SavedWaits'
    BY <1>0, <2>1 DEF FilesInv, SavedWaits, Over
  <2> QED
    BY <2>1, <2>2, EndsKeepsFiles DEF Over
<1>16. CASE Crash
  <2>1. PICK gone \in SUBSET Images :
          /\ gone = {} \/ at = "clearing"
          /\ disk' = [f \in File |-> IF f \in gone THEN Absent ELSE disk[f]]
    BY <1>16 DEF Crash
  <2>2. Ends("killed") /\ UNCHANGED saved
    BY <1>16 DEF Crash
  <2>3. SavedWaits'
    <3> SUFFICES ASSUME saved.is = "map", ~Damaged', NEW k \in SavedKeys
                 PROVE  disk'[saved.map[k]] = k
      BY <2>2, EndsTyped DEF SavedWaits, SavedKeys, Over
    <3>1. at # "clearing" /\ disk[saved.map[k]] = k
      BY <1>0 DEF FilesInv, SavedWaits, Over
    <3>2. saved.map[k] \in File
      BY DEF SavedKeys, Saved, Maps
    <3> QED
      BY <2>1, <3>1, <3>2
  <2> QED
    BY <2>2, <2>3, EndsKeepsFiles DEF Over
<1>17. CASE LoseFile
  <2>1. Damaged'
    BY <1>17, DeleteIsDamage DEF LoseFile
  <2>2. UNCHANGED <<at, map, cacheId, writing, restored>> /\ Keys' = Keys
    BY <1>17 DEF LoseFile, heap, Keys
  <2>3. PICK f \in Images, content \in {Absent, Partial} : disk' = [disk EXCEPT ![f] = content]
    BY <1>17 DEF LoseFile
  <2>4. ASSUME NEW k \in Keys PROVE HasItsFile(k)'
    <3>1. map[k] \in File /\ HasItsFile(k)
      BY DEF FilesInv, Keys, Maps
    <3>2. disk'[map'[k]] = disk[map[k]] \/ disk'[map'[k]] \in {Absent, Partial}
      BY <2>2, <2>3, <3>1
    <3> QED
      BY <2>1, <2>2, <3>1, <3>2 DEF HasItsFile
  <2>5. NumbersGrow' /\ WritingIsNew' /\ SavedWaits'
    BY <2>1, <2>2 DEF FilesInv, NumbersGrow, WritingIsNew, SavedWaits
  <2> QED
    BY <2>2, <2>4, <2>5 DEF FilesInv
<1>18. CASE UNCHANGED vars
  <2>1. WritingIsNew' /\ SavedWaits'
    BY <1>18 DEF vars, heap, FilesInv, WritingIsNew, SavedWaits, SavedKeys, Keys, Damaged
  <2> QED
    BY <1>0, <1>18, <2>1, OthersKeepFiles DEF vars, heap
<1>19. CASE PutFailsToOpen
  <2>1. PICK file \in File : NextFile(file) /\ cacheId' = file
    BY <1>19 DEF PutFailsToOpen
  <2>2. UNCHANGED <<at, map, restored, disk, saved>>
    BY <1>19 DEF PutFailsToOpen
  <2>3. /\ \A job \in Keys : HasItsFile(job)'
        /\ Keys' = Keys
    BY <1>0, <2>2 DEF FilesInv, HasItsFile, Keys
  <2>4. NumbersGrow'
    BY <2>1, <2>2, <2>3 DEF FilesInv, NumbersGrow, NextFile, Keys, Maps, File
  <2>5. WritingIsNew' /\ SavedWaits'
    BY <1>0, <1>19, <2>2 DEF PutFailsToOpen, FilesInv, WritingIsNew, SavedWaits, SavedKeys, Over
  <2> QED
    BY <2>3, <2>4, <2>5 DEF FilesInv
<1> QED
  BY <1>1, <1>2, <1>3, <1>4, <1>5, <1>6, <1>7, <1>8, <1>9, <1>10, <1>11, <1>12, <1>13,
     <1>14, <1>15, <1>16, <1>17, <1>18, <1>19 DEF Next

LEMMA FilesInvCorrect == Spec => []FilesInv
<1>1. Init => FilesInv
  BY DEF Init, FilesInv, NumbersGrow, WritingIsNew, SavedWaits, Nothing, Over, Keys, NoMap, NoFile
<1> QED
  BY <1>1, FilesStep, TypeCorrect, PTL DEF Spec

(* get never returns the image of another job, unless a file was lost or      *)
(* could not be deleted before the present process.                           *)
THEOREM EntriesCorrect == Spec => []EntriesHaveTheirFiles
<1>1. FilesInv => EntriesHaveTheirFiles
  BY DEF FilesInv, HasItsFile, Damaged, EntriesHaveTheirFiles
<1> QED
  BY <1>1, FilesInvCorrect, PTL

(* A map that waits for the next process names complete images only.          *)
SavedFilesAreThere ==
  at \in Over /\ saved.is = "map" /\ faults \cap {"loss", "delete"} = {} =>
    \A job \in Job : saved.map[job] # NoFile => disk[saved.map[job]] = job

(* What a persistent cache saved is complete when the next process reads it.  *)
THEOREM SavedCorrect == Spec => []SavedFilesAreThere
<1>1. FilesInv => SavedFilesAreThere
  BY DEF FilesInv, SavedWaits, SavedKeys, Damaged, SavedFilesAreThere
<1> QED
  BY <1>1, FilesInvCorrect, PTL

-----------------------------------------------------------------------------
(* A map and a saved map are finite and within their bounds.                  *)
SizeInv == /\ IsFiniteSet(Keys) /\ Cardinality(Keys) <= mapCapacity
           /\ at \in Over => Keys = {}
           /\ IsFiniteSet(SavedKeys) /\ Cardinality(SavedKeys) <= saved.mapCapacity

LEMMA SizeStep == ASSUME TypeOK, SizeInv, [Next]_vars PROVE SizeInv'
<1> USE DEF TypeOK
<1>1. ASSUME UNCHANGED saved
      PROVE  (IsFiniteSet(SavedKeys) /\ Cardinality(SavedKeys) <= saved.mapCapacity)'
  BY <1>1 DEF SizeInv, SavedKeys
<1>2. ASSUME NEW is \in {"none", "broken"}, saved' = Nothing(is)
      PROVE  (IsFiniteSet(SavedKeys) /\ Cardinality(SavedKeys) <= saved.mapCapacity)'
  <2>1. SavedKeys' = {} /\ saved'.mapCapacity = 0
    BY <1>2 DEF Nothing, SavedKeys, NoMap
  <2> QED
    BY <2>1, FS_EmptySet
<1>3. ASSUME UNCHANGED <<map, mapCapacity>>
      PROVE  IsFiniteSet(Keys') /\ Cardinality(Keys') <= mapCapacity'
  BY <1>3 DEF SizeInv, Keys
<1>4. ASSUME NEW how \in Over, Ends(how)
      PROVE  Keys' = {} /\ IsFiniteSet(Keys') /\ Cardinality(Keys') <= mapCapacity'
  <2>1. Keys' = {} /\ mapCapacity' \in Nat
    BY <1>4, EndsTyped
  <2> QED
    BY <2>1, FS_EmptySet
<1>5. Cardinality(Keys) \in Nat
  BY FS_CardinalityType DEF SizeInv
<1>6. CASE StartEmpty
  <2>1. Keys' = {} /\ mapCapacity' \in Nat /\ at' = "up" /\ saved' = saved
    BY <1>6, CapacityAssumption DEF StartEmpty, SizeInv, Keys
  <2> QED
    BY <1>1, <2>1, FS_EmptySet DEF SizeInv, Over
<1>7. CASE StartRestored
  <2>1. /\ Keys' = SavedKeys /\ mapCapacity' = saved.mapCapacity
        /\ at' = "restoring" /\ saved' = saved
    BY <1>7 DEF StartRestored, Keys, SavedKeys
  <2> QED
    BY <1>1, <2>1 DEF SizeInv, Over
<1>8. CASE DeleteSaved
  BY <1>1, <1>2, <1>3, <1>8 DEF DeleteSaved, heap, SizeInv, Over
<1>9. ASSUME NEW job \in Job, Get(job) PROVE SizeInv'
  <2>1. Keys' = Keys \/ Keys' = Keys \ {job}
    BY <1>9 DEF Get, Keys, Maps, NoFile
  <2>2. IsFiniteSet(Keys') /\ Cardinality(Keys') <= Cardinality(Keys) /\ Cardinality(Keys') \in Nat
    BY <1>5, <2>1, FS_Subset, FS_CardinalityType DEF SizeInv
  <2>3. Cardinality(Keys') <= mapCapacity
    BY <1>5, <2>2 DEF SizeInv
  <2> QED
    BY <1>1, <1>9, <2>2, <2>3 DEF Get, SizeInv, Over
<1>10. ASSUME NEW job \in Job, PutOpens(job) PROVE SizeInv'
  BY <1>1, <1>3, <1>10 DEF PutOpens, SizeInv, Over
<1>11. CASE PutAdds
  <2>1. writing[1] \in Job /\ writing[2] \in File
    BY <1>11 DEF PutAdds
  <2>2. map' = [map EXCEPT ![writing[1]] = writing[2]] /\ Cardinality(Keys) < mapCapacity
    BY <1>11 DEF PutAdds
  <2>3. Keys' = Keys \cup {writing[1]}
    BY <2>1, <2>2 DEF Keys, Maps, NoFile, File
  <2>4. IsFiniteSet(Keys') /\ Cardinality(Keys') \in {Cardinality(Keys), Cardinality(Keys) + 1}
    BY <2>3, FS_AddElement DEF SizeInv
  <2>5. Cardinality(Keys') <= mapCapacity
    BY <1>5, <2>2, <2>4
  <2> QED
    BY <1>1, <1>11, <2>4, <2>5 DEF PutAdds, SizeInv, Over
<1>12. CASE PutEvicts
  <2>1. writing[1] \in Job /\ writing[2] \in File
    BY <1>12 DEF PutEvicts
  <2>2. PICK eldest \in Keys \cup {writing[1]} :
          map' = [[map EXCEPT ![writing[1]] = writing[2]] EXCEPT ![eldest] = NoFile]
    BY <1>12 DEF PutEvicts
  <2> DEFINE all == Keys \cup {writing[1]}
  <2>3. Keys' = all \ {eldest}
    BY <2>1, <2>2 DEF Keys, Maps, NoFile, File
  <2>4. IsFiniteSet(all) /\ Cardinality(all) \in {Cardinality(Keys), Cardinality(Keys) + 1}
    BY FS_AddElement DEF SizeInv
  <2>5. IsFiniteSet(Keys') /\ Cardinality(Keys') = Cardinality(all) - 1
    BY <2>2, <2>3, <2>4, FS_RemoveElement
  <2>6. Cardinality(Keys') <= mapCapacity
    BY <1>5, <2>4, <2>5 DEF SizeInv
  <2> QED
    BY <1>1, <1>12, <2>5, <2>6 DEF PutEvicts, SizeInv, Over
<1>13. CASE PutFails \/ PutFailsToOpen
  BY <1>1, <1>3, <1>13 DEF PutFails, PutFailsToOpen, SizeInv, Over
<1>14. ASSUME NEW c \in Capacities, SetCapacity(c) PROVE SizeInv'
  <2>1. PICK kept \in SUBSET Keys :
          /\ Cardinality(kept) <= c
          /\ map' = [j \in Job |-> IF j \in kept THEN map[j] ELSE NoFile]
    BY <1>14 DEF SetCapacity
  <2>2. Keys' = kept
    BY <2>1 DEF Keys
  <2>3. IsFiniteSet(kept)
    BY FS_Subset DEF SizeInv
  <2> QED
    BY <1>1, <1>14, <2>1, <2>2, <2>3 DEF SetCapacity, SizeInv, Over
<1>15. ASSUME NEW p \in BOOLEAN, SetPersistent(p) PROVE SizeInv'
  BY <1>1, <1>3, <1>15 DEF SetPersistent, SizeInv, Over
<1>16. CASE DestroySaves
  BY <1>2, <1>3, <1>16 DEF DestroySaves, heap, SizeInv, Over
<1>17. CASE DestroyClears
  BY <1>1, <1>3, <1>17 DEF DestroyClears, heap, SizeInv, Over
<1>18. CASE SaveEnds
  <2>1. saved'.map = map /\ saved'.mapCapacity = mapCapacity /\ Ends("destroyed")
    BY <1>18 DEF SaveEnds
  <2>2. SavedKeys' = Keys
    BY <2>1 DEF SavedKeys, Keys
  <2> QED
    BY <1>4, <2>1, <2>2 DEF SizeInv, Over
<1>19. CASE SaveFails
  BY <1>1, <1>3, <1>19 DEF SaveFails, heap, SizeInv, Over
<1>20. CASE ClearEnds
  BY <1>1, <1>4, <1>20 DEF ClearEnds, SizeInv, Over
<1>21. CASE Crash
  BY <1>1, <1>4, <1>21 DEF Crash, SizeInv, Over
<1>22. CASE LoseFile
  BY <1>1, <1>3, <1>22 DEF LoseFile, heap, SizeInv, Over, Keys
<1>23. CASE UNCHANGED vars
  BY <1>1, <1>3, <1>23 DEF vars, heap, SizeInv, Over, Keys
<1> QED
  BY <1>6, <1>7, <1>8, <1>9, <1>10, <1>11, <1>12, <1>13, <1>14, <1>15, <1>16, <1>17, <1>18,
     <1>19, <1>20, <1>21, <1>22, <1>23 DEF Next

(* The inductive invariant of the sizes.                                      *)
LEMMA SizeInvCorrect == Spec => []SizeInv
<1>1. Init => SizeInv
  <2> SUFFICES ASSUME Init PROVE SizeInv
    OBVIOUS
  <2>1. Keys = {} /\ SavedKeys = {} /\ mapCapacity = 0 /\ saved.mapCapacity = 0
    BY DEF Init, Keys, SavedKeys, Nothing, NoMap
  <2> QED
    BY <2>1, FS_EmptySet DEF SizeInv
<1> QED
  BY <1>1, SizeStep, TypeCorrect, PTL DEF Spec

(* The map never outgrows the bound it was created with, whichever process    *)
(* created it.                                                                *)
THEOREM SizeCorrect == Spec => []SizeIsBounded
<1>1. SizeInv => SizeIsBounded
  BY DEF SizeInv, SizeIsBounded
<1> QED
  BY <1>1, SizeInvCorrect, PTL

-----------------------------------------------------------------------------
(* The job of a put in progress has no entry yet.                             *)
PutIsNew == at = "writing" => writing[1] \notin Keys

LEMMA PutIsNewCorrect == Spec => []PutIsNew
<1>1. Init => PutIsNew
  BY DEF Init, PutIsNew
<1>2. ASSUME PutIsNew, [Next]_vars PROVE PutIsNew'
  <2>1. ASSUME NEW job \in Job, PutOpens(job) PROVE PutIsNew'
    BY <2>1 DEF PutOpens, PutIsNew, Keys
  <2>2. CASE LoseFile \/ UNCHANGED vars
    BY <1>2, <2>2 DEF LoseFile, vars, heap, PutIsNew, Keys
  <2>3. CASE ~LoseFile /\ ~UNCHANGED vars /\ \A job \in Job : ~PutOpens(job)
    <3>1. at' # "writing"
      BY <1>2, <2>3 DEF Next, StartEmpty, StartRestored, DeleteSaved, Get, PutAdds, PutEvicts,
         PutFails, PutFailsToOpen, SetCapacity, SetPersistent, DestroySaves, DestroyClears, SaveEnds, SaveFails,
         ClearEnds, Ends, Crash
    <3> QED
      BY <3>1 DEF PutIsNew
  <2> QED
    BY <2>1, <2>2, <2>3
<1> QED
  BY <1>1, <1>2, PTL DEF Spec

(* A put or a setCapacity evicts the entries that were used least recently.   *)
(* That a put's job has no entry yet (PutIsNew) is needed: it would otherwise *)
(* become the last of the access order, whatever it was before.               *)
THEOREM EvictsEldestCorrect == Spec => EvictsEldestFirst
<1> DEFINE Fair == \A gone \in Keys \ Keys', kept \in Keys \cap Keys' :
                     <<gone, kept>> \in older \/ disk[map[gone]] = Absent
<1>1. ASSUME TypeOK, PutIsNew, [Next]_vars, at' = "up" PROVE Fair
  <2>1. CASE map' = map
    BY <2>1 DEF Keys
  <2>2. ASSUME NEW job \in Job, Get(job) PROVE Fair
    BY <1>1, <2>2 DEF Get, Keys, TypeOK, Maps
  <2>3. CASE PutAdds
    <3>1. writing \in Job \X File /\ map \in Maps
      BY <1>1, <2>3 DEF PutAdds, TypeOK
    <3>2. Keys \subseteq Keys'
      BY <2>3, <3>1 DEF PutAdds, Keys, Maps, File, NoFile
    <3> QED
      BY <3>2
  <2>4. CASE PutEvicts
    <3> DEFINE job == writing[1]
               file == writing[2]
               stored == [map EXCEPT ![job] = file]
    <3>1. writing \in Job \X File /\ map \in Maps /\ job \notin Keys
      BY <1>1, <2>4 DEF PutEvicts, TypeOK, PutIsNew
    <3>2. PICK eldest \in Keys \cup {job} :
            /\ \A other \in (Keys \cup {job}) \ {eldest} :
                 <<eldest, other>> \in Accessed(Keys, job)
            /\ map' = [stored EXCEPT ![eldest] = NoFile]
      BY <2>4 DEF PutEvicts
    <3>3. Keys \ Keys' \subseteq {eldest}
      BY <3>1, <3>2 DEF Keys, Maps, File, NoFile
    <3>4. ASSUME NEW kept \in Keys, eldest \in Keys, kept # eldest
          PROVE  <<eldest, kept>> \in older
      BY <3>1, <3>2, <3>4 DEF Accessed
    <3>5. eldest \notin Keys'
      BY <3>1, <3>2 DEF Keys, Maps
    <3> QED
      BY <3>3, <3>4, <3>5
  <2>5. ASSUME NEW c \in Capacities, SetCapacity(c) PROVE Fair
    <3>1. PICK kept \in SUBSET Keys :
            /\ \A j \in Keys \ kept, k \in kept : <<j, k>> \in older
            /\ map' = [j \in Job |-> IF j \in kept THEN map[j] ELSE NoFile]
      BY <2>5 DEF SetCapacity
    <3>2. Keys' = kept
      BY <3>1 DEF Keys
    <3> QED
      BY <3>1, <3>2
  <2> QED
    BY <1>1, <2>1, <2>2, <2>3, <2>4, <2>5 DEF Next, vars, heap, StartEmpty, StartRestored,
       DeleteSaved, PutOpens, PutFails, PutFailsToOpen, SetPersistent, DestroySaves, DestroyClears, SaveEnds,
       SaveFails, ClearEnds, Ends, Over, Crash, LoseFile
<1>2. ASSUME TypeOK, PutIsNew, [Next]_vars
      PROVE  [at' = "up" => Fair]_vars
  BY <1>1, <1>2
<1> QED
  BY <1>2, TypeCorrect, PutIsNewCorrect, PTL DEF Spec, EvictsEldestFirst

-----------------------------------------------------------------------------
(* While nothing has failed, whoever needs an image still knows of it: the    *)
(* map, the put in progress, or cache.ser between two processes.              *)
Known(f) ==
  /\ at \in {"restoring", "up", "writing", "saving"} =>
       (\E job \in Keys : map[job] = f) \/ (at = "writing" /\ f = writing[2])
  /\ at \in Over => saved.is = "map" /\ \E job \in SavedKeys : saved.map[job] = f

OrphanInv == faults = {} => \A f \in Images : Known(f)

LEMMA OrphanStep == ASSUME TypeOK, PutIsNew, OrphanInv, [Next]_vars PROVE OrphanInv'
<1> SUFFICES ASSUME faults' = {}, NEW f \in Images' PROVE Known(f)'
  BY DEF OrphanInv
<1> DEFINE Kept == f \in Images => Known(f)
<1>1. ASSUME NEW fault PROVE ~Happens(fault)
  BY DEF Happens
<1>2. ASSUME NEW files, NEW left, Deletes(files, left) PROVE left = {} /\ UNCHANGED faults
  BY <1>1, <1>2 DEF Deletes
<1>3. f \in File /\ disk'[f] # Absent
  BY DEF Images
<1>4. faults = {} => Kept
  BY DEF OrphanInv
<1>5. CASE StartEmpty \/ StartRestored
  <2>1. f \in Images /\ faults = {} /\ at \in Over
    BY <1>3, <1>5 DEF StartEmpty, StartRestored, Images
  <2>2. saved.is = "map" /\ \E job \in SavedKeys : saved.map[job] = f
    BY <1>4, <2>1 DEF Known
  <2>3. StartRestored
    BY <1>5, <2>2 DEF StartEmpty
  <2> QED
    BY <2>2, <2>3 DEF StartRestored, Known, Keys, SavedKeys, Over
<1>6. CASE DeleteSaved \/ DestroySaves \/ (\E p \in BOOLEAN : SetPersistent(p))
  <2>1. f \in Images /\ faults = {}
    BY <1>1, <1>3, <1>6 DEF DeleteSaved, DestroySaves, SetPersistent, Images
  <2> QED
    BY <1>1, <1>4, <1>6, <2>1 DEF DeleteSaved, DestroySaves, SetPersistent, heap, Known, Keys, Over
<1>7. ASSUME NEW job \in Job, Get(job) PROVE Known(f)'
  <2>1. f \in Images /\ faults = {} /\ at = "up" /\ at' = "up"
    BY <1>3, <1>7 DEF Get, Images
  <2>2. PICK j \in Keys : map[j] = f
    BY <1>4, <2>1 DEF Known, Over
  <2>3. map'[j] = map[j]
    BY <1>7, <2>1, <2>2 DEF Get, Images, TypeOK, Maps, Keys
  <2> QED
    BY <2>1, <2>2, <2>3 DEF Known, Keys, Over
<1>8. ASSUME NEW job \in Job, PutOpens(job) PROVE Known(f)'
  <2>1. PICK file \in File : writing' = <<job, file>> /\ disk' = [disk EXCEPT ![file] = Partial]
    BY <1>8 DEF PutOpens
  <2>2. at = "up" /\ at' = "writing" /\ map' = map /\ faults = {}
    BY <1>8 DEF PutOpens
  <2>3. f = file \/ f \in Images
    BY <1>3, <2>1 DEF Images, TypeOK
  <2> QED
    BY <1>4, <2>1, <2>2, <2>3 DEF Known, Keys, Over
<1>9. CASE PutAdds
  <2> DEFINE job == writing[1]
             file == writing[2]
  <2>1. writing \in Job \X File /\ job \notin Keys /\ map \in Maps
    BY <1>9 DEF PutAdds, TypeOK, PutIsNew
  <2>2. /\ at = "writing" /\ at' = "up" /\ faults = {}
        /\ map' = [map EXCEPT ![job] = file] /\ disk' = [disk EXCEPT ![file] = job]
    BY <1>9 DEF PutAdds
  <2>3. CASE f = file
    <3>1. map'[job] = f /\ file # NoFile
      BY <2>1, <2>2, <2>3 DEF Maps, File, NoFile
    <3> QED
      BY <2>1, <2>2, <2>3, <3>1 DEF Known, Keys, Over
  <2>4. CASE f # file
    <3>1. f \in Images
      BY <1>3, <2>1, <2>2, <2>4 DEF Images, TypeOK
    <3>2. PICK j \in Keys : map[j] = f
      BY <1>4, <2>2, <2>4, <3>1 DEF Known
    <3>3. map'[j] = f /\ j \in Keys'
      BY <2>1, <2>2, <3>2 DEF Keys, Maps
    <3> QED
      BY <2>2, <3>3 DEF Known, Over
  <2> QED
    BY <2>3, <2>4
<1>10. CASE PutEvicts
  <2> DEFINE job == writing[1]
             file == writing[2]
             stored == [map EXCEPT ![job] = file]
  <2>1. writing \in Job \X File /\ job \notin Keys /\ map \in Maps
    BY <1>10 DEF PutEvicts, TypeOK, PutIsNew
  <2>2. PICK eldest \in Keys \cup {job}, left \in SUBSET File :
          /\ map' = [stored EXCEPT ![eldest] = NoFile]
          /\ Deletes({stored[eldest]}, left)
          /\ disk' = [g \in File |-> IF g = stored[eldest] /\ g \notin left THEN Absent
                                     ELSE IF g = file THEN job ELSE disk[g]]
    BY <1>10 DEF PutEvicts
  <2>3. at = "writing" /\ at' = "up" /\ left = {} /\ faults = {}
    BY <1>2, <1>10, <2>2 DEF PutEvicts
  <2>4. f # stored[eldest]
    BY <1>3, <2>2, <2>3
  <2>5. ASSUME NEW j \in Job, stored[j] = f PROVE Known(f)'
    <3>1. map'[j] = f /\ f # NoFile
      BY <1>3, <2>1, <2>2, <2>4, <2>5 DEF Maps, File, NoFile
    <3> QED
      BY <2>3, <3>1 DEF Known, Keys, Over
  <2>6. CASE f = file
    BY <2>1, <2>5, <2>6 DEF Maps
  <2>7. CASE f # file
    <3>1. f \in Images
      BY <1>3, <2>2, <2>3, <2>7 DEF Images
    <3>2. PICK j \in Keys : map[j] = f
      BY <1>4, <2>3, <2>7, <3>1 DEF Known
    <3>3. stored[j] = f /\ j \in Job
      BY <2>1, <3>2 DEF Keys, Maps
    <3> QED
      BY <2>5, <3>3
  <2> QED
    BY <2>6, <2>7
<1>11. ASSUME NEW c \in Capacities, SetCapacity(c) PROVE Known(f)'
  <2>1. PICK kept \in SUBSET Keys, left \in SUBSET File :
          /\ map' = [j \in Job |-> IF j \in kept THEN map[j] ELSE NoFile]
          /\ Deletes({map[j] : j \in Keys \ kept}, left)
          /\ disk' = [g \in File |-> IF g \notin left /\ \E j \in Keys \ kept : g = map[j]
                                     THEN Absent ELSE disk[g]]
    BY <1>11 DEF SetCapacity
  <2>2. at = "up" /\ at' = "up" /\ left = {} /\ faults = {}
    BY <1>2, <1>11, <2>1 DEF SetCapacity
  <2>3. f \in Images /\ ~\E j \in Keys \ kept : f = map[j]
    BY <1>3, <2>1, <2>2 DEF Images
  <2>4. PICK j \in Keys : map[j] = f
    BY <1>4, <2>2, <2>3 DEF Known, Over
  <2>5. j \in kept /\ j \in Job /\ map'[j] = f /\ f # NoFile
    BY <1>3, <2>1, <2>3, <2>4 DEF Keys, File, NoFile
  <2> QED
    BY <2>2, <2>5 DEF Known, Keys, Over
<1>12. CASE SaveEnds
  <2>1. f \in Images /\ faults = {} /\ at = "saving" /\ at' = "destroyed"
    BY <1>3, <1>12 DEF SaveEnds, Ends, Images
  <2>2. saved'.is = "map" /\ saved'.map = map
    BY <1>12 DEF SaveEnds
  <2>3. PICK j \in Keys : map[j] = f
    BY <1>4, <2>1 DEF Known
  <2> QED
    BY <2>1, <2>2, <2>3 DEF Known, Keys, SavedKeys
<1>13. ~ClearEnds
  <2> SUFFICES ASSUME ClearEnds PROVE FALSE
    OBVIOUS
  <2>1. PICK left \in SUBSET Images :
          /\ Deletes(Images, left)
          /\ disk' = [g \in File |-> IF g \in left THEN disk[g] ELSE Absent]
    BY DEF ClearEnds
  <2> QED
    BY <1>2, <1>3, <2>1
<1>14. CASE DestroyClears
  BY <1>14 DEF DestroyClears, Known, Over
<1>15. CASE UNCHANGED vars
  BY <1>3, <1>4, <1>15 DEF vars, heap, Known, Keys, SavedKeys, Over, Images
<1> QED
  BY <1>1, <1>5, <1>6, <1>7, <1>8, <1>9, <1>10, <1>11, <1>12, <1>13, <1>14, <1>15
     DEF Next, PutFails, PutFailsToOpen, SaveFails, Crash, LoseFile

(* Nothing is left over on the external storage that nobody would remove.     *)
THEOREM OrphansCorrect == Spec => []NoOrphans
<1>1. Init => OrphanInv
  BY DEF Init, OrphanInv, Images
<1>2. OrphanInv => NoOrphans
  BY DEF OrphanInv, Known, NoOrphans
<1> QED
  BY <1>1, <1>2, OrphanStep, TypeCorrect, PutIsNewCorrect, PTL DEF Spec

(* However many processes were killed before, the one that is destroyed       *)
(* without saving leaves no image behind.                                     *)
THEOREM CleanUpCorrect == Spec => []DestroyCleansUp
<1>1. Init => DestroyCleansUp
  BY DEF Init, DestroyCleansUp, Images
<1>2. ASSUME TypeOK, DestroyCleansUp, [Next]_vars PROVE DestroyCleansUp'
  <2> SUFFICES ASSUME at' = "destroyed", "delete" \notin faults'
               PROVE  saved'.is = "map" \/ Images' = {}
    BY DEF DestroyCleansUp
  <2>1. CASE SaveEnds
    BY <2>1 DEF SaveEnds
  <2>2. CASE ClearEnds
    <3>1. PICK left \in SUBSET Images :
            /\ Deletes(Images, left)
            /\ disk' = [g \in File |-> IF g \in left THEN disk[g] ELSE Absent]
      BY <2>2 DEF ClearEnds
    <3>2. left = {}
      BY <3>1 DEF Deletes, Happens
    <3> QED
      BY <3>1, <3>2 DEF Images
  <2>3. CASE LoseFile
    <3>1. at = "destroyed" /\ saved' = saved /\ "delete" \notin faults
      BY <2>3 DEF LoseFile, heap, Happens
    <3>2. Images' \subseteq Images
      BY <1>2, <2>3 DEF LoseFile, Images, TypeOK
    <3> QED
      BY <1>2, <3>1, <3>2 DEF DestroyCleansUp
  <2>4. CASE UNCHANGED vars
    BY <1>2, <2>4 DEF vars, DestroyCleansUp, Images
  <2> QED
    BY <1>2, <2>1, <2>2, <2>3, <2>4 DEF Next, StartEmpty, StartRestored, DeleteSaved, Get, PutOpens,
       PutAdds, PutEvicts, PutFails, PutFailsToOpen, SetCapacity, SetPersistent, DestroySaves, DestroyClears,
       SaveFails, Ends, Crash
<1> QED
  BY <1>1, <1>2, TypeCorrect, PTL DEF Spec

-----------------------------------------------------------------------------
(* The promise of the interface. What a process hands over to the next one,   *)
(* and what it knows of that while it begins and ends.                        *)
HandsOver ==
  /\ at \in Over => map = NoMap /\ older = {}
  /\ at = "restoring" /\ ~Damaged =>
       /\ saved.is = "map"
       /\ saved.map = map /\ saved.older = older /\ saved.mapCapacity = mapCapacity
  /\ at = "saving" => persistent
  /\ at = "clearing" /\ persistent /\ ~Damaged => "write" \in faults

(* Each step keeps what processes hand over.                                  *)
LEMMA HandsOverStep == ASSUME HandsOver, [Next]_vars PROVE HandsOver'
<1>0. Damaged => Damaged'
  BY DamagedForEver
<1>1. CASE StartEmpty \/ StartRestored \/ DeleteSaved
  BY <1>0, <1>1, DeleteIsDamage DEF StartEmpty, StartRestored, DeleteSaved, HandsOver, Over, heap
<1>2. ASSUME NEW job \in Job, Get(job) \/ PutOpens(job) PROVE HandsOver'
  BY <1>2 DEF Get, PutOpens, HandsOver, Over
<1>3. CASE PutAdds \/ PutEvicts \/ PutFails \/ PutFailsToOpen
  BY <1>3 DEF PutAdds, PutEvicts, PutFails, PutFailsToOpen, HandsOver, Over
<1>4. ASSUME NEW c \in Capacities, SetCapacity(c) PROVE HandsOver'
  BY <1>4 DEF SetCapacity, HandsOver, Over
<1>5. ASSUME NEW p \in BOOLEAN, SetPersistent(p) PROVE HandsOver'
  BY <1>5 DEF SetPersistent, HandsOver, Over
<1>6. CASE DestroySaves
  BY <1>6 DEF DestroySaves, HandsOver, Over, heap
<1>7. CASE DestroyClears
  BY <1>7, DeleteIsDamage DEF DestroyClears, HandsOver, Over, heap
<1>8. CASE SaveFails
  BY <1>8 DEF SaveFails, Happens, HandsOver, Over, heap
<1>9. CASE SaveEnds \/ ClearEnds \/ Crash
  BY <1>9 DEF SaveEnds, ClearEnds, Crash, Ends, HandsOver, Over
<1>10. CASE LoseFile
  BY <1>0, <1>10, DeleteIsDamage DEF LoseFile, HandsOver, heap
<1>11. CASE UNCHANGED vars
  BY <1>11 DEF vars, heap, HandsOver, Damaged
<1> QED BY <1>1, <1>2, <1>3, <1>4, <1>5, <1>6, <1>7, <1>8, <1>9, <1>10, <1>11 DEF Next

(* Undamaged, the cache shows of each job that it has the image of that job.  *)
Has == {j \in Job : Current.map[j] # NoFile}

ImagesOf(jobs) == [j \in Job |-> IF j \in jobs THEN j ELSE Absent]

(* Every entry shows its job, that of a saved map too.                        *)
LEMMA ShowsWhatItHas ==
  ASSUME TypeOK, FilesInv, ~Damaged
  PROVE  Shown = ImagesOf(Has)
<1>1. ASSUME NEW j \in Has PROVE disk[Current.map[j]] = j
  <2>1. CASE at \notin Over
    BY <1>1, <2>1 DEF Has, Current, FilesInv, HasItsFile, Keys
  <2>2. CASE at \in Over /\ saved.is = "map"
    BY <1>1, <2>2 DEF Has, Current, FilesInv, SavedWaits, SavedKeys
  <2>3. CASE at \in Over /\ saved.is # "map"
    BY <1>1, <2>3 DEF Has, Current, NoMap, NoFile
  <2> QED BY <2>1, <2>2, <2>3
<1> QED BY <1>1 DEF Shown, ImagesOf, Has

(* An image is no absent file.                                                *)
LEMMA HasAbsent == \A j \in Job : j # Absent
BY ContentAssumption

(* What the promised cache has, in terms of the two maps.                     *)
LEMMA CachedIsHad ==
  ASSUME Shown = ImagesOf(Has)
  PROVE  Promise!Cached = Has
BY HasAbsent DEF Promise!Cached, ImagesOf, Has

LEMMA UpHasKeys ==
  /\ at \notin Over => /\ Has = Keys /\ Current.older = older /\ Current.bound = mapCapacity
                       /\ Current.map = map
  /\ at \in Over /\ saved.is = "map" =>
       /\ Has = SavedKeys /\ Current.older = saved.older /\ Current.bound = saved.mapCapacity
  /\ at \in Over /\ saved.is # "map" =>
       /\ Has = {} /\ Current.older = {} /\ Current.bound = DefaultCapacity
BY DEF Has, Keys, SavedKeys, Current, NoMap

(* The facts of one step without damage, before and after it.                 *)
Undamaged == /\ TypeOK /\ FilesInv /\ PutIsNew /\ SizeInv /\ HandsOver
             /\ Shown = ImagesOf(Has)

(* While a process uses its cache no map is saved: it was deleted as it was   *)
(* read.                                                                      *)
LEMMA SavedOnlyMeanwhile ==
  ASSUME FilesInv, ~Damaged, at \notin Over \cup {"restoring"}
  PROVE  saved.is # "map"
BY DEF FilesInv, SavedWaits

(* The two modules count alike.                                               *)
LEMMA SameCardinality == \A S : Promise!Cardinality(S) = Cardinality(S)
BY DEF Cardinality, Promise!Cardinality

(* Steps between which the cache stays as it is.                              *)
LEMMA Stutters ==
  ASSUME Undamaged, Undamaged', UNCHANGED <<persistent, Has, Current.older, Current.bound, Unsaved>>
  PROVE  UNCHANGED Promise!cacheVars
BY DEF Undamaged, ImagesOf, Promise!cacheVars, Promise!content

LEMMA StaysUp ==
  ASSUME at \notin Over, at' \notin Over, UNCHANGED <<map, older, mapCapacity>>
  PROVE  UNCHANGED <<Has, Current.older, Current.bound>>
BY DEF Has, Current

(* A process that begins changes nothing of the cache, whether or not it is   *)
(* killed before cache.ser is deleted.                                        *)
LEMMA StartsAsWas ==
  ASSUME Undamaged, Undamaged', StartEmpty \/ StartRestored \/ DeleteSaved
  PROVE  UNCHANGED Promise!cacheVars
<1>1. CASE StartEmpty
  <2>1. UNCHANGED <<Has, Current.older, Current.bound>>
    BY <1>1 DEF StartEmpty, Undamaged, HandsOver, Has, Current, Over
  <2>2. UNCHANGED <<persistent, Unsaved>>
    BY <1>1 DEF StartEmpty, Unsaved, Over
  <2> QED BY <2>1, <2>2, Stutters
<1>2. CASE StartRestored
  <2>1. UNCHANGED <<Has, Current.older, Current.bound>>
    BY <1>2 DEF StartRestored, Has, Current, Over
  <2>2. UNCHANGED <<persistent, Unsaved>>
    BY <1>2 DEF StartRestored, Unsaved, Over
  <2> QED BY <2>1, <2>2, Stutters
<1>3. CASE DeleteSaved
  <2>1. UNCHANGED <<Has, Current.older, Current.bound>>
    BY <1>3, StaysUp DEF DeleteSaved, heap, Over
  <2>2. UNCHANGED <<persistent, Unsaved>>
    BY <1>3 DEF DeleteSaved, Unsaved, heap
  <2> QED BY <2>1, <2>2, Stutters
<1> QED BY <1>1, <1>2, <1>3

(* A get of an entry finds its file.                                          *)
LEMMA GetGets ==
  ASSUME Undamaged, Undamaged', ~Damaged, NEW job \in Job, Get(job)
  PROVE  Promise!Get(job)
<1>1. /\ at = "up" /\ at' = "up" /\ job \in Keys
      /\ UNCHANGED <<mapCapacity, persistent>>
  BY DEF Get
<1>2. disk[map[job]] # Absent
  <2>1. disk[map[job]] = job
    BY <1>1 DEF Undamaged, FilesInv, HasItsFile
  <2> QED BY <2>1, HasAbsent
<1>3. older' = Accessed(Keys, job) /\ map' = map
  BY <1>2 DEF Get
<1>4. /\ Has = Keys /\ Has' = Has /\ Current.bound' = Current.bound
      /\ Current.older = older /\ Current.older' = older'
  BY <1>1, <1>3 DEF Has, Keys, Current, Over
<1>5. Promise!Cached = Keys
  BY <1>4, CachedIsHad DEF Undamaged
<1>6. Shown' = Shown /\ Unsaved' = Unsaved
  BY <1>1, <1>4 DEF Undamaged, ImagesOf, Unsaved
<1>7. Promise!Used(job) = Accessed(Keys, job)
  BY <1>4, <1>5 DEF Promise!Used, Accessed
<1> QED BY <1>1, <1>3, <1>4, <1>5, <1>6, <1>7 DEF Promise!Get

(* What a finished put finds.                                                 *)
LEMMA Writes ==
  ASSUME Undamaged, at = "writing"
  PROVE  /\ writing[1] \in Job /\ writing[2] \in File /\ writing[2] # NoFile
         /\ writing[1] \notin Keys
         /\ Has = Keys /\ Current.older = older /\ Current.bound = mapCapacity
         /\ Promise!Cached = Keys
         /\ Promise!Used(writing[1]) = Accessed(Keys, writing[1])
         /\ ~Unsaved
         /\ map \in Maps /\ older \subseteq Keys \X Keys
<1>1. /\ writing[1] \in Job /\ writing[2] \in File /\ writing[2] # NoFile
      /\ writing[1] \notin Keys /\ map \in Maps /\ older \subseteq Keys \X Keys
  BY BoundsAssumption DEF Undamaged, TypeOK, PutIsNew, File, NoFile
<1>2. Has = Keys /\ Current.older = older /\ Current.bound = mapCapacity
  BY UpHasKeys DEF Over
<1>3. Promise!Cached = Keys
  BY <1>2, CachedIsHad DEF Undamaged
<1>4. Promise!Used(writing[1]) = Accessed(Keys, writing[1])
  BY <1>2, <1>3 DEF Promise!Used, Accessed
<1> QED BY <1>1, <1>2, <1>3, <1>4 DEF Unsaved

(* A put adds its image and disturbs no other file.                           *)
LEMMA PutAddsPuts ==
  ASSUME Undamaged, Undamaged', PutAdds
  PROVE  Promise!PutKeepsAll(writing[1])
<1> DEFINE job == writing[1]
<1>1. /\ at = "writing" /\ at' = "up" /\ Cardinality(Keys) < mapCapacity
      /\ map' = [map EXCEPT ![job] = writing[2]] /\ older' = Accessed(Keys, job)
      /\ UNCHANGED <<mapCapacity, persistent>>
  BY DEF PutAdds
<1>2. Has' = Keys \cup {job} /\ Current.older' = older' /\ Current.bound' = mapCapacity
  BY <1>1, Writes DEF Has, Keys, Current, Maps, Over
<1>3. Shown' = [Shown EXCEPT ![job] = job]
  BY <1>1, <1>2, Writes DEF Undamaged, ImagesOf
<1>4. Unsaved' = Unsaved
  BY <1>1 DEF Unsaved
<1> QED BY <1>1, <1>2, <1>3, <1>4, Writes, SameCardinality DEF Promise!PutKeepsAll

(* One into a full map discards the eldest, and the file of nobody else.      *)
LEMMA PutEvictsDiscards ==
  ASSUME Undamaged, Undamaged', PutEvicts
  PROVE  Promise!PutDiscards(writing[1])
<1> DEFINE job == writing[1]
<1>1. /\ at = "writing" /\ at' = "up" /\ Cardinality(Keys) >= mapCapacity
      /\ UNCHANGED <<mapCapacity, persistent>>
  BY DEF PutEvicts
<1>2. PICK eldest \in Keys \cup {job} :
        /\ \A other \in (Keys \cup {job}) \ {eldest} : <<eldest, other>> \in Accessed(Keys, job)
        /\ map' = [[map EXCEPT ![job] = writing[2]] EXCEPT ![eldest] = NoFile]
        /\ older' = {p \in Accessed(Keys, job) : eldest \notin {p[1], p[2]}}
  BY DEF PutEvicts
<1> DEFINE kept == (Keys \cup {job}) \ {eldest}
<1>3. Has' = kept /\ Current.older' = older' /\ Current.bound' = mapCapacity
  BY <1>1, <1>2, Writes DEF Has, Keys, Current, Maps, Over
<1>4. Cardinality(Keys) = mapCapacity
  <2>1. Cardinality(Keys) <= mapCapacity /\ Cardinality(Keys) \in Nat /\ mapCapacity \in Nat
    BY FS_CardinalityType DEF Undamaged, SizeInv, TypeOK
  <2> QED BY <1>1, <2>1
<1>5. older' = Promise!Among(Accessed(Keys, job), kept)
  <2>1. Accessed(Keys, job) \subseteq (Keys \cup {job}) \X (Keys \cup {job})
    BY <1>1, Writes, AccessedTyped
  <2> QED BY <1>2, <2>1 DEF Promise!Among
<1>6. {eldest} \X kept \subseteq Accessed(Keys, job)
  BY <1>2
<1>7. Shown' = [j \in Job |-> IF j \notin kept THEN Absent ELSE IF j = job THEN job ELSE Shown[j]]
  BY <1>1, <1>3, Writes DEF Undamaged, ImagesOf
<1>8. Unsaved' = Unsaved
  BY <1>1 DEF Unsaved
<1> QED BY <1>1, <1>3, <1>4, <1>5, <1>6, <1>7, <1>8, Writes, SameCardinality DEF Promise!PutDiscards

(* setCapacity discards the eldest until the others fit.                      *)
LEMMA SetCapacitySets ==
  ASSUME Undamaged, Undamaged', NEW c \in Capacities, SetCapacity(c)
  PROVE  Promise!SetCapacity(c)
<1>1. at = "up" /\ at' = "up" /\ mapCapacity' = c /\ persistent' = persistent
  BY DEF SetCapacity
<1>2. PICK kept \in SUBSET Keys :
        /\ kept = Keys \/ Cardinality(kept) = c
        /\ Cardinality(kept) <= c
        /\ \A j \in Keys \ kept, k \in kept : <<j, k>> \in older
        /\ map' = [j \in Job |-> IF j \in kept THEN map[j] ELSE NoFile]
        /\ older' = {p \in older : p[1] \in kept /\ p[2] \in kept}
  BY DEF SetCapacity
<1>3. Has = Keys /\ Current.older = older /\ Promise!Cached = Keys
  BY <1>1, UpHasKeys, CachedIsHad DEF Over, Undamaged
<1>4. Has' = kept /\ Current.older' = older' /\ Current.bound' = c
  BY <1>1, <1>2 DEF Has, Keys, Current, Over
<1>5. Shown' = [j \in Job |-> IF j \in kept THEN Shown[j] ELSE Absent]
  BY <1>2, <1>3, <1>4 DEF Undamaged, ImagesOf, Keys
<1>6. Unsaved' = Unsaved
  BY <1>1 DEF Unsaved
<1> QED BY <1>1, <1>2, <1>3, <1>4, <1>5, <1>6, SameCardinality DEF Promise!SetCapacity, Promise!Among

(* What is left where no map was saved.                                       *)
LEMMA AnewIs ==
  ASSUME Undamaged', Has' = {}, Current.older' = {}, Current.bound' = DefaultCapacity
  PROVE  Promise!Anew
BY DEF Undamaged, ImagesOf, Promise!Anew

LEMMA EndsAnew ==
  ASSUME Undamaged, Undamaged', ~Damaged, at \notin Over \cup {"restoring"},
         NEW how \in Over, Ends(how), saved' = saved
  PROVE  Promise!Anew
<1>1. saved.is # "map"
  BY SavedOnlyMeanwhile DEF Undamaged
<1>2. at' \in Over
  BY DEF Ends
<1>3. Has' = {} /\ Current.older' = {} /\ Current.bound' = DefaultCapacity
  BY <1>1, <1>2 DEF Has, Current, NoMap
<1> QED BY <1>3, AnewIs

(* The end of a persistent cache keeps all of it; otherwise nothing is left.  *)
LEMMA SaveEndsKeeps ==
  ASSUME Undamaged, Undamaged', SaveEnds
  PROVE  Promise!Destroy
<1>1. /\ at = "saving" /\ persistent /\ at' = "destroyed" /\ ~persistent' /\ ~Unsaved /\ ~Unsaved'
      /\ saved' = [is |-> "map", map |-> map, older |-> older, mapCapacity |-> mapCapacity]
  BY DEF SaveEnds, Ends, Undamaged, HandsOver, Unsaved
<1>2. UNCHANGED <<Has, Current.older, Current.bound>>
  BY <1>1 DEF Has, Current, Over
<1>3. UNCHANGED Promise!content
  BY <1>2 DEF Undamaged, ImagesOf, Promise!content
<1>4. persistent' = FALSE /\ Unsaved' = FALSE
  BY <1>1 DEF SaveEnds, Ends, Unsaved
<1> QED BY <1>1, <1>3, <1>4 DEF Promise!Destroy

LEMMA ClearEndsStartsAnew ==
  ASSUME Undamaged, Undamaged', ~Damaged, ClearEnds
  PROVE  Promise!Destroy
<1>1. at = "clearing" /\ Ends("destroyed") /\ saved' = saved
  BY DEF ClearEnds
<1>2. Promise!Anew
  BY <1>1, EndsAnew DEF Over
<1>3. ~(persistent /\ ~Unsaved)
  BY <1>1 DEF Undamaged, HandsOver, Unsaved
<1>4. persistent' = FALSE /\ Unsaved' = FALSE
  BY <1>1 DEF Ends, Unsaved
<1> QED BY <1>2, <1>3, <1>4 DEF Promise!Destroy

(* A killed process leaves nothing, or what it began with.                    *)
LEMMA CrashCrashes ==
  ASSUME Undamaged, Undamaged', ~Damaged, Crash
  PROVE  Promise!Crash
<1>1. at \notin Over /\ Ends("killed") /\ saved' = saved
  BY DEF Crash
<1>2. persistent' = FALSE /\ Unsaved' = FALSE
  BY <1>1 DEF Ends, Unsaved
<1>3. CASE at = "restoring"
  <2>1. /\ saved.is = "map" /\ saved.map = map
        /\ saved.older = older /\ saved.mapCapacity = mapCapacity
    BY <1>3 DEF Undamaged, HandsOver
  <2>2. UNCHANGED <<Has, Current.older, Current.bound>>
    BY <1>1, <2>1 DEF Has, Current, Ends, Over
  <2>3. UNCHANGED Promise!content
    BY <2>2 DEF Undamaged, ImagesOf, Promise!content
  <2> QED BY <1>2, <2>3 DEF Promise!Crash
<1>4. CASE at # "restoring"
  <2>1. Promise!Anew
    BY <1>1, <1>4, EndsAnew DEF Over
  <2> QED BY <1>2, <2>1 DEF Promise!Crash
<1> QED BY <1>3, <1>4

(* Every step of the code is one of the promised cache, or a stutter.         *)
LEMMA PromiseStep ==
  ASSUME Undamaged, Undamaged', ~Damaged, ~Damaged', [Next]_vars
  PROVE  [Promise!Next]_(Promise!cacheVars)
<1>1. CASE StartEmpty \/ StartRestored \/ DeleteSaved
  BY <1>1, StartsAsWas
<1>2. ASSUME NEW job \in Job, Get(job) PROVE Promise!Next
  BY <1>2, GetGets DEF Promise!Next
<1>3. ASSUME NEW job \in Job, PutOpens(job) PROVE UNCHANGED Promise!cacheVars
  <2>1. UNCHANGED <<Has, Current.older, Current.bound>>
    BY <1>3, StaysUp DEF PutOpens, Over
  <2>2. UNCHANGED <<persistent, Unsaved>>
    BY <1>3 DEF PutOpens, Unsaved
  <2> QED BY <2>1, <2>2, Stutters
<1>4. CASE PutAdds
  BY <1>4, PutAddsPuts, Writes DEF PutAdds, Promise!Next
<1>5. CASE PutEvicts
  BY <1>5, PutEvictsDiscards, Writes DEF PutEvicts, Promise!Next
<1>6. CASE PutFails \/ PutFailsToOpen \/ DestroySaves \/ DestroyClears
  <2>1. UNCHANGED <<Has, Current.older, Current.bound>>
    BY <1>6, StaysUp DEF PutFails, PutFailsToOpen, DestroySaves, DestroyClears, heap, Over
  <2>2. persistent' = persistent
    BY <1>6 DEF PutFails, PutFailsToOpen, DestroySaves, DestroyClears, heap
  <2>3. ~Unsaved /\ ~Unsaved'
    BY <1>6, DeleteIsDamage DEF PutFails, PutFailsToOpen, DestroySaves, DestroyClears, Unsaved, heap
  <2> QED BY <2>1, <2>2, <2>3, Stutters DEF Unsaved
<1>7. ASSUME NEW c \in Capacities, SetCapacity(c) PROVE Promise!Next
  BY <1>7, SetCapacitySets DEF Promise!Next
<1>8. ASSUME NEW p \in BOOLEAN, SetPersistent(p) PROVE Promise!Next
  <2>1. UNCHANGED <<Has, Current.older, Current.bound>>
    BY <1>8, StaysUp DEF SetPersistent, Over
  <2>2. UNCHANGED Promise!content
    BY <2>1 DEF Undamaged, ImagesOf, Promise!content
  <2>3. persistent' = p /\ Unsaved' = Unsaved
    BY <1>8 DEF SetPersistent, Unsaved
  <2> QED BY <2>2, <2>3 DEF Promise!SetPersistent, Promise!Next
<1>9. CASE SaveFails
  <2>1. UNCHANGED <<Has, Current.older, Current.bound>>
    BY <1>9, StaysUp DEF SaveFails, heap, Over
  <2>2. UNCHANGED Promise!content
    BY <2>1 DEF Undamaged, ImagesOf, Promise!content
  <2>3. persistent /\ persistent' = persistent /\ Unsaved' = TRUE
    BY <1>9 DEF SaveFails, Happens, Undamaged, HandsOver, heap, Unsaved
  <2> QED BY <2>2, <2>3 DEF Promise!SavingFails, Promise!Next
<1>10. CASE SaveEnds \/ ClearEnds
  BY <1>10, SaveEndsKeeps, ClearEndsStartsAnew DEF Promise!Next
<1>11. CASE Crash
  BY <1>11, CrashCrashes DEF Promise!Next
<1>12. CASE LoseFile
  BY <1>12, DeleteIsDamage DEF LoseFile
<1>13. CASE UNCHANGED vars
  <2>1. UNCHANGED <<Shown, Current.older, Current.bound, persistent, Unsaved>>
    BY <1>13 DEF vars, heap, Shown, Current, Unsaved
  <2> QED BY <2>1 DEF Promise!cacheVars, Promise!content
<1> QED
  BY <1>1, <1>2, <1>3, <1>4, <1>5, <1>6, <1>7, <1>8, <1>9, <1>10, <1>11, <1>12, <1>13 DEF Next

(* The invariant of what processes hand over.                                 *)
LEMMA HandsOverCorrect == Spec => []HandsOver
<1>1. Init => HandsOver
  BY DEF Init, HandsOver, Over
<1> QED BY <1>1, HandsOverStep, PTL DEF Spec

(* Over all processes that use it, the file cache is the persistent cache     *)
(* with LRU policy that TileCache promises, as long as no file is lost or     *)
(* cannot be deleted: whatever is written in between, entries show the images *)
(* of their jobs, and cache.ser brings back what a process has left.          *)
THEOREM PersistentCacheCorrect == Spec => ImplementsPersistentTileCache
<1> DEFINE Inv == TypeOK /\ FilesInv /\ PutIsNew /\ SizeInv /\ HandsOver
<1>1. Spec => []Inv
  BY TypeCorrect, FilesInvCorrect, PutIsNewCorrect, SizeInvCorrect, HandsOverCorrect, PTL
<1>2. Inv /\ ~Damaged => Undamaged
  BY ShowsWhatItHas DEF Undamaged
<1>3. ASSUME Inv, Inv', [Next]_vars
      PROVE  [faults' \cap {"loss", "delete"} # {} \/ Promise!Next]_(Promise!cacheVars)
  <2>1. CASE Damaged'
    BY <2>1 DEF Damaged
  <2>2. CASE ~Damaged'
    <3>1. ~Damaged
      BY <1>3, <2>2, DamagedForEver
    <3>2. (Inv /\ ~Damaged => Undamaged)'
      BY <1>2, PTL
    <3> QED BY <1>2, <1>3, <2>2, <3>1, <3>2, PromiseStep
  <2> QED BY <2>1, <2>2
<1>4. Init => Promise!Init
  <2> SUFFICES ASSUME Init PROVE Promise!Init
    OBVIOUS
  <2>1. at \in Over /\ saved.is # "map" /\ persistent = FALSE
    BY DEF Init, Over, Nothing
  <2>2. Current = [map |-> NoMap, older |-> {}, bound |-> DefaultCapacity]
    BY <2>1 DEF Current
  <2>3. Shown = [j \in Job |-> Absent] /\ Unsaved = FALSE
    BY <2>1, <2>2 DEF Shown, NoMap, Unsaved, Over
  <2> QED BY <2>1, <2>2, <2>3 DEF Promise!Init
<1> HIDE DEF Inv
<1> QED
  BY <1>1, <1>3, <1>4, PTL DEF Spec, ImplementsPersistentTileCache
=============================================================================
