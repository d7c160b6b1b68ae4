----------------------- MODULE InMemoryTileCache_proofs -----------------------
(* Proofs about InMemoryTileCache, for every set of jobs and images and every *)
(* capacity.                                                                  *)
EXTENDS InMemoryTileCache, FiniteSetTheorems, TLAPS

(* What bitmapPool.remove(size - 1) takes and leaves.                         *)
LEMMA RemoveLast ==
  ASSUME TypeOK, bitmapPool # <<>>
  PROVE  /\ Last \in Bitmap
         /\ Last \in Pooled
         /\ AllButLast \in Seq(Bitmap)
         /\ Len(AllButLast) = Len(bitmapPool) - 1
         /\ DOMAIN AllButLast = 1 .. Len(bitmapPool) - 1
         /\ \A i \in DOMAIN AllButLast : AllButLast[i] = bitmapPool[i]
         /\ Len(bitmapPool) \in Nat \ {0}
         /\ DOMAIN bitmapPool = 1 .. Len(bitmapPool)
<1> DEFINE n == Len(bitmapPool)
<1>1. bitmapPool \in Seq(Bitmap) /\ n \in Nat /\ DOMAIN bitmapPool = 1 .. n
  BY DEF TypeOK
<1>2. n # 0
  BY <1>1
<1>3. n \in DOMAIN bitmapPool
  BY <1>1, <1>2
<1>4. Last \in Bitmap /\ Last \in Pooled
  BY <1>1, <1>3 DEF Last, Pooled
<1>5. /\ AllButLast \in Seq(Bitmap)
      /\ Len(AllButLast) = n - 1
      /\ \A i \in 1 .. n - 1 : AllButLast[i] = bitmapPool[i]
  BY <1>1, <1>2 DEF AllButLast
<1>6. DOMAIN AllButLast = 1 .. n - 1
  BY <1>5
<1> QED
  BY <1>1, <1>2, <1>4, <1>5, <1>6

LEMMA TypeStep == ASSUME TypeOK, [Next]_vars PROVE TypeOK'
<1>1. ASSUME NEW job \in Job, Get(job) PROVE TypeOK'
  BY <1>1 DEF TypeOK, Get, Accessed, Keys
<1>2. ASSUME NEW job \in Job, NEW img \in Image, PutIgnored(job, img) PROVE TypeOK'
  BY <1>2 DEF TypeOK, PutIgnored, vars, Keys
<1>3. ASSUME NEW job \in Job, NEW img \in Image, PutReplaces(job, img) PROVE TypeOK'
  BY <1>3, RemoveLast DEF TypeOK, PutReplaces, Copies, Accessed, Keys, Bitmap, NoBitmap
<1>4. ASSUME NEW job \in Job, NEW img \in Image, PutAdds(job, img) PROVE TypeOK'
  BY <1>4, RemoveLast DEF TypeOK, PutAdds, Copies, Accessed, Keys, Bitmap, NoBitmap
<1>5. ASSUME NEW job \in Job, NEW img \in Image, PutEvicts(job, img) PROVE TypeOK'
  <2>1. PICK eldest \in Keys :
          /\ map' = [map EXCEPT ![eldest] = NoBitmap, ![job] = Last]
          /\ older' = Accessed(Keys \ {eldest}, job)
          /\ bitmapPool' = Append(AllButLast, map[eldest])
    BY <1>5 DEF PutEvicts
  <2>2. map[eldest] \in Bitmap
    BY DEF TypeOK, Keys
  <2>3. Copies(img)
    BY <1>5 DEF PutEvicts
  <2>4. bitmapPool' \in Seq(Bitmap)
    BY <2>1, <2>2, <2>3, RemoveLast DEF Copies
  <2> QED
    BY <2>1, <2>2, <2>3, <2>4, RemoveLast DEF TypeOK, Copies, Accessed, Keys, Bitmap, NoBitmap
<1>6. ASSUME Destroy PROVE TypeOK'
  BY <1>6 DEF TypeOK, Destroy, Keys, Mapped, Pooled
<1>7. ASSUME UNCHANGED vars PROVE TypeOK'
  BY <1>7 DEF TypeOK, vars, Keys
<1> QED
  BY <1>1, <1>2, <1>3, <1>4, <1>5, <1>6, <1>7 DEF Next, Put

(* The type invariant: puts, evictions and accesses keep every entry, the     *)
(* access order and the pool well formed.                                     *)
THEOREM TypeCorrect == Spec => []TypeOK
<1>1. Init => TypeOK
  BY CapacityAssumption DEF Init, TypeOK, Bitmap, NoBitmap, Keys
<1>2. TypeOK /\ [Next]_vars => TypeOK'
  BY TypeStep
<1> QED
  BY <1>1, <1>2, PTL DEF Spec

-----------------------------------------------------------------------------
(* The pool's last bitmap is in the pool once only, and in no entry.          *)
LEMMA LastIsFree ==
  ASSUME TypeOK, BitmapsUnshared, bitmapPool # <<>>
  PROVE  /\ \A j \in Keys : map[j] # Last
         /\ \A i \in DOMAIN AllButLast : AllButLast[i] # Last
         /\ \A j \in Keys, i \in DOMAIN AllButLast : AllButLast[i] # map[j]
         /\ \A m, n \in DOMAIN AllButLast : AllButLast[m] = AllButLast[n] => m = n
<1>1. Len(bitmapPool) \in DOMAIN bitmapPool /\ Last = bitmapPool[Len(bitmapPool)]
  BY RemoveLast DEF Last
<1>2. \A j \in Keys, i \in DOMAIN bitmapPool : bitmapPool[i] # map[j]
  BY DEF BitmapsUnshared, Mapped, Pooled
<1>3. DOMAIN AllButLast \subseteq DOMAIN bitmapPool /\ Len(bitmapPool) \notin DOMAIN AllButLast
  BY RemoveLast
<1>4. \A m, n \in DOMAIN bitmapPool : bitmapPool[m] = bitmapPool[n] => m = n
  BY DEF BitmapsUnshared
<1>5. \A i \in DOMAIN AllButLast : AllButLast[i] = bitmapPool[i]
  BY RemoveLast
<1> QED
  BY <1>1, <1>2, <1>3, <1>4, <1>5

(* Where the bitmaps are after a put that stores its image.                   *)
LEMMA StoredWithoutEviction ==
  ASSUME TypeOK, NEW job \in Job, bitmapPool # <<>>,
         map' = [map EXCEPT ![job] = Last]
  PROVE  /\ Keys' = Keys \cup {job}
         /\ map'[job] = Last
         /\ \A j \in Keys \ {job} : map'[j] = map[j]
BY RemoveLast DEF TypeOK, Keys, Bitmap, NoBitmap

LEMMA StoredWithEviction ==
  ASSUME TypeOK, NEW job \in Job, job \notin Keys, bitmapPool # <<>>,
         NEW eldest \in Keys,
         map' = [map EXCEPT ![eldest] = NoBitmap, ![job] = Last]
  PROVE  /\ Keys' = (Keys \ {eldest}) \cup {job}
         /\ map'[job] = Last
         /\ \A j \in Keys \ {eldest} : map'[j] = map[j]
BY RemoveLast DEF TypeOK, Keys, Bitmap, NoBitmap

LEMMA UnsharedStep == ASSUME TypeOK, BitmapsUnshared, [Next]_vars PROVE BitmapsUnshared'
<1>1. ASSUME UNCHANGED <<map, bitmapPool>> PROVE BitmapsUnshared'
  BY <1>1 DEF BitmapsUnshared, Keys, Mapped, Pooled
<1>2. ASSUME NEW job \in Job, bitmapPool # <<>>,
             map' = [map EXCEPT ![job] = Last],
             bitmapPool' = AllButLast
      PROVE  BitmapsUnshared'
  <2>a. /\ Keys' = Keys \cup {job}
        /\ map'[job] = Last
        /\ \A j \in Keys \ {job} : map'[j] = map[j]
    BY <1>2, StoredWithoutEviction
  <2>b. \A j, k \in Keys : map[j] = map[k] => j = k
    BY DEF BitmapsUnshared
  <2>1. \A j, k \in Keys' : map'[j] = map'[k] => j = k
    BY <1>2, <2>a, <2>b, LastIsFree
  <2>2. \A m, n \in DOMAIN bitmapPool' : bitmapPool'[m] = bitmapPool'[n] => m = n
    BY <1>2, LastIsFree
  <2>3. \A j \in Keys', i \in DOMAIN bitmapPool' : bitmapPool'[i] # map'[j]
    BY <1>2, <2>a, LastIsFree
  <2> QED
    BY <2>1, <2>2, <2>3 DEF BitmapsUnshared, Mapped, Pooled
<1>3. ASSUME NEW job \in Job, NEW img \in Image, PutEvicts(job, img) PROVE BitmapsUnshared'
  <2>1. bitmapPool # <<>> /\ job \notin Keys
    BY <1>3 DEF PutEvicts, Copies
  <2>2. PICK eldest \in Keys :
          /\ map' = [map EXCEPT ![eldest] = NoBitmap, ![job] = Last]
          /\ bitmapPool' = Append(AllButLast, map[eldest])
    BY <1>3 DEF PutEvicts
  <2>3. /\ Keys' = (Keys \ {eldest}) \cup {job}
        /\ map'[job] = Last
        /\ \A j \in Keys \ {eldest} : map'[j] = map[j]
    BY <2>1, <2>2, StoredWithEviction
  <2>4. map[eldest] \in Bitmap
    BY DEF TypeOK, Keys
  <2> DEFINE n == Len(AllButLast)
  <2>5. /\ DOMAIN bitmapPool' = 1 .. n + 1
        /\ DOMAIN AllButLast = 1 .. n
        /\ bitmapPool'[n + 1] = map[eldest]
        /\ \A i \in 1 .. n : bitmapPool'[i] = AllButLast[i]
        /\ n \in Nat
    BY <2>1, <2>2, <2>4, RemoveLast
  <2>6. \A j, k \in Keys' : map'[j] = map'[k] => j = k
    BY <2>1, <2>3, LastIsFree DEF BitmapsUnshared
  <2>7. \A i \in 1 .. n : bitmapPool'[i] # map[eldest]
    BY <2>1, <2>5, LastIsFree
  <2>8. ASSUME NEW m \in 1 .. n + 1, NEW k \in 1 .. n + 1, bitmapPool'[m] = bitmapPool'[k]
        PROVE  m = k
    <3>1. CASE m \in 1 .. n /\ k \in 1 .. n
      BY <2>1, <2>5, <2>8, <3>1, LastIsFree
    <3>2. CASE m = n + 1 \/ k = n + 1
      BY <2>5, <2>7, <2>8, <3>2
    <3> QED
      BY <2>5, <3>1, <3>2
  <2>9. ASSUME NEW j \in Keys', NEW i \in DOMAIN bitmapPool'
        PROVE  bitmapPool'[i] # map'[j]
    <3>1. CASE i = n + 1
      BY <2>1, <2>3, <2>5, <3>1, LastIsFree DEF BitmapsUnshared
    <3>2. CASE i \in 1 .. n
      BY <2>1, <2>3, <2>5, <3>2, LastIsFree
    <3> QED
      BY <2>5, <3>1, <3>2
  <2> QED
    BY <2>5, <2>6, <2>8, <2>9 DEF BitmapsUnshared, Mapped, Pooled
<1>4. ASSUME Destroy PROVE BitmapsUnshared'
  BY <1>4 DEF BitmapsUnshared, Destroy, Keys, Mapped, Pooled, NoBitmap
<1> QED
  BY <1>1, <1>2, <1>3, <1>4
  DEF Next, Put, Get, PutIgnored, PutReplaces, PutAdds, Copies, vars

(* Two entries never share a bitmap and the pool never offers one that an     *)
(* entry shows, whatever the clients put: an image in the cache is only ever  *)
(* painted over by its own eviction.                                          *)
THEOREM UnsharedCorrect == Spec => []BitmapsUnshared
<1>1. Init => BitmapsUnshared
  BY CapacityAssumption DEF Init, BitmapsUnshared, Bitmap, NoBitmap, Keys, Mapped
<1>2. TypeOK /\ BitmapsUnshared /\ [Next]_vars => BitmapsUnshared'
  BY UnsharedStep
<1> QED
  BY <1>1, <1>2, TypeCorrect, PTL DEF Spec

-----------------------------------------------------------------------------
LEMMA AccessKeepsOrder ==
  ASSUME TypeOK, OrderIsTotal, NEW kept \in SUBSET Keys, NEW job \in Job,
         older' = Accessed(kept, job), Keys' = kept \cup {job}
  PROVE  OrderIsTotal'
<1> DEFINE rest == kept \ {job}
<1>1. ASSUME NEW j \in Keys', NEW k \in Keys'
      PROVE  <<j, k>> \in older' <=> /\ j \in rest
                                     /\ k = job \/ (k \in rest /\ <<j, k>> \in older)
  BY DEF Accessed
<1>2. older' \subseteq Keys' \X Keys'
  BY DEF Accessed, OrderIsTotal
<1>3. \A j, k \in rest : j # k => <<j, k>> \in older \/ <<k, j>> \in older
  BY DEF OrderIsTotal
<1>4. \A j, k, m \in rest : <<j, j>> \notin older
                            /\ (<<j, k>> \in older /\ <<k, m>> \in older => <<j, m>> \in older)
  BY DEF OrderIsTotal
<1>5. \A j \in Keys' : j \in rest \/ j = job
  OBVIOUS
<1>6. job \notin rest
  OBVIOUS
<1>7. ASSUME NEW j \in Keys', NEW k \in Keys', NEW m \in Keys'
      PROVE  /\ <<j, j>> \notin older'
             /\ j # k => <<j, k>> \in older' \/ <<k, j>> \in older'
             /\ <<j, k>> \in older' /\ <<k, m>> \in older' => <<j, m>> \in older'
  <2> HIDE DEF rest
  <2>1. <<j, j>> \notin older'
    BY <1>1, <1>4, <1>6
  <2>2. j # k => <<j, k>> \in older' \/ <<k, j>> \in older'
    BY <1>1, <1>3, <1>5, <1>6
  <2>3. <<j, k>> \in older' /\ <<k, m>> \in older' => <<j, m>> \in older'
    BY <1>1, <1>4, <1>5, <1>6
  <2> QED
    BY <2>1, <2>2, <2>3
<1> QED
  BY <1>2, <1>7 DEF OrderIsTotal

LEMMA OrderStep == ASSUME TypeOK, OrderIsTotal, [Next]_vars PROVE OrderIsTotal'
<1>1. ASSUME UNCHANGED <<map, older>> PROVE OrderIsTotal'
  BY <1>1 DEF OrderIsTotal, Keys
<1>2. ASSUME NEW job \in Job, Get(job) PROVE OrderIsTotal'
  <2>1. Keys' = Keys \cup {job} /\ older' = Accessed(Keys, job)
    BY <1>2 DEF Get, Keys
  <2> QED
    BY <2>1, AccessKeepsOrder
<1>3. ASSUME NEW job \in Job, bitmapPool # <<>>, map' = [map EXCEPT ![job] = Last],
             older' = Accessed(Keys, job)
      PROVE  OrderIsTotal'
  BY <1>3, StoredWithoutEviction, AccessKeepsOrder
<1>4. ASSUME NEW job \in Job, NEW img \in Image, PutEvicts(job, img) PROVE OrderIsTotal'
  <2>1. PICK eldest \in Keys :
          /\ map' = [map EXCEPT ![eldest] = NoBitmap, ![job] = Last]
          /\ older' = Accessed(Keys \ {eldest}, job)
    BY <1>4 DEF PutEvicts
  <2>2. Keys' = (Keys \ {eldest}) \cup {job}
    BY <1>4, <2>1, StoredWithEviction DEF PutEvicts, Copies
  <2> QED
    BY <2>1, <2>2, AccessKeepsOrder
<1>5. ASSUME Destroy PROVE OrderIsTotal'
  BY <1>5 DEF Destroy, OrderIsTotal, Keys
<1> QED
  BY <1>1, <1>2, <1>3, <1>4, <1>5
  DEF Next, Put, PutIgnored, PutReplaces, PutAdds, Copies, vars

(* There is always exactly one order of use, so that an eviction never lacks  *)
(* an eldest entry and never has a choice.                                    *)
THEOREM OrderCorrect == Spec => []OrderIsTotal
<1>1. Init => OrderIsTotal
  BY DEF Init, OrderIsTotal, Keys
<1>2. TypeOK /\ OrderIsTotal /\ [Next]_vars => OrderIsTotal'
  BY OrderStep
<1> QED
  BY <1>1, <1>2, TypeCorrect, PTL DEF Spec

-----------------------------------------------------------------------------
LEMMA CountBitmaps ==
  ASSUME TypeOK, BitmapsUnshared
  PROVE  /\ IsFiniteSet(Keys)
         /\ IsFiniteSet(Mapped) /\ Cardinality(Mapped) = Cardinality(Keys)
         /\ IsFiniteSet(Pooled) /\ Cardinality(Pooled) = Len(bitmapPool)
         /\ IsFiniteSet(Bitmap) /\ Cardinality(Bitmap) = Capacity + 1
         /\ Mapped \subseteq Bitmap /\ Pooled \subseteq Bitmap
<1>1. IsFiniteSet(Bitmap) /\ Cardinality(Bitmap) = Capacity + 1
  BY FS_Interval, CapacityAssumption DEF Bitmap
<1>2. Mapped \subseteq Bitmap /\ Pooled \subseteq Bitmap
  BY DEF Mapped, Pooled, Keys, TypeOK
<1> DEFINE f == [j \in Keys |-> map[j]]
<1>3. f \in Bijection(Keys, Mapped)
  BY DEF Bijection, Injection, Surjection, IsInjective, Mapped, BitmapsUnshared
<1>4. f \in Injection(Keys, Mapped) /\ ExistsBijection(Keys, Mapped)
  BY <1>3 DEF Bijection, ExistsBijection
<1>5. IsFiniteSet(Mapped)
  BY <1>1, <1>2, FS_Subset
<1>6. IsFiniteSet(Keys)
  BY <1>4, <1>5, FS_Injection
<1>7. Cardinality(Mapped) = Cardinality(Keys)
  BY <1>4, <1>6, FS_Bijection
<1> DEFINE n == Len(bitmapPool)
           g == [i \in 1 .. n |-> bitmapPool[i]]
<1>8. n \in Nat /\ DOMAIN bitmapPool = 1 .. n
  BY DEF TypeOK
<1>9. g \in Bijection(1 .. n, Pooled)
  <2>1. \A i, k \in 1 .. n : bitmapPool[i] = bitmapPool[k] => i = k
    BY <1>8 DEF BitmapsUnshared
  <2>2. Pooled = {bitmapPool[i] : i \in 1 .. n}
    BY <1>8 DEF Pooled
  <2> QED
    BY <2>1, <2>2 DEF Bijection, Injection, Surjection, IsInjective
<1>10. ExistsBijection(1 .. n, Pooled)
  BY <1>9 DEF ExistsBijection
<1>11. IsFiniteSet(1 .. n) /\ Cardinality(1 .. n) = n
  <2>1. Cardinality(1 .. n) = IF 1 > n THEN 0 ELSE n - 1 + 1
    BY <1>8, FS_Interval
  <2>2. IsFiniteSet(1 .. n)
    BY <1>8, FS_Interval
  <2> QED
    BY <1>8, <2>1, <2>2
<1>12. IsFiniteSet(Pooled) /\ Cardinality(Pooled) = n
  BY <1>10, <1>11, FS_Bijection
<1> QED
  BY <1>1, <1>2, <1>5, <1>6, <1>7, <1>12

(* Entries, free bitmaps and leaked ones are Capacity + 1 until destroy.      *)
LEMMA BitmapsAddUp ==
  ASSUME TypeOK, BitmapsUnshared, recycled = {}
  PROVE  Cardinality(Keys) + Len(bitmapPool) + Cardinality(Leaked) = Capacity + 1
<1> DEFINE used == Mapped \cup Pooled
<1>1. Cardinality(used) = Cardinality(Mapped) + Cardinality(Pooled) /\ IsFiniteSet(used)
  <2>1. Cardinality(Mapped \cap Pooled) = 0
    BY FS_EmptySet DEF BitmapsUnshared
  <2>2. Cardinality(Mapped) \in Nat /\ Cardinality(Pooled) \in Nat
    BY CountBitmaps, FS_CardinalityType
  <2> QED
    BY <2>1, <2>2, CountBitmaps, FS_Union
<1>2. Leaked = Bitmap \ used /\ Bitmap \cap used = used
  BY CountBitmaps DEF Leaked
<1>3. Cardinality(Leaked) = Cardinality(Bitmap) - Cardinality(used)
  <2>1. Cardinality(Bitmap \ used) = Cardinality(Bitmap) - Cardinality(Bitmap \cap used)
    BY CountBitmaps, FS_Difference
  <2> QED
    BY <1>2, <2>1
<1>4. Cardinality(Mapped) \in Nat /\ Cardinality(Pooled) \in Nat /\ Cardinality(Bitmap) \in Nat
  BY CountBitmaps, FS_CardinalityType
<1> QED
  BY <1>1, <1>3, <1>4, CountBitmaps

(* A destroyed cache is empty and stays empty.                                *)
EmptyOnceDestroyed == recycled # {} => Keys = {} /\ bitmapPool = <<>>

LEMMA EmptyStep ==
  ASSUME EmptyOnceDestroyed, [Next]_vars
  PROVE  EmptyOnceDestroyed'
<1>1. ASSUME UNCHANGED <<map, bitmapPool, recycled>> PROVE EmptyOnceDestroyed'
  BY <1>1 DEF EmptyOnceDestroyed, Keys
<1>2. ASSUME NEW img \in Image, Copies(img) PROVE EmptyOnceDestroyed'
  BY <1>2 DEF Copies, EmptyOnceDestroyed
<1>3. ASSUME Destroy PROVE EmptyOnceDestroyed'
  BY <1>3 DEF Destroy, EmptyOnceDestroyed, Keys
<1> QED
  BY <1>1, <1>2, <1>3
  DEF Next, Put, Get, PutIgnored, PutReplaces, PutAdds, PutEvicts, vars

LEMMA EmptyOnceDestroyedCorrect == Spec => []EmptyOnceDestroyed
<1>1. Init => EmptyOnceDestroyed
  BY DEF Init, EmptyOnceDestroyed
<1>2. EmptyOnceDestroyed /\ [Next]_vars => EmptyOnceDestroyed'
  BY EmptyStep
<1> QED
  BY <1>1, <1>2, PTL DEF Spec

LEMMA SizeStep ==
  ASSUME TypeOK, BitmapsUnshared, Cardinality(Keys) <= Capacity, [Next]_vars
  PROVE  (Cardinality(Keys) <= Capacity)'
<1>0. IsFiniteSet(Keys) /\ Cardinality(Keys) \in Nat
  BY CountBitmaps, FS_CardinalityType
<1>1. ASSUME UNCHANGED map PROVE (Cardinality(Keys) <= Capacity)'
  BY <1>1 DEF Keys
<1>2. ASSUME NEW job \in Job, NEW img \in Image, PutReplaces(job, img)
      PROVE  (Cardinality(Keys) <= Capacity)'
  <2>1. Keys' = Keys
    BY <1>2, StoredWithoutEviction DEF PutReplaces, Copies
  <2> QED
    BY <2>1
<1>3. ASSUME NEW job \in Job, NEW img \in Image, PutAdds(job, img)
      PROVE  (Cardinality(Keys) <= Capacity)'
  <2>1. Keys' = Keys \cup {job}
    BY <1>3, StoredWithoutEviction DEF PutAdds, Copies
  <2>2. Cardinality(Keys \cup {job}) = Cardinality(Keys) + 1
    BY <1>0, <1>3, FS_AddElement DEF PutAdds
  <2>3. Cardinality(Keys) < Capacity
    BY <1>3 DEF PutAdds
  <2> QED
    BY <1>0, <2>1, <2>2, <2>3, CapacityAssumption
<1>4. ASSUME NEW job \in Job, NEW img \in Image, PutEvicts(job, img)
      PROVE  (Cardinality(Keys) <= Capacity)'
  <2>1. PICK eldest \in Keys : map' = [map EXCEPT ![eldest] = NoBitmap, ![job] = Last]
    BY <1>4 DEF PutEvicts
  <2>2. Keys' = (Keys \ {eldest}) \cup {job}
    BY <1>4, <2>1, StoredWithEviction DEF PutEvicts, Copies
  <2>3. IsFiniteSet(Keys \ {eldest}) /\ Cardinality(Keys \ {eldest}) = Cardinality(Keys) - 1
    BY <1>0, FS_RemoveElement
  <2>4. job \notin Keys \ {eldest}
    BY <1>4 DEF PutEvicts
  <2>5. Cardinality((Keys \ {eldest}) \cup {job}) = Cardinality(Keys \ {eldest}) + 1
    BY <2>3, <2>4, FS_AddElement
  <2> QED
    BY <1>0, <2>2, <2>3, <2>5
<1>5. ASSUME Destroy PROVE (Cardinality(Keys) <= Capacity)'
  <2>1. Keys' = {}
    BY <1>5 DEF Destroy, Keys
  <2> QED
    BY <2>1, FS_EmptySet, CapacityAssumption
<1> QED
  BY <1>1, <1>2, <1>3, <1>4, <1>5 DEF Next, Put, Get, PutIgnored, vars

(* The cache never grows past its capacity, and each bitmap it lost is one    *)
(* that neither an entry nor the pool has.                                    *)
THEOREM SizeCorrect == Spec => []SizeIsFixed
<1> DEFINE Small == Cardinality(Keys) <= Capacity
<1>1. Init => Small
  <2>1. Init => Keys = {}
    BY DEF Init, Keys
  <2> QED
    BY <2>1, FS_EmptySet, CapacityAssumption
<1>2. TypeOK /\ BitmapsUnshared /\ Small /\ [Next]_vars => Small'
  BY SizeStep
<1>3. Spec => []Small
  BY <1>1, <1>2, TypeCorrect, UnsharedCorrect, PTL DEF Spec
<1>4. TypeOK /\ BitmapsUnshared /\ Small => SizeIsFixed
  BY BitmapsAddUp DEF SizeIsFixed
<1> QED
  BY <1>3, <1>4, TypeCorrect, UnsharedCorrect, PTL

(* A full cache that lost a bitmap takes no new tile any more.                *)
THEOREM LeakFreezesCorrect == Spec => LeakFreezes
<1>1. TypeOK /\ BitmapsUnshared /\ EmptyOnceDestroyed /\ [Next]_vars
        => (Leaked # {} /\ Cardinality(Keys) = Capacity => Keys' = Keys \/ Keys' = {})
  <2> SUFFICES ASSUME TypeOK, BitmapsUnshared, EmptyOnceDestroyed, [Next]_vars,
                      Leaked # {}, Cardinality(Keys) = Capacity
               PROVE  Keys' = Keys \/ Keys' = {}
    OBVIOUS
  <2>1. bitmapPool = <<>>
    <3>1. CASE recycled = {}
      <4>1. Leaked \subseteq Bitmap
        BY DEF Leaked
      <4>2. IsFiniteSet(Leaked)
        BY <4>1, CountBitmaps, FS_Subset
      <4>3. Cardinality(Leaked) \in Nat /\ Cardinality(Leaked) # 0
        BY <4>2, FS_CardinalityType, FS_EmptySet
      <4>4. Len(bitmapPool) \in Nat /\ (Len(bitmapPool) = 0 => bitmapPool = <<>>)
        BY DEF TypeOK
      <4>5. Cardinality(Keys) + Len(bitmapPool) + Cardinality(Leaked) = Capacity + 1
        BY <3>1, BitmapsAddUp
      <4> QED
        BY <4>3, <4>4, <4>5, CapacityAssumption
    <3> QED
      BY <3>1 DEF EmptyOnceDestroyed
  <2>2. ASSUME UNCHANGED map PROVE Keys' = Keys
    BY <2>2 DEF Keys
  <2>3. ASSUME Destroy PROVE Keys' = {}
    BY <2>3 DEF Destroy, Keys
  <2> QED
    BY <2>1, <2>2, <2>3
    DEF Next, Put, Get, PutIgnored, PutReplaces, PutAdds, PutEvicts, Copies, vars
<1> QED
  BY <1>1, TypeCorrect, UnsharedCorrect, EmptyOnceDestroyedCorrect, PTL DEF Spec, LeakFreezes

-----------------------------------------------------------------------------
(* Clients that check containsKey first are clients.                          *)
LEMMA CheckedIsSpec == CheckedSpec => Spec
<1>1. NextChecked => Next
  BY DEF NextChecked, Next
<1> QED
  BY <1>1, PTL DEF CheckedSpec, Spec

LEMMA NothingLeaksStep ==
  ASSUME TypeOK, BitmapsUnshared, NothingLeaks, [NextChecked]_vars
  PROVE  NothingLeaks'
<1>0. Bitmap \subseteq Mapped \cup Pooled \cup recycled
  BY DEF NothingLeaks, Leaked
<1>1. ASSUME UNCHANGED <<map, bitmapPool, recycled>> PROVE NothingLeaks'
  BY <1>0, <1>1 DEF NothingLeaks, Leaked, Mapped, Pooled, Keys
<1>2. ASSUME NEW job \in Job, NEW img \in Image, PutAdds(job, img) PROVE NothingLeaks'
  <2>1. job \notin Keys /\ bitmapPool # <<>> /\ bitmapPool' = AllButLast /\ recycled' = recycled
    BY <1>2 DEF PutAdds, Copies
  <2>2. Keys' = Keys \cup {job} /\ map'[job] = Last /\ \A j \in Keys : map'[j] = map[j]
    BY <1>2, <2>1, StoredWithoutEviction DEF PutAdds
  <2>3. Mapped \cup {Last} \subseteq Mapped'
    BY <2>2 DEF Mapped
  <2>4. \A i \in DOMAIN bitmapPool : bitmapPool[i] = Last \/ bitmapPool[i] \in Pooled'
    BY <2>1, RemoveLast DEF Pooled, Last
  <2> QED
    BY <1>0, <2>1, <2>3, <2>4 DEF NothingLeaks, Leaked, Pooled
<1>3. ASSUME NEW job \in Job, NEW img \in Image, PutEvicts(job, img) PROVE NothingLeaks'
  <2>1. job \notin Keys /\ bitmapPool # <<>> /\ recycled' = recycled
    BY <1>3 DEF PutEvicts, Copies
  <2>2. PICK eldest \in Keys :
          /\ map' = [map EXCEPT ![eldest] = NoBitmap, ![job] = Last]
          /\ bitmapPool' = Append(AllButLast, map[eldest])
    BY <1>3 DEF PutEvicts
  <2>3. /\ Keys' = (Keys \ {eldest}) \cup {job}
        /\ map'[job] = Last
        /\ \A j \in Keys \ {eldest} : map'[j] = map[j]
    BY <2>1, <2>2, StoredWithEviction
  <2>4. map[eldest] \in Bitmap
    BY DEF TypeOK, Keys
  <2> DEFINE n == Len(AllButLast)
  <2>5. /\ DOMAIN bitmapPool' = 1 .. n + 1
        /\ bitmapPool'[n + 1] = map[eldest]
        /\ \A i \in 1 .. n : bitmapPool'[i] = AllButLast[i]
        /\ n \in Nat
    BY <2>1, <2>2, <2>4, RemoveLast
  <2>6. \A j \in Keys : j = eldest \/ map[j] \in Mapped'
    BY <2>3 DEF Mapped
  <2>7. Last \in Mapped'
    BY <2>3 DEF Mapped
  <2>8. map[eldest] \in Pooled'
    BY <2>5 DEF Pooled
  <2>9. \A i \in 1 .. n : AllButLast[i] \in Pooled'
    BY <2>5 DEF Pooled
  <2>10. \A i \in DOMAIN bitmapPool : bitmapPool[i] = Last \/ bitmapPool[i] \in Pooled'
    BY <2>1, <2>5, <2>9, RemoveLast DEF Last
  <2>11. Mapped \subseteq Mapped' \cup Pooled'
    BY <2>6, <2>8 DEF Mapped
  <2>12. Pooled \subseteq Mapped' \cup Pooled'
    BY <2>7, <2>10 DEF Pooled
  <2> QED
    BY <1>0, <2>1, <2>11, <2>12 DEF NothingLeaks, Leaked
<1>4. ASSUME Destroy PROVE NothingLeaks'
  BY <1>0, <1>4 DEF Destroy, NothingLeaks, Leaked
<1> QED
  BY <1>1, <1>2, <1>3, <1>4
  DEF NextChecked, Put, Get, PutIgnored, PutReplaces, vars

(* A step of a client that checks first loses no bitmap ...                   *)
THEOREM ChecksSufficeCorrect == Spec => ChecksSuffice
<1>1. TypeOK /\ BitmapsUnshared => (NothingLeaks /\ NextChecked => NothingLeaks')
  BY NothingLeaksStep
<1> QED
  BY <1>1, TypeCorrect, UnsharedCorrect, PTL DEF ChecksSuffice

(* ... so that nothing is ever lost if all clients check first ...            *)
THEOREM NothingLeaksCorrect == CheckedSpec => []NothingLeaks
<1>1. Init => NothingLeaks
  BY DEF Init, NothingLeaks, Leaked, Pooled, Bitmap
<1>2. TypeOK /\ BitmapsUnshared /\ NothingLeaks /\ [NextChecked]_vars => NothingLeaks'
  BY NothingLeaksStep
<1> QED
  BY <1>1, <1>2, TypeCorrect, UnsharedCorrect, CheckedIsSpec, PTL DEF CheckedSpec

(* ... and as long as nothing is lost, the one spare bitmap is enough for     *)
(* every put.                                                                 *)
THEOREM PoolNeverEmptyCorrect == Spec => []PoolNeverEmpty
<1>1. TypeOK /\ BitmapsUnshared /\ SizeIsFixed => PoolNeverEmpty
  <2> SUFFICES ASSUME TypeOK, BitmapsUnshared, SizeIsFixed, NothingLeaks, recycled = {}
               PROVE  bitmapPool # <<>>
    BY DEF PoolNeverEmpty
  <2>1. Cardinality(Leaked) = 0
    BY FS_EmptySet DEF NothingLeaks
  <2>2. Cardinality(Keys) \in Nat
    BY CountBitmaps, FS_CardinalityType
  <2>3. /\ Cardinality(Keys) <= Capacity
        /\ Cardinality(Keys) + Len(bitmapPool) + Cardinality(Leaked) = Capacity + 1
    BY DEF SizeIsFixed
  <2>4. Len(bitmapPool) \in Nat
    BY DEF TypeOK
  <2>5. Len(bitmapPool) # 0
    BY <2>1, <2>2, <2>3, <2>4, CapacityAssumption
  <2> QED
    BY <2>5
<1> QED
  BY <1>1, TypeCorrect, UnsharedCorrect, SizeCorrect, PTL

-----------------------------------------------------------------------------
(* The rest of the inductive invariant that the refinement needs: an entry's  *)
(* bitmap was painted.                                                        *)
Painted == \A j \in Keys : pixels[map[j]] \in Image

LEMMA PaintedStep ==
  ASSUME TypeOK, BitmapsUnshared, Painted, [Next]_vars
  PROVE  Painted'
<1>1. ASSUME UNCHANGED <<map, pixels>> PROVE Painted'
  BY <1>1 DEF Painted, Keys
<1>2. ASSUME NEW job \in Job, NEW img \in Image, Copies(img),
             map' = [map EXCEPT ![job] = Last]
      PROVE  Painted'
  <2>1. bitmapPool # <<>> /\ pixels' = [pixels EXCEPT ![Last] = img]
    BY <1>2 DEF Copies
  <2>2. /\ Keys' = Keys \cup {job}
        /\ map'[job] = Last
        /\ \A j \in Keys \ {job} : map'[j] = map[j]
    BY <1>2, <2>1, StoredWithoutEviction
  <2>3. pixels'[Last] = img /\ \A b \in Bitmap \ {Last} : pixels'[b] = pixels[b]
    BY <2>1, RemoveLast DEF TypeOK
  <2>4. \A j \in Keys : map[j] \in Bitmap \ {Last}
    BY <2>1, LastIsFree DEF TypeOK, Keys
  <2> QED
    BY <2>2, <2>3, <2>4 DEF Painted
<1>3. ASSUME NEW job \in Job, NEW img \in Image, PutEvicts(job, img) PROVE Painted'
  <2>1. bitmapPool # <<>> /\ pixels' = [pixels EXCEPT ![Last] = img] /\ job \notin Keys
    BY <1>3 DEF PutEvicts, Copies
  <2>2. PICK eldest \in Keys : map' = [map EXCEPT ![eldest] = NoBitmap, ![job] = Last]
    BY <1>3 DEF PutEvicts
  <2>3. /\ Keys' = (Keys \ {eldest}) \cup {job}
        /\ map'[job] = Last
        /\ \A j \in Keys \ {eldest} : map'[j] = map[j]
    BY <2>1, <2>2, StoredWithEviction
  <2>4. pixels'[Last] = img /\ \A b \in Bitmap \ {Last} : pixels'[b] = pixels[b]
    BY <2>1, RemoveLast DEF TypeOK
  <2>5. \A j \in Keys : map[j] \in Bitmap \ {Last}
    BY <2>1, LastIsFree DEF TypeOK, Keys
  <2> QED
    BY <2>3, <2>4, <2>5 DEF Painted
<1>4. ASSUME Destroy PROVE Painted'
  BY <1>4 DEF Destroy, Painted, Keys
<1> QED
  BY <1>1, <1>2, <1>3, <1>4
  DEF Next, Put, Get, PutIgnored, PutReplaces, PutAdds, vars

LEMMA CachedIsKeys ==
  ASSUME Painted PROVE Promised!Cached = Keys
BY ImageAssumption DEF Promised!Cached, Shown, Painted, Keys

(* What a put that stores its image does to the images that get returns.      *)
LEMMA ShownAfterPut ==
  ASSUME TypeOK, BitmapsUnshared, NEW job \in Job, NEW img \in Image, Copies(img),
         map' = [map EXCEPT ![job] = Last]
  PROVE  Shown' = [Shown EXCEPT ![job] = img]
<1>1. bitmapPool # <<>> /\ pixels' = [pixels EXCEPT ![Last] = img]
  BY DEF Copies
<1>2. /\ Keys' = Keys \cup {job}
      /\ map'[job] = Last
      /\ \A j \in Keys \ {job} : map'[j] = map[j]
  BY <1>1, StoredWithoutEviction
<1>3. pixels'[Last] = img /\ \A b \in Bitmap \ {Last} : pixels'[b] = pixels[b]
  BY <1>1, RemoveLast DEF TypeOK
<1>4. \A j \in Keys : map[j] \in Bitmap \ {Last}
  BY <1>1, LastIsFree DEF TypeOK, Keys
<1>5. Shown \in [Job -> Image \cup {NoImage}] /\ job \in Keys' /\ Shown' = [j \in Job |-> Shown'[j]]
  BY <1>2 DEF Shown, TypeOK, Keys
<1>6. Shown'[job] = img
  BY <1>2, <1>3, <1>5 DEF Shown
<1>7. ASSUME NEW j \in Job, j # job PROVE Shown'[j] = Shown[j]
  <2>1. CASE j \in Keys
    <3>1. Shown'[j] = pixels'[map'[j]] /\ Shown[j] = pixels[map[j]]
      BY <1>2, <2>1 DEF Shown
    <3> QED
      BY <1>2, <1>3, <1>4, <1>7, <2>1, <3>1
  <2>2. CASE j \notin Keys
    BY <1>2, <1>7, <2>2 DEF Shown
  <2> QED
    BY <2>1, <2>2
<1> QED
  BY <1>5, <1>6, <1>7

LEMMA ShownAfterEviction ==
  ASSUME TypeOK, BitmapsUnshared, NEW job \in Job, NEW img \in Image, Copies(img),
         job \notin Keys, NEW eldest \in Keys,
         map' = [map EXCEPT ![eldest] = NoBitmap, ![job] = Last]
  PROVE  Shown' = [Shown EXCEPT ![eldest] = NoImage, ![job] = img]
<1>1. bitmapPool # <<>> /\ pixels' = [pixels EXCEPT ![Last] = img]
  BY DEF Copies
<1>2. /\ Keys' = (Keys \ {eldest}) \cup {job}
      /\ map'[job] = Last
      /\ \A j \in Keys \ {eldest} : map'[j] = map[j]
  BY <1>1, StoredWithEviction
<1>3. pixels'[Last] = img /\ \A b \in Bitmap \ {Last} : pixels'[b] = pixels[b]
  BY <1>1, RemoveLast DEF TypeOK
<1>4. \A j \in Keys : map[j] \in Bitmap \ {Last}
  BY <1>1, LastIsFree DEF TypeOK, Keys
<1>5. eldest # job /\ eldest \in Job
  BY DEF Keys
<1>6. Shown \in [Job -> Image \cup {NoImage}] /\ job \in Keys' /\ Shown' = [j \in Job |-> Shown'[j]]
  BY <1>2 DEF Shown, TypeOK, Keys
<1>7. Shown'[job] = img /\ Shown'[eldest] = NoImage
  BY <1>2, <1>3, <1>5, <1>6 DEF Shown
<1>8. ASSUME NEW j \in Job, j # job, j # eldest PROVE Shown'[j] = Shown[j]
  <2>1. CASE j \in Keys
    <3>1. Shown'[j] = pixels'[map'[j]] /\ Shown[j] = pixels[map[j]]
      BY <1>2, <1>8, <2>1 DEF Shown
    <3> QED
      BY <1>2, <1>3, <1>4, <1>8, <2>1, <3>1
  <2>2. CASE j \notin Keys
    BY <1>2, <1>8, <2>2 DEF Shown
  <2> QED
    BY <2>1, <2>2
<1> QED
  BY <1>5, <1>6, <1>7, <1>8

(* After a put every entry shows what it showed before, or the image that was *)
(* put under its job.                                                         *)
LEMMA PutKeepsImages ==
  ASSUME TypeOK, BitmapsUnshared, NEW job \in Job, NEW img \in Image, Put(job, img)
  PROVE  \A j \in Keys' : \/ j = job /\ pixels'[map'[j]] = img
                          \/ j \in Keys /\ pixels'[map'[j]] = pixels[map[j]]
<1>1. CASE PutIgnored(job, img)
  BY <1>1 DEF PutIgnored, vars, Keys
<1>2. CASE PutReplaces(job, img) \/ PutAdds(job, img)
  <2>1. Copies(img) /\ map' = [map EXCEPT ![job] = Last] /\ bitmapPool # <<>>
    BY <1>2 DEF PutReplaces, PutAdds, Copies
  <2>2. Keys' = Keys \cup {job}
    BY <2>1, StoredWithoutEviction
  <2>3. Shown' = [Shown EXCEPT ![job] = img]
    BY <2>1, ShownAfterPut
  <2> QED
    BY <2>2, <2>3 DEF Shown, Keys
<1>3. CASE PutEvicts(job, img)
  <2>1. PICK eldest \in Keys : map' = [map EXCEPT ![eldest] = NoBitmap, ![job] = Last]
    BY <1>3 DEF PutEvicts
  <2>2. Copies(img) /\ bitmapPool # <<>> /\ job \notin Keys
    BY <1>3 DEF PutEvicts, Copies
  <2>3. Keys' = (Keys \ {eldest}) \cup {job}
    BY <2>1, <2>2, StoredWithEviction
  <2>4. Shown' = [Shown EXCEPT ![eldest] = NoImage, ![job] = img]
    BY <2>1, <2>2, ShownAfterEviction
  <2> QED
    BY <2>3, <2>4 DEF Shown, Keys
<1> QED
  BY <1>1, <1>2, <1>3 DEF Put

(* A cache that is not destroyed has a bitmap to recycle.                     *)
HasBitmap == recycled = {} => Keys # {} \/ bitmapPool # <<>>

LEMMA HasBitmapStep ==
  ASSUME TypeOK, HasBitmap, [Next]_vars
  PROVE  HasBitmap'
<1>1. ASSUME UNCHANGED <<map, bitmapPool, recycled>> PROVE HasBitmap'
  BY <1>1 DEF HasBitmap, Keys
<1>2. ASSUME NEW job \in Job, NEW img \in Image,
             PutReplaces(job, img) \/ PutAdds(job, img)
      PROVE  HasBitmap'
  <2>1. bitmapPool # <<>> /\ map' = [map EXCEPT ![job] = Last]
    BY <1>2 DEF PutReplaces, PutAdds, Copies
  <2>2. job \in Keys'
    BY <2>1, StoredWithoutEviction
  <2> QED
    BY <2>2 DEF HasBitmap
<1>3. ASSUME NEW job \in Job, NEW img \in Image, PutEvicts(job, img) PROVE HasBitmap'
  <2>1. PICK eldest \in Keys : map' = [map EXCEPT ![eldest] = NoBitmap, ![job] = Last]
    BY <1>3 DEF PutEvicts, IsEldest
  <2>2. bitmapPool # <<>> /\ job \notin Keys
    BY <1>3 DEF PutEvicts, Copies
  <2>3. Keys' = (Keys \ {eldest}) \cup {job}
    BY <2>1, <2>2, StoredWithEviction
  <2> QED
    BY <2>3 DEF HasBitmap
<1>4. ASSUME Destroy PROVE HasBitmap'
  <2>1. Keys # {} => Mapped # {}
    BY DEF Mapped
  <2>2. bitmapPool # <<>> => Pooled # {}
    BY RemoveLast DEF Pooled, TypeOK
  <2> QED
    BY <1>4, <2>1, <2>2 DEF Destroy, HasBitmap
<1> QED
  BY <1>1, <1>2, <1>3, <1>4 DEF Next, Put, Get, PutIgnored, vars

LEMMA HasBitmapCorrect == Spec => []HasBitmap
<1>1. Init => HasBitmap
  <2>1. ASSUME Init PROVE 1 \in DOMAIN bitmapPool
    BY <2>1, CapacityAssumption DEF Init, Bitmap
  <2> QED
    BY <2>1 DEF HasBitmap
<1>2. TypeOK /\ HasBitmap /\ [Next]_vars => HasBitmap'
  BY HasBitmapStep
<1> QED
  BY <1>1, <1>2, TypeCorrect, PTL DEF Spec

LEMMA StepImplements ==
  ASSUME TypeOK, BitmapsUnshared, SizeIsFixed, Painted, EmptyOnceDestroyed,
         HasBitmap, [Next]_vars
  PROVE  [Promised!Next]_(Promised!cacheVars)
<1> DEFINE Simulates == [Promised!Next]_(Promised!cacheVars)
<1>c. Promised!Cached = Keys
  BY CachedIsKeys
<1>b. \A S : Promised!Cardinality(S) = Cardinality(S)
  BY DEF Cardinality, Promised!Cardinality
<1>a. \A kept, job : Accessed(kept, job) = Promised!UsedLast(older, kept, job)
  BY DEF Accessed, Promised!UsedLast
<1>1. ASSUME UNCHANGED vars PROVE Simulates
  BY <1>1 DEF Promised!cacheVars, vars, Shown, Keys
<1>2. ASSUME NEW job \in Job, Get(job) PROVE Simulates
  <2>1. Shown' = Shown
    BY <1>2 DEF Get, Shown, Keys
  <2>2. Promised!Get(job)
    BY <1>2, <1>c, <1>a, <2>1 DEF Get, Promised!Get
  <2> QED
    BY <2>2 DEF Promised!Next
<1>3. ASSUME NEW job \in Job, NEW img \in Image, PutReplaces(job, img) \/ PutAdds(job, img)
      PROVE  Simulates
  <2>1. Copies(img) /\ map' = [map EXCEPT ![job] = Last] /\ older' = Accessed(Keys, job)
    BY <1>3 DEF PutAdds, PutReplaces
  <2>2. Shown' = [Shown EXCEPT ![job] = img]
    BY <2>1, ShownAfterPut
  <2>3. recycled = {} /\ recycled' = recycled /\ Capacity > 0
    BY <2>1 DEF Copies, EmptyOnceDestroyed
  <2>4. Promised!PutKeepsAll(job, img)
    BY <1>3, <1>c, <1>a, <1>b, <2>1, <2>2, <2>3 DEF PutAdds, PutReplaces, Promised!PutKeepsAll
  <2> QED
    BY <2>4 DEF Promised!Next, Promised!Put
<1>4. ASSUME NEW job \in Job, NEW img \in Image, PutEvicts(job, img) PROVE Simulates
  <2>1. Copies(img) /\ job \notin Keys
    BY <1>4 DEF PutEvicts
  <2>2. PICK eldest \in Keys :
          /\ IsEldest(eldest)
          /\ map' = [map EXCEPT ![eldest] = NoBitmap, ![job] = Last]
          /\ older' = Accessed(Keys \ {eldest}, job)
    BY <1>4 DEF PutEvicts
  <2>3. Shown' = [Shown EXCEPT ![eldest] = NoImage, ![job] = img]
    BY <2>1, <2>2, ShownAfterEviction
  <2>4. recycled = {} /\ recycled' = recycled /\ Capacity > 0
    BY <2>1 DEF Copies, EmptyOnceDestroyed
  <2>5. Cardinality(Keys) = Capacity
    <3>1. Cardinality(Keys) >= Capacity /\ Cardinality(Keys) <= Capacity
      BY <1>4 DEF PutEvicts, SizeIsFixed
    <3>2. Cardinality(Keys) \in Nat
      BY CountBitmaps, FS_CardinalityType
    <3> QED
      BY <3>1, <3>2, CapacityAssumption
  <2>6. Promised!IsEldest(older, Promised!Cached, eldest)
    BY <1>c, <2>2 DEF IsEldest, Promised!IsEldest
  <2>7. Promised!PutDiscards(job, img)
    BY <1>c, <1>a, <1>b, <2>1, <2>2, <2>3, <2>4, <2>5, <2>6 DEF Promised!PutDiscards
  <2> QED
    BY <2>7 DEF Promised!Next, Promised!Put
<1>5. ASSUME Destroy PROVE Simulates
  <2>1. Shown' = [j \in Job |-> NoImage] /\ older' = {}
    BY <1>5 DEF Destroy, Shown, Keys
  <2>2. recycled' # {}
    <3>1. Keys # {} => Mapped # {}
      BY DEF Mapped
    <3>2. bitmapPool # <<>> => Pooled # {}
      BY RemoveLast DEF Pooled, TypeOK
    <3> QED
      BY <1>5, <3>1, <3>2 DEF Destroy, HasBitmap
  <2>3. Promised!Destroy
    BY <2>1, <2>2 DEF Promised!Destroy
  <2> QED
    BY <2>3 DEF Promised!Next
<1> QED
  BY <1>1, <1>2, <1>3, <1>4, <1>5
  DEF Next, Put, PutIgnored

(* Whatever its clients do, InMemoryTileCache never does what the LRU cache   *)
(* that TileCache specifies could not do: what get returns, and which entry a *)
(* put discards, are what the specification of the interface allows.          *)
THEOREM Refinement == Spec => ImplementsTileCache
<1>1. Init => Painted
  BY DEF Init, Painted, Keys
<1>2. TypeOK /\ BitmapsUnshared /\ Painted /\ [Next]_vars => Painted'
  BY PaintedStep
<1>3. Spec => []Painted
  BY <1>1, <1>2, TypeCorrect, UnsharedCorrect, PTL DEF Spec
<1>4. Init => Promised!Init
  BY DEF Init, Promised!Init, Shown, Keys
<1>5. TypeOK /\ BitmapsUnshared /\ SizeIsFixed /\ Painted /\ EmptyOnceDestroyed
        /\ HasBitmap /\ [Next]_vars => [Promised!Next]_(Promised!cacheVars)
  BY StepImplements
<1> QED
  BY <1>3, <1>4, <1>5, TypeCorrect, UnsharedCorrect, SizeCorrect, HasBitmapCorrect,
     EmptyOnceDestroyedCorrect, PTL DEF Spec, ImplementsTileCache, Promised!Spec
-----------------------------------------------------------------------------
(* How long a bitmap that get returned can be used without the lock: its      *)
(* entry is evicted only when all others have been used since, so that it     *)
(* outlives the puts of fewer than Capacity other jobs.                       *)
Younger(job) == {other \in Keys : <<job, other>> \in older}

LEMMA PutAgesOthers ==
  ASSUME TypeOK, NEW job \in Job, NEW img \in Image, Put(job, img), NEW mine \in Job, mine # job
  PROVE  Younger(mine)' \subseteq Younger(mine) \cup {job}
<1>1. CASE PutIgnored(job, img)
  BY <1>1 DEF PutIgnored, vars, Younger, Keys
<1>2. ASSUME NEW kept \in SUBSET Keys, older' = Accessed(kept, job), Keys' = kept \cup {job}
      PROVE  Younger(mine)' \subseteq Younger(mine) \cup {job}
  BY <1>2 DEF Accessed, Younger
<1>3. CASE PutReplaces(job, img) \/ PutAdds(job, img)
  <2>1. /\ bitmapPool # <<>> /\ map' = [map EXCEPT ![job] = Last]
        /\ older' = Accessed(Keys, job)
    BY <1>3 DEF PutReplaces, PutAdds, Copies
  <2>2. Keys' = Keys \cup {job}
    BY <2>1, StoredWithoutEviction
  <2> QED
    BY <1>2, <2>1, <2>2
<1>4. CASE PutEvicts(job, img)
  <2>1. PICK eldest \in Keys : /\ map' = [map EXCEPT ![eldest] = NoBitmap, ![job] = Last]
                               /\ older' = Accessed(Keys \ {eldest}, job)
    BY <1>4 DEF PutEvicts
  <2>2. bitmapPool # <<>> /\ job \notin Keys
    BY <1>4 DEF PutEvicts, Copies
  <2>3. Keys' = (Keys \ {eldest}) \cup {job}
    BY <2>1, <2>2, StoredWithEviction
  <2> QED
    BY <1>2, <2>1, <2>3
<1> QED
  BY <1>1, <1>3, <1>4 DEF Put

LEMMA EldestHasRivals ==
  ASSUME TypeOK, BitmapsUnshared, NEW mine \in Keys, IsEldest(mine), NEW job \in Job \ Keys,
         Cardinality(Keys) >= Capacity,
         NEW rivals, IsFiniteSet(rivals), (Younger(mine) \cup {job}) \ {mine} \subseteq rivals
  PROVE  Cardinality(rivals) >= Capacity
<1>1. IsFiniteSet(Keys) /\ Capacity \in Nat
  BY CountBitmaps, CapacityAssumption
<1>2. Keys \ {mine} \subseteq Younger(mine)
  BY DEF IsEldest, Younger
<1> DEFINE others == (Keys \ {mine}) \cup {job}
<1>3. /\ IsFiniteSet(Keys \ {mine})
      /\ Cardinality(Keys \ {mine}) = Cardinality(Keys) - 1
  BY <1>1, FS_RemoveElement
<1>4. Cardinality(others) = Cardinality(Keys \ {mine}) + 1
  BY <1>3, FS_AddElement
<1>5. others \subseteq rivals
  BY <1>2
<1>6. Cardinality(others) <= Cardinality(rivals)
  BY <1>5, FS_Subset
<1>7. Cardinality(Keys) \in Nat /\ Cardinality(rivals) \in Nat
  BY <1>1, FS_CardinalityType
<1> QED
  BY <1>1, <1>3, <1>4, <1>6, <1>7

LEMMA PutSparesBitmap ==
  ASSUME TypeOK, BitmapsUnshared, NEW job \in Job, NEW img \in Image, Put(job, img),
         NEW b \in Bitmap, b \notin Pooled, NEW mine \in Job,
         NEW rivals, IsFiniteSet(rivals), Cardinality(rivals) < Capacity,
         \A j \in Keys : map[j] = b =>
           j = mine /\ (Younger(mine) \cup {job}) \ {mine} \subseteq rivals
  PROVE  /\ pixels'[b] = pixels[b]
         /\ b \notin Pooled'
         /\ \A j \in Keys' : map'[j] = b =>
              /\ j = mine /\ j \in Keys /\ map[j] = b
              /\ (Younger(mine)' \cup {job}) \ {mine} \subseteq rivals
<1>1. CASE PutIgnored(job, img)
  BY <1>1 DEF PutIgnored, vars, Younger, Keys, Pooled
<1>2. ASSUME Copies(img)
      PROVE  /\ bitmapPool # <<>> /\ Last # b /\ pixels'[b] = pixels[b]
             /\ \A i \in DOMAIN AllButLast : AllButLast[i] # b
  <2>1. bitmapPool # <<>> /\ pixels' = [pixels EXCEPT ![Last] = img]
    BY <1>2 DEF Copies
  <2>2. Last \in Pooled /\ \A i \in DOMAIN AllButLast : AllButLast[i] \in Pooled
    BY <2>1, RemoveLast DEF Pooled
  <2>3. pixels'[b] = pixels[b]
    BY <2>1, <2>2 DEF TypeOK
  <2> QED
    BY <2>1, <2>2, <2>3
<1>3. ASSUME NEW j \in Keys, j # job, map[j] = b
      PROVE  j = mine /\ (Younger(mine)' \cup {job}) \ {mine} \subseteq rivals
  <2>1. j = mine /\ (Younger(mine) \cup {job}) \ {mine} \subseteq rivals
    BY <1>3
  <2> QED
    BY <1>3, <2>1, PutAgesOthers
<1>4. CASE PutReplaces(job, img) \/ PutAdds(job, img)
  <2>1. Copies(img) /\ map' = [map EXCEPT ![job] = Last] /\ bitmapPool' = AllButLast
    BY <1>4 DEF PutReplaces, PutAdds
  <2>2. Keys' = Keys \cup {job} /\ map'[job] = Last /\ \A j \in Keys \ {job} : map'[j] = map[j]
    BY <1>2, <2>1, StoredWithoutEviction
  <2>3. b \notin Pooled'
    BY <1>2, <2>1 DEF Pooled
  <2> QED
    BY <1>2, <1>3, <2>1, <2>2, <2>3
<1>5. CASE PutEvicts(job, img)
  <2>1. PICK eldest \in Keys : /\ IsEldest(eldest)
                               /\ map' = [map EXCEPT ![eldest] = NoBitmap, ![job] = Last]
                               /\ bitmapPool' = Append(AllButLast, map[eldest])
    BY <1>5 DEF PutEvicts
  <2>2. Copies(img) /\ job \notin Keys /\ Cardinality(Keys) >= Capacity
    BY <1>5 DEF PutEvicts
  <2>3. /\ Keys' = (Keys \ {eldest}) \cup {job} /\ map'[job] = Last
        /\ \A j \in Keys \ {eldest} : map'[j] = map[j]
    BY <1>2, <2>1, <2>2, StoredWithEviction
  <2>4. map[eldest] # b
    <3>1. ASSUME map[eldest] = b PROVE FALSE
      <4>1. eldest = mine /\ (Younger(mine) \cup {job}) \ {mine} \subseteq rivals
        BY <3>1
      <4>2. Cardinality(rivals) >= Capacity
        BY <2>1, <2>2, <4>1, EldestHasRivals
      <4>3. Cardinality(rivals) \in Nat
        BY FS_CardinalityType
      <4> QED
        BY <4>2, <4>3, CapacityAssumption
    <3> QED
      BY <3>1
  <2>5. b \notin Pooled'
    <3>1. AllButLast \in Seq(Bitmap)
      BY <1>2, <2>2, RemoveLast
    <3>2. \A i \in DOMAIN bitmapPool' : \/ i \in DOMAIN AllButLast /\ bitmapPool'[i] = AllButLast[i]
                                        \/ bitmapPool'[i] = map[eldest]
      BY <2>1, <3>1 DEF TypeOK, Keys
    <3> QED
      BY <1>2, <2>2, <2>4, <3>2 DEF Pooled
  <2> QED
    BY <1>2, <1>3, <2>2, <2>3, <2>5
<1> QED
  BY <1>1, <1>4, <1>5 DEF Put
=============================================================================
