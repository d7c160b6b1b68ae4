----------------------------- MODULE Pager_proofs -----------------------------
(* For all connections, processes, pages and faults: the locks exclude each   *)
(* other as their levels promise, and the pager writes to the file only when  *)
(* it is alone with it. For connections of different processes and a file     *)
(* with at least one page: no cache that may be used is out of date, and      *)
(* transactions are atomic and survive crashes, as AtomicStore has them.      *)
EXTENDS Pager, FiniteSetTheorems, SequenceTheorems, WellFoundedInduction, TLAPS

(* The locks (UnixLocks). The levels of two connections of one process are    *)
(* kept apart by unixInodeInfo, those of two processes by the POSIX locks, so *)
(* that the invariant says how the three belong together.                     *)
Held(p) == {c \in Conn : processOf[c] = p /\ eFileLock[c] # NO_LOCK}

(* nShared counts the connections with a lock.                                *)
Counted == \A p \in Process : nShared[p] = Cardinality(Held(p))

(* inodeLock is the highest level of the connections of a process, and at     *)
(* most one of them has more than a SHARED lock.                              *)
Highest ==
  /\ \A c \in Conn : eFileLock[c] <= inodeLock[processOf[c]]
  /\ \A p \in Process : inodeLock[p] # NO_LOCK =>
       \E c \in Held(p) : eFileLock[c] = inodeLock[p]

Single ==
  \A c, d \in Conn :
    c # d /\ processOf[c] = processOf[d] =>
      /\ eFileLock[c] > SHARED_LOCK => eFileLock[d] <= SHARED_LOCK
      /\ eFileLock[c] = EXCLUSIVE_LOCK => eFileLock[d] = NO_LOCK

(* The POSIX locks of a process follow from inodeLock; whether the reserved   *)
(* byte is locked above RESERVED depends on the way there.                    *)
Bytes ==
  \A p \in Process :
    /\ sharedRange[p] = IF inodeLock[p] = NO_LOCK THEN "none"
                        ELSE IF inodeLock[p] = EXCLUSIVE_LOCK THEN "write" ELSE "read"
    /\ pendingByte[p] = IF inodeLock[p] >= PENDING_LOCK THEN "write" ELSE "none"
    /\ inodeLock[p] < RESERVED_LOCK => reservedByte[p] = "none"
    /\ inodeLock[p] = RESERVED_LOCK => reservedByte[p] = "write"

(* fcntl: no two processes have a write lock on one byte.                     *)
Exclusive ==
  \A p, q \in Process :
    p # q => /\ pendingByte[p] = "write" => pendingByte[q] = "none"
             /\ reservedByte[p] = "write" => reservedByte[q] = "none"
             /\ sharedRange[p] = "write" => sharedRange[q] = "none"

LocksInv == LocksTypeOK /\ Counted /\ Highest /\ Single /\ Bytes /\ Exclusive

-----------------------------------------------------------------------------
(* The connections of a process that hold a lock are finitely many.           *)
LEMMA HeldIsFinite ==
  ASSUME NEW p \in Process
  PROVE  IsFiniteSet(Held(p))
BY ConnAssumption, FS_Subset, Held(p) \subseteq Conn DEF Held

(* A connection that holds a lock and is the only one to be counted is the    *)
(* only one.                                                                  *)
LEMMA CountedAlone ==
  ASSUME LocksTypeOK, Counted, NEW c \in Conn, eFileLock[c] # NO_LOCK,
         nShared[processOf[c]] <= 1
  PROVE  Held(processOf[c]) = {c}
<1> DEFINE p == processOf[c]
<1>1. p \in Process /\ c \in Held(p)
  BY DEF LocksTypeOK, Held
<1>2. IsFiniteSet(Held(p)) /\ Cardinality(Held(p)) \in Nat
  BY <1>1, HeldIsFinite, FS_CardinalityType
<1>3. Cardinality(Held(p)) # 0
  BY <1>1, <1>2, FS_EmptySet
<1>4. Cardinality(Held(p)) = 1
  BY <1>1, <1>2, <1>3 DEF Counted
<1>5. PICK x : Held(p) = {x}
  BY <1>2, <1>4, FS_Singleton
<1> QED BY <1>1, <1>5

LEMMA LocksInvInit == LocksInit => LocksInv
<1> SUFFICES ASSUME LocksInit PROVE LocksInv
  OBVIOUS
<1>1. LocksTypeOK
  BY DEF LocksInit, LocksTypeOK, Level, NO_LOCK, Mode
<1>2. Counted
  <2>1. \A p \in Process : Held(p) = {}
    BY DEF LocksInit, Held
  <2> QED BY <2>1, FS_EmptySet DEF LocksInit, Counted
<1>3. Highest /\ Single /\ Bytes /\ Exclusive
  BY DEF LocksInit, Highest, Single, Bytes, Exclusive, Held, NO_LOCK, SHARED_LOCK,
         RESERVED_LOCK, PENDING_LOCK, EXCLUSIVE_LOCK
<1> QED BY <1>1, <1>2, <1>3 DEF LocksInv

-----------------------------------------------------------------------------
(* A connection changes its level while the others keep theirs: what remains  *)
(* to be shown of the counters.                                               *)
LEMMA SameHolders ==
  ASSUME LocksInv, UNCHANGED <<processOf, nShared>>,
         \A c \in Conn : eFileLock'[c] = NO_LOCK <=> eFileLock[c] = NO_LOCK
  PROVE  Counted' /\ \A p \in Process : Held(p)' = Held(p)
BY DEF LocksInv, Counted, Held

(* Each call of os_unix.c keeps the invariant of the locks.                   *)
LEMMA StutterKeepsLocksInv ==
  ASSUME LocksInv, UNCHANGED <<processOf, lockVars>>
  PROVE  LocksInv'
BY DEF LocksInv, LocksTypeOK, Counted, Held, Highest, Single, Bytes, Exclusive, lockVars

LEMMA JoinSharedKeepsLocksInv ==
  ASSUME LocksInv, UNCHANGED processOf, NEW c \in Conn, JoinShared(c)
  PROVE  LocksInv'
<1> USE DEF NO_LOCK, SHARED_LOCK, RESERVED_LOCK, PENDING_LOCK, EXCLUSIVE_LOCK, Level
<1> DEFINE p == processOf[c]
<1>0. /\ LocksTypeOK /\ Counted /\ Highest /\ Single /\ Bytes /\ Exclusive
      /\ p \in Process
      /\ eFileLock[c] = NO_LOCK
      /\ inodeLock[p] \in {SHARED_LOCK, RESERVED_LOCK}
      /\ eFileLock' = [eFileLock EXCEPT ![c] = SHARED_LOCK]
      /\ nShared' = [nShared EXCEPT ![p] = @ + 1]
      /\ UNCHANGED <<processOf, inodeLock, pendingByte, reservedByte, sharedRange>>
  BY DEF JoinShared, LocksInv, LocksTypeOK
<1>1. LocksTypeOK'
  BY <1>0 DEF LocksTypeOK
<1>2. /\ Held(p)' = Held(p) \cup {c}
      /\ c \notin Held(p)
      /\ \A q \in Process \ {p} : Held(q)' = Held(q)
  BY <1>0 DEF Held, LocksTypeOK
<1>3. Counted'
  <2>1. Cardinality(Held(p)') = Cardinality(Held(p)) + 1
    BY <1>0, <1>2, HeldIsFinite, FS_AddElement
  <2> QED BY <1>0, <1>2, <2>1 DEF Counted, LocksTypeOK
<1>4. Highest'
  BY <1>0, <1>2 DEF Highest, LocksTypeOK, Held
<1>5. Single'
  BY <1>0 DEF Single, Highest, LocksTypeOK
<1>6. Bytes' /\ Exclusive'
  BY <1>0 DEF Bytes, Exclusive
<1> QED BY <1>1, <1>3, <1>4, <1>5, <1>6 DEF LocksInv

LEMMA FirstSharedKeepsLocksInv ==
  ASSUME LocksInv, UNCHANGED processOf, NEW c \in Conn, FirstShared(c)
  PROVE  LocksInv'
<1> USE DEF NO_LOCK, SHARED_LOCK, RESERVED_LOCK, PENDING_LOCK, EXCLUSIVE_LOCK, Level
<1> DEFINE p == processOf[c]
<1>0. /\ LocksTypeOK /\ Counted /\ Highest /\ Single /\ Bytes /\ Exclusive
      /\ p \in Process
      /\ eFileLock[c] = NO_LOCK
      /\ inodeLock[p] = NO_LOCK
      /\ CanRead(sharedRange, p)
      /\ sharedRange' = [sharedRange EXCEPT ![p] = "read"]
      /\ nShared' = [nShared EXCEPT ![p] = 1]
      /\ eFileLock' = [eFileLock EXCEPT ![c] = SHARED_LOCK]
      /\ inodeLock' = [inodeLock EXCEPT ![p] = SHARED_LOCK]
      /\ UNCHANGED <<processOf, pendingByte, reservedByte>>
  BY DEF FirstShared, SetLevel, LocksInv, LocksTypeOK
<1>1. LocksTypeOK'
  BY <1>0 DEF LocksTypeOK, Mode
<1>2. /\ Held(p)' = {c}
      /\ \A q \in Process \ {p} : Held(q)' = Held(q)
  BY <1>0 DEF Held, LocksTypeOK, Highest
<1>3. Counted'
  BY <1>0, <1>2, FS_Singleton DEF Counted, LocksTypeOK
<1>4. Highest'
  BY <1>0, <1>2 DEF Highest, LocksTypeOK, Held
<1>5. Single'
  BY <1>0 DEF Single, Highest, LocksTypeOK
<1>6. Bytes'
  BY <1>0 DEF Bytes, LocksTypeOK
<1>7. Exclusive'
  BY <1>0 DEF Exclusive, LocksTypeOK, CanRead
<1> QED BY <1>1, <1>3, <1>4, <1>5, <1>6, <1>7 DEF LocksInv

LEMMA LockReservedKeepsLocksInv ==
  ASSUME LocksInv, UNCHANGED processOf, NEW c \in Conn, LockReserved(c)
  PROVE  LocksInv'
<1> USE DEF NO_LOCK, SHARED_LOCK, RESERVED_LOCK, PENDING_LOCK, EXCLUSIVE_LOCK, Level
<1> DEFINE p == processOf[c]
<1>0. /\ LocksTypeOK /\ Counted /\ Highest /\ Single /\ Bytes /\ Exclusive
      /\ p \in Process
      /\ eFileLock[c] = SHARED_LOCK
      /\ inodeLock[p] = SHARED_LOCK
      /\ CanWrite(reservedByte, p)
      /\ reservedByte' = [reservedByte EXCEPT ![p] = "write"]
      /\ eFileLock' = [eFileLock EXCEPT ![c] = RESERVED_LOCK]
      /\ inodeLock' = [inodeLock EXCEPT ![p] = RESERVED_LOCK]
      /\ UNCHANGED <<processOf, nShared, pendingByte, sharedRange>>
  BY DEF LockReserved, InMyWay, SetLevel, LocksInv, LocksTypeOK
<1>1. LocksTypeOK'
  BY <1>0 DEF LocksTypeOK
<1>2. Counted' /\ \A q \in Process : Held(q)' = Held(q)
  BY <1>0, SameHolders DEF LocksTypeOK
<1>3. Highest'
  BY <1>0, <1>2 DEF Highest, LocksTypeOK, Held
<1>4. Single'
  BY <1>0 DEF Single, Highest, LocksTypeOK
<1>5. Bytes'
  BY <1>0 DEF Bytes, LocksTypeOK
<1>6. Exclusive'
  BY <1>0 DEF Exclusive, LocksTypeOK, CanWrite
<1> QED BY <1>1, <1>2, <1>3, <1>4, <1>5, <1>6 DEF LocksInv

(* What LockExclusive and StayPending have in common: no other connection of  *)
(* the process has more than a SHARED lock, and no other process the pending  *)
(* byte.                                                                      *)
LEMMA GettingPending ==
  ASSUME LocksInv, NEW c \in Conn, GetPending(c)
  PROVE  /\ processOf[c] \in Process
         /\ eFileLock[c] = inodeLock[processOf[c]]
         /\ \A d \in Conn \ {c} : processOf[d] = processOf[c] => eFileLock[d] <= SHARED_LOCK
         /\ \A q \in Process \ {processOf[c]} : pendingByte[q] = "none"
<1> USE DEF NO_LOCK, SHARED_LOCK, RESERVED_LOCK, PENDING_LOCK, EXCLUSIVE_LOCK, Level
<1> DEFINE p == processOf[c]
<1>0. /\ LocksTypeOK /\ Highest /\ Single /\ Bytes /\ Exclusive
      /\ p \in Process
      /\ eFileLock[c] \in 1..3
      /\ ~InMyWay(c, EXCLUSIVE_LOCK)
      /\ eFileLock[c] < PENDING_LOCK => CanWrite(pendingByte, p)
  BY DEF GetPending, LocksInv, LocksTypeOK
<1>1. eFileLock[c] = inodeLock[p]
  BY <1>0 DEF InMyWay
<1>2. \A d \in Conn \ {c} : processOf[d] = processOf[c] => eFileLock[d] <= SHARED_LOCK
  BY <1>0, <1>1 DEF Single, Highest, LocksTypeOK
<1>3. \A q \in Process \ {p} : pendingByte[q] = "none"
  BY <1>0, <1>1 DEF CanWrite, Bytes, Exclusive, LocksTypeOK
<1> QED BY <1>0, <1>1, <1>2, <1>3

LEMMA LockExclusiveKeepsLocksInv ==
  ASSUME LocksInv, UNCHANGED processOf, NEW c \in Conn, LockExclusive(c)
  PROVE  LocksInv'
<1> USE DEF NO_LOCK, SHARED_LOCK, RESERVED_LOCK, PENDING_LOCK, EXCLUSIVE_LOCK, Level
<1>a. CASE AlreadyHeld(c, EXCLUSIVE_LOCK)
  BY <1>a, StutterKeepsLocksInv DEF AlreadyHeld
<1>b. CASE ~AlreadyHeld(c, EXCLUSIVE_LOCK)
  <2> DEFINE p == processOf[c]
  <2>0. /\ LocksTypeOK /\ Counted /\ Highest /\ Single /\ Bytes /\ Exclusive
        /\ GetPending(c)
        /\ eFileLock[c] # NO_LOCK
        /\ nShared[p] <= 1
        /\ CanWrite(sharedRange, p)
        /\ pendingByte' = [pendingByte EXCEPT ![p] = "write"]
        /\ sharedRange' = [sharedRange EXCEPT ![p] = "write"]
        /\ eFileLock' = [eFileLock EXCEPT ![c] = EXCLUSIVE_LOCK]
        /\ inodeLock' = [inodeLock EXCEPT ![p] = EXCLUSIVE_LOCK]
        /\ UNCHANGED <<processOf, nShared, reservedByte>>
    BY <1>b DEF LockExclusive, GetPending, SetLevel, LocksInv
  <2>1. /\ p \in Process
        /\ \A q \in Process \ {p} : pendingByte[q] = "none"
    BY <2>0, GettingPending
  <2>2. LocksTypeOK'
    BY <2>0, <2>1 DEF LocksTypeOK, Mode
  <2>3. Counted' /\ \A q \in Process : Held(q)' = Held(q)
    BY <2>0, SameHolders DEF LocksTypeOK
  <2>4. \A d \in Conn \ {c} : processOf[d] = p => eFileLock[d] = NO_LOCK
    BY <2>0, CountedAlone DEF Held
  <2>5. Highest'
    BY <2>0, <2>1, <2>3 DEF Highest, LocksTypeOK, Held
  <2>6. Single'
    BY <2>0, <2>4 DEF Single, LocksTypeOK
  <2>7. Bytes'
    BY <2>0, <2>1 DEF Bytes, LocksTypeOK
  <2>8. Exclusive'
    BY <2>0, <2>1 DEF Exclusive, LocksTypeOK, CanWrite
  <2> QED BY <2>2, <2>3, <2>5, <2>6, <2>7, <2>8 DEF LocksInv
<1> QED BY <1>a, <1>b

LEMMA StayPendingKeepsLocksInv ==
  ASSUME LocksInv, UNCHANGED processOf, NEW c \in Conn, StayPending(c)
  PROVE  LocksInv'
<1> USE DEF NO_LOCK, SHARED_LOCK, RESERVED_LOCK, PENDING_LOCK, EXCLUSIVE_LOCK, Level
<1> DEFINE p == processOf[c]
<1>0. /\ LocksTypeOK /\ Counted /\ Highest /\ Single /\ Bytes /\ Exclusive
      /\ GetPending(c)
      /\ eFileLock[c] \in 1..3
      /\ pendingByte' = [pendingByte EXCEPT ![p] = "write"]
      /\ eFileLock' = [eFileLock EXCEPT ![c] = PENDING_LOCK]
      /\ inodeLock' = [inodeLock EXCEPT ![p] = PENDING_LOCK]
      /\ UNCHANGED <<processOf, nShared, reservedByte, sharedRange>>
  BY DEF StayPending, GetPending, SetLevel, LocksInv
<1>1. /\ p \in Process
      /\ eFileLock[c] = inodeLock[p]
      /\ \A d \in Conn \ {c} : processOf[d] = processOf[c] => eFileLock[d] <= SHARED_LOCK
      /\ \A q \in Process \ {p} : pendingByte[q] = "none"
  BY <1>0, GettingPending
<1>2. LocksTypeOK'
  BY <1>0, <1>1 DEF LocksTypeOK
<1>3. Counted' /\ \A q \in Process : Held(q)' = Held(q)
  BY <1>0, SameHolders DEF LocksTypeOK
<1>4. Highest'
  BY <1>0, <1>1, <1>3 DEF Highest, LocksTypeOK, Held
<1>5. Single'
  BY <1>0, <1>1 DEF Single, LocksTypeOK
<1>6. Bytes'
  BY <1>0, <1>1 DEF Bytes, LocksTypeOK
<1>7. Exclusive'
  BY <1>0, <1>1 DEF Exclusive, LocksTypeOK
<1> QED BY <1>2, <1>3, <1>4, <1>5, <1>6, <1>7 DEF LocksInv

LEMMA UnlockToSharedKeepsLocksInv ==
  ASSUME LocksInv, UNCHANGED processOf, NEW c \in Conn, UnlockToShared(c)
  PROVE  LocksInv'
<1> USE DEF NO_LOCK, SHARED_LOCK, RESERVED_LOCK, PENDING_LOCK, EXCLUSIVE_LOCK, Level
<1>a. CASE eFileLock[c] <= SHARED_LOCK
  BY <1>a, StutterKeepsLocksInv DEF UnlockToShared
<1>b. CASE ~(eFileLock[c] <= SHARED_LOCK)
  <2> DEFINE p == processOf[c]
  <2>0. /\ LocksTypeOK /\ Counted /\ Highest /\ Single /\ Bytes /\ Exclusive
        /\ p \in Process
        /\ eFileLock[c] > SHARED_LOCK
        /\ sharedRange' = [sharedRange EXCEPT ![p] = "read"]
        /\ pendingByte' = [pendingByte EXCEPT ![p] = "none"]
        /\ reservedByte' = [reservedByte EXCEPT ![p] = "none"]
        /\ eFileLock' = [eFileLock EXCEPT ![c] = SHARED_LOCK]
        /\ inodeLock' = [inodeLock EXCEPT ![p] = SHARED_LOCK]
        /\ UNCHANGED <<processOf, nShared>>
    BY <1>b DEF UnlockToShared, SetLevel, LocksInv, LocksTypeOK
  <2>1. \A d \in Conn \ {c} : processOf[d] = p => eFileLock[d] <= SHARED_LOCK
    BY <2>0 DEF Single
  <2>2. LocksTypeOK'
    BY <2>0 DEF LocksTypeOK, Mode
  <2>3. Counted' /\ \A q \in Process : Held(q)' = Held(q)
    BY <2>0, SameHolders DEF LocksTypeOK
  <2>4. Highest'
    BY <2>0, <2>1, <2>3 DEF Highest, LocksTypeOK, Held
  <2>5. Single'
    BY <2>0, <2>1 DEF Single, LocksTypeOK
  <2>6. Bytes'
    BY <2>0 DEF Bytes, LocksTypeOK
  <2>7. Exclusive'
    <3>1. inodeLock[p] # NO_LOCK
      BY <2>0 DEF Highest, LocksTypeOK
    <3>2. \A q \in Process \ {p} : sharedRange[q] # "write"
      BY <2>0, <3>1 DEF Bytes, Exclusive, LocksTypeOK
    <3> QED BY <2>0, <3>2 DEF Exclusive, LocksTypeOK
  <2> QED BY <2>2, <2>3, <2>4, <2>5, <2>6, <2>7 DEF LocksInv
<1> QED BY <1>a, <1>b

LEMMA UnlockKeepsLocksInv ==
  ASSUME LocksInv, UNCHANGED processOf, NEW c \in Conn, Unlock(c)
  PROVE  LocksInv'
<1> USE DEF NO_LOCK, SHARED_LOCK, RESERVED_LOCK, PENDING_LOCK, EXCLUSIVE_LOCK, Level
<1> DEFINE p == processOf[c]
<1>a. CASE eFileLock[c] = NO_LOCK
  BY <1>a, StutterKeepsLocksInv DEF Unlock
<1>b. CASE eFileLock[c] # NO_LOCK
  <2>0. /\ LocksTypeOK /\ Counted /\ Highest /\ Single /\ Bytes /\ Exclusive
        /\ p \in Process
        /\ UNCHANGED processOf
    BY DEF LocksInv, LocksTypeOK
  <2>1. /\ eFileLock' = [eFileLock EXCEPT ![c] = NO_LOCK]
        /\ nShared' = [nShared EXCEPT ![p] = @ - 1]
    BY <1>b DEF Unlock
  <2>2. /\ c \in Held(p)
        /\ Held(p)' = Held(p) \ {c}
        /\ \A q \in Process \ {p} : Held(q)' = Held(q)
    BY <1>b, <2>0, <2>1 DEF Held, LocksTypeOK
  <2>3. /\ IsFiniteSet(Held(p))
        /\ Cardinality(Held(p)) \in Nat \ {0}
        /\ Cardinality(Held(p)') = Cardinality(Held(p)) - 1
    BY <2>0, <2>2, HeldIsFinite, FS_RemoveElement, FS_CardinalityType, FS_EmptySet
  <2>4. nShared[p] = Cardinality(Held(p))
    BY <2>0 DEF Counted
  <2>5. Counted' /\ nShared' \in [Process -> Nat]
    BY <2>0, <2>1, <2>2, <2>3, <2>4 DEF Counted, LocksTypeOK
  <2>6. Single'
    BY <2>0, <2>1 DEF Single, LocksTypeOK
  <2>c. CASE nShared[p] = 1
    <3>1. /\ inodeLock' = [inodeLock EXCEPT ![p] = NO_LOCK]
          /\ pendingByte' = [pendingByte EXCEPT ![p] = "none"]
          /\ reservedByte' = [reservedByte EXCEPT ![p] = "none"]
          /\ sharedRange' = [sharedRange EXCEPT ![p] = "none"]
      BY <1>b, <2>c DEF Unlock
    <3>2. Held(p) = {c}
      BY <1>b, <2>0, <2>c, CountedAlone
    <3>3. LocksTypeOK'
      BY <2>0, <2>1, <2>5, <3>1 DEF LocksTypeOK, Mode
    <3>4. Highest'
      BY <2>0, <2>1, <2>2, <3>1, <3>2 DEF Highest, LocksTypeOK, Held
    <3>5. Bytes' /\ Exclusive'
      BY <2>0, <3>1 DEF Bytes, Exclusive, LocksTypeOK
    <3> QED BY <2>5, <2>6, <3>3, <3>4, <3>5 DEF LocksInv
  <2>d. CASE nShared[p] # 1
    <3>1. PICK d \in Held(p) : d # c
      <4>1. Held(p) # {c}
        BY <2>4, <2>d, FS_Singleton
      <4> QED BY <2>2, <4>1
    <3>2. d \in Conn /\ processOf[d] = p /\ eFileLock[d] \in 1..4
      BY <2>0, <3>1 DEF Held, LocksTypeOK
    <3>3. inodeLock[p] # EXCLUSIVE_LOCK
      <4>1. SUFFICES ASSUME inodeLock[p] = EXCLUSIVE_LOCK PROVE FALSE
        OBVIOUS
      <4>2. PICK k \in Held(p) : eFileLock[k] = EXCLUSIVE_LOCK
        BY <2>0, <4>1 DEF Highest
      <4>3. \A e \in Held(p) : e = k
        BY <2>0, <4>2 DEF Single, Held
      <4> QED BY <2>2, <3>1, <4>3
    <3>e. CASE eFileLock[c] > SHARED_LOCK
      <4>1. /\ inodeLock' = [inodeLock EXCEPT ![p] = SHARED_LOCK]
            /\ pendingByte' = [pendingByte EXCEPT ![p] = "none"]
            /\ reservedByte' = [reservedByte EXCEPT ![p] = "none"]
            /\ sharedRange' = sharedRange
        BY <1>b, <2>d, <3>e DEF Unlock
      <4>2. LocksTypeOK'
        BY <2>0, <2>1, <2>5, <4>1 DEF LocksTypeOK
      <4>3. \A e \in Conn \ {c} : processOf[e] = p => eFileLock[e] <= SHARED_LOCK
        BY <2>0, <3>e DEF Single
      <4>4. Highest'
        <5>1. d \in Held(p)' /\ eFileLock'[d] = SHARED_LOCK
          BY <2>0, <2>1, <2>2, <3>1, <3>2, <4>3 DEF LocksTypeOK
        <5> QED BY <2>0, <2>1, <2>2, <4>1, <4>3, <5>1 DEF Highest, LocksTypeOK, Held
      <4>5. inodeLock[p] # NO_LOCK
        BY <2>0, <3>e DEF Highest, LocksTypeOK
      <4>6. Bytes' /\ Exclusive'
        BY <2>0, <3>3, <4>1, <4>5 DEF Bytes, Exclusive, LocksTypeOK
      <4> QED BY <2>5, <2>6, <4>2, <4>4, <4>6 DEF LocksInv
    <3>f. CASE ~(eFileLock[c] > SHARED_LOCK)
      <4>1. UNCHANGED <<inodeLock, pendingByte, reservedByte, sharedRange>>
        BY <1>b, <2>0, <2>d, <3>f DEF Unlock, LocksTypeOK
      <4>2. LocksTypeOK'
        BY <2>0, <2>1, <2>5, <4>1 DEF LocksTypeOK
      <4>3. Highest'
        <5>1. PICK e \in Held(p) : eFileLock[e] = inodeLock[p]
          BY <2>0, <3>2 DEF Highest, LocksTypeOK
        <5>2. \E k \in Held(p)' : eFileLock'[k] = inodeLock'[p]
          <6>1. CASE e # c
            BY <2>0, <2>1, <2>2, <4>1, <5>1, <6>1 DEF LocksTypeOK, Held
          <6>2. CASE e = c
            <7>1. eFileLock[d] = inodeLock[p]
              BY <2>0, <3>2, <3>f, <5>1, <6>2 DEF Highest, LocksTypeOK
            <7> QED BY <2>0, <2>1, <2>2, <3>1, <3>2, <4>1, <7>1 DEF LocksTypeOK
          <6> QED BY <6>1, <6>2
        <5> QED BY <2>0, <2>1, <2>2, <4>1, <5>2 DEF Highest, LocksTypeOK, Held
      <4>4. Bytes' /\ Exclusive'
        BY <2>0, <4>1 DEF Bytes, Exclusive
      <4> QED BY <2>5, <2>6, <4>2, <4>3, <4>4 DEF LocksInv
    <3> QED BY <3>e, <3>f
  <2> QED BY <2>c, <2>d
<1> QED BY <1>a, <1>b

LEMMA CloseFileKeepsLocksInv ==
  ASSUME LocksInv, UNCHANGED processOf, NEW c \in Conn, CloseFile(c)
  PROVE  LocksInv'
<1> DEFINE p == processOf[c]
<1>1. CASE nShared[p] > 0
  BY <1>1, StutterKeepsLocksInv DEF CloseFile, lockVars
<1>2. CASE ~(nShared[p] > 0)
  <2>0. /\ LocksTypeOK /\ Counted /\ Highest /\ Single /\ Bytes /\ Exclusive
        /\ p \in Process
    BY DEF LocksInv, LocksTypeOK
  <2>1. Held(p) = {}
    BY <1>2, <2>0, HeldIsFinite, FS_EmptySet, FS_CardinalityType DEF Counted, LocksTypeOK
  <2>2. inodeLock[p] = NO_LOCK
    BY <2>0, <2>1 DEF Highest
  <2>3. pendingByte[p] = "none" /\ reservedByte[p] = "none" /\ sharedRange[p] = "none"
    BY <2>0, <2>2 DEF Bytes, NO_LOCK, RESERVED_LOCK, PENDING_LOCK
  <2>4. UNCHANGED <<pendingByte, reservedByte, sharedRange>>
    BY <1>2, <2>0, <2>3 DEF CloseFile, LocksTypeOK
  <2> QED BY <2>4, StutterKeepsLocksInv DEF CloseFile, lockVars
<1> QED BY <1>1, <1>2

LEMMA DiesKeepsLocksInv ==
  ASSUME LocksInv, UNCHANGED processOf, NEW ps \in SUBSET Process, Dies(ps)
  PROVE  LocksInv'
<1> USE DEF NO_LOCK, SHARED_LOCK, RESERVED_LOCK, PENDING_LOCK, EXCLUSIVE_LOCK, Level
<1>0. LocksTypeOK /\ Counted /\ Highest /\ Single /\ Bytes /\ Exclusive
  BY DEF LocksInv
<1>1. LocksTypeOK'
  BY <1>0 DEF LocksTypeOK, Dies, Mode
<1>2. \A p \in Process : Held(p)' = IF p \in ps THEN {} ELSE Held(p)
  BY <1>0 DEF Held, Dies, LocksTypeOK
<1>3. Counted'
  BY <1>0, <1>2, FS_EmptySet DEF Counted, Dies
<1>4. Highest'
  BY <1>0, <1>2 DEF Highest, Dies, LocksTypeOK, Held
<1>5. Single'
  BY <1>0 DEF Single, Dies, LocksTypeOK
<1>6. Bytes' /\ Exclusive'
  BY <1>0 DEF Bytes, Exclusive, Dies
<1> QED BY <1>1, <1>3, <1>4, <1>5, <1>6 DEF LocksInv

-----------------------------------------------------------------------------
(* Every step of the locks keeps the invariant, in this specification and in  *)
(* those that are built upon it.                                              *)
THEOREM LockStepKeepsLocksInv ==
  ASSUME LocksInv, UNCHANGED processOf, LocksNext \/ UNCHANGED lockVars
  PROVE  LocksInv'
<1>1. ASSUME NEW c \in Conn, LockShared(c) PROVE LocksInv'
  BY <1>1, StutterKeepsLocksInv, JoinSharedKeepsLocksInv, FirstSharedKeepsLocksInv
     DEF LockShared, AlreadyHeld
<1>2. ASSUME NEW c \in Conn, SharedBusy(c) \/ ReservedBusy(c) PROVE LocksInv'
  BY <1>2, StutterKeepsLocksInv DEF SharedBusy, ReservedBusy
<1>3. ASSUME NEW c \in Conn, ExclusiveBusy(c) PROVE LocksInv'
  BY <1>3, StutterKeepsLocksInv, StayPendingKeepsLocksInv DEF ExclusiveBusy
<1> QED BY <1>1, <1>2, <1>3, LockReservedKeepsLocksInv, LockExclusiveKeepsLocksInv,
           UnlockToSharedKeepsLocksInv, UnlockKeepsLocksInv, CloseFileKeepsLocksInv,
           DiesKeepsLocksInv, StutterKeepsLocksInv DEF LocksNext

LEMMA LocksInvExcludes == LocksInv => LocksExclude
<1> USE DEF NO_LOCK, SHARED_LOCK, RESERVED_LOCK, PENDING_LOCK, EXCLUSIVE_LOCK, Level
<1> SUFFICES ASSUME LocksInv, NEW c \in Conn, NEW d \in Conn, c # d
             PROVE  /\ eFileLock[c] = EXCLUSIVE_LOCK => eFileLock[d] = NO_LOCK
                    /\ eFileLock[c] = RESERVED_LOCK => eFileLock[d] # RESERVED_LOCK
                    /\ eFileLock[c] = PENDING_LOCK => eFileLock[d] < PENDING_LOCK
  BY DEF LocksExclude
<1> DEFINE p == processOf[c]
           q == processOf[d]
<1>0. /\ LocksTypeOK /\ Highest /\ Single /\ Bytes /\ Exclusive
      /\ p \in Process /\ q \in Process
      /\ eFileLock[c] \in 0..4 /\ eFileLock[d] \in 0..4
  BY DEF LocksInv, LocksTypeOK
<1>1. CASE p = q
  BY <1>0, <1>1 DEF Single
<1>2. CASE p # q
  <2>1. /\ eFileLock[c] <= inodeLock[p] /\ inodeLock[p] \in 0..4
        /\ eFileLock[d] <= inodeLock[q] /\ inodeLock[q] \in 0..4
    BY <1>0 DEF Highest, LocksTypeOK
  <2>2. CASE eFileLock[c] = EXCLUSIVE_LOCK
    <3>1. sharedRange[p] = "write"
      BY <1>0, <2>1, <2>2 DEF Bytes
    <3>2. inodeLock[q] = NO_LOCK
      BY <1>0, <1>2, <3>1 DEF Exclusive, Bytes
    <3> QED BY <1>0, <2>1, <2>2, <3>2
  <2>3. CASE eFileLock[c] = RESERVED_LOCK
    <3>1. ASSUME NEW e \in Conn, eFileLock[e] = RESERVED_LOCK
          PROVE  reservedByte[processOf[e]] = "write"
      <4>1. PICK k \in Held(processOf[e]) : eFileLock[k] = inodeLock[processOf[e]]
        BY <1>0, <3>1 DEF Highest, LocksTypeOK
      <4>2. inodeLock[processOf[e]] = RESERVED_LOCK
        BY <1>0, <3>1, <4>1 DEF Single, Held, Highest, LocksTypeOK
      <4> QED BY <1>0, <4>2 DEF Bytes, LocksTypeOK
    <3> QED BY <1>0, <1>2, <2>3, <3>1 DEF Exclusive
  <2>4. CASE eFileLock[c] = PENDING_LOCK
    BY <1>0, <1>2, <2>1, <2>4 DEF Bytes, Exclusive
  <2> QED BY <2>2, <2>3, <2>4
<1> QED BY <1>1, <1>2

(* The levels exclude each other, whatever the connections of however many    *)
(* processes do, and whichever of these die.                                  *)
THEOREM LocksExcludeEachOther == LocksSpec => []LocksExclude
<1>1. LocksInv /\ [LocksNext /\ UNCHANGED processOf]_<<lockVars, processOf>> => LocksInv'
  BY LockStepKeepsLocksInv
<1> QED BY <1>1, LocksInvInit, LocksInvExcludes, PTL DEF LocksSpec

-----------------------------------------------------------------------------
(* The pager.                                                                 *)

(* What a connection is in the middle of when it has an EXCLUSIVE lock.       *)
AloneStep == {"sync records", "write header", "sync header", "write", "sync file",
              "play", "replay"}

CommitStep == {"lock", "sync records", "write header", "sync header", "write", "sync file"}

OpenStep == {"exists", "reserved", "header", "obsolete", "recover", "validate", "give up",
             "delete", "play"}

HoldsExclusive ==
  \A c \in Conn :
    /\ step[c] \in AloneStep \/ eState[c] = "WRITER_DBMOD" => eFileLock[c] = EXCLUSIVE_LOCK
    /\ step[c] \in OpenStep => job[c] = "open"
    /\ step[c] \in CommitStep => job[c] # "open"
    /\ job[c] = "open" => eState[c] = "OPEN"

Step == {"idle", "replay", "unlink", "lower"} \cup OpenStep \cup CommitStep
Job == {"none", "open", "commit", "spill", "rollback", "failed"}
State == {"OPEN", "READER", "ERROR"} \cup Writer

PagerTypeOK == /\ step \in [Conn -> Step]
               /\ job \in [Conn -> Job]
               /\ eState \in [Conn -> State]

PagerInv == LocksInv /\ PagerTypeOK /\ HoldsExclusive

LEMMA InitIsLocksInit == Init => LocksInit
BY DEF Init

(* Every step of the pager is a step of the locks.                            *)
LEMMA StepIsLockStep ==
  Next => (LocksNext \/ UNCHANGED lockVars) /\ UNCHANGED processOf
<1> SUFFICES ASSUME Next PROVE LocksNext \/ UNCHANGED lockVars
  BY DEF Next
<1>1. ASSUME NEW c \in Conn, Reading(c) PROVE LocksNext \/ UNCHANGED lockVars
  BY <1>1 DEF Reading, EndRead, EndError, Close, ReadPage, Recycle, LocksNext
<1>2. ASSUME NEW c \in Conn, Opening(c) PROVE LocksNext \/ UNCHANGED lockVars
  BY <1>2 DEF Opening, SharedLock, CheckExists, CheckReserved, CheckHeader, LockObsolete,
              LockHot, PlayHot, Validate, GiveUp, LocksNext
<1>3. ASSUME NEW c \in Conn, Writing(c) PROVE LocksNext \/ UNCHANGED lockVars
  BY <1>3 DEF Writing, Begin, EndUnmodified, Commit, WritePage, Spill, LockDb, SyncRecords,
              WriteHeader, SyncHeader, WriteDb, WriteSpilled, SyncDb, LocksNext
<1>4. ASSUME NEW c \in Conn, Ending(c) PROVE LocksNext \/ UNCHANGED lockVars
  BY <1>4 DEF Ending, Rollback, Replay, Unlink, Lower, LocksNext
<1>5. ASSUME NEW c \in Conn, Fail(c) PROVE LocksNext \/ UNCHANGED lockVars
  BY <1>5 DEF Fail, LocksNext
<1>6. ASSUME NEW ps \in SUBSET Process, Restart(ps) PROVE LocksNext
  BY <1>6 DEF Restart, LocksNext
<1> QED BY <1>1, <1>2, <1>3, <1>4, <1>5, <1>6 DEF Next, Kill, LosePower

(* For all transactions, faults and deaths of processes: the locks of the     *)
(* pager's connections exclude each other.                                    *)
THEOREM PagerLocksExclude == Spec => []LocksExclude
<1>1. LocksInv /\ [Next]_vars => LocksInv'
  BY StepIsLockStep, LockStepKeepsLocksInv DEF vars
<1> QED BY <1>1, InitIsLocksInit, LocksInvInit, LocksInvExcludes, PTL DEF Spec

-----------------------------------------------------------------------------
LEMMA PagerInvInit == Init => PagerInv
<1> SUFFICES ASSUME Init PROVE PagerTypeOK /\ HoldsExclusive
  BY InitIsLocksInit, LocksInvInit DEF PagerInv
<1> QED BY DEF Init, PagerTypeOK, HoldsExclusive, AloneStep, OpenStep, CommitStep, Step, Job, State

(* The lock calls of a connection leave the others' levels alone.             *)
LEMMA OthersKeepTheirLevels ==
  ASSUME LocksTypeOK, NEW c \in Conn,
         \/ LockShared(c) \/ LockReserved(c) \/ ReservedBusy(c)
         \/ LockExclusive(c) \/ ExclusiveBusy(c)
         \/ UnlockToShared(c) \/ Unlock(c) \/ CloseFile(c) \/ UNCHANGED lockVars
  PROVE  \A d \in Conn \ {c} : eFileLock'[d] = eFileLock[d]
BY DEF LockShared, AlreadyHeld, JoinShared, FirstShared, LockReserved, ReservedBusy,
       LockExclusive, ExclusiveBusy, StayPending, UnlockToShared, Unlock, CloseFile,
       SetLevel, LocksTypeOK, lockVars

(* A lock that is not given up does not sink below EXCLUSIVE.                 *)
LEMMA ExclusiveStays ==
  ASSUME LocksTypeOK, NEW c \in Conn, eFileLock[c] = EXCLUSIVE_LOCK,
         \/ LockShared(c) \/ LockReserved(c) \/ ReservedBusy(c)
         \/ LockExclusive(c) \/ ExclusiveBusy(c) \/ CloseFile(c) \/ UNCHANGED lockVars
  PROVE  eFileLock'[c] = EXCLUSIVE_LOCK
BY DEF LockShared, AlreadyHeld, JoinShared, FirstShared, LockReserved, ReservedBusy,
       LockExclusive, ExclusiveBusy, StayPending, GetPending, CloseFile,
       SetLevel, LocksTypeOK, lockVars, NO_LOCK, SHARED_LOCK, RESERVED_LOCK, PENDING_LOCK,
       EXCLUSIVE_LOCK

(* The EXCLUSIVE lock is there where a step relies on it.                     *)
LEMMA ExclusiveIsGot ==
  ASSUME LocksTypeOK, NEW c \in Conn, LockExclusive(c)
  PROVE  eFileLock'[c] = EXCLUSIVE_LOCK
BY DEF LockExclusive, AlreadyHeld, SetLevel, LocksTypeOK, Level, EXCLUSIVE_LOCK, lockVars

(* What a step of connection c owes to the invariant.                         *)
HoldsFor(c) ==
  /\ step[c] \in AloneStep \/ eState[c] = "WRITER_DBMOD" => eFileLock[c] = EXCLUSIVE_LOCK
  /\ step[c] \in OpenStep => job[c] = "open"
  /\ step[c] \in CommitStep => job[c] # "open"
  /\ job[c] = "open" => eState[c] = "OPEN"

(* A step of connection c changes nothing for the others.                     *)
Only(c) == \A d \in Conn \ {c} : /\ step'[d] = step[d]
                                  /\ job'[d] = job[d]
                                  /\ eState'[d] = eState[d]
                                  /\ eFileLock'[d] = eFileLock[d]

LEMMA HoldsForOne ==
  ASSUME HoldsExclusive, NEW c \in Conn, Only(c), HoldsFor(c)'
  PROVE  HoldsExclusive'
<1> SUFFICES ASSUME NEW d \in Conn PROVE HoldsFor(d)'
  BY DEF HoldsExclusive, HoldsFor
<1>1. CASE d = c
  BY <1>1
<1>2. CASE d # c
  BY <1>2 DEF HoldsExclusive, HoldsFor, Only
<1> QED BY <1>1, <1>2

(* A call returns, or goes on.                                                *)
LEMMA ReturnEffect ==
  ASSUME PagerTypeOK, NEW c \in Conn, NEW state \in State, Return(c, state)
  PROVE  /\ PagerTypeOK'
         /\ step'[c] = "idle" /\ job'[c] = "none" /\ eState'[c] = state
         /\ \A d \in Conn \ {c} :
              step'[d] = step[d] /\ job'[d] = job[d] /\ eState'[d] = eState[d]
BY DEF Return, PagerTypeOK, Step, Job

(* Where a connection is after a step within a call.                          *)
LEMMA GotoEffect ==
  ASSUME PagerTypeOK, NEW c \in Conn, NEW s \in Step, Goto(c, s), UNCHANGED <<job, eState>>
  PROVE  /\ PagerTypeOK'
         /\ step'[c] = s /\ job'[c] = job[c] /\ eState'[c] = eState[c]
         /\ \A d \in Conn \ {c} :
              step'[d] = step[d] /\ job'[d] = job[d] /\ eState'[d] = eState[d]
BY DEF Goto, PagerTypeOK

(* A call that returns with an innocuous state, whatever it does to its lock. *)
LEMMA ReturnKeepsPagerInv ==
  ASSUME PagerInv, NEW c \in Conn, NEW state \in State \ {"WRITER_DBMOD"}, Return(c, state),
         \A d \in Conn \ {c} : eFileLock'[d] = eFileLock[d]
  PROVE  PagerTypeOK' /\ HoldsExclusive'
<1>1. PagerTypeOK /\ HoldsExclusive
  BY DEF PagerInv
<1>2. PagerTypeOK' /\ Only(c)
  BY <1>1, ReturnEffect DEF Only
<1>3. step'[c] = "idle" /\ job'[c] = "none" /\ eState'[c] = state
  BY <1>1, ReturnEffect
<1>4. HoldsFor(c)'
  BY <1>3 DEF HoldsFor, AloneStep, OpenStep, CommitStep
<1> QED BY <1>1, <1>2, <1>4, HoldsForOne

(* A call that goes on to a step that is allowed to it.                       *)
LEMMA GotoKeepsPagerInv ==
  ASSUME PagerInv, NEW c \in Conn, NEW s \in Step, Goto(c, s), UNCHANGED <<job, eState>>,
         s \in AloneStep \/ eState[c] = "WRITER_DBMOD" => eFileLock'[c] = EXCLUSIVE_LOCK,
         s \in OpenStep => job[c] = "open",
         s \in CommitStep => job[c] # "open",
         \A d \in Conn \ {c} : eFileLock'[d] = eFileLock[d]
  PROVE  PagerTypeOK' /\ HoldsExclusive'
<1>1. PagerTypeOK /\ HoldsExclusive
  BY DEF PagerInv
<1>2. PagerTypeOK' /\ Only(c)
  BY <1>1, GotoEffect DEF Only
<1>3. step'[c] = s /\ job'[c] = job[c] /\ eState'[c] = eState[c]
  BY <1>1, GotoEffect
<1>4. HoldsFor(c)'
  BY <1>1, <1>3 DEF HoldsFor, HoldsExclusive
<1> QED BY <1>1, <1>2, <1>4, HoldsForOne

(* Each kind of step keeps the pager's invariant.                             *)
LEMMA ReadingKeepsPagerInv ==
  ASSUME PagerInv, NEW c \in Conn, Reading(c)
  PROVE  PagerTypeOK' /\ HoldsExclusive'
<1>0. LocksTypeOK /\ PagerTypeOK /\ HoldsExclusive
  BY DEF PagerInv, LocksInv
<1>1. CASE EndRead(c) \/ EndError(c)
  <2>1. Unlock(c) /\ Return(c, "OPEN")
    BY <1>1 DEF EndRead, EndError
  <2>2. \A d \in Conn \ {c} : eFileLock'[d] = eFileLock[d]
    BY <1>0, <2>1, OthersKeepTheirLevels
  <2> QED BY <2>1, <2>2, ReturnKeepsPagerInv DEF State
<1>2. CASE Close(c) \/ \E p \in Page : ReadPage(c, p) \/ Recycle(c, p)
  <2>1. CloseFile(c) \/ UNCHANGED lockVars
    BY <1>2 DEF Close, ReadPage, Recycle
  <2>2. UNCHANGED callVars
    BY <1>2 DEF Close, ReadPage, Recycle
  <2>3. PagerTypeOK' /\ Only(c)
    BY <1>0, <2>1, <2>2, OthersKeepTheirLevels DEF Only, PagerTypeOK, callVars
  <2>4. HoldsFor(c)'
    BY <1>0, <2>1, <2>2, ExclusiveStays DEF HoldsFor, HoldsExclusive, callVars
  <2> QED BY <1>0, <2>3, <2>4, HoldsForOne
<1> QED BY <1>1, <1>2 DEF Reading

LEMMA OpeningKeepsPagerInv ==
  ASSUME PagerInv, NEW c \in Conn, Opening(c)
  PROVE  PagerTypeOK' /\ HoldsExclusive'
<1>0. LocksTypeOK /\ PagerTypeOK /\ HoldsExclusive
  BY DEF PagerInv, LocksInv
<1> DEFINE OthersKeepLevel == \A d \in Conn \ {c} : eFileLock'[d] = eFileLock[d]
<1>1. CASE SharedLock(c)
  <2>1. /\ eState[c] = "OPEN" /\ LockShared(c) /\ Goto(c, "exists")
        /\ job' = [job EXCEPT ![c] = "open"]
        /\ eState' = eState
    BY <1>1 DEF SharedLock
  <2>2. OthersKeepLevel
    BY <1>0, <2>1, OthersKeepTheirLevels
  <2>3. PagerTypeOK' /\ Only(c)
    BY <1>0, <2>1, <2>2 DEF Goto, Only, PagerTypeOK, Step, Job, OpenStep
  <2>4. step'[c] = "exists" /\ job'[c] = "open" /\ eState'[c] = "OPEN"
    BY <1>0, <2>1 DEF Goto, PagerTypeOK
  <2>5. HoldsFor(c)'
    BY <2>4 DEF HoldsFor, AloneStep, OpenStep, CommitStep
  <2> QED BY <1>0, <2>3, <2>5, HoldsForOne
<1>2. CASE CheckExists(c) \/ CheckReserved(c) \/ CheckHeader(c)
  <2>1. PICK s \in OpenStep \ (AloneStep \cup CommitStep) :
          Goto(c, s) /\ job[c] = "open" /\ UNCHANGED <<job, eState, eFileLock>>
    <3>1. job[c] = "open" /\ UNCHANGED <<job, eState, eFileLock>>
      BY <1>2 DEF CheckExists, CheckReserved, CheckHeader, At, lockVars
    <3>2. \/ Goto(c, "reserved") \/ Goto(c, "validate") \/ Goto(c, "obsolete")
          \/ Goto(c, "header") \/ Goto(c, "recover")
      BY <1>2 DEF CheckExists, CheckReserved, CheckHeader
    <3> QED BY <3>1, <3>2 DEF OpenStep, AloneStep, CommitStep
  <2> QED BY <1>0, <2>1, GotoKeepsPagerInv DEF Step, CommitStep, OpenStep, HoldsExclusive
<1>3. CASE LockObsolete(c)
  <2>1. PICK s \in {"delete", "validate"} :
          /\ Goto(c, s) /\ job[c] = "open" /\ UNCHANGED <<job, eState>>
          /\ LockReserved(c) \/ ReservedBusy(c)
    BY <1>3 DEF LockObsolete, At
  <2>2. OthersKeepLevel
    BY <1>0, <2>1, OthersKeepTheirLevels
  <2>3. eState[c] # "WRITER_DBMOD"
    BY <1>0, <2>1 DEF HoldsExclusive
  <2>4. s \in Step /\ s \notin AloneStep /\ s \notin CommitStep
    BY <2>1 DEF Step, OpenStep, AloneStep, CommitStep
  <2> QED BY <2>1, <2>2, <2>3, <2>4, GotoKeepsPagerInv
<1>4. CASE LockHot(c)
  <2>1. PICK s \in {"play", "give up"} :
          /\ Goto(c, s) /\ job[c] = "open" /\ UNCHANGED <<job, eState>>
          /\ \/ LockExclusive(c) /\ s = "play"
             \/ ExclusiveBusy(c) /\ s = "give up"
    BY <1>4 DEF LockHot, At
  <2>2. OthersKeepLevel /\ (s = "play" => eFileLock'[c] = EXCLUSIVE_LOCK)
    BY <1>0, <2>1, OthersKeepTheirLevels, ExclusiveIsGot
  <2> QED BY <1>0, <2>1, <2>2, GotoKeepsPagerInv DEF Step, CommitStep, OpenStep, AloneStep, HoldsExclusive
<1>5. CASE PlayHot(c)
  <2>1. PICK s \in {"replay", "lower"} :
          /\ Goto(c, s) /\ step[c] = "play" /\ job[c] = "open"
          /\ UNCHANGED <<job, eState, eFileLock>>
    <3>1. Goto(c, "replay") \/ Goto(c, "lower")
      BY <1>5 DEF PlayHot
    <3>2. step[c] = "play" /\ job[c] = "open" /\ UNCHANGED <<job, eState, eFileLock>>
      BY <1>5 DEF PlayHot, At, lockVars
    <3> QED BY <3>1, <3>2
  <2> QED BY <1>0, <2>1, GotoKeepsPagerInv DEF Step, CommitStep, OpenStep, AloneStep, HoldsExclusive
<1>6. CASE Validate(c)
  <2>1. Return(c, "READER") /\ UNCHANGED lockVars
    BY <1>6 DEF Validate
  <2> QED BY <2>1, ReturnKeepsPagerInv DEF lockVars, State
<1>7. CASE GiveUp(c)
  <2>1. Return(c, "OPEN") /\ Unlock(c)
    BY <1>7 DEF GiveUp
  <2>2. OthersKeepLevel
    BY <1>0, <2>1, OthersKeepTheirLevels
  <2> QED BY <2>1, <2>2, ReturnKeepsPagerInv DEF State
<1> QED BY <1>1, <1>2, <1>3, <1>4, <1>5, <1>6, <1>7 DEF Opening

(* The calls of a writer leave its job alone or set it to one of a writer.    *)
LEMMA WritingKeepsPagerInv ==
  ASSUME PagerInv, NEW c \in Conn, Writing(c)
  PROVE  PagerTypeOK' /\ HoldsExclusive'
<1>0. LocksTypeOK /\ PagerTypeOK /\ HoldsExclusive
  BY DEF PagerInv, LocksInv
<1> DEFINE OthersKeepLevel == \A d \in Conn \ {c} : eFileLock'[d] = eFileLock[d]
<1>1. CASE Begin(c) \/ EndUnmodified(c)
  <2>1. \/ Return(c, "WRITER_LOCKED") /\ LockReserved(c)
        \/ Return(c, "READER") /\ UnlockToShared(c)
    BY <1>1 DEF Begin, EndUnmodified
  <2>2. OthersKeepLevel
    BY <1>0, <2>1, OthersKeepTheirLevels
  <2> QED BY <2>1, <2>2, ReturnKeepsPagerInv DEF State, Writer
<1>2. CASE Commit(c) \/ \E p \in Page : Spill(c, p)
  <2>1. PICK j \in {"commit", "spill"}, s \in {"lock", "write"} :
          /\ eState[c] \in Modifying
          /\ job' = [job EXCEPT ![c] = j]
          /\ Goto(c, s)
          /\ s = "write" => eState[c] # "WRITER_CACHEMOD"
          /\ UNCHANGED <<eState, eFileLock>>
    <3>1. CASE Commit(c)
      BY <3>1 DEF Commit, lockVars
    <3>2. ASSUME NEW p \in Page, Spill(c, p)
          PROVE  \E s \in {"lock", "write"} :
                    /\ eState[c] \in Modifying
                    /\ job' = [job EXCEPT ![c] = "spill"]
                    /\ Goto(c, s)
                    /\ s = "write" => eState[c] # "WRITER_CACHEMOD"
                    /\ UNCHANGED <<eState, eFileLock>>
      BY <3>2 DEF Spill, lockVars
    <3> QED BY <1>2, <3>1, <3>2
  <2>2. PagerTypeOK' /\ Only(c)
    BY <1>0, <2>1 DEF PagerTypeOK, Goto, Step, CommitStep, Job, Only
  <2>3. step'[c] = s /\ job'[c] = j /\ eState'[c] = eState[c] /\ eFileLock'[c] = eFileLock[c]
    BY <1>0, <2>1 DEF PagerTypeOK, Goto
  <2>4. s = "write" => eState[c] = "WRITER_DBMOD"
    BY <2>1 DEF Modifying
  <2>5. HoldsFor(c)'
    BY <1>0, <2>3, <2>4 DEF HoldsFor, HoldsExclusive, AloneStep, OpenStep, CommitStep
  <2> QED BY <1>0, <2>2, <2>5, HoldsForOne
<1>3. ASSUME NEW p \in Page, WritePage(c, p) PROVE PagerTypeOK' /\ HoldsExclusive'
  <2>1. /\ eState' = [eState EXCEPT ![c] = IF @ = "WRITER_LOCKED" THEN "WRITER_CACHEMOD" ELSE @]
        /\ eState[c] \in Writer
        /\ UNCHANGED <<job, step, eFileLock>>
    BY <1>3 DEF WritePage, lockVars, Modifying, Writer
  <2>2. PagerTypeOK' /\ Only(c)
    BY <1>0, <2>1 DEF PagerTypeOK, Only, State, Writer
  <2>3. /\ eState'[c] \in {eState[c], "WRITER_CACHEMOD"}
        /\ job[c] # "open"
    BY <1>0, <2>1 DEF PagerTypeOK, HoldsExclusive, Writer
  <2>4. HoldsFor(c)'
    BY <1>0, <2>1, <2>3 DEF HoldsFor, HoldsExclusive
  <2> QED BY <1>0, <2>2, <2>4, HoldsForOne
<1>4. CASE LockDb(c)
  <2>a. CASE LockExclusive(c) /\ Goto(c, "sync records") /\ UNCHANGED job
    <3>1. OthersKeepLevel /\ eFileLock'[c] = EXCLUSIVE_LOCK
      BY <1>0, <2>a, OthersKeepTheirLevels, ExclusiveIsGot
    <3>2. UNCHANGED eState /\ job[c] # "open"
      BY <1>0, <1>4 DEF LockDb, HoldsExclusive, CommitStep
    <3> QED BY <2>a, <3>1, <3>2, GotoKeepsPagerInv DEF Step, CommitStep, OpenStep
  <2>b. CASE ~(LockExclusive(c) /\ Goto(c, "sync records") /\ UNCHANGED job)
    <3>1. ExclusiveBusy(c) /\ Goto(c, "idle") /\ job' = [job EXCEPT ![c] = "none"]
          /\ UNCHANGED eState
      BY <1>4, <2>b DEF LockDb
    <3>2. OthersKeepLevel
      BY <1>0, <3>1, OthersKeepTheirLevels
    <3>3. eFileLock[c] = EXCLUSIVE_LOCK => eFileLock'[c] = EXCLUSIVE_LOCK
      BY <1>0, <3>1, ExclusiveStays
    <3>4. PagerTypeOK' /\ Only(c)
      BY <1>0, <3>1, <3>2 DEF PagerTypeOK, Goto, Step, Job, Only
    <3>5. step'[c] = "idle" /\ job'[c] = "none" /\ eState'[c] = eState[c]
      BY <1>0, <3>1 DEF PagerTypeOK, Goto
    <3>6. HoldsFor(c)'
      BY <1>0, <3>3, <3>5 DEF HoldsFor, HoldsExclusive, AloneStep, OpenStep, CommitStep
    <3> QED BY <1>0, <3>4, <3>6, HoldsForOne
  <2> QED BY <2>a, <2>b
<1>5. CASE SyncRecords(c) \/ WriteHeader(c)
  <2>1. PICK s \in {"write header", "sync header"} :
          /\ Goto(c, s) /\ step[c] \in AloneStep \cap CommitStep
          /\ UNCHANGED <<job, eState, eFileLock>>
    BY <1>5 DEF SyncRecords, WriteHeader, AloneStep, CommitStep, lockVars
  <2>2. job[c] # "open" /\ eFileLock'[c] = EXCLUSIVE_LOCK
    BY <1>0, <2>1 DEF HoldsExclusive
  <2> QED BY <2>1, <2>2, GotoKeepsPagerInv DEF Step, CommitStep, OpenStep
<1>6. CASE SyncHeader(c) \/ SyncDb(c)
  <2>1. PICK s \in {"write", "unlink"}, state \in {"WRITER_DBMOD", "WRITER_FINISHED"} :
          /\ Goto(c, s) /\ step[c] \in AloneStep \cap CommitStep
          /\ eState' = [eState EXCEPT ![c] = state]
          /\ UNCHANGED <<job, eFileLock>>
    BY <1>6 DEF SyncHeader, SyncDb, At, AloneStep, CommitStep, lockVars
  <2>2. PagerTypeOK' /\ Only(c)
    BY <1>0, <2>1 DEF PagerTypeOK, Goto, Step, CommitStep, State, Writer, Only
  <2>3. step'[c] = s /\ job'[c] = job[c]
    BY <1>0, <2>1 DEF PagerTypeOK, Goto
  <2>4. job[c] # "open" /\ eFileLock'[c] = EXCLUSIVE_LOCK
    BY <1>0, <2>1 DEF HoldsExclusive
  <2>5. HoldsFor(c)'
    BY <2>3, <2>4 DEF HoldsFor, OpenStep
  <2> QED BY <1>0, <2>2, <2>5, HoldsForOne
<1>7. CASE WriteDb(c)
  <2>1. PICK s \in {"write", "sync file"} :
          Goto(c, s) /\ At(c, "commit", "write") /\ UNCHANGED <<job, eState, eFileLock>>
    <3>1. At(c, "commit", "write") /\ UNCHANGED <<job, eState, eFileLock>>
      BY <1>7 DEF WriteDb, lockVars
    <3>2. Goto(c, "sync file") \/ UNCHANGED step
      BY <1>7 DEF WriteDb
    <3>3. UNCHANGED step => Goto(c, "write")
      BY <1>0, <3>1 DEF Goto, At, PagerTypeOK
    <3> QED BY <3>1, <3>2, <3>3
  <2> QED BY <1>0, <2>1, GotoKeepsPagerInv
          DEF Step, CommitStep, OpenStep, AloneStep, At, HoldsExclusive
<1>8. CASE WriteSpilled(c)
  <2>1. Return(c, eState[c]) /\ UNCHANGED eFileLock
    BY <1>8 DEF WriteSpilled, lockVars
  <2>2. PagerTypeOK' /\ Only(c)
    BY <1>0, <2>1, ReturnEffect DEF Only, PagerTypeOK
  <2>3. step'[c] = "idle" /\ job'[c] = "none" /\ eState'[c] = eState[c]
    BY <1>0, <2>1, ReturnEffect DEF PagerTypeOK
  <2>4. HoldsFor(c)'
    BY <1>0, <2>1, <2>3 DEF HoldsFor, HoldsExclusive, AloneStep, OpenStep, CommitStep
  <2> QED BY <1>0, <2>2, <2>4, HoldsForOne
<1> QED BY <1>1, <1>2, <1>3, <1>4, <1>5, <1>6, <1>7, <1>8 DEF Writing

LEMMA EndingKeepsPagerInv ==
  ASSUME PagerInv, NEW c \in Conn, Ending(c)
  PROVE  PagerTypeOK' /\ HoldsExclusive'
<1>0. LocksTypeOK /\ PagerTypeOK /\ HoldsExclusive
  BY DEF PagerInv, LocksInv
<1>1. CASE Rollback(c)
  <2>1. PICK s \in {"replay", "unlink"} :
          /\ Goto(c, s)
          /\ s = "replay" => eState[c] = "WRITER_DBMOD"
          /\ job' = [job EXCEPT ![c] = "rollback"]
          /\ UNCHANGED <<eState, eFileLock>>
    BY <1>1 DEF Rollback, lockVars
  <2>2. PagerTypeOK' /\ Only(c)
    BY <1>0, <2>1 DEF PagerTypeOK, Goto, Step, Job, Only
  <2>3. step'[c] = s /\ job'[c] = "rollback"
    BY <1>0, <2>1 DEF PagerTypeOK, Goto
  <2>4. HoldsFor(c)'
    BY <1>0, <2>1, <2>3 DEF HoldsFor, HoldsExclusive, AloneStep, OpenStep, CommitStep
  <2> QED BY <1>0, <2>2, <2>4, HoldsForOne
<1>2. CASE Replay(c)
  <2>1. PICK s \in {"replay", "unlink"} :
          Goto(c, s) /\ step[c] = "replay" /\ UNCHANGED <<job, eState, eFileLock>>
    <3>1. step[c] = "replay" /\ UNCHANGED <<job, eState, eFileLock>>
      BY <1>2 DEF Replay, lockVars
    <3>2. Goto(c, "unlink") \/ UNCHANGED step
      BY <1>2 DEF Replay
    <3>3. UNCHANGED step => Goto(c, "replay")
      BY <1>0, <3>1 DEF Goto, PagerTypeOK
    <3> QED BY <3>1, <3>2, <3>3
  <2> QED BY <1>0, <2>1, GotoKeepsPagerInv DEF Step, CommitStep, OpenStep, AloneStep, HoldsExclusive
<1>3. CASE Unlink(c)
  <2>1. Goto(c, "lower") /\ UNCHANGED <<job, eState, eFileLock>>
    BY <1>3 DEF Unlink, lockVars
  <2> QED BY <1>0, <2>1, GotoKeepsPagerInv DEF Step, CommitStep, OpenStep, AloneStep, HoldsExclusive
<1>4. CASE Lower(c)
  <2>1. /\ UnlockToShared(c)
        /\ \/ job[c] = "open" /\ Goto(c, "validate") /\ UNCHANGED <<eState, job>>
           \/ Return(c, "READER")
    BY <1>4 DEF Lower
  <2>2. \A d \in Conn \ {c} : eFileLock'[d] = eFileLock[d]
    BY <1>0, <2>1, OthersKeepTheirLevels
  <2>3. job[c] = "open" => eState[c] # "WRITER_DBMOD"
    BY <1>0 DEF HoldsExclusive
  <2> QED BY <2>1, <2>2, <2>3, GotoKeepsPagerInv, ReturnKeepsPagerInv
          DEF Step, State, CommitStep, OpenStep, AloneStep
<1> QED BY <1>1, <1>2, <1>3, <1>4 DEF Ending

LEMMA FailKeepsPagerInv ==
  ASSUME PagerInv, NEW c \in Conn, Fail(c)
  PROVE  PagerTypeOK' /\ HoldsExclusive'
<1>0. LocksTypeOK /\ PagerTypeOK /\ HoldsExclusive
  BY DEF PagerInv, LocksInv
<1>1. CASE step[c] = "unlink"
  <2>1. UnlockToShared(c)
    BY <1>1 DEF Fail
  <2>2. \/ job[c] = "open" /\ Goto(c, "give up") /\ UNCHANGED <<eState, job>>
        \/ Return(c, "ERROR")
    BY <1>1 DEF Fail
  <2>3. \A d \in Conn \ {c} : eFileLock'[d] = eFileLock[d]
    BY <1>0, <2>1, OthersKeepTheirLevels
  <2>4. job[c] = "open" => eState[c] # "WRITER_DBMOD"
    BY <1>0 DEF HoldsExclusive
  <2> QED BY <2>2, <2>3, <2>4, GotoKeepsPagerInv, ReturnKeepsPagerInv
          DEF Step, State, CommitStep, OpenStep, AloneStep
<1>2. CASE step[c] # "unlink"
  <2>1. UNCHANGED eFileLock
    BY <1>2 DEF Fail, lockVars
  <2>2. \/ step[c] = "delete" /\ Goto(c, "lower") /\ UNCHANGED <<eState, job>>
        \/ job[c] = "open" /\ Goto(c, "give up") /\ UNCHANGED <<eState, job>>
        \/ job' = [job EXCEPT ![c] = "failed"] /\ Goto(c, "idle") /\ UNCHANGED eState
        \/ Return(c, "ERROR")
    BY <1>2 DEF Fail
  <2>3. CASE step[c] = "delete" /\ Goto(c, "lower") /\ UNCHANGED <<eState, job>>
    <3>1. eState[c] # "WRITER_DBMOD"
      BY <1>0, <2>3 DEF HoldsExclusive, OpenStep
    <3> QED BY <2>1, <2>3, <3>1, GotoKeepsPagerInv DEF Step, CommitStep, OpenStep, AloneStep
  <2>4. CASE job[c] = "open" /\ Goto(c, "give up") /\ UNCHANGED <<eState, job>>
    <3>1. eState[c] # "WRITER_DBMOD"
      BY <1>0, <2>4 DEF HoldsExclusive
    <3> QED BY <2>1, <2>4, <3>1, GotoKeepsPagerInv DEF Step, CommitStep, OpenStep, AloneStep
  <2>5. CASE job' = [job EXCEPT ![c] = "failed"] /\ Goto(c, "idle") /\ UNCHANGED eState
    <3>1. PagerTypeOK' /\ Only(c)
      BY <1>0, <2>1, <2>5 DEF PagerTypeOK, Goto, Step, Job, Only
    <3>2. step'[c] = "idle" /\ job'[c] = "failed"
      BY <1>0, <2>5 DEF PagerTypeOK, Goto
    <3>3. HoldsFor(c)'
      BY <1>0, <2>1, <2>5, <3>2 DEF HoldsFor, HoldsExclusive, AloneStep, OpenStep, CommitStep
    <3> QED BY <1>0, <3>1, <3>3, HoldsForOne
  <2>6. CASE Return(c, "ERROR")
    BY <2>1, <2>6, ReturnKeepsPagerInv DEF State
  <2> QED BY <2>2, <2>3, <2>4, <2>5, <2>6
<1> QED BY <1>1, <1>2

LEMMA RestartKeepsPagerInv ==
  ASSUME PagerInv, NEW ps \in SUBSET Process, Restart(ps)
  PROVE  PagerTypeOK' /\ HoldsExclusive'
<1>0. LocksTypeOK /\ PagerTypeOK /\ HoldsExclusive
  BY DEF PagerInv, LocksInv
<1>1. /\ eState' = [c \in Conn |-> IF processOf[c] \in ps THEN "OPEN" ELSE eState[c]]
      /\ job' = [c \in Conn |-> IF processOf[c] \in ps THEN "none" ELSE job[c]]
      /\ step' = [c \in Conn |-> IF processOf[c] \in ps THEN "idle" ELSE step[c]]
      /\ eFileLock' = [c \in Conn |-> IF processOf[c] \in ps THEN NO_LOCK ELSE eFileLock[c]]
  BY DEF Restart, Dies
<1>2. PagerTypeOK'
  BY <1>0, <1>1 DEF PagerTypeOK, Step, Job, State
<1>3. ASSUME NEW c \in Conn PROVE HoldsFor(c)'
  BY <1>0, <1>1 DEF HoldsFor, HoldsExclusive, AloneStep, OpenStep, CommitStep
<1> QED BY <1>2, <1>3 DEF HoldsExclusive, HoldsFor

(* The pager's invariant is inductive.                                        *)
LEMMA PagerInvStep == PagerInv /\ [Next]_vars => PagerInv'
<1> SUFFICES ASSUME PagerInv, [Next]_vars PROVE PagerInv'
  OBVIOUS
<1>1. LocksInv'
  BY StepIsLockStep, LockStepKeepsLocksInv DEF PagerInv, vars
<1>2. PagerTypeOK' /\ HoldsExclusive'
  <2>1. CASE UNCHANGED vars
    BY <2>1 DEF PagerInv, PagerTypeOK, HoldsExclusive, vars, callVars, lockVars
  <2>2. CASE Next
    BY <2>2, ReadingKeepsPagerInv, OpeningKeepsPagerInv, WritingKeepsPagerInv,
       EndingKeepsPagerInv, FailKeepsPagerInv, RestartKeepsPagerInv DEF Next, Kill, LosePower
  <2> QED BY <2>1, <2>2
<1> QED BY <1>1, <1>2 DEF PagerInv

-----------------------------------------------------------------------------
(* The steps that write to the file are steps of a connection with an         *)
(* EXCLUSIVE lock.                                                            *)
LEMMA WriterHoldsExclusive ==
  ASSUME HoldsExclusive, Next, db' # db, ~LosePower
  PROVE  \E c \in Conn : eFileLock[c] = EXCLUSIVE_LOCK
<1>1. PICK c \in Conn : Reading(c) \/ Opening(c) \/ Writing(c) \/ Ending(c) \/ Fail(c)
  BY DEF Next, Kill, dbVars
<1>2. CASE Reading(c)
  BY <1>2 DEF Reading, EndRead, EndError, Close, ReadPage, Recycle, dbVars
<1>3. CASE Opening(c)
  <2>1. PlayHot(c)
    BY <1>3 DEF Opening, SharedLock, CheckExists, CheckReserved, CheckHeader, LockObsolete,
                LockHot, Validate, GiveUp, dbVars
  <2> QED BY <2>1 DEF PlayHot, At, HoldsExclusive, AloneStep
<1>4. CASE Writing(c)
  <2>1. WriteDb(c) \/ WriteSpilled(c)
    BY <1>4 DEF Writing, Begin, EndUnmodified, Commit, WritePage, Spill, LockDb, SyncRecords,
                WriteHeader, SyncHeader, SyncDb, dbVars
  <2> QED BY <2>1 DEF WriteDb, WriteSpilled, At, HoldsExclusive, AloneStep
<1>5. CASE Ending(c)
  <2>1. Rollback(c) \/ Replay(c)
    BY <1>5 DEF Ending, Unlink, Lower, dbVars
  <2>2. CASE Rollback(c)
    <3>1. eState[c] = "WRITER_DBMOD"
      BY <2>2 DEF Rollback, dbVars
    <3> QED BY <3>1 DEF HoldsExclusive
  <2>3. CASE Replay(c)
    BY <2>3 DEF Replay, HoldsExclusive, AloneStep
  <2> QED BY <2>1, <2>2, <2>3
<1>6. CASE Fail(c)
  <2>1. step[c] \in {"write", "replay"}
    BY <1>6 DEF Fail, At, dbVars
  <2> QED BY <2>1 DEF HoldsExclusive, AloneStep
<1> QED BY <1>1, <1>2, <1>3, <1>4, <1>5, <1>6

(* For all connections, processes, pages, transactions and faults: whoever    *)
(* writes to the file, or truncates it, has the only lock.                    *)
THEOREM PagerWritesAlone == Spec => WritesAlone
<1>1. PagerInv /\ [Next]_vars => [db' # db => LosePower \/ \E c \in Conn : Alone(c)]_vars
  <2> SUFFICES ASSUME PagerInv, Next, db' # db, ~LosePower
               PROVE  \E c \in Conn : Alone(c)
    OBVIOUS
  <2>1. PICK c \in Conn : eFileLock[c] = EXCLUSIVE_LOCK
    BY WriterHoldsExclusive DEF PagerInv
  <2>2. Alone(c)
    BY <2>1, LocksInvExcludes DEF PagerInv, Alone, LocksExclude
  <2> QED BY <2>2
<1> QED BY <1>1, PagerInvInit, PagerInvStep, PTL DEF Spec, WritesAlone

-----------------------------------------------------------------------------
(* The pager's store. What a connection reads, and what a loss of power       *)
(* leaves, for connections of different processes and a file that is not      *)
(* empty.                                                                     *)
Separate == \A c, d \in Conn : c # d => processOf[c] # processOf[d]

Nonempty == db[1] # Absent

Content == {Absent, Torn} \cup (Nat \X Nat)

Record == [page : Page, was : Content]

(* The pages whose originals are among the first n records of a journal.      *)
Saved(j, n) == {j.records[i].page : i \in 1..n}

JournalOK(j) ==
  /\ j \in [exists : BOOLEAN, orig : 0..MaxPage, records : Seq(Record), nRec : Int]
  /\ -1 <= j.nRec /\ j.nRec <= Len(j.records)
  /\ ~j.exists => j = NoJournal
  /\ j.exists => j.orig >= 1
  /\ \A i \in 1..Len(j.records) :
       /\ j.records[i].page <= j.orig
       /\ j.records[i].page = 1 => j.records[i].was # Absent
       /\ \A k \in 1..Len(j.records) : j.records[i].page = j.records[k].page => i = k

StoreTypeOK ==
  /\ db \in [Page -> Content]
  /\ dbDisk \in [Page -> SUBSET Content]
  /\ cache \in [Conn -> [Page -> Content \cup {NotCached}]]
  /\ dirty \in [Conn -> SUBSET Page]
  /\ dbFileVers \in [Conn -> Nat]
  /\ dbSize \in [Conn -> 0..MaxPage]
  /\ synced \in [Conn -> Nat]
  /\ todo \in [Conn -> Seq(Record) \cup Seq(Page)]
  /\ tx \in [Conn -> Nat]
  /\ txs \in Nat
  /\ Image \in Images
  /\ before \in Images

(* The file is not empty, whatever happens.                                   *)
FileHasPage ==
  /\ db[1] # Absent
  /\ Absent \notin dbDisk[1]
  /\ \A c \in Conn : cache[c][1] # Absent

(* Where a call may be.                                                       *)
Control(c) ==
  /\ step[c] \notin {"obsolete", "delete"}
  /\ step[c] = "idle" => job[c] \in {"none", "failed"}
  /\ job[c] = "none" => step[c] = "idle"
  /\ job[c] = "failed" => step[c] = "idle" /\ eState[c] \in Modifying
  /\ job[c] = "rollback" => step[c] \in {"replay", "unlink", "lower"} /\ eState[c] \in Modifying
  /\ job[c] = "spill" => step[c] \in CommitStep \ {"sync file"} /\ eState[c] \in Modifying
  /\ job[c] = "commit" =>
       \/ step[c] \in CommitStep /\ eState[c] \in Modifying
       \/ step[c] \in {"unlink", "lower"} /\ eState[c] = "WRITER_FINISHED"
  /\ job[c] = "open" => step[c] \in OpenStep \cup {"replay", "unlink", "lower"}
  /\ eState[c] \in {"READER", "WRITER_LOCKED", "ERROR"} => job[c] = "none"
  /\ eState[c] = "OPEN" => job[c] \in {"none", "open"}
  /\ eState[c] = "WRITER_FINISHED" => job[c] = "commit" /\ step[c] \in {"unlink", "lower"}
  /\ step[c] \in {"write", "sync file"} => eState[c] = "WRITER_DBMOD"
  /\ step[c] = "replay" /\ job[c] = "rollback" => eState[c] = "WRITER_DBMOD"

(* Which locks go with it.                                                    *)
Reserved(c) == reservedByte[processOf[c]] = "write"

Locked(c) ==
  /\ eFileLock[c] = NO_LOCK <=> eState[c] = "OPEN" /\ job[c] = "none"
  /\ step[c] \in {"exists", "reserved", "header"} => eFileLock[c] = SHARED_LOCK
  /\ eState[c] \in Writer => eFileLock[c] >= RESERVED_LOCK /\ Reserved(c)
  /\ Reserved(c) => \/ eState[c] \in Writer
                    \/ eState[c] = "ERROR" /\ eFileLock[c] = EXCLUSIVE_LOCK
  /\ eState[c] = "WRITER_FINISHED" => eFileLock[c] = EXCLUSIVE_LOCK
  /\ job[c] = "open" /\ step[c] \in {"unlink", "lower"} => eFileLock[c] = EXCLUSIVE_LOCK

(* A connection that trusts the file is not there while a journal is hot,     *)
(* except its writer.                                                         *)
Trusting(c) == eState[c] \in {"READER"} \cup Writer \/ step[c] = "validate"

HotIsOwn(c) ==
  IsHot(journal) =>
    /\ Trusting(c) => /\ eFileLock[c] = EXCLUSIVE_LOCK
                      /\ eState[c] \in Modifying \cup {"WRITER_FINISHED"}
    /\ step[c] # "lower"

-----------------------------------------------------------------------------
(* The data of a connection. Without a transaction its cache may be outdated. *)
Caches(c) == \E p \in Page : cache[c][p] # NotCached

CacheIsOf(c, file) == \A p \in Page : cache[c][p] \in {NotCached, file[p]}

Outdated(c) ==
  /\ dirty[c] = {}
  /\ Caches(c) => /\ dbFileVers[c] <= Version(Image)
                  /\ dbFileVers[c] = Version(Image) => CacheIsOf(c, Image)

(* The cache of one that has not written, or is done with it.                 *)
HasSize(file, size) == /\ size \in Page
                       /\ file[size] # Absent
                       /\ \A p \in Page : p > size => file[p] = Absent

UpToDate(c) == /\ dirty[c] = {}
               /\ CacheIsOf(c, db)
               /\ HasSize(db, dbSize[c])
               /\ Caches(c) => dbFileVers[c] = Version(db)

(* Written by the transaction of the connection.                              *)
Own(c, content) == content \in Nat \X Nat /\ content[1] = tx[c]

(* The journal has the originals of what the connection has changed.          *)
Originals(c) ==
  /\ journal.exists
  /\ HasSize(Image, journal.orig)
  /\ journal.orig <= dbSize[c]
  /\ \A i \in 1..Len(journal.records) : journal.records[i].was = Image[journal.records[i].page]
  /\ \A p \in 1..journal.orig \ Journaled(journal) : cache[c][p] \in {NotCached, Image[p]}
  /\ \A p \in dirty[c] : Own(c, cache[c][p]) /\ (p > journal.orig \/ p \in Journaled(journal))
  /\ cache[c][1] # NotCached
  /\ 1 \notin Journaled(journal) => dbFileVers[c] = Version(Image)

(* Only pages whose originals are synced are changed in the file.             *)
WriteAhead(c) ==
  /\ synced[c] <= Len(journal.records)
  /\ \A p \in 1..journal.orig : db[p] = Image[p] \/ p \in Saved(journal, synced[c])

Unwritten(c) == db = Image /\ synced[c] = 0 /\ journalDisk.nRec = -1

(* No header counts a record before the first one is written.                 *)
Uncounted(c) == step[c] # "sync header" => ~IsHot(journal)

(* The version goes up with a commit.                                         *)
NewVersion(c) ==
  /\ cache[c][1] = <<tx[c], Version(Image) + 1>>
  /\ 1 \in Journaled(journal)
  /\ dbFileVers[c] = IF 1 \in dirty[c] THEN Version(Image) ELSE Version(Image) + 1

(* The transaction, as far as it got, in the file and the cache.              *)
Transaction(c) ==
  /\ \A p \in Page : db[p] = Image[p] \/ Own(c, db[p])
  /\ \A p \in Page \ dirty[c] : cache[c][p] \in {NotCached, db[p]}
  /\ dbSize[c] \in dirty[c] \/ db[dbSize[c]] # Absent
  /\ \A p \in Page : p > dbSize[c] => db[p] = Absent /\ p \notin dirty[c]

Spilling(c) == \E p \in dirty[c] \ {1} : todo[c] = <<p>>

SpillIsSaved(c) == todo[c][1] > journal.orig \/ todo[c][1] \in Saved(journal, synced[c])

(* What a failed commit leaves in the cache.                                  *)
Changed(c) == \A p \in Page : cache[c][p] \in {NotCached, Image[p]} \/ Own(c, cache[c][p])

(* A rollback restores the cache at once, the file by and by.                 *)
RolledBack(c) == /\ dirty[c] = {}
                 /\ CacheIsOf(c, Image)
                 /\ dbFileVers[c] = Version(Image)
                 /\ dbSize[c] = journal.orig

Replaying(c) ==
  /\ journal.exists
  /\ todo[c] \in Seq(Record)
  /\ \A i \in 1..Len(todo[c]) : /\ todo[c][i].was = Image[todo[c][i].page]
                                /\ todo[c][i].page \in Saved(journal, journalDisk.nRec)
  /\ \A p \in Page : db[p] = Image[p] \/ \E i \in 1..Len(todo[c]) : todo[c][i].page = p

FileSynced == \A p \in Page : dbDisk[p] = {db[p]}

RecordsSynced == Len(journalDisk.records) = Len(journal.records)

-----------------------------------------------------------------------------
(* What holds where.                                                          *)
Clean(c) == \/ eState[c] \in {"READER", "WRITER_LOCKED"}
            \/ step[c] = "lower" /\ job[c] # "open"

Journaling(c) == eState[c] \in Modifying \cup {"WRITER_FINISHED"} /\ step[c] # "lower"

(* Before the first page of a commit goes to the file.                        *)
JournalStep == {"lock", "sync records", "write header", "sync header"}

ConnInv(c) ==
  /\ eState[c] = "OPEN" => Outdated(c)
  /\ Clean(c) => UpToDate(c)
  /\ Journaling(c) =>
       /\ Originals(c)
       /\ WriteAhead(c)
       /\ IF eState[c] = "WRITER_CACHEMOD" THEN Unwritten(c) ELSE synced[c] <= journalDisk.nRec
       /\ eState[c] = "WRITER_CACHEMOD" /\ job[c] \in {"none", "commit", "spill"} => Uncounted(c)
       /\ job[c] \in {"none", "spill"} => dbFileVers[c] = Version(Image)
       /\ job[c] = "commit" => NewVersion(c)
       /\ job[c] \in {"none", "commit", "spill"} => Transaction(c)
       /\ job[c] = "failed" => Changed(c)
       /\ job[c] = "rollback" => RolledBack(c)
  /\ step[c] \in {"write header", "sync header"} => RecordsSynced
  /\ step[c] \in {"write header", "sync header", "write"} => ghosts = {}
  /\ step[c] = "sync header" => journal.nRec = Len(journal.records)
  /\ job[c] = "commit" /\ step[c] \in JournalStep => 1 \in dirty[c]
  /\ job[c] = "commit" /\ step[c] = "write" => synced[c] = Len(journal.records)
  /\ step[c] = "sync file" \/ eState[c] = "WRITER_FINISHED" => dirty[c] = {}
  /\ job[c] = "spill" => Spilling(c)
  /\ job[c] = "spill" /\ step[c] = "write" => SpillIsSaved(c)
  /\ step[c] = "replay" => Replaying(c)
  /\ step[c] = "unlink" => FileSynced
  /\ step[c] = "unlink" /\ job[c] # "commit" => db = Image

(* The disk. A page is on the disk as readers see it unless its original is   *)
(* in the part of the journal that a synced header counts.                    *)
Protected(p) ==
  /\ IsHot(journalDisk)
  /\ p > journal.orig \/ p \in Saved(journal, journalDisk.nRec)

Durable ==
  /\ JournalOK(journal)
  /\ journalDisk.nRec \in Int
  /\ -1 <= journalDisk.nRec /\ journalDisk.nRec <= journal.nRec
  /\ Len(journalDisk.records) \in Nat
  /\ journal.nRec <= Len(journalDisk.records)
  /\ Len(journalDisk.records) <= Len(journal.records)
  /\ \A p \in Page : db[p] \in dbDisk[p]
  /\ \A p \in Page : Protected(p) \/ dbDisk[p] = {Image[p]}

(* Journals that may come back undo at most the last commit.                  *)
GhostsUndo ==
  /\ ghosts # {} => ~IsHot(journal)
  /\ \A j \in ghosts : JournalOK(j) /\ Recovered(db, j) \in {db, before}

ConnOK(c) == Control(c) /\ Locked(c) /\ HotIsOwn(c) /\ ConnInv(c)

StoreInv == /\ PagerInv
            /\ Separate
            /\ StoreTypeOK
            /\ FileHasPage
            /\ Durable
            /\ GhostsUndo
            /\ \A c \in Conn : ConnOK(c)
-----------------------------------------------------------------------------
(* Pages, sizes and journals.                                                 *)
LEMMA PageIsInt == /\ \A p \in Page : p \in Int /\ 1 <= p /\ p <= MaxPage
                   /\ 1 \in Page /\ MaxPage \in Nat \ {0}
BY PagerAssumption DEF Page

(* The folds Min and Max of the community modules, of two numbers and of      *)
(* pages.                                                                     *)
LEMMA TwoMin ==
  ASSUME NEW a \in Int, NEW b \in Int
  PROVE  Min({a, b}) = IF a <= b THEN a ELSE b
BY DEF Min

LEMMA TwoMax ==
  ASSUME NEW a \in Int, NEW b \in Int
  PROVE  Max({a, b}) = IF a >= b THEN a ELSE b
BY DEF Max

(* A finite set of numbers has a least one, and a greatest one: of the sets   *)
(* of the smaller, or of the greater, ones one is the smallest.               *)
LEMMA LeastIsThere ==
  ASSUME NEW S, S \subseteq Int, IsFiniteSet(S), S # {}
  PROVE  /\ \E x \in S : \A y \in S : x <= y
         /\ \E x \in S : \A y \in S : x >= y
<1>0. \A x \in S : x \in Int
  OBVIOUS
<1>1. ASSUME NEW U \in SUBSET (SUBSET S), U # {}
      PROVE  \E T \in U : \A V \in U : ~(V \subseteq T /\ V # T)
  <2>1. U \subseteq FiniteSubsetsOf(S)
    BY <1>1, FS_FiniteSubsetsOfFinite
  <2>2. PICK T \in U : \A V \in U : <<V, T>> \notin StrictSubsetOrdering(S)
    BY <1>1, <2>1, FS_StrictSubsetOrderingWellFounded, WFMin
  <2> QED BY <1>1, <2>2 DEF StrictSubsetOrdering
<1>2. \E x \in S : \A y \in S : x <= y
  <2> DEFINE U == {{y \in S : y <= x} : x \in S}
  <2>0. U \in SUBSET (SUBSET S) /\ U # {}
    OBVIOUS
  <2>1. PICK T \in U : \A V \in U : ~(V \subseteq T /\ V # T)
    <3> HIDE DEF U
    <3> QED BY <1>1, <2>0
  <2>2. PICK x \in S : T = {y \in S : y <= x}
    BY <2>1
  <2>3. ASSUME NEW y \in S, y < x PROVE FALSE
    <3>1. {z \in S : z <= y} \in U
      OBVIOUS
    <3>2. /\ \A z \in S : z <= y => z <= x
          /\ x <= x /\ ~(x <= y)
      BY <1>0, <2>3
    <3>3. {z \in S : z <= y} \subseteq T /\ x \in T /\ x \notin {z \in S : z <= y}
      BY <2>2, <3>2
    <3> QED BY <2>1, <3>1, <3>3
  <2> QED BY <1>0, <2>3
<1>3. \E x \in S : \A y \in S : x >= y
  <2> DEFINE U == {{y \in S : y >= x} : x \in S}
  <2>0. U \in SUBSET (SUBSET S) /\ U # {}
    OBVIOUS
  <2>1. PICK T \in U : \A V \in U : ~(V \subseteq T /\ V # T)
    <3> HIDE DEF U
    <3> QED BY <1>1, <2>0
  <2>2. PICK x \in S : T = {y \in S : y >= x}
    BY <2>1
  <2>3. ASSUME NEW y \in S, y > x PROVE FALSE
    <3>1. {z \in S : z >= y} \in U
      OBVIOUS
    <3>2. /\ \A z \in S : z >= y => z >= x
          /\ x >= x /\ ~(x >= y)
      BY <1>0, <2>3
    <3>3. {z \in S : z >= y} \subseteq T /\ x \in T /\ x \notin {z \in S : z >= y}
      BY <2>2, <3>2
    <3> QED BY <2>1, <3>1, <3>3
  <2> QED BY <1>0, <2>3
<1> QED BY <1>2, <1>3

LEMMA PagesAreFinite == IsFiniteSet(0..MaxPage) /\ IsFiniteSet(Page)
BY PagerAssumption, FS_Interval DEF Page

(* Pages are finitely many, so that sets of them have a least and a greatest. *)
LEMMA MinIsThere ==
  ASSUME NEW S, S \subseteq Page, S # {}
  PROVE  Min(S) \in S
<1>1. IsFiniteSet(S) /\ S \subseteq Int
  BY PagesAreFinite, PageIsInt, FS_Subset
<1> QED BY <1>1, LeastIsThere DEF Min

LEMMA MaxIsThere ==
  ASSUME NEW S, S \subseteq 0..MaxPage, S # {}
  PROVE  Max(S) \in S /\ \A y \in S : Max(S) >= y
<1>1. IsFiniteSet(S)
  BY PagesAreFinite, FS_Subset
<1>2. S \subseteq Int
  BY PagerAssumption
<1> QED BY <1>1, <1>2, LeastIsThere DEF Max

(* The size of a file that is not empty.                                      *)
LEMMA SizeIs ==
  ASSUME NEW file \in [Page -> Content]
  PROVE  /\ \A n : HasSize(file, n) => Size(file) = n
         /\ file[1] # Absent => HasSize(file, Size(file))
<1> DEFINE S == {0} \cup {p \in Page : file[p] # Absent}
<1>0. S \subseteq 0..MaxPage /\ S # {} /\ MaxPage \in Nat \ {0}
  BY PagerAssumption DEF Page
<1>1. Max(S) \in S /\ \A y \in S : Max(S) >= y
  <2> HIDE DEF S
  <2> QED BY <1>0, MaxIsThere
<1>2. Size(file) = Max(S)
  BY DEF Size
<1>3. ASSUME NEW n, HasSize(file, n) PROVE Size(file) = n
  <2>1. n \in S /\ \A y \in S : n >= y
    BY <1>0, <1>3, PageIsInt DEF HasSize, Page
  <2>2. n \in Int /\ Max(S) \in Int /\ n >= Max(S) /\ Max(S) >= n
    BY <1>0, <1>1, <2>1
  <2> QED BY <1>2, <2>2
<1>4. ASSUME file[1] # Absent PROVE HasSize(file, Size(file))
  <2>1. 1 \in S
    BY <1>4, PageIsInt
  <2>2. Max(S) \in Page /\ file[Max(S)] # Absent
    BY <1>0, <1>1, <2>1 DEF Page
  <2>3. \A p \in Page : p > Max(S) => file[p] = Absent
    BY <1>0, <1>1 DEF Page
  <2> QED BY <1>2, <2>2, <2>3 DEF HasSize
<1> QED BY <1>3, <1>4

(* The types of a well-formed journal's parts.                                *)
LEMMA JournalFacts ==
  ASSUME NEW j, JournalOK(j)
  PROVE  /\ j.exists \in BOOLEAN /\ j.orig \in 0..MaxPage /\ j.records \in Seq(Record) /\ j.nRec \in Int
         /\ Len(j.records) \in Nat
         /\ \A i \in 1..Len(j.records) : /\ j.records[i] \in Record
                                         /\ j.records[i].page \in Page
                                         /\ j.records[i].was \in Content
         /\ IsHot(j) => j.exists
<1>1. j.records \in Seq(Record) /\ j.exists \in BOOLEAN /\ j.orig \in 0..MaxPage /\ j.nRec \in Int
  BY DEF JournalOK
<1>2. IsHot(j) => j.exists
  BY <1>1 DEF JournalOK, IsHot, NoJournal
<1>3. Len(j.records) \in Nat /\ \A i \in 1..Len(j.records) : j.records[i] \in Record
  BY <1>1, LenProperties, ElementOfSeq
<1> QED BY <1>1, <1>2, <1>3 DEF Record

(* What a recovery reads in the records of a journal.                         *)
LEMMA HotRecordsAre ==
  ASSUME NEW j, JournalOK(j)
  PROVE  /\ HotRecords(j) \in Seq(Record)
         /\ Len(HotRecords(j)) = IF j.nRec >= 0 THEN j.nRec ELSE 0
         /\ \A i \in 1..Len(HotRecords(j)) : HotRecords(j)[i] = j.records[i]
         /\ ToSet(HotRecords(j)) = {j.records[i] : i \in 1..j.nRec}
<1>1. j.nRec \in Int /\ j.nRec <= Len(j.records) /\ -1 <= j.nRec /\ Len(j.records) \in Nat
  BY JournalFacts DEF JournalOK
<1>2. HotRecords(j) = SubSeq(j.records, 1, j.nRec)
  BY <1>1, TwoMin DEF HotRecords
<1>3. \A i \in 1..j.nRec : j.records[i] \in Record
  BY <1>1, JournalFacts
<1>4. /\ HotRecords(j) \in Seq(Record)
      /\ Len(HotRecords(j)) = IF 1 <= j.nRec THEN j.nRec - 1 + 1 ELSE 0
      /\ \A i \in 1..(j.nRec - 1 + 1) : HotRecords(j)[i] = j.records[1 + i - 1]
  BY <1>1, <1>2, <1>3, SubSeqProperties
<1> QED
  <2>1. Len(HotRecords(j)) = IF j.nRec >= 0 THEN j.nRec ELSE 0
    BY <1>1, <1>4
  <2>2. \A i \in 1..Len(HotRecords(j)) : HotRecords(j)[i] = j.records[i]
    BY <1>1, <1>4, <2>1
  <2>3. 1..Len(HotRecords(j)) = 1..j.nRec /\ DOMAIN HotRecords(j) = 1..Len(HotRecords(j))
    BY <1>1, <1>4, <2>1
  <2>4. ToSet(HotRecords(j)) = {j.records[i] : i \in 1..j.nRec}
    BY <2>2, <2>3 DEF ToSet
  <2> QED BY <1>4, <2>1, <2>2, <2>4

(* What hasHotJournal and pager_playback make of a file: nothing without a    *)
(* hot journal; else each original that the header counts is put back and     *)
(* pages after the journal's orig go.                                         *)
LEMMA RecoveredCold ==
  ASSUME NEW j, NEW file, ~IsHot(j)
  PROVE  Recovered(file, j) = file
BY DEF Recovered

LEMMA RecoveredHot ==
  ASSUME NEW j, JournalOK(j), IsHot(j), NEW file
  PROVE  /\ Recovered(file, j) = [p \in Page |-> Recovered(file, j)[p]]
         /\ \A p \in Page : p > j.orig => Recovered(file, j)[p] = Absent
         /\ \A i \in 1..j.nRec : Recovered(file, j)[j.records[i].page] = j.records[i].was
         /\ \A p \in Page : p <= j.orig /\ p \notin Saved(j, j.nRec) => Recovered(file, j)[p] = file[p]
<1> DEFINE records == ToSet(HotRecords(j))
           value(p) == IF p > j.orig THEN Absent
                       ELSE IF \E r \in records : r.page = p
                         THEN (CHOOSE r \in records : r.page = p).was
                         ELSE file[p]
<1>0. j.orig \in Int
  BY JournalFacts, PagerAssumption
<1>1. Recovered(file, j) = [p \in Page |-> value(p)]
  BY DEF Recovered
<1>2. records = {j.records[i] : i \in 1..j.nRec}
  BY HotRecordsAre
<1>3. ASSUME NEW i \in 1..j.nRec
      PROVE  Recovered(file, j)[j.records[i].page] = j.records[i].was
  <2>1. i \in 1..Len(j.records) /\ 1..j.nRec \subseteq 1..Len(j.records)
    BY JournalFacts, j.nRec <= Len(j.records) DEF JournalOK
  <2>2. j.records[i] \in records
    BY <1>2
  <2>5. j.records[i].page \in Page /\ j.records[i].page <= j.orig
    BY <2>1, JournalFacts DEF JournalOK
  <2>6. ~(j.records[i].page > j.orig)
    BY <1>0, <2>5, PageIsInt
  <2>3. \A r \in records : r.page = j.records[i].page => r = j.records[i]
    BY <1>2, <2>1 DEF JournalOK
  <2>4. (CHOOSE r \in records : r.page = j.records[i].page) = j.records[i]
    BY <2>2, <2>3
  <2> QED BY <1>1, <2>2, <2>4, <2>5, <2>6
<1>4. ASSUME NEW p \in Page, p <= j.orig, p \notin Saved(j, j.nRec)
      PROVE  Recovered(file, j)[p] = file[p]
  <2>1. ~\E r \in records : r.page = p
    BY <1>2, <1>4 DEF Saved
  <2>2. ~(p > j.orig)
    BY <1>0, <1>4, PageIsInt
  <2> QED BY <1>1, <2>1, <2>2
<1>5. \A p \in Page : p > j.orig => Recovered(file, j)[p] = Absent
  BY <1>1
<1> QED BY <1>1, <1>3, <1>4, <1>5
-----------------------------------------------------------------------------
(* What a step leaves alone.                                                  *)
SameData(c) ==
  /\ cache'[c] = cache[c] /\ dirty'[c] = dirty[c]
  /\ dbFileVers'[c] = dbFileVers[c] /\ dbSize'[c] = dbSize[c]
  /\ synced'[c] = synced[c] /\ todo'[c] = todo[c] /\ tx'[c] = tx[c]

SameControl(c) ==
  /\ eState'[c] = eState[c] /\ job'[c] = job[c] /\ step'[c] = step[c]
  /\ eFileLock'[c] = eFileLock[c]
  /\ Reserved(c)' <=> Reserved(c)

(* What steps that leave the files, or a connection, alone keep.              *)
LEMMA ImageStays ==
  ASSUME UNCHANGED <<db, journal>>
  PROVE  Image' = Image
BY DEF Image

LEMMA DataStays ==
  ASSUME NEW c \in Conn, SameData(c), UNCHANGED <<dbVars, journal, journalDisk>>
  PROVE  /\ Outdated(c)' <=> Outdated(c)
         /\ UpToDate(c)' <=> UpToDate(c)
         /\ Originals(c)' <=> Originals(c)
         /\ WriteAhead(c)' <=> WriteAhead(c)
         /\ Unwritten(c)' <=> Unwritten(c)
         /\ NewVersion(c)' <=> NewVersion(c)
         /\ Transaction(c)' <=> Transaction(c)
         /\ Changed(c)' <=> Changed(c)
         /\ Spilling(c)' <=> Spilling(c)
         /\ SpillIsSaved(c)' <=> SpillIsSaved(c)
         /\ RolledBack(c)' <=> RolledBack(c)
         /\ Replaying(c)' <=> Replaying(c)
         /\ FileSynced' <=> FileSynced
         /\ RecordsSynced' <=> RecordsSynced
<1>1. Image' = Image /\ db' = db /\ dbDisk' = dbDisk /\ journal' = journal /\ journalDisk' = journalDisk
  BY ImageStays DEF dbVars
<1>2. Outdated(c)' <=> Outdated(c)
  BY <1>1 DEF Outdated, Caches, CacheIsOf, SameData, Version
<1>3. UpToDate(c)' <=> UpToDate(c)
  BY <1>1 DEF UpToDate, Caches, CacheIsOf, HasSize, SameData, Version
<1>4. Originals(c)' <=> Originals(c)
  BY <1>1 DEF Originals, HasSize, Own, Journaled, SameData, Version
<1>5. (WriteAhead(c)' <=> WriteAhead(c)) /\ (Unwritten(c)' <=> Unwritten(c))
  BY <1>1 DEF WriteAhead, Unwritten, Saved, SameData
<1>6. (NewVersion(c)' <=> NewVersion(c)) /\ (RolledBack(c)' <=> RolledBack(c))
  BY <1>1 DEF NewVersion, RolledBack, CacheIsOf, Journaled, Version, SameData
<1>7. (Transaction(c)' <=> Transaction(c)) /\ (Changed(c)' <=> Changed(c))
  BY <1>1 DEF Transaction, Changed, Own, SameData
<1>8. (Spilling(c)' <=> Spilling(c)) /\ (SpillIsSaved(c)' <=> SpillIsSaved(c))
  BY <1>1 DEF Spilling, SpillIsSaved, Saved, SameData
<1>9. Replaying(c)' <=> Replaying(c)
  BY <1>1 DEF Replaying, Saved, SameData
<1>10. (FileSynced' <=> FileSynced) /\ (RecordsSynced' <=> RecordsSynced)
  BY <1>1 DEF FileSynced, RecordsSynced
<1> QED BY <1>2, <1>3, <1>4, <1>5, <1>6, <1>7, <1>8, <1>9, <1>10

(* A connection that takes no part in a step that leaves the files alone.     *)
LEMMA QuietForOthers ==
  ASSUME NEW d \in Conn, ConnOK(d), SameData(d), SameControl(d),
         UNCHANGED <<dbVars, journal, journalDisk>>, ghosts' \in {ghosts, {}}
  PROVE  ConnOK(d)'
<1>1. Control(d)' /\ Locked(d)' /\ HotIsOwn(d)'
  BY DEF ConnOK, Control, Locked, HotIsOwn, Trusting, SameControl
<1>2. ConnInv(d)'
  <2>1. Image' = Image
    BY ImageStays DEF dbVars
  <2>2. (Clean(d)' <=> Clean(d)) /\ (Journaling(d)' <=> Journaling(d))
    BY DEF Clean, Journaling, SameControl
  <2>3. /\ eState'[d] = eState[d] /\ job'[d] = job[d] /\ step'[d] = step[d]
        /\ dirty'[d] = dirty[d] /\ dbFileVers'[d] = dbFileVers[d] /\ synced'[d] = synced[d]
        /\ db' = db /\ journal' = journal /\ journalDisk' = journalDisk
        /\ ConnInv(d)
    BY DEF ConnOK, SameControl, SameData, dbVars
  <2>4. Journaling(d) =>
       /\ Originals(d)'
       /\ WriteAhead(d)'
       /\ (IF eState[d] = "WRITER_CACHEMOD" THEN Unwritten(d) ELSE synced[d] <= journalDisk.nRec)'
       /\ (eState[d] = "WRITER_CACHEMOD" /\ job[d] \in {"none", "commit", "spill"} => Uncounted(d))'
       /\ (job[d] \in {"none", "spill"} => dbFileVers[d] = Version(Image))'
       /\ (job[d] = "commit" => NewVersion(d))'
       /\ (job[d] \in {"none", "commit", "spill"} => Transaction(d))'
       /\ (job[d] = "failed" => Changed(d))'
       /\ (job[d] = "rollback" => RolledBack(d))'
    BY <2>1, <2>3, DataStays DEF ConnInv, Version, Uncounted
  <2>5. /\ (eState[d] = "OPEN" => Outdated(d))'
        /\ (Clean(d) => UpToDate(d))'
        /\ (step[d] \in {"write header", "sync header"} => RecordsSynced)'
        /\ (step[d] \in {"write header", "sync header", "write"} => ghosts = {})'
        /\ (step[d] = "sync header" => journal.nRec = Len(journal.records))'
        /\ (job[d] = "commit" /\ step[d] \in JournalStep => 1 \in dirty[d])'
        /\ (job[d] = "commit" /\ step[d] = "write" => synced[d] = Len(journal.records))'
    BY <2>1, <2>2, <2>3, DataStays DEF ConnInv, JournalStep
  <2>6. /\ (step[d] = "sync file" \/ eState[d] = "WRITER_FINISHED" => dirty[d] = {})'
        /\ (job[d] = "spill" => Spilling(d))'
        /\ (job[d] = "spill" /\ step[d] = "write" => SpillIsSaved(d))'
        /\ (step[d] = "replay" => Replaying(d))'
        /\ (step[d] = "unlink" => FileSynced)'
        /\ (step[d] = "unlink" /\ job[d] # "commit" => db = Image)'
    BY <2>1, <2>2, <2>3, DataStays DEF ConnInv
  <2> QED BY <2>2, <2>4, <2>5, <2>6 DEF ConnInv
<1> QED BY <1>1, <1>2 DEF ConnOK

(* One that is not in a transaction, or reads, while another one writes to    *)
(* its journal.                                                               *)
Calm(d) == /\ eState[d] \in {"OPEN", "READER", "ERROR"}
           /\ step[d] \in {"idle"} \cup (OpenStep \ {"play"})

(* A connection that neither writes nor recovers is not disturbed by a step   *)
(* of another one that keeps the image and makes no journal hot.              *)
LEMMA CalmForOthers ==
  ASSUME NEW d \in Conn, ConnOK(d), SameData(d), SameControl(d), Calm(d),
         UNCHANGED dbVars, Image' = Image, IsHot(journal') => IsHot(journal)
  PROVE  ConnOK(d)'
<1>1. Control(d)' /\ Locked(d)' /\ HotIsOwn(d)'
  BY DEF ConnOK, Control, Locked, HotIsOwn, Trusting, SameControl
<1>2. eState'[d] \in {"OPEN", "READER", "ERROR"} /\ step'[d] \in {"idle"} \cup (OpenStep \ {"play"})
  BY DEF Calm, SameControl
<1>3. job'[d] \in {"none", "open"}
  BY <1>1, <1>2 DEF Control, Modifying
<1>4. Outdated(d)' <=> Outdated(d)
  BY DEF Outdated, Caches, CacheIsOf, SameData, Version
<1>5. UpToDate(d)' <=> UpToDate(d)
  BY DEF UpToDate, Caches, CacheIsOf, HasSize, SameData, Version, dbVars
<1>6. (Clean(d)' <=> Clean(d)) /\ ~Journaling(d)'
  BY <1>2, <1>3 DEF Clean, Journaling, SameControl, Modifying, OpenStep
<1>7. ConnInv(d)'
  BY <1>2, <1>3, <1>4, <1>5, <1>6 DEF ConnOK, ConnInv, SameControl, OpenStep
<1> QED BY <1>1, <1>7 DEF ConnOK

(* One that is closed while another one has the file to itself.               *)
Closed(d) == eState[d] = "OPEN" /\ job[d] = "none" /\ step[d] = "idle"

LEMMA ClosedForOthers ==
  ASSUME NEW d \in Conn, ConnOK(d), SameData(d), SameControl(d), Closed(d),
         dbFileVers[d] \in Nat, Version(Image) \in Nat, Version(Image') \in Nat,
         Image' = Image \/ Version(Image') > Version(Image)
  PROVE  ConnOK(d)'
<1>1. eState'[d] = "OPEN" /\ job'[d] = "none" /\ step'[d] = "idle"
  BY DEF Closed, SameControl
<1>2. Control(d)' /\ Locked(d)' /\ HotIsOwn(d)'
  BY <1>1 DEF ConnOK, Control, Locked, HotIsOwn, Trusting, SameControl, Writer, Modifying
<1>3. Outdated(d)
  BY DEF ConnOK, ConnInv, Closed
<1>4. Outdated(d)'
  <2>1. CASE Image' = Image
    BY <1>3, <2>1 DEF Outdated, Caches, CacheIsOf, SameData, Version
  <2>2. CASE Version(Image') > Version(Image)
    <3>1. Caches(d)' <=> Caches(d)
      BY DEF Caches, SameData
    <3>2. Caches(d) => dbFileVers[d] <= Version(Image)
      BY <1>3 DEF Outdated
    <3>3. Caches(d) => dbFileVers[d] < Version(Image')
      BY <2>2, <3>2
    <3>4. dirty'[d] = {} /\ dbFileVers'[d] = dbFileVers[d] /\ Version(Image)' = Version(Image')
      BY <1>3 DEF Outdated, SameData, Version
    <3>5. ~(dbFileVers[d] < Version(Image') /\ dbFileVers[d] = Version(Image'))
      OBVIOUS
    <3> QED BY <3>1, <3>3, <3>4, <3>5 DEF Outdated
  <2> QED BY <2>1, <2>2
<1>5. ConnInv(d)'
  BY <1>1, <1>4 DEF ConnInv, Clean, Journaling, Modifying
<1> QED BY <1>2, <1>5 DEF ConnOK

(* The lock calls of a connection leave the bytes of other processes alone.   *)
LEMMA OthersKeepTheirBytes ==
  ASSUME LocksTypeOK, Separate, UNCHANGED processOf, NEW c \in Conn,
         \/ LockShared(c) \/ LockReserved(c) \/ ReservedBusy(c)
         \/ LockExclusive(c) \/ ExclusiveBusy(c)
         \/ UnlockToShared(c) \/ Unlock(c) \/ CloseFile(c) \/ UNCHANGED lockVars
  PROVE  \A d \in Conn \ {c} : Reserved(d)' <=> Reserved(d)
<1> SUFFICES ASSUME NEW d \in Conn \ {c}
             PROVE  reservedByte'[processOf[d]] = reservedByte[processOf[d]]
  BY DEF Reserved
<1>1. processOf[c] \in Process /\ processOf[d] \in Process /\ processOf[d] # processOf[c]
  BY DEF LocksTypeOK, Separate
<1>2. CASE LockReserved(c)
  BY <1>1, <1>2 DEF LockReserved, LocksTypeOK
<1>3. CASE UnlockToShared(c)
  BY <1>1, <1>3 DEF UnlockToShared, LocksTypeOK, lockVars
<1>4. CASE Unlock(c)
  BY <1>1, <1>4 DEF Unlock, LocksTypeOK, lockVars
<1>5. CASE CloseFile(c)
  BY <1>1, <1>5 DEF CloseFile, LocksTypeOK, lockVars
<1>6. CASE LockShared(c) \/ ReservedBusy(c) \/ LockExclusive(c) \/ ExclusiveBusy(c) \/ UNCHANGED lockVars
  BY <1>6 DEF LockShared, AlreadyHeld, JoinShared, FirstShared, ReservedBusy, LockExclusive,
              ExclusiveBusy, StayPending, lockVars
<1> QED BY <1>2, <1>3, <1>4, <1>5, <1>6

(* Which lock calls the steps of a connection make.                           *)
LEMMA CallsOfOne ==
  ASSUME NEW c \in Conn, Reading(c) \/ Opening(c) \/ Writing(c) \/ Ending(c) \/ Fail(c)
  PROVE  \/ LockShared(c) \/ LockReserved(c) \/ ReservedBusy(c)
         \/ LockExclusive(c) \/ ExclusiveBusy(c)
         \/ UnlockToShared(c) \/ Unlock(c) \/ CloseFile(c) \/ UNCHANGED lockVars
<1>1. CASE Reading(c)
  BY <1>1 DEF Reading, EndRead, EndError, Close, ReadPage, Recycle
<1>2. CASE Opening(c)
  BY <1>2 DEF Opening, SharedLock, CheckExists, CheckReserved, CheckHeader, LockObsolete,
              LockHot, PlayHot, Validate, GiveUp
<1>3. CASE Writing(c)
  BY <1>3 DEF Writing, Begin, EndUnmodified, Commit, WritePage, Spill, LockDb, SyncRecords,
              WriteHeader, SyncHeader, WriteDb, WriteSpilled, SyncDb
<1>4. CASE Ending(c)
  BY <1>4 DEF Ending, Rollback, Replay, Unlink, Lower
<1>5. CASE Fail(c)
  BY <1>5 DEF Fail
<1> QED BY <1>1, <1>2, <1>3, <1>4, <1>5

(* A step of one connection leaves the place and the locks of the others      *)
(* alone.                                                                     *)
LEMMA OthersSameControl ==
  ASSUME PagerInv, Separate, UNCHANGED processOf, NEW c \in Conn,
         Reading(c) \/ Opening(c) \/ Writing(c) \/ Ending(c) \/ Fail(c)
  PROVE  \A d \in Conn \ {c} : SameControl(d)
<1>1. \A d \in Conn \ {c} : (Reserved(d)' <=> Reserved(d)) /\ eFileLock'[d] = eFileLock[d]
  BY CallsOfOne, OthersKeepTheirBytes, OthersKeepTheirLevels DEF PagerInv, LocksInv
<1>2. \A d \in Conn \ {c} : eState'[d] = eState[d] /\ job'[d] = job[d] /\ step'[d] = step[d]
  <2> USE DEF PagerInv, PagerTypeOK, Return, Goto, callVars
  <2>1. CASE Reading(c)
    BY <2>1 DEF Reading, EndRead, EndError, Close, ReadPage, Recycle
  <2>2. CASE Opening(c)
    BY <2>2 DEF Opening, SharedLock, CheckExists, CheckReserved, CheckHeader, LockObsolete,
                LockHot, PlayHot, Validate, GiveUp
  <2>3. CASE Writing(c)
    BY <2>3 DEF Writing, Begin, EndUnmodified, Commit, WritePage, Spill, LockDb, SyncRecords,
                WriteHeader, SyncHeader, WriteDb, WriteSpilled, SyncDb
  <2>4. CASE Ending(c)
    BY <2>4 DEF Ending, Rollback, Replay, Unlink, Lower
  <2>5. CASE Fail(c)
    BY <2>5 DEF Fail
  <2> QED BY <2>1, <2>2, <2>3, <2>4, <2>5
<1> QED BY <1>1, <1>2 DEF SameControl

(* A step of one connection leaves the cache of the others alone.             *)
LEMMA OthersSameData ==
  ASSUME StoreTypeOK, NEW c \in Conn,
         Reading(c) \/ Opening(c) \/ Writing(c) \/ Ending(c) \/ Fail(c)
  PROVE  \A d \in Conn \ {c} : SameData(d)
<1> USE DEF StoreTypeOK, cacheVars, txVars, ResetCache, ForgetTx, SameData
<1>1. CASE Reading(c)
  BY <1>1 DEF Reading, EndRead, EndError, Close, ReadPage, Recycle
<1>2. CASE Opening(c)
  BY <1>2 DEF Opening, SharedLock, CheckExists, CheckReserved, CheckHeader, LockObsolete,
              LockHot, PlayHot, Validate, GiveUp
<1>3. CASE Writing(c)
  BY <1>3 DEF Writing, Begin, EndUnmodified, Commit, WritePage, Write, Spill, LockDb, SyncRecords,
              WriteHeader, SyncHeader, WriteDb, WriteSpilled, SyncDb
<1>4. CASE Ending(c)
  BY <1>4 DEF Ending, Rollback, Replay, Unlink, Lower
<1>5. CASE Fail(c)
  BY <1>5 DEF Fail
<1> QED BY <1>1, <1>2, <1>3, <1>4, <1>5

(* The parts of the invariant for one connection.                             *)
LEMMA StoreFacts ==
  ASSUME StoreInv, NEW c \in Conn
  PROVE  /\ LocksInv /\ LocksTypeOK /\ PagerTypeOK /\ HoldsExclusive /\ LocksExclude
         /\ Control(c) /\ Locked(c) /\ HotIsOwn(c) /\ ConnInv(c)
         /\ eState[c] \in State /\ job[c] \in Job /\ step[c] \in Step /\ eFileLock[c] \in Level
BY LocksInvExcludes DEF StoreInv, PagerInv, ConnOK, PagerTypeOK, LocksInv, LocksTypeOK

(* While one connection has the file to itself the others are closed; while   *)
(* one has a RESERVED lock they do not write.                                 *)
LEMMA OthersClosed ==
  ASSUME StoreInv, NEW c \in Conn, eFileLock[c] = EXCLUSIVE_LOCK, NEW d \in Conn \ {c}
  PROVE  Closed(d) /\ eFileLock[d] = NO_LOCK
<1>1. eFileLock[d] = NO_LOCK
  BY StoreFacts DEF LocksExclude
<1>2. eState[d] = "OPEN" /\ job[d] = "none"
  BY <1>1, StoreFacts DEF Locked
<1>3. step[d] = "idle"
  BY <1>2, StoreFacts DEF Control
<1> QED BY <1>1, <1>2, <1>3 DEF Closed

(* Beside a connection that may write, the others at most read.               *)
LEMMA OthersCalm ==
  ASSUME StoreInv, NEW c \in Conn, eState[c] \in Writer, NEW d \in Conn \ {c}
  PROVE  Calm(d)
<1>1. eFileLock[c] >= RESERVED_LOCK /\ reservedByte[processOf[c]] = "write"
  BY StoreFacts DEF Locked, Reserved
<1>2. processOf[c] \in Process /\ processOf[d] \in Process /\ processOf[d] # processOf[c]
  BY StoreFacts DEF StoreInv, Separate, LocksTypeOK
<1>3. reservedByte[processOf[d]] = "none"
  BY <1>1, <1>2, StoreFacts DEF LocksInv, Exclusive
<1>4. eState[d] \in {"OPEN", "READER", "ERROR"}
  BY <1>3, StoreFacts DEF Locked, Reserved, State
<1>5. job[d] \in {"none", "open"}
  BY <1>4, StoreFacts DEF Control, Modifying, Job
<1>6. eFileLock[d] # EXCLUSIVE_LOCK
  BY <1>1, StoreFacts DEF LocksExclude, NO_LOCK, RESERVED_LOCK
<1>7. step[d] \notin {"play", "replay", "unlink", "lower"}
  BY <1>5, <1>6, StoreFacts DEF HoldsExclusive, AloneStep, Locked, Control
<1>8. step[d] \in {"idle"} \cup OpenStep
  BY <1>5, <1>7, StoreFacts DEF Control
<1> QED BY <1>4, <1>7, <1>8 DEF Calm

(* Three ways of not disturbing the others.                                   *)
LEMMA OthersKeep ==
  ASSUME StoreInv, UNCHANGED processOf, NEW c \in Conn,
         Reading(c) \/ Opening(c) \/ Writing(c) \/ Ending(c) \/ Fail(c),
         \/ UNCHANGED <<dbVars, journal, journalDisk>> /\ ghosts' \in {ghosts, {}}
         \/ /\ eState[c] \in Writer
            /\ UNCHANGED dbVars /\ Image' = Image /\ (IsHot(journal') => IsHot(journal))
         \/ /\ eFileLock[c] = EXCLUSIVE_LOCK
            /\ Image' = Image \/ Version(Image') > Version(Image)
            /\ Version(Image) \in Nat /\ Version(Image') \in Nat
  PROVE  \A d \in Conn \ {c} : ConnOK(d)'
<1> SUFFICES ASSUME NEW d \in Conn \ {c} PROVE ConnOK(d)'
  OBVIOUS
<1>1. ConnOK(d) /\ SameControl(d) /\ SameData(d)
  BY OthersSameControl, OthersSameData DEF StoreInv
<1>2. CASE UNCHANGED <<dbVars, journal, journalDisk>> /\ ghosts' \in {ghosts, {}}
  BY <1>1, <1>2, QuietForOthers
<1>3. CASE /\ eState[c] \in Writer
           /\ UNCHANGED dbVars /\ Image' = Image /\ (IsHot(journal') => IsHot(journal))
  BY <1>1, <1>3, OthersCalm, CalmForOthers
<1>4. CASE /\ eFileLock[c] = EXCLUSIVE_LOCK
           /\ Image' = Image \/ Version(Image') > Version(Image)
           /\ Version(Image) \in Nat /\ Version(Image') \in Nat
  <2>1. Closed(d)
    BY <1>4, OthersClosed
  <2>2. dbFileVers[d] \in Nat
    BY DEF StoreInv, StoreTypeOK
  <2> QED BY <1>1, <1>4, <2>1, <2>2, ClosedForOthers
<1> QED BY <1>2, <1>3, <1>4

(* The file has a version.                                                    *)
LEMMA ImageVersion ==
  ASSUME StoreInv
  PROVE  /\ Image[1] \in Nat \X Nat
         /\ Version(Image) \in Nat
         /\ Image \in [Page -> Content]
<1>1. Image \in Images /\ db[1] # Absent /\ JournalOK(journal) /\ 1 \in Page
  BY PageIsInt DEF StoreInv, StoreTypeOK, FileHasPage, Durable
<1>2. Image[1] # Absent
  <2>1. CASE ~IsHot(journal)
    BY <1>1, <2>1, RecoveredCold DEF Image
  <2>2. CASE IsHot(journal)
    <3>1. journal.exists /\ journal.orig >= 1
      BY <1>1, <2>2, JournalFacts DEF JournalOK
    <3>2. CASE 1 \in Saved(journal, journal.nRec)
      <4>1. PICK i \in 1..journal.nRec : journal.records[i].page = 1
        BY <3>2 DEF Saved
      <4>2. i \in 1..Len(journal.records)
        BY <1>1, JournalFacts DEF JournalOK
      <4>3. journal.records[i].was # Absent
        BY <1>1, <4>1, <4>2 DEF JournalOK
      <4> QED BY <1>1, <2>2, <4>1, <4>3, RecoveredHot DEF Image
    <3>3. CASE 1 \notin Saved(journal, journal.nRec)
      BY <1>1, <2>2, <3>1, <3>3, RecoveredHot DEF Image
    <3> QED BY <3>2, <3>3
  <2> QED BY <2>1, <2>2
<1>3. Image[1] \in Nat \X Nat
  BY <1>1, <1>2 DEF Images
<1> QED BY <1>1, <1>3 DEF Version, Images, Content

-----------------------------------------------------------------------------
(* Where a step leaves its connection.                                        *)
LEMMA LandsOpen ==
  ASSUME NEW c \in Conn, eState'[c] = "OPEN", job'[c] = "none", step'[c] = "idle",
         eFileLock'[c] = NO_LOCK, ~Reserved(c)', Outdated(c)'
  PROVE  ConnOK(c)'
<1>1. Control(c)'
  BY DEF Control, Modifying, OpenStep
<1>2. Locked(c)'
  BY DEF Locked, Writer
<1>3. HotIsOwn(c)'
  BY DEF HotIsOwn, Trusting, Writer
<1>4. ConnInv(c)'
  BY DEF ConnInv, Clean, Journaling, Modifying
<1> QED BY <1>1, <1>2, <1>3, <1>4 DEF ConnOK

(* What a connection needs to be in order at each place that a step may lead  *)
(* to.                                                                        *)
LEMMA LandsReader ==
  ASSUME NEW c \in Conn, eState'[c] = "READER", job'[c] = "none", step'[c] = "idle",
         eFileLock'[c] # NO_LOCK, ~Reserved(c)', UpToDate(c)', ~IsHot(journal')
  PROVE  ConnOK(c)'
<1>1. Control(c)'
  BY DEF Control, Modifying, OpenStep
<1>2. Locked(c)'
  BY DEF Locked, Writer
<1>3. HotIsOwn(c)'
  BY DEF HotIsOwn
<1>4. ConnInv(c)'
  BY DEF ConnInv, Clean, Journaling, Modifying
<1> QED BY <1>1, <1>2, <1>3, <1>4 DEF ConnOK

LEMMA LandsLocked ==
  ASSUME NEW c \in Conn, eState'[c] = "WRITER_LOCKED", job'[c] = "none", step'[c] = "idle",
         eFileLock'[c] \in Level, eFileLock'[c] >= RESERVED_LOCK, Reserved(c)', UpToDate(c)',
         ~IsHot(journal')
  PROVE  ConnOK(c)'
<1>1. Control(c)'
  BY DEF Control, Modifying, OpenStep
<1>2. Locked(c)'
  BY DEF Locked, Writer, NO_LOCK, RESERVED_LOCK
<1>3. HotIsOwn(c)'
  BY DEF HotIsOwn
<1>4. ConnInv(c)'
  BY DEF ConnInv, Clean, Journaling, Modifying
<1> QED BY <1>1, <1>2, <1>3, <1>4 DEF ConnOK

LEMMA LandsError ==
  ASSUME NEW c \in Conn, eState'[c] = "ERROR", job'[c] = "none", step'[c] = "idle",
         eFileLock'[c] # NO_LOCK, Reserved(c)' => eFileLock'[c] = EXCLUSIVE_LOCK
  PROVE  ConnOK(c)'
<1>1. Control(c)'
  BY DEF Control, Modifying, OpenStep
<1>2. Locked(c)'
  BY DEF Locked, Writer
<1>3. HotIsOwn(c)'
  BY DEF HotIsOwn, Trusting, Writer
<1>4. ConnInv(c)'
  BY DEF ConnInv, Clean, Journaling, Modifying
<1> QED BY <1>1, <1>2, <1>3, <1>4 DEF ConnOK

LEMMA LandsOpening ==
  ASSUME NEW c \in Conn, eState'[c] = "OPEN", job'[c] = "open",
         step'[c] \in OpenStep \ {"obsolete", "delete"},
         eFileLock'[c] # NO_LOCK, ~Reserved(c)', Outdated(c)',
         step'[c] = "validate" => ~IsHot(journal'),
         step'[c] \in {"exists", "reserved", "header"} => eFileLock'[c] = SHARED_LOCK
  PROVE  ConnOK(c)'
<1>1. Control(c)'
  BY DEF Control, Modifying, OpenStep
<1>2. Locked(c)'
  BY DEF Locked, Writer, OpenStep
<1>3. HotIsOwn(c)'
  BY DEF HotIsOwn, Trusting, Writer, OpenStep
<1>4. ConnInv(c)'
  BY DEF ConnInv, Clean, Journaling, Modifying, OpenStep
<1> QED BY <1>1, <1>2, <1>3, <1>4 DEF ConnOK

(* Files that a step leaves alone stay in order.                              *)
LEMMA FilesStay ==
  ASSUME Durable, GhostsUndo, UNCHANGED <<dbVars, journalVars, before>>
  PROVE  Durable' /\ GhostsUndo'
<1>1. Image' = Image /\ db' = db /\ dbDisk' = dbDisk
  BY ImageStays DEF dbVars, journalVars
<1>2. \A p : Protected(p)' <=> Protected(p)
  BY DEF Protected, journalVars, Saved
<1>3. Durable'
  BY <1>1, <1>2 DEF Durable, journalVars, JournalOK
<1>4. GhostsUndo'
  BY <1>1 DEF GhostsUndo, journalVars, JournalOK
<1> QED BY <1>3, <1>4

(* Only a connection with a RESERVED lock or a higher one has the byte.       *)
LEMMA ByteNeedsLock ==
  LocksInv /\ Separate => \A c \in Conn : Reserved(c) => eFileLock[c] >= RESERVED_LOCK
<1> USE DEF NO_LOCK, SHARED_LOCK, RESERVED_LOCK, PENDING_LOCK, EXCLUSIVE_LOCK, Level
<1> SUFFICES ASSUME LocksInv, Separate, NEW c \in Conn, Reserved(c) PROVE eFileLock[c] >= 2
  OBVIOUS
<1>1. processOf[c] \in Process /\ inodeLock[processOf[c]] \in 0..4
  BY DEF LocksInv, LocksTypeOK
<1>2. inodeLock[processOf[c]] >= 2
  BY <1>1 DEF LocksInv, Bytes, Reserved
<1>3. PICK d \in Held(processOf[c]) : eFileLock[d] = inodeLock[processOf[c]]
  BY <1>1, <1>2 DEF LocksInv, Highest
<1>4. d = c
  BY DEF Held, Separate
<1> QED BY <1>2, <1>3, <1>4

(* The same after a step.                                                     *)
LEMMA ByteNeedsLockNext ==
  (LocksInv /\ Separate => \A c \in Conn : Reserved(c) => eFileLock[c] >= RESERVED_LOCK)'
BY ByteNeedsLock, PTL

(* What the lock calls do to the level of their connection.                   *)
LEMMA LockEffects ==
  ASSUME LocksTypeOK, NEW c \in Conn
  PROVE  /\ LockShared(c) => eFileLock'[c] # NO_LOCK
         /\ LockReserved(c) => eFileLock'[c] = RESERVED_LOCK
         /\ LockExclusive(c) => eFileLock'[c] = EXCLUSIVE_LOCK
         /\ ExclusiveBusy(c) => /\ eFileLock[c] # NO_LOCK
                                /\ eFileLock'[c] \in {eFileLock[c], PENDING_LOCK}
         /\ UnlockToShared(c) => eFileLock'[c] \in {eFileLock[c], SHARED_LOCK} \cap {NO_LOCK, SHARED_LOCK}
         /\ Unlock(c) => eFileLock'[c] = NO_LOCK
         /\ CloseFile(c) => eFileLock'[c] = eFileLock[c]
<1> USE DEF NO_LOCK, SHARED_LOCK, RESERVED_LOCK, PENDING_LOCK, EXCLUSIVE_LOCK, Level,
            LocksTypeOK, SetLevel, lockVars
<1>1. LockShared(c) => eFileLock'[c] # NO_LOCK
  BY DEF LockShared, AlreadyHeld, JoinShared, FirstShared
<1>2. LockReserved(c) => eFileLock'[c] = RESERVED_LOCK
  BY DEF LockReserved
<1>3. LockExclusive(c) => eFileLock'[c] = EXCLUSIVE_LOCK
  BY ExclusiveIsGot
<1>4. ExclusiveBusy(c) => /\ eFileLock[c] # NO_LOCK
                          /\ eFileLock'[c] \in {eFileLock[c], PENDING_LOCK}
  BY DEF ExclusiveBusy, StayPending, GetPending
<1>5. UnlockToShared(c) => eFileLock'[c] \in {eFileLock[c], SHARED_LOCK} \cap {NO_LOCK, SHARED_LOCK}
  <2>1. eFileLock[c] \in 0..4 /\ (eFileLock[c] <= 1 => eFileLock[c] \in {0, 1})
    OBVIOUS
  <2>2. UnlockToShared(c) => eFileLock'[c] = IF eFileLock[c] <= 1 THEN eFileLock[c] ELSE 1
    BY DEF UnlockToShared
  <2> QED BY <2>1, <2>2
<1>6. Unlock(c) => eFileLock'[c] = NO_LOCK
  BY DEF Unlock
<1>7. CloseFile(c) => eFileLock'[c] = eFileLock[c]
  BY DEF CloseFile
<1> QED BY <1>1, <1>2, <1>3, <1>4, <1>5, <1>6, <1>7

(* And to its byte.                                                           *)
LEMMA ByteEffects ==
  ASSUME LocksTypeOK, NEW c \in Conn, UNCHANGED processOf
  PROVE  /\ LockReserved(c) => Reserved(c)'
         /\ LockShared(c) \/ LockExclusive(c) \/ ExclusiveBusy(c) => (Reserved(c)' <=> Reserved(c))
         /\ UnlockToShared(c) /\ eFileLock[c] > SHARED_LOCK => ~Reserved(c)'
         /\ Unlock(c) /\ eFileLock[c] > SHARED_LOCK => ~Reserved(c)'
<1> USE DEF NO_LOCK, SHARED_LOCK, RESERVED_LOCK, PENDING_LOCK, EXCLUSIVE_LOCK, Level,
            LocksTypeOK, SetLevel, lockVars, Reserved
<1>1. LockReserved(c) => Reserved(c)'
  BY DEF LockReserved
<1>2. LockShared(c) \/ LockExclusive(c) \/ ExclusiveBusy(c) => (Reserved(c)' <=> Reserved(c))
  BY DEF LockShared, AlreadyHeld, JoinShared, FirstShared, LockExclusive, ExclusiveBusy, StayPending
<1>3. UnlockToShared(c) /\ eFileLock[c] > SHARED_LOCK => ~Reserved(c)'
  BY DEF UnlockToShared
<1>4. Unlock(c) /\ eFileLock[c] > SHARED_LOCK => ~Reserved(c)'
  BY DEF Unlock
<1> QED BY <1>1, <1>2, <1>3, <1>4

(* What the former theorems give of a step of one connection.                 *)
LEMMA StepKeepsLocks ==
  ASSUME StoreInv, UNCHANGED processOf, NEW c \in Conn,
         Reading(c) \/ Opening(c) \/ Writing(c) \/ Ending(c) \/ Fail(c)
  PROVE  /\ PagerInv' /\ LocksInv' /\ Separate' /\ eFileLock'[c] \in Level
         /\ eState'[c] \in State /\ job'[c] \in Job /\ step'[c] \in Step
         /\ eFileLock'[c] \in {NO_LOCK, SHARED_LOCK} => ~Reserved(c)'
<1>1. Next
  BY DEF Next
<1>2. PagerInv' /\ LocksInv' /\ LocksTypeOK' /\ PagerTypeOK'
  BY <1>1, PagerInvStep DEF StoreInv, PagerInv, LocksInv
<1>3. Separate'
  BY DEF StoreInv, Separate
<1>4. eFileLock'[c] \in Level /\ eState'[c] \in State /\ job'[c] \in Job /\ step'[c] \in Step
  BY <1>2 DEF LocksTypeOK, PagerTypeOK
<1>5. Reserved(c)' => eFileLock'[c] >= RESERVED_LOCK
  BY <1>2, <1>3, ByteNeedsLockNext DEF RESERVED_LOCK
<1> QED BY <1>2, <1>3, <1>4, <1>5 DEF NO_LOCK, SHARED_LOCK, RESERVED_LOCK

(* Steps that leave the files and the caches alone.                           *)
LEMMA ControlStep ==
  ASSUME StoreInv, UNCHANGED processOf, NEW c \in Conn,
         Reading(c) \/ Opening(c) \/ Writing(c) \/ Ending(c) \/ Fail(c),
         UNCHANGED <<dbVars, journalVars, cacheVars, before>>,
         synced' \in [Conn -> Nat], todo' \in [Conn -> Seq(Record) \cup Seq(Page)],
         tx' \in [Conn -> Nat], txs' \in Nat, ConnOK(c)'
  PROVE  StoreInv' /\ Image' = Image
<1>1. PagerInv' /\ Separate'
  BY StepKeepsLocks
<1>2. Image' = Image
  BY ImageStays DEF dbVars, journalVars
<1>3. StoreTypeOK'
  BY <1>2 DEF StoreInv, StoreTypeOK, dbVars, cacheVars
<1>4. FileHasPage'
  BY DEF StoreInv, FileHasPage, dbVars, cacheVars
<1>5. Durable' /\ GhostsUndo'
  BY FilesStay DEF StoreInv
<1>6. \A d \in Conn \ {c} : ConnOK(d)'
  BY OthersKeep DEF journalVars, dbVars
<1> QED BY <1>1, <1>2, <1>3, <1>4, <1>5, <1>6 DEF StoreInv

(* A step that lands where no data are at stake.                              *)
LEMMA OutdatedStays ==
  ASSUME NEW c \in Conn, Outdated(c), UNCHANGED <<db, journal>>,
         cache'[c] = cache[c], dirty'[c] = dirty[c], dbFileVers'[c] = dbFileVers[c]
  PROVE  Outdated(c)'
<1>1. Image' = Image
  BY ImageStays
<1> QED BY <1>1 DEF Outdated, Caches, CacheIsOf, Version

(* A cache stays up to date while nobody touches it and the file.             *)
LEMMA UpToDateStays ==
  ASSUME NEW c \in Conn, UpToDate(c), UNCHANGED db, cache'[c] = cache[c],
         dirty'[c] = dirty[c], dbFileVers'[c] = dbFileVers[c], dbSize'[c] = dbSize[c]
  PROVE  UpToDate(c)'
BY DEF UpToDate, Caches, CacheIsOf, HasSize, Version

(* An empty cache caches no wrong page.                                       *)
LEMMA EmptyIsOutdated ==
  ASSUME NEW c \in Conn, cache'[c] = [p \in Page |-> NotCached], dirty'[c] = {}
  PROVE  Outdated(c)'
BY DEF Outdated, Caches

(* Without a hot journal the file is what is read.                            *)
LEMMA ColdImage ==
  ASSUME ~IsHot(journal)
  PROVE  Image = db
BY RecoveredCold DEF Image

(* What is up to date meets the weaker condition for closed connections.      *)
LEMMA UpToDateIsOutdated ==
  ASSUME StoreInv, NEW c \in Conn, UpToDate(c), ~IsHot(journal)
  PROVE  Outdated(c)
BY ColdImage, ImageVersion DEF UpToDate, Outdated

(* sqlite3PagerSharedLock, step by step: a recovery aside, it changes no      *)
(* file.                                                                      *)
LEMMA SharedLockKeepsStore ==
  ASSUME StoreInv, UNCHANGED processOf, NEW c \in Conn, SharedLock(c)
  PROVE  StoreInv' /\ Image' = Image
<1>1. eState[c] = "OPEN" /\ job[c] = "none" /\ step[c] = "idle" /\ eFileLock[c] = NO_LOCK
  BY StoreFacts DEF SharedLock, Idle, Locked
<1>2. step'[c] = "exists" /\ job'[c] = "open" /\ eState'[c] = "OPEN"
  BY <1>1, StoreFacts DEF SharedLock, Goto, PagerTypeOK
<1>3. eFileLock'[c] = SHARED_LOCK
  BY <1>1, StoreFacts DEF SharedLock, LockShared, AlreadyHeld, JoinShared, FirstShared, SetLevel,
                          LocksTypeOK, NO_LOCK, SHARED_LOCK
<1>4. Opening(c)
  BY DEF Opening
<1>5. ~Reserved(c)'
  BY <1>3, <1>4, StepKeepsLocks
<1>6. UNCHANGED <<dbVars, journalVars, eState, cacheVars, txVars, faults, before>>
  BY DEF SharedLock
<1>7. Outdated(c)'
  BY <1>1, <1>6, OutdatedStays, StoreFacts DEF ConnInv, dbVars, journalVars, cacheVars
<1>8. /\ step'[c] \in OpenStep \ {"obsolete", "delete"} /\ step'[c] # "validate"
      /\ eFileLock'[c] # NO_LOCK
  BY <1>2, <1>3 DEF OpenStep, NO_LOCK, SHARED_LOCK
<1>9. ConnOK(c)'
  BY <1>2, <1>3, <1>5, <1>7, <1>8, LandsOpening
<1> QED BY <1>4, <1>6, <1>9, ControlStep DEF StoreInv, StoreTypeOK, txVars

(* The steps of an opening that only decide where to go.                      *)
LEMMA OpeningGoes ==
  ASSUME StoreInv, UNCHANGED processOf, NEW c \in Conn, Opening(c), job[c] = "open",
         NEW s \in OpenStep \ {"obsolete", "delete"}, Goto(c, s),
         UNCHANGED <<dbVars, journalVars, eState, job, cacheVars, txVars, faults, before>>,
         eFileLock'[c] # NO_LOCK, ~Reserved(c)',
         s = "validate" => ~IsHot(journal),
         s \in {"exists", "reserved", "header"} => eFileLock'[c] = SHARED_LOCK
  PROVE  StoreInv' /\ Image' = Image
<1>1. eState[c] = "OPEN" /\ Outdated(c)
  BY StoreFacts DEF HoldsExclusive, ConnInv
<1>2. step'[c] = s /\ job'[c] = "open" /\ eState'[c] = "OPEN"
  BY <1>1, StoreFacts DEF Goto, PagerTypeOK
<1>3. Outdated(c)'
  BY <1>1, OutdatedStays DEF dbVars, journalVars, cacheVars
<1>4. journal' = journal
  BY DEF journalVars
<1>5. ConnOK(c)'
  BY <1>2, <1>3, <1>4, LandsOpening
<1> QED BY <1>5, ControlStep DEF StoreInv, StoreTypeOK, txVars

LEMMA CheckExistsKeepsStore ==
  ASSUME StoreInv, UNCHANGED processOf, NEW c \in Conn, CheckExists(c)
  PROVE  StoreInv' /\ Image' = Image
<1>1. job[c] = "open" /\ step[c] = "exists" /\ eFileLock[c] = SHARED_LOCK /\ eFileLock' = eFileLock
      /\ eState[c] = "OPEN"
  BY StoreFacts DEF CheckExists, At, Locked, lockVars, HoldsExclusive
<1>2. ~Reserved(c)'
  BY <1>1, StoreFacts DEF CheckExists, lockVars, Locked, Reserved, Writer
<1>3. ~journal.exists => ~IsHot(journal)
  BY JournalFacts DEF StoreInv, Durable
<1>4. Opening(c)
  BY DEF Opening
<1>5. SHARED_LOCK # NO_LOCK
  BY DEF NO_LOCK, SHARED_LOCK
<1>6. \E s \in {"reserved", "validate"} : Goto(c, s) /\ (s = "validate" => ~journal.exists)
  BY DEF CheckExists
<1>7. UNCHANGED <<dbVars, journalVars, eState, job, cacheVars, txVars, faults, before>>
  BY DEF CheckExists
<1> QED BY <1>1, <1>2, <1>3, <1>4, <1>5, <1>6, <1>7, OpeningGoes DEF OpenStep

LEMMA CheckHeaderKeepsStore ==
  ASSUME StoreInv, UNCHANGED processOf, NEW c \in Conn, CheckHeader(c)
  PROVE  StoreInv' /\ Image' = Image
<1>1. job[c] = "open" /\ step[c] = "header" /\ eFileLock[c] = SHARED_LOCK /\ eFileLock' = eFileLock
      /\ eState[c] = "OPEN"
  BY StoreFacts DEF CheckHeader, At, Locked, lockVars, HoldsExclusive
<1>2. ~Reserved(c)'
  BY <1>1, StoreFacts DEF CheckHeader, lockVars, Locked, Reserved, Writer
<1>4. Opening(c)
  BY DEF Opening
<1>5. SHARED_LOCK # NO_LOCK
  BY DEF NO_LOCK, SHARED_LOCK
<1>6. \E s \in {"recover", "validate"} : Goto(c, s) /\ (s = "validate" => ~IsHot(journal))
  BY DEF CheckHeader
<1>7. UNCHANGED <<dbVars, journalVars, eState, job, cacheVars, txVars, faults, before>>
  BY DEF CheckHeader
<1> QED BY <1>1, <1>2, <1>4, <1>5, <1>6, <1>7, OpeningGoes DEF OpenStep

(* A reserved byte that another process has belongs to a live writer, whose   *)
(* journal is not hot while others have a SHARED lock.                        *)
LEMMA LiveWriterIsNotHot ==
  ASSUME StoreInv, NEW c \in Conn, eFileLock[c] = SHARED_LOCK, CheckReservedLock(c)
  PROVE  ~IsHot(journal)
<1> USE DEF NO_LOCK, SHARED_LOCK, RESERVED_LOCK, PENDING_LOCK, EXCLUSIVE_LOCK, Level
<1>0. processOf[c] \in Process /\ inodeLock[processOf[c]] \in 0..4 /\ LocksInv
  BY StoreFacts DEF LocksTypeOK
<1>1. inodeLock[processOf[c]] = SHARED_LOCK
  <2>1. eFileLock[c] <= inodeLock[processOf[c]]
    BY <1>0 DEF LocksInv, Highest
  <2>2. PICK d \in Held(processOf[c]) : eFileLock[d] = inodeLock[processOf[c]]
    BY <1>0, <2>1 DEF LocksInv, Highest
  <2>3. d = c
    BY DEF Held, StoreInv, Separate
  <2> QED BY <2>2, <2>3
<1>2. PICK q \in Process \ {processOf[c]} : reservedByte[q] # "none"
  BY <1>1 DEF CheckReservedLock, CanWrite
<1>3. reservedByte[q] = "write" /\ inodeLock[q] \in 0..4
  BY <1>0, <1>2 DEF LocksInv, LocksTypeOK
<1>4. inodeLock[q] >= 2
  BY <1>0, <1>3 DEF LocksInv, Bytes
<1>5. PICK d \in Held(q) : eFileLock[d] = inodeLock[q]
  BY <1>0, <1>4 DEF LocksInv, Highest
<1>6. d \in Conn /\ d # c /\ Reserved(d)
  BY <1>2, <1>3, <1>5 DEF Held, Reserved
<1>7. eFileLock[d] # EXCLUSIVE_LOCK
  BY <1>6, StoreFacts DEF LocksExclude
<1>8. Trusting(d)
  BY <1>6, <1>7, StoreFacts DEF Locked, Trusting
<1> QED BY <1>6, <1>7, <1>8, StoreFacts DEF HotIsOwn

LEMMA CheckReservedKeepsStore ==
  ASSUME StoreInv, UNCHANGED processOf, NEW c \in Conn, CheckReserved(c)
  PROVE  StoreInv' /\ Image' = Image
<1>1. job[c] = "open" /\ step[c] = "reserved" /\ eFileLock[c] = SHARED_LOCK /\ eFileLock' = eFileLock
      /\ eState[c] = "OPEN"
  BY StoreFacts DEF CheckReserved, At, Locked, lockVars, HoldsExclusive
<1>2. ~Reserved(c)'
  BY <1>1, StoreFacts DEF CheckReserved, lockVars, Locked, Reserved, Writer
<1>3. Size(db) # 0
  <2>1. db \in [Page -> Content] /\ db[1] # Absent
    BY DEF StoreInv, StoreTypeOK, FileHasPage
  <2>2. Size(db) \in Page
    BY <2>1, SizeIs DEF HasSize
  <2> QED BY <2>2, PageIsInt
<1>4. Opening(c)
  BY DEF Opening
<1>5. SHARED_LOCK # NO_LOCK
  BY DEF NO_LOCK, SHARED_LOCK
<1>6. \E s \in {"header", "validate"} : Goto(c, s) /\ (s = "validate" => CheckReservedLock(c))
  BY <1>3 DEF CheckReserved
<1>7. UNCHANGED <<dbVars, journalVars, eState, job, cacheVars, txVars, faults, before>>
  BY DEF CheckReserved
<1> QED BY <1>1, <1>2, <1>4, <1>5, <1>6, <1>7, LiveWriterIsNotHot, OpeningGoes DEF OpenStep

LEMMA LockHotKeepsStore ==
  ASSUME StoreInv, UNCHANGED processOf, NEW c \in Conn, LockHot(c)
  PROVE  StoreInv' /\ Image' = Image
<1>1. job[c] = "open" /\ step[c] = "recover" /\ eState[c] = "OPEN" /\ ~Reserved(c)
  BY StoreFacts DEF LockHot, At, Locked, HoldsExclusive, Writer
<1>2. ~Reserved(c)'
  BY <1>1, StoreFacts, ByteEffects DEF LockHot
<1>4. Opening(c)
  BY DEF Opening
<1>5. eFileLock'[c] # NO_LOCK
  <2>1. LocksTypeOK /\ PENDING_LOCK # NO_LOCK /\ EXCLUSIVE_LOCK # NO_LOCK
    BY StoreFacts DEF NO_LOCK, PENDING_LOCK, EXCLUSIVE_LOCK
  <2>2. LockExclusive(c) \/ ExclusiveBusy(c)
    BY DEF LockHot
  <2> QED BY <2>1, <2>2, LockEffects
<1>6. \E s \in {"play", "give up"} : Goto(c, s)
  BY DEF LockHot
<1>7. UNCHANGED <<dbVars, journalVars, eState, job, cacheVars, txVars, faults, before>>
  BY DEF LockHot
<1> QED BY <1>1, <1>2, <1>4, <1>5, <1>6, <1>7, OpeningGoes DEF OpenStep

(* The step that deletes the journal of an empty file is not reached: the     *)
(* file is never empty.                                                       *)
LEMMA LockObsoleteDoesNotHappen ==
  ASSUME StoreInv, NEW c \in Conn
  PROVE  ~LockObsolete(c)
BY StoreFacts DEF LockObsolete, At, Control

(* Steps that leave the files alone.                                          *)
LEMMA CacheStep ==
  ASSUME StoreInv, UNCHANGED processOf, NEW c \in Conn,
         Reading(c) \/ Opening(c) \/ Writing(c) \/ Ending(c) \/ Fail(c),
         UNCHANGED <<dbVars, journalVars, before>>,
         cache' \in [Conn -> [Page -> Content \cup {NotCached}]], cache'[c][1] # Absent,
         dirty' \in [Conn -> SUBSET Page], dbFileVers' \in [Conn -> Nat],
         dbSize' \in [Conn -> 0..MaxPage],
         synced' \in [Conn -> Nat], todo' \in [Conn -> Seq(Record) \cup Seq(Page)],
         tx' \in [Conn -> Nat], txs' \in Nat, ConnOK(c)'
  PROVE  StoreInv' /\ Image' = Image
<1>1. PagerInv' /\ Separate'
  BY StepKeepsLocks
<1>2. Image' = Image
  BY ImageStays DEF dbVars, journalVars
<1>3. StoreTypeOK'
  BY <1>2 DEF StoreInv, StoreTypeOK, dbVars
<1>4. FileHasPage'
  <2>1. \A d \in Conn \ {c} : cache'[d] = cache[d]
    BY OthersSameData DEF StoreInv, SameData
  <2> QED BY <2>1 DEF StoreInv, FileHasPage, dbVars
<1>5. Durable' /\ GhostsUndo'
  BY FilesStay DEF StoreInv
<1>6. \A d \in Conn \ {c} : ConnOK(d)'
  BY OthersKeep DEF journalVars, dbVars
<1> QED BY <1>1, <1>2, <1>3, <1>4, <1>5, <1>6 DEF StoreInv

LEMMA ValidateKeepsStore ==
  ASSUME StoreInv, UNCHANGED processOf, NEW c \in Conn, Validate(c)
  PROVE  StoreInv' /\ Image' = Image
<1>1. /\ job[c] = "open" /\ step[c] = "validate" /\ eState[c] = "OPEN"
      /\ eFileLock[c] # NO_LOCK /\ ~Reserved(c)
      /\ UNCHANGED <<lockVars, dbVars, journalVars, dbFileVers, txVars, faults, before>>
  BY StoreFacts DEF Validate, At, Locked, HoldsExclusive, Writer
<1>2. ~IsHot(journal) /\ Image = db
  BY <1>1, StoreFacts, ColdImage DEF HotIsOwn, Trusting, Modifying
<1>3. Outdated(c)
  BY <1>1, StoreFacts DEF ConnInv
<1>4. db \in [Page -> Content] /\ HasSize(db, Size(db)) /\ db' = db /\ Size(db) \in Page
  BY <1>1, SizeIs DEF StoreInv, StoreTypeOK, FileHasPage, dbVars, HasSize
<1>5. step'[c] = "idle" /\ job'[c] = "none" /\ eState'[c] = "READER"
  BY StoreFacts DEF Validate, Return, PagerTypeOK
<1>6. Size(db) > 0
  BY <1>4, PageIsInt
<1>7. CASE dbFileVers[c] # Version(db)
  <2>1. ResetCache(c)
    BY <1>6, <1>7 DEF Validate
  <2>2. cache'[c] = [p \in Page |-> NotCached] /\ dirty'[c] = {} /\ dbSize'[c] = Size(db)
    BY <2>1 DEF ResetCache, Validate, StoreInv, StoreTypeOK
  <2>3. UpToDate(c)'
    BY <1>4, <2>2 DEF UpToDate, CacheIsOf, Caches, HasSize
  <2>4. ConnOK(c)'
    BY <1>1, <1>2, <1>5, <2>3, LandsReader DEF lockVars, journalVars, Reserved
  <2>5. /\ cache' \in [Conn -> [Page -> Content \cup {NotCached}]] /\ cache'[c][1] # Absent
        /\ dirty' \in [Conn -> SUBSET Page]
        /\ dbSize' \in [Conn -> 0..MaxPage]
    <3>1. cache' = [cache EXCEPT ![c] = [p \in Page |-> NotCached]] /\ dirty' = [dirty EXCEPT ![c] = {}]
      BY <2>1 DEF ResetCache
    <3>2. dbSize' = [dbSize EXCEPT ![c] = Size(db)] /\ Size(db) \in 0..MaxPage
      BY <1>4, PageIsInt DEF Validate, Page
    <3>3. NotCached # Absent /\ 1 \in Page
      BY PageIsInt DEF NotCached, Absent
    <3> QED BY <3>1, <3>2, <3>3 DEF StoreInv, StoreTypeOK
  <2>6. Opening(c)
    BY DEF Opening
  <2> QED BY <1>1, <2>4, <2>5, <2>6, CacheStep DEF StoreInv, StoreTypeOK, txVars
<1>8. CASE dbFileVers[c] = Version(db)
  <2>1. UNCHANGED <<cache, dirty>> /\ dbSize'[c] = Size(db)
    BY <1>6, <1>8 DEF Validate, StoreInv, StoreTypeOK
  <2>2. dirty[c] = {} /\ (Caches(c) => CacheIsOf(c, db))
    BY <1>2, <1>3, <1>8 DEF Outdated
  <2>3. CacheIsOf(c, db)
    BY <2>2 DEF Caches, CacheIsOf
  <2>4. UpToDate(c)'
    BY <1>1, <1>4, <1>8, <2>1, <2>2, <2>3 DEF UpToDate, CacheIsOf, HasSize, Version
  <2>5. ConnOK(c)'
    BY <1>1, <1>2, <1>5, <2>4, LandsReader DEF lockVars, journalVars, Reserved
  <2>6. dbSize' \in [Conn -> 0..MaxPage]
    <3>1. dbSize' = [dbSize EXCEPT ![c] = Size(db)] /\ Size(db) \in 0..MaxPage
      BY <1>4, PageIsInt DEF Validate, Page
    <3> QED BY <3>1 DEF StoreInv, StoreTypeOK
  <2>7. Opening(c)
    BY DEF Opening
  <2> QED BY <1>1, <2>1, <2>5, <2>6, <2>7, CacheStep DEF StoreInv, StoreTypeOK, FileHasPage, txVars
<1> QED BY <1>7, <1>8

LEMMA GiveUpKeepsStore ==
  ASSUME StoreInv, UNCHANGED processOf, NEW c \in Conn, GiveUp(c)
  PROVE  StoreInv' /\ Image' = Image
<1>1. job[c] = "open" /\ eState[c] = "OPEN" /\ Outdated(c)
  BY StoreFacts DEF GiveUp, At, HoldsExclusive, ConnInv
<1>2. step'[c] = "idle" /\ job'[c] = "none" /\ eState'[c] = "OPEN"
  BY StoreFacts DEF GiveUp, Return, PagerTypeOK
<1>3. Opening(c) /\ UNCHANGED <<dbVars, journalVars, cacheVars, txVars, faults, before>>
  BY DEF Opening, GiveUp
<1>4. eFileLock'[c] = NO_LOCK
  BY StoreFacts, LockEffects DEF GiveUp
<1>5. ~Reserved(c)'
  BY <1>3, <1>4, StepKeepsLocks
<1>6. Outdated(c)'
  BY <1>1, <1>3, OutdatedStays DEF dbVars, journalVars, cacheVars
<1>7. ConnOK(c)'
  BY <1>2, <1>4, <1>5, <1>6, LandsOpen
<1> QED BY <1>3, <1>7, ControlStep DEF StoreInv, StoreTypeOK, txVars

LEMMA EndReadKeepsStore ==
  ASSUME StoreInv, UNCHANGED processOf, NEW c \in Conn, EndRead(c)
  PROVE  StoreInv' /\ Image' = Image
<1>1. UpToDate(c) /\ ~IsHot(journal)
  BY StoreFacts DEF EndRead, ConnInv, Clean, HotIsOwn, Trusting, Modifying
<1>2. step'[c] = "idle" /\ job'[c] = "none" /\ eState'[c] = "OPEN"
  BY StoreFacts DEF EndRead, Return, PagerTypeOK
<1>3. Reading(c) /\ UNCHANGED <<dbVars, journalVars, cacheVars, txVars, faults, before>>
  BY DEF Reading, EndRead
<1>4. eFileLock'[c] = NO_LOCK
  BY StoreFacts, LockEffects DEF EndRead
<1>5. ~Reserved(c)'
  BY <1>3, <1>4, StepKeepsLocks
<1>6. Outdated(c)
  BY <1>1, UpToDateIsOutdated
<1>7. Outdated(c)'
  BY <1>3, <1>6, OutdatedStays DEF dbVars, journalVars, cacheVars
<1>8. ConnOK(c)'
  BY <1>2, <1>4, <1>5, <1>7, LandsOpen
<1> QED BY <1>3, <1>8, ControlStep DEF StoreInv, StoreTypeOK, txVars

(* An empty cache, and no transaction.                                        *)
LEMMA ResetIsTyped ==
  ASSUME StoreTypeOK, NEW c \in Conn, ResetCache(c)
  PROVE  /\ cache' \in [Conn -> [Page -> Content \cup {NotCached}]] /\ cache'[c][1] # Absent
         /\ dirty' \in [Conn -> SUBSET Page]
         /\ cache'[c] = [p \in Page |-> NotCached] /\ dirty'[c] = {}
<1>1. cache' = [cache EXCEPT ![c] = [p \in Page |-> NotCached]] /\ dirty' = [dirty EXCEPT ![c] = {}]
  BY DEF ResetCache
<1>2. NotCached # Absent /\ 1 \in Page
  BY PageIsInt DEF NotCached, Absent
<1> QED BY <1>1, <1>2 DEF StoreTypeOK

LEMMA ForgetIsTyped ==
  ASSUME StoreTypeOK, NEW c \in Conn, ForgetTx(c)
  PROVE  /\ synced' \in [Conn -> Nat] /\ todo' \in [Conn -> Seq(Record) \cup Seq(Page)]
         /\ tx' \in [Conn -> Nat] /\ txs' \in Nat
<1>1. <<>> \in Seq(Record)
  OBVIOUS
<1>2. /\ synced' = [synced EXCEPT ![c] = 0] /\ todo' = [todo EXCEPT ![c] = <<>>]
      /\ tx' = [tx EXCEPT ![c] = 0] /\ txs' = txs
  BY DEF ForgetTx
<1> QED BY <1>1, <1>2 DEF StoreTypeOK

LEMMA EndErrorKeepsStore ==
  ASSUME StoreInv, UNCHANGED processOf, NEW c \in Conn, EndError(c)
  PROVE  StoreInv' /\ Image' = Image
<1>2. step'[c] = "idle" /\ job'[c] = "none" /\ eState'[c] = "OPEN"
  BY StoreFacts DEF EndError, Return, PagerTypeOK
<1>3. Reading(c) /\ UNCHANGED <<dbVars, journalVars, dbFileVers, dbSize, faults, before>>
  BY DEF Reading, EndError
<1>4. eFileLock'[c] = NO_LOCK
  BY StoreFacts, LockEffects DEF EndError
<1>5. ~Reserved(c)'
  BY <1>3, <1>4, StepKeepsLocks
<1>6. ResetCache(c) /\ ForgetTx(c) /\ StoreTypeOK
  BY DEF EndError, StoreInv
<1>7. ConnOK(c)'
  BY <1>2, <1>4, <1>5, <1>6, LandsOpen, EmptyIsOutdated, ResetIsTyped
<1> QED BY <1>3, <1>6, <1>7, CacheStep, ResetIsTyped, ForgetIsTyped DEF StoreTypeOK

LEMMA CloseKeepsStore ==
  ASSUME StoreInv, UNCHANGED processOf, NEW c \in Conn, Close(c)
  PROVE  StoreInv' /\ Image' = Image
<1>2. step'[c] = "idle" /\ job'[c] = "none" /\ eState'[c] = "OPEN"
  BY StoreFacts DEF Close, Idle, callVars
<1>3. Reading(c) /\ UNCHANGED <<dbVars, journalVars, callVars, dbSize, txVars, faults, before>>
  BY DEF Reading, Close
<1>4. eFileLock'[c] = NO_LOCK
  BY StoreFacts, LockEffects DEF Close, Locked, Idle
<1>5. ~Reserved(c)'
  BY <1>3, <1>4, StepKeepsLocks
<1>6. ResetCache(c) /\ StoreTypeOK /\ dbFileVers' \in [Conn -> Nat]
  BY DEF Close, StoreInv, StoreTypeOK
<1>7. ConnOK(c)'
  BY <1>2, <1>4, <1>5, <1>6, LandsOpen, EmptyIsOutdated, ResetIsTyped
<1> QED BY <1>3, <1>6, <1>7, CacheStep, ResetIsTyped DEF StoreTypeOK, txVars

LEMMA RecycleKeepsStore ==
  ASSUME StoreInv, UNCHANGED processOf, NEW c \in Conn, NEW p \in Page, Recycle(c, p)
  PROVE  StoreInv' /\ Image' = Image
<1>1. /\ step[c] = "idle" /\ job[c] = "none" /\ eState[c] = "OPEN" /\ eFileLock[c] = NO_LOCK
      /\ Outdated(c) /\ ~Reserved(c)
  BY StoreFacts DEF Recycle, Idle, Locked, ConnInv, Writer
<1>2. /\ Reading(c)
      /\ UNCHANGED <<lockVars, dbVars, journalVars, callVars, dirty, dbFileVers, dbSize,
                     txVars, faults, before>>
  BY DEF Reading, Recycle
<1>3. /\ cache' \in [Conn -> [Page -> Content \cup {NotCached}]]
      /\ \A q \in Page : cache'[c][q] \in {cache[c][q], NotCached}
  BY DEF Recycle, StoreInv, StoreTypeOK
<1>4. NotCached # Absent /\ 1 \in Page
  BY PageIsInt DEF NotCached, Absent
<1>5. cache'[c][1] # Absent
  BY <1>3, <1>4 DEF StoreInv, FileHasPage
<1>6. Image' = Image
  BY <1>2, ImageStays DEF dbVars, journalVars
<1>7. Outdated(c)'
  <2>1. Caches(c)' => Caches(c)
    BY <1>3 DEF Caches
  <2>2. CacheIsOf(c, Image) => CacheIsOf(c, Image)'
    BY <1>3, <1>6 DEF CacheIsOf
  <2> QED BY <1>1, <1>2, <1>6, <2>1, <2>2 DEF Outdated, Version
<1>8. ConnOK(c)'
  BY <1>1, <1>2, <1>7, LandsOpen DEF lockVars, callVars, Reserved
<1> QED BY <1>2, <1>3, <1>5, <1>8, CacheStep DEF StoreInv, StoreTypeOK, txVars

LEMMA AboveNoLock == \A level \in Level : level >= RESERVED_LOCK => level # NO_LOCK
BY DEF Level, NO_LOCK, RESERVED_LOCK

(* A connection within a write transaction that has not begun to end.         *)
LEMMA LandsJournaling ==
  ASSUME NEW c \in Conn, eState'[c] \in Modifying,
         job'[c] \in {"none", "failed", "spill", "commit"},
         job'[c] \in {"none", "failed"} <=> step'[c] = "idle",
         step'[c] \in {"idle"} \cup CommitStep,
         job'[c] = "spill" => step'[c] # "sync file",
         step'[c] \in {"write", "sync file"} => eState'[c] = "WRITER_DBMOD",
         eFileLock'[c] \in Level, eFileLock'[c] >= RESERVED_LOCK, Reserved(c)',
         IsHot(journal') => eFileLock'[c] = EXCLUSIVE_LOCK,
         Originals(c)', WriteAhead(c)',
         eState'[c] = "WRITER_CACHEMOD" => Unwritten(c)',
         eState'[c] = "WRITER_CACHEMOD" /\ job'[c] # "failed" /\ step'[c] # "sync header"
           => ~IsHot(journal'),
         eState'[c] = "WRITER_DBMOD" => synced'[c] <= journalDisk'.nRec,
         job'[c] \in {"none", "spill"} => dbFileVers'[c] = Version(Image'),
         job'[c] = "commit" => NewVersion(c)',
         job'[c] # "failed" => Transaction(c)',
         job'[c] = "failed" => Changed(c)',
         step'[c] \in {"write header", "sync header"} => RecordsSynced',
         step'[c] \in {"write header", "sync header", "write"} => ghosts' = {},
         step'[c] = "sync header" => journal'.nRec = Len(journal'.records),
         job'[c] = "commit" /\ step'[c] \in JournalStep => 1 \in dirty'[c],
         job'[c] = "commit" /\ step'[c] = "write" => synced'[c] = Len(journal'.records),
         step'[c] = "sync file" => dirty'[c] = {},
         job'[c] = "spill" => Spilling(c)',
         job'[c] = "spill" /\ step'[c] = "write" => SpillIsSaved(c)'
  PROVE  ConnOK(c)'
<1>0. /\ step'[c] \notin {"validate", "lower", "unlink", "replay", "obsolete", "delete"}
      /\ step'[c] \notin {"exists", "reserved", "header"}
      /\ job'[c] \notin {"open", "rollback"}
      /\ eState'[c] \in {"WRITER_CACHEMOD", "WRITER_DBMOD"}
  BY DEF Modifying, CommitStep
<1>1. Control(c)'
  BY <1>0 DEF Control, Modifying, OpenStep, CommitStep
<1>2. Locked(c)'
  <2>1. eFileLock'[c] # NO_LOCK
    BY AboveNoLock
  <2>2. eState'[c] \in Writer /\ eState'[c] \notin {"OPEN", "WRITER_FINISHED"}
    BY <1>0 DEF Writer
  <2> QED BY <1>0, <2>1, <2>2 DEF Locked
<1>3. HotIsOwn(c)'
  BY <1>0 DEF HotIsOwn
<1>4. ConnInv(c)'
  <2>1. /\ (eState[c] = "OPEN" => Outdated(c))'
        /\ (Clean(c) => UpToDate(c))'
        /\ (step[c] = "replay" => Replaying(c))'
        /\ (step[c] = "unlink" => FileSynced)'
        /\ (step[c] = "unlink" /\ job[c] # "commit" => db = Image)'
    BY <1>0 DEF Clean
  <2>2. /\ (IF eState[c] = "WRITER_CACHEMOD" THEN Unwritten(c) ELSE synced[c] <= journalDisk.nRec)'
        /\ (eState[c] = "WRITER_CACHEMOD" /\ job[c] \in {"none", "commit", "spill"} => Uncounted(c))'
        /\ (job[c] \in {"none", "spill"} => dbFileVers[c] = Version(Image))'
        /\ (job[c] = "commit" => NewVersion(c))'
        /\ (job[c] \in {"none", "commit", "spill"} => Transaction(c))'
        /\ (job[c] = "failed" => Changed(c))'
        /\ (job[c] = "rollback" => RolledBack(c))'
    BY <1>0 DEF Version, Uncounted
  <2>3. (step[c] = "sync file" \/ eState[c] = "WRITER_FINISHED" => dirty[c] = {})'
    BY <1>0
  <2> QED BY <2>1, <2>2, <2>3 DEF ConnInv
<1> QED BY <1>1, <1>2, <1>3, <1>4 DEF ConnOK

(* A transaction whose files and cache are left alone goes on.                *)
LEMMA TransactionStays ==
  ASSUME NEW c \in Conn, UNCHANGED <<db, journal, journalDisk>>,
         cache'[c] = cache[c], dirty'[c] = dirty[c], dbFileVers'[c] = dbFileVers[c],
         dbSize'[c] = dbSize[c], synced'[c] = synced[c], tx'[c] = tx[c]
  PROVE  /\ Image' = Image
         /\ Originals(c) => Originals(c)'
         /\ WriteAhead(c) => WriteAhead(c)'
         /\ Unwritten(c) => Unwritten(c)'
         /\ NewVersion(c) => NewVersion(c)'
         /\ Transaction(c) => Transaction(c)'
<1>1. Image' = Image
  BY ImageStays
<1>2. Originals(c) => Originals(c)'
  BY <1>1 DEF Originals, HasSize, Own, Journaled, Version
<1>3. (WriteAhead(c) => WriteAhead(c)') /\ (Unwritten(c) => Unwritten(c)')
  BY <1>1 DEF WriteAhead, Unwritten, Saved
<1>4. NewVersion(c) => NewVersion(c)'
  BY <1>1 DEF NewVersion, Journaled, Version
<1>5. Transaction(c) => Transaction(c)'
  BY <1>1 DEF Transaction, Own
<1> QED BY <1>1, <1>2, <1>3, <1>4, <1>5

(* What a connection in the middle of a write transaction has.                *)
LEMMA JournalingFacts ==
  ASSUME StoreInv, NEW c \in Conn, eState[c] \in Modifying \cup {"WRITER_FINISHED"}, step[c] # "lower"
  PROVE  /\ Originals(c) /\ WriteAhead(c)
         /\ IF eState[c] = "WRITER_CACHEMOD" THEN Unwritten(c) ELSE synced[c] <= journalDisk.nRec
         /\ eState[c] = "WRITER_CACHEMOD" /\ job[c] \in {"none", "commit", "spill"}
              /\ step[c] # "sync header" => ~IsHot(journal)
         /\ job[c] \in {"none", "spill"} => dbFileVers[c] = Version(Image)
         /\ job[c] = "commit" => NewVersion(c)
         /\ job[c] \in {"none", "commit", "spill"} => Transaction(c)
         /\ job[c] = "rollback" => RolledBack(c)
         /\ eFileLock[c] \in Level /\ eFileLock[c] >= RESERVED_LOCK /\ Reserved(c)
         /\ IsHot(journal) => eFileLock[c] = EXCLUSIVE_LOCK
         /\ eState[c] # "WRITER_CACHEMOD" => eFileLock[c] = EXCLUSIVE_LOCK
         /\ eState[c] # "WRITER_CACHEMOD" => IsHot(journalDisk) /\ IsHot(journal) /\ ghosts = {}
         /\ synced[c] \in Nat
<1>1. /\ Originals(c) /\ WriteAhead(c)
      /\ IF eState[c] = "WRITER_CACHEMOD" THEN Unwritten(c) ELSE synced[c] <= journalDisk.nRec
      /\ eState[c] = "WRITER_CACHEMOD" /\ job[c] \in {"none", "commit", "spill"}
           /\ step[c] # "sync header" => ~IsHot(journal)
      /\ job[c] \in {"none", "spill"} => dbFileVers[c] = Version(Image)
      /\ job[c] = "commit" => NewVersion(c)
      /\ job[c] \in {"none", "commit", "spill"} => Transaction(c)
      /\ job[c] = "rollback" => RolledBack(c)
  BY StoreFacts DEF ConnInv, Journaling, Uncounted
<1>2. eState[c] \in Writer
  BY DEF Writer, Modifying
<1>3. eFileLock[c] \in Level /\ eFileLock[c] >= RESERVED_LOCK /\ Reserved(c)
  BY <1>2, StoreFacts DEF Locked
<1>4. IsHot(journal) => eFileLock[c] = EXCLUSIVE_LOCK
  BY <1>2, StoreFacts DEF HotIsOwn, Trusting
<1>5. eState[c] # "WRITER_CACHEMOD" => eFileLock[c] = EXCLUSIVE_LOCK
  BY StoreFacts DEF HoldsExclusive, Locked, Modifying
<1>6. synced[c] \in Nat
  BY DEF StoreInv, StoreTypeOK
<1>7. eState[c] # "WRITER_CACHEMOD" => IsHot(journalDisk) /\ IsHot(journal) /\ ghosts = {}
  <2>1. journalDisk.nRec \in Int /\ journalDisk.nRec <= journal.nRec /\ journal.nRec \in Int
    BY JournalFacts DEF StoreInv, Durable
  <2>2. eState[c] # "WRITER_CACHEMOD" => IsHot(journalDisk) /\ IsHot(journal)
    <3>1. eState[c] # "WRITER_CACHEMOD" => synced[c] <= journalDisk.nRec
      BY <1>1
    <3> QED BY <1>6, <2>1, <3>1 DEF IsHot
  <2> QED BY <2>2 DEF StoreInv, GhostsUndo
<1> QED BY <1>1, <1>3, <1>4, <1>5, <1>6, <1>7

LEMMA BeginKeepsStore ==
  ASSUME StoreInv, UNCHANGED processOf, NEW c \in Conn, Begin(c)
  PROVE  StoreInv' /\ Image' = Image
<1>1. UpToDate(c) /\ ~IsHot(journal)
  BY StoreFacts DEF Begin, ConnInv, Clean, HotIsOwn, Trusting, Modifying
<1>2. step'[c] = "idle" /\ job'[c] = "none" /\ eState'[c] = "WRITER_LOCKED"
  BY StoreFacts DEF Begin, Return, PagerTypeOK
<1>3. Writing(c) /\ UNCHANGED <<dbVars, journalVars, cacheVars, synced, todo, faults, before>>
  BY DEF Writing, Begin
<1>4. eFileLock'[c] = RESERVED_LOCK /\ Reserved(c)'
  BY StoreFacts, LockEffects, ByteEffects DEF Begin
<1>5. UpToDate(c)'
  BY <1>1, <1>3, UpToDateStays DEF dbVars, cacheVars
<1>6. ~IsHot(journal') /\ RESERVED_LOCK \in Level /\ RESERVED_LOCK >= RESERVED_LOCK
  BY <1>1, <1>3 DEF journalVars, RESERVED_LOCK, Level
<1>7. ConnOK(c)'
  BY <1>2, <1>4, <1>5, <1>6, LandsLocked
<1>8. tx' \in [Conn -> Nat] /\ txs' \in Nat
  BY DEF Begin, StoreInv, StoreTypeOK
<1> QED BY <1>3, <1>7, <1>8, ControlStep DEF StoreInv, StoreTypeOK

LEMMA EndUnmodifiedKeepsStore ==
  ASSUME StoreInv, UNCHANGED processOf, NEW c \in Conn, EndUnmodified(c)
  PROVE  StoreInv' /\ Image' = Image
<1>1. UpToDate(c) /\ ~IsHot(journal) /\ eFileLock[c] # NO_LOCK
  BY StoreFacts DEF EndUnmodified, ConnInv, Clean, HotIsOwn, Trusting, Modifying, Writer, Locked
<1>2. step'[c] = "idle" /\ job'[c] = "none" /\ eState'[c] = "READER"
  BY StoreFacts DEF EndUnmodified, Return, PagerTypeOK
<1>3. Writing(c) /\ UNCHANGED <<dbVars, journalVars, cacheVars, faults, before>> /\ ForgetTx(c)
  BY DEF Writing, EndUnmodified
<1>4. eFileLock'[c] = SHARED_LOCK /\ SHARED_LOCK # NO_LOCK
  BY <1>1, StoreFacts, LockEffects DEF EndUnmodified, NO_LOCK, SHARED_LOCK
<1>5. UpToDate(c)' /\ ~Reserved(c)' /\ ~IsHot(journal')
  BY <1>1, <1>3, <1>4, UpToDateStays, StepKeepsLocks DEF dbVars, cacheVars, journalVars
<1>7. ConnOK(c)'
  BY <1>2, <1>4, <1>5, LandsReader
<1> QED BY <1>3, <1>7, ForgetIsTyped, ControlStep DEF StoreInv

LEMMA LowerKeepsStore ==
  ASSUME StoreInv, UNCHANGED processOf, NEW c \in Conn, Lower(c)
  PROVE  StoreInv' /\ Image' = Image
<1>1. ~IsHot(journal) /\ step[c] = "lower" /\ eFileLock[c] # NO_LOCK
  BY StoreFacts DEF Lower, HotIsOwn, Locked, Control
<1>3. Ending(c) /\ UNCHANGED <<dbVars, journalVars, cacheVars, faults, before>> /\ ForgetTx(c)
  BY DEF Ending, Lower
<1>4. eFileLock'[c] = SHARED_LOCK /\ SHARED_LOCK # NO_LOCK
  BY <1>1, StoreFacts, LockEffects DEF Lower, NO_LOCK, SHARED_LOCK
<1>5. ~Reserved(c)' /\ ~IsHot(journal')
  BY <1>1, <1>3, <1>4, StepKeepsLocks DEF journalVars
<1>6. CASE job[c] = "open"
  <2>1. step'[c] = "validate" /\ job'[c] = "open" /\ eState'[c] = "OPEN"
    BY <1>6, StoreFacts DEF Lower, Goto, PagerTypeOK, HoldsExclusive
  <2>2. Outdated(c)'
    BY <1>3, <1>6, StoreFacts, OutdatedStays DEF ConnInv, HoldsExclusive, dbVars, journalVars, cacheVars
  <2>3. ConnOK(c)'
    BY <1>4, <1>5, <2>1, <2>2, LandsOpening DEF OpenStep
  <2> QED BY <1>3, <2>3, ForgetIsTyped, ControlStep DEF StoreInv
<1>7. CASE job[c] # "open"
  <2>1. step'[c] = "idle" /\ job'[c] = "none" /\ eState'[c] = "READER"
    BY <1>7, StoreFacts DEF Lower, Return, PagerTypeOK
  <2>2. UpToDate(c)
    BY <1>1, <1>7, StoreFacts DEF ConnInv, Clean
  <2>3. UpToDate(c)'
    BY <1>3, <2>2, UpToDateStays DEF dbVars, cacheVars
  <2>4. ConnOK(c)'
    BY <1>4, <1>5, <2>1, <2>3, LandsReader
  <2> QED BY <1>3, <2>4, ForgetIsTyped, ControlStep DEF StoreInv
<1> QED BY <1>6, <1>7

(* A saved page is among the pages of a journal.                              *)
LEMMA SavedIsJournaled ==
  ASSUME NEW j, JournalOK(j), NEW n \in Int, n <= Len(j.records)
  PROVE  /\ Saved(j, n) \subseteq Journaled(j)
         /\ Saved(j, n) \subseteq Page
         /\ Journaled(j) = {j.records[i].page : i \in 1..Len(j.records)}
         /\ Journaled(j) \subseteq Page
<1>1. DOMAIN j.records = 1..Len(j.records) /\ Len(j.records) \in Nat
  BY JournalFacts, LenProperties
<1>2. Journaled(j) = {j.records[i].page : i \in 1..Len(j.records)}
  BY <1>1 DEF Journaled, ToSet
<1>3. 1..n \subseteq 1..Len(j.records)
  BY <1>1
<1> QED BY <1>2, <1>3, JournalFacts DEF Saved

LEMMA ReadPageKeepsStore ==
  ASSUME StoreInv, UNCHANGED processOf, NEW c \in Conn, NEW p \in Page, ReadPage(c, p)
  PROVE  StoreInv' /\ Image' = Image
<1>1. /\ step[c] = "idle" /\ job[c] = "none" /\ eState[c] \in {"READER"} \cup Writer
      /\ p <= dbSize[c] /\ cache[c][p] = NotCached /\ (p = 1 \/ cache[c][1] # NotCached)
      /\ cache' = [cache EXCEPT ![c][p] = db[p]]
      /\ dbFileVers' = IF p = 1 THEN [dbFileVers EXCEPT ![c] = Version(db)] ELSE dbFileVers
      /\ UNCHANGED <<lockVars, dbVars, journalVars, callVars, dirty, dbSize, txVars, faults, before>>
  BY DEF ReadPage, Idle
<1>2. step'[c] = "idle" /\ job'[c] = "none" /\ eState'[c] = eState[c] /\ eState[c] # "WRITER_FINISHED"
  BY <1>1, StoreFacts DEF callVars, Control
<1>3. Reading(c)
  BY DEF Reading
<1>4. /\ cache' \in [Conn -> [Page -> Content \cup {NotCached}]]
      /\ cache'[c][p] = db[p] /\ \A q \in Page : q # p => cache'[c][q] = cache[c][q]
      /\ db \in [Page -> Content] /\ NotCached \notin Content /\ 1 \in Page
      /\ db' = db /\ journal' = journal /\ journalDisk' = journalDisk
      /\ dirty' = dirty /\ dbSize' = dbSize /\ synced' = synced /\ tx' = tx
  BY <1>1, PageIsInt DEF StoreInv, StoreTypeOK, Content, NotCached, Absent, Torn,
     dbVars, journalVars, txVars
<1>5. cache'[c][1] # Absent
  BY <1>4 DEF StoreInv, FileHasPage
<1>6. Image' = Image
  BY <1>4, ImageStays
<1>10. /\ UNCHANGED <<dbVars, journalVars, before>>
       /\ dirty' \in [Conn -> SUBSET Page] /\ dbSize' \in [Conn -> 0..MaxPage]
       /\ synced' \in [Conn -> Nat] /\ todo' \in [Conn -> Seq(Record) \cup Seq(Page)]
       /\ tx' \in [Conn -> Nat] /\ txs' \in Nat
  BY <1>1 DEF StoreInv, StoreTypeOK, txVars
<1>7. CASE eState[c] \in {"READER", "WRITER_LOCKED"}
  <2>1. UpToDate(c) /\ ~IsHot(journal) /\ Image = db
    BY <1>7, StoreFacts, ColdImage DEF ConnInv, Clean, HotIsOwn, Trusting, Modifying, Writer
  <2>2. dbFileVers' \in [Conn -> Nat]
    BY <1>1, <2>1, ImageVersion DEF StoreInv, StoreTypeOK
  <2>3. dbFileVers'[c] = Version(db)
    <3>1. CASE p = 1
      BY <1>1, <3>1 DEF StoreInv, StoreTypeOK
    <3>2. CASE p # 1
      BY <1>1, <1>4, <2>1, <3>2 DEF UpToDate, Caches
    <3> QED BY <3>1, <3>2
  <2>4. UpToDate(c)'
    <3>1. CacheIsOf(c, db)'
      BY <1>4, <2>1 DEF UpToDate, CacheIsOf
    <3>2. (dirty[c] = {})' /\ HasSize(db, dbSize[c])' /\ (dbFileVers[c] = Version(db))'
      BY <1>4, <2>1, <2>3 DEF UpToDate, HasSize, Version
    <3> QED BY <3>1, <3>2 DEF UpToDate
  <2>5. ConnOK(c)'
    <3>1. CASE eState[c] = "READER"
      <4>1. ~Reserved(c)' /\ eFileLock'[c] # NO_LOCK
        BY <1>1, <3>1, StoreFacts DEF Locked, Reserved, lockVars, Writer
      <4> QED BY <1>2, <1>4, <2>1, <2>4, <3>1, <4>1, LandsReader
    <3>2. CASE eState[c] = "WRITER_LOCKED"
      <4>1. Reserved(c)' /\ eFileLock'[c] \in Level /\ eFileLock'[c] >= RESERVED_LOCK
        BY <1>1, <3>2, StoreFacts DEF Locked, Reserved, lockVars, Writer
      <4> QED BY <1>2, <1>4, <2>1, <2>4, <3>2, <4>1, LandsLocked
    <3> QED BY <1>7, <3>1, <3>2
  <2> QED BY <1>3, <1>4, <1>5, <1>10, <2>2, <2>5, CacheStep
<1>8. CASE eState[c] \in Modifying
  <2>1. Originals(c) /\ WriteAhead(c) /\ Transaction(c)
    BY <1>1, <1>8, JournalingFacts
  <2>2. p # 1 /\ dbFileVers' = dbFileVers
    BY <1>1, <2>1 DEF Originals
  <2>3. p \notin dirty[c]
    BY <1>1, <2>1 DEF Originals, Own, NotCached
  <2>4. p \in 1..journal.orig \ Journaled(journal) => db[p] = Image[p]
    <3>1. synced[c] \in Int /\ synced[c] <= Len(journal.records) /\ JournalOK(journal)
      BY <2>1 DEF WriteAhead, StoreInv, StoreTypeOK, Durable
    <3> QED BY <2>1, <3>1, SavedIsJournaled DEF WriteAhead
  <2>5. Originals(c)'
    <3>1. \A q \in dirty[c] : cache'[c][q] = cache[c][q]
      BY <1>4, <2>3 DEF StoreInv, StoreTypeOK
    <3>2. (\A q \in dirty[c] : Own(c, cache[c][q]) /\ (q > journal.orig \/ q \in Journaled(journal)))'
      BY <1>4, <2>1, <3>1 DEF Originals, Own, Journaled
    <3>3. \A q \in 1..journal.orig : q \in Page
      BY JournalFacts, PagerAssumption DEF StoreInv, Durable, Page
    <3>4. (\A q \in 1..journal.orig \ Journaled(journal) : cache[c][q] \in {NotCached, Image[q]})'
      BY <1>4, <1>6, <2>1, <2>4, <3>3 DEF Originals, Journaled
    <3>5. /\ journal'.exists
          /\ HasSize(Image, journal.orig)'
          /\ journal'.orig <= dbSize'[c]
          /\ (\A i \in 1..Len(journal.records) : journal.records[i].was = Image[journal.records[i].page])'
          /\ cache'[c][1] # NotCached
          /\ (1 \notin Journaled(journal) => dbFileVers[c] = Version(Image))'
      BY <1>4, <1>6, <2>1, <2>2 DEF Originals, HasSize, Journaled, Version
    <3> QED BY <3>2, <3>4, <3>5 DEF Originals
  <2>6. WriteAhead(c)'
    BY <1>4, <1>6, <2>1 DEF WriteAhead, Saved
  <2>7. Transaction(c)'
    BY <1>4, <1>6, <2>1, <2>3 DEF Transaction, Own
  <2>8. /\ eState[c] = "WRITER_CACHEMOD" => Unwritten(c)' /\ ~IsHot(journal')
        /\ eState[c] = "WRITER_DBMOD" => synced'[c] <= journalDisk'.nRec
    BY <1>4, <1>6, <1>8, JournalingFacts, <1>1 DEF Unwritten, Modifying
  <2>9. dbFileVers'[c] = Version(Image')
    BY <1>1, <1>6, <1>8, <2>2, JournalingFacts
  <2>10. /\ eFileLock'[c] \in Level /\ eFileLock'[c] >= RESERVED_LOCK /\ Reserved(c)'
         /\ IsHot(journal') => eFileLock'[c] = EXCLUSIVE_LOCK
    BY <1>1, <1>4, <1>8, JournalingFacts DEF lockVars, Reserved
  <2>11. ConnOK(c)'
    BY <1>2, <1>8, <2>5, <2>6, <2>7, <2>8, <2>9, <2>10, LandsJournaling
  <2>12. dbFileVers' \in [Conn -> Nat]
    BY <2>2 DEF StoreInv, StoreTypeOK
  <2> QED BY <1>3, <1>4, <1>5, <1>10, <2>11, <2>12, CacheStep
<1> QED BY <1>1, <1>2, <1>7, <1>8 DEF Writer, Modifying

LEMMA LockDbKeepsStore ==
  ASSUME StoreInv, UNCHANGED processOf, NEW c \in Conn, LockDb(c)
  PROVE  StoreInv' /\ Image' = Image
<1>1. /\ step[c] = "lock" /\ job[c] \in {"commit", "spill"} /\ eState[c] \in Modifying
      /\ UNCHANGED <<dbVars, journalVars, eState, cacheVars, txVars, faults, before>>
  BY StoreFacts DEF LockDb, Control, HoldsExclusive, CommitStep, OpenStep, Job
<1>2. Writing(c)
  BY DEF Writing
<1>3. /\ Originals(c)' /\ WriteAhead(c)' /\ Transaction(c)' /\ Image' = Image
      /\ eState[c] = "WRITER_CACHEMOD" => Unwritten(c)' /\ ~IsHot(journal')
      /\ eState[c] = "WRITER_DBMOD" => synced'[c] <= journalDisk'.nRec
      /\ job[c] = "spill" => dbFileVers'[c] = Version(Image')
      /\ job[c] = "commit" => NewVersion(c)'
  BY <1>1, JournalingFacts, TransactionStays DEF dbVars, journalVars, cacheVars, txVars, Modifying
<1>4. Reserved(c)' /\ (IsHot(journal') <=> IsHot(journal))
  BY <1>1, JournalingFacts, ByteEffects, StoreFacts DEF LockDb, journalVars
<1>5. CASE LockExclusive(c) /\ Goto(c, "sync records") /\ UNCHANGED job
  <2>4. /\ step'[c] = "sync records" /\ job'[c] = job[c] /\ eState'[c] = eState[c]
        /\ eFileLock'[c] = EXCLUSIVE_LOCK
    BY <1>1, <1>5, StoreFacts, LockEffects DEF Goto, PagerTypeOK
  <2>1. EXCLUSIVE_LOCK \in Level /\ EXCLUSIVE_LOCK >= RESERVED_LOCK
    BY DEF EXCLUSIVE_LOCK, RESERVED_LOCK, Level
  <2>2. /\ job[c] = "commit" => 1 \in dirty'[c]
        /\ job[c] = "spill" => Spilling(c)'
    BY <1>1, StoreFacts DEF ConnInv, JournalStep, Spilling, cacheVars, txVars
  <2>3. ConnOK(c)'
    BY <1>1, <1>3, <1>4, <2>1, <2>2, <2>4, LandsJournaling DEF CommitStep
  <2> QED BY <1>1, <1>2, <2>3, ControlStep DEF StoreInv, StoreTypeOK, txVars
<1>6. CASE ExclusiveBusy(c) /\ job' = [job EXCEPT ![c] = "none"] /\ Goto(c, "idle")
  <2>1. /\ step'[c] = "idle" /\ job'[c] = "none" /\ eState'[c] = eState[c]
    BY <1>1, <1>6, StoreFacts DEF Goto, PagerTypeOK
  <2>2. eFileLock'[c] \in Level /\ eFileLock'[c] >= RESERVED_LOCK
    <3>1. PENDING_LOCK \in Level /\ PENDING_LOCK >= RESERVED_LOCK
      BY DEF PENDING_LOCK, RESERVED_LOCK, Level
    <3>2. eFileLock[c] \in Level /\ eFileLock[c] >= RESERVED_LOCK
      BY <1>1, JournalingFacts
    <3> QED BY <1>6, <3>1, <3>2, StoreFacts, LockEffects
  <2>3. IsHot(journal') => eFileLock'[c] = EXCLUSIVE_LOCK
    <3>1. IsHot(journal') => eFileLock[c] = EXCLUSIVE_LOCK
      BY <1>1, <1>4, JournalingFacts
    <3>2. eFileLock[c] = EXCLUSIVE_LOCK => eFileLock'[c] = EXCLUSIVE_LOCK
      BY <1>6, StoreFacts, ExclusiveStays
    <3> QED BY <3>1, <3>2
  <2>4. dbFileVers'[c] = Version(Image')
    <3>1. CASE job[c] = "commit"
      BY <1>1, <1>3, <3>1, StoreFacts DEF ConnInv, JournalStep, NewVersion, cacheVars
    <3> QED BY <1>1, <1>3, <3>1
  <2>5. ConnOK(c)'
    BY <1>1, <1>3, <1>4, <2>1, <2>2, <2>3, <2>4, LandsJournaling DEF CommitStep
  <2> QED BY <1>1, <1>2, <2>5, ControlStep DEF StoreInv, StoreTypeOK, txVars
<1> QED BY <1>5, <1>6 DEF LockDb

LEMMA SpillKeepsStore ==
  ASSUME StoreInv, UNCHANGED processOf, NEW c \in Conn, NEW p \in Page, Spill(c, p)
  PROVE  StoreInv' /\ Image' = Image
<1>1. /\ step[c] = "idle" /\ job[c] = "none" /\ eState[c] \in Modifying /\ p \in dirty[c] \ {1}
      /\ UNCHANGED <<lockVars, dbVars, journalVars, eState, cacheVars, synced, tx, txs, faults, before>>
  BY DEF Spill, Idle
<1>2. Writing(c)
  BY DEF Writing
<1>3. /\ Originals(c)' /\ WriteAhead(c)' /\ Transaction(c)' /\ Image' = Image
      /\ eState[c] = "WRITER_CACHEMOD" => Unwritten(c)' /\ ~IsHot(journal')
      /\ eState[c] = "WRITER_DBMOD" => synced'[c] <= journalDisk'.nRec
      /\ dbFileVers'[c] = Version(Image')
  BY <1>1, JournalingFacts, TransactionStays DEF dbVars, journalVars, cacheVars, Modifying
<1>4. /\ Reserved(c)' /\ eFileLock'[c] \in Level /\ eFileLock'[c] >= RESERVED_LOCK
      /\ IsHot(journal') => eFileLock'[c] = EXCLUSIVE_LOCK
  BY <1>1, JournalingFacts DEF Reserved, lockVars, journalVars
<1>5. /\ todo'[c] = <<p>> /\ job'[c] = "spill" /\ eState'[c] = eState[c]
      /\ todo' \in [Conn -> Seq(Record) \cup Seq(Page)]
  <2>1. <<p>> \in Seq(Page)
    OBVIOUS
  <2> QED BY <1>1, <2>1, StoreFacts DEF Spill, PagerTypeOK, StoreInv, StoreTypeOK
<1>6. Spilling(c)'
  BY <1>1, <1>5 DEF Spilling, cacheVars
<1>7. CASE Goto(c, "lock")
  <2>1. step'[c] = "lock"
    BY <1>7, StoreFacts DEF Goto, PagerTypeOK
  <2>2. ConnOK(c)'
    BY <1>1, <1>3, <1>4, <1>5, <1>6, <2>1, LandsJournaling DEF CommitStep
  <2> QED BY <1>1, <1>2, <1>5, <2>2, ControlStep DEF StoreInv, StoreTypeOK
<1>8. CASE Goto(c, "write") /\ ~NeedSync(c, p) /\ eState[c] = "WRITER_DBMOD"
  <2>1. step'[c] = "write"
    BY <1>8, StoreFacts DEF Goto, PagerTypeOK
  <2>2. SpillIsSaved(c)'
    <3>1. p > journal.orig \/ p \in Journaled(journal)
      BY <1>1, JournalingFacts DEF Originals
    <3>2. JournalOK(journal) /\ Len(journal.records) \in Nat /\ synced[c] \in Nat
      BY JournalFacts DEF StoreInv, StoreTypeOK, Durable
    <3>3. ASSUME p \in Journaled(journal) PROVE p \in Saved(journal, synced[c])
      <4>1. PICK i \in 1..Len(journal.records) : journal.records[i].page = p
        BY <3>2, <3>3, SavedIsJournaled
      <4>2. i <= synced[c]
        BY <1>8, <3>2, <4>1 DEF NeedSync
      <4> QED BY <3>2, <4>1, <4>2 DEF Saved
    <3> QED BY <1>1, <1>5, <3>1, <3>3 DEF SpillIsSaved, Saved, journalVars
  <2>3. ghosts' = {}
    BY <1>1, <1>8, JournalingFacts DEF journalVars
  <2>4. ConnOK(c)'
    BY <1>1, <1>3, <1>4, <1>5, <1>6, <1>8, <2>1, <2>2, <2>3, LandsJournaling DEF CommitStep
  <2> QED BY <1>1, <1>2, <1>5, <2>4, ControlStep DEF StoreInv, StoreTypeOK
<1>9. Goto(c, "lock") \/ (Goto(c, "write") /\ ~NeedSync(c, p) /\ eState[c] = "WRITER_DBMOD")
  BY <1>1 DEF Spill, Modifying
<1> QED BY <1>7, <1>8, <1>9

(* A journal with more records, of which no header counts the new ones.       *)
LongerBy(k, j, p, was) ==
  /\ JournalOK(k)
  /\ k.exists = j.exists /\ k.orig = j.orig /\ k.nRec = j.nRec
  /\ Len(j.records) <= Len(k.records)
  /\ \A i \in 1..Len(j.records) : k.records[i] = j.records[i]
  /\ \A i \in 1..Len(k.records) :
       \/ i \in 1..Len(j.records)
       \/ k.records[i] = [page |-> p, was |-> was] /\ p <= j.orig /\ p \notin Journaled(j)
  /\ p > j.orig \/ p \in Journaled(k)
  /\ Journaled(j) \subseteq Journaled(k) /\ Journaled(k) \subseteq Journaled(j) \cup {p}

(* pager_write adds at most one record, of the page it is about to change.    *)
LEMMA RecordedIsLonger ==
  ASSUME NEW c \in Conn, NEW p \in Page, NEW j, j = Opened(c), JournalOK(j), j.exists,
         p <= j.orig /\ p \notin Journaled(j) =>
           cache[c][p] \in Content /\ (p = 1 => cache[c][p] # Absent)
  PROVE  LongerBy(Recorded(c, p), j, p, cache[c][p])
<1> DEFINE r == [page |-> p, was |-> cache[c][p]]
           n == Len(j.records)
           k == [j EXCEPT !.records = Append(@, r)]
<1>0. /\ n \in Nat /\ j.orig \in Int /\ j.nRec \in Int /\ j.nRec <= n
      /\ j.records \in Seq(Record) /\ p \in Int
      /\ j \in [exists : BOOLEAN, orig : 0..MaxPage, records : Seq(Record), nRec : Int]
  BY JournalFacts, PagerAssumption, PageIsInt DEF JournalOK
<1>1. CASE p > j.orig \/ p \in Journaled(j)
  <2>1. Recorded(c, p) = j
    BY <1>1 DEF Recorded
  <2>2. n <= n
    BY <1>0
  <2> HIDE DEF k, r
  <2> QED BY <1>1, <2>1, <2>2 DEF LongerBy
<1>2. CASE ~(p > j.orig \/ p \in Journaled(j))
  <2>0. p <= j.orig /\ p \notin Journaled(j)
    BY <1>0, <1>2
  <2>1. Recorded(c, p) = k
    BY <1>2 DEF Recorded
  <2>2. r \in Record /\ r.page = p /\ r.was = cache[c][p]
    BY <2>0 DEF Record
  <2>3. /\ k.exists = j.exists /\ k.orig = j.orig /\ k.nRec = j.nRec /\ k.records = Append(j.records, r)
        /\ k \in [exists : BOOLEAN, orig : 0..MaxPage, records : Seq(Record), nRec : Int]
    <3>1. Append(j.records, r) \in Seq(Record)
      BY <1>0, <2>2, AppendProperties
    <3> HIDE DEF r
    <3> QED BY <1>0, <3>1
  <2>4. /\ Len(k.records) = n + 1
        /\ \A i \in 1..n : k.records[i] = j.records[i]
        /\ k.records[n + 1] = r
    BY <1>0, <2>2, <2>3
  <2>5. /\ Journaled(j) = {j.records[i].page : i \in 1..n}
        /\ Journaled(k) = {k.records[i].page : i \in 1..n + 1}
    <3>1. DOMAIN j.records = 1..n /\ DOMAIN k.records = 1..n + 1
      BY <1>0, <2>2, <2>3, <2>4
    <3> HIDE DEF k
    <3> QED BY <3>1 DEF Journaled, ToSet
  <2> HIDE DEF k, r
  <2>6. \A i \in 1..n + 1 : i \in 1..n \/ i = n + 1
    BY <1>0
  <2>7. 1..n \subseteq 1..n + 1 /\ n + 1 \in 1..n + 1
    BY <1>0
  <2>8. JournalOK(k)
    <3>1. -1 <= k.nRec /\ k.nRec <= Len(k.records)
      BY <1>0, <2>3, <2>4 DEF JournalOK
    <3>2. k.exists /\ k.orig >= 1
      BY <2>3 DEF JournalOK
    <3>3. ASSUME NEW i \in 1..n + 1
          PROVE  /\ k.records[i].page <= k.orig
                 /\ k.records[i].page = 1 => k.records[i].was # Absent
      <4>1. CASE i \in 1..n
        BY <2>3, <2>4, <4>1 DEF JournalOK
      <4>2. CASE i = n + 1
        BY <2>0, <2>2, <2>3, <2>4, <4>2
      <4> QED BY <2>6, <4>1, <4>2
    <3>4. ASSUME NEW i \in 1..n + 1, NEW m \in 1..n + 1, k.records[i].page = k.records[m].page
          PROVE  i = m
      <4>1. \A l \in 1..n : k.records[l].page = j.records[l].page /\ k.records[l].page # p
        BY <2>0, <2>4, <2>5
      <4>2. CASE i \in 1..n /\ m \in 1..n
        BY <3>4, <4>1, <4>2 DEF JournalOK
      <4>3. CASE i = n + 1 \/ m = n + 1
        BY <2>2, <2>4, <2>6, <3>4, <4>1, <4>3
      <4> QED BY <2>6, <4>2, <4>3
    <3> QED BY <2>3, <2>4, <3>1, <3>2, <3>3, <3>4 DEF JournalOK
  <2>9. Journaled(k) = Journaled(j) \cup {p}
    BY <2>2, <2>4, <2>5, <2>6, <2>7
  <2>10. n <= n + 1
    BY <1>0
  <2>11. \A i \in 1..Len(k.records) :
           \/ i \in 1..Len(j.records)
           \/ k.records[i] = [page |-> p, was |-> cache[c][p]] /\ p <= j.orig /\ p \notin Journaled(j)
    BY <2>0, <2>4, <2>6 DEF r
  <2> QED BY <2>1, <2>3, <2>4, <2>8, <2>9, <2>10, <2>11 DEF LongerBy
<1> QED BY <1>1, <1>2

(* It is read as before.                                                      *)
LEMMA LongerReadsTheSame ==
  ASSUME NEW j, NEW k, NEW p, NEW was, JournalOK(j), LongerBy(k, j, p, was), NEW file
  PROVE  /\ IsHot(k) <=> IsHot(j)
         /\ Recovered(file, k) = Recovered(file, j)
         /\ \A n \in Int : n <= Len(j.records) => Saved(k, n) = Saved(j, n)
<1>0. /\ Len(j.records) \in Nat /\ j.nRec \in Int /\ j.nRec <= Len(j.records)
      /\ k.nRec = j.nRec /\ k.orig = j.orig
      /\ \A i \in 1..Len(j.records) : k.records[i] = j.records[i]
      /\ JournalOK(k)
  BY JournalFacts DEF JournalOK, LongerBy
<1>1. ASSUME NEW n \in Int, n <= Len(j.records)
      PROVE  /\ \A i \in 1..n : k.records[i] = j.records[i]
             /\ Saved(k, n) = Saved(j, n)
  <2>1. \A i \in 1..n : k.records[i] = j.records[i]
    BY <1>0, <1>1
  <2> QED BY <2>1 DEF Saved
<1>2. ToSet(HotRecords(k)) = ToSet(HotRecords(j))
  BY <1>0, <1>1, HotRecordsAre
<1>3. IsHot(k) <=> IsHot(j)
  BY <1>0 DEF IsHot
<1> QED BY <1>0, <1>1, <1>2, <1>3 DEF Recovered

(* A journal and what is synced of it, as far as the disk goes.               *)
Covers(j, disk) ==
  /\ JournalOK(j)
  /\ disk.nRec \in Int /\ -1 <= disk.nRec /\ disk.nRec <= j.nRec
  /\ Len(disk.records) \in Nat
  /\ j.nRec <= Len(disk.records)
  /\ Len(disk.records) <= Len(j.records)
  /\ \A p \in Page : \/ IsHot(disk) /\ (p > j.orig \/ p \in Saved(j, disk.nRec))
                     \/ dbDisk[p] = {Image[p]}

(* The same of the journal and the disk as they are.                          *)
LEMMA DurableCovers ==
  ASSUME StoreInv
  PROVE  Covers(journal, journalDisk)
BY DEF StoreInv, Durable, Covers, Protected

(* The journal that a write finds or opens.                                   *)
OpenedOK(c, j, n) ==
  /\ JournalOK(j) /\ j.exists /\ j.orig \in Page
  /\ HasSize(Image, j.orig) /\ j.orig <= dbSize[c]
  /\ \A i \in 1..Len(j.records) : j.records[i].was = Image[j.records[i].page]
  /\ \A q \in 1..j.orig \ Journaled(j) : cache[c][q] \in {NotCached, Image[q]}
  /\ \A q \in dirty[c] : Own(c, cache[c][q]) /\ (q > j.orig \/ q \in Journaled(j))
  /\ n \in Nat /\ n <= Len(j.records)
  /\ \A q \in 1..j.orig : db[q] = Image[q] \/ q \in Saved(j, n)
  /\ Transaction(c)
  /\ dbFileVers[c] = Version(Image)
  /\ Recovered(db, j) = Image
  /\ IsHot(j) <=> IsHot(journal)

LEMMA OpenedIsOK ==
  ASSUME StoreInv, NEW c \in Conn, eState[c] \in {"WRITER_LOCKED"} \cup Modifying,
         step[c] = "idle", job[c] = "none", cache[c][1] # NotCached,
         IF eState[c] = "WRITER_LOCKED"
           THEN /\ journalDisk' = NoJournal
                /\ ghosts' = IF journal.exists THEN ghosts ELSE ghosts \cup {NoJournal}
                /\ synced' = [synced EXCEPT ![c] = 0]
           ELSE UNCHANGED <<journalDisk, ghosts, synced>>
  PROVE  /\ OpenedOK(c, Opened(c), synced'[c])
         /\ Covers(Opened(c), journalDisk')
         /\ synced' \in [Conn -> Nat]
         /\ IF eState[c] \in {"WRITER_LOCKED", "WRITER_CACHEMOD"}
              THEN db = Image /\ synced'[c] = 0 /\ journalDisk'.nRec = -1
              ELSE synced'[c] <= journalDisk'.nRec
         /\ ghosts' # {} => ~IsHot(journal)
         /\ \A j \in ghosts' : JournalOK(j) /\ Recovered(db, j) \in {db, before}
         /\ eState[c] = "WRITER_LOCKED" => ~IsHot(journal)
<1> DEFINE j == Opened(c)
<1>0. /\ JournalOK(journal) /\ db \in [Page -> Content] /\ dbSize[c] \in 0..MaxPage
      /\ synced \in [Conn -> Nat] /\ 1 \in Page /\ GhostsUndo
  BY PageIsInt DEF StoreInv, StoreTypeOK, Durable
<1>1. CASE eState[c] = "WRITER_LOCKED"
  <2>1. UpToDate(c) /\ ~IsHot(journal) /\ Image = db
    BY <1>1, StoreFacts, ColdImage DEF ConnInv, Clean, HotIsOwn, Trusting, Modifying, Writer
  <2>2. j = EmptyJournal(dbSize[c]) /\ dbSize[c] \in Page
    BY <1>1, <2>1 DEF Opened, UpToDate, HasSize
  <2>3. /\ j.exists = TRUE /\ j.orig = dbSize[c] /\ j.records = <<>> /\ j.nRec = -1
        /\ Len(j.records) = 0
    BY <2>2 DEF EmptyJournal
  <2>4. JournalOK(j)
    <3>1. j \in [exists : BOOLEAN, orig : 0..MaxPage, records : Seq(Record), nRec : Int]
      BY <1>0, <2>2 DEF EmptyJournal
    <3>2. j.orig >= 1
      BY <2>2, <2>3, PageIsInt
    <3>3. 1..Len(j.records) = {}
      BY <2>3
    <3> QED BY <2>3, <3>1, <3>2, <3>3 DEF JournalOK
  <2>5. ~IsHot(j)
    BY <2>3 DEF IsHot
  <2>6. synced'[c] = 0 /\ synced' \in [Conn -> Nat] /\ journalDisk' = NoJournal
    BY <1>0, <1>1
  <2>7. Transaction(c)
    BY <1>0, <2>1 DEF Transaction, UpToDate, HasSize, CacheIsOf
  <2>8. dbFileVers[c] = Version(Image)
    BY <1>0, <2>1 DEF UpToDate, Caches
  <2>9. OpenedOK(c, j, synced'[c])
    <3>1. 1..Len(j.records) = {} /\ j.orig <= dbSize[c] /\ 0 <= Len(j.records)
      BY <1>0, <2>3
    <3>2. \A q \in 1..j.orig : q \in Page
      BY <2>2, <2>3, PagerAssumption DEF Page
    <3>3. /\ dirty[c] = {} /\ HasSize(Image, j.orig)
          /\ \A q \in 1..j.orig : cache[c][q] \in {NotCached, Image[q]}
      BY <2>1, <2>3, <3>2 DEF UpToDate, CacheIsOf
    <3>4. \A q \in 1..j.orig : db[q] = Image[q]
      BY <2>1
    <3> HIDE DEF j
    <3> QED BY <2>1, <2>2, <2>3, <2>4, <2>5, <2>6, <2>7, <2>8, <3>1, <3>3, <3>4, RecoveredCold DEF OpenedOK
  <2>10. Covers(j, journalDisk')
    <3>1. /\ journalDisk'.nRec = -1 /\ journalDisk'.records = <<>> /\ Len(journalDisk'.records) = 0
      BY <2>6 DEF NoJournal
    <3>2. \A p \in Page : dbDisk[p] = {Image[p]}
      <4>1. Covers(journal, journalDisk) /\ ~IsHot(journalDisk)
        BY <2>1, DurableCovers, JournalFacts, <1>0 DEF Covers, IsHot
      <4> QED BY <4>1 DEF Covers
    <3> HIDE DEF j
    <3> QED BY <2>3, <2>4, <3>1, <3>2 DEF Covers
  <2>11. \A g \in ghosts' : JournalOK(g) /\ Recovered(db, g) \in {db, before}
    <3>1. JournalOK(NoJournal) /\ ~IsHot(NoJournal)
      BY PagerAssumption DEF NoJournal, JournalOK, IsHot
    <3>2. Recovered(db, NoJournal) = db
      BY <3>1, RecoveredCold
    <3> QED BY <1>0, <1>1, <3>1, <3>2 DEF GhostsUndo
  <2> QED BY <1>1, <2>1, <2>6, <2>9, <2>10, <2>11 DEF NoJournal
<1>2. CASE eState[c] \in Modifying
  <2>0. /\ eState[c] # "WRITER_LOCKED" /\ j = journal
        /\ journalDisk' = journalDisk /\ ghosts' = ghosts /\ synced' = synced
    BY <1>2 DEF Modifying, Opened
  <2>1. /\ Originals(c) /\ WriteAhead(c) /\ Transaction(c) /\ dbFileVers[c] = Version(Image)
        /\ IF eState[c] = "WRITER_CACHEMOD" THEN Unwritten(c) ELSE synced[c] <= journalDisk.nRec
    BY <1>2, JournalingFacts
  <2>2. OpenedOK(c, j, synced'[c])
    <3> HIDE DEF j
    <3>1. Recovered(db, journal) = Image
      BY DEF Image
    <3> QED BY <1>0, <2>0, <2>1, <3>1 DEF OpenedOK, Originals, WriteAhead, HasSize
  <2>3. Covers(j, journalDisk')
    BY <2>0, DurableCovers
  <2> QED BY <1>0, <2>0, <2>1, <2>2, <2>3 DEF Unwritten, GhostsUndo
<1> QED BY <1>1, <1>2

(* A write to the cache, with its record in the journal.                      *)
LEMMA WriteEffects ==
  ASSUME StoreInv, NEW c \in Conn, eState[c] \in {"WRITER_LOCKED"} \cup Modifying,
         step[c] = "idle", job[c] = "none", cache[c][1] # NotCached,
         NEW p \in Page, p <= dbSize[c] + 1, p <= dbSize[c] => cache[c][p] # NotCached,
         NEW content, Own(c, content), Write(c, p, content),
         UNCHANGED <<dbVars, dbFileVers, tx, before>>
  PROVE  /\ Originals(c)' /\ WriteAhead(c)' /\ Transaction(c)' /\ Image' = Image
         /\ IF eState[c] \in {"WRITER_LOCKED", "WRITER_CACHEMOD"}
              THEN Unwritten(c)' /\ ~IsHot(journal') ELSE synced'[c] <= journalDisk'.nRec
         /\ IsHot(journal') <=> IsHot(journal)
         /\ Durable' /\ GhostsUndo'
         /\ cache' \in [Conn -> [Page -> Content \cup {NotCached}]] /\ cache'[c][1] # Absent
         /\ dirty' \in [Conn -> SUBSET Page] /\ dbSize' \in [Conn -> 0..MaxPage]
         /\ synced' \in [Conn -> Nat]
         /\ cache'[c][p] = content /\ p \in dirty'[c]
         /\ dbFileVers'[c] = Version(Image') /\ (p = 1 => 1 \in Journaled(journal'))
<1> DEFINE j == Opened(c)
           was == cache[c][p]
<1>0. /\ journal' = Recorded(c, p)
      /\ dirty' = [dirty EXCEPT ![c] = @ \cup {p}]
      /\ cache' = [cache EXCEPT ![c][p] = content]
      /\ dbSize' = [dbSize EXCEPT ![c] = Max({@, p})]
      /\ db' = db /\ dbDisk' = dbDisk /\ tx' = tx /\ dbFileVers' = dbFileVers /\ before' = before
  BY DEF Write, dbVars
<1>1. /\ OpenedOK(c, j, synced'[c]) /\ Covers(j, journalDisk') /\ synced' \in [Conn -> Nat]
      /\ IF eState[c] \in {"WRITER_LOCKED", "WRITER_CACHEMOD"}
           THEN db = Image /\ synced'[c] = 0 /\ journalDisk'.nRec = -1
           ELSE synced'[c] <= journalDisk'.nRec
      /\ ghosts' # {} => ~IsHot(journal)
      /\ \A g \in ghosts' : JournalOK(g) /\ Recovered(db, g) \in {db, before}
  BY OpenedIsOK DEF Write
<1>2. /\ db \in [Page -> Content] /\ dirty \in [Conn -> SUBSET Page]
      /\ cache \in [Conn -> [Page -> Content \cup {NotCached}]]
      /\ dbSize \in [Conn -> 0..MaxPage] /\ dbSize[c] \in Int /\ p \in Int /\ 1 \in Page
      /\ p >= 1 /\ p <= MaxPage /\ MaxPage \in Int
      /\ content \in Content /\ content # Absent /\ content # NotCached
      /\ Image \in [Page -> Content]
  <2>1. /\ db \in [Page -> Content] /\ dirty \in [Conn -> SUBSET Page]
        /\ cache \in [Conn -> [Page -> Content \cup {NotCached}]]
        /\ dbSize \in [Conn -> 0..MaxPage] /\ Image \in [Page -> Content]
    BY ImageVersion DEF StoreInv, StoreTypeOK
  <2>2. p \in Int /\ 1 \in Page /\ p >= 1 /\ p <= MaxPage /\ MaxPage \in Int /\ dbSize[c] \in Int
    BY <2>1, PageIsInt, PagerAssumption
  <2>3. content \in Content /\ content # Absent /\ content # NotCached
    BY DEF Content, Own, Absent, NotCached
  <2> QED BY <2>1, <2>2, <2>3
<1>3. JournalOK(j) /\ j.exists /\ j.orig \in Page /\ j.orig \in Int /\ j.orig <= dbSize[c]
  BY <1>1, PageIsInt DEF OpenedOK
<1>4. p <= j.orig /\ p \notin Journaled(j) => was = Image[p]
  <2>1. p <= j.orig => was # NotCached /\ p \in 1..j.orig
    BY <1>2, <1>3
  <2> HIDE DEF j
  <2> QED BY <1>1, <2>1 DEF OpenedOK
<1>5. LongerBy(journal', j, p, was)
  <2>1. p <= j.orig /\ p \notin Journaled(j) => was \in Content /\ (p = 1 => was # Absent)
    BY <1>2, <1>4 DEF StoreInv, FileHasPage
  <2> QED BY <1>0, <1>3, <2>1, RecordedIsLonger
<1> HIDE DEF j
<1>6. /\ Image' = Image /\ (IsHot(journal') <=> IsHot(journal))
      /\ \A n \in Int : n <= Len(j.records) => Saved(journal', n) = Saved(j, n)
  BY <1>0, <1>1, <1>3, <1>5, LongerReadsTheSame DEF OpenedOK, Image
<1>7. /\ JournalOK(journal') /\ journal'.exists /\ journal'.orig = j.orig /\ journal'.nRec = j.nRec
      /\ Len(j.records) <= Len(journal'.records)
      /\ p > j.orig \/ p \in Journaled(journal')
      /\ Journaled(j) \subseteq Journaled(journal')
      /\ Len(j.records) \in Nat /\ Len(journal'.records) \in Nat
  BY <1>3, <1>5, JournalFacts DEF LongerBy
<1>8. /\ cache'[c][p] = content /\ \A q \in Page : q # p => cache'[c][q] = cache[c][q]
      /\ cache' \in [Conn -> [Page -> Content \cup {NotCached}]]
      /\ dirty'[c] = dirty[c] \cup {p} /\ dirty' \in [Conn -> SUBSET Page]
  BY <1>0, <1>2
<1>9. /\ dbSize'[c] = IF dbSize[c] >= p THEN dbSize[c] ELSE p
      /\ dbSize' \in [Conn -> 0..MaxPage]
  <2>1. Max({dbSize[c], p}) = IF dbSize[c] >= p THEN dbSize[c] ELSE p
    BY <1>2, TwoMax
  <2> QED BY <1>0, <1>2, <2>1
<1>10. Originals(c)'
  <2>1. ASSUME NEW i \in 1..Len(journal'.records)
        PROVE  journal'.records[i].was = Image[journal'.records[i].page]
    <3>1. CASE i \in 1..Len(j.records)
      BY <1>1, <1>5, <3>1 DEF LongerBy, OpenedOK
    <3>2. CASE i \notin 1..Len(j.records)
      <4>1. journal'.records[i] = [page |-> p, was |-> was] /\ p <= j.orig /\ p \notin Journaled(j)
        BY <1>5, <3>2 DEF LongerBy
      <4> QED BY <1>4, <4>1
    <3> QED BY <3>1, <3>2
  <2>2. \A q \in 1..j.orig : q \in Page
    BY <1>3, PagerAssumption DEF Page
  <2>3. ASSUME NEW q \in 1..j.orig \ Journaled(journal')
        PROVE  cache'[c][q] \in {NotCached, Image[q]}
    <3>1. q \in Page /\ q \notin Journaled(j) /\ q # p
      BY <1>2, <1>3, <1>7, <2>2
    <3> QED BY <1>1, <1>8, <3>1 DEF OpenedOK
  <2>4. ASSUME NEW q \in dirty'[c]
        PROVE  Own(c, cache'[c][q]) /\ (q > j.orig \/ q \in Journaled(journal'))
    <3>1. CASE q = p
      BY <1>7, <1>8, <3>1
    <3>2. CASE q # p
      <4>1. q \in dirty[c] /\ q \in Page
        BY <1>2, <1>8, <3>2
      <4> QED BY <1>1, <1>7, <1>8, <3>2, <4>1 DEF OpenedOK
    <3> QED BY <3>1, <3>2
  <2>5. HasSize(Image, j.orig) /\ j.orig <= dbSize'[c] /\ dbFileVers'[c] = Version(Image)
    BY <1>0, <1>1, <1>2, <1>3, <1>9 DEF OpenedOK
  <2>6. cache'[c][1] # NotCached
    BY <1>2, <1>8
  <2> QED BY <1>0, <1>6, <1>7, <2>1, <2>3, <2>4, <2>5, <2>6 DEF Originals, HasSize, Own, Version, Journaled
<1>11. WriteAhead(c)'
  <2>1. synced'[c] \in Nat /\ synced'[c] <= Len(j.records)
        /\ \A q \in 1..j.orig : db[q] = Image[q] \/ q \in Saved(j, synced'[c])
    BY <1>1 DEF OpenedOK
  <2>2. Saved(journal', synced'[c]) = Saved(j, synced'[c]) /\ synced'[c] <= Len(journal'.records)
    BY <1>6, <1>7, <2>1
  <2> QED BY <1>0, <1>6, <1>7, <2>1, <2>2 DEF WriteAhead, Saved
<1>12. Transaction(c)'
  <2>1. /\ \A q \in Page : db[q] = Image[q] \/ Own(c, db[q])
        /\ \A q \in Page \ dirty[c] : cache[c][q] \in {NotCached, db[q]}
        /\ dbSize[c] \in dirty[c] \/ db[dbSize[c]] # Absent
        /\ \A q \in Page : q > dbSize[c] => db[q] = Absent /\ q \notin dirty[c]
    BY <1>1 DEF OpenedOK, Transaction
  <2>2. \A q \in Page \ dirty'[c] : cache'[c][q] \in {NotCached, db[q]}
    BY <1>8, <2>1
  <2>3. dbSize'[c] \in dirty'[c] \/ db[dbSize'[c]] # Absent
    BY <1>8, <1>9, <2>1
  <2>4. \A q \in Page : q > dbSize'[c] => db[q] = Absent /\ q \notin dirty'[c]
    <3>1. \A q \in Page : q \in Int
      BY PageIsInt
    <3> QED BY <1>2, <1>8, <1>9, <2>1, <3>1
  <2> QED BY <1>0, <1>6, <2>1, <2>2, <2>3, <2>4 DEF Transaction, Own
<1>13. Durable'
  <2>1. /\ journalDisk'.nRec \in Int /\ -1 <= journalDisk'.nRec /\ journalDisk'.nRec <= j.nRec
        /\ Len(journalDisk'.records) \in Nat
        /\ j.nRec <= Len(journalDisk'.records)
        /\ Len(journalDisk'.records) <= Len(j.records)
        /\ j.nRec \in Int /\ j.nRec <= Len(j.records)
    BY <1>1, <1>3, JournalFacts DEF Covers, JournalOK
  <2>2. Saved(journal', journalDisk'.nRec) = Saved(j, journalDisk'.nRec)
        /\ Len(journalDisk'.records) <= Len(journal'.records)
    BY <1>6, <1>7, <2>1
  <2>3. \A q \in Page : Protected(q)' \/ dbDisk'[q] = {Image'[q]}
    BY <1>0, <1>1, <1>6, <1>7, <2>2 DEF Covers, Protected, Saved
  <2>4. \A q \in Page : db'[q] \in dbDisk'[q]
    BY <1>0 DEF StoreInv, Durable
  <2> QED BY <1>7, <2>1, <2>2, <2>3, <2>4 DEF Durable, JournalOK
<1>14. GhostsUndo'
  BY <1>0, <1>1, <1>6 DEF GhostsUndo, JournalOK
<1>15. IF eState[c] \in {"WRITER_LOCKED", "WRITER_CACHEMOD"}
         THEN Unwritten(c)' /\ ~IsHot(journal') ELSE synced'[c] <= journalDisk'.nRec
  <2>1. eState[c] \in {"WRITER_LOCKED", "WRITER_CACHEMOD"} => ~IsHot(journal)
    BY StoreFacts, JournalingFacts DEF HotIsOwn, Trusting, Writer, Modifying
  <2> QED BY <1>0, <1>1, <1>6, <2>1 DEF Unwritten
<1>16. cache'[c][1] # Absent
  BY <1>2, <1>8 DEF StoreInv, FileHasPage
<1>17. dbFileVers'[c] = Version(Image') /\ (p = 1 => 1 \in Journaled(journal'))
  BY <1>0, <1>1, <1>3, <1>6, <1>7, PageIsInt DEF OpenedOK
<1> QED BY <1>1, <1>6, <1>8, <1>9, <1>10, <1>11, <1>12, <1>13, <1>14, <1>15, <1>16, <1>17

LEMMA WriteKeepsStore ==
  ASSUME StoreInv, UNCHANGED processOf, NEW c \in Conn, Writing(c),
         eState[c] \in {"WRITER_LOCKED"} \cup Modifying,
         UNCHANGED <<dbVars, todo, tx, txs, before, dbFileVers>>,
         Image' = Image, IsHot(journal') <=> IsHot(journal), Durable', GhostsUndo',
         cache' \in [Conn -> [Page -> Content \cup {NotCached}]], cache'[c][1] # Absent,
         dirty' \in [Conn -> SUBSET Page], dbSize' \in [Conn -> 0..MaxPage],
         synced' \in [Conn -> Nat], ConnOK(c)'
  PROVE  StoreInv' /\ Image' = Image
<1>1. PagerInv' /\ Separate'
  BY StepKeepsLocks
<1>2. StoreTypeOK'
  BY DEF StoreInv, StoreTypeOK, dbVars
<1>3. FileHasPage'
  <2>1. \A d \in Conn \ {c} : cache'[d] = cache[d]
    BY OthersSameData DEF StoreInv, SameData
  <2> QED BY <2>1 DEF StoreInv, FileHasPage, dbVars
<1>4. \A d \in Conn \ {c} : ConnOK(d)'
  <2>1. eState[c] \in Writer
    BY DEF Writer, Modifying
  <2> QED BY <2>1, OthersKeep
<1> QED BY <1>1, <1>2, <1>3, <1>4 DEF StoreInv

(* A connection that may write sees a file with a first page.                 *)
LEMMA WriterHasFirstPage ==
  ASSUME StoreInv, NEW c \in Conn, eState[c] \in {"WRITER_LOCKED"} \cup Modifying, step[c] # "lower"
  PROVE  dbSize[c] >= 1
<1>1. CASE eState[c] = "WRITER_LOCKED"
  BY <1>1, StoreFacts, PageIsInt DEF ConnInv, Clean, UpToDate, HasSize
<1>2. CASE eState[c] \in Modifying
  <2>1. journal.orig <= dbSize[c] /\ journal.orig \in Page
    BY <1>2, JournalingFacts DEF Originals, HasSize
  <2> QED BY <2>1, PageIsInt, PagerAssumption DEF StoreInv, StoreTypeOK
<1> QED BY <1>1, <1>2

(* Where a write of a page lands.                                             *)
LEMMA WriteLocks ==
  ASSUME StoreInv, NEW c \in Conn, eState[c] \in {"WRITER_LOCKED"} \cup Modifying,
         step[c] = "idle", UNCHANGED <<processOf, lockVars>>, IsHot(journal') <=> IsHot(journal)
  PROVE  /\ eFileLock'[c] \in Level /\ eFileLock'[c] >= RESERVED_LOCK /\ Reserved(c)'
         /\ IsHot(journal') => eFileLock'[c] = EXCLUSIVE_LOCK
<1>1. eState[c] \in Writer
  BY DEF Writer, Modifying
<1>2. eFileLock[c] \in Level /\ eFileLock[c] >= RESERVED_LOCK /\ Reserved(c)
      /\ (IsHot(journal) => eFileLock[c] = EXCLUSIVE_LOCK)
  BY <1>1, StoreFacts DEF Locked, HotIsOwn, Trusting
<1> QED BY <1>2 DEF lockVars, Reserved

LEMMA WritePageKeepsStore ==
  ASSUME StoreInv, UNCHANGED processOf, NEW c \in Conn, NEW p \in Page, WritePage(c, p)
  PROVE  StoreInv' /\ Image' = Image
<1> DEFINE content == <<tx[c], IF p = 1 /\ cache[c][1] # NotCached THEN cache[c][1][2] ELSE 0>>
<1>1. /\ eState[c] \in {"WRITER_LOCKED"} \cup Modifying /\ step[c] = "idle" /\ job[c] = "none"
      /\ p \notin dirty[c] /\ p <= dbSize[c] + 1 /\ (p <= dbSize[c] => cache[c][p] # NotCached)
      /\ p = 1 \/ cache[c][1] # NotCached
      /\ Write(c, p, content)
      /\ eState' = [eState EXCEPT ![c] = IF @ = "WRITER_LOCKED" THEN "WRITER_CACHEMOD" ELSE @]
      /\ UNCHANGED <<lockVars, dbVars, job, step, dbFileVers, todo, tx, txs, faults, before>>
  BY DEF WritePage, Idle
<1>2. cache[c][1] # NotCached
  BY <1>1, WriterHasFirstPage
<1>3. Own(c, content)
  <2>1. tx[c] \in Nat
    BY DEF StoreInv, StoreTypeOK
  <2>2. ASSUME p = 1 PROVE cache[c][1] \in Nat \X Nat
    <3>0. 1 \in Page
      BY PageIsInt
    <3>1. CASE eState[c] = "WRITER_LOCKED"
      <4>1. UpToDate(c) /\ Image = db
        BY <3>1, StoreFacts, ColdImage DEF ConnInv, Clean, HotIsOwn, Trusting, Modifying, Writer
      <4> QED BY <1>2, <3>0, <4>1, ImageVersion DEF UpToDate, CacheIsOf
    <3>2. CASE eState[c] \in Modifying
      <4>1. Transaction(c)
        BY <1>1, <3>2, JournalingFacts
      <4> QED BY <1>1, <1>2, <2>2, <3>0, <4>1, ImageVersion DEF Transaction, Own
    <3> QED BY <1>1, <3>1, <3>2
  <2> QED BY <1>2, <2>1, <2>2 DEF Own
<1> HIDE DEF content
<1>4. Writing(c)
  BY DEF Writing
<1>5. /\ Originals(c)' /\ WriteAhead(c)' /\ Transaction(c)' /\ Image' = Image
      /\ IF eState[c] \in {"WRITER_LOCKED", "WRITER_CACHEMOD"}
           THEN Unwritten(c)' /\ ~IsHot(journal') ELSE synced'[c] <= journalDisk'.nRec
      /\ IsHot(journal') <=> IsHot(journal)
      /\ Durable' /\ GhostsUndo'
      /\ cache' \in [Conn -> [Page -> Content \cup {NotCached}]] /\ cache'[c][1] # Absent
      /\ dirty' \in [Conn -> SUBSET Page] /\ dbSize' \in [Conn -> 0..MaxPage]
      /\ synced' \in [Conn -> Nat]
      /\ dbFileVers'[c] = Version(Image')
  BY <1>1, <1>2, <1>3, WriteEffects
<1>6. /\ step'[c] = "idle" /\ job'[c] = "none"
      /\ eState'[c] = IF eState[c] = "WRITER_LOCKED" THEN "WRITER_CACHEMOD" ELSE eState[c]
  BY <1>1, StoreFacts DEF PagerTypeOK
<1>7. /\ eFileLock'[c] \in Level /\ eFileLock'[c] >= RESERVED_LOCK /\ Reserved(c)'
      /\ IsHot(journal') => eFileLock'[c] = EXCLUSIVE_LOCK
  BY <1>1, <1>5, WriteLocks
<1>8. ConnOK(c)'
  <2>1. eState'[c] \in Modifying
    BY <1>1, <1>6 DEF Modifying
  <2>2. /\ eState'[c] = "WRITER_CACHEMOD" => Unwritten(c)' /\ ~IsHot(journal')
        /\ eState'[c] = "WRITER_DBMOD" => synced'[c] <= journalDisk'.nRec
    BY <1>1, <1>5, <1>6 DEF Modifying
  <2> QED BY <1>5, <1>6, <1>7, <2>1, <2>2, LandsJournaling
<1> QED BY <1>1, <1>4, <1>5, <1>8, WriteKeepsStore

LEMMA CommitKeepsStore ==
  ASSUME StoreInv, UNCHANGED processOf, NEW c \in Conn, Commit(c)
  PROVE  StoreInv' /\ Image' = Image
<1> DEFINE content == <<tx[c], dbFileVers[c] + 1>>
<1>1. /\ eState[c] \in Modifying /\ step[c] = "idle" /\ job[c] = "none"
      /\ Write(c, 1, content)
      /\ UNCHANGED <<lockVars, dbVars, eState, dbFileVers, todo, tx, txs, faults, before>>
  BY DEF Commit, Idle
<1>2. cache[c][1] # NotCached /\ dbFileVers[c] = Version(Image)
  BY <1>1, JournalingFacts DEF Originals
<1>3. Own(c, content)
  BY DEF StoreInv, StoreTypeOK, Own
<1>4. content = <<tx[c], Version(Image) + 1>>
  BY <1>2
<1> HIDE DEF content
<1>5. Writing(c) /\ 1 \in Page
  BY PageIsInt DEF Writing
<1>6. /\ Originals(c)' /\ WriteAhead(c)' /\ Transaction(c)' /\ Image' = Image
      /\ IF eState[c] \in {"WRITER_LOCKED", "WRITER_CACHEMOD"}
           THEN Unwritten(c)' /\ ~IsHot(journal') ELSE synced'[c] <= journalDisk'.nRec
      /\ IsHot(journal') <=> IsHot(journal)
      /\ Durable' /\ GhostsUndo'
      /\ cache' \in [Conn -> [Page -> Content \cup {NotCached}]] /\ cache'[c][1] # Absent
      /\ dirty' \in [Conn -> SUBSET Page] /\ dbSize' \in [Conn -> 0..MaxPage]
      /\ synced' \in [Conn -> Nat]
      /\ cache'[c][1] = content /\ 1 \in dirty'[c]
      /\ dbFileVers'[c] = Version(Image') /\ 1 \in Journaled(journal')
  <2>1. 1 <= dbSize[c] + 1
    BY <1>1, WriterHasFirstPage DEF StoreInv, StoreTypeOK
  <2> QED BY <1>1, <1>2, <1>3, <1>5, <2>1, WriteEffects
<1>7. step'[c] = "lock" /\ job'[c] = "commit" /\ eState'[c] = eState[c]
  BY <1>1, StoreFacts DEF Commit, Goto, PagerTypeOK
<1>8. /\ eFileLock'[c] \in Level /\ eFileLock'[c] >= RESERVED_LOCK /\ Reserved(c)'
      /\ IsHot(journal') => eFileLock'[c] = EXCLUSIVE_LOCK
  BY <1>1, <1>6, WriteLocks
<1>9. NewVersion(c)'
  BY <1>1, <1>4, <1>6 DEF NewVersion, Version, Journaled
<1>10. ConnOK(c)'
  <2>1. /\ eState'[c] = "WRITER_CACHEMOD" => Unwritten(c)' /\ ~IsHot(journal')
        /\ eState'[c] = "WRITER_DBMOD" => synced'[c] <= journalDisk'.nRec
    BY <1>1, <1>6, <1>7 DEF Modifying
  <2> QED BY <1>1, <1>6, <1>7, <1>8, <1>9, <2>1, LandsJournaling DEF CommitStep
<1> QED BY <1>1, <1>5, <1>6, <1>10, WriteKeepsStore

(* A write to the file where the journal has the original, or a truncation,   *)
(* does not change what is read.                                              *)
LEMMA RecoveredTheSame ==
  ASSUME NEW j, JournalOK(j), IsHot(j), NEW file, NEW other,
         \A p \in Page : p <= j.orig /\ p \notin Saved(j, j.nRec) => other[p] = file[p]
  PROVE  Recovered(other, j) = Recovered(file, j)
<1> DEFINE R == Recovered(file, j)
           S == Recovered(other, j)
<1>1. R = [p \in Page |-> R[p]] /\ S = [p \in Page |-> S[p]]
  BY RecoveredHot
<1>2. ASSUME NEW p \in Page PROVE R[p] = S[p]
  <2>1. CASE p > j.orig
    BY <2>1, RecoveredHot
  <2>2. CASE p \in Saved(j, j.nRec)
    <3>1. PICK i \in 1..j.nRec : j.records[i].page = p
      BY <2>2 DEF Saved
    <3> QED BY <3>1, RecoveredHot
  <2>3. CASE p <= j.orig /\ p \notin Saved(j, j.nRec)
    BY <2>3, RecoveredHot
  <2>4. p \in Int /\ j.orig \in Int
    BY PageIsInt, JournalFacts, PagerAssumption
  <2> QED BY <2>1, <2>2, <2>3, <2>4
<1>3. R = S
  <2> HIDE DEF R, S
  <2>1. [p \in Page |-> R[p]] = [p \in Page |-> S[p]]
    BY <1>2
  <2> QED BY <1>1, <2>1
<1> QED BY <1>3

(* A header that counts more records saves more pages.                        *)
LEMMA SavedGrows ==
  ASSUME NEW j, NEW m \in Int, NEW n \in Int, m <= n
  PROVE  Saved(j, m) \subseteq Saved(j, n)
<1>1. 1..m \subseteq 1..n
  OBVIOUS
<1> QED BY <1>1 DEF Saved

(* Steps of a connection that has the file to itself.                         *)
LEMMA FileStep ==
  ASSUME StoreInv, UNCHANGED processOf, NEW c \in Conn,
         Reading(c) \/ Opening(c) \/ Writing(c) \/ Ending(c) \/ Fail(c),
         eFileLock[c] = EXCLUSIVE_LOCK, Image' = Image,
         db' \in [Page -> Content], db'[1] # Absent,
         dbDisk' \in [Page -> SUBSET Content], Absent \notin dbDisk'[1],
         cache' \in [Conn -> [Page -> Content \cup {NotCached}]], cache'[c][1] # Absent,
         dirty' \in [Conn -> SUBSET Page], dbFileVers' \in [Conn -> Nat],
         dbSize' \in [Conn -> 0..MaxPage],
         synced' \in [Conn -> Nat], todo' \in [Conn -> Seq(Record) \cup Seq(Page)],
         tx' \in [Conn -> Nat], txs' \in Nat, before' \in Images,
         Durable', GhostsUndo', ConnOK(c)'
  PROVE  StoreInv' /\ Image' = Image
<1>1. PagerInv' /\ Separate'
  BY StepKeepsLocks
<1>2. StoreTypeOK'
  BY DEF StoreInv, StoreTypeOK
<1>3. FileHasPage'
  <2>1. \A d \in Conn \ {c} : cache'[d] = cache[d]
    BY OthersSameData DEF StoreInv, SameData
  <2> QED BY <2>1 DEF StoreInv, FileHasPage
<1>4. \A d \in Conn \ {c} : ConnOK(d)'
  BY ImageVersion, OthersKeep
<1> QED BY <1>1, <1>2, <1>3, <1>4 DEF StoreInv

(* A sync of the journal.                                                     *)
LEMMA SyncedIsDurable ==
  ASSUME Durable, UNCHANGED <<db, dbDisk, journal>>, journalDisk' = journal
  PROVE  Durable'
<1>0. JournalOK(journal) /\ journal.nRec \in Int /\ journalDisk.nRec \in Int
      /\ -1 <= journalDisk.nRec /\ journalDisk.nRec <= journal.nRec
      /\ -1 <= journal.nRec /\ journal.nRec <= Len(journal.records) /\ Len(journal.records) \in Nat
  BY JournalFacts DEF Durable, JournalOK
<1>1. Image' = Image
  BY ImageStays
<1>2. \A p \in Page : Protected(p) => Protected(p)'
  <2>1. IsHot(journalDisk) => IsHot(journal)
    BY <1>0 DEF IsHot
  <2>2. Saved(journal, journalDisk.nRec) \subseteq Saved(journal, journal.nRec)
    BY <1>0, SavedGrows
  <2> QED BY <2>1, <2>2 DEF Protected, Saved
<1>3. \A p \in Page : db'[p] \in dbDisk'[p] /\ (Protected(p)' \/ dbDisk'[p] = {Image'[p]})
  BY <1>1, <1>2 DEF Durable
<1>4. Len(journal.records) <= Len(journal.records) /\ journal.nRec <= journal.nRec
  BY <1>0
<1> QED BY <1>0, <1>3, <1>4 DEF Durable, JournalOK

(* Where a commit or a spill is.                                              *)
LEMMA SyncStep ==
  ASSUME StoreInv, NEW c \in Conn, step[c] \in CommitStep
  PROVE  /\ job[c] \in {"commit", "spill"} /\ eState[c] \in Modifying
         /\ step[c] # "lock" => eFileLock[c] = EXCLUSIVE_LOCK /\ EXCLUSIVE_LOCK >= RESERVED_LOCK
         /\ EXCLUSIVE_LOCK \in Level
         /\ step[c] \in {"write", "sync file"} => eState[c] = "WRITER_DBMOD"
         /\ step[c] # "lower"
         /\ cache[c][1] # Absent
<1>1. job[c] \in {"commit", "spill"} /\ eState[c] \in Modifying
  BY StoreFacts DEF Control, HoldsExclusive, CommitStep, OpenStep, Job, Modifying
<1>2. step[c] # "lock" => eFileLock[c] = EXCLUSIVE_LOCK
  BY StoreFacts DEF HoldsExclusive, AloneStep, CommitStep
<1>3. step[c] \in {"write", "sync file"} => eState[c] = "WRITER_DBMOD"
  BY StoreFacts DEF Control
<1>4. EXCLUSIVE_LOCK >= RESERVED_LOCK /\ EXCLUSIVE_LOCK \in Level
  BY DEF EXCLUSIVE_LOCK, RESERVED_LOCK, Level
<1>5. step[c] # "lower" /\ cache[c][1] # Absent
  BY DEF StoreInv, FileHasPage, CommitStep
<1> QED BY <1>1, <1>2, <1>3, <1>4, <1>5

LEMMA SyncRecordsKeepsStore ==
  ASSUME StoreInv, UNCHANGED processOf, NEW c \in Conn, SyncRecords(c)
  PROVE  StoreInv' /\ Image' = Image
<1>0. step[c] = "sync records" /\ step[c] \in CommitStep /\ Writing(c)
  BY DEF SyncRecords, CommitStep, Writing
<1>1. /\ job[c] \in {"commit", "spill"} /\ eState[c] \in Modifying
      /\ eFileLock[c] = EXCLUSIVE_LOCK /\ EXCLUSIVE_LOCK >= RESERVED_LOCK /\ EXCLUSIVE_LOCK \in Level
      /\ cache[c][1] # Absent
  BY <1>0, SyncStep
<1>2. /\ journalDisk' = journal /\ ghosts' = {} /\ before' = Image
      /\ journal' = journal /\ db' = db /\ dbDisk' = dbDisk /\ eState' = eState /\ job' = job
      /\ eFileLock' = eFileLock /\ (Reserved(c)' <=> Reserved(c))
      /\ UNCHANGED <<cacheVars, txVars>>
  BY DEF SyncRecords, dbVars, lockVars, Reserved
<1>3. Image' = Image
  BY <1>2, ImageStays
<1>4. step'[c] = "write header"
  BY StoreFacts DEF SyncRecords, Goto, PagerTypeOK
<1>5. /\ Originals(c) /\ WriteAhead(c) /\ Transaction(c)
      /\ IF eState[c] = "WRITER_CACHEMOD" THEN Unwritten(c) /\ ~IsHot(journal)
         ELSE synced[c] <= journalDisk.nRec
      /\ job[c] = "spill" => dbFileVers[c] = Version(Image)
      /\ job[c] = "commit" => NewVersion(c)
      /\ Reserved(c) /\ synced[c] \in Nat
  BY <1>0, <1>1, JournalingFacts DEF Modifying
<1>6. /\ Originals(c)' /\ WriteAhead(c)' /\ Transaction(c)'
      /\ job[c] = "spill" => dbFileVers'[c] = Version(Image')
      /\ job[c] = "commit" => NewVersion(c)'
  <2>1. Originals(c)'
    BY <1>2, <1>3, <1>5 DEF Originals, HasSize, Own, Journaled, Version, cacheVars, txVars
  <2>2. WriteAhead(c)'
    BY <1>2, <1>3, <1>5 DEF WriteAhead, Saved, txVars
  <2>3. Transaction(c)'
    BY <1>2, <1>3, <1>5 DEF Transaction, Own, cacheVars, txVars
  <2> QED BY <1>2, <1>3, <1>5, <2>1, <2>2, <2>3 DEF NewVersion, Journaled, Version, cacheVars, txVars
<1>7. journal.nRec \in Int /\ journalDisk.nRec \in Int /\ journalDisk.nRec <= journal.nRec
      /\ -1 <= journal.nRec
  BY JournalFacts DEF StoreInv, Durable, JournalOK
<1>8. /\ eState[c] = "WRITER_CACHEMOD" => Unwritten(c)' /\ ~IsHot(journal')
      /\ eState[c] = "WRITER_DBMOD" => synced'[c] <= journalDisk'.nRec
  <2>1. eState[c] = "WRITER_CACHEMOD" => journal.nRec = -1
    BY <1>5, <1>7 DEF IsHot
  <2>2. eState[c] = "WRITER_DBMOD" => synced[c] <= journal.nRec
    BY <1>5, <1>7
  <2> QED BY <1>2, <1>3, <1>5, <2>1, <2>2 DEF Unwritten, txVars
<1>9. /\ job[c] = "commit" => 1 \in dirty'[c]
      /\ job[c] = "spill" => Spilling(c)'
  BY <1>0, <1>2, StoreFacts DEF ConnInv, JournalStep, Spilling, cacheVars, txVars
<1>10. RecordsSynced'
  BY <1>2 DEF RecordsSynced
<1>11. ConnOK(c)'
  BY <1>1, <1>2, <1>4, <1>5, <1>6, <1>8, <1>9, <1>10, LandsJournaling DEF CommitStep
<1>12. Durable' /\ GhostsUndo'
  BY <1>2, SyncedIsDurable DEF StoreInv, GhostsUndo
<1> QED BY <1>0, <1>1, <1>2, <1>3, <1>11, <1>12, FileStep
        DEF StoreInv, StoreTypeOK, FileHasPage, cacheVars, txVars

(* When a header counts all records, what is read is the image that they have *)
(* saved.                                                                     *)
LEMMA CountedReadsTheSame ==
  ASSUME StoreInv, NEW c \in Conn, Originals(c), WriteAhead(c),
         NEW j, j = [journal EXCEPT !.nRec = Len(journal.records)]
  PROVE  JournalOK(j) /\ IsHot(j) /\ Recovered(db, j) = Image
         /\ j.exists = journal.exists /\ j.orig = journal.orig /\ j.records = journal.records
         /\ j.nRec = Len(journal.records)
<1> DEFINE n == Len(journal.records)
<1>0. /\ JournalOK(journal) /\ n \in Nat /\ synced[c] \in Nat /\ synced[c] <= n
      /\ journal.orig \in Int /\ Image \in [Page -> Content]
  <2>1. JournalOK(journal) /\ synced[c] \in Nat /\ synced[c] <= n /\ Image \in [Page -> Content]
    BY ImageVersion DEF StoreInv, StoreTypeOK, Durable, WriteAhead
  <2>2. n \in Nat /\ journal.orig \in 0..MaxPage
    BY <2>1, JournalFacts
  <2> QED BY <2>1, <2>2, PagerAssumption
<1>1. /\ j.exists = journal.exists /\ j.orig = journal.orig /\ j.records = journal.records
      /\ j.nRec = n
      /\ j \in [exists : BOOLEAN, orig : 0..MaxPage, records : Seq(Record), nRec : Int]
  BY <1>0 DEF JournalOK
<1>2. JournalOK(j) /\ IsHot(j)
  <2>1. -1 <= n /\ n <= n /\ n >= 0
    BY <1>0
  <2> QED BY <1>0, <1>1, <2>1 DEF JournalOK, IsHot, Originals
<1>3. ASSUME NEW p \in Page PROVE Recovered(db, j)[p] = Image[p]
  <2>1. CASE p > j.orig
    BY <1>1, <1>2, <2>1, RecoveredHot DEF Originals, HasSize
  <2>2. CASE p \in Saved(j, n)
    <3>1. PICK i \in 1..n : j.records[i].page = p
      BY <2>2 DEF Saved
    <3>2. Recovered(db, j)[p] = j.records[i].was
      BY <1>1, <1>2, <3>1, RecoveredHot
    <3> QED BY <1>1, <3>1, <3>2 DEF Originals
  <2>3. CASE p <= j.orig /\ p \notin Saved(j, n)
    <3>1. Saved(j, synced[c]) \subseteq Saved(j, n)
      BY <1>0, SavedGrows
    <3>2. p \in 1..journal.orig /\ p \notin Saved(journal, synced[c])
      BY <1>0, <1>1, <2>3, <3>1, PageIsInt DEF Saved
    <3>3. db[p] = Image[p]
      BY <3>2 DEF WriteAhead
    <3> QED BY <1>1, <1>2, <2>3, <3>3, RecoveredHot
  <2> QED BY <1>0, <1>1, <2>1, <2>2, <2>3, PageIsInt
<1>4. Recovered(db, j) = [p \in Page |-> Recovered(db, j)[p]] /\ Image = [p \in Page |-> Image[p]]
  BY <1>0, <1>2, RecoveredHot
<1>5. [p \in Page |-> Recovered(db, j)[p]] = [p \in Page |-> Image[p]]
  BY <1>3
<1>6. Recovered(db, j) = Image
  BY <1>4, <1>5
<1> QED BY <1>1, <1>2, <1>6

(* A new header that changes nothing of what is read.                         *)
LEMMA CountedKeepsTransaction ==
  ASSUME NEW c \in Conn, db' = db, Image' = Image,
         journal'.exists = journal.exists, journal'.orig = journal.orig,
         journal'.records = journal.records,
         cache'[c] = cache[c], dirty'[c] = dirty[c], dbFileVers'[c] = dbFileVers[c],
         dbSize'[c] = dbSize[c], tx'[c] = tx[c]
  PROVE  /\ Originals(c) => Originals(c)'
         /\ synced'[c] = synced[c] /\ WriteAhead(c) => WriteAhead(c)'
         /\ NewVersion(c) => NewVersion(c)'
         /\ Transaction(c) => Transaction(c)'
<1>1. Journaled(journal') = Journaled(journal) /\ \A n : Saved(journal', n) = Saved(journal, n)
  BY DEF Journaled, Saved
<1>2. Originals(c) => Originals(c)'
  BY <1>1 DEF Originals, HasSize, Own, Journaled, Version
<1>3. synced'[c] = synced[c] /\ WriteAhead(c) => WriteAhead(c)'
  BY <1>1 DEF WriteAhead, Saved
<1>4. NewVersion(c) => NewVersion(c)'
  BY <1>1 DEF NewVersion, Journaled, Version
<1>5. Transaction(c) => Transaction(c)'
  BY DEF Transaction, Own
<1> QED BY <1>2, <1>3, <1>4, <1>5

LEMMA WriteHeaderKeepsStore ==
  ASSUME StoreInv, UNCHANGED processOf, NEW c \in Conn, WriteHeader(c)
  PROVE  StoreInv' /\ Image' = Image
<1>0. step[c] = "write header" /\ step[c] \in CommitStep /\ Writing(c)
  BY DEF WriteHeader, CommitStep, Writing
<1>1. /\ job[c] \in {"commit", "spill"} /\ eState[c] \in Modifying
      /\ eFileLock[c] = EXCLUSIVE_LOCK /\ EXCLUSIVE_LOCK >= RESERVED_LOCK /\ EXCLUSIVE_LOCK \in Level
      /\ cache[c][1] # Absent
  BY <1>0, SyncStep
<1>2. /\ journal' = [journal EXCEPT !.nRec = Len(journal.records)]
      /\ journalDisk' = journalDisk /\ ghosts' = ghosts /\ before' = before
      /\ db' = db /\ dbDisk' = dbDisk /\ eState' = eState /\ job' = job
      /\ eFileLock' = eFileLock /\ (Reserved(c)' <=> Reserved(c))
      /\ UNCHANGED <<cacheVars, txVars>>
  BY DEF WriteHeader, dbVars, lockVars, Reserved
<1>3. step'[c] = "sync header"
  BY StoreFacts DEF WriteHeader, Goto, PagerTypeOK
<1>4. /\ Originals(c) /\ WriteAhead(c) /\ Transaction(c)
      /\ IF eState[c] = "WRITER_CACHEMOD" THEN Unwritten(c)
         ELSE synced[c] <= journalDisk.nRec
      /\ job[c] = "spill" => dbFileVers[c] = Version(Image)
      /\ job[c] = "commit" => NewVersion(c)
      /\ Reserved(c) /\ synced[c] \in Nat
  BY <1>0, <1>1, JournalingFacts DEF Modifying
<1>5. /\ JournalOK(journal') /\ IsHot(journal') /\ Recovered(db, journal') = Image
      /\ journal'.exists = journal.exists /\ journal'.orig = journal.orig
      /\ journal'.records = journal.records /\ journal'.nRec = Len(journal.records)
  BY <1>2, <1>4, CountedReadsTheSame
<1>6. Image' = Image
  BY <1>2, <1>5 DEF Image
<1>7. /\ RecordsSynced /\ ghosts = {}
      /\ job[c] = "commit" => 1 \in dirty[c]
      /\ job[c] = "spill" => Spilling(c)
  BY <1>0, StoreFacts DEF ConnInv, JournalStep
<1>8. /\ Originals(c)' /\ WriteAhead(c)' /\ Transaction(c)'
      /\ job[c] = "commit" => NewVersion(c)'
      /\ job[c] = "spill" => dbFileVers'[c] = Version(Image')
  BY <1>2, <1>4, <1>5, <1>6, CountedKeepsTransaction DEF cacheVars, txVars
<1>9. /\ eState[c] = "WRITER_CACHEMOD" => Unwritten(c)'
      /\ eState[c] = "WRITER_DBMOD" => synced'[c] <= journalDisk'.nRec
  BY <1>2, <1>4, <1>6 DEF Unwritten, txVars
<1>10. /\ RecordsSynced' /\ ghosts' = {} /\ journal'.nRec = Len(journal'.records)
       /\ (job[c] = "commit" => 1 \in dirty'[c]) /\ (job[c] = "spill" => Spilling(c)')
  BY <1>2, <1>5, <1>7 DEF RecordsSynced, Spilling, cacheVars, txVars
<1>11. ConnOK(c)'
  BY <1>1, <1>2, <1>3, <1>4, <1>8, <1>9, <1>10, LandsJournaling DEF CommitStep
<1>12. Durable'
  <2>1. /\ journalDisk.nRec \in Int /\ -1 <= journalDisk.nRec /\ journalDisk.nRec <= journal.nRec
        /\ journal.nRec \in Int /\ journal.nRec <= Len(journal.records) /\ Len(journal.records) \in Nat
        /\ Len(journalDisk.records) = Len(journal.records)
    BY <1>7, JournalFacts DEF StoreInv, Durable, JournalOK, RecordsSynced
  <2>2. \A p \in Page : Protected(p) => Protected(p)'
    BY <1>2, <1>5 DEF Protected, Saved
  <2>3. \A p \in Page : db'[p] \in dbDisk'[p] /\ (Protected(p)' \/ dbDisk'[p] = {Image'[p]})
    BY <1>2, <1>6, <2>2 DEF StoreInv, Durable
  <2>4. journalDisk'.nRec <= journal'.nRec /\ journal'.nRec <= Len(journalDisk'.records)
        /\ Len(journalDisk'.records) <= Len(journal'.records)
    BY <1>2, <1>5, <2>1
  <2> QED BY <1>2, <1>5, <2>1, <2>3, <2>4 DEF Durable, JournalOK
<1>13. GhostsUndo'
  BY <1>2, <1>7 DEF GhostsUndo
<1> QED BY <1>0, <1>1, <1>2, <1>6, <1>11, <1>12, <1>13, FileStep
        DEF StoreInv, StoreTypeOK, FileHasPage, cacheVars, txVars

LEMMA SyncHeaderKeepsStore ==
  ASSUME StoreInv, UNCHANGED processOf, NEW c \in Conn, SyncHeader(c)
  PROVE  StoreInv' /\ Image' = Image
<1>0. step[c] = "sync header" /\ step[c] \in CommitStep /\ Writing(c)
  BY DEF SyncHeader, CommitStep, Writing
<1>1. /\ job[c] \in {"commit", "spill"} /\ eState[c] \in Modifying
      /\ eFileLock[c] = EXCLUSIVE_LOCK /\ EXCLUSIVE_LOCK >= RESERVED_LOCK /\ EXCLUSIVE_LOCK \in Level
      /\ cache[c][1] # Absent
  BY <1>0, SyncStep
<1>2. /\ journalDisk' = journal /\ ghosts' = ghosts /\ before' = before
      /\ journal' = journal /\ db' = db /\ dbDisk' = dbDisk /\ job' = job
      /\ eFileLock' = eFileLock /\ (Reserved(c)' <=> Reserved(c))
      /\ UNCHANGED <<cacheVars, todo, tx, txs>>
  BY DEF SyncHeader, dbVars, lockVars, Reserved
<1>3. step'[c] = "write" /\ eState'[c] = "WRITER_DBMOD"
  BY StoreFacts DEF SyncHeader, Goto, PagerTypeOK
<1>4. /\ Originals(c) /\ WriteAhead(c) /\ Transaction(c)
      /\ job[c] = "spill" => dbFileVers[c] = Version(Image)
      /\ job[c] = "commit" => NewVersion(c)
      /\ Reserved(c) /\ synced[c] \in Nat
  BY <1>0, <1>1, JournalingFacts DEF Modifying
<1>5. Image' = Image
  BY <1>2, ImageStays
<1>6. ghosts = {} /\ journal.nRec = Len(journal.records) /\ (job[c] = "spill" => Spilling(c))
  BY <1>0, StoreFacts DEF ConnInv
<1>7. Len(journal.records) \in Nat /\ JournalOK(journal)
  BY JournalFacts DEF StoreInv, Durable
<1>8. synced'[c] = Len(journal.records) /\ synced' \in [Conn -> Nat]
  BY <1>7 DEF SyncHeader, StoreInv, StoreTypeOK
<1>9. /\ Originals(c)' /\ Transaction(c)'
      /\ job[c] = "commit" => NewVersion(c)'
      /\ job[c] = "spill" => dbFileVers'[c] = Version(Image')
  BY <1>2, <1>4, <1>5, CountedKeepsTransaction DEF cacheVars
<1>10. Saved(journal, Len(journal.records)) = Journaled(journal)
  BY <1>7, SavedIsJournaled DEF Saved
<1>11. WriteAhead(c)'
  <2>1. Saved(journal, synced[c]) \subseteq Saved(journal, Len(journal.records))
    BY <1>4, <1>7, SavedGrows DEF WriteAhead
  <2>2. \A p \in 1..journal.orig : db[p] = Image[p] \/ p \in Saved(journal, Len(journal.records))
    BY <1>4, <2>1 DEF WriteAhead
  <2>3. Len(journal.records) <= Len(journal.records)
    BY <1>7
  <2> QED BY <1>2, <1>5, <1>8, <2>2, <2>3 DEF WriteAhead, Saved
<1>12. synced'[c] <= journalDisk'.nRec /\ synced'[c] = Len(journal'.records) /\ ghosts' = {}
  BY <1>2, <1>6, <1>7, <1>8
<1>13. job[c] = "spill" => Spilling(c)' /\ SpillIsSaved(c)'
  <2>1. ASSUME job[c] = "spill" PROVE Spilling(c)' /\ SpillIsSaved(c)'
    <3>1. PICK p \in dirty[c] \ {1} : todo[c] = <<p>>
      BY <1>6, <2>1 DEF Spilling
    <3>2. p > journal.orig \/ p \in Journaled(journal)
      BY <1>4, <3>1 DEF Originals
    <3>3. p > journal'.orig \/ p \in Saved(journal', synced'[c])
      BY <1>2, <1>8, <1>10, <3>2
    <3>4. todo'[c] = <<p>> /\ p \in dirty'[c] \ {1} /\ todo'[c][1] = p
      BY <1>2, <3>1 DEF cacheVars
    <3> QED BY <3>3, <3>4 DEF Spilling, SpillIsSaved, Saved
  <2> QED BY <2>1
<1>14. ConnOK(c)'
  <2>1. eState'[c] \in Modifying
    BY <1>3 DEF Modifying
  <2> QED BY <1>1, <1>2, <1>3, <1>4, <1>9, <1>11, <1>12, <1>13, <2>1, LandsJournaling
          DEF CommitStep, JournalStep
<1>15. Durable' /\ GhostsUndo'
  BY <1>2, <1>6, SyncedIsDurable DEF StoreInv, GhostsUndo
<1> QED BY <1>0, <1>1, <1>2, <1>5, <1>8, <1>14, <1>15, FileStep
        DEF StoreInv, StoreTypeOK, FileHasPage, cacheVars

(* A page of the file is written whose original is safe.                      *)
LEMMA ProtectedWrite ==
  ASSUME StoreInv, NEW p \in Page, NEW content \in Content,
         p = 1 => content # Absent, Protected(p), WritePages(p, content),
         UNCHANGED <<journal, journalDisk, ghosts>>
  PROVE  /\ Image' = Image /\ Durable' /\ GhostsUndo'
         /\ db' \in [Page -> Content] /\ db'[1] # Absent
         /\ dbDisk' \in [Page -> SUBSET Content] /\ Absent \notin dbDisk'[1]
         /\ db'[p] = content /\ \A q \in Page : q # p => db'[q] = db[q]
<1>0. /\ db \in [Page -> Content] /\ dbDisk \in [Page -> SUBSET Content] /\ 1 \in Page
      /\ db[1] # Absent /\ Absent \notin dbDisk[1] /\ Torn \in Content /\ Torn # Absent
      /\ Durable /\ GhostsUndo /\ JournalOK(journal)
  BY PageIsInt DEF StoreInv, StoreTypeOK, FileHasPage, Durable, Content, Torn, Absent
<1>1. /\ db' = [db EXCEPT ![p] = content]
      /\ dbDisk' = [dbDisk EXCEPT ![p] = @ \cup {content, Torn}]
  BY DEF WritePages
<1>2. /\ db' \in [Page -> Content] /\ db'[1] # Absent
      /\ dbDisk' \in [Page -> SUBSET Content] /\ Absent \notin dbDisk'[1]
      /\ db'[p] = content /\ \A q \in Page : q # p => db'[q] = db[q]
  BY <1>0, <1>1
<1>3. journalDisk.nRec \in Int /\ journal.nRec \in Int /\ journalDisk.nRec <= journal.nRec
      /\ journal.orig \in Int /\ p \in Int
  BY <1>0, JournalFacts, PageIsInt, PagerAssumption DEF Durable
<1>4. IsHot(journal) /\ ghosts = {} /\ (p > journal.orig \/ p \in Saved(journal, journal.nRec))
  <2>1. IsHot(journal)
    BY <1>3 DEF Protected, IsHot
  <2>2. Saved(journal, journalDisk.nRec) \subseteq Saved(journal, journal.nRec)
    BY <1>3, SavedGrows
  <2> QED BY <1>0, <2>1, <2>2 DEF Protected, GhostsUndo
<1>5. Image' = Image
  <2>1. \A q \in Page : q <= journal.orig /\ q \notin Saved(journal, journal.nRec) => db'[q] = db[q]
    BY <1>2, <1>3, <1>4
  <2>2. Recovered(db', journal) = Recovered(db, journal)
    BY <1>0, <1>4, <2>1, RecoveredTheSame
  <2> QED BY <2>2 DEF Image
<1>6. Durable'
  <2>1. \A q \in Page : Protected(q) <=> Protected(q)'
    BY DEF Protected, Saved
  <2>2. \A q \in Page : db'[q] \in dbDisk'[q] /\ (Protected(q)' \/ dbDisk'[q] = {Image'[q]})
    <3>1. \A q \in Page : q # p => dbDisk'[q] = dbDisk[q]
      BY <1>0, <1>1
    <3>2. db'[p] \in dbDisk'[p]
      BY <1>0, <1>1
    <3> QED BY <1>0, <1>2, <1>5, <2>1, <3>1, <3>2 DEF Durable
  <2> QED BY <1>0, <2>2 DEF Durable, JournalOK
<1>7. GhostsUndo'
  BY <1>4 DEF GhostsUndo
<1> QED BY <1>2, <1>5, <1>6, <1>7

(* A page that a transaction writes to the file.                              *)
LEMMA OwnWrite ==
  ASSUME StoreInv, NEW c \in Conn, eState[c] = "WRITER_DBMOD", step[c] = "write",
         NEW p \in dirty[c], p > journal.orig \/ p \in Saved(journal, synced[c]),
         WritePages(p, cache[c][p]), UNCHANGED <<journal, journalDisk, ghosts, synced, tx, dbSize>>,
         cache'[c][p] \in {cache[c][p], NotCached}, p = 1 => cache'[c][p] = cache[c][p],
         \A q \in Page : q # p => cache'[c][q] = cache[c][q],
         dirty'[c] = dirty[c] \ {p},
         1 \in Journaled(journal) \/ dbFileVers'[c] = Version(Image)
  PROVE  /\ Originals(c)' /\ WriteAhead(c)' /\ Transaction(c)'
         /\ synced'[c] <= journalDisk'.nRec
<1>0. /\ p \in Page /\ dirty[c] \subseteq Page /\ cache[c][p] \in Content \cup {NotCached}
      /\ JournalOK(journal) /\ synced[c] \in Nat /\ 1 \in Page
      /\ journalDisk.nRec \in Int
      /\ journal.orig \in 0..MaxPage
  BY PageIsInt, JournalFacts DEF StoreInv, StoreTypeOK, Durable
<1>1. /\ Originals(c) /\ WriteAhead(c) /\ Transaction(c)
      /\ synced[c] <= journalDisk.nRec /\ IsHot(journalDisk)
  <2>1. eState[c] \in Modifying /\ step[c] # "lower" /\ eState[c] # "WRITER_CACHEMOD"
    BY DEF Modifying
  <2>2. job[c] \in {"commit", "spill"}
    BY SyncStep DEF CommitStep
  <2> QED BY <2>1, <2>2, JournalingFacts
<1>2. Own(c, cache[c][p]) /\ cache[c][p] # NotCached /\ cache[c][p] # Absent /\ cache[c][p] \in Content
  BY <1>0, <1>1 DEF Originals, Own, NotCached, Absent
<1>3. Protected(p)
  <2>1. Saved(journal, synced[c]) \subseteq Saved(journal, journalDisk.nRec)
    BY <1>0, <1>1, SavedGrows
  <2> QED BY <1>1, <2>1 DEF Protected
<1>4. Image' = Image /\ db'[p] = cache[c][p] /\ \A q \in Page : q # p => db'[q] = db[q]
  BY <1>0, <1>2, <1>3, ProtectedWrite
<1>5. \A q \in 1..journal.orig : q \in Page
  BY <1>0, PagerAssumption DEF Page
<1>6. Originals(c)'
  <2>1. (\A q \in 1..journal.orig \ Journaled(journal) : cache[c][q] \in {NotCached, Image[q]})'
    BY <1>1, <1>4, <1>5 DEF Originals, Journaled
  <2>2. (\A q \in dirty[c] : Own(c, cache[c][q]) /\ (q > journal.orig \/ q \in Journaled(journal)))'
    BY <1>0, <1>1 DEF Originals, Own, Journaled
  <2>3. cache'[c][1] # NotCached
    BY <1>0, <1>1, <1>2 DEF Originals
  <2>4. (1 \notin Journaled(journal) => dbFileVers[c] = Version(Image))'
    BY <1>4 DEF Version, Journaled
  <2> QED BY <1>1, <1>4, <2>1, <2>2, <2>3, <2>4 DEF Originals, HasSize
<1>7. WriteAhead(c)'
  <2>1. \A q \in 1..journal.orig : db'[q] = Image[q] \/ q \in Saved(journal, synced[c])
    <3>1. \A q \in 1..journal.orig : ~(q > journal.orig)
      BY <1>0
    <3> QED BY <1>1, <1>4, <1>5, <3>1 DEF WriteAhead
  <2> QED BY <1>1, <1>4, <2>1 DEF WriteAhead, Saved
<1>8. Transaction(c)'
  <2>1. \A q \in Page : db'[q] = Image[q] \/ Own(c, db'[q])
    BY <1>1, <1>2, <1>4 DEF Transaction
  <2>2. \A q \in Page \ dirty'[c] : cache'[c][q] \in {NotCached, db'[q]}
    BY <1>1, <1>4 DEF Transaction
  <2>3. dbSize[c] \in dirty'[c] \/ db'[dbSize[c]] # Absent
    <3>1. dbSize[c] \in Page
      BY <1>0, <1>1, PagerAssumption DEF Originals, HasSize, Page, StoreInv, StoreTypeOK
    <3> QED BY <1>1, <1>2, <1>4, <3>1 DEF Transaction
  <2>4. \A q \in Page : q > dbSize[c] => db'[q] = Absent /\ q \notin dirty'[c]
    BY <1>1, <1>4 DEF Transaction
  <2> QED BY <1>4, <2>1, <2>2, <2>3, <2>4 DEF Transaction, Own
<1> QED BY <1>1, <1>6, <1>7, <1>8

(* What a connection has that writes its pages to the file.                   *)
LEMMA WritingFacts ==
  ASSUME StoreInv, NEW c \in Conn, step[c] \in {"write", "sync file"}
  PROVE  /\ eState[c] = "WRITER_DBMOD" /\ eFileLock[c] = EXCLUSIVE_LOCK /\ Reserved(c)
         /\ EXCLUSIVE_LOCK >= RESERVED_LOCK /\ EXCLUSIVE_LOCK \in Level
         /\ job[c] \in {"commit", "spill"}
         /\ Originals(c) /\ WriteAhead(c) /\ Transaction(c)
         /\ synced[c] \in Nat /\ synced[c] <= journalDisk.nRec
         /\ IsHot(journalDisk) /\ IsHot(journal) /\ ghosts = {}
         /\ job[c] = "commit" => NewVersion(c)
         /\ job[c] = "spill" => Spilling(c) /\ dbFileVers[c] = Version(Image)
         /\ job[c] = "commit" /\ step[c] = "write" => synced[c] = Len(journal.records)
         /\ job[c] = "spill" /\ step[c] = "write" => SpillIsSaved(c)
         /\ step[c] = "sync file" => dirty[c] = {} /\ job[c] = "commit"
         /\ JournalOK(journal) /\ Len(journal.records) \in Nat
<1>1. step[c] \in CommitStep /\ step[c] # "lock" /\ step[c] # "lower"
  BY DEF CommitStep
<1>2. /\ job[c] \in {"commit", "spill"} /\ eState[c] = "WRITER_DBMOD" /\ eState[c] \in Modifying
      /\ eFileLock[c] = EXCLUSIVE_LOCK /\ EXCLUSIVE_LOCK >= RESERVED_LOCK /\ EXCLUSIVE_LOCK \in Level
  BY <1>1, SyncStep
<1>3. eState[c] # "WRITER_CACHEMOD"
  BY <1>2
<1>4. /\ Originals(c) /\ WriteAhead(c) /\ Transaction(c)
      /\ synced[c] \in Nat /\ synced[c] <= journalDisk.nRec /\ Reserved(c)
      /\ IsHot(journalDisk) /\ IsHot(journal) /\ ghosts = {}
      /\ job[c] = "commit" => NewVersion(c)
      /\ job[c] = "spill" => dbFileVers[c] = Version(Image)
  BY <1>1, <1>2, <1>3, JournalingFacts
<1>5. /\ job[c] = "spill" => Spilling(c)
      /\ job[c] = "commit" /\ step[c] = "write" => synced[c] = Len(journal.records)
      /\ job[c] = "spill" /\ step[c] = "write" => SpillIsSaved(c)
      /\ step[c] = "sync file" => dirty[c] = {}
  BY StoreFacts DEF ConnInv
<1>6. step[c] = "sync file" => job[c] = "commit"
  BY <1>2, StoreFacts DEF Control
<1>7. JournalOK(journal) /\ Len(journal.records) \in Nat
  BY JournalFacts DEF StoreInv, Durable
<1> QED BY <1>2, <1>4, <1>5, <1>6, <1>7

LEMMA WriteDbKeepsStore ==
  ASSUME StoreInv, UNCHANGED processOf, NEW c \in Conn, WriteDb(c)
  PROVE  StoreInv' /\ Image' = Image
<1>0. /\ step[c] = "write" /\ job[c] = "commit" /\ Writing(c)
      /\ eState' = eState /\ job' = job /\ cache' = cache /\ dbSize' = dbSize
      /\ eFileLock' = eFileLock /\ (Reserved(c)' <=> Reserved(c))
      /\ UNCHANGED <<journalVars, before>>
      /\ synced' = synced /\ todo' = todo /\ tx' = tx /\ txs' = txs
      /\ journal' = journal /\ journalDisk' = journalDisk /\ ghosts' = ghosts
  BY DEF WriteDb, At, Writing, journalVars, txVars, lockVars, Reserved
<1>1. /\ eState[c] = "WRITER_DBMOD" /\ eState[c] \in Modifying
      /\ eFileLock[c] = EXCLUSIVE_LOCK /\ Reserved(c)
      /\ EXCLUSIVE_LOCK >= RESERVED_LOCK /\ EXCLUSIVE_LOCK \in Level
      /\ Originals(c) /\ WriteAhead(c) /\ Transaction(c) /\ NewVersion(c)
      /\ synced[c] \in Nat /\ synced[c] <= journalDisk.nRec /\ ghosts = {}
      /\ synced[c] = Len(journal.records) /\ JournalOK(journal)
  BY <1>0, WritingFacts DEF Modifying
<1>2. /\ db \in [Page -> Content] /\ db[1] # Absent /\ cache[c][1] # Absent
      /\ dbDisk \in [Page -> SUBSET Content] /\ Absent \notin dbDisk[1]
      /\ cache \in [Conn -> [Page -> Content \cup {NotCached}]]
      /\ dirty \in [Conn -> SUBSET Page] /\ dbFileVers \in [Conn -> Nat]
      /\ dbSize \in [Conn -> 0..MaxPage]
      /\ synced \in [Conn -> Nat] /\ todo \in [Conn -> Seq(Record) \cup Seq(Page)]
      /\ tx \in [Conn -> Nat] /\ txs \in Nat /\ before \in Images /\ 1 \in Page
  BY PageIsInt DEF StoreInv, StoreTypeOK, FileHasPage
<1>3. CASE dirty[c] = {}
  <2>1. UNCHANGED <<dbVars, dirty, dbFileVers>> /\ Goto(c, "sync file")
    BY <1>3 DEF WriteDb
  <2>2. step'[c] = "sync file"
    BY <2>1, StoreFacts DEF Goto, PagerTypeOK
  <2>3. /\ Originals(c)' /\ WriteAhead(c)' /\ Transaction(c)' /\ NewVersion(c)'
    BY <1>0, <1>1, <2>1, TransactionStays DEF dbVars
  <2>4. ConnOK(c)'
    BY <1>0, <1>1, <1>3, <2>1, <2>2, <2>3, LandsJournaling DEF CommitStep, JournalStep
  <2> QED BY <1>0, <1>2, <2>1, <2>4, ControlStep DEF cacheVars
<1>4. CASE dirty[c] # {}
  <2> DEFINE p == Min(dirty[c])
  <2>1. p \in dirty[c] /\ p \in Page
    BY <1>2, <1>4, MinIsThere
  <2>2. /\ WritePages(p, cache[c][p])
        /\ dirty' = [dirty EXCEPT ![c] = @ \ {p}]
        /\ dbFileVers' = IF p = 1 THEN [dbFileVers EXCEPT ![c] = cache[c][1][2]] ELSE dbFileVers
        /\ step' = step
    BY <1>4 DEF WriteDb
  <2> HIDE DEF p
  <2>3. p > journal.orig \/ p \in Saved(journal, synced[c])
    BY <1>1, <2>1, SavedIsJournaled DEF Originals, Saved
  <2>4. /\ dirty' \in [Conn -> SUBSET Page] /\ dirty'[c] = dirty[c] \ {p}
    BY <1>2, <2>2
  <2>5. Originals(c)' /\ WriteAhead(c)' /\ Transaction(c)' /\ synced'[c] <= journalDisk'.nRec
    <3>1. 1 \in Journaled(journal)
      BY <1>1 DEF NewVersion
    <3> QED BY <1>0, <1>1, <2>1, <2>2, <2>3, <2>4, <3>1, OwnWrite
  <2>6. Protected(p) /\ cache[c][p] \in Content /\ cache[c][p] # Absent
    <3>1. Own(c, cache[c][p])
      BY <1>1, <2>1 DEF Originals
    <3>2. cache[c][p] \in Content /\ cache[c][p] # Absent
      BY <3>1 DEF Own, Content, Absent
    <3>3. journalDisk.nRec \in Int
      BY DEF StoreInv, Durable
    <3>4. Saved(journal, synced[c]) \subseteq Saved(journal, journalDisk.nRec)
      BY <1>1, <3>3, SavedGrows
    <3>5. IsHot(journalDisk)
      BY <1>1, <3>3 DEF IsHot
    <3> QED BY <2>3, <3>2, <3>4, <3>5 DEF Protected
  <2>7. /\ Image' = Image /\ Durable' /\ GhostsUndo'
        /\ db' \in [Page -> Content] /\ db'[1] # Absent
        /\ dbDisk' \in [Page -> SUBSET Content] /\ Absent \notin dbDisk'[1]
    BY <1>0, <2>1, <2>2, <2>6, ProtectedWrite
  <2>8. cache[c][1] = <<tx[c], Version(Image) + 1>> /\ Version(Image) \in Nat
    BY <1>1, ImageVersion DEF NewVersion
  <2>9. dbFileVers' \in [Conn -> Nat]
    BY <1>2, <2>2, <2>8
  <2>10. NewVersion(c)'
    <3>1. dbFileVers'[c] = IF 1 \in dirty'[c] THEN Version(Image) ELSE Version(Image) + 1
      BY <1>1, <1>2, <2>1, <2>2, <2>4, <2>8 DEF NewVersion
    <3> QED BY <1>0, <1>1, <2>7, <3>1 DEF NewVersion, Journaled, Version
  <2>11. ConnOK(c)'
    BY <1>0, <1>1, <2>2, <2>5, <2>10, LandsJournaling DEF CommitStep, JournalStep
  <2> QED BY <1>0, <1>1, <1>2, <2>4, <2>7, <2>9, <2>11, FileStep
<1> QED BY <1>3, <1>4

LEMMA WriteSpilledKeepsStore ==
  ASSUME StoreInv, UNCHANGED processOf, NEW c \in Conn, WriteSpilled(c)
  PROVE  StoreInv' /\ Image' = Image
<1>0. /\ step[c] = "write" /\ job[c] = "spill" /\ Writing(c)
      /\ dbSize' = dbSize /\ dbFileVers' = dbFileVers
      /\ eFileLock' = eFileLock /\ (Reserved(c)' <=> Reserved(c))
      /\ before' = before
      /\ synced' = synced /\ tx' = tx /\ txs' = txs
      /\ journal' = journal /\ journalDisk' = journalDisk /\ ghosts' = ghosts
  BY DEF WriteSpilled, At, Writing, journalVars, lockVars, Reserved
<1>1. /\ eState[c] = "WRITER_DBMOD" /\ eState[c] \in Modifying
      /\ eFileLock[c] = EXCLUSIVE_LOCK /\ Reserved(c)
      /\ EXCLUSIVE_LOCK >= RESERVED_LOCK /\ EXCLUSIVE_LOCK \in Level
      /\ Originals(c) /\ WriteAhead(c) /\ Transaction(c) /\ Spilling(c) /\ SpillIsSaved(c)
      /\ dbFileVers[c] = Version(Image)
      /\ synced[c] \in Nat /\ synced[c] <= journalDisk.nRec /\ ghosts = {}
      /\ JournalOK(journal)
  BY <1>0, WritingFacts DEF Modifying
<1>2. /\ db \in [Page -> Content] /\ db[1] # Absent /\ cache[c][1] # Absent
      /\ dbDisk \in [Page -> SUBSET Content] /\ Absent \notin dbDisk[1]
      /\ cache \in [Conn -> [Page -> Content \cup {NotCached}]]
      /\ dirty \in [Conn -> SUBSET Page] /\ dbFileVers \in [Conn -> Nat]
      /\ dbSize \in [Conn -> 0..MaxPage]
      /\ synced \in [Conn -> Nat] /\ todo \in [Conn -> Seq(Record) \cup Seq(Page)]
      /\ tx \in [Conn -> Nat] /\ txs \in Nat /\ before \in Images /\ 1 \in Page
  BY PageIsInt DEF StoreInv, StoreTypeOK, FileHasPage
<1>3. PICK p \in dirty[c] \ {1} : todo[c] = <<p>>
  BY <1>1 DEF Spilling
<1>4. p \in Page /\ p \in dirty[c] /\ p # 1 /\ todo[c][1] = p
  BY <1>2, <1>3
<1>5. /\ WritePages(p, cache[c][p])
      /\ dirty' = [dirty EXCEPT ![c] = @ \ {p}]
      /\ cache' = [cache EXCEPT ![c][p] = NotCached]
      /\ todo' = [todo EXCEPT ![c] = <<>>]
      /\ Return(c, "WRITER_DBMOD")
  BY <1>1, <1>4 DEF WriteSpilled
<1>6. p > journal.orig \/ p \in Saved(journal, synced[c])
  BY <1>1, <1>4 DEF SpillIsSaved
<1>7. /\ dirty' \in [Conn -> SUBSET Page] /\ dirty'[c] = dirty[c] \ {p}
      /\ cache'[c][p] = NotCached /\ \A q \in Page : q # p => cache'[c][q] = cache[c][q]
      /\ cache' \in [Conn -> [Page -> Content \cup {NotCached}]]
  BY <1>2, <1>4, <1>5
<1>8. /\ todo' \in [Conn -> Seq(Record) \cup Seq(Page)]
  <2>1. <<>> \in Seq(Page)
    OBVIOUS
  <2> QED BY <1>2, <1>5, <2>1
<1>9. Protected(p) /\ cache[c][p] \in Content /\ cache[c][p] # Absent
  <2>1. Own(c, cache[c][p])
    BY <1>1, <1>4 DEF Originals
  <2>2. cache[c][p] \in Content /\ cache[c][p] # Absent
    BY <2>1 DEF Own, Content, Absent
  <2>3. journalDisk.nRec \in Int
    BY DEF StoreInv, Durable
  <2>4. Saved(journal, synced[c]) \subseteq Saved(journal, journalDisk.nRec)
    BY <1>1, <2>3, SavedGrows
  <2>5. IsHot(journalDisk)
    BY <1>1, <2>3 DEF IsHot
  <2> QED BY <1>6, <2>2, <2>4, <2>5 DEF Protected
<1>10. /\ Image' = Image /\ Durable' /\ GhostsUndo'
       /\ db' \in [Page -> Content] /\ db'[1] # Absent
       /\ dbDisk' \in [Page -> SUBSET Content] /\ Absent \notin dbDisk'[1]
  BY <1>0, <1>4, <1>5, <1>9, ProtectedWrite
<1>11. dbFileVers'[c] = Version(Image) /\ Version(Image') = Version(Image)
  BY <1>0, <1>1, <1>10
<1>12. Originals(c)' /\ WriteAhead(c)' /\ Transaction(c)' /\ synced'[c] <= journalDisk'.nRec
  BY <1>0, <1>1, <1>4, <1>5, <1>6, <1>7, <1>11, OwnWrite
<1>13. step'[c] = "idle" /\ job'[c] = "none" /\ eState'[c] = "WRITER_DBMOD" /\ eState'[c] \in Modifying
  BY <1>5, StoreFacts DEF Return, PagerTypeOK, Modifying
<1>14. ConnOK(c)'
  BY <1>0, <1>1, <1>11, <1>12, <1>13, LandsJournaling
<1>15. cache'[c][1] # Absent /\ dbFileVers' \in [Conn -> Nat] /\ dbSize' \in [Conn -> 0..MaxPage]
       /\ synced' \in [Conn -> Nat] /\ tx' \in [Conn -> Nat] /\ txs' \in Nat /\ before' \in Images
  BY <1>0, <1>2, <1>4, <1>7
<1> QED BY <1>0, <1>1, <1>7, <1>8, <1>10, <1>14, <1>15, FileStep

(* A sync of the file.                                                        *)
LEMMA SyncedFileIsDurable ==
  ASSUME StoreInv, SyncFile, UNCHANGED <<db, journal, journalDisk, ghosts, before>>
  PROVE  /\ Durable' /\ GhostsUndo' /\ FileSynced' /\ Image' = Image
         /\ dbDisk' \in [Page -> SUBSET Content] /\ Absent \notin dbDisk'[1]
<1>1. Image' = Image /\ dbDisk' = [p \in Page |-> {db[p]}] /\ 1 \in Page
      /\ db \in [Page -> Content] /\ db[1] # Absent
  BY ImageStays, PageIsInt DEF SyncFile, StoreInv, StoreTypeOK, FileHasPage
<1>2. dbDisk' \in [Page -> SUBSET Content] /\ Absent \notin dbDisk'[1] /\ FileSynced'
  BY <1>1 DEF FileSynced
<1>3. \A p \in Page : Protected(p)' <=> Protected(p)
  BY DEF Protected, Saved
<1>4. \A p \in Page : db'[p] \in dbDisk'[p] /\ (Protected(p)' \/ dbDisk'[p] = {Image'[p]})
  BY <1>1, <1>3 DEF StoreInv, Durable
<1>5. Durable'
  BY <1>4 DEF StoreInv, Durable, JournalOK
<1>6. GhostsUndo'
  BY DEF StoreInv, GhostsUndo, JournalOK
<1> QED BY <1>1, <1>2, <1>5, <1>6

LEMMA SyncDbKeepsStore ==
  ASSUME StoreInv, UNCHANGED processOf, NEW c \in Conn, SyncDb(c)
  PROVE  StoreInv' /\ Image' = Image
<1>0. /\ step[c] = "sync file" /\ job[c] = "commit" /\ Writing(c) /\ SyncFile
      /\ db' = db /\ job' = job /\ cache' = cache /\ dbSize' = dbSize
      /\ dirty' = dirty /\ dbFileVers' = dbFileVers
      /\ eFileLock' = eFileLock /\ (Reserved(c)' <=> Reserved(c))
      /\ synced' = synced /\ todo' = todo /\ tx' = tx /\ txs' = txs /\ before' = before
      /\ journal' = journal /\ journalDisk' = journalDisk /\ ghosts' = ghosts
  BY DEF SyncDb, At, Writing, journalVars, cacheVars, txVars, lockVars, Reserved
<1>1. /\ eFileLock[c] = EXCLUSIVE_LOCK /\ Reserved(c)
      /\ EXCLUSIVE_LOCK >= RESERVED_LOCK /\ EXCLUSIVE_LOCK \in Level
      /\ Originals(c) /\ WriteAhead(c) /\ Transaction(c) /\ NewVersion(c)
      /\ synced[c] \in Nat /\ synced[c] <= journalDisk.nRec /\ dirty[c] = {}
  BY <1>0, WritingFacts
<1>2. step'[c] = "unlink" /\ eState'[c] = "WRITER_FINISHED" /\ job'[c] = "commit"
  BY <1>0, StoreFacts DEF SyncDb, Goto, PagerTypeOK
<1>3. /\ Durable' /\ GhostsUndo' /\ FileSynced' /\ Image' = Image
      /\ dbDisk' \in [Page -> SUBSET Content] /\ Absent \notin dbDisk'[1]
  BY <1>0, SyncedFileIsDurable
<1>4. /\ Originals(c)' /\ WriteAhead(c)' /\ Transaction(c)' /\ NewVersion(c)'
  BY <1>0, <1>1, TransactionStays
<1>5. ConnOK(c)'
  <2>1. Control(c)'
    BY <1>2 DEF Control, Modifying, CommitStep, OpenStep
  <2>2. Locked(c)'
    <3>0. EXCLUSIVE_LOCK # NO_LOCK
      BY DEF EXCLUSIVE_LOCK, NO_LOCK
    <3>1. eFileLock'[c] = EXCLUSIVE_LOCK /\ Reserved(c)' /\ EXCLUSIVE_LOCK # NO_LOCK
      BY <1>0, <1>1, <3>0
    <3>2. eState'[c] \in Writer
      BY <1>2 DEF Writer
    <3> QED BY <1>1, <1>2, <3>1, <3>2 DEF Locked
  <2>3. HotIsOwn(c)'
    BY <1>0, <1>1, <1>2 DEF HotIsOwn
  <2>4. ConnInv(c)'
    BY <1>0, <1>1, <1>2, <1>3, <1>4 DEF ConnInv, Clean, JournalStep, Modifying
  <2> QED BY <2>1, <2>2, <2>3, <2>4 DEF ConnOK
<1>6. /\ db' \in [Page -> Content] /\ db'[1] # Absent
      /\ cache' \in [Conn -> [Page -> Content \cup {NotCached}]] /\ cache'[c][1] # Absent
      /\ dirty' \in [Conn -> SUBSET Page] /\ dbFileVers' \in [Conn -> Nat]
      /\ dbSize' \in [Conn -> 0..MaxPage]
      /\ synced' \in [Conn -> Nat] /\ todo' \in [Conn -> Seq(Record) \cup Seq(Page)]
      /\ tx' \in [Conn -> Nat] /\ txs' \in Nat /\ before' \in Images
  BY <1>0 DEF StoreInv, StoreTypeOK, FileHasPage
<1> QED BY <1>0, <1>1, <1>3, <1>5, <1>6, FileStep

(* A rollback or a recovery, until the journal is deleted.                    *)
LEMMA LandsRestoring ==
  ASSUME NEW c \in Conn, step'[c] \in {"replay", "unlink"},
         eFileLock'[c] \in Level, eFileLock'[c] >= RESERVED_LOCK,
         eState'[c] # "WRITER_CACHEMOD" => eFileLock'[c] = EXCLUSIVE_LOCK,
         IsHot(journal') => eFileLock'[c] = EXCLUSIVE_LOCK,
         \/ job'[c] = "open" /\ eState'[c] = "OPEN" /\ ~Reserved(c)' /\ Outdated(c)'
         \/ /\ job'[c] = "rollback" /\ eState'[c] \in Modifying /\ Reserved(c)'
            /\ Originals(c)' /\ WriteAhead(c)' /\ RolledBack(c)'
            /\ eState'[c] = "WRITER_CACHEMOD" => Unwritten(c)' /\ step'[c] = "unlink"
            /\ eState'[c] = "WRITER_DBMOD" => synced'[c] <= journalDisk'.nRec,
         step'[c] = "replay" => Replaying(c)',
         step'[c] = "unlink" => FileSynced' /\ db' = Image'
  PROVE  ConnOK(c)'
<1>0. /\ step'[c] \notin {"idle", "validate", "lower", "obsolete", "delete"}
      /\ step'[c] \notin {"exists", "reserved", "header", "write", "sync file"}
      /\ step'[c] \notin {"write header", "sync header"}
      /\ eFileLock'[c] # NO_LOCK
      /\ eState'[c] \in {"OPEN", "WRITER_CACHEMOD", "WRITER_DBMOD"}
  BY AboveNoLock DEF Modifying
<1>1. CASE job'[c] = "open" /\ eState'[c] = "OPEN" /\ ~Reserved(c)' /\ Outdated(c)'
  <2>1. Control(c)'
    BY <1>0, <1>1 DEF Control
  <2>2. Locked(c)'
    BY <1>0, <1>1 DEF Locked, Writer
  <2>3. HotIsOwn(c)'
    BY <1>0, <1>1 DEF HotIsOwn, Trusting, Writer
  <2>4. ConnInv(c)'
    BY <1>0, <1>1 DEF ConnInv, Clean, Journaling, Modifying
  <2> QED BY <2>1, <2>2, <2>3, <2>4 DEF ConnOK
<1>2. CASE /\ job'[c] = "rollback" /\ eState'[c] \in Modifying /\ Reserved(c)'
           /\ Originals(c)' /\ WriteAhead(c)' /\ RolledBack(c)'
           /\ eState'[c] = "WRITER_CACHEMOD" => Unwritten(c)' /\ step'[c] = "unlink"
           /\ eState'[c] = "WRITER_DBMOD" => synced'[c] <= journalDisk'.nRec
  <2>0. eState'[c] \in {"WRITER_CACHEMOD", "WRITER_DBMOD"} /\ eState'[c] \in Writer
    BY <1>2 DEF Modifying, Writer
  <2>1. Control(c)'
    BY <1>0, <1>2, <2>0 DEF Control
  <2>2. Locked(c)'
    BY <1>0, <1>2, <2>0 DEF Locked
  <2>3. HotIsOwn(c)'
    BY <1>0, <1>2 DEF HotIsOwn
  <2>4. ConnInv(c)'
    <3>1. ~Clean(c)'
      BY <1>0, <2>0 DEF Clean
    <3>2. (IF eState[c] = "WRITER_CACHEMOD" THEN Unwritten(c) ELSE synced[c] <= journalDisk.nRec)'
      BY <1>2, <2>0
    <3> QED BY <1>0, <1>2, <2>0, <3>1, <3>2 DEF ConnInv
  <2> QED BY <2>1, <2>2, <2>3, <2>4 DEF ConnOK
<1> QED BY <1>1, <1>2

(* The file gets its original size, which the journal has.                    *)
LEMMA TruncateEffects ==
  ASSUME StoreInv, IsHot(journal), Truncate(journal.orig), UNCHANGED <<journal, ghosts, before>>,
         journalDisk' \in {journalDisk, journal}, IsHot(journalDisk')
  PROVE  /\ Image' = Image /\ Durable' /\ GhostsUndo'
         /\ db' \in [Page -> Content] /\ db'[1] # Absent
         /\ dbDisk' \in [Page -> SUBSET Content] /\ Absent \notin dbDisk'[1]
         /\ \A p \in Page : db'[p] = IF p > journal.orig THEN Absent ELSE db[p]
<1>0. /\ JournalOK(journal) /\ journal.orig >= 1 /\ journal.orig \in Int
      /\ journal.nRec \in Int /\ journalDisk.nRec \in Int /\ -1 <= journalDisk.nRec
      /\ journalDisk.nRec <= journal.nRec /\ -1 <= journal.nRec
      /\ Len(journal.records) \in Nat /\ journal.nRec <= Len(journal.records)
      /\ Len(journalDisk.records) \in Nat /\ Len(journalDisk.records) <= Len(journal.records)
      /\ journal.nRec <= Len(journalDisk.records)
      /\ ghosts = {} /\ 1 \in Page /\ \A p \in Page : p \in Int
      /\ db \in [Page -> Content] /\ db[1] # Absent /\ Absent \in Content
      /\ dbDisk \in [Page -> SUBSET Content] /\ Absent \notin dbDisk[1]
  <2>1. JournalOK(journal) /\ Durable /\ GhostsUndo
    BY DEF StoreInv, Durable
  <2>2. journal.exists /\ journal.orig \in 0..MaxPage
    BY <2>1, JournalFacts
  <2>3. journal.orig >= 1 /\ journal.orig \in Int
    BY <2>1, <2>2, PagerAssumption DEF JournalOK
  <2>4. /\ db \in [Page -> Content] /\ db[1] # Absent /\ Absent \in Content
        /\ dbDisk \in [Page -> SUBSET Content] /\ Absent \notin dbDisk[1]
    BY DEF StoreInv, StoreTypeOK, FileHasPage, Content
  <2>5. ghosts = {}
    BY <2>1 DEF GhostsUndo
  <2> QED BY <2>1, <2>3, <2>4, <2>5, JournalFacts, PageIsInt DEF Durable, JournalOK
<1>1. /\ db' = [p \in Page |-> IF p > journal.orig THEN Absent ELSE db[p]]
      /\ dbDisk' = [p \in Page |-> dbDisk[p] \cup {IF p > journal.orig THEN Absent ELSE db[p]}]
  BY DEF Truncate, Cut
<1>2. \A p \in Page : db'[p] = IF p > journal.orig THEN Absent ELSE db[p]
  BY <1>1
<1>3. ~(1 > journal.orig)
  BY <1>0
<1>4. /\ db' \in [Page -> Content] /\ db'[1] # Absent
      /\ dbDisk' \in [Page -> SUBSET Content] /\ Absent \notin dbDisk'[1]
  BY <1>0, <1>1, <1>3
<1>5. Image' = Image
  <2>1. \A p \in Page : p <= journal.orig /\ p \notin Saved(journal, journal.nRec) => db'[p] = db[p]
    BY <1>0, <1>2
  <2>2. Recovered(db', journal) = Recovered(db, journal)
    BY <1>0, <2>1, RecoveredTheSame
  <2> QED BY <2>2 DEF Image
<1>6. \A p \in Page : Protected(p) => Protected(p)'
  <2>1. journalDisk.nRec <= journalDisk'.nRec /\ journalDisk'.nRec \in Int
    BY <1>0
  <2>2. Saved(journal, journalDisk.nRec) \subseteq Saved(journal, journalDisk'.nRec)
    BY <1>0, <2>1, SavedGrows
  <2> QED BY <2>2 DEF Protected, Saved
<1>7. \A p \in Page : db'[p] \in dbDisk'[p] /\ (Protected(p)' \/ dbDisk'[p] = {Image'[p]})
  <2> SUFFICES ASSUME NEW p \in Page
               PROVE  db'[p] \in dbDisk'[p] /\ (Protected(p)' \/ dbDisk'[p] = {Image'[p]})
    OBVIOUS
  <2>1. CASE p > journal.orig
    BY <1>1, <2>1 DEF Protected
  <2>2. CASE ~(p > journal.orig)
    <3>1. dbDisk'[p] = dbDisk[p] /\ db'[p] = db[p]
      BY <1>1, <2>2 DEF StoreInv, Durable
    <3> QED BY <1>5, <1>6, <3>1 DEF StoreInv, Durable
  <2> QED BY <2>1, <2>2
<1>8. Durable'
  <2>1. /\ -1 <= journalDisk'.nRec /\ journalDisk'.nRec <= journal.nRec /\ journalDisk'.nRec \in Int
        /\ Len(journalDisk'.records) \in Nat /\ journal.nRec <= Len(journalDisk'.records)
        /\ Len(journalDisk'.records) <= Len(journal.records)
    BY <1>0
  <2> QED BY <1>0, <1>7, <2>1 DEF Durable, JournalOK
<1>9. GhostsUndo'
  BY <1>0 DEF GhostsUndo
<1> QED BY <1>2, <1>4, <1>5, <1>8, <1>9

(* The cache after a rollback.                                                *)
LEMMA RollbackCache ==
  ASSUME StoreInv, NEW c \in Conn, Rollback(c), Originals(c)
  PROVE  /\ dirty'[c] = {} /\ dbFileVers'[c] = Version(Image) /\ dbSize'[c] = journal.orig
         /\ \A p \in Page : cache'[c][p] \in {NotCached, Image[p]}
         /\ cache'[c][1] # NotCached /\ cache'[c][1] # Absent
         /\ cache' \in [Conn -> [Page -> Content \cup {NotCached}]]
         /\ dirty' \in [Conn -> SUBSET Page] /\ dbFileVers' \in [Conn -> Nat]
         /\ dbSize' \in [Conn -> 0..MaxPage]
<1> DEFINE was == ToSet(journal.records)
           Original(p) == (CHOOSE r \in was : r.page = p).was
           restored == [p \in Page |-> IF p > journal.orig THEN NotCached
                                       ELSE IF p \in Journaled(journal) /\ cache[c][p] # NotCached
                                         THEN Original(p) ELSE cache[c][p]]
<1>0. /\ JournalOK(journal) /\ Len(journal.records) \in Nat
      /\ journal.orig \in 0..MaxPage /\ journal.orig \in Int /\ journal.orig \in Page
      /\ Image \in [Page -> Content] /\ 1 \in Page /\ \A p \in Page : p \in Int /\ 1 <= p
      /\ cache \in [Conn -> [Page -> Content \cup {NotCached}]]
      /\ dirty \in [Conn -> SUBSET Page] /\ dbFileVers \in [Conn -> Nat]
      /\ dbSize \in [Conn -> 0..MaxPage] /\ Version(Image) \in Nat
      /\ NotCached # Absent /\ Image[1] \in Nat \X Nat /\ 1 <= journal.orig
  <2>1. JournalOK(journal) /\ HasSize(Image, journal.orig)
    BY DEF StoreInv, Durable, Originals
  <2>2. NotCached # Absent /\ Image[1] \in Nat \X Nat /\ Image \in [Page -> Content]
        /\ Version(Image) \in Nat
    BY ImageVersion DEF NotCached, Absent
  <2>3. journal.orig \in 0..MaxPage /\ journal.orig \in Page /\ Len(journal.records) \in Nat
    BY <2>1, JournalFacts DEF HasSize
  <2>4. /\ cache \in [Conn -> [Page -> Content \cup {NotCached}]]
        /\ dirty \in [Conn -> SUBSET Page] /\ dbFileVers \in [Conn -> Nat]
        /\ dbSize \in [Conn -> 0..MaxPage]
    BY DEF StoreInv, StoreTypeOK
  <2> QED BY <2>1, <2>2, <2>3, <2>4, PageIsInt
<1>1. /\ cache' = [cache EXCEPT ![c] = restored]
      /\ dbFileVers' = IF 1 \in Journaled(journal)
                         THEN [dbFileVers EXCEPT ![c] = Original(1)[2]] ELSE dbFileVers
      /\ dirty' = [dirty EXCEPT ![c] = {}]
      /\ dbSize' = [dbSize EXCEPT ![c] = journal.orig]
  BY <1>0 DEF Rollback
<1>2. ASSUME NEW p \in Journaled(journal) PROVE Original(p) = Image[p]
  <2>1. PICK r \in was : r.page = p
    BY <1>2 DEF Journaled
  <2>2. (CHOOSE s \in was : s.page = p) \in was /\ (CHOOSE s \in was : s.page = p).page = p
    BY <2>1
  <2>3. was = {journal.records[i] : i \in 1..Len(journal.records)}
    BY <1>0, LenProperties DEF ToSet, JournalOK
  <2>4. PICK i \in 1..Len(journal.records) : (CHOOSE s \in was : s.page = p) = journal.records[i]
    BY <2>2, <2>3
  <2> QED BY <2>2, <2>4 DEF Originals
<1>3. \A p \in Page : restored[p] \in {NotCached, Image[p]}
  <2> SUFFICES ASSUME NEW p \in Page PROVE restored[p] \in {NotCached, Image[p]}
    OBVIOUS
  <2>1. CASE p > journal.orig
    BY <2>1
  <2>2. CASE ~(p > journal.orig) /\ p \in Journaled(journal)
    BY <1>2, <2>2, <1>0
  <2>3. CASE ~(p > journal.orig) /\ p \notin Journaled(journal)
    <3>1. p \in 1..journal.orig \ Journaled(journal)
      BY <1>0, <2>3
    <3>2. cache[c][p] \in {NotCached, Image[p]}
      BY <3>1 DEF Originals
    <3> QED BY <2>3, <3>2
  <2> QED BY <2>1, <2>2, <2>3
<1>4. restored[1] # NotCached
  <2>1. ~(1 > journal.orig) /\ cache[c][1] # NotCached
    BY <1>0 DEF Originals
  <2>2. Image[1] # NotCached
    BY <1>0 DEF NotCached
  <2> QED BY <1>0, <1>2, <2>1, <2>2
<1>5. restored[1] # Absent
  <2>1. Image[1] # Absent
    BY <1>0 DEF Absent
  <2> QED BY <1>0, <1>3, <2>1
<1>6. restored \in [Page -> Content \cup {NotCached}]
  <2>1. restored = [p \in Page |-> restored[p]]
    OBVIOUS
  <2> QED BY <1>0, <1>3, <2>1
<1>7. /\ \A p \in Page : cache'[c][p] \in {NotCached, Image[p]}
      /\ cache'[c][1] # NotCached /\ cache'[c][1] # Absent
      /\ cache' \in [Conn -> [Page -> Content \cup {NotCached}]]
  <2> HIDE DEF restored
  <2> QED BY <1>0, <1>1, <1>3, <1>4, <1>5, <1>6
<1>8. dbFileVers'[c] = Version(Image) /\ dbFileVers' \in [Conn -> Nat]
  <2>1. CASE 1 \in Journaled(journal)
    <3>1. Original(1)[2] = Version(Image)
      BY <1>2, <2>1 DEF Version
    <3> HIDE DEF Original
    <3> QED BY <1>0, <1>1, <2>1, <3>1
  <2>2. CASE 1 \notin Journaled(journal)
    BY <1>0, <1>1, <2>2 DEF Originals
  <2> QED BY <2>1, <2>2
<1>9. dirty'[c] = {} /\ dirty' \in [Conn -> SUBSET Page]
      /\ dbSize'[c] = journal.orig /\ dbSize' \in [Conn -> 0..MaxPage]
  BY <1>0, <1>1
<1> QED BY <1>7, <1>8, <1>9

LEMMA RollbackKeepsStore ==
  ASSUME StoreInv, UNCHANGED processOf, NEW c \in Conn, Rollback(c)
  PROVE  StoreInv' /\ Image' = Image
<1>0. /\ step[c] = "idle" /\ eState[c] \in Modifying /\ Ending(c)
      /\ eState' = eState /\ synced' = synced /\ tx' = tx /\ txs' = txs /\ before' = before
      /\ eFileLock' = eFileLock /\ (Reserved(c)' <=> Reserved(c))
      /\ journal' = journal /\ journalDisk' = journalDisk /\ ghosts' = ghosts
      /\ UNCHANGED journalVars
  BY DEF Rollback, Ending, journalVars, lockVars, Reserved
<1>1. /\ Originals(c) /\ WriteAhead(c)
      /\ IF eState[c] = "WRITER_CACHEMOD" THEN Unwritten(c) ELSE synced[c] <= journalDisk.nRec
      /\ eFileLock[c] \in Level /\ eFileLock[c] >= RESERVED_LOCK /\ Reserved(c)
      /\ IsHot(journal) => eFileLock[c] = EXCLUSIVE_LOCK
      /\ eState[c] # "WRITER_CACHEMOD" => eFileLock[c] = EXCLUSIVE_LOCK
      /\ eState[c] # "WRITER_CACHEMOD" => IsHot(journalDisk) /\ IsHot(journal) /\ ghosts = {}
      /\ synced[c] \in Nat
  BY <1>0, JournalingFacts
<1>2. /\ dirty'[c] = {} /\ dbFileVers'[c] = Version(Image) /\ dbSize'[c] = journal.orig
      /\ \A p \in Page : cache'[c][p] \in {NotCached, Image[p]}
      /\ cache'[c][1] # NotCached /\ cache'[c][1] # Absent
      /\ cache' \in [Conn -> [Page -> Content \cup {NotCached}]]
      /\ dirty' \in [Conn -> SUBSET Page] /\ dbFileVers' \in [Conn -> Nat]
      /\ dbSize' \in [Conn -> 0..MaxPage]
  BY <1>1, RollbackCache
<1>3. /\ JournalOK(journal) /\ Len(journal.records) \in Nat /\ journal.orig \in Int
      /\ journal.records \in Seq(Record)
      /\ synced[c] <= Len(journal.records) /\ journalDisk.nRec \in Int
      /\ \A i \in 1..Len(journal.records) : journal.records[i] \in Record
      /\ \A p \in Page : p \in Int /\ 1 <= p
      /\ todo \in [Conn -> Seq(Record) \cup Seq(Page)]
  <2>1. JournalOK(journal) /\ journalDisk.nRec \in Int /\ synced[c] <= Len(journal.records)
        /\ todo \in [Conn -> Seq(Record) \cup Seq(Page)]
    BY <1>1 DEF StoreInv, StoreTypeOK, Durable, WriteAhead
  <2> QED BY <2>1, JournalFacts, PageIsInt, PagerAssumption
<1>4. job'[c] = "rollback" /\ eState'[c] = eState[c]
  BY <1>0, StoreFacts DEF Rollback, PagerTypeOK
<1>5. ASSUME Image' = Image, \A p \in Page : p <= journal.orig => db'[p] = db[p]
      PROVE  Originals(c)' /\ WriteAhead(c)' /\ RolledBack(c)'
  <2>1. \A p \in 1..journal.orig : p \in Page
    <3>1. journal.orig \in Page
      BY <1>1 DEF Originals, HasSize
    <3> QED BY <3>1, PagerAssumption DEF Page
  <2>2. (\A p \in 1..journal.orig \ Journaled(journal) : cache[c][p] \in {NotCached, Image[p]})'
    BY <1>0, <1>2, <1>5, <2>1
  <2>3. /\ journal'.exists
        /\ HasSize(Image, journal.orig)'
        /\ journal'.orig <= dbSize'[c]
        /\ (\A i \in 1..Len(journal.records) : journal.records[i].was = Image[journal.records[i].page])'
        /\ (1 \notin Journaled(journal) => dbFileVers[c] = Version(Image))'
    <3>1. journal'.orig <= dbSize'[c]
      BY <1>0, <1>2, <1>3
    <3>2. HasSize(Image, journal.orig)'
      BY <1>0, <1>1, <1>5 DEF Originals, HasSize
    <3>3. dbFileVers'[c] = Version(Image)'
      BY <1>2, <1>5 DEF Version
    <3> QED BY <1>0, <1>1, <1>5, <3>1, <3>2, <3>3 DEF Originals
  <2>4. Originals(c)'
    BY <1>2, <2>2, <2>3 DEF Originals
  <2>5. WriteAhead(c)'
    <3>1. \A p \in 1..journal.orig : p <= journal.orig
      BY <1>3
    <3> QED BY <1>0, <1>1, <1>5, <2>1, <3>1 DEF WriteAhead, Saved
  <2>6. RolledBack(c)'
    BY <1>0, <1>2, <1>5 DEF RolledBack, CacheIsOf, Version
  <2> QED BY <2>4, <2>5, <2>6
<1>6. CASE eState[c] = "WRITER_CACHEMOD"
  <2>1. UNCHANGED dbVars /\ todo' = [todo EXCEPT ![c] = <<>>] /\ Goto(c, "unlink")
    BY <1>6 DEF Rollback
  <2>2. Image' = Image /\ db' = db /\ dbDisk' = dbDisk /\ step'[c] = "unlink"
    BY <1>0, <2>1, ImageStays, StoreFacts DEF dbVars, Goto, PagerTypeOK
  <2>3. todo' \in [Conn -> Seq(Record) \cup Seq(Page)]
    <3>1. <<>> \in Seq(Page)
      OBVIOUS
    <3> QED BY <1>3, <2>1, <3>1
  <2>4. db = Image /\ ~IsHot(journalDisk) /\ Unwritten(c)
    BY <1>1, <1>6 DEF Unwritten, IsHot
  <2>5. FileSynced'
    BY <2>2, <2>4 DEF StoreInv, Durable, Protected, FileSynced
  <2>6. Unwritten(c)'
    BY <1>0, <2>2, <2>4 DEF Unwritten
  <2>7. ConnOK(c)'
    BY <1>0, <1>1, <1>4, <1>5, <1>6, <2>2, <2>4, <2>5, <2>6, LandsRestoring
  <2>8. synced' \in [Conn -> Nat] /\ tx' \in [Conn -> Nat] /\ txs' \in Nat
    BY <1>0 DEF StoreInv, StoreTypeOK
  <2> QED BY <1>0, <1>2, <2>1, <2>3, <2>7, <2>8, CacheStep
<1>7. CASE eState[c] = "WRITER_DBMOD"
  <2>1. /\ Truncate(journal.orig) /\ Goto(c, "replay")
        /\ todo' = [todo EXCEPT ![c] = SubSeq(journal.records, 1, synced[c])]
    BY <1>7 DEF Rollback
  <2>2. /\ eFileLock[c] = EXCLUSIVE_LOCK /\ IsHot(journalDisk) /\ IsHot(journal)
        /\ synced[c] <= journalDisk.nRec
    BY <1>1, <1>7
  <2>3. /\ Image' = Image /\ Durable' /\ GhostsUndo'
        /\ db' \in [Page -> Content] /\ db'[1] # Absent
        /\ dbDisk' \in [Page -> SUBSET Content] /\ Absent \notin dbDisk'[1]
        /\ \A p \in Page : db'[p] = IF p > journal.orig THEN Absent ELSE db[p]
    BY <1>0, <2>1, <2>2, TruncateEffects
  <2>4. step'[c] = "replay"
    BY <2>1, StoreFacts DEF Goto, PagerTypeOK
  <2>5. /\ SubSeq(journal.records, 1, synced[c]) \in Seq(Record)
        /\ Len(SubSeq(journal.records, 1, synced[c])) = synced[c]
        /\ \A i \in 1..synced[c] : SubSeq(journal.records, 1, synced[c])[i] = journal.records[i]
    <3>1. \A i \in 1..synced[c] : journal.records[i] \in Record
      BY <1>1, <1>3
    <3>2. /\ SubSeq(journal.records, 1, synced[c]) \in Seq(Record)
          /\ Len(SubSeq(journal.records, 1, synced[c])) = IF 1 <= synced[c] THEN synced[c] - 1 + 1 ELSE 0
          /\ \A i \in 1..(synced[c] - 1 + 1) :
               SubSeq(journal.records, 1, synced[c])[i] = journal.records[1 + i - 1]
      BY <1>1, <1>3, <3>1, SubSeqProperties
    <3> QED BY <1>1, <3>2
  <2>6. /\ todo'[c] \in Seq(Record) /\ Len(todo'[c]) = synced[c]
        /\ \A i \in 1..synced[c] : todo'[c][i] = journal.records[i]
        /\ todo' \in [Conn -> Seq(Record) \cup Seq(Page)]
    BY <1>3, <2>1, <2>5
  <2>7. Replaying(c)'
    <3>1. \A i \in 1..synced[c] : /\ todo'[c][i].was = Image[todo'[c][i].page]
                                  /\ todo'[c][i].page \in Saved(journal, journalDisk.nRec)
      <4>1. Saved(journal, synced[c]) \subseteq Saved(journal, journalDisk.nRec)
        BY <1>1, <1>3, <2>2, SavedGrows
      <4>2. \A i \in 1..synced[c] : i \in 1..Len(journal.records)
        BY <1>1, <1>3
      <4> QED BY <1>1, <2>6, <4>1, <4>2 DEF Originals, Saved
    <3>2. ASSUME NEW p \in Page
          PROVE  db'[p] = Image[p] \/ \E i \in 1..synced[c] : todo'[c][i].page = p
      <4>1. CASE p > journal.orig
        BY <1>1, <2>3, <4>1 DEF Originals, HasSize
      <4>2. CASE ~(p > journal.orig)
        <5>1. p \in 1..journal.orig /\ db'[p] = db[p]
          BY <1>3, <2>3, <4>2
        <5>2. db[p] = Image[p] \/ p \in Saved(journal, synced[c])
          BY <1>1, <5>1 DEF WriteAhead
        <5> QED BY <2>6, <5>1, <5>2 DEF Saved
      <4> QED BY <4>1, <4>2
    <3> QED BY <1>0, <1>1, <2>3, <2>6, <3>1, <3>2 DEF Replaying, Originals, Saved
  <2>8. \A p \in Page : p <= journal.orig => db'[p] = db[p]
    BY <1>3, <2>3
  <2>9. ConnOK(c)'
    BY <1>0, <1>1, <1>4, <1>5, <1>7, <2>2, <2>3, <2>4, <2>7, <2>8, LandsRestoring
  <2>10. synced' \in [Conn -> Nat] /\ tx' \in [Conn -> Nat] /\ txs' \in Nat /\ before' \in Images
    BY <1>0 DEF StoreInv, StoreTypeOK
  <2> QED BY <1>0, <1>2, <2>2, <2>3, <2>6, <2>9, <2>10, FileStep
<1> QED BY <1>0, <1>6, <1>7 DEF Modifying

(* A recovery reads from the hot journal what readers see.                    *)
LEMMA HotRecordsRestore ==
  ASSUME StoreInv, IsHot(journal)
  PROVE  /\ HotRecords(journal) \in Seq(Record)
         /\ \A i \in 1..Len(HotRecords(journal)) :
              /\ HotRecords(journal)[i].was = Image[HotRecords(journal)[i].page]
              /\ HotRecords(journal)[i].page \in Saved(journal, journal.nRec)
         /\ \A p \in Page : \/ p > journal.orig /\ Image[p] = Absent
                            \/ ~(p > journal.orig) /\ Image[p] = db[p]
                            \/ \E i \in 1..Len(HotRecords(journal)) : HotRecords(journal)[i].page = p
<1> DEFINE h == HotRecords(journal)
<1>0. JournalOK(journal) /\ journal.nRec \in Int /\ journal.nRec >= 0 /\ journal.orig \in Int
  BY JournalFacts, PagerAssumption DEF StoreInv, Durable, IsHot
<1>1. h \in Seq(Record) /\ Len(h) = journal.nRec /\ \A i \in 1..Len(h) : h[i] = journal.records[i]
  BY <1>0, HotRecordsAre
<1>2. /\ \A p \in Page : p > journal.orig => Image[p] = Absent
      /\ \A i \in 1..journal.nRec : Image[journal.records[i].page] = journal.records[i].was
      /\ \A p \in Page : p <= journal.orig /\ p \notin Saved(journal, journal.nRec) => Image[p] = db[p]
  BY <1>0, RecoveredHot DEF Image
<1> HIDE DEF h
<1>3. \A i \in 1..Len(h) : h[i].was = Image[h[i].page] /\ h[i].page \in Saved(journal, journal.nRec)
  BY <1>1, <1>2 DEF Saved
<1>4. ASSUME NEW p \in Page
      PROVE  \/ p > journal.orig /\ Image[p] = Absent
             \/ ~(p > journal.orig) /\ Image[p] = db[p]
             \/ \E i \in 1..Len(h) : h[i].page = p
  <2>1. CASE p \in Saved(journal, journal.nRec)
    BY <1>1, <2>1 DEF Saved
  <2>2. CASE p \notin Saved(journal, journal.nRec)
    BY <1>0, <1>2, <2>2, PageIsInt
  <2> QED BY <2>1, <2>2
<1> QED BY <1>1, <1>3, <1>4 DEF h

LEMMA PlayHotKeepsStore ==
  ASSUME StoreInv, UNCHANGED processOf, NEW c \in Conn, PlayHot(c)
  PROVE  StoreInv' /\ Image' = Image
<1>0. /\ step[c] = "play" /\ job[c] = "open" /\ Opening(c)
      /\ eState' = eState /\ job' = job /\ synced' = synced /\ tx' = tx /\ txs' = txs
      /\ before' = before /\ dbFileVers' = dbFileVers /\ dbSize' = dbSize
      /\ eFileLock' = eFileLock /\ (Reserved(c)' <=> Reserved(c))
      /\ journal' = journal /\ ghosts' = ghosts
  BY DEF PlayHot, At, Opening, lockVars, Reserved
<1>1. /\ eState[c] = "OPEN" /\ eFileLock[c] = EXCLUSIVE_LOCK /\ ~Reserved(c) /\ Outdated(c)
      /\ EXCLUSIVE_LOCK \in Level /\ EXCLUSIVE_LOCK >= RESERVED_LOCK /\ EXCLUSIVE_LOCK # NO_LOCK
  <2>1. eState[c] = "OPEN" /\ eFileLock[c] = EXCLUSIVE_LOCK
    BY <1>0, StoreFacts DEF HoldsExclusive, AloneStep
  <2>2. ~Reserved(c) /\ Outdated(c)
    BY <2>1, StoreFacts DEF Locked, Writer, ConnInv
  <2>3. EXCLUSIVE_LOCK \in Level /\ EXCLUSIVE_LOCK >= RESERVED_LOCK /\ EXCLUSIVE_LOCK # NO_LOCK
    BY DEF EXCLUSIVE_LOCK, RESERVED_LOCK, Level, NO_LOCK
  <2> QED BY <2>1, <2>2, <2>3
<1>2. /\ db \in [Page -> Content] /\ db[1] # Absent /\ cache[c][1] # Absent
      /\ dbDisk \in [Page -> SUBSET Content] /\ Absent \notin dbDisk[1]
      /\ cache \in [Conn -> [Page -> Content \cup {NotCached}]]
      /\ dirty \in [Conn -> SUBSET Page] /\ dbFileVers' \in [Conn -> Nat]
      /\ dbSize' \in [Conn -> 0..MaxPage]
      /\ synced' \in [Conn -> Nat] /\ todo \in [Conn -> Seq(Record) \cup Seq(Page)]
      /\ tx' \in [Conn -> Nat] /\ txs' \in Nat /\ before' \in Images
  BY <1>0 DEF StoreInv, StoreTypeOK, FileHasPage
<1>3. CASE ~journal.exists
  <2>1. Goto(c, "lower") /\ UNCHANGED <<dbVars, journalDisk, cache, dirty, todo>>
    BY <1>3 DEF PlayHot
  <2>2. step'[c] = "lower" /\ eState'[c] = "OPEN" /\ job'[c] = "open" /\ eFileLock'[c] = EXCLUSIVE_LOCK
    BY <1>0, <1>1, <2>1, StoreFacts DEF Goto, PagerTypeOK
  <2>3. ~IsHot(journal') /\ ~Reserved(c)'
    BY <1>0, <1>1, <1>3, JournalFacts DEF StoreInv, Durable
  <2>4. Outdated(c)'
    BY <1>0, <1>1, <2>1, OutdatedStays DEF dbVars
  <2>5. Control(c)'
    BY <2>2 DEF Control
  <2>6. Locked(c)'
    BY <1>1, <2>2, <2>3 DEF Locked, Writer
  <2>7. HotIsOwn(c)'
    BY <2>3 DEF HotIsOwn
  <2>8. ConnInv(c)'
    BY <2>2, <2>4 DEF ConnInv, Clean, Journaling, Modifying
  <2>9. UNCHANGED <<dbVars, journalVars, cacheVars, before>>
    BY <1>0, <2>1 DEF journalVars, cacheVars
  <2>10. ConnOK(c)'
    BY <2>5, <2>6, <2>7, <2>8 DEF ConnOK
  <2> QED BY <1>0, <1>2, <2>1, <2>9, <2>10, ControlStep
<1>4. CASE journal.exists
  <2>1. /\ journalDisk' = journal
        /\ todo' = [todo EXCEPT ![c] = IF IsHot(journal) THEN HotRecords(journal) ELSE <<>>]
        /\ IF IsHot(journal) THEN Truncate(journal.orig) ELSE UNCHANGED dbVars
        /\ IF todo'[c] # <<>> THEN ResetCache(c) ELSE UNCHANGED <<cache, dirty>>
        /\ Goto(c, "replay")
    BY <1>4 DEF PlayHot
  <2>2. step'[c] = "replay" /\ eState'[c] = "OPEN" /\ job'[c] = "open"
    BY <1>0, <1>1, <2>1, StoreFacts DEF Goto, PagerTypeOK
  <2>3. ASSUME Image' = Image
        PROVE  /\ Outdated(c)' /\ dirty' \in [Conn -> SUBSET Page]
               /\ cache' \in [Conn -> [Page -> Content \cup {NotCached}]] /\ cache'[c][1] # Absent
    <3>1. CASE ResetCache(c)
      BY <3>1, EmptyIsOutdated, ResetIsTyped DEF StoreInv
    <3>2. CASE UNCHANGED <<cache, dirty>>
      <4>1. Outdated(c)'
        BY <1>0, <1>1, <2>3, <3>2 DEF Outdated, Caches, CacheIsOf, Version
      <4> QED BY <1>2, <3>2, <4>1
    <3> QED BY <2>1, <3>1, <3>2
  <2>4. CASE IsHot(journal)
    <3>1. /\ Image' = Image /\ Durable' /\ GhostsUndo'
          /\ db' \in [Page -> Content] /\ db'[1] # Absent
          /\ dbDisk' \in [Page -> SUBSET Content] /\ Absent \notin dbDisk'[1]
          /\ \A p \in Page : db'[p] = IF p > journal.orig THEN Absent ELSE db[p]
      BY <1>0, <2>1, <2>4, TruncateEffects
    <3>2. /\ HotRecords(journal) \in Seq(Record)
          /\ todo' = [todo EXCEPT ![c] = HotRecords(journal)]
      BY <2>1, <2>4, HotRecordsRestore
    <3>3. todo'[c] = HotRecords(journal) /\ todo' \in [Conn -> Seq(Record) \cup Seq(Page)]
      BY <1>2, <3>2
    <3>4. Replaying(c)'
      <4>1. \A p \in Page : db'[p] = Image[p] \/ \E i \in 1..Len(todo'[c]) : todo'[c][i].page = p
        BY <2>4, <3>1, <3>3, HotRecordsRestore
      <4>2. \A i \in 1..Len(todo'[c]) : /\ todo'[c][i].was = Image[todo'[c][i].page]
                                        /\ todo'[c][i].page \in Saved(journal, journal.nRec)
        BY <2>4, <3>3, HotRecordsRestore
      <4> QED BY <1>0, <1>4, <2>1, <3>1, <3>2, <3>3, <4>1, <4>2 DEF Replaying, Saved
    <3>5. ConnOK(c)'
      BY <1>0, <1>1, <2>2, <2>3, <3>1, <3>4, LandsRestoring
    <3> QED BY <1>0, <1>1, <1>2, <2>3, <3>1, <3>3, <3>5, FileStep
  <2>5. CASE ~IsHot(journal)
    <3>1. UNCHANGED dbVars /\ todo' = [todo EXCEPT ![c] = <<>>] /\ db' = db /\ dbDisk' = dbDisk
      BY <2>1, <2>5 DEF dbVars
    <3>2. Image' = Image /\ Image = db
      BY <1>0, <2>5, <3>1, ImageStays, ColdImage
    <3>3. Durable' /\ GhostsUndo'
      BY <1>0, <2>1, <3>1, SyncedIsDurable DEF StoreInv, GhostsUndo, JournalOK
    <3>4. <<>> \in Seq(Record) /\ Len(<<>>) = 0
      OBVIOUS
    <3>5. todo'[c] = <<>> /\ todo' \in [Conn -> Seq(Record) \cup Seq(Page)]
      BY <1>2, <3>1, <3>4
    <3>6. Replaying(c)'
      BY <1>0, <1>4, <3>1, <3>2, <3>4, <3>5 DEF Replaying
    <3>7. ConnOK(c)'
      BY <1>0, <1>1, <2>2, <2>3, <3>2, <3>6, LandsRestoring
    <3> QED BY <1>0, <1>1, <1>2, <2>3, <3>1, <3>2, <3>3, <3>5, <3>7, FileStep
  <2> QED BY <2>4, <2>5
<1> QED BY <1>3, <1>4

(* A connection that plays a journal back.                                    *)
LEMMA ReplayFacts ==
  ASSUME StoreInv, NEW c \in Conn, step[c] = "replay"
  PROVE  /\ Replaying(c) /\ eFileLock[c] = EXCLUSIVE_LOCK
         /\ EXCLUSIVE_LOCK \in Level /\ EXCLUSIVE_LOCK >= RESERVED_LOCK
         /\ eState[c] # "WRITER_CACHEMOD"
         /\ \/ job[c] = "open" /\ eState[c] = "OPEN" /\ ~Reserved(c) /\ Outdated(c)
            \/ /\ job[c] = "rollback" /\ eState[c] = "WRITER_DBMOD" /\ eState[c] \in Modifying
               /\ Reserved(c)
               /\ Originals(c) /\ WriteAhead(c) /\ RolledBack(c) /\ synced[c] <= journalDisk.nRec
<1>1. Replaying(c) /\ eFileLock[c] = EXCLUSIVE_LOCK
  BY StoreFacts DEF ConnInv, HoldsExclusive, AloneStep
<1>2. EXCLUSIVE_LOCK \in Level /\ EXCLUSIVE_LOCK >= RESERVED_LOCK
  BY DEF EXCLUSIVE_LOCK, RESERVED_LOCK, Level
<1>3. job[c] \in {"open", "rollback"}
  BY StoreFacts DEF Control, CommitStep, Job
<1>4. CASE job[c] = "open"
  <2>1. eState[c] = "OPEN"
    BY <1>4, StoreFacts DEF HoldsExclusive
  <2>2. ~Reserved(c) /\ Outdated(c)
    BY <2>1, StoreFacts DEF Locked, Writer, ConnInv
  <2> QED BY <1>1, <1>2, <1>4, <2>1, <2>2
<1>5. CASE job[c] = "rollback"
  <2>1. eState[c] = "WRITER_DBMOD" /\ eState[c] \in Modifying
    BY <1>5, StoreFacts DEF Control, Modifying
  <2>2. /\ Reserved(c) /\ Originals(c) /\ WriteAhead(c) /\ RolledBack(c)
        /\ synced[c] <= journalDisk.nRec
    BY <1>5, <2>1, JournalingFacts
  <2> QED BY <1>1, <1>2, <1>5, <2>1, <2>2
<1> QED BY <1>3, <1>4, <1>5

(* A page that is played back.                                                *)
LEMMA ReplayedWrite ==
  ASSUME StoreInv, NEW c \in Conn, step[c] = "replay", todo[c] # <<>>
  PROVE  /\ Head(todo[c]).page \in Page /\ Protected(Head(todo[c]).page)
         /\ Head(todo[c]).was \in Content /\ Head(todo[c]).was = Image[Head(todo[c]).page]
         /\ Head(todo[c]).page = 1 => Head(todo[c]).was # Absent
         /\ Len(todo[c]) \in Nat \ {0} /\ todo[c][1] = Head(todo[c])
         /\ Tail(todo[c]) \in Seq(Record) /\ Len(Tail(todo[c])) = Len(todo[c]) - 1
         /\ \A i \in 1..Len(todo[c]) - 1 : Tail(todo[c])[i] = todo[c][i + 1]
<1>1. Replaying(c) /\ todo[c] \in Seq(Record)
  BY ReplayFacts DEF Replaying
<1>2. /\ Len(todo[c]) \in Nat \ {0} /\ todo[c][1] = Head(todo[c])
      /\ Tail(todo[c]) \in Seq(Record) /\ Len(Tail(todo[c])) = Len(todo[c]) - 1
      /\ \A i \in 1..Len(todo[c]) - 1 : Tail(todo[c])[i] = todo[c][i + 1]
      /\ Head(todo[c]) \in Record
  BY <1>1
<1>3. 1 \in 1..Len(todo[c])
  BY <1>2
<1>4. /\ Head(todo[c]).was = Image[Head(todo[c]).page]
      /\ Head(todo[c]).page \in Saved(journal, journalDisk.nRec)
  BY <1>1, <1>2, <1>3 DEF Replaying
<1>5. Head(todo[c]).page \in Page /\ Head(todo[c]).was \in Content
  BY <1>2 DEF Record
<1>6. Protected(Head(todo[c]).page)
  <2>1. journalDisk.nRec \in Int
    BY DEF StoreInv, Durable
  <2>2. 1..journalDisk.nRec # {}
    BY <1>4 DEF Saved
  <2>3. journalDisk.nRec >= 0
    BY <2>1, <2>2
  <2> QED BY <1>4, <2>3 DEF Protected, IsHot
<1>7. Image[1] # Absent
  BY ImageVersion DEF Absent
<1> QED BY <1>2, <1>4, <1>5, <1>6, <1>7

LEMMA ReplayKeepsStore ==
  ASSUME StoreInv, UNCHANGED processOf, NEW c \in Conn, Replay(c)
  PROVE  StoreInv' /\ Image' = Image
<1>0. /\ step[c] = "replay" /\ Ending(c)
      /\ eState' = eState /\ job' = job /\ synced' = synced /\ tx' = tx /\ txs' = txs
      /\ before' = before /\ dbFileVers' = dbFileVers /\ dbSize' = dbSize
      /\ cache' = cache /\ dirty' = dirty
      /\ eFileLock' = eFileLock /\ (Reserved(c)' <=> Reserved(c))
      /\ journal' = journal /\ journalDisk' = journalDisk /\ ghosts' = ghosts
  BY DEF Replay, Ending, lockVars, cacheVars, journalVars, Reserved
<1>1. /\ Replaying(c) /\ eFileLock[c] = EXCLUSIVE_LOCK
      /\ EXCLUSIVE_LOCK \in Level /\ EXCLUSIVE_LOCK >= RESERVED_LOCK
      /\ eState[c] # "WRITER_CACHEMOD"
      /\ \/ job[c] = "open" /\ eState[c] = "OPEN" /\ ~Reserved(c) /\ Outdated(c)
         \/ /\ job[c] = "rollback" /\ eState[c] = "WRITER_DBMOD" /\ eState[c] \in Modifying
            /\ Reserved(c)
            /\ Originals(c) /\ WriteAhead(c) /\ RolledBack(c) /\ synced[c] <= journalDisk.nRec
  BY <1>0, ReplayFacts
<1>2. /\ db \in [Page -> Content] /\ db[1] # Absent
      /\ cache' \in [Conn -> [Page -> Content \cup {NotCached}]] /\ cache'[c][1] # Absent
      /\ dirty' \in [Conn -> SUBSET Page] /\ dbFileVers' \in [Conn -> Nat]
      /\ dbSize' \in [Conn -> 0..MaxPage]
      /\ synced' \in [Conn -> Nat] /\ todo \in [Conn -> Seq(Record) \cup Seq(Page)]
      /\ tx' \in [Conn -> Nat] /\ txs' \in Nat /\ before' \in Images
      /\ Image \in [Page -> Content]
  BY <1>0, ImageVersion DEF StoreInv, StoreTypeOK, FileHasPage
<1>3. ASSUME Image' = Image, \A p \in Page : db'[p] = db[p] \/ db'[p] = Image[p]
      PROVE  \/ job'[c] = "open" /\ eState'[c] = "OPEN" /\ ~Reserved(c)' /\ Outdated(c)'
             \/ /\ job'[c] = "rollback" /\ eState'[c] = "WRITER_DBMOD" /\ eState'[c] \in Modifying
                /\ Reserved(c)'
                /\ Originals(c)' /\ WriteAhead(c)' /\ RolledBack(c)' /\ synced'[c] <= journalDisk'.nRec
  <2>1. CASE job[c] = "open" /\ eState[c] = "OPEN" /\ ~Reserved(c) /\ Outdated(c)
    <3>1. Outdated(c)'
      BY <1>0, <1>3, <2>1 DEF Outdated, Caches, CacheIsOf, Version
    <3> QED BY <1>0, <2>1, <3>1
  <2>2. CASE /\ job[c] = "rollback" /\ eState[c] = "WRITER_DBMOD" /\ eState[c] \in Modifying
             /\ Reserved(c)
             /\ Originals(c) /\ WriteAhead(c) /\ RolledBack(c) /\ synced[c] <= journalDisk.nRec
    <3>1. Originals(c)'
      BY <1>0, <1>3, <2>2 DEF Originals, HasSize, Own, Journaled, Version
    <3>2. WriteAhead(c)'
      <4>1. \A p \in 1..journal.orig : p \in Page
        BY <2>2, PagerAssumption DEF Originals, HasSize, Page
      <4> QED BY <1>0, <1>3, <2>2, <4>1 DEF WriteAhead, Saved
    <3>3. RolledBack(c)'
      BY <1>0, <1>3, <2>2 DEF RolledBack, CacheIsOf, Version
    <3> QED BY <1>0, <2>2, <3>1, <3>2, <3>3
  <2> QED BY <1>1, <2>1, <2>2
<1>4. CASE todo[c] = <<>>
  <2>1. SyncFile /\ Goto(c, "unlink") /\ db' = db /\ todo' = todo
    BY <1>4 DEF Replay
  <2>2. step'[c] = "unlink"
    BY <2>1, StoreFacts DEF Goto, PagerTypeOK
  <2>3. /\ Durable' /\ GhostsUndo' /\ FileSynced' /\ Image' = Image
        /\ dbDisk' \in [Page -> SUBSET Content] /\ Absent \notin dbDisk'[1]
    BY <1>0, <2>1, SyncedFileIsDurable
  <2>4. db = Image
    <3>1. ~\E i \in 1..Len(todo[c]) : TRUE
      BY <1>4
    <3>2. \A p \in Page : db[p] = Image[p]
      BY <1>1, <3>1 DEF Replaying
    <3> QED BY <1>2, <3>2
  <2>5. ConnOK(c)'
    BY <1>0, <1>1, <1>3, <2>1, <2>2, <2>3, <2>4, LandsRestoring
  <2>6. db' \in [Page -> Content] /\ db'[1] # Absent /\ todo' \in [Conn -> Seq(Record) \cup Seq(Page)]
    BY <1>2, <2>1
  <2> QED BY <1>0, <1>1, <1>2, <2>3, <2>5, <2>6, FileStep
<1>5. CASE todo[c] # <<>>
  <2> DEFINE p == Head(todo[c]).page
             was == Head(todo[c]).was
  <2>1. WritePages(p, was) /\ todo' = [todo EXCEPT ![c] = Tail(@)] /\ step' = step
    BY <1>5 DEF Replay
  <2>2. /\ p \in Page /\ Protected(p) /\ was \in Content /\ was = Image[p]
        /\ (p = 1 => was # Absent)
        /\ Len(todo[c]) \in Nat \ {0} /\ todo[c][1] = Head(todo[c])
        /\ Tail(todo[c]) \in Seq(Record) /\ Len(Tail(todo[c])) = Len(todo[c]) - 1
        /\ \A i \in 1..Len(todo[c]) - 1 : Tail(todo[c])[i] = todo[c][i + 1]
    BY <1>0, <1>5, ReplayedWrite
  <2> HIDE DEF p, was
  <2>3. /\ Image' = Image /\ Durable' /\ GhostsUndo'
        /\ db' \in [Page -> Content] /\ db'[1] # Absent
        /\ dbDisk' \in [Page -> SUBSET Content] /\ Absent \notin dbDisk'[1]
        /\ db'[p] = was /\ \A q \in Page : q # p => db'[q] = db[q]
    BY <1>0, <2>1, <2>2, ProtectedWrite
  <2>4. todo'[c] = Tail(todo[c]) /\ todo' \in [Conn -> Seq(Record) \cup Seq(Page)]
    BY <1>2, <2>1, <2>2
  <2>5. Replaying(c)'
    <3> DEFINE n == Len(todo[c])
               rest == Tail(todo[c])
    <3>0. /\ n \in Nat \ {0} /\ rest \in Seq(Record) /\ Len(rest) = n - 1
          /\ \A i \in 1..n - 1 : rest[i] = todo[c][i + 1] /\ i + 1 \in 1..n
          /\ \A i \in 1..n : i = 1 \/ (i - 1 \in 1..n - 1 /\ (i - 1) + 1 = i)
      BY <2>2
    <3> HIDE DEF n, rest
    <3>1. /\ \A i \in 1..n : /\ todo[c][i].was = Image[todo[c][i].page]
                             /\ todo[c][i].page \in Saved(journal, journalDisk.nRec)
          /\ \A q \in Page : db[q] = Image[q] \/ \E i \in 1..n : todo[c][i].page = q
      BY <1>1 DEF Replaying, n
    <3>2. \A i \in 1..n - 1 : /\ rest[i].was = Image[rest[i].page]
                              /\ rest[i].page \in Saved(journal, journalDisk.nRec)
      <4> SUFFICES ASSUME NEW i \in 1..n - 1
                   PROVE  /\ rest[i].was = Image[rest[i].page]
                          /\ rest[i].page \in Saved(journal, journalDisk.nRec)
        OBVIOUS
      <4>1. PICK k \in 1..n : k = i + 1
        BY <3>0
      <4>2. rest[i] = todo[c][k]
        BY <3>0, <4>1
      <4> QED BY <3>1, <4>2
    <3>3. ASSUME NEW q \in Page
          PROVE  db'[q] = Image[q] \/ \E i \in 1..n - 1 : rest[i].page = q
      <4>1. CASE q = p
        BY <2>2, <2>3, <4>1
      <4>2. CASE q # p /\ db[q] = Image[q]
        BY <2>3, <4>2
      <4>3. CASE q # p /\ \E i \in 1..n : todo[c][i].page = q
        <5>1. PICK i \in 1..n : todo[c][i].page = q
          BY <4>3
        <5>2. i # 1
          BY <2>2, <4>3, <5>1 DEF p
        <5>3. rest[i - 1] = todo[c][i] /\ i - 1 \in 1..n - 1
          BY <3>0, <5>2
        <5> QED BY <5>1, <5>3
      <4> QED BY <3>1, <4>1, <4>2, <4>3
    <3>4. Len(rest) = n - 1 /\ todo'[c] = rest
      BY <2>4, <3>0 DEF rest
    <3> QED BY <1>0, <1>1, <2>3, <3>0, <3>2, <3>3, <3>4 DEF Replaying, Saved
  <2>6. \A q \in Page : db'[q] = db[q] \/ db'[q] = Image[q]
    BY <2>2, <2>3
  <2>7. step'[c] = "replay"
    BY <1>0, <2>1
  <2>8. ConnOK(c)'
    BY <1>0, <1>1, <1>3, <2>3, <2>5, <2>6, <2>7, LandsRestoring
  <2> QED BY <1>0, <1>1, <1>2, <2>3, <2>4, <2>8, FileStep
<1> QED BY <1>4, <1>5

(* The journal that is not there.                                             *)
LEMMA NoJournalIsOK ==
  /\ JournalOK(NoJournal) /\ ~IsHot(NoJournal) /\ NoJournal.nRec = -1
  /\ NoJournal.records = <<>> /\ Len(NoJournal.records) = 0 /\ ~NoJournal.exists
<1>1. NoJournal \in [exists : BOOLEAN, orig : 0..MaxPage, records : Seq(Record), nRec : Int]
  <2>1. <<>> \in Seq(Record) /\ 0 \in 0..MaxPage /\ -1 \in Int
    BY PagerAssumption
  <2> QED BY <2>1 DEF NoJournal
<1>2. NoJournal.nRec = -1 /\ NoJournal.records = <<>> /\ ~NoJournal.exists
  BY DEF NoJournal
<1>3. Len(<<>>) = 0 /\ ~(-1 >= 0) /\ -1 <= -1 /\ -1 <= 0
  OBVIOUS
<1> QED BY <1>1, <1>2, <1>3 DEF JournalOK, IsHot

(* What a loss of power leaves of a journal still has every original that the *)
(* file may have lost.                                                        *)
LEMMA RemainsRestore ==
  ASSUME StoreInv, NEW file, file \in [Page -> Content],
         \A p \in Page : p <= journal.orig =>
           file[p] = Image[p] \/ p \in Saved(journal, journalDisk.nRec),
         NEW j \in Remains(journal, journalDisk)
  PROVE  /\ JournalOK(j)
         /\ IsHot(j) => Recovered(file, j) = Image
         /\ ~IsHot(j) => j = NoJournal /\ ~IsHot(journalDisk)
<1>0. /\ JournalOK(journal) /\ journal.records \in Seq(Record) /\ Len(journal.records) \in Nat
      /\ journal.nRec \in Int /\ journalDisk.nRec \in Int
      /\ -1 <= journalDisk.nRec /\ journalDisk.nRec <= journal.nRec
      /\ Len(journalDisk.records) \in Nat
      /\ journal.nRec <= Len(journalDisk.records)
      /\ Len(journalDisk.records) <= Len(journal.records)
      /\ Image \in [Page -> Content] /\ journal.orig \in Int
      /\ \A p \in Page : p \in Int
  BY JournalFacts, ImageVersion, PageIsInt, PagerAssumption DEF StoreInv, Durable
<1>1. PICK k \in Len(journalDisk.records)..Len(journal.records), n \in {journalDisk.nRec, journal.nRec} :
        j = IF n >= 0 THEN [journal EXCEPT !.records = SubSeq(@, 1, k), !.nRec = n] ELSE NoJournal
  <2>1. PICK a \in Len(journalDisk.records)..Len(journal.records), b \in {journalDisk.nRec, journal.nRec} :
          j = IF IsHot(Left(journal, a, b)) THEN Left(journal, a, b) ELSE NoJournal
    BY DEF Remains
  <2>2. journal \in [exists : BOOLEAN, orig : 0..MaxPage, records : Seq(Record), nRec : Int]
    BY <1>0 DEF JournalOK
  <2>3. Left(journal, a, b).nRec = b
    BY <2>2 DEF Left
  <2>4. j = IF b >= 0 THEN Left(journal, a, b) ELSE NoJournal
    BY <2>1, <2>3 DEF IsHot
  <2> QED BY <2>4 DEF Left
<1>2. /\ k \in Int /\ 0 <= k /\ k <= Len(journal.records) /\ n \in Int /\ -1 <= n
      /\ n <= k /\ journalDisk.nRec <= n /\ n <= journal.nRec
  BY <1>0, <1>1
<1>3. CASE n < 0
  <2>1. j = NoJournal
    BY <1>1, <1>2, <1>3
  <2>2. ~IsHot(journalDisk)
    BY <1>0, <1>2, <1>3 DEF IsHot
  <2> QED BY <2>1, <2>2, NoJournalIsOK
<1>4. CASE n >= 0
  <2>1. /\ j.exists = journal.exists /\ j.orig = journal.orig
        /\ j.records = SubSeq(journal.records, 1, k) /\ j.nRec = n
        /\ j = [exists |-> journal.exists, orig |-> journal.orig,
                records |-> SubSeq(journal.records, 1, k), nRec |-> n]
    BY <1>0, <1>1, <1>4 DEF JournalOK
  <2>2. /\ j.records \in Seq(Record) /\ Len(j.records) = k
        /\ \A i \in 1..k : j.records[i] = journal.records[i]
    <3>1. \A i \in 1..k : journal.records[i] \in Record
      BY <1>0, <1>2, JournalFacts
    <3>2. /\ SubSeq(journal.records, 1, k) \in Seq(Record)
          /\ Len(SubSeq(journal.records, 1, k)) = IF 1 <= k THEN k - 1 + 1 ELSE 0
          /\ \A i \in 1..(k - 1 + 1) : SubSeq(journal.records, 1, k)[i] = journal.records[1 + i - 1]
      BY <1>0, <1>2, <3>1, SubSeqProperties
    <3> QED BY <1>2, <2>1, <3>2
  <2>3. IsHot(j) /\ IsHot(journal)
    BY <1>0, <1>2, <1>4, <2>1 DEF IsHot
  <2>4. JournalOK(j)
    <3>1. journal.exists
      BY <1>0, <2>3, JournalFacts
    <3>2. j \in [exists : BOOLEAN, orig : 0..MaxPage, records : Seq(Record), nRec : Int]
      BY <1>0, <1>2, <2>1, <2>2, JournalFacts
    <3>3. \A i \in 1..k : i \in 1..Len(journal.records)
      BY <1>0, <1>2
    <3>4. \A i \in 1..k :
            /\ j.records[i].page <= j.orig
            /\ j.records[i].page = 1 => j.records[i].was # Absent
            /\ \A m \in 1..k : j.records[i].page = j.records[m].page => i = m
      BY <1>0, <2>1, <2>2, <3>3 DEF JournalOK
    <3>5. j.exists /\ j.orig >= 1 /\ -1 <= j.nRec /\ j.nRec <= k
      BY <1>0, <1>2, <2>1, <3>1 DEF JournalOK
    <3> QED BY <2>2, <3>2, <3>4, <3>5 DEF JournalOK
  <2>5. Saved(j, n) = Saved(journal, n)
    <3>1. \A i \in 1..n : i \in 1..k
      BY <1>2
    <3> QED BY <2>2, <3>1 DEF Saved
  <2>8. /\ \A p \in Page : p > journal.orig => Recovered(file, j)[p] = Absent
        /\ \A i \in 1..n : Recovered(file, j)[j.records[i].page] = j.records[i].was
        /\ \A p \in Page : p <= journal.orig /\ p \notin Saved(j, n) => Recovered(file, j)[p] = file[p]
    <3>1. j.nRec = n /\ j.orig = journal.orig
      BY <2>1
    <3>2. /\ \A p \in Page : p > j.orig => Recovered(file, j)[p] = Absent
          /\ \A i \in 1..j.nRec : Recovered(file, j)[j.records[i].page] = j.records[i].was
          /\ \A p \in Page : p <= j.orig /\ p \notin Saved(j, j.nRec) => Recovered(file, j)[p] = file[p]
      BY <2>3, <2>4, RecoveredHot
    <3> QED BY <3>1, <3>2
  <2>6. ASSUME NEW p \in Page PROVE Recovered(file, j)[p] = Image[p]
    <3>1. CASE p > journal.orig
      <4>1. Image[p] = Absent
        BY <1>0, <2>3, <3>1, RecoveredHot DEF Image
      <4> QED BY <2>8, <3>1, <4>1
    <3>2. CASE p \in Saved(j, n)
      <4>1. PICK i \in 1..n : j.records[i].page = p
        BY <3>2 DEF Saved
      <4>2. i \in 1..k /\ i \in 1..journal.nRec
        BY <1>0, <1>2, <4>1
      <4>3. Recovered(file, j)[p] = j.records[i].was
        BY <2>8, <4>1
      <4>4. j.records[i] = journal.records[i]
        BY <2>2, <4>2
      <4>5. Image[p] = journal.records[i].was
        BY <1>0, <2>3, <4>1, <4>2, <4>4, RecoveredHot DEF Image
      <4> QED BY <4>3, <4>4, <4>5
    <3>3. CASE p <= journal.orig /\ p \notin Saved(j, n)
      <4>1. Saved(journal, journalDisk.nRec) \subseteq Saved(journal, n)
        BY <1>0, <1>2, SavedGrows
      <4>2. file[p] = Image[p]
        BY <2>5, <3>3, <4>1
      <4>3. Recovered(file, j)[p] = file[p]
        BY <2>8, <3>3
      <4> QED BY <4>2, <4>3
    <3> QED BY <1>0, <3>1, <3>2, <3>3
  <2>7. Recovered(file, j) = Image
    <3>1. Recovered(file, j) = [p \in Page |-> Recovered(file, j)[p]] /\ Image = [p \in Page |-> Image[p]]
      BY <1>0, <2>3, <2>4, RecoveredHot
    <3>2. [p \in Page |-> Recovered(file, j)[p]] = [p \in Page |-> Image[p]]
      BY <2>6
    <3> QED BY <3>1, <3>2
  <2> QED BY <2>3, <2>4, <2>7
<1> QED BY <1>2, <1>3, <1>4

(* What holds before the journal is deleted.                                  *)
LEMMA UnlinkFacts ==
  ASSUME StoreInv, NEW c \in Conn, step[c] = "unlink"
  PROVE  /\ FileSynced /\ job[c] \in {"open", "rollback", "commit"}
         /\ job[c] # "commit" => db = Image
         /\ job[c] = "open" => eState[c] = "OPEN" /\ Outdated(c) /\ eFileLock[c] = EXCLUSIVE_LOCK
         /\ job[c] = "rollback" => /\ eState[c] \in Modifying /\ eState[c] \in Writer
                                   /\ RolledBack(c) /\ Originals(c)
         /\ job[c] = "commit" => /\ eState[c] = "WRITER_FINISHED" /\ eFileLock[c] = EXCLUSIVE_LOCK
                                 /\ dirty[c] = {} /\ Originals(c) /\ NewVersion(c) /\ Transaction(c)
                                 /\ WriteAhead(c) /\ synced[c] <= journalDisk.nRec
                                 /\ synced[c] \in Nat /\ ghosts = {}
<1>1. /\ FileSynced /\ job[c] \in {"open", "rollback", "commit"}
      /\ job[c] # "commit" => db = Image
  BY StoreFacts DEF ConnInv, Control, CommitStep, Job
<1>2. job[c] = "open" => eState[c] = "OPEN" /\ Outdated(c) /\ eFileLock[c] = EXCLUSIVE_LOCK
  BY StoreFacts DEF HoldsExclusive, ConnInv, Locked
<1>3. job[c] = "rollback" => /\ eState[c] \in Modifying /\ eState[c] \in Writer
                             /\ RolledBack(c) /\ Originals(c)
  <2>1. ASSUME job[c] = "rollback"
        PROVE  eState[c] \in Modifying /\ eState[c] \in Writer
    BY <2>1, StoreFacts DEF Control, Modifying, Writer
  <2> QED BY <2>1, JournalingFacts
<1>4. job[c] = "commit" => eState[c] = "WRITER_FINISHED" /\ eFileLock[c] = EXCLUSIVE_LOCK /\ dirty[c] = {}
  BY StoreFacts DEF Control, CommitStep, Locked, ConnInv
<1>5. job[c] = "commit" => /\ Originals(c) /\ NewVersion(c) /\ Transaction(c)
                           /\ WriteAhead(c) /\ synced[c] <= journalDisk.nRec
                           /\ synced[c] \in Nat /\ ghosts = {}
  BY <1>4, JournalingFacts
<1> QED BY <1>1, <1>2, <1>3, <1>4, <1>5

(* Before the lock is lowered.                                                *)
LEMMA LandsLowering ==
  ASSUME NEW c \in Conn, step'[c] = "lower", ~IsHot(journal'),
         eFileLock'[c] \in Level, eFileLock'[c] >= RESERVED_LOCK,
         \/ job'[c] = "open" /\ eState'[c] = "OPEN" /\ eFileLock'[c] = EXCLUSIVE_LOCK
            /\ ~Reserved(c)' /\ Outdated(c)'
         \/ job'[c] = "rollback" /\ eState'[c] \in Modifying /\ Reserved(c)' /\ UpToDate(c)'
         \/ job'[c] = "commit" /\ eState'[c] = "WRITER_FINISHED" /\ Reserved(c)' /\ UpToDate(c)'
            /\ eFileLock'[c] = EXCLUSIVE_LOCK
  PROVE  ConnOK(c)'
<1>0. eFileLock'[c] # NO_LOCK
  BY AboveNoLock
<1>1. HotIsOwn(c)'
  BY DEF HotIsOwn
<1>2. CASE job'[c] = "open" /\ eState'[c] = "OPEN" /\ eFileLock'[c] = EXCLUSIVE_LOCK
           /\ ~Reserved(c)' /\ Outdated(c)'
  <2>1. Control(c)'
    BY <1>2 DEF Control, Modifying
  <2>2. Locked(c)'
    BY <1>0, <1>2 DEF Locked, Writer
  <2>3. ConnInv(c)'
    BY <1>2 DEF ConnInv, Clean, Journaling
  <2> QED BY <1>1, <2>1, <2>2, <2>3 DEF ConnOK
<1>3. CASE job'[c] = "rollback" /\ eState'[c] \in Modifying /\ Reserved(c)' /\ UpToDate(c)'
  <2>0. eState'[c] \in {"WRITER_CACHEMOD", "WRITER_DBMOD"} /\ eState'[c] \in Writer
    BY <1>3 DEF Modifying, Writer
  <2>1. Control(c)'
    BY <1>3, <2>0 DEF Control, Modifying
  <2>2. Locked(c)'
    BY <1>0, <1>3, <2>0 DEF Locked
  <2>3. ConnInv(c)'
    BY <1>3, <2>0 DEF ConnInv, Clean, Journaling
  <2> QED BY <1>1, <2>1, <2>2, <2>3 DEF ConnOK
<1>4. CASE job'[c] = "commit" /\ eState'[c] = "WRITER_FINISHED" /\ Reserved(c)' /\ UpToDate(c)'
           /\ eFileLock'[c] = EXCLUSIVE_LOCK
  <2>0. eState'[c] \in Writer
    BY <1>4 DEF Writer
  <2>1. Control(c)'
    BY <1>4 DEF Control, Modifying
  <2>2. Locked(c)'
    BY <1>0, <1>4, <2>0 DEF Locked
  <2>3. ConnInv(c)'
    <3>1. dirty'[c] = {}
      BY <1>4 DEF UpToDate
    <3> QED BY <1>4, <3>1 DEF ConnInv, Clean, Journaling, JournalStep
  <2> QED BY <1>1, <2>1, <2>2, <2>3 DEF ConnOK
<1> QED BY <1>2, <1>3, <1>4

(* What the end of a transaction leaves.                                      *)
LEMMA UnlinkFiles ==
  ASSUME StoreInv, NEW c \in Conn, Unlink(c), step[c] = "unlink"
  PROVE  /\ Image' = db /\ Image' \in Images /\ before' \in Images
         /\ ~IsHot(journal') /\ Durable' /\ GhostsUndo'
<1>0. /\ FileSynced /\ (job[c] # "commit" => db = Image)
      /\ job[c] = "commit" => /\ Originals(c) /\ Transaction(c) /\ WriteAhead(c)
                              /\ synced[c] <= journalDisk.nRec /\ synced[c] \in Nat /\ ghosts = {}
  BY UnlinkFacts
<1>1. /\ journal' = NoJournal /\ journalDisk' = NoJournal
      /\ ghosts' = ghosts \cup Remains(journal, journalDisk)
      /\ before' = IF job[c] = "commit" THEN Image ELSE before
      /\ db' = db /\ dbDisk' = dbDisk
  BY DEF Unlink, dbVars
<1>2. /\ Image \in Images /\ before \in Images /\ db \in [Page -> Content]
      /\ JournalOK(journal) /\ journal.orig \in Int /\ journalDisk.nRec \in Int
      /\ \A p \in Page : p \in Int /\ 1 <= p
  <2>1. JournalOK(journal)
    BY DEF StoreInv, Durable
  <2> QED BY <2>1, JournalFacts, PageIsInt, PagerAssumption DEF StoreInv, StoreTypeOK, Durable
<1>3. ~IsHot(journal') /\ Image' = db
  BY <1>1, NoJournalIsOK, RecoveredCold DEF Image
<1>4. db \in Images
  <2>1. CASE job[c] # "commit"
    BY <1>0, <1>2, <2>1
  <2>2. CASE job[c] = "commit"
    <3>1. \A p \in Page : db[p] = Image[p] \/ db[p] \in Nat \X Nat
      BY <1>0, <2>2 DEF Transaction, Own
    <3> QED BY <1>2, <3>1 DEF Images
  <2> QED BY <2>1, <2>2
<1>5. Durable'
  <2>1. \A p \in Page : db'[p] \in dbDisk'[p] /\ dbDisk'[p] = {Image'[p]}
    BY <1>0, <1>1, <1>3 DEF FileSynced
  <2>2. /\ JournalOK(journal)'
        /\ (journalDisk.nRec \in Int /\ -1 <= journalDisk.nRec /\ journalDisk.nRec <= journal.nRec)'
        /\ (/\ Len(journalDisk.records) \in Nat
            /\ journal.nRec <= Len(journalDisk.records)
            /\ Len(journalDisk.records) <= Len(journal.records))'
    <3>1. JournalOK(journal)'
      BY <1>1, NoJournalIsOK DEF JournalOK
    <3>2. /\ journalDisk'.nRec = -1 /\ journal'.nRec = -1
          /\ Len(journalDisk'.records) = 0 /\ Len(journal'.records) = 0
      BY <1>1, NoJournalIsOK
    <3> QED BY <3>1, <3>2
  <2> QED BY <2>1, <2>2 DEF Durable
<1>6. \A p \in Page : p <= journal.orig => db[p] = Image[p] \/ p \in Saved(journal, journalDisk.nRec)
  <2>1. CASE job[c] # "commit"
    BY <1>0, <2>1
  <2>2. CASE job[c] = "commit"
    <3>1. Saved(journal, synced[c]) \subseteq Saved(journal, journalDisk.nRec)
      BY <1>0, <1>2, <2>2, SavedGrows
    <3>2. \A p \in Page : p <= journal.orig => p \in 1..journal.orig
      BY <1>2
    <3> QED BY <1>0, <2>2, <3>1, <3>2 DEF WriteAhead
  <2> QED BY <2>1, <2>2
<1>7. GhostsUndo'
  <2>1. ASSUME NEW j \in ghosts' PROVE JournalOK(j) /\ Recovered(db, j) \in {db, before'}
    <3>1. CASE j \in ghosts
      <4>1. job[c] # "commit" /\ before' = before
        BY <1>0, <1>1, <3>1
      <4> QED BY <3>1, <4>1 DEF StoreInv, GhostsUndo
    <3>2. CASE j \in Remains(journal, journalDisk)
      <4>1. /\ JournalOK(j)
            /\ IsHot(j) => Recovered(db, j) = Image
        BY <1>2, <1>6, <3>2, RemainsRestore
      <4>2. ~IsHot(j) => Recovered(db, j) = db
        BY RecoveredCold
      <4>3. Image \in {db, before'}
        BY <1>0, <1>1
      <4> QED BY <4>1, <4>2, <4>3
    <3> QED BY <1>1, <3>1, <3>2
  <2> QED BY <1>1, <1>3, <2>1 DEF GhostsUndo, JournalOK
<1>8. before' \in Images
  BY <1>1, <1>2
<1> QED BY <1>3, <1>4, <1>5, <1>7, <1>8

(* A commit leaves the cache as current as the file, whose version is new.    *)
LEMMA CommittedCache ==
  ASSUME StoreInv, NEW c \in Conn, Originals(c), NewVersion(c), Transaction(c), dirty[c] = {}
  PROVE  /\ Version(db) = Version(Image) + 1
         /\ CacheIsOf(c, db) /\ HasSize(db, dbSize[c]) /\ dbFileVers[c] = Version(db)
<1>0. /\ tx[c] \in Nat /\ Version(Image) \in Nat /\ dbSize[c] \in 0..MaxPage /\ MaxPage \in Nat
      /\ 1 \in Page /\ journal.orig \in Page /\ journal.orig <= dbSize[c]
      /\ \A p \in Page : p \in Int /\ 1 <= p
  BY ImageVersion, PageIsInt DEF StoreInv, StoreTypeOK, Originals, HasSize
<1>1. CacheIsOf(c, db)
  BY DEF Transaction, CacheIsOf
<1>2. cache[c][1] = <<tx[c], Version(Image) + 1>> /\ dbFileVers[c] = Version(Image) + 1
  BY DEF NewVersion
<1>3. db[1] = <<tx[c], Version(Image) + 1>>
  <2>1. cache[c][1] # NotCached
    BY <1>0, <1>2 DEF NotCached
  <2> QED BY <1>0, <1>1, <1>2, <2>1 DEF CacheIsOf
<1>4. Version(db) = Version(Image) + 1
  BY <1>3 DEF Version
<1>5. HasSize(db, dbSize[c])
  <2>1. dbSize[c] \in Page
    BY <1>0 DEF Page
  <2> QED BY <2>1 DEF Transaction, HasSize
<1> QED BY <1>1, <1>2, <1>4, <1>5

(* pager_end_transaction deletes the journal: the one step that changes the   *)
(* image, and only when it commits.                                           *)
LEMMA UnlinkKeepsStore ==
  ASSUME StoreInv, UNCHANGED processOf, NEW c \in Conn, Unlink(c)
  PROVE  StoreInv'
<1>0. /\ step[c] = "unlink" /\ Ending(c)
      /\ db' = db /\ dbDisk' = dbDisk /\ eState' = eState /\ job' = job
      /\ cache' = cache /\ dirty' = dirty /\ dbFileVers' = dbFileVers /\ dbSize' = dbSize
      /\ UNCHANGED <<synced, todo, tx, txs>>
      /\ eFileLock' = eFileLock /\ (Reserved(c)' <=> Reserved(c))
  BY StoreFacts DEF Unlink, Control, Ending, dbVars, cacheVars, txVars, lockVars, Reserved
<1>1. /\ Image' = db /\ Image' \in Images /\ before' \in Images
      /\ ~IsHot(journal') /\ Durable' /\ GhostsUndo'
  BY <1>0, UnlinkFiles
<1>2. /\ job[c] \in {"open", "rollback", "commit"}
      /\ job[c] # "commit" => db = Image
      /\ job[c] = "open" => eState[c] = "OPEN" /\ Outdated(c) /\ eFileLock[c] = EXCLUSIVE_LOCK
      /\ job[c] = "rollback" => /\ eState[c] \in Modifying /\ eState[c] \in Writer
                                /\ RolledBack(c) /\ Originals(c)
      /\ job[c] = "commit" => /\ eState[c] = "WRITER_FINISHED" /\ eFileLock[c] = EXCLUSIVE_LOCK
                              /\ dirty[c] = {} /\ Originals(c) /\ NewVersion(c) /\ Transaction(c)
  BY <1>0, UnlinkFacts
<1>3. step'[c] = "lower"
  BY StoreFacts DEF Unlink, Goto, PagerTypeOK
<1>4. /\ eFileLock[c] \in Level /\ EXCLUSIVE_LOCK >= RESERVED_LOCK
      /\ eState[c] \in Writer => eFileLock[c] >= RESERVED_LOCK /\ Reserved(c)
      /\ eState[c] = "OPEN" => ~Reserved(c)
  BY StoreFacts DEF Locked, EXCLUSIVE_LOCK, RESERVED_LOCK, Writer
<1>5. Version(Image) \in Nat
  BY ImageVersion
<1>6. PagerInv' /\ Separate'
  BY <1>0, StepKeepsLocks
<1>7. StoreTypeOK'
  BY <1>0, <1>1 DEF StoreInv, StoreTypeOK
<1>8. FileHasPage'
  BY <1>0 DEF StoreInv, FileHasPage
<1>9. ASSUME ConnOK(c)', \A d \in Conn \ {c} : ConnOK(d)' PROVE StoreInv'
  BY <1>1, <1>6, <1>7, <1>8, <1>9 DEF StoreInv
<1>10. CASE job[c] = "open"
  <2>1. Image' = Image
    BY <1>1, <1>2, <1>10
  <2>2. Outdated(c)'
    BY <1>0, <1>2, <1>10, <2>1 DEF Outdated, Caches, CacheIsOf, Version
  <2>3. ConnOK(c)'
    BY <1>0, <1>1, <1>2, <1>3, <1>4, <1>10, <2>2, LandsLowering
  <2>4. \A d \in Conn \ {c} : ConnOK(d)'
    BY <1>0, <1>2, <1>5, <1>10, <2>1, OthersKeep
  <2> QED BY <1>9, <2>3, <2>4
<1>11. CASE job[c] = "rollback"
  <2>1. Image' = Image
    BY <1>1, <1>2, <1>11
  <2>2. UpToDate(c)'
    BY <1>0, <1>2, <1>11 DEF UpToDate, RolledBack, Originals, CacheIsOf, HasSize, Version
  <2>3. ConnOK(c)'
    BY <1>0, <1>1, <1>2, <1>3, <1>4, <1>11, <2>2, LandsLowering
  <2>4. \A d \in Conn \ {c} : ConnOK(d)'
    BY <1>0, <1>1, <1>2, <1>11, <2>1, OthersKeep DEF dbVars
  <2> QED BY <1>9, <2>3, <2>4
<1>12. CASE job[c] = "commit"
  <2>1. /\ Version(db) = Version(Image) + 1
        /\ CacheIsOf(c, db) /\ HasSize(db, dbSize[c]) /\ dbFileVers[c] = Version(db)
    BY <1>2, <1>12, CommittedCache
  <2>2. UpToDate(c)'
    BY <1>0, <1>2, <1>12, <2>1 DEF UpToDate, CacheIsOf, HasSize, Version
  <2>3. ConnOK(c)'
    <3>1. eState[c] \in Writer
      BY <1>2, <1>12 DEF Writer
    <3> QED BY <1>0, <1>1, <1>2, <1>3, <1>4, <1>12, <2>2, <3>1, LandsLowering
  <2>4. Version(Image') > Version(Image) /\ Version(Image') \in Nat
    BY <1>1, <1>5, <2>1
  <2>5. \A d \in Conn \ {c} : ConnOK(d)'
    BY <1>0, <1>2, <1>5, <1>12, <2>4, OthersKeep
  <2> QED BY <1>9, <2>3, <2>5
<1> QED BY <1>2, <1>10, <1>11, <1>12

(* A page may be half written only if its original is safe.                   *)
LEMMA TornIsProtected ==
  ASSUME StoreInv, NEW c \in Conn, Fail(c)
  PROVE  \/ UNCHANGED dbVars
         \/ /\ eFileLock[c] = EXCLUSIVE_LOCK
            /\ \E p \in Page :
                 /\ WritePages(p, Torn) /\ Protected(p)
                 /\ step[c] = "write" => p > journal.orig \/ p \in Saved(journal, synced[c])
<1>1. CASE UNCHANGED dbVars
  BY <1>1
<1>2. ASSUME step[c] = "write", NEW p \in Page, p > journal.orig \/ p \in Saved(journal, synced[c])
      PROVE  Protected(p) /\ eFileLock[c] = EXCLUSIVE_LOCK
  <2>1. /\ IsHot(journalDisk) /\ synced[c] \in Nat /\ synced[c] <= journalDisk.nRec
        /\ eFileLock[c] = EXCLUSIVE_LOCK /\ journalDisk.nRec \in Int
    BY <1>2, WritingFacts DEF StoreInv, Durable
  <2>2. Saved(journal, synced[c]) \subseteq Saved(journal, journalDisk.nRec)
    BY <2>1, SavedGrows
  <2> QED BY <1>2, <2>1, <2>2 DEF Protected
<1>3. CASE At(c, "commit", "write") /\ dirty[c] # {} /\ WritePages(Min(dirty[c]), Torn)
  <2> DEFINE p == Min(dirty[c])
  <2>1. dirty[c] \subseteq Page
    BY DEF StoreInv, StoreTypeOK
  <2>2. p \in dirty[c] /\ p \in Page
    BY <1>3, <2>1, MinIsThere
  <2>3. WritePages(p, Torn) /\ step[c] = "write" /\ job[c] = "commit"
    BY <1>3 DEF At
  <2> HIDE DEF p
  <2>4. /\ Originals(c) /\ JournalOK(journal) /\ synced[c] = Len(journal.records)
    BY <2>3, WritingFacts
  <2>5. p > journal.orig \/ p \in Saved(journal, synced[c])
    BY <2>2, <2>4, SavedIsJournaled DEF Originals, Saved
  <2> QED BY <1>2, <2>2, <2>3, <2>5
<1>4. CASE At(c, "spill", "write") /\ WritePages(todo[c][1], Torn)
  <2>1. step[c] = "write" /\ job[c] = "spill"
    BY <1>4 DEF At
  <2>2. Spilling(c) /\ SpillIsSaved(c)
    BY <2>1, WritingFacts
  <2>3. PICK p \in dirty[c] \ {1} : todo[c] = <<p>>
    BY <2>2 DEF Spilling
  <2>4. p \in Page /\ todo[c][1] = p
    BY <2>3 DEF StoreInv, StoreTypeOK
  <2> QED BY <1>2, <1>4, <2>1, <2>2, <2>4 DEF SpillIsSaved
<1>5. CASE step[c] = "replay" /\ todo[c] # <<>> /\ WritePages(Head(todo[c]).page, Torn)
  <2>1. Head(todo[c]).page \in Page /\ Protected(Head(todo[c]).page) /\ eFileLock[c] = EXCLUSIVE_LOCK
    BY <1>5, ReplayedWrite, ReplayFacts
  <2> QED BY <1>5, <2>1
<1> QED BY <1>1, <1>3, <1>4, <1>5 DEF Fail

(* A failed call may leave a page half written, but only one whose original   *)
(* is safe.                                                                   *)
LEMMA FailFiles ==
  ASSUME StoreInv, NEW c \in Conn, Fail(c)
  PROVE  /\ Image' = Image
         /\ \/ UNCHANGED dbVars
            \/ /\ eFileLock[c] = EXCLUSIVE_LOCK /\ Durable' /\ GhostsUndo'
               /\ db' \in [Page -> Content] /\ db'[1] # Absent
               /\ dbDisk' \in [Page -> SUBSET Content] /\ Absent \notin dbDisk'[1]
         /\ step[c] # "replay" =>
              \A p \in Page : \/ db'[p] = db[p]
                              \/ step[c] = "write" /\ (p > journal.orig \/ p \in Saved(journal, synced[c]))
<1>0. UNCHANGED <<journal, journalDisk, ghosts>>
  BY DEF Fail, journalVars
<1>1. CASE UNCHANGED dbVars
  BY <1>0, <1>1, ImageStays DEF dbVars
<1>2. CASE /\ eFileLock[c] = EXCLUSIVE_LOCK
           /\ \E p \in Page :
                /\ WritePages(p, Torn) /\ Protected(p)
                /\ step[c] = "write" => p > journal.orig \/ p \in Saved(journal, synced[c])
  <2>1. PICK p \in Page : /\ WritePages(p, Torn) /\ Protected(p)
                          /\ step[c] = "write" => p > journal.orig \/ p \in Saved(journal, synced[c])
    BY <1>2
  <2>2. Torn \in Content /\ Torn # Absent
    BY DEF Content, Torn, Absent
  <2>3. /\ Image' = Image /\ Durable' /\ GhostsUndo'
        /\ db' \in [Page -> Content] /\ db'[1] # Absent
        /\ dbDisk' \in [Page -> SUBSET Content] /\ Absent \notin dbDisk'[1]
        /\ \A q \in Page : q # p => db'[q] = db[q]
    BY <1>0, <2>1, <2>2, ProtectedWrite
  <2>4. step[c] \in {"write", "replay"} \/ db' = db
    BY DEF Fail, At, dbVars
  <2> QED BY <1>2, <2>1, <2>3, <2>4
<1> QED BY <1>1, <1>2, TornIsProtected

(* Where a failure leads to: a commit or spill may be rolled back, an opening *)
(* gives up, and a rollback ends in ERROR.                                    *)
LEMMA FailedCommit ==
  ASSUME StoreInv, UNCHANGED processOf, NEW c \in Conn, Fail(c), step[c] # "unlink", job[c] = "commit"
  PROVE  ConnOK(c)' /\ cache' = cache /\ dirty' = dirty
<1>0. /\ step[c] \in {"sync records", "sync header", "write", "sync file"}
      /\ step[c] \in CommitStep /\ step[c] # "lock" /\ step[c] # "lower"
  BY StoreFacts DEF Fail, Control, CommitStep
<1>1. /\ eState[c] \in Modifying /\ eFileLock[c] = EXCLUSIVE_LOCK
      /\ EXCLUSIVE_LOCK >= RESERVED_LOCK /\ EXCLUSIVE_LOCK \in Level
  BY <1>0, SyncStep
<1>2. /\ Originals(c) /\ WriteAhead(c) /\ Reserved(c)
      /\ IF eState[c] = "WRITER_CACHEMOD" THEN Unwritten(c) ELSE synced[c] <= journalDisk.nRec
  BY <1>0, <1>1, JournalingFacts
<1>3. /\ job'[c] = "failed" /\ step'[c] = "idle" /\ eState' = eState
      /\ cache' = cache /\ dirty' = dirty /\ dbFileVers' = dbFileVers /\ dbSize' = dbSize
      /\ synced' = synced /\ tx' = tx
      /\ journal' = journal /\ journalDisk' = journalDisk /\ ghosts' = ghosts
      /\ eFileLock' = eFileLock /\ (Reserved(c)' <=> Reserved(c))
  BY <1>0, StoreFacts DEF Fail, Goto, PagerTypeOK, lockVars, Reserved, journalVars
<1>4. /\ Image' = Image
      /\ \A p \in Page : \/ db'[p] = db[p]
                         \/ step[c] = "write" /\ (p > journal.orig \/ p \in Saved(journal, synced[c]))
  BY <1>0, FailFiles
<1>5. Originals(c)'
  BY <1>2, <1>3, <1>4 DEF Originals, HasSize, Own, Version, Journaled
<1>6. WriteAhead(c)'
  <2>1. \A p \in 1..journal.orig : p \in Page /\ ~(p > journal.orig)
    <3>1. journal.orig \in Page
      BY <1>2 DEF Originals, HasSize
    <3> QED BY <3>1, PagerAssumption DEF Page
  <2>2. \A p \in 1..journal.orig : db[p] = Image[p] \/ p \in Saved(journal, synced[c])
    BY <1>2 DEF WriteAhead
  <2>3. \A p \in 1..journal.orig : db'[p] = Image[p] \/ p \in Saved(journal, synced[c])
    BY <1>4, <2>1, <2>2
  <2> QED BY <1>2, <1>3, <1>4, <2>3 DEF WriteAhead, Saved
<1>7. eState'[c] = "WRITER_CACHEMOD" => Unwritten(c)'
  <2> SUFFICES ASSUME eState[c] = "WRITER_CACHEMOD" PROVE Unwritten(c)'
    BY <1>3
  <2>1. step[c] # "write" /\ step[c] # "sync file"
    BY WritingFacts
  <2>2. db' = db
    BY <2>1, <1>0 DEF Fail, At, dbVars
  <2> QED BY <1>2, <1>3, <1>4, <2>2 DEF Unwritten
<1>10. Changed(c)'
  <2>1. Transaction(c)
    BY <1>0, <1>1, JournalingFacts
  <2>2. Changed(c)
    BY <1>2, <2>1 DEF Changed, Transaction, Originals
  <2> QED BY <1>3, <1>4, <2>2 DEF Changed, Own
<1>8. eState[c] = "WRITER_DBMOD" => synced[c] <= journalDisk.nRec
  BY <1>2
<1>9. ConnOK(c)'
  BY <1>1, <1>2, <1>3, <1>5, <1>6, <1>7, <1>8, <1>10, LandsJournaling
<1> QED BY <1>3, <1>9

LEMMA FailedOpen ==
  ASSUME StoreInv, UNCHANGED processOf, NEW c \in Conn, Fail(c), job[c] = "open"
  PROVE  ConnOK(c)' /\ ResetCache(c)
<1>0. /\ step[c] \in {"play", "replay", "unlink"} /\ eState[c] = "OPEN"
      /\ eFileLock[c] = EXCLUSIVE_LOCK /\ ~Reserved(c)
  <2>1. step[c] \in {"play", "replay", "unlink"} /\ eState[c] = "OPEN"
    BY StoreFacts DEF Fail, Control, OpenStep, HoldsExclusive
  <2> QED BY <2>1, StoreFacts DEF HoldsExclusive, AloneStep, Locked, Writer
<1>1. /\ Goto(c, "give up") /\ ResetCache(c) /\ eState' = eState /\ job' = job
      /\ IF step[c] = "unlink" THEN UnlockToShared(c) ELSE UNCHANGED lockVars
  BY <1>0 DEF Fail
<1>2. step'[c] = "give up" /\ job'[c] = "open" /\ eState'[c] = "OPEN"
  BY <1>0, <1>1, StoreFacts DEF Goto, PagerTypeOK
<1>3. eFileLock'[c] # NO_LOCK /\ ~Reserved(c)'
  <2>1. CASE step[c] = "unlink"
    <3>1. eFileLock[c] # NO_LOCK
      BY <1>0 DEF NO_LOCK, EXCLUSIVE_LOCK
    <3>2. UnlockToShared(c)
      BY <1>1, <2>1
    <3>3. eFileLock'[c] = SHARED_LOCK /\ SHARED_LOCK # NO_LOCK
      BY <3>1, <3>2, StoreFacts, LockEffects DEF NO_LOCK, SHARED_LOCK
    <3> QED BY <3>3, StepKeepsLocks
  <2>2. CASE step[c] # "unlink"
    <3>1. EXCLUSIVE_LOCK # NO_LOCK
      BY DEF NO_LOCK, EXCLUSIVE_LOCK
    <3> QED BY <1>0, <1>1, <2>2, <3>1 DEF lockVars, Reserved
  <2> QED BY <2>1, <2>2
<1>4. cache'[c] = [p \in Page |-> NotCached] /\ dirty'[c] = {}
  BY <1>1, ResetIsTyped DEF StoreInv
<1>5. Outdated(c)'
  BY <1>4 DEF Outdated, Caches
<1>6. ConnOK(c)'
  BY <1>2, <1>3, <1>5, LandsOpening DEF OpenStep
<1> QED BY <1>1, <1>6

LEMMA FailedEnd ==
  ASSUME StoreInv, UNCHANGED processOf, NEW c \in Conn, Fail(c),
         job[c] # "open", step[c] = "unlink" \/ job[c] # "commit"
  PROVE  ConnOK(c)' /\ cache' = cache /\ dirty' = dirty
<1>0. step[c] # "delete"
  BY StoreFacts DEF Control
<1>1. /\ Return(c, "ERROR") /\ cache' = cache /\ dirty' = dirty
      /\ IF step[c] = "unlink" THEN UnlockToShared(c) ELSE UNCHANGED lockVars
  BY <1>0 DEF Fail
<1>2. step'[c] = "idle" /\ job'[c] = "none" /\ eState'[c] = "ERROR"
  BY <1>1, StoreFacts DEF Return, PagerTypeOK
<1>3. eFileLock'[c] # NO_LOCK /\ (Reserved(c)' => eFileLock'[c] = EXCLUSIVE_LOCK)
  <2>1. CASE step[c] = "unlink"
    <3>0. job[c] # "none"
      BY <2>1, StoreFacts DEF Control
    <3>1. eFileLock[c] # NO_LOCK
      BY <2>1, <3>0, StoreFacts DEF Locked
    <3>2. eFileLock'[c] = SHARED_LOCK /\ SHARED_LOCK # NO_LOCK
      BY <1>1, <2>1, <3>1, StoreFacts, LockEffects DEF NO_LOCK, SHARED_LOCK
    <3> QED BY <3>2, StepKeepsLocks
  <2>2. CASE step[c] # "unlink"
    <3>1. step[c] \in AloneStep
      BY <1>0, <2>2 DEF Fail, AloneStep
    <3>2. eFileLock[c] = EXCLUSIVE_LOCK
      BY <3>1, StoreFacts DEF HoldsExclusive
    <3>3. EXCLUSIVE_LOCK # NO_LOCK
      BY DEF NO_LOCK, EXCLUSIVE_LOCK
    <3> QED BY <1>1, <2>2, <3>2, <3>3 DEF lockVars
  <2> QED BY <2>1, <2>2
<1>4. ConnOK(c)'
  BY <1>2, <1>3, LandsError
<1> QED BY <1>1, <1>4

LEMMA FailKeepsStore ==
  ASSUME StoreInv, UNCHANGED processOf, NEW c \in Conn, Fail(c)
  PROVE  StoreInv' /\ Image' = Image
<1>1. /\ UNCHANGED <<journalVars, before>> /\ dbFileVers' = dbFileVers /\ dbSize' = dbSize
      /\ synced' = synced /\ tx' = tx /\ txs' = txs /\ before' = before
      /\ todo' = [todo EXCEPT ![c] = <<>>]
  BY DEF Fail
<1>2. ConnOK(c)' /\ (ResetCache(c) \/ (cache' = cache /\ dirty' = dirty))
  BY FailedOpen, FailedCommit, FailedEnd
<1>3. /\ cache' \in [Conn -> [Page -> Content \cup {NotCached}]] /\ cache'[c][1] # Absent
      /\ dirty' \in [Conn -> SUBSET Page]
  BY <1>2, ResetIsTyped DEF StoreInv, StoreTypeOK, FileHasPage
<1>4. todo' \in [Conn -> Seq(Record) \cup Seq(Page)]
  <2>1. <<>> \in Seq(Page) /\ todo \in [Conn -> Seq(Record) \cup Seq(Page)]
    BY DEF StoreInv, StoreTypeOK
  <2> QED BY <1>1, <2>1
<1>5. /\ dbFileVers' \in [Conn -> Nat] /\ dbSize' \in [Conn -> 0..MaxPage]
      /\ synced' \in [Conn -> Nat] /\ tx' \in [Conn -> Nat] /\ txs' \in Nat /\ before' \in Images
  BY <1>1 DEF StoreInv, StoreTypeOK
<1>6. CASE UNCHANGED dbVars
  BY <1>1, <1>2, <1>3, <1>4, <1>5, <1>6, CacheStep
<1>7. CASE ~UNCHANGED dbVars
  <2>1. /\ Image' = Image
        /\ eFileLock[c] = EXCLUSIVE_LOCK /\ Durable' /\ GhostsUndo'
        /\ db' \in [Page -> Content] /\ db'[1] # Absent
        /\ dbDisk' \in [Page -> SUBSET Content] /\ Absent \notin dbDisk'[1]
    BY <1>7, FailFiles
  <2> QED BY <1>2, <1>3, <1>4, <1>5, <2>1, FileStep
<1> QED BY <1>6, <1>7

(* Processes that die lose what their connections have, and nobody else does. *)
LEMMA RestartEffects ==
  ASSUME StoreInv, UNCHANGED processOf, NEW ps \in SUBSET Process, Restart(ps)
  PROVE  /\ \A c \in Conn : IF processOf[c] \in ps
              THEN /\ eState'[c] = "OPEN" /\ job'[c] = "none" /\ step'[c] = "idle"
                   /\ eFileLock'[c] = NO_LOCK /\ ~Reserved(c)'
                   /\ cache'[c] = [p \in Page |-> NotCached] /\ dirty'[c] = {}
              ELSE SameData(c) /\ SameControl(c)
         /\ cache' \in [Conn -> [Page -> Content \cup {NotCached}]]
         /\ \A c \in Conn : cache'[c][1] # Absent
         /\ dirty' \in [Conn -> SUBSET Page] /\ dbFileVers' \in [Conn -> Nat]
         /\ dbSize' \in [Conn -> 0..MaxPage]
         /\ synced' \in [Conn -> Nat] /\ todo' \in [Conn -> Seq(Record) \cup Seq(Page)]
         /\ tx' \in [Conn -> Nat] /\ txs' \in Nat
<1>0. /\ StoreTypeOK /\ FileHasPage /\ LocksTypeOK /\ 1 \in Page /\ NotCached # Absent
      /\ 0 \in 0..MaxPage /\ 0 \in Nat /\ <<>> \in Seq(Page)
  BY PageIsInt DEF StoreInv, PagerInv, LocksInv, NotCached, Absent
<1>1. /\ eState' = [c \in Conn |-> IF processOf[c] \in ps THEN "OPEN" ELSE eState[c]]
      /\ job' = [c \in Conn |-> IF processOf[c] \in ps THEN "none" ELSE job[c]]
      /\ step' = [c \in Conn |-> IF processOf[c] \in ps THEN "idle" ELSE step[c]]
      /\ cache' = [c \in Conn |-> IF processOf[c] \in ps THEN [p \in Page |-> NotCached] ELSE cache[c]]
      /\ dirty' = [c \in Conn |-> IF processOf[c] \in ps THEN {} ELSE dirty[c]]
      /\ dbFileVers' = [c \in Conn |-> IF processOf[c] \in ps THEN 0 ELSE dbFileVers[c]]
      /\ dbSize' = [c \in Conn |-> IF processOf[c] \in ps THEN 0 ELSE dbSize[c]]
      /\ synced' = [c \in Conn |-> IF processOf[c] \in ps THEN 0 ELSE synced[c]]
      /\ todo' = [c \in Conn |-> IF processOf[c] \in ps THEN <<>> ELSE todo[c]]
      /\ tx' = [c \in Conn |-> IF processOf[c] \in ps THEN 0 ELSE tx[c]]
      /\ txs' = txs
  BY DEF Restart
<1>2. /\ eFileLock' = [c \in Conn |-> IF processOf[c] \in ps THEN NO_LOCK ELSE eFileLock[c]]
      /\ reservedByte' = [p \in Process |-> IF p \in ps THEN "none" ELSE reservedByte[p]]
  BY DEF Restart, Dies
<1>3. ASSUME NEW c \in Conn, processOf[c] \in ps
      PROVE  /\ eState'[c] = "OPEN" /\ job'[c] = "none" /\ step'[c] = "idle"
             /\ eFileLock'[c] = NO_LOCK /\ ~Reserved(c)'
             /\ cache'[c] = [p \in Page |-> NotCached] /\ dirty'[c] = {}
  BY <1>1, <1>2, <1>3 DEF Reserved
<1>4. ASSUME NEW c \in Conn, processOf[c] \notin ps
      PROVE  SameData(c) /\ SameControl(c)
  <2>1. SameData(c)
    BY <1>1, <1>4 DEF SameData
  <2>2. processOf[c] \in Process
    BY <1>0 DEF LocksTypeOK
  <2>3. SameControl(c)
    BY <1>1, <1>2, <1>4, <2>2 DEF SameControl, Reserved
  <2> QED BY <2>1, <2>3
<1>5. cache' \in [Conn -> [Page -> Content \cup {NotCached}]]
  BY <1>0, <1>1 DEF StoreTypeOK
<1>6. \A c \in Conn : cache'[c][1] # Absent
  BY <1>0, <1>1 DEF FileHasPage
<1>7. /\ dirty' \in [Conn -> SUBSET Page] /\ dbFileVers' \in [Conn -> Nat]
      /\ dbSize' \in [Conn -> 0..MaxPage] /\ synced' \in [Conn -> Nat]
      /\ tx' \in [Conn -> Nat] /\ txs' \in Nat
  BY <1>0, <1>1 DEF StoreTypeOK
<1>8. todo' \in [Conn -> Seq(Record) \cup Seq(Page)]
  BY <1>0, <1>1 DEF StoreTypeOK
<1> QED BY <1>3, <1>4, <1>5, <1>6, <1>7, <1>8

(* A process that dies takes its caches along.                                *)
LEMMA DeadIsOK ==
  ASSUME NEW c \in Conn,
         eState'[c] = "OPEN", job'[c] = "none", step'[c] = "idle",
         eFileLock'[c] = NO_LOCK, ~Reserved(c)',
         cache'[c] = [p \in Page |-> NotCached], dirty'[c] = {}
  PROVE  ConnOK(c)'
<1>1. Outdated(c)'
  BY DEF Outdated, Caches
<1> QED BY <1>1, LandsOpen

LEMMA KillKeepsStore ==
  ASSUME StoreInv, UNCHANGED processOf, NEW p \in Process, Kill(p)
  PROVE  StoreInv' /\ Image' = Image
<1>0. Restart({p}) /\ {p} \in SUBSET Process /\ UNCHANGED <<dbVars, journalVars, before>>
  BY DEF Kill
<1>1. /\ \A c \in Conn : IF processOf[c] \in {p}
           THEN /\ eState'[c] = "OPEN" /\ job'[c] = "none" /\ step'[c] = "idle"
                /\ eFileLock'[c] = NO_LOCK /\ ~Reserved(c)'
                /\ cache'[c] = [q \in Page |-> NotCached] /\ dirty'[c] = {}
           ELSE SameData(c) /\ SameControl(c)
      /\ cache' \in [Conn -> [Page -> Content \cup {NotCached}]]
      /\ \A c \in Conn : cache'[c][1] # Absent
      /\ dirty' \in [Conn -> SUBSET Page] /\ dbFileVers' \in [Conn -> Nat]
      /\ dbSize' \in [Conn -> 0..MaxPage]
      /\ synced' \in [Conn -> Nat] /\ todo' \in [Conn -> Seq(Record) \cup Seq(Page)]
      /\ tx' \in [Conn -> Nat] /\ txs' \in Nat
  BY <1>0, RestartEffects
<1>2. PagerInv'
  BY PagerInvStep DEF Next, StoreInv
<1>3. Image' = Image
  BY <1>0, ImageStays DEF dbVars, journalVars
<1>4. Separate' /\ Durable' /\ GhostsUndo'
  BY <1>0, FilesStay DEF StoreInv, Separate
<1>5. StoreTypeOK' /\ FileHasPage'
  BY <1>0, <1>1, <1>3 DEF StoreInv, StoreTypeOK, FileHasPage, dbVars
<1>6. ASSUME NEW c \in Conn PROVE ConnOK(c)'
  <2>1. CASE processOf[c] \in {p}
    BY <1>1, <2>1, DeadIsOK
  <2>2. CASE processOf[c] \notin {p}
    <3>1. SameData(c) /\ SameControl(c) /\ ConnOK(c)
      BY <1>1, <2>2 DEF StoreInv
    <3> QED BY <1>0, <3>1, QuietForOthers DEF journalVars
  <2> QED BY <2>1, <2>2
<1> QED BY <1>2, <1>3, <1>4, <1>5, <1>6 DEF StoreInv

(* What a loss of power leaves is the image as readers saw it, or that before *)
(* the last commit.                                                           *)
LEMMA LosePowerFiles ==
  ASSUME StoreInv, LosePower
  PROVE  /\ Image' \in {Image, before} /\ before' = Image'
         /\ db' \in [Page -> Content] /\ db'[1] # Absent /\ dbDisk' = [p \in Page |-> {db'[p]}]
         /\ JournalOK(journal') /\ journalDisk' = journal' /\ ghosts' = {}
<1>0. /\ JournalOK(journal) /\ 1 \in Page /\ Absent \notin dbDisk[1] /\ journal.orig \in Int
      /\ dbDisk \in [Page -> SUBSET Content] /\ \A p \in Page : p \in Int
      /\ db \in [Page -> Content] /\ Image \in [Page -> Content]
      /\ journalDisk.nRec \in Int /\ journalDisk.nRec <= journal.nRec /\ journal.nRec \in Int
  <2>1. JournalOK(journal)
    BY DEF StoreInv, Durable
  <2> QED BY <2>1, JournalFacts, PageIsInt, PagerAssumption, ImageVersion
          DEF StoreInv, StoreTypeOK, FileHasPage, Durable
<1>1. /\ db' \in [Page -> UNION {dbDisk[p] : p \in Page}] /\ \A p \in Page : db'[p] \in dbDisk[p]
      /\ dbDisk' = [p \in Page |-> {db'[p]}]
      /\ journal' \in Remains(journal, journalDisk) \cup ghosts
      /\ journalDisk' = journal' /\ ghosts' = {}
      /\ before' = Recovered(db', journal')
  BY DEF LosePower
<1>2. db' \in [Page -> Content] /\ db'[1] # Absent
  <2>1. db' = [p \in Page |-> db'[p]] /\ \A p \in Page : db'[p] \in Content
    BY <1>0, <1>1
  <2> QED BY <1>0, <1>1, <2>1
<1>3. \A p \in Page : db'[p] = Image[p] \/ Protected(p)
  BY <1>1 DEF StoreInv, Durable
<1>4. ~IsHot(journalDisk) => db' = Image
  <2> SUFFICES ASSUME ~IsHot(journalDisk) PROVE db' = Image
    OBVIOUS
  <2>1. \A p \in Page : db'[p] = Image[p]
    BY <1>3 DEF Protected
  <2> QED BY <1>0, <1>2, <2>1
<1>5. CASE journal' \in Remains(journal, journalDisk)
  <2>1. \A p \in Page : p <= journal.orig => db'[p] = Image[p] \/ p \in Saved(journal, journalDisk.nRec)
    BY <1>0, <1>3 DEF Protected
  <2> DEFINE j == journal'
             file == db'
  <2>2. /\ file \in [Page -> Content] /\ j \in Remains(journal, journalDisk)
        /\ \A p \in Page : p <= journal.orig => file[p] = Image[p] \/ p \in Saved(journal, journalDisk.nRec)
    BY <1>2, <1>5, <2>1
  <2> HIDE DEF j, file
  <2>3. /\ JournalOK(j)
        /\ IsHot(j) => Recovered(file, j) = Image
        /\ ~IsHot(j) => j = NoJournal /\ ~IsHot(journalDisk)
    BY <2>2, RemainsRestore
  <2>4. ~IsHot(j) => Recovered(file, j) = file
    BY RecoveredCold
  <2>5. Recovered(db', journal') = Image /\ JournalOK(journal')
    BY <1>4, <2>3, <2>4 DEF j, file
  <2> QED BY <1>1, <1>2, <2>5 DEF Image
<1>6. CASE journal' \in ghosts
  <2>1. ~IsHot(journal) /\ JournalOK(journal') /\ Recovered(db, journal') \in {db, before}
    BY <1>6 DEF StoreInv, GhostsUndo
  <2>2. ~IsHot(journalDisk) /\ Image = db
    <3>1. ~IsHot(journalDisk)
      BY <1>0, <2>1 DEF IsHot
    <3> QED BY <2>1, <3>1, RecoveredCold DEF Image
  <2>3. db' = db
    BY <1>4, <2>2
  <2> QED BY <1>1, <1>2, <2>1, <2>2, <2>3 DEF Image
<1> QED BY <1>1, <1>5, <1>6

(* A loss of power leaves the files that some order of the writes could have  *)
(* left: the image is the last commit, or the one before when its deletion of *)
(* the journal was not synced.                                                *)
LEMMA LosePowerKeepsStore ==
  ASSUME StoreInv, UNCHANGED processOf, LosePower
  PROVE  StoreInv'
<1>0. Restart(Process) /\ Process \in SUBSET Process /\ \A c \in Conn : processOf[c] \in Process
  BY DEF LosePower, StoreInv, PagerInv, LocksInv, LocksTypeOK
<1>1. /\ \A c \in Conn : /\ eState'[c] = "OPEN" /\ job'[c] = "none" /\ step'[c] = "idle"
                         /\ eFileLock'[c] = NO_LOCK /\ ~Reserved(c)'
                         /\ cache'[c] = [q \in Page |-> NotCached] /\ dirty'[c] = {}
      /\ cache' \in [Conn -> [Page -> Content \cup {NotCached}]]
      /\ \A c \in Conn : cache'[c][1] # Absent
      /\ dirty' \in [Conn -> SUBSET Page] /\ dbFileVers' \in [Conn -> Nat]
      /\ dbSize' \in [Conn -> 0..MaxPage]
      /\ synced' \in [Conn -> Nat] /\ todo' \in [Conn -> Seq(Record) \cup Seq(Page)]
      /\ tx' \in [Conn -> Nat] /\ txs' \in Nat
  BY <1>0, RestartEffects
<1>2. PagerInv' /\ Separate'
  BY PagerInvStep DEF Next, StoreInv, Separate
<1>3. /\ Image' \in {Image, before} /\ before' = Image'
      /\ db' \in [Page -> Content] /\ db'[1] # Absent /\ dbDisk' = [p \in Page |-> {db'[p]}]
      /\ JournalOK(journal') /\ journalDisk' = journal' /\ ghosts' = {}
  BY LosePowerFiles
<1>4. dbDisk' \in [Page -> SUBSET Content] /\ 1 \in Page /\ Absent \notin dbDisk'[1]
  BY <1>3, PageIsInt
<1>5. StoreTypeOK'
  BY <1>1, <1>3, <1>4 DEF StoreInv, StoreTypeOK
<1>6. FileHasPage'
  BY <1>1, <1>3, <1>4 DEF FileHasPage
<1>7. Durable'
  <2> DEFINE j == journal'
             file == db'
  <2>1. JournalOK(j)
    BY <1>3
  <2> HIDE DEF j, file
  <2>2. j.nRec \in Int /\ -1 <= j.nRec /\ j.nRec <= Len(j.records) /\ Len(j.records) \in Nat
        /\ j.orig \in Int /\ \A p \in Page : p \in Int
    BY <2>1, JournalFacts, PageIsInt, PagerAssumption DEF JournalOK
  <2>3. ASSUME NEW p \in Page
        PROVE  \/ IsHot(j) /\ (p > j.orig \/ p \in Saved(j, j.nRec))
               \/ Recovered(file, j)[p] = file[p]
    <3>1. CASE ~IsHot(j)
      BY <3>1, RecoveredCold
    <3>2. CASE IsHot(j)
      BY <2>1, <2>2, <3>2, RecoveredHot
    <3> QED BY <3>1, <3>2
  <2>4. \A p \in Page : Protected(p)' \/ dbDisk'[p] = {Image'[p]}
    <3>1. Image' = Recovered(file, j)
      BY DEF Image, file, j
    <3>2. \A p \in Page : Protected(p)' <=> IsHot(j) /\ (p > j.orig \/ p \in Saved(j, j.nRec))
      BY <1>3 DEF Protected, j
    <3>3. \A p \in Page : dbDisk'[p] = {file[p]}
      BY <1>3 DEF file
    <3> QED BY <2>3, <3>1, <3>2, <3>3
  <2>5. \A p \in Page : db'[p] \in dbDisk'[p]
    BY <1>3
  <2>6. /\ JournalOK(journal)'
        /\ (journalDisk.nRec \in Int)'
        /\ (-1 <= journalDisk.nRec /\ journalDisk.nRec <= journal.nRec)'
        /\ (Len(journalDisk.records) \in Nat)'
        /\ (journal.nRec <= Len(journalDisk.records))'
        /\ (Len(journalDisk.records) <= Len(journal.records))'
    <3>1. JournalOK(journal)'
      BY <1>3 DEF JournalOK
    <3>2. j.nRec <= j.nRec /\ Len(j.records) <= Len(j.records)
      BY <2>2
    <3> QED BY <1>3, <2>2, <3>1, <3>2 DEF j
  <2> QED BY <2>4, <2>5, <2>6 DEF Durable
<1>8. GhostsUndo'
  BY <1>3 DEF GhostsUndo
<1>9. \A c \in Conn : ConnOK(c)'
  BY <1>1, DeadIsOK
<1> QED BY <1>2, <1>5, <1>6, <1>7, <1>8, <1>9 DEF StoreInv

-----------------------------------------------------------------------------
LEMMA ReadingKeepsStore ==
  ASSUME StoreInv, UNCHANGED processOf, NEW c \in Conn, Reading(c)
  PROVE  StoreInv' /\ Image' = Image
BY EndReadKeepsStore, EndErrorKeepsStore, CloseKeepsStore, ReadPageKeepsStore, RecycleKeepsStore
   DEF Reading

LEMMA OpeningKeepsStore ==
  ASSUME StoreInv, UNCHANGED processOf, NEW c \in Conn, Opening(c)
  PROVE  StoreInv' /\ Image' = Image
BY SharedLockKeepsStore, CheckExistsKeepsStore, CheckReservedKeepsStore, CheckHeaderKeepsStore,
   LockObsoleteDoesNotHappen, LockHotKeepsStore, PlayHotKeepsStore, ValidateKeepsStore,
   GiveUpKeepsStore DEF Opening

LEMMA WritingKeepsStore ==
  ASSUME StoreInv, UNCHANGED processOf, NEW c \in Conn, Writing(c)
  PROVE  StoreInv' /\ Image' = Image
BY BeginKeepsStore, EndUnmodifiedKeepsStore, CommitKeepsStore, WritePageKeepsStore,
   SpillKeepsStore, LockDbKeepsStore, SyncRecordsKeepsStore, WriteHeaderKeepsStore,
   SyncHeaderKeepsStore, WriteDbKeepsStore, WriteSpilledKeepsStore, SyncDbKeepsStore DEF Writing

LEMMA EndingKeepsStore ==
  ASSUME StoreInv, UNCHANGED processOf, NEW c \in Conn, Ending(c)
  PROVE  StoreInv' /\ (Unlink(c) \/ Image' = Image)
BY RollbackKeepsStore, ReplayKeepsStore, UnlinkKeepsStore, LowerKeepsStore DEF Ending

LEMMA StutterKeepsStore ==
  ASSUME StoreInv, UNCHANGED vars
  PROVE  StoreInv' /\ Image' = Image
<1>1. PagerInv'
  BY PagerInvStep DEF StoreInv
<1>2. /\ UNCHANGED <<processOf, dbVars, journalVars, cacheVars, txVars, callVars, lockVars, before>>
      /\ db' = db /\ dbDisk' = dbDisk /\ cache' = cache /\ dirty' = dirty
      /\ dbFileVers' = dbFileVers /\ dbSize' = dbSize
      /\ synced' = synced /\ todo' = todo /\ tx' = tx /\ txs' = txs /\ before' = before
      /\ journal' = journal /\ journalDisk' = journalDisk /\ ghosts' = ghosts
  BY DEF vars, dbVars, journalVars, cacheVars, txVars, callVars, lockVars
<1>3. Image' = Image
  BY <1>2, ImageStays
<1>4. Separate' /\ StoreTypeOK' /\ FileHasPage'
  BY <1>2, <1>3 DEF StoreInv, Separate, StoreTypeOK, FileHasPage
<1>5. Durable' /\ GhostsUndo'
  BY <1>2, FilesStay DEF StoreInv
<1>6. ASSUME NEW c \in Conn PROVE ConnOK(c)'
  <2>1. SameData(c)
    BY <1>2 DEF SameData
  <2>2. SameControl(c)
    BY <1>2 DEF SameControl, Reserved, callVars, lockVars
  <2> QED BY <1>2, <2>1, <2>2, QuietForOthers DEF StoreInv
<1> QED BY <1>1, <1>3, <1>4, <1>5, <1>6 DEF StoreInv

(* The invariant is inductive.                                                *)
LEMMA StoreInvStep == StoreInv /\ [Next]_vars => StoreInv'
<1> SUFFICES ASSUME StoreInv, [Next]_vars PROVE StoreInv'
  OBVIOUS
<1>1. CASE UNCHANGED vars
  BY <1>1, StutterKeepsStore
<1>2. CASE Next
  BY <1>2, ReadingKeepsStore, OpeningKeepsStore, WritingKeepsStore, EndingKeepsStore,
     FailKeepsStore, KillKeepsStore, LosePowerKeepsStore DEF Next
<1> QED BY <1>1, <1>2

LEMMA StoreInvInit == Init /\ Separate /\ Nonempty => StoreInv
<1> SUFFICES ASSUME Init, Separate, Nonempty PROVE StoreInv
  OBVIOUS
<1>1. PICK start \in Start : db = Cut([p \in Page |-> <<0, 0>>], start.size) /\ txs = start.txs
  BY DEF Init
<1>2. /\ journal = NoJournal /\ journalDisk = NoJournal /\ ghosts = {} /\ before = db
      /\ dbDisk = [p \in Page |-> {db[p]}]
      /\ eState = [c \in Conn |-> "OPEN"] /\ job = [c \in Conn |-> "none"]
      /\ step = [c \in Conn |-> "idle"]
      /\ cache = [c \in Conn |-> [p \in Page |-> NotCached]]
      /\ dirty = [c \in Conn |-> {}] /\ dbFileVers = [c \in Conn |-> 0]
      /\ dbSize = [c \in Conn |-> 0] /\ synced = [c \in Conn |-> 0]
      /\ todo = [c \in Conn |-> <<>>] /\ tx = [c \in Conn |-> 0]
  BY DEF Init
<1>3. PagerInv
  BY PagerInvInit
<1>4. /\ 1 \in Page /\ NotCached # Absent /\ 0 \in 0..MaxPage /\ <<>> \in Seq(Page) /\ txs \in Nat
  <2>1. start \in [size : 0..MaxPage, processOf : [Conn -> Process], txs : 0..MaxTx, faults : 0..MaxFault]
    BY PagerAssumption
  <2>2. start.txs \in 0..MaxTx
    BY <2>1
  <2> QED BY <1>1, <2>2, PageIsInt, PagerAssumption DEF NotCached, Absent
<1>5. ~IsHot(journal) /\ Image = db
  BY <1>2, NoJournalIsOK, RecoveredCold DEF Image
<1>6. db \in Images /\ db \in [Page -> Content]
  <2>1. db = [p \in Page |-> IF p > start.size THEN Absent ELSE <<0, 0>>]
    BY <1>1 DEF Cut
  <2> QED BY <2>1 DEF Images, Content
<1>7. StoreTypeOK
  BY <1>2, <1>4, <1>5, <1>6 DEF StoreTypeOK
<1>8. FileHasPage
  BY <1>2, <1>4 DEF FileHasPage, Nonempty
<1>9. Durable
  <2>1. /\ JournalOK(NoJournal) /\ NoJournal.nRec = -1 /\ Len(NoJournal.records) = 0
    BY NoJournalIsOK
  <2>2. -1 \in Int /\ -1 <= -1 /\ 0 \in Nat /\ -1 <= 0 /\ 0 <= 0
    OBVIOUS
  <2> QED BY <1>2, <1>5, <2>1, <2>2 DEF Durable
<1>10. GhostsUndo
  BY <1>2 DEF GhostsUndo
<1>11. ASSUME NEW c \in Conn PROVE ConnOK(c)
  <2>1. eState[c] = "OPEN" /\ job[c] = "none" /\ step[c] = "idle" /\ dirty[c] = {} /\ ~Caches(c)
    BY <1>2 DEF Caches
  <2>2. eFileLock[c] = NO_LOCK /\ ~Reserved(c)
    <3>1. processOf[c] \in Process
      BY <1>3 DEF PagerInv, LocksInv, LocksTypeOK
    <3> QED BY <3>1 DEF Init, LocksInit, Reserved
  <2>3. Control(c)
    BY <2>1 DEF Control, Modifying
  <2>4. Locked(c)
    BY <2>1, <2>2 DEF Locked, Writer
  <2>5. HotIsOwn(c)
    BY <1>5 DEF HotIsOwn
  <2>6. ConnInv(c)
    BY <2>1 DEF ConnInv, Outdated, Clean, Journaling, Modifying
  <2> QED BY <2>3, <2>4, <2>5, <2>6 DEF ConnOK
<1> QED BY <1>3, <1>7, <1>8, <1>9, <1>10, <1>11 DEF StoreInv

LEMMA StoreInvariant == Spec /\ Separate /\ Nonempty => []StoreInv
BY StoreInvInit, StoreInvStep, PTL DEF Spec

-----------------------------------------------------------------------------
(* What the invariant says of a cache.                                        *)
LEMMA CurrentWhereClean ==
  ASSUME StoreInv, NEW c \in Conn, UpToDate(c), ~IsHot(journal)
  PROVE  /\ \A p \in Page : cache[c][p] \in {NotCached, Image[p]}
         /\ dbSize[c] = Size(Image)
<1>1. Image = db
  BY RecoveredCold DEF Image
<1>2. db \in [Page -> Content] /\ HasSize(db, dbSize[c]) /\ CacheIsOf(c, db)
  BY DEF StoreInv, StoreTypeOK, UpToDate
<1>3. Size(db) = dbSize[c]
  BY <1>2, SizeIs
<1> QED BY <1>1, <1>2, <1>3 DEF CacheIsOf

(* A page of a transaction is its own or the image's.                         *)
LEMMA CurrentWhereJournaling ==
  ASSUME StoreInv, NEW c \in Conn, Journaling(c), NEW p \in Page
  PROVE  cache[c][p] \in {NotCached, Image[p]} \/ cache[c][p][1] = tx[c]
<1>1. /\ Originals(c)
      /\ job[c] \in {"none", "commit", "spill"} => Transaction(c)
      /\ job[c] = "failed" => Changed(c)
      /\ job[c] = "rollback" => RolledBack(c)
  BY StoreFacts DEF ConnInv
<1>2. job[c] # "open"
  BY StoreFacts DEF HoldsExclusive, Journaling, Modifying
<1>3. CASE job[c] \in {"none", "commit", "spill"}
  <2>1. CASE p \in dirty[c]
    BY <1>1, <2>1 DEF Originals, Own
  <2>2. CASE p \notin dirty[c]
    BY <1>1, <1>3, <2>2 DEF Transaction, Own
  <2> QED BY <2>1, <2>2
<1>4. CASE job[c] = "failed"
  BY <1>1, <1>4 DEF Changed, Own
<1>5. CASE job[c] = "rollback"
  BY <1>1, <1>5 DEF RolledBack, CacheIsOf
<1> QED BY <1>2, <1>3, <1>4, <1>5, StoreFacts DEF Job

LEMMA StoreIsCurrent == StoreInv => CacheIsCurrent
<1> SUFFICES ASSUME StoreInv, NEW c \in Conn, eState[c] \in {"READER"} \cup Writer
             PROVE  /\ \A p \in Page :
                         \/ cache[c][p] \in {NotCached, Image[p]}
                         \/ eState[c] \in Writer /\ cache[c][p][1] = tx[c]
                    /\ eState[c] = "READER" => dbSize[c] = Size(Image)
  BY DEF CacheIsCurrent
<1>0. job[c] # "open"
  BY StoreFacts DEF HoldsExclusive, Writer
<1>1. CASE Journaling(c)
  <2>1. eState[c] \in Writer /\ eState[c] # "READER"
    BY <1>1 DEF Journaling, Modifying, Writer
  <2> QED BY <1>1, <2>1, CurrentWhereJournaling
<1>2. CASE ~Journaling(c)
  <2>1. Clean(c)
    BY <1>0, <1>2 DEF Clean, Journaling, Modifying, Writer
  <2>2. ~IsHot(journal)
    BY <1>2, StoreFacts DEF HotIsOwn, Trusting, Journaling
  <2>3. UpToDate(c)
    BY <2>1, StoreFacts DEF ConnInv
  <2> QED BY <2>2, <2>3, CurrentWhereClean
<1> QED BY <1>1, <1>2

(* What a connection of a process of its own has in its cache, within a       *)
(* transaction, is what the last commit left or what it wrote itself.         *)
THEOREM PagerCacheIsCurrent == Spec /\ Separate /\ Nonempty => []CacheIsCurrent
BY StoreInvariant, StoreIsCurrent, PTL

-----------------------------------------------------------------------------
(* The refinement: what the connections do, as steps of an atomic store.      *)
InTransaction == {c \in Conn : eState[c] \in {"READER"} \cup Writer}

(* A step of one connection that leaves the image alone begins or ends its    *)
(* transaction, if it does anything.                                          *)
LEMMA StepOfOne ==
  ASSUME NEW c \in Conn, Image' = Image, before' = before,
         \A d \in Conn \ {c} : eState'[d] = eState[d]
  PROVE  [Store!Next]_(Store!storeVars)
<1>1. CASE c \notin InTransaction /\ c \in InTransaction'
  <2>1. InTransaction' = InTransaction \cup {c}
    BY <1>1 DEF InTransaction
  <2>2. Store!Begin(c)
    BY <1>1, <2>1 DEF Store!Begin, InTransaction
  <2> QED BY <2>2 DEF Store!Next
<1>2. CASE c \in InTransaction /\ c \notin InTransaction'
  <2>1. InTransaction' = InTransaction \ {c}
    BY <1>2 DEF InTransaction
  <2>2. {c} \in SUBSET InTransaction /\ Store!End({c})
    BY <1>2, <2>1 DEF Store!End, InTransaction
  <2> QED BY <2>2 DEF Store!Next, InTransaction
<1>3. CASE c \in InTransaction <=> c \in InTransaction'
  <2>1. InTransaction' = InTransaction
    BY <1>3 DEF InTransaction
  <2> QED BY <2>1 DEF Store!storeVars, InTransaction
<1> QED BY <1>1, <1>2, <1>3

(* Only SyncRecords and Unlink change what a loss of power may go back to.    *)
LEMMA BeforeStays ==
  ASSUME NEW c \in Conn,
         Reading(c) \/ Opening(c) \/ Writing(c) \/ Ending(c) \/ Fail(c)
  PROVE  before' = before \/ SyncRecords(c) \/ Unlink(c)
<1>1. CASE Reading(c)
  BY <1>1 DEF Reading, EndRead, EndError, Close, ReadPage, Recycle
<1>2. CASE Opening(c)
  BY <1>2 DEF Opening, SharedLock, CheckExists, CheckReserved, CheckHeader, LockObsolete, LockHot,
              PlayHot, Validate, GiveUp
<1>3. CASE Writing(c)
  BY <1>3 DEF Writing, Begin, EndUnmodified, Commit, WritePage, Spill, LockDb, WriteHeader,
              SyncHeader, WriteDb, WriteSpilled, SyncDb
<1>4. CASE Ending(c)
  BY <1>4 DEF Ending, Rollback, Replay, Lower
<1>5. CASE Fail(c)
  BY <1>5 DEF Fail
<1> QED BY <1>1, <1>2, <1>3, <1>4, <1>5

(* The sync of a journal settles the commit before it.                        *)
LEMMA SyncRecordsSettles ==
  ASSUME Image' = Image, before' = Image, eState' = eState
  PROVE  [Store!Next]_(Store!storeVars)
<1>1. InTransaction' = InTransaction
  BY DEF InTransaction
<1>2. CASE before = Image
  BY <1>1, <1>2 DEF Store!storeVars, InTransaction
<1>3. CASE before # Image
  <2>1. Store!Settle
    BY <1>1, <1>3 DEF Store!Settle, InTransaction
  <2> QED BY <2>1 DEF Store!Next
<1> QED BY <1>2, <1>3

(* The deletion of the journal is the commit.                                 *)
LEMMA UnlinkCommits ==
  ASSUME StoreInv, NEW c \in Conn, Unlink(c)
  PROVE  [Store!Next]_(Store!storeVars)
<1>0. step[c] = "unlink" /\ eState' = eState
  BY StoreFacts DEF Unlink, Control
<1>1. /\ Image' = db /\ Image' \in Images
      /\ before' = IF job[c] = "commit" THEN Image ELSE before
  BY <1>0, UnlinkFiles DEF Unlink
<1>2. /\ job[c] # "commit" => db = Image
      /\ job[c] = "commit" => eState[c] = "WRITER_FINISHED" /\ eFileLock[c] = EXCLUSIVE_LOCK
  BY <1>0, UnlinkFacts
<1>3. InTransaction' = InTransaction
  BY <1>0 DEF InTransaction
<1>4. CASE job[c] # "commit"
  BY <1>1, <1>2, <1>3, <1>4 DEF Store!storeVars, InTransaction
<1>5. CASE job[c] = "commit"
  <2>1. \A d \in Conn \ {c} : eState[d] = "OPEN"
    BY <1>2, <1>5, OthersClosed DEF Closed
  <2>2. InTransaction = {c}
    BY <1>2, <1>5, <2>1 DEF InTransaction, Writer
  <2>3. Store!Commit(c)
    BY <1>1, <1>3, <1>5, <2>2 DEF Store!Commit, InTransaction
  <2> QED BY <2>3 DEF Store!Next
<1> QED BY <1>4, <1>5

(* The transactions of a process that dies end.                               *)
LEMMA KillEnds ==
  ASSUME StoreInv, UNCHANGED processOf, NEW p \in Process, Kill(p)
  PROVE  [Store!Next]_(Store!storeVars)
<1> DEFINE cs == {c \in InTransaction : processOf[c] = p}
<1>1. Image' = Image /\ before' = before /\ Restart({p})
  BY KillKeepsStore DEF Kill
<1>2. eState' = [c \in Conn |-> IF processOf[c] \in {p} THEN "OPEN" ELSE eState[c]]
  BY <1>1 DEF Restart
<1>3. InTransaction' = InTransaction \ cs
  BY <1>2 DEF InTransaction, Writer
<1>4. CASE cs = {}
  <2>1. InTransaction' = InTransaction
    BY <1>3, <1>4
  <2> QED BY <1>1, <2>1 DEF Store!storeVars, InTransaction
<1>5. CASE cs # {}
  <2>1. ASSUME NEW ended \in SUBSET InTransaction, ended # {}, InTransaction' = InTransaction \ ended
        PROVE  \E xs \in SUBSET InTransaction : Store!End(xs)
    BY <1>1, <2>1 DEF Store!End, InTransaction
  <2>2. cs \in SUBSET InTransaction
    OBVIOUS
  <2> HIDE DEF cs
  <2>3. \E xs \in SUBSET InTransaction : Store!End(xs)
    BY <1>3, <1>5, <2>1, <2>2
  <2> QED BY <2>3 DEF Store!Next, InTransaction
<1> QED BY <1>4, <1>5

(* A loss of power of the pager is one of the abstract store.                 *)
LEMMA LosePowerLosesPower ==
  ASSUME StoreInv, LosePower
  PROVE  [Store!Next]_(Store!storeVars)
<1>1. Image' \in {Image, before} /\ before' = Image' /\ Restart(Process)
  BY LosePowerFiles DEF LosePower
<1>2. \A c \in Conn : processOf[c] \in Process
  BY DEF StoreInv, PagerInv, LocksInv, LocksTypeOK
<1>3. InTransaction' = {}
  BY <1>1, <1>2 DEF Restart, InTransaction, Writer
<1>4. Store!LosePower
  BY <1>1, <1>3 DEF Store!LosePower, InTransaction
<1> QED BY <1>4 DEF Store!Next

(* Every step of a connection is one of the abstract store, or a stutter.     *)
LEMMA StepOfConnectionRefines ==
  ASSUME StoreInv, UNCHANGED processOf, NEW c \in Conn,
         Reading(c) \/ Opening(c) \/ Writing(c) \/ Ending(c) \/ Fail(c)
  PROVE  [Store!Next]_(Store!storeVars)
<1>1. CASE Unlink(c)
  BY <1>1, UnlinkCommits
<1>2. CASE SyncRecords(c)
  <2>1. Image' = Image
    BY <1>2, SyncRecordsKeepsStore
  <2> QED BY <1>2, <2>1, SyncRecordsSettles DEF SyncRecords
<1>3. CASE ~Unlink(c) /\ ~SyncRecords(c)
  <2>1. Image' = Image
    BY <1>3, ReadingKeepsStore, OpeningKeepsStore, WritingKeepsStore, EndingKeepsStore, FailKeepsStore
  <2>2. before' = before
    BY <1>3, BeforeStays
  <2>3. \A d \in Conn \ {c} : eState'[d] = eState[d]
    BY OthersSameControl DEF StoreInv, SameControl
  <2> QED BY <2>1, <2>2, <2>3, StepOfOne
<1> QED BY <1>1, <1>2, <1>3

LEMMA StepRefines == StoreInv /\ [Next]_vars => [Store!Next]_(Store!storeVars)
<1> SUFFICES ASSUME StoreInv, [Next]_vars PROVE [Store!Next]_(Store!storeVars)
  OBVIOUS
<1>1. CASE UNCHANGED vars
  <2>1. Image' = Image
    BY <1>1, ImageStays DEF vars, dbVars, journalVars
  <2>2. before' = before /\ eState' = eState
    BY <1>1 DEF vars, callVars
  <2> QED BY <2>1, <2>2 DEF Store!storeVars
<1>2. CASE Next
  BY <1>2, StepOfConnectionRefines, KillEnds, LosePowerLosesPower DEF Next
<1> QED BY <1>1, <1>2

LEMMA InitRefines == StoreInv /\ Init => Store!Init
<1> SUFFICES ASSUME StoreInv, Init PROVE Store!Init
  OBVIOUS
<1>1. Image = db /\ Image \in Images
  BY NoJournalIsOK, RecoveredCold DEF Init, Image, StoreInv, StoreTypeOK
<1>2. before = db /\ InTransaction = {}
  BY DEF Init, InTransaction, Writer
<1> QED BY <1>1, <1>2 DEF Store!Init, InTransaction

(* The pager, for connections of processes of their own and a file that is    *)
(* not empty, is an atomic store: of a transaction readers see all or nothing. *)
THEOREM PagerImplementsAtomicStore == Spec /\ Separate /\ Nonempty => ImplementsAtomicStore
<1>1. StoreInv /\ Init => Store!Init
  BY InitRefines
<1>2. StoreInv /\ [Next]_vars => [Store!Next]_(Store!storeVars)
  BY StepRefines
<1>3. Spec /\ Separate /\ Nonempty => []StoreInv
  BY StoreInvariant
<1> QED BY <1>1, <1>2, <1>3, PTL DEF Spec, ImplementsAtomicStore, Store!Spec
=============================================================================
