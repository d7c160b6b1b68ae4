------------------------------- MODULE UnixLocks -------------------------------
(* The file locks of sqlite3.c (os_unix.c): connections of several processes, *)
(* each with a handle of the same database file. A process owns POSIX locks   *)
(* on the pending byte, the reserved byte and the shared range; which of its  *)
(* own connections holds what is in the unixInodeInfo that they share. A call *)
(* of unixLock or unixUnlock runs under a mutex of its process and is one     *)
(* step; that other processes see the calls' fcntl one by one shows only in   *)
(* PassingReader. Operators whose names have an underscore are broken         *)
(* variants, for checking that the properties notice.                         *)
EXTENDS Naturals, FiniteSets

CONSTANTS Conn,        \* connections, each a unixFile
          Process

ASSUME ConnAssumption == IsFiniteSet(Conn)

NO_LOCK == 0
SHARED_LOCK == 1
RESERVED_LOCK == 2
PENDING_LOCK == 3
EXCLUSIVE_LOCK == 4
Level == 0..4

VARIABLES processOf,    \* the process of each connection, which stays
          eFileLock,    \* the level of each connection
          inodeLock,    \* unixInodeInfo.eFileLock of each process
          nShared,      \* unixInodeInfo.nShared: connections with a lock
          pendingByte, reservedByte, sharedRange   \* the POSIX locks

lockVars == <<eFileLock, inodeLock, nShared, pendingByte, reservedByte, sharedRange>>

Mode == {"none", "read", "write"}

LocksTypeOK == /\ processOf \in [Conn -> Process]
               /\ eFileLock \in [Conn -> Level]
               /\ inodeLock \in [Process -> Level]
               /\ nShared \in [Process -> Nat]
               /\ pendingByte \in [Process -> {"none", "write"}]
               /\ reservedByte \in [Process -> {"none", "write"}]
               /\ sharedRange \in [Process -> Mode]

LocksInit == /\ processOf \in [Conn -> Process]
             /\ eFileLock = [c \in Conn |-> NO_LOCK]
             /\ inodeLock = [p \in Process |-> NO_LOCK]
             /\ nShared = [p \in Process |-> 0]
             /\ pendingByte = [p \in Process |-> "none"]
             /\ reservedByte = [p \in Process |-> "none"]
             /\ sharedRange = [p \in Process |-> "none"]

(* fcntl(F_SETLK): whether process p gets a read or a write lock.             *)
CanRead(byte, p) == \A q \in Process \ {p} : byte[q] # "write"
CanWrite(byte, p) == \A q \in Process \ {p} : byte[q] = "none"

-----------------------------------------------------------------------------
(* unixLock                                                                   *)

(* Another connection of the process stands in the way.                       *)
NotInMyWay_(c, level) == FALSE

InMyWay(c, level) ==
  LET held == inodeLock[processOf[c]]
  IN /\ eFileLock[c] # held
     /\ held >= PENDING_LOCK \/ level > SHARED_LOCK

(* pagerLockDb and unixLock: nothing to do.                                   *)
AlreadyHeld(c, level) == /\ eFileLock[c] >= level
                         /\ UNCHANGED lockVars

SetLevel(c, level) ==
  /\ eFileLock' = [eFileLock EXCEPT ![c] = level]
  /\ inodeLock' = [inodeLock EXCEPT ![processOf[c]] = level]

(* The process has a SHARED or RESERVED lock: its connections share it.       *)
JoinShared(c) ==
  LET p == processOf[c]
  IN /\ eFileLock[c] = NO_LOCK
     /\ inodeLock[p] \in {SHARED_LOCK, RESERVED_LOCK}
     /\ eFileLock' = [eFileLock EXCEPT ![c] = SHARED_LOCK]
     /\ nShared' = [nShared EXCEPT ![p] = @ + 1]
     /\ UNCHANGED <<inodeLock, pendingByte, reservedByte, sharedRange>>

(* The read lock on the pending byte is dropped before unixLock returns.      *)
FirstShared(c) ==
  LET p == processOf[c]
  IN /\ eFileLock[c] = NO_LOCK
     /\ inodeLock[p] = NO_LOCK
     /\ CanRead(pendingByte, p)
     /\ CanRead(sharedRange, p)
     /\ sharedRange' = [sharedRange EXCEPT ![p] = "read"]
     /\ nShared' = [nShared EXCEPT ![p] = 1]
     /\ SetLevel(c, SHARED_LOCK)
     /\ UNCHANGED <<pendingByte, reservedByte>>

LockShared(c) == \/ AlreadyHeld(c, SHARED_LOCK)
                 \/ JoinShared(c)
                 \/ FirstShared(c)

SharedBusy(c) ==
  LET p == processOf[c]
  IN /\ eFileLock[c] = NO_LOCK
     /\ \/ InMyWay(c, SHARED_LOCK)
        \/ /\ inodeLock[p] = NO_LOCK
           /\ ~CanRead(pendingByte, p) \/ ~CanRead(sharedRange, p)
     /\ UNCHANGED lockVars

LockReserved(c) ==
  LET p == processOf[c]
  IN /\ eFileLock[c] = SHARED_LOCK
     /\ ~InMyWay(c, RESERVED_LOCK)
     /\ CanWrite(reservedByte, p)
     /\ reservedByte' = [reservedByte EXCEPT ![p] = "write"]
     /\ SetLevel(c, RESERVED_LOCK)
     /\ UNCHANGED <<nShared, pendingByte, sharedRange>>

ReservedBusy(c) ==
  /\ eFileLock[c] = SHARED_LOCK
  /\ InMyWay(c, RESERVED_LOCK) \/ ~CanWrite(reservedByte, processOf[c])
  /\ UNCHANGED lockVars

(* The write lock on the pending byte, unless an earlier attempt got it.      *)
GetPending(c) ==
  LET p == processOf[c]
  IN /\ eFileLock[c] \in SHARED_LOCK..PENDING_LOCK
     /\ ~InMyWay(c, EXCLUSIVE_LOCK)
     /\ eFileLock[c] < PENDING_LOCK => CanWrite(pendingByte, p)
     /\ pendingByte' = [pendingByte EXCEPT ![p] = "write"]

LockExclusive(c) ==
  \/ AlreadyHeld(c, EXCLUSIVE_LOCK)
  \/ LET p == processOf[c]
     IN /\ GetPending(c)
        /\ nShared[p] <= 1
        /\ CanWrite(sharedRange, p)
        /\ sharedRange' = [sharedRange EXCEPT ![p] = "write"]
        /\ SetLevel(c, EXCLUSIVE_LOCK)
        /\ UNCHANGED <<nShared, reservedByte>>

(* Readers are left: the connection keeps the PENDING lock.                   *)
StayPending(c) ==
  LET p == processOf[c]
  IN /\ GetPending(c)
     /\ nShared[p] > 1 \/ ~CanWrite(sharedRange, p)
     /\ SetLevel(c, PENDING_LOCK)
     /\ UNCHANGED <<nShared, reservedByte, sharedRange>>

(* A connection of another process is within its call for a SHARED lock, so   *)
(* that it has the pending byte for a moment.                                 *)
PassingReader(c) ==
  \E d \in Conn : processOf[d] # processOf[c] /\ eFileLock[d] = NO_LOCK

ExclusiveBusy(c) ==
  \/ StayPending(c)
  \/ /\ eFileLock[c] \in SHARED_LOCK..PENDING_LOCK
     /\ \/ InMyWay(c, EXCLUSIVE_LOCK)
        \/ /\ eFileLock[c] < PENDING_LOCK
           /\ ~CanWrite(pendingByte, processOf[c]) \/ PassingReader(c)
     /\ UNCHANGED lockVars

-----------------------------------------------------------------------------
(* unixCheckReservedLock: whether a connection of this process has more than  *)
(* a SHARED lock, or another process has the reserved byte.                   *)
CheckReservedLock(c) ==
  LET p == processOf[c]
  IN inodeLock[p] > SHARED_LOCK \/ ~CanWrite(reservedByte, p)

(* _posixUnlock to SHARED.                                                    *)
UnlockToShared(c) ==
  IF eFileLock[c] <= SHARED_LOCK
    THEN UNCHANGED lockVars
    ELSE LET p == processOf[c]
         IN /\ sharedRange' = [sharedRange EXCEPT ![p] = "read"]
            /\ pendingByte' = [pendingByte EXCEPT ![p] = "none"]
            /\ reservedByte' = [reservedByte EXCEPT ![p] = "none"]
            /\ SetLevel(c, SHARED_LOCK)
            /\ UNCHANGED nShared

(* _posixUnlock to NO_LOCK: the POSIX locks above SHARED go with their        *)
(* connection, the read lock with the last connection of the process.         *)
Unlock(c) ==
  LET p == processOf[c]
      last == nShared[p] = 1
      Drop(byte) == [byte EXCEPT ![p] = "none"]
  IN IF eFileLock[c] = NO_LOCK
       THEN UNCHANGED lockVars
       ELSE /\ eFileLock' = [eFileLock EXCEPT ![c] = NO_LOCK]
            /\ nShared' = [nShared EXCEPT ![p] = @ - 1]
            /\ inodeLock' =
                 [inodeLock EXCEPT ![p] = IF last THEN NO_LOCK
                                          ELSE IF eFileLock[c] > SHARED_LOCK
                                            THEN SHARED_LOCK ELSE @]
            /\ IF last \/ eFileLock[c] > SHARED_LOCK
                 THEN pendingByte' = Drop(pendingByte) /\ reservedByte' = Drop(reservedByte)
                 ELSE UNCHANGED <<pendingByte, reservedByte>>
            /\ sharedRange' = IF last THEN Drop(sharedRange) ELSE sharedRange

(* unixClose of a handle without locks: POSIX drops every lock of the process *)
(* on the file when any of its descriptors is closed, so the descriptor is    *)
(* put aside (setPendingFd) while nLock, which is nShared, is not 0.          *)
CloseFile(c) ==
  LET p == processOf[c]
      Closed(byte) == IF nShared[p] > 0 THEN byte ELSE [byte EXCEPT ![p] = "none"]
  IN /\ eFileLock[c] = NO_LOCK
     /\ pendingByte' = Closed(pendingByte)
     /\ reservedByte' = Closed(reservedByte)
     /\ sharedRange' = Closed(sharedRange)
     /\ UNCHANGED <<eFileLock, inodeLock, nShared>>

(* Processes die, and their locks with them.                                  *)
Dies(ps) ==
  /\ eFileLock' = [c \in Conn |-> IF processOf[c] \in ps THEN NO_LOCK ELSE eFileLock[c]]
  /\ inodeLock' = [p \in Process |-> IF p \in ps THEN NO_LOCK ELSE inodeLock[p]]
  /\ nShared' = [p \in Process |-> IF p \in ps THEN 0 ELSE nShared[p]]
  /\ pendingByte' = [p \in Process |-> IF p \in ps THEN "none" ELSE pendingByte[p]]
  /\ reservedByte' = [p \in Process |-> IF p \in ps THEN "none" ELSE reservedByte[p]]
  /\ sharedRange' = [p \in Process |-> IF p \in ps THEN "none" ELSE sharedRange[p]]

LocksNext ==
  \/ \E c \in Conn :
       \/ LockShared(c) \/ SharedBusy(c)
       \/ LockReserved(c) \/ ReservedBusy(c)
       \/ LockExclusive(c) \/ ExclusiveBusy(c)
       \/ UnlockToShared(c) \/ Unlock(c) \/ CloseFile(c)
  \/ \E ps \in SUBSET Process : Dies(ps)

LocksSpec == LocksInit /\ [][LocksNext /\ UNCHANGED processOf]_<<lockVars, processOf>>

-----------------------------------------------------------------------------
(* What the levels promise: an EXCLUSIVE lock excludes every lock of another  *)
(* connection, of the same process or not, and two connections have neither   *)
(* RESERVED locks nor PENDING and higher ones at once. A RESERVED lock and    *)
(* the PENDING lock of a would-be recoverer in another process may meet.      *)
LocksExclude ==
  \A c, d \in Conn :
    c # d =>
      /\ eFileLock[c] = EXCLUSIVE_LOCK => eFileLock[d] = NO_LOCK
      /\ eFileLock[c] = RESERVED_LOCK => eFileLock[d] # RESERVED_LOCK
      /\ eFileLock[c] = PENDING_LOCK => eFileLock[d] < PENDING_LOCK
=============================================================================
