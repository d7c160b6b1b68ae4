--------------------------------- MODULE Pager ---------------------------------
(* The pager of sqlite3.c, under the point-of-interest storage: connections   *)
(* read and write the pages of one database file, each through a cache of its *)
(* own, under the locks of UnixLocks. A write transaction saves the original  *)
(* pages in a rollback journal, whose deletion commits it. The journal is     *)
(* used as this build does by default (journal_mode DELETE, synchronous FULL, *)
(* no WAL, pages no smaller than sectors). Processes die, the power is lost,  *)
(* and input and output fails. Each system call that another process or a     *)
(* fault can tell apart is a step.                                            *)
EXTENDS UnixLocks, Integers, Sequences, SequencesExt

CONSTANTS MaxPage,     \* bound on the size of the file, in pages
          Start,       \* where the file and the connections may begin
          MaxTx,       \* bound on the number of write transactions
          MaxFault     \* bound on the number of faults

(* A beginning is the size of the file, the processes of the connections and  *)
(* how many transactions and faults are already spent.                        *)
ASSUME PagerAssumption ==
  /\ MaxPage \in Nat \ {0}
  /\ MaxTx \in Nat
  /\ MaxFault \in Nat
  /\ Start \subseteq [size : 0..MaxPage, processOf : [Conn -> Process],
                      txs : 0..MaxTx, faults : 0..MaxFault]

Page == 1..MaxPage

(* The content of a page: the write transaction that wrote it and, on page 1, *)
(* the change counter.                                                        *)
Absent == <<-1, 0>>      \* no such page
Torn == <<-2, 0>>        \* half written
NotCached == <<-3, 0>>

VARIABLES
  db,           \* the database file, as processes read it
  dbDisk,       \* per page, what a loss of power may leave of it
  journal,      \* the journal file, as processes read it
  journalDisk,  \* the part of it that is synced
  ghosts,       \* journals that a loss of power may bring back in its place
  eState,       \* Pager.eState
  job, step,    \* the call that a connection is in, and where it is
  cache, dirty, \* the page cache and its dirty pages
  dbFileVers,   \* the change counter that goes with the cache
  dbSize,       \* the size of the file, as the connection sees it
  synced,       \* Pager.journalHdr: how many journal records lie before it
  todo,         \* journal records, or pages, that are still to be written
  tx,           \* the write transaction of a connection
  txs, faults,  \* counters, for the bounds
  before        \* auxiliary: the image before a commit that is not yet settled

dbVars == <<db, dbDisk>>
journalVars == <<journal, journalDisk, ghosts>>
callVars == <<eState, job, step>>
cacheVars == <<cache, dirty, dbFileVers, dbSize>>
txVars == <<synced, todo, tx, txs>>
vars == <<processOf, lockVars, dbVars, journalVars, callVars, cacheVars, txVars, faults, before>>

-----------------------------------------------------------------------------
(* Files                                                                      *)

Size(file) == Max({0} \cup {p \in Page : file[p] # Absent})

Version(file) == file[1][2]

Cut(file, size) == [p \in Page |-> IF p > size THEN Absent ELSE file[p]]

(* A journal: the original size of the file and records, each with the        *)
(* original content of a page. Headers lie between the records; one gets its  *)
(* magic number and the number of its records when these are synced. nRec is  *)
(* what the headers with a magic number count together, or -1 if none has it. *)
NoJournal == [exists |-> FALSE, orig |-> 0, records |-> <<>>, nRec |-> -1]

EmptyJournal(size) == [exists |-> TRUE, orig |-> size, records |-> <<>>, nRec |-> -1]

IsHot(j) == j.nRec >= 0

(* pager_playback of a hot journal: the records that a header counts.         *)
HotRecords(j) == SubSeq(j.records, 1, Min({j.nRec, Len(j.records)}))

Journaled(j) == {r.page : r \in ToSet(j.records)}

(* The image that a connection would read from these files.                   *)
Recovered(file, j) ==
  IF ~IsHot(j) THEN file
  ELSE LET records == ToSet(HotRecords(j))
       IN [p \in Page |->
             IF p > j.orig THEN Absent
             ELSE IF \E r \in records : r.page = p
               THEN (CHOOSE r \in records : r.page = p).was
               ELSE file[p]]

Image == Recovered(db, journal)

(* What a loss of power may leave of a journal j of which `disk` is synced:   *)
(* some of the other records, and the old or the new header.                  *)
Left(j, k, n) == [j EXCEPT !.records = SubSeq(@, 1, k), !.nRec = n]

Remains(j, disk) ==
  LET all == {Left(j, k, n) : k \in Len(disk.records)..Len(j.records), n \in {disk.nRec, j.nRec}}
  IN {IF IsHot(left) THEN left ELSE NoJournal : left \in all}

WritePages(p, content) ==
  /\ db' = [db EXCEPT ![p] = content]
  /\ dbDisk' = [dbDisk EXCEPT ![p] = @ \cup {content, Torn}]

Truncate(size) ==
  /\ db' = Cut(db, size)
  /\ dbDisk' = [p \in Page |-> dbDisk[p] \cup {Cut(db, size)[p]}]

SyncFile == dbDisk' = [p \in Page |-> {db[p]}]

Init == /\ LocksInit
        /\ \E start \in Start :
             /\ db = Cut([p \in Page |-> <<0, 0>>], start.size)
             /\ processOf = start.processOf
             /\ txs = start.txs
             /\ faults = start.faults
        /\ dbDisk = [p \in Page |-> {db[p]}]
        /\ journal = NoJournal
        /\ journalDisk = NoJournal
        /\ ghosts = {}
        /\ eState = [c \in Conn |-> "OPEN"]
        /\ job = [c \in Conn |-> "none"]
        /\ step = [c \in Conn |-> "idle"]
        /\ cache = [c \in Conn |-> [p \in Page |-> NotCached]]
        /\ dirty = [c \in Conn |-> {}]
        /\ dbFileVers = [c \in Conn |-> 0]
        /\ dbSize = [c \in Conn |-> 0]
        /\ synced = [c \in Conn |-> 0]
        /\ todo = [c \in Conn |-> <<>>]
        /\ tx = [c \in Conn |-> 0]
        /\ before = db

Writer == {"WRITER_LOCKED", "WRITER_CACHEMOD", "WRITER_DBMOD", "WRITER_FINISHED"}
Modifying == {"WRITER_CACHEMOD", "WRITER_DBMOD"}

Idle(c) == step[c] = "idle" /\ job[c] = "none"

At(c, j, s) == job[c] = j /\ step[c] = s

Goto(c, s) == step' = [step EXCEPT ![c] = s]

(* A call returns, and leaves the connection in a state.                      *)
Return(c, state) == /\ job' = [job EXCEPT ![c] = "none"]
                    /\ step' = [step EXCEPT ![c] = "idle"]
                    /\ eState' = [eState EXCEPT ![c] = state]

(* pager_end_transaction and pager_unlock forget the transaction.             *)
ForgetTx(c) == /\ synced' = [synced EXCEPT ![c] = 0]
               /\ todo' = [todo EXCEPT ![c] = <<>>]
               /\ tx' = [tx EXCEPT ![c] = 0]
               /\ UNCHANGED txs

(* pager_reset                                                                *)
ResetCache(c) == /\ cache' = [cache EXCEPT ![c] = [p \in Page |-> NotCached]]
                 /\ dirty' = [dirty EXCEPT ![c] = {}]

-----------------------------------------------------------------------------
(* sqlite3PagerSharedLock, with hasHotJournal                                 *)

SharedLock(c) == /\ eState[c] = "OPEN"
                 /\ Idle(c)
                 /\ LockShared(c)
                 /\ job' = [job EXCEPT ![c] = "open"]
                 /\ Goto(c, "exists")
                 /\ UNCHANGED <<dbVars, journalVars, eState, cacheVars, txVars, faults, before>>

CheckExists(c) ==
  /\ At(c, "open", "exists")
  /\ Goto(c, IF journal.exists THEN "reserved" ELSE "validate")
  /\ UNCHANGED <<lockVars, dbVars, journalVars, eState, job, cacheVars, txVars, faults, before>>

(* The journal of a live writer is not hot; that of an empty file is deleted. *)
CheckReserved(c) ==
  /\ At(c, "open", "reserved")
  /\ Goto(c, IF CheckReservedLock(c) THEN "validate"
             ELSE IF Size(db) = 0 THEN "obsolete" ELSE "header")
  /\ UNCHANGED <<lockVars, dbVars, journalVars, eState, job, cacheVars, txVars, faults, before>>

(* A journal that is gone by now counts as hot, too.                          *)
CheckHeader(c) ==
  /\ At(c, "open", "header")
  /\ Goto(c, IF IsHot(journal) \/ ~journal.exists THEN "recover" ELSE "validate")
  /\ UNCHANGED <<lockVars, dbVars, journalVars, eState, job, cacheVars, txVars, faults, before>>

(* "Delete the obsolete journal file under a RESERVED lock".                  *)
LockObsolete(c) ==
  /\ At(c, "open", "obsolete")
  /\ \/ LockReserved(c) /\ Goto(c, "delete")
     \/ ReservedBusy(c) /\ Goto(c, "validate")
  /\ UNCHANGED <<dbVars, journalVars, eState, job, cacheVars, txVars, faults, before>>

(* The lock goes straight from SHARED to EXCLUSIVE.                           *)
LockHot(c) ==
  /\ At(c, "open", "recover")
  /\ \/ LockExclusive(c) /\ Goto(c, "play")
     \/ ExclusiveBusy(c) /\ Goto(c, "give up")
  /\ UNCHANGED <<dbVars, journalVars, eState, job, cacheVars, txVars, faults, before>>

(* pagerSyncHotJournal and the beginning of pager_playback; or somebody else  *)
(* was faster.                                                                *)
PlayHot(c) ==
  /\ At(c, "open", "play")
  /\ IF journal.exists
       THEN /\ journalDisk' = journal
            /\ todo' = [todo EXCEPT ![c] = IF IsHot(journal) THEN HotRecords(journal) ELSE <<>>]
            /\ IF IsHot(journal) THEN Truncate(journal.orig) ELSE UNCHANGED dbVars
            /\ IF todo'[c] # <<>> THEN ResetCache(c) ELSE UNCHANGED <<cache, dirty>>
            /\ Goto(c, "replay")
       ELSE /\ Goto(c, "lower")
            /\ UNCHANGED <<dbVars, journalDisk, cache, dirty, todo>>
  /\ UNCHANGED <<lockVars, journal, ghosts, eState, job, dbFileVers, dbSize,
                 synced, tx, txs, faults, before>>

(* The cache is good as long as the change counter of the file is the cache's. *)
Validate_(c) ==
  /\ At(c, "open", "validate")
  /\ dbSize' = [dbSize EXCEPT ![c] = Size(db)]
  /\ Return(c, "READER")
  /\ UNCHANGED <<lockVars, dbVars, journalVars, cache, dirty, dbFileVers, txVars, faults, before>>

Validate(c) ==
  /\ At(c, "open", "validate")
  /\ IF dbFileVers[c] # (IF Size(db) > 0 THEN Version(db) ELSE 0)
       THEN ResetCache(c)
       ELSE UNCHANGED <<cache, dirty>>
  /\ dbSize' = [dbSize EXCEPT ![c] = Size(db)]
  /\ Return(c, "READER")
  /\ UNCHANGED <<lockVars, dbVars, journalVars, dbFileVers, txVars, faults, before>>

(* pager_unlock after a failure; an error of input or output was noted by     *)
(* leaving the cache empty.                                                   *)
GiveUp(c) ==
  /\ At(c, "open", "give up")
  /\ Unlock(c)
  /\ Return(c, "OPEN")
  /\ UNCHANGED <<dbVars, journalVars, cacheVars, txVars, faults, before>>

-----------------------------------------------------------------------------
(* Reading                                                                    *)

(* sqlite3PagerAcquire with readDbPage. The b-tree reads page 1 first.        *)
ReadPage(c, p) ==
  /\ eState[c] \in {"READER"} \cup Writer
  /\ Idle(c)
  /\ p <= dbSize[c]
  /\ cache[c][p] = NotCached
  /\ p = 1 \/ cache[c][1] # NotCached
  /\ cache' = [cache EXCEPT ![c][p] = db[p]]
  /\ dbFileVers' = IF p = 1 THEN [dbFileVers EXCEPT ![c] = Version(db)] ELSE dbFileVers
  /\ UNCHANGED <<lockVars, dbVars, journalVars, callVars, dirty, dbSize, txVars, faults, before>>

(* The page cache may recycle a page that is not in use.                      *)
Recycle(c, p) ==
  /\ eState[c] = "OPEN"
  /\ Idle(c)
  /\ cache[c][p] # NotCached
  /\ cache' = [cache EXCEPT ![c][p] = NotCached]
  /\ UNCHANGED <<lockVars, dbVars, journalVars, callVars, dirty, dbFileVers, dbSize,
                 txVars, faults, before>>

(* The end of a read transaction: pagerUnlockIfUnused. After an error of      *)
(* input or output the cache goes, too.                                       *)
EndRead(c) ==
  /\ eState[c] = "READER"
  /\ Idle(c)
  /\ Unlock(c)
  /\ Return(c, "OPEN")
  /\ UNCHANGED <<dbVars, journalVars, cacheVars, txVars, faults, before>>

EndError(c) ==
  /\ eState[c] = "ERROR"
  /\ Unlock(c)
  /\ Return(c, "OPEN")
  /\ ResetCache(c)
  /\ ForgetTx(c)
  /\ UNCHANGED <<dbVars, journalVars, dbFileVers, dbSize, faults, before>>

(* sqlite3PagerClose, and a new connection.                                   *)
Close(c) ==
  /\ eState[c] = "OPEN"
  /\ Idle(c)
  /\ CloseFile(c)
  /\ ResetCache(c)
  /\ dbFileVers' = [dbFileVers EXCEPT ![c] = 0]
  /\ UNCHANGED <<dbVars, journalVars, callVars, dbSize, txVars, faults, before>>

-----------------------------------------------------------------------------
(* Writing                                                                    *)

(* sqlite3PagerBegin                                                          *)
Begin(c) ==
  /\ eState[c] = "READER"
  /\ Idle(c)
  /\ txs < MaxTx
  /\ LockReserved(c)
  /\ txs' = txs + 1
  /\ tx' = [tx EXCEPT ![c] = txs + 1]
  /\ Return(c, "WRITER_LOCKED")
  /\ UNCHANGED <<dbVars, journalVars, cacheVars, synced, todo, faults, before>>

(* pager_open_journal: a journal that a dead writer left, and that is not     *)
(* hot, is written over.                                                      *)
Opened(c) == IF eState[c] = "WRITER_LOCKED"
               THEN EmptyJournal(dbSize[c])
               ELSE journal

(* pager_write: the original of a page goes to the journal, unless the page   *)
(* is there already or is new.                                                *)
Recorded(c, p) ==
  LET j == Opened(c)
  IN IF p > j.orig \/ p \in Journaled(j) THEN j
     ELSE [j EXCEPT !.records = Append(@, [page |-> p, was |-> cache[c][p]])]

(* sqlite3PagerWrite: page p becomes dirty.                                   *)
Write(c, p, content) ==
  /\ journal' = Recorded(c, p)
  /\ IF eState[c] = "WRITER_LOCKED"
       THEN /\ journalDisk' = NoJournal
            /\ ghosts' = IF journal.exists THEN ghosts ELSE ghosts \cup {NoJournal}
            /\ synced' = [synced EXCEPT ![c] = 0]
       ELSE UNCHANGED <<journalDisk, ghosts, synced>>
  /\ dirty' = [dirty EXCEPT ![c] = @ \cup {p}]
  /\ cache' = [cache EXCEPT ![c][p] = content]
  /\ dbSize' = [dbSize EXCEPT ![c] = Max({@, p})]

WritePage(c, p) ==
  /\ eState[c] \in {"WRITER_LOCKED"} \cup Modifying
  /\ Idle(c)
  /\ p \notin dirty[c]
  /\ p <= dbSize[c] + 1
  /\ p <= dbSize[c] => cache[c][p] # NotCached
  /\ p = 1 \/ cache[c][1] # NotCached
  /\ Write(c, p, <<tx[c], IF p = 1 /\ cache[c][1] # NotCached THEN cache[c][1][2] ELSE 0>>)
  /\ eState' = [eState EXCEPT ![c] = IF @ = "WRITER_LOCKED" THEN "WRITER_CACHEMOD" ELSE @]
  /\ UNCHANGED <<lockVars, dbVars, job, step, dbFileVers, todo, tx, txs, faults, before>>

(* A transaction that wrote nothing ends.                                     *)
EndUnmodified(c) ==
  /\ eState[c] = "WRITER_LOCKED"
  /\ Idle(c)
  /\ UnlockToShared(c)
  /\ Return(c, "READER")
  /\ ForgetTx(c)
  /\ UNCHANGED <<dbVars, journalVars, cacheVars, faults, before>>

(* sqlite3PagerCommitPhaseOne begins with pager_incr_changecounter.           *)
Commit(c) ==
  /\ eState[c] \in Modifying
  /\ Idle(c)
  /\ Write(c, 1, <<tx[c], dbFileVers[c] + 1>>)
  /\ job' = [job EXCEPT ![c] = "commit"]
  /\ Goto(c, "lock")
  /\ UNCHANGED <<lockVars, dbVars, eState, dbFileVers, todo, tx, txs, faults, before>>

(* PGHDR_NEED_SYNC: the record of page p is not synced.                       *)
NeedSync(c, p) ==
  \E i \in synced[c] + 1 .. Len(journal.records) : journal.records[i].page = p

(* pagerStress: the page cache is full of dirty pages.                        *)
Spill(c, p) ==
  /\ eState[c] \in Modifying
  /\ Idle(c)
  /\ p \in dirty[c] \ {1}
  /\ job' = [job EXCEPT ![c] = "spill"]
  /\ todo' = [todo EXCEPT ![c] = <<p>>]
  /\ Goto(c, IF NeedSync(c, p) \/ eState[c] = "WRITER_CACHEMOD" THEN "lock" ELSE "write")
  /\ UNCHANGED <<lockVars, dbVars, journalVars, eState, cacheVars, synced, tx, txs,
                 faults, before>>

(* syncJournal: an EXCLUSIVE lock; a sync of the records, and the first time  *)
(* of the directory; the header; a sync of the header.                        *)
LockDb_(c) ==
  /\ step[c] = "lock"
  /\ LockExclusive(c) \/ ExclusiveBusy(c)
  /\ Goto(c, "sync records")
  /\ UNCHANGED <<dbVars, journalVars, eState, job, cacheVars, txVars, faults, before>>

LockDb(c) ==
  /\ step[c] = "lock"
  /\ \/ LockExclusive(c) /\ Goto(c, "sync records") /\ UNCHANGED job
     \/ /\ ExclusiveBusy(c)
        /\ job' = [job EXCEPT ![c] = "none"]
        /\ Goto(c, "idle")
  /\ UNCHANGED <<dbVars, journalVars, eState, cacheVars, txVars, faults, before>>

SyncRecords_(c) ==
  /\ step[c] = "sync records"
  /\ before' = Image
  /\ Goto(c, "write header")
  /\ UNCHANGED <<lockVars, dbVars, journalVars, eState, job, cacheVars, txVars, faults>>

SyncRecords(c) ==
  /\ step[c] = "sync records"
  /\ journalDisk' = journal
  /\ ghosts' = {}
  /\ before' = Image
  /\ Goto(c, "write header")
  /\ UNCHANGED <<lockVars, dbVars, journal, eState, job, cacheVars, txVars, faults>>

WriteHeader(c) ==
  /\ step[c] = "write header"
  /\ journal' = [journal EXCEPT !.nRec = Len(journal.records)]
  /\ Goto(c, "sync header")
  /\ UNCHANGED <<lockVars, dbVars, journalDisk, ghosts, eState, job, cacheVars, txVars,
                 faults, before>>

(* Later records go to another segment, with a header of its own.             *)
SyncHeader(c) ==
  /\ step[c] = "sync header"
  /\ journalDisk' = journal
  /\ synced' = [synced EXCEPT ![c] = Len(journal.records)]
  /\ eState' = [eState EXCEPT ![c] = "WRITER_DBMOD"]
  /\ Goto(c, "write")
  /\ UNCHANGED <<lockVars, dbVars, journal, ghosts, job, cacheVars, todo, tx, txs, faults, before>>

(* pager_write_pagelist, in the order of the page numbers, page 1 with the    *)
(* new change counter.                                                        *)
WriteDb(c) ==
  LET p == Min(dirty[c])
  IN /\ At(c, "commit", "write")
     /\ IF dirty[c] = {}
          THEN Goto(c, "sync file") /\ UNCHANGED <<dbVars, dirty, dbFileVers>>
          ELSE /\ WritePages(p, cache[c][p])
               /\ dirty' = [dirty EXCEPT ![c] = @ \ {p}]
               /\ dbFileVers' = IF p = 1 THEN [dbFileVers EXCEPT ![c] = cache[c][1][2]]
                                ELSE dbFileVers
               /\ UNCHANGED step
     /\ UNCHANGED <<lockVars, journalVars, eState, job, cache, dbSize, txVars, faults, before>>

(* The page that was spilled leaves the cache.                                *)
WriteSpilled(c) ==
  LET p == todo[c][1]
  IN /\ At(c, "spill", "write")
     /\ WritePages(p, cache[c][p])
     /\ dirty' = [dirty EXCEPT ![c] = @ \ {p}]
     /\ cache' = [cache EXCEPT ![c][p] = NotCached]
     /\ todo' = [todo EXCEPT ![c] = <<>>]
     /\ Return(c, eState[c])
     /\ UNCHANGED <<lockVars, journalVars, dbFileVers, dbSize, synced, tx, txs, faults, before>>

SyncDb(c) ==
  /\ At(c, "commit", "sync file")
  /\ SyncFile
  /\ eState' = [eState EXCEPT ![c] = "WRITER_FINISHED"]
  /\ Goto(c, "unlink")
  /\ UNCHANGED <<lockVars, db, journalVars, job, cacheVars, txVars, faults, before>>

-----------------------------------------------------------------------------
(* Ending a transaction                                                       *)

(* sqlite3PagerRollback with pager_playback: all originals go back to the     *)
(* cache, those whose records are synced to the file if it may have changed.  *)
Rollback(c) ==
  LET was == ToSet(journal.records)
      Original(p) == (CHOOSE r \in was : r.page = p).was
      changed == eState[c] = "WRITER_DBMOD"
  IN /\ eState[c] \in Modifying
     /\ step[c] = "idle"
     /\ cache' = [cache EXCEPT ![c] =
                     [p \in Page |-> IF p > journal.orig THEN NotCached
                                     ELSE IF p \in Journaled(journal) /\ @[p] # NotCached
                                       THEN Original(p) ELSE @[p]]]
     /\ dbFileVers' = IF 1 \in Journaled(journal)
                        THEN [dbFileVers EXCEPT ![c] = Original(1)[2]] ELSE dbFileVers
     /\ dirty' = [dirty EXCEPT ![c] = {}]
     /\ dbSize' = [dbSize EXCEPT ![c] = journal.orig]
     /\ IF changed THEN Truncate(journal.orig) ELSE UNCHANGED dbVars
     /\ todo' = [todo EXCEPT ![c] =
                    IF changed THEN SubSeq(journal.records, 1, synced[c]) ELSE <<>>]
     /\ job' = [job EXCEPT ![c] = "rollback"]
     /\ Goto(c, IF changed THEN "replay" ELSE "unlink")
     /\ UNCHANGED <<lockVars, journalVars, eState, synced, tx, txs, faults, before>>

(* pager_playback_one_page, and the sync of the file at the end.              *)
Replay(c) ==
  /\ step[c] = "replay"
  /\ IF todo[c] = <<>>
       THEN SyncFile /\ Goto(c, "unlink") /\ UNCHANGED <<db, todo>>
       ELSE /\ WritePages(Head(todo[c]).page, Head(todo[c]).was)
            /\ todo' = [todo EXCEPT ![c] = Tail(@)]
            /\ UNCHANGED step
  /\ UNCHANGED <<lockVars, journalVars, eState, job, cacheVars, synced, tx, txs, faults, before>>

(* pager_end_transaction deletes the journal, without a sync of the directory *)
(* (also hasHotJournal, an obsolete one): the end of a commit.                *)
Unlink(c) ==
  /\ step[c] \in {"unlink", "delete"}
  /\ journal' = NoJournal
  /\ journalDisk' = NoJournal
  /\ ghosts' = ghosts \cup Remains(journal, journalDisk)
  /\ before' = IF job[c] = "commit" THEN Image ELSE before
  /\ Goto(c, "lower")
  /\ UNCHANGED <<lockVars, dbVars, eState, job, cacheVars, txVars, faults>>

Lower(c) ==
  /\ step[c] = "lower"
  /\ UnlockToShared(c)
  /\ IF job[c] = "open" THEN Goto(c, "validate") /\ UNCHANGED <<eState, job>>
     ELSE Return(c, "READER")
  /\ ForgetTx(c)
  /\ UNCHANGED <<dbVars, journalVars, cacheVars, faults, before>>

-----------------------------------------------------------------------------
(* Faults                                                                     *)

(* Input or output fails: a step that syncs, writes or deletes files does not *)
(* happen, except that a page may be half written. A recovery is given up; a  *)
(* failed commit is to be rolled back; a failed spill or rollback leaves the  *)
(* pager in its ERROR state, and so does a failed deletion of the journal,    *)
(* after which the lock is lowered nevertheless.                              *)
Fail(c) ==
  /\ faults < MaxFault
  /\ faults' = faults + 1
  /\ step[c] \in {"sync records", "sync header", "write", "sync file", "play", "replay",
                  "unlink", "delete"}
  /\ \/ UNCHANGED dbVars
     \/ /\ At(c, "commit", "write") /\ dirty[c] # {}
        /\ WritePages(Min(dirty[c]), Torn)
     \/ At(c, "spill", "write") /\ WritePages(todo[c][1], Torn)
     \/ /\ step[c] = "replay" /\ todo[c] # <<>>
        /\ WritePages(Head(todo[c]).page, Torn)
  /\ IF step[c] = "unlink" THEN UnlockToShared(c) ELSE UNCHANGED lockVars
  /\ CASE step[c] = "delete" -> Goto(c, "lower") /\ UNCHANGED <<eState, job, cache, dirty>>
       [] step[c] # "delete" /\ job[c] = "open" ->
            Goto(c, "give up") /\ ResetCache(c) /\ UNCHANGED <<eState, job>>
       [] step[c] # "unlink" /\ job[c] = "commit" ->
            /\ job' = [job EXCEPT ![c] = "failed"]
            /\ Goto(c, "idle")
            /\ UNCHANGED <<eState, cache, dirty>>
       [] OTHER -> Return(c, "ERROR") /\ UNCHANGED <<cache, dirty>>
  /\ todo' = [todo EXCEPT ![c] = <<>>]
  /\ UNCHANGED <<journalVars, dbFileVers, dbSize, synced, tx, txs, before>>

(* The connections of processes that die.                                     *)
Restart(ps) ==
  LET Fresh(f, value) == [c \in Conn |-> IF processOf[c] \in ps THEN value ELSE f[c]]
  IN /\ Dies(ps)
     /\ eState' = Fresh(eState, "OPEN")
     /\ job' = Fresh(job, "none")
     /\ step' = Fresh(step, "idle")
     /\ cache' = Fresh(cache, [p \in Page |-> NotCached])
     /\ dirty' = Fresh(dirty, {})
     /\ dbFileVers' = Fresh(dbFileVers, 0)
     /\ dbSize' = Fresh(dbSize, 0)
     /\ synced' = Fresh(synced, 0)
     /\ todo' = Fresh(todo, <<>>)
     /\ tx' = Fresh(tx, 0)
     /\ faults < MaxFault
     /\ faults' = faults + 1
     /\ UNCHANGED txs

Kill(p) == /\ Restart({p})
           /\ UNCHANGED <<dbVars, journalVars, before>>

LosePower ==
  /\ Restart(Process)
  /\ db' \in {file \in [Page -> UNION {dbDisk[p] : p \in Page}] :
               \A p \in Page : file[p] \in dbDisk[p]}
  /\ dbDisk' = [p \in Page |-> {db'[p]}]
  /\ journal' \in Remains(journal, journalDisk) \cup ghosts
  /\ journalDisk' = journal'
  /\ ghosts' = {}
  /\ before' = Recovered(db', journal')

-----------------------------------------------------------------------------
Reading(c) == \/ EndRead(c) \/ EndError(c) \/ Close(c)
              \/ \E p \in Page : ReadPage(c, p) \/ Recycle(c, p)

Opening(c) == \/ SharedLock(c) \/ CheckExists(c) \/ CheckReserved(c) \/ CheckHeader(c)
              \/ LockObsolete(c) \/ LockHot(c) \/ PlayHot(c) \/ Validate(c) \/ GiveUp(c)

Writing(c) == \/ Begin(c) \/ EndUnmodified(c) \/ Commit(c)
              \/ \E p \in Page : WritePage(c, p) \/ Spill(c, p)
              \/ LockDb(c) \/ SyncRecords(c) \/ WriteHeader(c) \/ SyncHeader(c)
              \/ WriteDb(c) \/ WriteSpilled(c) \/ SyncDb(c)

Ending(c) == Rollback(c) \/ Replay(c) \/ Unlink(c) \/ Lower(c)

Next == /\ \/ \E c \in Conn : Reading(c) \/ Opening(c) \/ Writing(c) \/ Ending(c) \/ Fail(c)
           \/ \E p \in Process : Kill(p)
           \/ LosePower
        /\ UNCHANGED processOf

Spec == Init /\ [][Next]_vars

-----------------------------------------------------------------------------
(* What a connection with a transaction has in its cache is what the last     *)
(* commit left, or what its own write transaction made of it: not what a      *)
(* dead writer left in the file, and not what it read in an earlier           *)
(* transaction if others have committed since.                                *)
CacheIsCurrent ==
  \A c \in Conn :
    eState[c] \in {"READER"} \cup Writer =>
      /\ \A p \in Page :
           \/ cache[c][p] \in {NotCached, Image[p]}
           \/ eState[c] \in Writer /\ cache[c][p][1] = tx[c]
      /\ eState[c] = "READER" => dbSize[c] = Size(Image)

(* A process that is alive writes to the file, or truncates it, only while     *)
(* its connection is the only one with any lock: in a commit, a spill, a      *)
(* rollback and the recovery of a hot journal.                                *)
Alone(c) == /\ eFileLock[c] = EXCLUSIVE_LOCK
            /\ \A d \in Conn \ {c} : eFileLock[d] = NO_LOCK

WritesAlone == [][db' # db => LosePower \/ \E c \in Conn : Alone(c)]_vars

(* The pager is an atomic store: of a transaction readers see all or nothing, *)
(* whoever dies and whatever fails, and a loss of power undoes at most the    *)
(* last commit.                                                               *)
Images == [Page -> {Absent} \cup (Nat \X Nat)]

Store == INSTANCE AtomicStore
           WITH Image <- Images, image <- Image,
                reading <- {c \in Conn : eState[c] \in {"READER"} \cup Writer}

ImplementsAtomicStore == Store!Spec
=============================================================================
