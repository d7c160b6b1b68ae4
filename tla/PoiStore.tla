------------------------------- MODULE PoiStore -------------------------------
(***************************************************************************)
(* SQLitePoiPersistenceManager: points of interest in an SQLite file, one  *)
(* row in the table poi_index (an R-tree) and one in poi_data for each.    *)
(*                                                                         *)
(* Managers, of one or of several processes, may have the same file open.  *)
(* Each has a connection of its own, an optional transaction, and prepared *)
(* statements.  A statement that has stopped at a row, or on a lock, stays *)
(* active until it is reset, and while one is active the connection keeps  *)
(* its read lock.  No busy handler is set: a call that meets a lock fails  *)
(* at once, and the manager swallows the exception and returns.            *)
(*                                                                         *)
(* The actions are the SQL statements the methods run, in their order; a   *)
(* commit is two, taking the exclusive lock and writing, so that others    *)
(* run in between.  The file and its locks are what Pager and UnixLocks    *)
(* promise: a commit is atomic, and a crash undoes an unfinished one.      *)
(***************************************************************************)
EXTENDS Integers, Sequences, SequencesExt, FiniteSets

CONSTANTS
  Managers,  \* the SQLitePoiPersistenceManager objects
  Pois,      \* the points of interest
  MaxCrash   \* bound: crashes of a manager's process

ASSUME PoiAssumption == MaxCrash \in Nat

VARIABLES
  file,     \* what is committed: the tables, and the rows of two of them
  mgr,      \* of each manager: where it is, and its connection
  crashes   \* so far

vars == <<file, mgr, crashes>>

Tables == {"poi_index", "poi_data", "poi_categories"}
Rows == [poi_index : SUBSET Pois, poi_data : SUBSET Pois]
File == [tables : SUBSET Tables, rows : Rows]
Locks == {"none", "shared", "reserved", "pending", "exclusive"}
NoRows == [poi_index |-> {}, poi_data |-> {}]

(* What a call of insertPointOfInterest, insertPointsOfInterest or
   removePointOfInterest is about: its first point, and whether it has more. *)
Call ==
  [kind : {"insert"}, poi : Pois, more : BOOLEAN] \union
  [kind : {"remove"}, poi : Pois, more : {FALSE}]
NoCall == [kind |-> "none"]

Manager ==
  [pc : {"closed", "check", "create", "prepare", "ready", "first", "second", "commit", "write"},
   at : 0 .. 6,           \* in createTables: the statements done
   usable : BOOLEAN,      \* the statements could be prepared
   call : Call \union {NoCall},
   tx : BOOLEAN,          \* in a transaction: BEGIN was executed, COMMIT not
   view : Rows,           \* the rows as the transaction sees them
   active : SUBSET {"isValidDB", "findByID"},  \* the SELECTs not run to their end
   lock : Locks]

Off == [pc |-> "closed", at |-> 0, usable |-> FALSE, call |-> NoCall, tx |-> FALSE,
        view |-> NoRows, active |-> {}, lock |-> "none"]

TypeOK ==
  /\ file \in File
  /\ mgr \in [Managers -> Manager]
  /\ crashes \in 0 .. MaxCrash

(* A file that is new, or one that holds points already. *)
Init ==
  /\ \/ file = [tables |-> {}, rows |-> NoRows]
     \/ \E ps \in SUBSET Pois :
          file = [tables |-> Tables, rows |-> [poi_index |-> ps, poi_data |-> ps]]
  /\ mgr = [m \in Managers |-> Off]
  /\ crashes = 0

----------------------------------------------------------------------------
(* SQLite, as far as its locks go.                                          *)

Others(m) == Managers \ {m}
At(m, pc) == mgr[m].pc = pc

CanRead(m) ==
  mgr[m].lock = "none" => \A n \in Others(m) : mgr[n].lock \notin {"pending", "exclusive"}
CanWrite(m) ==
  /\ CanRead(m)
  /\ \A n \in Others(m) : mgr[n].lock \in {"none", "shared"}
Alone(m) == \A n \in Others(m) : mgr[n].lock = "none"

(* The lock that is left when a transaction or a SELECT has ended. *)
Kept(active) == IF active = {} THEN "none" ELSE "shared"

(* The rows m sees: those of its transaction once that has written. *)
Seen(m) == IF mgr[m].lock \in {"reserved", "pending"} THEN mgr[m].view ELSE file.rows

Becomes(m, r) == mgr' = [mgr EXCEPT ![m] = r]

----------------------------------------------------------------------------
(* The constructor.                                                         *)

(* Preparing isValidDBStatement reads the schema.  When that fails, the null
   reference that is used next ends the constructor.                         *)
Open(m) ==
  /\ At(m, "closed")
  /\ CanRead(m)
  /\ Becomes(m, [Off EXCEPT !.pc = "check"])
  /\ UNCHANGED <<file, crashes>>

(* Broken: the statement that has been answered, or not, is reset. *)
LeftActive_(m) == {}

(* isValidDataBase steps its statement once and never resets it. *)
LeftActive(m) == {"isValidDB"}

Check(m) ==
  /\ At(m, "check")
  /\ Becomes(m, [mgr[m] EXCEPT
       !.active = LeftActive(m),
       !.lock = IF CanRead(m) THEN Kept(LeftActive(m)) ELSE "none",
       !.pc = IF CanRead(m) /\ file.tables = Tables THEN "prepare" ELSE "create"])
  /\ UNCHANGED <<file, crashes>>

(* createTables: DROP TABLE IF EXISTS for each table, then CREATE.  The first
   statement that fails ends it.  A DROP fails while any other statement of
   the connection is active.                                                 *)
Creation == <<"poi_index", "poi_data", "poi_categories">>

Writes(m) == CanWrite(m) /\ Alone(m)

Dropped(t) ==
  [tables |-> file.tables \ {t},
   rows |-> IF t \in DOMAIN file.rows THEN [file.rows EXCEPT ![t] = {}] ELSE file.rows]

CreateTables(m) ==
  LET done == mgr[m].at
      t == Creation[(done % 3) + 1]
      nothing == done < 3 /\ t \notin file.tables
      drops == done < 3 /\ t \in file.tables /\ mgr[m].active = {} /\ Writes(m)
      creates == done >= 3 /\ t \notin file.tables /\ Writes(m)
  IN  /\ At(m, "create")
      /\ file' = CASE drops -> Dropped(t)
                   [] creates -> [file EXCEPT !.tables = @ \union {t}]
                   [] OTHER -> file
      /\ Becomes(m, IF done < 6 /\ (nothing \/ drops \/ creates)
                    THEN [mgr[m] EXCEPT !.at = (@ + 1) % 6,
                                        !.lock = IF nothing THEN @ ELSE Kept(mgr[m].active),
                                        !.pc = IF done = 5 THEN "prepare" ELSE "create"]
                    ELSE [mgr[m] EXCEPT !.at = 0, !.pc = "prepare"])
      /\ UNCHANGED crashes

(* The statements of the methods are prepared, if the tables exist, and if a
   connection that has not read the R-tree's first node yet may read it.  That
   they are not is ignored, as is that the categories cannot be read; the
   methods of the manager then fail on a null reference.                     *)
Prepare(m) ==
  /\ At(m, "prepare")
  /\ \E usable \in BOOLEAN :
       /\ usable => file.tables = Tables
       /\ ~usable => file.tables # Tables \/ ~CanRead(m)
       /\ Becomes(m, [mgr[m] EXCEPT !.pc = "ready", !.usable = usable])
  /\ UNCHANGED <<file, crashes>>

----------------------------------------------------------------------------
(* Inserting and removing.                                                  *)

Usable(m) == At(m, "ready") /\ mgr[m].usable

Return(m, r) == Becomes(m, [r EXCEPT !.pc = "ready", !.call = NoCall])

(* Broken: the transaction that is open already is used. *)
BeginFails_(m) == FALSE

BeginFails(m) == mgr[m].tx

(* The two statements are reset, and BEGIN executed, which fails within a
   transaction.                                                              *)
Begin(m, call) ==
  /\ Usable(m)
  /\ ~BeginFails(m)
  /\ Becomes(m, [mgr[m] EXCEPT !.pc = "first", !.call = call, !.tx = TRUE])
  /\ UNCHANGED <<file, crashes>>

(* The row of the point, put into table t or taken out of it. *)
Applied(call, points) ==
  IF call.kind = "insert" THEN points \union {call.poi} ELSE points \ {call.poi}

Changed(m, t) == [Seen(m) EXCEPT ![t] = Applied(mgr[m].call, @)]

Duplicate(m, t) == mgr[m].call.kind = "insert" /\ mgr[m].call.poi \in Seen(m)[t]

(* The record of m when its transaction is over, committed or rolled back. *)
Ended(m) ==
  [mgr[m] EXCEPT !.tx = FALSE, !.view = NoRows, !.lock = Kept(mgr[m].active)]

Step(m, t, next) ==
  \/ /\ CanWrite(m)
     /\ ~Duplicate(m, t)
     /\ LET r == [mgr[m] EXCEPT !.lock = "reserved", !.view = Changed(m, t), !.pc = next]
        IN  IF next = "ready" THEN Return(m, r) ELSE Becomes(m, r)
  \/ (* The row is there already, or the disk is full: the statement is undone
        and the transaction stays open.                                      *)
     /\ CanWrite(m)
     /\ Return(m, [mgr[m] EXCEPT !.lock = "reserved", !.view = Seen(m)])
  \/ (* A lock is in the way: nothing has happened. *)
     /\ ~CanWrite(m)
     /\ Return(m, mgr[m])
  \/ (* An input or output error: SQLite rolls the transaction back. *)
     /\ CanWrite(m)
     /\ Return(m, Ended(m))

StepFirst(m) ==
  /\ At(m, "first")
  /\ Step(m, "poi_index", "second")
  /\ UNCHANGED <<file, crashes>>

(* When the call has a further point, its values are bound to a statement that
   has run and was not reset: that is refused, and the call ends here.        *)
StepSecond(m) ==
  /\ At(m, "second")
  /\ Step(m, "poi_data", IF mgr[m].call.more THEN "ready" ELSE "commit")
  /\ UNCHANGED <<file, crashes>>

(* COMMIT needs to be alone to write pages; otherwise it fails, the transaction
   stays open, and readers that come are kept out.  With no page to write, as
   after removing a point that is not there, it just ends.  An input or output
   error rolls the transaction back, before the file is written ...          *)
Commit(m) ==
  /\ At(m, "commit")
  /\ \/ /\ mgr[m].view # file.rows /\ Alone(m)
        /\ Becomes(m, [mgr[m] EXCEPT !.pc = "write", !.lock = "exclusive"])
     \/ /\ mgr[m].view # file.rows /\ ~Alone(m)
        /\ Return(m, [mgr[m] EXCEPT !.lock = "pending"])
     \/ Return(m, Ended(m))
  /\ UNCHANGED <<file, crashes>>

(* ... or from the journal. *)
Write(m) ==
  /\ At(m, "write")
  /\ \/ file' = [file EXCEPT !.rows = mgr[m].view]
     \/ UNCHANGED file
  /\ Return(m, Ended(m))
  /\ UNCHANGED crashes

----------------------------------------------------------------------------
(* findPointByID, and the end.                                              *)

(* The statement is reset, and stepped to the row; there it stays. *)
Find(m, p) ==
  LET rest == mgr[m].active \ {"findByID"}
      held == IF mgr[m].tx \/ rest # {} THEN mgr[m].lock ELSE "none"
      can == held = "none" => \A n \in Others(m) : mgr[n].lock \notin {"pending", "exclusive"}
      read == IF held = "none" THEN "shared" ELSE held
      found == p \in Seen(m).poi_index \intersect Seen(m).poi_data
  IN  /\ Usable(m)
      /\ Becomes(m, CASE ~can -> [mgr[m] EXCEPT !.active = rest \union {"findByID"}, !.lock = held]
                      [] can /\ found -> [mgr[m] EXCEPT !.active = rest \union {"findByID"}, !.lock = read]
                      [] can /\ ~found -> [mgr[m] EXCEPT !.active = rest,
                           !.lock = IF mgr[m].tx THEN read ELSE IF rest = {} THEN "none" ELSE read])
      /\ UNCHANGED <<file, crashes>>

(* close finalizes the statements and closes the connection, which rolls an
   open transaction back.                                                    *)
Close(m) ==
  /\ At(m, "ready")
  /\ Becomes(m, Off)
  /\ UNCHANGED <<file, crashes>>

(* The process ends anywhere: its locks go, and who reads next rolls back what
   it was writing.                                                           *)
Crash(m) ==
  /\ ~At(m, "closed")
  /\ crashes < MaxCrash
  /\ crashes' = crashes + 1
  /\ Becomes(m, Off)
  /\ UNCHANGED file

Next ==
  \/ \E m \in Managers : Open(m) \/ Check(m) \/ CreateTables(m) \/ Prepare(m)
  \/ \E m \in Managers, call \in Call : Begin(m, call)
  \/ \E m \in Managers : StepFirst(m) \/ StepSecond(m) \/ Commit(m) \/ Write(m)
  \/ \E m \in Managers, p \in Pois : Find(m, p)
  \/ \E m \in Managers : Close(m) \/ Crash(m)

Spec == Init /\ [][Next]_vars

----------------------------------------------------------------------------

(* The two tables of the file always have the same points: a call that fails
   between its two statements leaves a transaction that no later call of the
   manager can commit.                                                       *)
TablesAgree == file.rows.poi_index = file.rows.poi_data

(* A point leaves the file only when removePointOfInterest for it commits.
   In particular a manager that opens the file and is kept from reading it by
   another one's commit takes it for a file without tables, and its DROPs must
   not get through.                                                          *)
PointsStay ==
  [][\A p \in file.rows.poi_index \ file'.rows.poi_index :
       \E m \in Managers :
         At(m, "write") /\ mgr[m].call = [kind |-> "remove", poi |-> p, more |-> FALSE]]_vars

(* Opening a file leaves a manager that can be used. *)
OpenedIsUsable == \A m \in Managers : At(m, "ready") => mgr[m].usable

(* The points of a collection that is inserted are in the file when the call
   returns, if no statement has failed.                                      *)
CollectionIsStored ==
  [][\A m \in Managers :
       At(m, "second") /\ mgr'[m].pc = "ready" /\ mgr'[m].view = Changed(m, "poi_data") =>
         mgr[m].call.poi \in file'.rows.poi_index]_vars
=============================================================================
