------------------------------ MODULE Poi_proofs ------------------------------
(***************************************************************************)
(* The two halves of the points of interest: the store, for every number   *)
(* of managers and points, and the handles of the native library that it   *)
(* calls, for every number of Databases and children.                      *)
(***************************************************************************)
EXTENDS PoiStore, SqliteHandles, SequenceTheorems, FiniteSetTheorems, TLAPS

-----------------------------------------------------------------------------
(***************************************************************************)
(* The store.  The two tables of a file agree, and a point only leaves the *)
(* file when it is removed.  The invariant says what the transaction of a  *)
(* call has written at each of its statements, and that the file does not  *)
(* change under it.                                                        *)
(***************************************************************************)

Writing(m) == mgr[m].lock \in {"reserved", "pending", "exclusive"}

Typed == file \in File /\ mgr \in [Managers -> Manager]

(* The locks let one manager write, and nobody read while it commits. *)
OneWriter ==
  /\ \A m, n \in Managers : Writing(m) /\ Writing(n) => m = n
  /\ \A m, n \in Managers : mgr[m].lock = "exclusive" /\ n # m => mgr[n].lock = "none"

(* Where a manager is tells whether it writes. *)
Placed ==
  \A m \in Managers :
    /\ mgr[m].pc \in {"first", "second", "commit", "write"} => mgr[m].call \in Call
    /\ mgr[m].pc \in {"second", "commit"} => mgr[m].lock = "reserved"
    /\ mgr[m].pc = "write" <=> mgr[m].lock = "exclusive"
    /\ mgr[m].pc \in {"closed", "check", "create", "prepare"} => ~mgr[m].tx
    /\ mgr[m].pc \in {"first", "second", "commit", "write"} => mgr[m].tx
    /\ ~mgr[m].tx \/ mgr[m].pc = "first" => ~Writing(m)
    /\ mgr[m].pc = "create" => mgr[m].active # {}

(* What its transaction has changed. *)
Written ==
  \A m \in Managers :
    /\ mgr[m].pc \in {"second", "commit", "write"} =>
         mgr[m].view.poi_index = Applied(mgr[m].call, file.rows.poi_index)
    /\ mgr[m].pc = "second" => mgr[m].view.poi_data = file.rows.poi_data
    /\ mgr[m].pc \in {"commit", "write"} =>
         mgr[m].view.poi_data = Applied(mgr[m].call, file.rows.poi_data)

PoiInv == Typed /\ OneWriter /\ Placed /\ Written /\ TablesAgree

LEMMA OffIsManager == Off \in Manager
  BY DEF Off, Manager, NoRows, Rows, NoCall, Locks

LEMMA InitEstablishesPoiInv == Init => PoiInv
<1> SUFFICES ASSUME Init PROVE PoiInv OBVIOUS
<1>1. \A m \in Managers : mgr[m] = Off BY DEF Init
<1>2. /\ Off.pc = "closed"
      /\ Off.lock = "none"
      /\ Off.tx = FALSE
  BY DEF Off
<1>3. file \in File /\ TablesAgree
  BY DEF Init, File, Rows, NoRows, Tables, TablesAgree
<1>4. Typed BY <1>3, OffIsManager DEF Init, Typed
<1>5. OneWriter BY <1>1, <1>2 DEF OneWriter, Writing
<1>6. Placed BY <1>1, <1>2 DEF Placed, Writing
<1>7. Written BY <1>1, <1>2 DEF Written
<1> QED BY <1>3, <1>4, <1>5, <1>6, <1>7 DEF PoiInv

(* The file stays as it is, and one manager changes: what is to be shown. *)
LEMMA OneMoves ==
  ASSUME PoiInv, NEW m \in Managers, NEW r \in Manager,
         Becomes(m, r), file'.rows = file.rows, file' \in File,
         r.lock \in {"reserved", "pending", "exclusive"} =>
           \A n \in Others(m) : mgr[n].lock \in {"none", "shared"},
         r.lock = "exclusive" => Alone(m),
         r.lock # "none" => \/ mgr[m].lock # "none"
                            \/ \A n \in Others(m) : mgr[n].lock # "exclusive",
         r.pc \in {"first", "second", "commit", "write"} => r.call \in Call,
         r.pc \in {"second", "commit"} => r.lock = "reserved",
         r.pc = "write" <=> r.lock = "exclusive",
         r.pc \in {"closed", "check", "create", "prepare"} => ~r.tx,
         r.pc \in {"first", "second", "commit", "write"} => r.tx,
         ~r.tx \/ r.pc = "first" => r.lock \in {"none", "shared"},
         r.pc = "create" => r.active # {},
         r.pc \in {"second", "commit", "write"} =>
           r.view.poi_index = Applied(r.call, file.rows.poi_index),
         r.pc = "second" => r.view.poi_data = file.rows.poi_data,
         r.pc \in {"commit", "write"} =>
           r.view.poi_data = Applied(r.call, file.rows.poi_data)
  PROVE  PoiInv'
<1>1. mgr' = [mgr EXCEPT ![m] = r] BY DEF Becomes
<1>2. mgr \in [Managers -> Manager] BY DEF PoiInv, Typed
<1>3. mgr'[m] = r BY <1>1, <1>2
<1>4. \A n \in Managers : n # m => mgr'[n] = mgr[n] BY <1>1, <1>2
<1>5. Typed' BY <1>1, <1>2 DEF Typed
<1>6. OneWriter' BY <1>3, <1>4 DEF OneWriter, Writing, PoiInv, Others, Alone
<1>7. Placed' BY <1>3, <1>4 DEF Placed, Writing, PoiInv
<1>8. Written'
  <2>1. \A n \in Managers : n # m => mgr'[n].call = mgr[n].call BY <1>4
  <2>2. QED BY <1>3, <1>4, <2>1 DEF Written, PoiInv
<1>9. TablesAgree' BY DEF TablesAgree, PoiInv
<1> QED BY <1>5, <1>6, <1>7, <1>8, <1>9 DEF PoiInv

(* m goes off: nothing is asked of it any more. *)
LEMMA GoesOff ==
  ASSUME PoiInv, NEW m \in Managers, Becomes(m, Off), file' = file
  PROVE  PoiInv'
<1>1. file' \in File BY DEF PoiInv, Typed
<1>2. Off.pc = "closed" /\ Off.lock = "none" /\ Off.tx = FALSE BY DEF Off
<1> QED BY <1>1, <1>2, OffIsManager, OneMoves

LEMMA OpenKeeps ==
  ASSUME PoiInv, NEW m \in Managers, Open(m) PROVE PoiInv'
<1> DEFINE r == [Off EXCEPT !.pc = "check"]
<1>1. r \in Manager BY OffIsManager DEF Manager
<1>2. r.pc = "check" /\ r.lock = "none" /\ r.tx = FALSE BY DEF Off
<1>3. file' \in File BY DEF PoiInv, Typed, Open
<1>4. Becomes(m, r) /\ file' = file BY DEF Open
<1> HIDE DEF r
<1> QED BY <1>1, <1>2, <1>3, <1>4, OneMoves

LEMMA CheckKeeps ==
  ASSUME PoiInv, NEW m \in Managers, Check(m) PROVE PoiInv'
<1> DEFINE r == [mgr[m] EXCEPT
       !.active = LeftActive(m),
       !.lock = IF CanRead(m) THEN Kept(LeftActive(m)) ELSE "none",
       !.pc = IF CanRead(m) /\ file.tables = Tables THEN "prepare" ELSE "create"]
<1>1. mgr[m] \in Manager /\ mgr[m].pc = "check" BY DEF PoiInv, Typed, Check, At
<1>2. r \in Manager BY <1>1 DEF Manager, LeftActive, Kept, Locks
<1>3. /\ r.pc \in {"prepare", "create"}
      /\ r.lock \in {"none", "shared"}
      /\ r.lock = "shared" => CanRead(m)
      /\ r.tx = mgr[m].tx
      /\ r.active # {}
  BY <1>1 DEF Manager, LeftActive, Kept
<1>4. ~r.tx BY <1>1, <1>3 DEF PoiInv, Placed
<1>5. file' \in File /\ file' = file BY DEF PoiInv, Typed, Check
<1>6. Becomes(m, r) BY DEF Check
<1> HIDE DEF r
<1>7. r.lock # "none" => \/ mgr[m].lock # "none"
                         \/ \A n \in Others(m) : mgr[n].lock # "exclusive"
  BY <1>3 DEF CanRead
<1> QED BY <1>2, <1>3, <1>4, <1>5, <1>6, <1>7, OneMoves

(* A DROP is refused, as the statement of the check is active, so that the
   rows stay.                                                                *)
LEMMA CreateTablesKeeps ==
  ASSUME PoiInv, NEW m \in Managers, CreateTables(m)
  PROVE  PoiInv' /\ file'.rows = file.rows
<1>1. mgr[m] \in Manager /\ mgr[m].pc = "create" /\ file \in File
  BY DEF PoiInv, Typed, CreateTables, At
<1>2. mgr[m].active # {} /\ ~mgr[m].tx /\ mgr[m].lock \in {"none", "shared"}
  BY <1>1 DEF PoiInv, Placed, Writing, Manager, Locks
<1>3. file' \in File /\ file'.rows = file.rows
  <2> DEFINE t == Creation[(mgr[m].at % 3) + 1]
             with == [file EXCEPT !.tables = @ \union {t}]
  <2>1. mgr[m].at \in 0 .. 6 BY <1>1 DEF Manager
  <2>2. (mgr[m].at % 3) + 1 \in {1, 2, 3} BY <2>1
  <2>3. t \in Tables BY <2>2 DEF Creation, Tables
  <2>4. with \in File /\ with.rows = file.rows BY <1>1, <2>3 DEF File
  <2>5. file' = with \/ file' = file BY <1>2, Zenon DEF CreateTables
  <2> QED BY <1>1, <2>4, <2>5
<1>4. PICK r \in Manager :
        /\ Becomes(m, r)
        /\ r.pc \in {"create", "prepare"}
        /\ r.tx = mgr[m].tx
        /\ r.active = mgr[m].active
        /\ \/ r.lock = mgr[m].lock
           \/ r.lock = "shared" /\ CanRead(m)
  <2> DEFINE done == mgr[m].at
             t == Creation[(done % 3) + 1]
             nothing == done < 3 /\ t \notin file.tables
             drops == done < 3 /\ t \in file.tables /\ mgr[m].active = {} /\ Writes(m)
             creates == done >= 3 /\ t \notin file.tables /\ Writes(m)
             goes == done < 6 /\ (nothing \/ drops \/ creates)
             on == [mgr[m] EXCEPT !.at = (@ + 1) % 6,
                                  !.lock = IF nothing THEN @ ELSE Kept(mgr[m].active),
                                  !.pc = IF done = 5 THEN "prepare" ELSE "create"]
             out == [mgr[m] EXCEPT !.at = 0, !.pc = "prepare"]
  <2>1. Becomes(m, IF goes THEN on ELSE out) BY Zenon DEF CreateTables
  <2>2. CASE goes
    <3>1. on \in Manager
      <4>1. mgr[m].at \in 0 .. 6 BY <1>1 DEF Manager
      <4>2. (mgr[m].at + 1) % 6 \in 0 .. 6 BY <4>1
      <4>3. mgr[m] \in Manager BY <1>1
      <4> QED BY <4>2, <4>3 DEF Manager, Kept, Locks
    <3>2. nothing \/ CanRead(m) BY <2>2, <1>2 DEF Writes, CanWrite
    <3>3. on.lock = mgr[m].lock \/ (on.lock = "shared" /\ CanRead(m))
      BY <1>1, <1>2, <3>2 DEF Manager, Kept
    <3>4. on.pc \in {"create", "prepare"} /\ on.tx = mgr[m].tx /\ on.active = mgr[m].active
      BY <1>1 DEF Manager
    <3>5. Becomes(m, on) BY <2>1, <2>2
    <3> HIDE DEF on
    <3> QED BY <3>1, <3>3, <3>4, <3>5
  <2>3. CASE ~goes
    <3>1. out \in Manager
      <4>1. mgr[m] \in Manager BY <1>1
      <4>2. 0 \in 0 .. 6 OBVIOUS
      <4> QED BY <4>1, <4>2 DEF Manager, Locks
    <3>2. /\ out.pc = "prepare"
          /\ out.tx = mgr[m].tx
          /\ out.active = mgr[m].active
          /\ out.lock = mgr[m].lock
      BY <1>1 DEF Manager
    <3>3. Becomes(m, out) BY <2>1, <2>3
    <3> HIDE DEF out
    <3> QED BY <3>1, <3>2, <3>3
  <2> QED BY <2>2, <2>3
<1>5. r.lock \in {"none", "shared"} BY <1>2, <1>4
<1>6. r.lock # "none" => \/ mgr[m].lock # "none"
                         \/ \A n \in Others(m) : mgr[n].lock # "exclusive"
  BY <1>4 DEF CanRead
<1>7. PoiInv' BY <1>2, <1>3, <1>4, <1>5, <1>6, OneMoves
<1> QED BY <1>3, <1>7

LEMMA BeginKeeps ==
  ASSUME PoiInv, NEW m \in Managers, NEW call \in Call, Begin(m, call) PROVE PoiInv'
<1> DEFINE r == [mgr[m] EXCEPT !.pc = "first", !.call = call, !.tx = TRUE]
<1>1. mgr[m] \in Manager /\ ~mgr[m].tx /\ file \in File
  BY DEF PoiInv, Typed, Begin, BeginFails
<1>2. mgr[m].lock \in {"none", "shared"} BY <1>1 DEF PoiInv, Placed, Writing, Manager, Locks
<1>3. r \in Manager BY <1>1 DEF Manager, Locks
<1>4. /\ r.pc = "first"
      /\ r.call = call
      /\ r.tx = TRUE
      /\ r.lock = mgr[m].lock
  BY <1>1 DEF Manager
<1>5. Becomes(m, r) /\ file' = file BY DEF Begin
<1> HIDE DEF r
<1> QED BY <1>1, <1>2, <1>3, <1>4, <1>5, OneMoves

(* A call returns: the file and the other managers stay as they are. *)
LEMMA ReturnsKeeps ==
  ASSUME PoiInv, NEW m \in Managers, NEW r \in Manager, Return(m, r), file' = file,
         r.lock # "exclusive",
         r.lock \in {"reserved", "pending"} =>
           r.tx /\ \A n \in Others(m) : mgr[n].lock \in {"none", "shared"},
         r.lock # "none" => \/ mgr[m].lock # "none"
                            \/ \A n \in Others(m) : mgr[n].lock # "exclusive"
  PROVE  PoiInv'
<1> DEFINE q == [r EXCEPT !.pc = "ready", !.call = NoCall]
<1>1. q \in Manager BY DEF Manager, Locks
<1>2. /\ q.pc = "ready"
      /\ q.lock = r.lock
      /\ q.tx = r.tx
  BY DEF Manager
<1>3. q.lock \in Locks BY <1>1 DEF Manager
<1>4. Becomes(m, q) BY DEF Return
<1>5. file' \in File BY DEF PoiInv, Typed
<1> HIDE DEF q
<1> QED BY <1>1, <1>2, <1>3, <1>4, <1>5, OneMoves DEF Locks

(* A manager whose statement on table t has run. *)
Ran(m, t, next) == [mgr[m] EXCEPT !.lock = "reserved", !.view = Changed(m, t), !.pc = next]

(* What a statement on table t does, when the call ends with it or goes on. *)
LEMMA StepReturns ==
  ASSUME PoiInv, NEW m \in Managers, NEW t \in {"poi_index", "poi_data"}, NEW next,
         mgr[m].pc \in {"first", "second"}, file' = file, Step(m, t, next)
  PROVE  \/ PoiInv'
         \/ /\ next # "ready"
            /\ CanWrite(m)
            /\ Becomes(m, Ran(m, t, next))
<1>1. mgr[m] \in Manager /\ file \in File BY DEF PoiInv, Typed
<1>2. mgr[m].tx /\ mgr[m].call \in Call
  BY DEF PoiInv, Placed
<1>3. Seen(m) \in Rows BY <1>1 DEF Seen, Manager, File
<1>4. Changed(m, t) \in Rows
  <2>1. Applied(mgr[m].call, Seen(m)[t]) \in SUBSET Pois
    BY <1>2, <1>3 DEF Applied, Rows, Call
  <2> QED BY <1>3, <2>1 DEF Changed, Rows
<1>5. CanWrite(m) =>
        /\ \A n \in Others(m) : mgr[n].lock \in {"none", "shared"}
        /\ mgr[m].lock # "none" \/ \A n \in Others(m) : mgr[n].lock # "exclusive"
  BY DEF CanWrite, CanRead
<1>6. NoRows \in Rows BY DEF NoRows, Rows
<1>7. mgr[m].lock # "exclusive"
  BY DEF PoiInv, Placed
<1>a. CASE /\ CanWrite(m)
           /\ LET r == [mgr[m] EXCEPT !.lock = "reserved", !.view = Changed(m, t), !.pc = next]
              IN  IF next = "ready" THEN Return(m, r) ELSE Becomes(m, r)
  <2>1. CASE next = "ready"
    <3> DEFINE r == [mgr[m] EXCEPT !.lock = "reserved", !.view = Changed(m, t), !.pc = next]
    <3>1. r \in Manager BY <1>1, <1>4, <2>1 DEF Manager, Locks
    <3>2. r.lock = "reserved" /\ r.tx BY <1>1, <1>2 DEF Manager
    <3>3. Return(m, r) BY <1>a, <2>1
    <3> HIDE DEF r
    <3> QED BY <1>5, <1>a, <3>1, <3>2, <3>3, ReturnsKeeps
  <2> QED BY <1>a, <2>1 DEF Ran
<1>b. CASE /\ CanWrite(m)
           /\ Return(m, [mgr[m] EXCEPT !.lock = "reserved", !.view = Seen(m)])
  <2> DEFINE r == [mgr[m] EXCEPT !.lock = "reserved", !.view = Seen(m)]
  <2>1. r \in Manager BY <1>1, <1>3 DEF Manager, Locks
  <2>2. r.lock = "reserved" /\ r.tx BY <1>1, <1>2 DEF Manager
  <2>3. Return(m, r) BY <1>b
  <2> HIDE DEF r
  <2> QED BY <1>5, <1>b, <2>1, <2>2, <2>3, ReturnsKeeps
<1>c. CASE ~CanWrite(m) /\ Return(m, mgr[m])
  <2>1. mgr[m].lock \in {"reserved", "pending"} =>
          \A n \in Others(m) : mgr[n].lock \in {"none", "shared"}
    <3>1. \A n \in Others(m) : mgr[n] \in Manager BY DEF PoiInv, Typed, Others
    <3> QED BY <3>1 DEF PoiInv, OneWriter, Writing, Others, Manager, Locks
  <2> QED BY <1>1, <1>2, <1>7, <1>c, <2>1, ReturnsKeeps
<1>d. CASE /\ CanWrite(m)
           /\ Return(m, [mgr[m] EXCEPT !.tx = FALSE, !.view = NoRows,
                                       !.lock = Kept(mgr[m].active)])
  <2> DEFINE r == [mgr[m] EXCEPT !.tx = FALSE, !.view = NoRows, !.lock = Kept(mgr[m].active)]
  <2>1. r \in Manager BY <1>1, <1>6 DEF Manager, Locks, Kept
  <2>2. r.lock \in {"none", "shared"} BY <1>1 DEF Manager, Kept
  <2>3. Return(m, r) BY <1>d
  <2> HIDE DEF r
  <2> QED BY <1>5, <1>d, <2>1, <2>2, <2>3, ReturnsKeeps
<1> QED BY <1>a, <1>b, <1>c, <1>d DEF Step, Ended

LEMMA StepFirstKeeps ==
  ASSUME PoiInv, NEW m \in Managers, StepFirst(m) PROVE PoiInv'
<1> DEFINE r == Ran(m, "poi_index", "second")
<1>1. mgr[m] \in Manager /\ file \in File /\ mgr[m].pc = "first"
  BY DEF PoiInv, Typed, StepFirst, At
<1>2. mgr[m].tx /\ mgr[m].call \in Call /\ mgr[m].lock \in {"none", "shared"}
  BY <1>1 DEF PoiInv, Placed, Writing, Manager, Locks
<1>3. Seen(m) = file.rows BY <1>2 DEF Seen
<1>4. file' = file /\ Step(m, "poi_index", "second") BY DEF StepFirst
<1> SUFFICES ASSUME CanWrite(m), Becomes(m, r) PROVE PoiInv'
  BY <1>1, <1>4, StepReturns
<1>5. Applied(mgr[m].call, file.rows.poi_index) \in SUBSET Pois
  BY <1>1, <1>2 DEF Applied, Call, File, Rows
<1>6. Changed(m, "poi_index") = [file.rows EXCEPT !.poi_index = Applied(mgr[m].call, @)]
  BY <1>3 DEF Changed
<1>7. /\ Changed(m, "poi_index") \in Rows
      /\ Changed(m, "poi_index").poi_index = Applied(mgr[m].call, file.rows.poi_index)
      /\ Changed(m, "poi_index").poi_data = file.rows.poi_data
  BY <1>1, <1>5, <1>6 DEF File, Rows
<1>8. r \in Manager BY <1>1, <1>7 DEF Manager, Locks, Ran
<1>9. /\ r.pc = "second"
      /\ r.lock = "reserved"
      /\ r.tx = mgr[m].tx
      /\ r.call = mgr[m].call
      /\ r.view = Changed(m, "poi_index")
  BY <1>1 DEF Manager, Ran
<1>10. /\ \A n \in Others(m) : mgr[n].lock \in {"none", "shared"}
       /\ mgr[m].lock # "none" \/ \A n \in Others(m) : mgr[n].lock # "exclusive"
  BY DEF CanWrite, CanRead
<1> HIDE DEF r
<1> QED BY <1>1, <1>2, <1>4, <1>7, <1>8, <1>9, <1>10, OneMoves

LEMMA StepSecondKeeps ==
  ASSUME PoiInv, NEW m \in Managers, StepSecond(m) PROVE PoiInv'
<1> DEFINE r == Ran(m, "poi_data", "commit")
<1>1. mgr[m] \in Manager /\ file \in File /\ mgr[m].pc = "second"
  BY DEF PoiInv, Typed, StepSecond, At
<1>2. /\ mgr[m].tx
      /\ mgr[m].call \in Call
      /\ mgr[m].lock = "reserved"
      /\ mgr[m].view.poi_index = Applied(mgr[m].call, file.rows.poi_index)
      /\ mgr[m].view.poi_data = file.rows.poi_data
  BY <1>1 DEF PoiInv, Placed, Written
<1>3. Seen(m) = mgr[m].view BY <1>2 DEF Seen
<1>4. file' = file BY DEF StepSecond
<1>a. "poi_data" \in {"poi_index", "poi_data"} /\ mgr[m].pc \in {"first", "second"} BY <1>1
<1>b. CASE Step(m, "poi_data", "ready")
  BY <1>4, <1>a, <1>b, StepReturns
<1> SUFFICES ASSUME CanWrite(m), Becomes(m, r) PROVE PoiInv'
  <2>1. CASE Step(m, "poi_data", "commit") BY <1>4, <1>a, <2>1, StepReturns
  <2> QED BY <1>b, <2>1 DEF StepSecond
<1>5. Applied(mgr[m].call, file.rows.poi_data) \in SUBSET Pois
  BY <1>1, <1>2 DEF Applied, Call, File, Rows
<1>6. Changed(m, "poi_data") = [mgr[m].view EXCEPT !.poi_data = Applied(mgr[m].call, @)]
  BY <1>3 DEF Changed
<1>7. /\ Changed(m, "poi_data") \in Rows
      /\ Changed(m, "poi_data").poi_index = Applied(mgr[m].call, file.rows.poi_index)
      /\ Changed(m, "poi_data").poi_data = Applied(mgr[m].call, file.rows.poi_data)
  BY <1>1, <1>2, <1>5, <1>6 DEF Manager, Rows
<1>8. r \in Manager BY <1>1, <1>7 DEF Manager, Locks, Ran
<1>9. /\ r.pc = "commit"
      /\ r.lock = "reserved"
      /\ r.tx = mgr[m].tx
      /\ r.call = mgr[m].call
      /\ r.view = Changed(m, "poi_data")
  BY <1>1 DEF Manager, Ran
<1>10. \A n \in Others(m) : mgr[n].lock \in {"none", "shared"}
  BY DEF CanWrite
<1> HIDE DEF r
<1> QED BY <1>1, <1>2, <1>4, <1>7, <1>8, <1>9, <1>10, OneMoves

LEMMA CommitKeeps ==
  ASSUME PoiInv, NEW m \in Managers, Commit(m) PROVE PoiInv'
<1>1. mgr[m] \in Manager /\ mgr[m].pc = "commit" /\ file \in File
  BY DEF PoiInv, Typed, Commit, At
<1>2. /\ mgr[m].tx
      /\ mgr[m].call \in Call
      /\ mgr[m].lock = "reserved"
      /\ mgr[m].view.poi_index = Applied(mgr[m].call, file.rows.poi_index)
      /\ mgr[m].view.poi_data = Applied(mgr[m].call, file.rows.poi_data)
  BY <1>1 DEF PoiInv, Placed, Written
<1>3. \A n \in Others(m) : mgr[n].lock \in {"none", "shared"}
  <2>1. \A n \in Others(m) : mgr[n] \in Manager BY DEF PoiInv, Typed, Others
  <2> QED BY <1>2, <2>1 DEF PoiInv, OneWriter, Writing, Others, Manager, Locks
<1>4. file' = file BY DEF Commit
<1>5. CASE Alone(m) /\ Becomes(m, [mgr[m] EXCEPT !.pc = "write", !.lock = "exclusive"])
  <2> DEFINE r == [mgr[m] EXCEPT !.pc = "write", !.lock = "exclusive"]
  <2>1. r \in Manager BY <1>1 DEF Manager, Locks
  <2>2. /\ r.pc = "write"
        /\ r.lock = "exclusive"
        /\ r.tx = mgr[m].tx
        /\ r.call = mgr[m].call
        /\ r.view = mgr[m].view
    BY <1>1 DEF Manager
  <2>3. Becomes(m, r) BY <1>5
  <2> HIDE DEF r
  <2> QED BY <1>1, <1>2, <1>3, <1>4, <1>5, <2>1, <2>2, <2>3, OneMoves
<1>6. CASE Return(m, [mgr[m] EXCEPT !.lock = "pending"])
  <2> DEFINE r == [mgr[m] EXCEPT !.lock = "pending"]
  <2>1. r \in Manager BY <1>1 DEF Manager, Locks
  <2>2. r.lock = "pending" /\ r.tx BY <1>1, <1>2 DEF Manager
  <2>3. Return(m, r) BY <1>6
  <2> HIDE DEF r
  <2> QED BY <1>2, <1>3, <1>4, <2>1, <2>2, <2>3, ReturnsKeeps
<1>7. CASE Return(m, Ended(m))
  <2>1. /\ Ended(m) \in Manager
        /\ Ended(m).lock \in {"none", "shared"}
    BY <1>1 DEF Ended, Manager, Locks, Kept, NoRows, Rows
  <2> QED BY <1>2, <1>4, <1>7, <2>1, ReturnsKeeps
<1> QED BY <1>5, <1>6, <1>7 DEF Commit

(* Nobody else writes, so that the rows are those of before the call, changed. *)
LEMMA WriteKeeps ==
  ASSUME PoiInv, NEW m \in Managers, Write(m)
  PROVE  /\ PoiInv'
         /\ \/ file'.rows = file.rows
            \/ file'.rows.poi_index = Applied(mgr[m].call, file.rows.poi_index)
         /\ mgr[m].call \in Call
         /\ mgr[m].pc = "write"
<1> DEFINE r == [mgr[m] EXCEPT !.tx = FALSE, !.view = NoRows, !.lock = Kept(mgr[m].active)]
           q == [r EXCEPT !.pc = "ready", !.call = NoCall]
<1>1. mgr[m] \in Manager /\ mgr[m].pc = "write" /\ file \in File
  BY DEF PoiInv, Typed, Write, At
<1>2. /\ mgr[m].call \in Call
      /\ mgr[m].lock = "exclusive"
      /\ mgr[m].view.poi_index = Applied(mgr[m].call, file.rows.poi_index)
      /\ mgr[m].view.poi_data = Applied(mgr[m].call, file.rows.poi_data)
  BY <1>1 DEF PoiInv, Placed, Written
<1>3. file' \in File /\ file'.rows \in {mgr[m].view, file.rows}
  BY <1>1 DEF Write, File, Manager
<1>4. NoRows \in Rows BY DEF NoRows, Rows
<1>5. q \in Manager BY <1>1, <1>4 DEF Manager, Locks, Kept
<1>6. q.pc = "ready" /\ q.lock \in {"none", "shared"} /\ q.tx = FALSE
  BY <1>1 DEF Manager, Kept
<1>7. mgr' = [mgr EXCEPT ![m] = q] BY DEF Write, Ended, Return, Becomes
<1> HIDE DEF q
<1>8. mgr \in [Managers -> Manager] BY DEF PoiInv, Typed
<1>9. mgr'[m] = q /\ \A n \in Managers : n # m => mgr'[n] = mgr[n] BY <1>7, <1>8
<1>10. \A n \in Managers : n # m => mgr[n].lock = "none"
  BY <1>2 DEF PoiInv, OneWriter
<1>11. Typed' BY <1>3, <1>5, <1>7, <1>8 DEF Typed
<1>12. OneWriter' BY <1>6, <1>9, <1>10 DEF OneWriter, Writing
<1>13. Placed' BY <1>6, <1>9 DEF PoiInv, Placed, Writing
<1>14. Written'
  <2>1. \A n \in Managers : mgr'[n].pc \notin {"second", "commit", "write"}
    BY <1>6, <1>9, <1>10 DEF PoiInv, Placed
  <2> QED BY <2>1 DEF Written
<1>15. TablesAgree' BY <1>2, <1>3 DEF PoiInv, TablesAgree
<1> QED BY <1>1, <1>2, <1>3, <1>11, <1>12, <1>13, <1>14, <1>15 DEF PoiInv

LEMMA FindKeeps ==
  ASSUME PoiInv, NEW m \in Managers, NEW p \in Pois, Find(m, p) PROVE PoiInv'
<1>1. mgr[m] \in Manager /\ mgr[m].pc = "ready" /\ file \in File
  BY DEF PoiInv, Typed, Find, Usable, At
<1>2. mgr[m].lock # "exclusive" /\ (~mgr[m].tx => mgr[m].lock \in {"none", "shared"})
  BY <1>1 DEF PoiInv, Placed, Writing, Manager, Locks
<1>3. mgr[m].lock \in {"reserved", "pending"} =>
        \A n \in Others(m) : mgr[n].lock \in {"none", "shared"}
  <2>1. \A n \in Others(m) : mgr[n] \in Manager BY DEF PoiInv, Typed, Others
  <2> QED BY <2>1 DEF PoiInv, OneWriter, Writing, Others, Manager, Locks
<1>4. PICK r \in Manager :
        /\ Becomes(m, r)
        /\ r.pc = "ready"
        /\ r.tx = mgr[m].tx
        /\ \/ r.lock = "none"
           \/ r.lock = mgr[m].lock
           \/ /\ r.lock = "shared"
              /\ \A n \in Others(m) : mgr[n].lock \notin {"pending", "exclusive"}
  <2> DEFINE rest == mgr[m].active \ {"findByID"}
             held == IF mgr[m].tx \/ rest # {} THEN mgr[m].lock ELSE "none"
             can == held = "none" =>
                      \A n \in Others(m) : mgr[n].lock \notin {"pending", "exclusive"}
             read == IF held = "none" THEN "shared" ELSE held
             found == p \in Seen(m).poi_index \intersect Seen(m).poi_data
             after == IF mgr[m].tx THEN read ELSE IF rest = {} THEN "none" ELSE read
             stays == [mgr[m] EXCEPT !.active = rest \union {"findByID"}, !.lock = held]
             stops == [mgr[m] EXCEPT !.active = rest \union {"findByID"}, !.lock = read]
             ends == [mgr[m] EXCEPT !.active = rest, !.lock = after]
  <2>1. Becomes(m, stays) \/ (can /\ (Becomes(m, stops) \/ Becomes(m, ends)))
    BY Zenon DEF Find
  <2>2. held \in Locks /\ read \in Locks /\ after \in Locks
    BY <1>1 DEF Manager, Locks
  <2>3. held = "none" \/ held = mgr[m].lock OBVIOUS
  <2>4. can => \/ read = mgr[m].lock
               \/ /\ read = "shared"
                  /\ \A n \in Others(m) : mgr[n].lock \notin {"pending", "exclusive"}
    BY <2>3
  <2>5. after = "none" \/ after = read OBVIOUS
  <2>6. rest \in SUBSET {"isValidDB", "findByID"} BY <1>1 DEF Manager
  <2> HIDE DEF rest, held, can, read, after
  <2>7. stays \in Manager /\ stops \in Manager /\ ends \in Manager
    BY <1>1, <2>2, <2>6 DEF Manager
  <2>8. /\ stays.pc = "ready" /\ stays.tx = mgr[m].tx /\ stays.lock = held
        /\ stops.pc = "ready" /\ stops.tx = mgr[m].tx /\ stops.lock = read
        /\ ends.pc = "ready" /\ ends.tx = mgr[m].tx /\ ends.lock = after
    BY <1>1 DEF Manager
  <2> HIDE DEF stays, stops, ends
  <2> QED BY <2>1, <2>3, <2>4, <2>5, <2>7, <2>8
<1>5. file' = file BY DEF Find
<1>6. file' \in File BY <1>1, <1>5
<1>7. r.lock # "none" => \/ mgr[m].lock # "none"
                         \/ \A n \in Others(m) : mgr[n].lock # "exclusive"
  BY <1>4
<1> QED BY <1>2, <1>3, <1>4, <1>5, <1>6, <1>7, OneMoves

----------------------------------------------------------------------------

(* Every step keeps the invariant, and a row of poi_index goes only by the
   commit of a removal.                                                      *)
LEMMA NextKeeps ==
  ASSUME PoiInv, [Next]_vars
  PROVE  /\ PoiInv'
         /\ \/ file'.rows = file.rows
            \/ \E m \in Managers :
                 /\ At(m, "write")
                 /\ mgr[m].call \in Call
                 /\ file'.rows.poi_index = Applied(mgr[m].call, file.rows.poi_index)
<1>1. CASE \E m \in Managers : Open(m) \/ Check(m) \/ Prepare(m)
  <2>1. ASSUME NEW m \in Managers, Prepare(m) PROVE PoiInv'
    <3>1. mgr[m] \in Manager /\ mgr[m].pc = "prepare" /\ file \in File
      BY <2>1 DEF PoiInv, Typed, Prepare, At
    <3>2. ~mgr[m].tx /\ mgr[m].lock \in {"none", "shared"}
      BY <3>1 DEF PoiInv, Placed, Writing, Manager, Locks
    <3>3. PICK usable \in BOOLEAN :
            Becomes(m, [mgr[m] EXCEPT !.pc = "ready", !.usable = usable])
      BY <2>1 DEF Prepare
    <3> DEFINE r == [mgr[m] EXCEPT !.pc = "ready", !.usable = usable]
    <3>4. r \in Manager BY <3>1 DEF Manager, Locks
    <3>5. r.pc = "ready" /\ r.tx = mgr[m].tx /\ r.lock = mgr[m].lock BY <3>1 DEF Manager
    <3>6. Becomes(m, r) /\ file' = file BY <2>1, <3>3 DEF Prepare
    <3> HIDE DEF r
    <3> QED BY <3>1, <3>2, <3>4, <3>5, <3>6, OneMoves
  <2> QED BY <1>1, <2>1, OpenKeeps, CheckKeeps DEF Open, Check, Prepare
<1>2. CASE \E m \in Managers : CreateTables(m)
  BY <1>2, CreateTablesKeeps
<1>3. CASE \E m \in Managers, call \in Call : Begin(m, call)
  BY <1>3, BeginKeeps DEF Begin
<1>4. CASE \E m \in Managers : StepFirst(m) \/ StepSecond(m) \/ Commit(m)
  BY <1>4, StepFirstKeeps, StepSecondKeeps, CommitKeeps DEF StepFirst, StepSecond, Commit
<1>5. CASE \E m \in Managers : Write(m)
  BY <1>5, WriteKeeps DEF At
<1>6. CASE \E m \in Managers, p \in Pois : Find(m, p)
  BY <1>6, FindKeeps DEF Find
<1>7. CASE \E m \in Managers : Close(m) \/ Crash(m)
  BY <1>7, GoesOff DEF Close, Crash
<1>8. CASE UNCHANGED vars
  BY <1>8 DEF vars, PoiInv, Typed, OneWriter, Placed, Written, TablesAgree, Writing
<1> QED BY <1>1, <1>2, <1>3, <1>4, <1>5, <1>6, <1>7, <1>8 DEF Next

LEMMA PoiInvariant == Spec => []PoiInv
<1>1. Init => PoiInv BY InitEstablishesPoiInv
<1>2. PoiInv /\ [Next]_vars => PoiInv' BY NextKeeps
<1> QED BY <1>1, <1>2, PTL DEF Spec

(* Whatever fails, and whenever a process ends, poi_index and poi_data of the
   file have the same points.                                                *)
THEOREM PoiTablesAgree == Spec => []TablesAgree
<1>1. PoiInv => TablesAgree BY DEF PoiInv
<1> QED BY <1>1, PoiInvariant, PTL

(* A point that leaves the file was removed by a call of removePointOfInterest;
   no manager that opens the file drops its tables.                          *)
THEOREM PoiPointsStay == Spec => PointsStay
<1> DEFINE Removing == \A p \in file.rows.poi_index \ file'.rows.poi_index :
             \E m \in Managers :
               At(m, "write") /\ mgr[m].call = [kind |-> "remove", poi |-> p, more |-> FALSE]
<1>1. PoiInv /\ [Next]_vars => [Removing]_vars
  <2> SUFFICES ASSUME PoiInv, [Next]_vars, NEW p \in file.rows.poi_index \ file'.rows.poi_index
               PROVE  \E m \in Managers :
                        /\ At(m, "write")
                        /\ mgr[m].call = [kind |-> "remove", poi |-> p, more |-> FALSE]
    OBVIOUS
  <2>1. PICK m \in Managers :
          /\ At(m, "write")
          /\ mgr[m].call \in Call
          /\ file'.rows.poi_index = Applied(mgr[m].call, file.rows.poi_index)
    BY NextKeeps
  <2>2. mgr[m].call.kind # "insert" /\ mgr[m].call.poi = p BY <2>1 DEF Applied
  <2>3. mgr[m].call = [kind |-> "remove", poi |-> p, more |-> FALSE] BY <2>1, <2>2 DEF Call
  <2> QED BY <2>1, <2>3
<1> QED BY <1>1, PoiInvariant, PTL DEF Spec, PointsStay

-----------------------------------------------------------------------------
(***************************************************************************)
(* The handles.  Whichever of a Database and its children ends first tells *)
(* the other: the invariant says which children a list has, which          *)
(* connections are open, and what the two threads hold on to while they    *)
(* are in the middle of something, until one changes that under the other. *)
(***************************************************************************)

(* Each list of a handle holds exactly the children that point back to it;    *)
(* where there is no handle the lists are empty, and nobody points there.     *)
Exact ==
  \A d \in Databases, l \in Lists :
    /\ IsInjective(handle[d].lists[l])
    /\ \A k \in Children : k \in ToSet(handle[d].lists[l]) <=> (child[k].h = d /\ ListOf(k) = l)

(* What a handle or a child refers to is open, no two handles share it, and   *)
(* statements of a handle's connection are in the handle's list.              *)
Connected ==
  /\ \A d \in Databases : handle[d].sqlite \in open \union {Closed, Null}
  /\ \A d, e \in Databases : handle[d].sqlite = handle[e].sqlite /\ handle[d].sqlite \in open => d = e
  /\ \A k \in Children : child[k].obj \in open \union {Closed, Null}
  /\ \A k \in Children : KindOf[k] # "backup" => child[k].dest = Closed
  /\ \A k \in Children, d \in Databases :
       KindOf[k] \in {"stmt", "vm"} /\ child[k].obj = handle[d].sqlite /\ child[k].obj \in open =>
         child[k].h = d

(* A child has a node from when it is created, and the one that the finalizer *)
(* thread is about to unlink is still in its list, unless that was freed.  A  *)
(* Database that it closes is garbage, a child whose method runs is not.      *)
Finalizing ==
  /\ \A k \in Children : java[k] = "unborn" => child[k] = NoNode
  /\ unlinking # Nobody =>
       /\ unlinking.k \in Children /\ java[unlinking.k] = "garbage"
       /\ unlinking.after # unlinking.k
       /\ unlinking.freed \/ child[unlinking.k].h # None
  /\ closing.d # None => unlinking = Nobody /\ java[closing.d] = "garbage"
  /\ closing.v # None => closing.d # None
  /\ using.k # None => java[using.k] = "held" /\ child[using.k] # NoNode

HandlesInv ==
  /\ HandlesTypeOK
  /\ ConnectionOutlivesItsChildren
  /\ Sound => Exact /\ Connected /\ Finalizing

-----------------------------------------------------------------------------
(* Lists.                                                                     *)

LEMMA PositionIn ==
  ASSUME NEW S, NEW list \in Seq(S), NEW k, k \in ToSet(list)
  PROVE  /\ Position(list, k) \in 1 .. Len(list) /\ list[Position(list, k)] = k
         /\ Contains(list, k)
BY DEF ToSet, Position, Contains

LEMMA PutFirst ==
  ASSUME NEW S, NEW list \in Seq(S), IsInjective(list), NEW k \in S, k \notin ToSet(list)
  PROVE  /\ <<k>> \o list \in Seq(S) /\ IsInjective(<<k>> \o list)
         /\ \A x : x \in ToSet(<<k>> \o list) <=> (x \in ToSet(list) \/ x = k)
<1> DEFINE new == <<k>> \o list
<1>1. /\ new \in Seq(S) /\ Len(new) = Len(list) + 1 /\ new[1] = k
      /\ \A i \in 1 .. Len(list) : new[i + 1] = list[i]
      /\ \A i \in 2 .. Len(new) : new[i] = list[i - 1]
  OBVIOUS
<1>2. DOMAIN new = 1 .. Len(list) + 1 /\ DOMAIN list = 1 .. Len(list) /\ Len(list) \in Nat
  BY <1>1
<1> HIDE DEF new
<1>3. \A i \in DOMAIN new : i = 1 \/ (i - 1 \in DOMAIN list /\ new[i] = list[i - 1])
  BY <1>1, <1>2
<1>4. IsInjective(new)
  BY <1>1, <1>2, <1>3 DEF IsInjective, ToSet
<1>5. \A x : x \in ToSet(new) => x \in ToSet(list) \/ x = k
  BY <1>1, <1>3 DEF ToSet
<1>6. \A x \in ToSet(list) : x \in ToSet(new)
  <2> SUFFICES ASSUME NEW i \in DOMAIN list PROVE list[i] \in ToSet(new)
    BY DEF ToSet
  <2>1. i + 1 \in DOMAIN new /\ new[i + 1] = list[i]
    BY <1>1, <1>2
  <2> QED
    BY <2>1 DEF ToSet
<1>7. k \in ToSet(new)
  BY <1>1, <1>2 DEF ToSet
<1> QED
  BY <1>1, <1>4, <1>5, <1>6, <1>7 DEF new

LEMMA RemovedAt ==
  ASSUME NEW S, NEW list \in Seq(S), NEW i \in 1 .. Len(list)
  PROVE  /\ RemoveAt(list, i) \in Seq(S)
         /\ DOMAIN RemoveAt(list, i) = 1 .. Len(list) - 1
         /\ \A j \in 1 .. i - 1 : RemoveAt(list, i)[j] = list[j]
         /\ \A j \in i .. Len(list) - 1 : RemoveAt(list, i)[j] = list[j + 1]
<1> DEFINE front == SubSeq(list, 1, i - 1)  back == SubSeq(list, i + 1, Len(list))
<1>1. i \in Int /\ Len(list) \in Nat /\ \A j \in 1 .. Len(list) : list[j] \in S
  OBVIOUS
<1>2. /\ front \in Seq(S) /\ Len(front) = i - 1
      /\ \A j \in 1 .. i - 1 : front[j] = list[1 + j - 1]
  <2>1. 1 \in Int /\ i - 1 \in Int /\ \A j \in 1 .. i - 1 : list[j] \in S
    BY <1>1
  <2> HIDE DEF front
  <2>2. /\ front \in Seq(S) /\ Len(front) = IF 1 <= i - 1 THEN (i - 1) - 1 + 1 ELSE 0
        /\ \A j \in 1 .. (i - 1) - 1 + 1 : front[j] = list[1 + j - 1]
    BY <2>1, SubSeqProperties DEF front
  <2> QED
    BY <2>2
<1>3. /\ back \in Seq(S) /\ Len(back) = Len(list) - i
      /\ \A j \in 1 .. Len(list) - i : back[j] = list[i + 1 + j - 1]
  <2>1. i + 1 \in Int /\ Len(list) \in Int /\ \A j \in i + 1 .. Len(list) : list[j] \in S
    BY <1>1
  <2> HIDE DEF back
  <2>2. /\ back \in Seq(S)
        /\ Len(back) = IF i + 1 <= Len(list) THEN Len(list) - (i + 1) + 1 ELSE 0
        /\ \A j \in 1 .. Len(list) - (i + 1) + 1 : back[j] = list[i + 1 + j - 1]
    BY <2>1, SubSeqProperties DEF back
  <2> QED
    BY <2>2
<1>4. RemoveAt(list, i) = front \o back
  BY DEF RemoveAt
<1> HIDE DEF front, back
<1>5. /\ front \o back \in Seq(S) /\ Len(front \o back) = Len(front) + Len(back)
      /\ \A j \in 1 .. Len(front) + Len(back) : (front \o back)[j] =
            IF j <= Len(front) THEN front[j] ELSE back[j - Len(front)]
  BY <1>2, <1>3, ConcatProperties, Zenon
<1>6. /\ RemoveAt(list, i) \in Seq(S) /\ Len(RemoveAt(list, i)) = Len(list) - 1
  BY <1>1, <1>2, <1>3, <1>4, <1>5
<1>7. ASSUME NEW j \in 1 .. i - 1 PROVE RemoveAt(list, i)[j] = list[j]
  <2>1. j \in 1 .. Len(front) + Len(back) /\ j <= Len(front) /\ 1 + j - 1 = j
    BY <1>1, <1>2, <1>3
  <2> QED
    BY <1>2, <1>4, <1>5, <2>1
<1>8. ASSUME NEW j \in i .. Len(list) - 1 PROVE RemoveAt(list, i)[j] = list[j + 1]
  <2>1. /\ j \in 1 .. Len(front) + Len(back) /\ ~(j <= Len(front))
        /\ j - Len(front) \in 1 .. Len(list) - i /\ i + 1 + (j - Len(front)) - 1 = j + 1
    BY <1>1, <1>2, <1>3
  <2> QED
    BY <1>3, <1>4, <1>5, <2>1
<1> QED
  BY <1>6, <1>7, <1>8

LEMMA TakenOut ==
  ASSUME NEW S, NEW list \in Seq(S), IsInjective(list), NEW k, k \in ToSet(list)
  PROVE  /\ Without(list, k) \in Seq(S) /\ IsInjective(Without(list, k))
         /\ \A x : x \in ToSet(Without(list, k)) <=> (x \in ToSet(list) /\ x # k)
<1>1. PICK i \in 1 .. Len(list) : list[i] = k /\ Without(list, k) = RemoveAt(list, i)
  BY PositionIn DEF Without
<1> DEFINE new == RemoveAt(list, i)
<1>2. DOMAIN list = 1 .. Len(list) /\ Len(list) \in Nat
  OBVIOUS
<1>3. /\ new \in Seq(S) /\ DOMAIN new = 1 .. Len(list) - 1
      /\ \A j \in 1 .. i - 1 : new[j] = list[j]
      /\ \A j \in i .. Len(list) - 1 : new[j] = list[j + 1]
  BY RemovedAt
<1> HIDE DEF new
<1>4. \A j \in DOMAIN new :
        \/ j < i /\ j \in DOMAIN list /\ new[j] = list[j]
        \/ j >= i /\ j + 1 \in DOMAIN list /\ new[j] = list[j + 1]
  BY <1>1, <1>2, <1>3
<1>5. IsInjective(new)
  <2> SUFFICES ASSUME NEW j \in DOMAIN new, NEW m \in DOMAIN new, new[j] = new[m] PROVE j = m
    BY DEF IsInjective
  <2> QED
    BY <1>1, <1>2, <1>3, <1>4 DEF IsInjective
<1>6. \A x : x \in ToSet(new) => x \in ToSet(list) /\ x # k
  BY <1>1, <1>2, <1>3 DEF ToSet, IsInjective
<1>7. \A x \in ToSet(list) : x # k => x \in ToSet(new)
  <2> SUFFICES ASSUME NEW j \in DOMAIN list, list[j] # k PROVE list[j] \in ToSet(new)
    BY DEF ToSet
  <2>1. j # i
    BY <1>1
  <2>2. CASE j < i
    BY <1>1, <1>2, <1>3, <2>2 DEF ToSet
  <2>3. CASE j > i
    <3>1. j - 1 \in i .. Len(list) - 1 /\ (j - 1) + 1 = j /\ j - 1 \in DOMAIN new
      BY <1>1, <1>2, <1>3, <2>3
    <3>2. new[j - 1] = list[j]
      BY <1>3, <3>1
    <3> QED
      BY <3>1, <3>2 DEF ToSet
  <2> QED
    BY <1>1, <1>2, <2>1, <2>2, <2>3
<1> QED
  BY <1>1, <1>3, <1>5, <1>6, <1>7 DEF new

(* What follows the head of a list is the list without it.                    *)
LEMMA CutOff ==
  ASSUME NEW S, NEW list \in Seq(S), NEW k, k \in ToSet(list), Position(list, k) = 1
  PROVE  SubSeq(list, Position(list, k) + 1, Len(list)) = Without(list, k)
<1>1. Without(list, k) = SubSeq(list, 1, 0) \o SubSeq(list, 2, Len(list))
  BY PositionIn DEF Without, RemoveAt
<1>2. SubSeq(list, 1, 0) \o SubSeq(list, 2, Len(list)) = SubSeq(list, 2, Len(list))
  OBVIOUS
<1> QED
  BY <1>1, <1>2
-----------------------------------------------------------------------------
(* Handles and nodes.                                                         *)

LEMMA Pointers ==
  /\ Closed \notin Connections /\ Null \notin Connections /\ Closed # Null
  /\ Connections \subseteq Int /\ \A k \in Children : ListOf(k) \in Lists /\ KindOf[k] \in Kinds
BY HandleAssumption DEF Closed, Null, Connections, ListOf, Lists, Kinds

LEMMA HandleFacts ==
  ASSUME HandlesTypeOK, NEW d \in Databases
  PROVE  /\ handle[d].sqlite \in Connections \union {Closed, Null}
         /\ handle[d].lists \in [Lists -> Seq(Children)]
         /\ handle[d] = NoHandle <=> handle[d].sqlite = Null
         /\ handle[d] = NoHandle => handle[d].lists = Empty
         /\ \A c \in Connections \union {Closed} : [sqlite |-> c, lists |-> handle[d].lists] \in Handle
<1>1. Empty \in [Lists -> Seq(Children)]
  BY DEF Empty
<1>2. handle[d] \in Handle
  BY DEF HandlesTypeOK
<1> QED
  BY <1>1, <1>2, Pointers DEF Handle, NoHandle

LEMMA NodeFacts ==
  ASSUME HandlesTypeOK, NEW k \in Children
  PROVE  /\ child[k].h \in Databases \union {None} /\ None \notin Databases
         /\ child[k].obj \in Connections \union {Closed, Null}
         /\ child[k].dest \in Connections \union {Closed}
         /\ child[k] = NoNode <=> child[k].obj = Null
         /\ k \in Nodes <=> child[k] # NoNode
         /\ child[k] = NoNode => child[k].h = None
<1>1. child[k] \in Node
  BY DEF HandlesTypeOK
<1> QED
  BY <1>1, Pointers, HandleAssumption DEF Node, NoNode, Nodes

(* An empty list is what a Database has that has no handle.                   *)
LEMMA EmptyLists ==
  \A l \in Lists : /\ Empty[l] \in Seq(Children) /\ IsInjective(Empty[l])
                   /\ \A k : k \notin ToSet(Empty[l])
BY DEF Empty, IsInjective, ToSet

(* A child of a Database is in the list for its class.                        *)
LEMMA ChildHasHandle ==
  ASSUME HandlesTypeOK, Exact, NEW k \in Children, child[k].h # None
  PROVE  /\ child[k].h \in Databases /\ handle[child[k].h] # NoHandle
         /\ k \in ToSet(handle[child[k].h].lists[ListOf(k)])
<1>1. child[k].h \in Databases
  BY NodeFacts
<1>2. k \in ToSet(handle[child[k].h].lists[ListOf(k)])
  BY <1>1, Pointers DEF Exact
<1> QED
  BY <1>1, <1>2, HandleFacts, EmptyLists, Pointers

(* Nothing but a backup works on a closed connection.                         *)
LEMMA NoneAstray ==
  ASSUME HandlesTypeOK, NEW ks, NEW conns,
         \A x \in ks \intersect Nodes : KindOf[x] # "backup" =>
           child[x].obj \in conns \union {Closed} /\ child[x].dest = Closed
  PROVE  Astray(ks, conns) \subseteq {"backup"}
BY DEF Astray

LEMMA ClosingKeeps ==
  ASSUME NEW c, NEW nodes, NEW conns
  PROVE  /\ Sqlite3Close(c, nodes, conns) \subseteq conns
         /\ \A e \in conns : e # c => e \in Sqlite3Close(c, nodes, conns)
         /\ \A x \in DOMAIN nodes : nodes[x].obj \in conns =>
              nodes[x].obj \in Sqlite3Close(c, nodes, conns)
         /\ c \in Sqlite3Close(c, nodes, conns) => \E x \in DOMAIN nodes : nodes[x].obj = c
BY DEF Sqlite3Close, OpenOn

LEMMA FreshIsNew ==
  ASSUME NEW n \in {0, 1, 2}, NEW cs \in Fresh(n)
  PROVE  /\ cs \subseteq Connections /\ cs \intersect open = {}
         /\ n # 0 => Max(cs) \in cs
<1>1. cs \subseteq Connections /\ cs \intersect open = {} /\ Cardinality(cs) = n
  BY DEF Fresh, Free
<1>2. IsFiniteSet(cs)
  <2>1. MaxConnections \in Int /\ 1 \in Int
    BY HandleAssumption
  <2>2. IsFiniteSet(Connections)
    BY <2>1, FS_Interval, Zenon DEF Connections
  <2> QED
    BY <1>1, <2>2, FS_Subset
<1>3. n # 0 => \E c \in cs : \A e \in cs : c >= e
  <2>1. CASE n = 1
    <3>1. PICK c : cs = {c}
      BY <1>1, <1>2, <2>1, FS_Singleton
    <3> QED
      BY <1>1, <3>1, Pointers
  <2>2. CASE n = 2
    <3>1. PICK c \in cs : TRUE
      BY <1>1, <1>2, <2>2, FS_EmptySet
    <3>2. IsFiniteSet(cs \ {c}) /\ Cardinality(cs \ {c}) = 1
      BY <1>1, <1>2, <2>2, <3>1, FS_RemoveElement
    <3>3. PICK e : cs \ {c} = {e}
      BY <3>2, FS_Singleton
    <3>4. cs = {c, e} /\ c \in Int /\ e \in Int
      BY <1>1, <3>1, <3>3, Pointers
    <3> QED
      BY <3>4
  <2> QED
    BY <2>1, <2>2
<1> QED
  BY <1>1, <1>3 DEF Max
-----------------------------------------------------------------------------
(* Every step keeps the invariant.                                            *)

Unraced == HandlesInv /\ Sound

(* What Database.open makes of its handle.                                    *)
LEMMA OpenEffect ==
  ASSUME HandlesTypeOK, NEW d \in Databases, OpenDatabase(d)
  PROVE  \E cs \in SUBSET (Connections \ open) :
           /\ \/ open' = open \union cs
              \/ /\ handle[d].sqlite \in Connections
                 /\ open' = Sqlite3Close(handle[d].sqlite, child, open) \union cs
           /\ \/ \E c \in cs \union {Closed} :
                   handle' = [handle EXCEPT ![d] = [sqlite |-> c, lists |-> handle[d].lists]]
              \/ handle' = handle /\ handle[d] = NoHandle
<1> DEFINE known == handle[d] # NoHandle
           left == IF known /\ handle[d].sqlite # Closed
                   THEN Sqlite3Close(handle[d].sqlite, child, open) ELSE open
<1>1. /\ handle[d].sqlite \in Connections \union {Closed, Null}
      /\ known <=> handle[d].sqlite # Null
      /\ ~known => handle[d].lists = Empty
  BY HandleFacts
<1>2. left = open \/ (handle[d].sqlite \in Connections
                      /\ left = Sqlite3Close(handle[d].sqlite, child, open))
  BY <1>1
<1>3. CASE \E n \in {1, 2} : \E cs \in Fresh(n) :
             /\ open' = left \union cs
             /\ handle' = [handle EXCEPT ![d] =
                   [sqlite |-> Max(cs), lists |-> IF known THEN @.lists ELSE Empty]]
  <2>5. PICK n \in {1, 2} : \E cs \in Fresh(n) :
             /\ open' = left \union cs
             /\ handle' = [handle EXCEPT ![d] =
                   [sqlite |-> Max(cs), lists |-> IF known THEN @.lists ELSE Empty]]
    BY <1>3
  <2>1. PICK cs \in Fresh(n) :
             /\ open' = left \union cs
             /\ handle' = [handle EXCEPT ![d] =
                   [sqlite |-> Max(cs), lists |-> IF known THEN @.lists ELSE Empty]]
    BY <2>5
  <2>2. cs \in SUBSET (Connections \ open) /\ Max(cs) \in cs
    BY FreshIsNew
  <2>3. handle' = [handle EXCEPT ![d] = [sqlite |-> Max(cs), lists |-> handle[d].lists]]
    BY <1>1, <2>1
  <2> QED
    BY <1>2, <2>1, <2>2, <2>3
<1>4. CASE \E n \in {0, 1} : \E cs \in Fresh(n) :
             /\ open' = left \union cs
             /\ handle' = [handle EXCEPT ![d] =
                   IF known THEN [@ EXCEPT !.sqlite = Closed] ELSE @]
  <2>5. PICK n \in {0, 1} : \E cs \in Fresh(n) :
             /\ open' = left \union cs
             /\ handle' = [handle EXCEPT ![d] = IF known THEN [@ EXCEPT !.sqlite = Closed] ELSE @]
    BY <1>4
  <2>1. PICK cs \in Fresh(n) :
             /\ open' = left \union cs
             /\ handle' = [handle EXCEPT ![d] = IF known THEN [@ EXCEPT !.sqlite = Closed] ELSE @]
    BY <2>5
  <2>2. cs \in SUBSET (Connections \ open)
    BY FreshIsNew
  <2>3. CASE known
    <3>1. [handle[d] EXCEPT !.sqlite = Closed] = [sqlite |-> Closed, lists |-> handle[d].lists]
      BY <2>3 DEF HandlesTypeOK, Handle
    <3> QED
      BY <1>2, <2>1, <2>2, <2>3, <3>1
  <2>4. CASE ~known
    BY <1>2, <2>1, <2>2, <2>4 DEF HandlesTypeOK
  <2> QED
    BY <2>3, <2>4
<1> QED
  BY <1>3, <1>4 DEF OpenDatabase

LEMMA OpenDatabaseKeeps ==
  ASSUME Unraced, NEW d \in Databases, OpenDatabase(d)
  PROVE  HandlesInv'
<1>1. HandlesTypeOK /\ Exact /\ Connected /\ Finalizing
      /\ UNCHANGED <<java, child, using, unlinking, closing, faults>>
  BY DEF Unraced, HandlesInv, OpenDatabase, finalizer
<1>2. PICK cs \in SUBSET (Connections \ open) :
           /\ \/ open' = open \union cs
              \/ /\ handle[d].sqlite \in Connections
                 /\ open' = Sqlite3Close(handle[d].sqlite, child, open) \union cs
           /\ \/ \E c \in cs \union {Closed} :
                   handle' = [handle EXCEPT ![d] = [sqlite |-> c, lists |-> handle[d].lists]]
              \/ handle' = handle /\ handle[d] = NoHandle
  BY <1>1, OpenEffect
<1>3. /\ open' \subseteq open \union cs /\ cs \subseteq open' /\ open \subseteq Connections
      /\ \A e \in open : e # handle[d].sqlite => e \in open'
      /\ \A k \in Children : child[k].obj \in open => child[k].obj \in open'
  BY <1>1, <1>2, ClosingKeeps DEF HandlesTypeOK
<1>4. PICK c : /\ c = handle'[d].sqlite /\ c \in cs \union {Closed, Null}
               /\ handle' \in [Databases -> Handle]
               /\ \A e \in Databases \ {d} : handle'[e].sqlite = handle[e].sqlite
               /\ \A e \in Databases : handle'[e].lists = handle[e].lists
  <2>1. CASE handle' = handle /\ handle[d] = NoHandle
    BY <1>1, <2>1, HandleFacts DEF HandlesTypeOK
  <2>2. ASSUME NEW c \in cs \union {Closed},
               handle' = [handle EXCEPT ![d] = [sqlite |-> c, lists |-> handle[d].lists]]
        PROVE  /\ c = handle'[d].sqlite
               /\ handle' \in [Databases -> Handle]
               /\ \A e \in Databases \ {d} : handle'[e].sqlite = handle[e].sqlite
               /\ \A e \in Databases : handle'[e].lists = handle[e].lists
    <3>1. [sqlite |-> c, lists |-> handle[d].lists] \in Handle
      BY <1>1, <1>2, HandleFacts
    <3> QED
      BY <1>1, <2>2, <3>1 DEF HandlesTypeOK
  <2> QED
    BY <1>2, <2>1, <2>2
<1>5. HandlesTypeOK'
  BY <1>1, <1>2, <1>3, <1>4 DEF HandlesTypeOK
<1>6. Exact'
  BY <1>1, <1>4 DEF Exact
<1>7. Connected'
  <2>1. \A e \in Databases : e # d => /\ handle'[e].sqlite \in open' \union {Closed, Null}
                                      /\ handle'[e].sqlite \in open' => handle[e].sqlite \in open
    BY <1>1, <1>3, <1>4, Pointers DEF Connected
  <2>2. c \notin open /\ (c \in cs \/ c \notin open')
    BY <1>2, <1>3, <1>4, Pointers
  <2>3. \A e \in Databases : handle'[e].sqlite \in open' \union {Closed, Null}
    BY <1>3, <1>4, <2>1
  <2>4. \A e, f \in Databases : handle'[e].sqlite = handle'[f].sqlite /\ handle'[e].sqlite \in open' => e = f
    BY <1>1, <1>4, <2>1, <2>2 DEF Connected
  <2>5. \A k \in Children : child'[k].obj \in open' \union {Closed, Null}
    BY <1>1, <1>3 DEF Connected
  <2>6. \A k \in Children : child'[k].obj \in open' => child[k].obj \in open
    BY <1>1, <1>3, Pointers DEF Connected
  <2>7. \A k \in Children, e \in Databases :
          KindOf[k] \in {"stmt", "vm"} /\ child'[k].obj = handle'[e].sqlite /\ child'[k].obj \in open' =>
            child'[k].h = e
    BY <1>1, <1>4, <2>2, <2>6 DEF Connected
  <2> QED
    BY <1>1, <2>3, <2>4, <2>5, <2>7 DEF Connected
<1> QED
  BY <1>1, <1>5, <1>6, <1>7 DEF HandlesInv, Finalizing, Unraced, ConnectionOutlivesItsChildren
(* doclose forgets the children of the Database, all of them and no others,   *)
(* and keeps the connections that something else has open.                    *)
Own(d) == {k \in Children : child[k].h = d}

LEMMA CloseEffect ==
  ASSUME Unraced, NEW d \in Databases, DoClose(d)
  PROVE  /\ handle' = [handle EXCEPT ![d] = NoHandle]
         /\ child' = Forget(child, Own(d))
         /\ open' \subseteq open
         /\ \A c \in open : c # handle[d].sqlite => c \in open'
         /\ \A k \in Children : KindOf[k] \notin {"stmt", "vm"} \/ child[k].h # d =>
              (child[k].obj \in open => child[k].obj \in open')
         /\ handle[d].sqlite \in open' =>
              \E k \in Children : /\ KindOf[k] \notin {"stmt", "vm"} \/ child[k].h # d
                                 /\ child[k].obj = handle[d].sqlite
         /\ faults' \subseteq faults \union {"backup", "twice"}
<1>1. HandlesTypeOK /\ Exact /\ Connected /\ Finalizing
  BY DEF Unraced, HandlesInv
<1>2. \A l \in Lists : Listed(d, l) = {k \in Own(d) : ListOf(k) = l}
  <2> SUFFICES ASSUME NEW l \in Lists PROVE Listed(d, l) = {k \in Own(d) : ListOf(k) = l}
    OBVIOUS
  <2>1. handle[d].lists[l] \in Seq(Children)
    BY <1>1, HandleFacts
  <2>2. Listed(d, l) \subseteq Children
    BY <2>1 DEF Listed, ToSet
  <2> QED
    BY <1>1, <2>2 DEF Exact, Listed, Own
<1>3. Lists = {"vms", "blobs", "backups"} /\ \A k \in Children :
        /\ ListOf(k) \in Lists
        /\ ListOf(k) = "vms" <=> KindOf[k] \in {"stmt", "vm"}
  BY Pointers DEF Lists, Kinds, ListOf
<1>4. Own(d) = Listed(d, "vms") \union (Listed(d, "blobs") \union Listed(d, "backups"))
  BY <1>2, <1>3 DEF Own
<1>5. child' = Forget(child, Own(d)) /\ handle' = [handle EXCEPT ![d] = NoHandle]
  BY <1>4 DEF DoClose
<1>6. /\ DOMAIN BeforeClosing(d) = Children
      /\ \A k \in Children : BeforeClosing(d)[k].obj =
           IF k \in Listed(d, "vms") THEN Closed ELSE child[k].obj
  BY <1>1 DEF BeforeClosing, Forget, HandlesTypeOK, Node, NoNode
<1>7. /\ open' \subseteq open /\ open \subseteq Connections
      /\ \A c \in open : c # handle[d].sqlite => c \in open'
      /\ \A k \in Children \ Listed(d, "vms") : child[k].obj \in open => child[k].obj \in open'
      /\ handle[d].sqlite \in open' =>
           \E k \in Children \ Listed(d, "vms") : child[k].obj = handle[d].sqlite
  <2>1. CASE handle[d].sqlite = Closed
    BY <1>1, <2>1, Pointers DEF DoClose, HandlesTypeOK
  <2>2. CASE handle[d].sqlite # Closed
    <3>1. open' = Sqlite3Close(handle[d].sqlite, BeforeClosing(d), open) /\ open \subseteq Connections
      BY <1>1, <2>2 DEF DoClose, HandlesTypeOK
    <3> HIDE DEF HandlesInv
    <3>2. /\ open' \subseteq open
          /\ \A c \in open : c # handle[d].sqlite => c \in open'
          /\ \A k \in Children : BeforeClosing(d)[k].obj \in open => BeforeClosing(d)[k].obj \in open'
          /\ handle[d].sqlite \in open' =>
               \E k \in Children : BeforeClosing(d)[k].obj = handle[d].sqlite
      BY <1>6, <3>1, ClosingKeeps
    <3> QED
      BY <1>6, <2>2, <3>1, <3>2
  <2> QED
    BY <2>1, <2>2
<1>8. \A k \in Children : k \in Listed(d, "vms") <=> (k \in Own(d) /\ KindOf[k] \in {"stmt", "vm"})
  BY <1>2, <1>3
<1>9. Astray(Listed(d, "vms"), open) \subseteq {"backup"}
  <2>1. \A k \in Children : k \in Nodes => child[k].obj \in open \union {Closed}
    BY <1>1, NodeFacts DEF Connected
  <2>2. \A x \in Listed(d, "vms") \intersect Nodes : KindOf[x] # "backup" =>
          child[x].obj \in open \union {Closed} /\ child[x].dest = Closed
    BY <1>1, <2>1 DEF Connected, Nodes
  <2> QED
    BY <1>1, <2>2, NoneAstray
<1>10. Astray(Listed(d, "blobs") \union Listed(d, "backups"), open') \subseteq {"backup"}
  <2>1. \A k \in Children \ Listed(d, "vms") : k \in Nodes => child[k].obj \in open' \union {Closed}
    BY <1>1, <1>7, NodeFacts DEF Connected
  <2>2. \A x \in (Listed(d, "blobs") \union Listed(d, "backups")) \intersect Nodes :
          x \in Children \ Listed(d, "vms")
    BY <1>2, <1>3 DEF Nodes
  <2>3. \A x \in (Listed(d, "blobs") \union Listed(d, "backups")) \intersect Nodes :
          KindOf[x] # "backup" => child[x].obj \in open' \union {Closed} /\ child[x].dest = Closed
    BY <1>1, <2>1, <2>2 DEF Connected
  <2> QED
    BY <1>1, <2>3, NoneAstray
<1>11. faults' \subseteq faults \union {"backup", "twice"}
  BY <1>9, <1>10 DEF DoClose
<1>12. \A k \in Children : k \notin Listed(d, "vms") <=> (KindOf[k] \notin {"stmt", "vm"} \/ child[k].h # d)
  BY <1>8 DEF Own
<1> QED
  BY <1>5, <1>7, <1>11, <1>12
LEMMA DoCloseKeeps ==
  ASSUME Unraced, NEW d \in Databases, CloseDatabase(d)
  PROVE  HandlesInv'
<1>1. /\ HandlesTypeOK /\ Exact /\ Connected /\ Finalizing
      /\ DoClose(d) /\ using = Idle /\ UNCHANGED <<java, using, closing>>
  BY DEF Unraced, HandlesInv, CloseDatabase, Holds
<1>2. /\ handle' = [handle EXCEPT ![d] = NoHandle]
      /\ child' = Forget(child, Own(d))
      /\ open' \subseteq open
      /\ \A c \in open : c # handle[d].sqlite => c \in open'
      /\ \A k \in Children : KindOf[k] \notin {"stmt", "vm"} \/ child[k].h # d =>
           (child[k].obj \in open => child[k].obj \in open')
      /\ faults' \subseteq faults \union {"backup", "twice"}
  BY <1>1, CloseEffect
<1>3. \A k \in Children :
        /\ child[k].h = d => child'[k] = [child[k] EXCEPT !.h = None, !.obj = Closed]
        /\ child[k].h # d => child'[k] = child[k]
  BY <1>2 DEF Forget, Own
<1>4. \A k \in Children : child[k].h = d =>
        child'[k].h = None /\ child'[k].obj = Closed /\ child'[k].dest = child[k].dest /\ child'[k] \in Node
  <2> SUFFICES ASSUME NEW k \in Children, child[k].h = d
               PROVE  child'[k].h = None /\ child'[k].obj = Closed /\ child'[k].dest = child[k].dest
                      /\ child'[k] \in Node
    OBVIOUS
  <2>1. child[k] # NoNode /\ child[k] \in Node
    BY <1>1, NodeFacts DEF HandlesTypeOK
  <2> QED
    BY <1>3, <2>1 DEF Node
<1>5. \A k \in Children : java'[k] = java[k]
  BY <1>1
<1>6. \/ unlinking' = unlinking /\ (unlinking = Nobody \/ child[unlinking.k].h # d)
      \/ /\ unlinking # Nobody /\ unlinking' = [unlinking EXCEPT !.freed = TRUE]
  BY <1>1 DEF DoClose
<1>7. HandlesTypeOK'
  <2>1. java' \in [Objects -> {"unborn", "held", "garbage", "dead"}]
    BY <1>1 DEF HandlesTypeOK
  <2>2. handle' \in [Databases -> Handle]
    BY <1>1, <1>2 DEF HandlesTypeOK, Handle
  <2>3. child' \in [Children -> Node]
    BY <1>1, <1>2, <1>3, <1>4 DEF HandlesTypeOK, Forget
  <2>4. open' \subseteq Connections /\ faults' \subseteq Kinds \union {"twice", "raced"}
    BY <1>1, <1>2 DEF HandlesTypeOK, Kinds
  <2>5. unlinking' \in [k : Children \union {None}, after : Children \union {None}, freed : BOOLEAN]
    BY <1>1, <1>6 DEF HandlesTypeOK
  <2> QED
    BY <1>1, <2>1, <2>2, <2>3, <2>4, <2>5 DEF HandlesTypeOK
<1>8. Exact'
  <2> SUFFICES ASSUME NEW e \in Databases, NEW l \in Lists
               PROVE  /\ IsInjective(handle'[e].lists[l])
                      /\ \A k \in Children : k \in ToSet(handle'[e].lists[l]) <=>
                           (child'[k].h = e /\ ListOf(k) = l)
    BY DEF Exact
  <2>1. \A k \in Children : child'[k].h = e <=> (child[k].h = e /\ e # d)
    BY <1>1, <1>3, <1>4, NodeFacts
  <2>2. CASE e = d
    <3>1. handle'[e].lists[l] = Empty[l]
      BY <1>1, <1>2, <2>2 DEF HandlesTypeOK, NoHandle
    <3> QED
      BY <2>1, <2>2, <3>1, EmptyLists
  <2>3. CASE e # d
    <3>1. handle'[e] = handle[e]
      BY <1>1, <1>2, <2>3 DEF HandlesTypeOK
    <3> QED
      BY <1>1, <2>1, <2>3, <3>1 DEF Exact
  <2> QED
    BY <2>2, <2>3
<1>9. Connected'
  <2>1. handle'[d].sqlite = Null /\ \A e \in Databases \ {d} : handle'[e] = handle[e]
    BY <1>1, <1>2 DEF HandlesTypeOK, NoHandle
  <2>2. Null \notin open' /\ Closed \notin open' /\ open' \subseteq open
    BY <1>1, <1>2, Pointers DEF HandlesTypeOK
  <2>3. \A e \in Databases : handle'[e].sqlite \in open' \union {Closed, Null}
    BY <1>1, <1>2, <2>1 DEF Connected
  <2>4. \A e, f \in Databases : handle'[e].sqlite = handle'[f].sqlite /\ handle'[e].sqlite \in open' => e = f
    BY <1>1, <2>1, <2>2 DEF Connected
  <2>5. \A k \in Children : child'[k].obj \in open' \union {Closed, Null}
    BY <1>1, <1>2, <1>3, <1>4 DEF Connected
  <2>6. \A k \in Children : KindOf[k] # "backup" => child'[k].dest = Closed
    BY <1>1, <1>3, <1>4 DEF Connected
  <2>7. \A k \in Children, e \in Databases :
          KindOf[k] \in {"stmt", "vm"} /\ child'[k].obj = handle'[e].sqlite /\ child'[k].obj \in open' =>
            child'[k].h = e
    <3> SUFFICES ASSUME NEW k \in Children, NEW e \in Databases, KindOf[k] \in {"stmt", "vm"},
                        child'[k].obj = handle'[e].sqlite, child'[k].obj \in open'
                 PROVE  child'[k].h = e
      OBVIOUS
    <3>1. child'[k] = child[k]
      BY <1>3, <1>4, <2>2
    <3>2. handle'[e] = handle[e] /\ child[k].obj \in open
      BY <2>1, <2>2, <3>1
    <3> QED
      BY <1>1, <3>1, <3>2 DEF Connected
  <2> QED
    BY <2>3, <2>4, <2>5, <2>6, <2>7 DEF Connected
<1>10. Finalizing'
  <2>1. ASSUME NEW k \in Children, java'[k] = "unborn" PROVE child'[k] = NoNode
    <3>1. child[k] = NoNode /\ child[k].h # d
      BY <1>1, <1>5, <2>1, NodeFacts DEF Finalizing
    <3> QED
      BY <1>3, <3>1
  <2>2. ASSUME unlinking' # Nobody
        PROVE  /\ unlinking'.k \in Children /\ java'[unlinking'.k] = "garbage"
               /\ unlinking'.after # unlinking'.k
               /\ unlinking'.freed \/ child'[unlinking'.k].h # None
    <3>1. unlinking # Nobody
      BY <1>6, <2>2
    <3>2. unlinking'.k = unlinking.k /\ unlinking'.after = unlinking.after
      BY <1>1, <1>6 DEF HandlesTypeOK
    <3>3. unlinking'.freed \/ (unlinking' = unlinking /\ child[unlinking.k].h # d)
      BY <1>1, <1>6, <3>1 DEF HandlesTypeOK
    <3> QED
      BY <1>1, <1>3, <1>5, <3>1, <3>2, <3>3 DEF Finalizing
  <2>3. using'.k = None
    BY <1>1 DEF Idle
  <2>4. closing'.d # None => unlinking' = Nobody /\ java'[closing'.d] = "garbage"
    BY <1>1, <1>6 DEF Finalizing
  <2>5. closing'.v # None => closing'.d # None
    BY <1>1 DEF Finalizing
  <2> QED
    BY <2>1, <2>2, <2>3, <2>4, <2>5 DEF Finalizing
<1>11. ConnectionOutlivesItsChildren'
  BY <1>2 DEF Unraced, HandlesInv, ConnectionOutlivesItsChildren
<1> QED
  BY <1>7, <1>8, <1>9, <1>10, <1>11 DEF HandlesInv
LEMMA CreateKeeps ==
  ASSUME Unraced, NEW d \in Databases, NEW k \in Children, NEW dest \in Connections \union {Closed},
         Create(d, k, dest), KindOf[k] # "backup" => dest = Closed
  PROVE  HandlesInv'
<1>1. HandlesTypeOK /\ Exact /\ Connected /\ Finalizing
      /\ using = Idle /\ UNCHANGED <<open, using, unlinking, closing, faults>>
  BY DEF Unraced, HandlesInv, Create, Holds, finalizer
<1> DEFINE list == handle[d].lists[ListOf(k)]
<1>2. /\ java[k] = "unborn" /\ handle[d] # NoHandle /\ handle[d].sqlite # Closed
      /\ java' = [java EXCEPT ![k] = "held"]
      /\ child' = [child EXCEPT ![k] = [h |-> d, obj |-> handle[d].sqlite, dest |-> dest]]
      /\ handle' = [handle EXCEPT ![d].lists[ListOf(k)] = <<k>> \o list]
  BY DEF Create
<1>3. /\ handle[d].sqlite \in Connections /\ handle[d].sqlite \in open
      /\ child[k] = NoNode /\ child[k].h = None /\ child[k].obj = Null
  BY <1>1, <1>2, HandleFacts, NodeFacts DEF Connected, Finalizing
<1>4. /\ ListOf(k) \in Lists /\ list \in Seq(Children) /\ IsInjective(list)
      /\ \A x \in Children : x \in ToSet(list) <=> (child[x].h = d /\ ListOf(x) = ListOf(k))
  BY <1>1, Pointers, HandleFacts DEF Exact
<1>5. /\ <<k>> \o list \in Seq(Children) /\ IsInjective(<<k>> \o list)
      /\ \A x : x \in ToSet(<<k>> \o list) <=> (x \in ToSet(list) \/ x = k)
  <2>1. k \notin ToSet(list)
    BY <1>1, <1>3, <1>4, NodeFacts
  <2> HIDE DEF list
  <2> QED
    BY <1>4, <2>1, PutFirst
<1>6. /\ child'[k].h = d /\ child'[k].obj = handle[d].sqlite /\ child'[k].dest = dest
      /\ child'[k] # NoNode /\ child'[k] \in Node
      /\ \A x \in Children \ {k} : child'[x] = child[x]
  BY <1>1, <1>2, <1>3, Pointers DEF HandlesTypeOK, Node, NoNode
<1>7. /\ \A e \in Databases \ {d} : handle'[e] = handle[e]
      /\ handle'[d].sqlite = handle[d].sqlite
      /\ handle'[d].lists[ListOf(k)] = <<k>> \o list
      /\ \A l \in Lists \ {ListOf(k)} : handle'[d].lists[l] = handle[d].lists[l]
      /\ handle'[d] \in Handle
  <2>1. handle[d] \in [sqlite : Connections \union {Closed}, lists : [Lists -> Seq(Children)]]
    BY <1>1, <1>2 DEF HandlesTypeOK, Handle
  <2>2. handle \in [Databases -> Handle]
    BY <1>1 DEF HandlesTypeOK
  <2>3. handle'[d] = [handle[d] EXCEPT !.lists = [@ EXCEPT ![ListOf(k)] = <<k>> \o list]]
    BY <1>2, <2>2
  <2> HIDE DEF list
  <2> QED
    BY <1>2, <1>4, <1>5, <2>1, <2>2, <2>3 DEF Handle
<1>8. HandlesTypeOK'
  <2>1. handle' \in [Databases -> Handle]
    BY <1>1, <1>2, <1>7 DEF HandlesTypeOK
  <2>2. child' \in [Children -> Node]
    BY <1>1, <1>2, <1>6 DEF HandlesTypeOK
  <2>3. java' \in [Objects -> {"unborn", "held", "garbage", "dead"}]
    BY <1>1, <1>2 DEF HandlesTypeOK
  <2> QED
    BY <1>1, <2>1, <2>2, <2>3 DEF HandlesTypeOK
<1>9. Exact'
  <2> SUFFICES ASSUME NEW e \in Databases, NEW l \in Lists
               PROVE  /\ IsInjective(handle'[e].lists[l])
                      /\ \A x \in Children : x \in ToSet(handle'[e].lists[l]) <=>
                           (child'[x].h = e /\ ListOf(x) = l)
    BY DEF Exact
  <2>1. CASE e = d /\ l = ListOf(k)
    <3> HIDE DEF list
    <3> QED
      BY <1>4, <1>5, <1>6, <1>7, <2>1
  <2>2. CASE ~(e = d /\ l = ListOf(k))
    <3>1. handle'[e].lists[l] = handle[e].lists[l]
      BY <1>7, <2>2
    <3>2. \A x \in Children : (child'[x].h = e /\ ListOf(x) = l) <=> (child[x].h = e /\ ListOf(x) = l)
      BY <1>1, <1>3, <1>6, <2>2, NodeFacts
    <3> QED
      BY <1>1, <3>1, <3>2 DEF Exact
  <2> QED
    BY <2>1, <2>2
<1>10. Connected'
  <2>1. \A e \in Databases : handle'[e].sqlite = handle[e].sqlite
    BY <1>7
  <2>2. \A x \in Children : /\ child'[x].obj \in open \union {Closed, Null}
                            /\ KindOf[x] # "backup" => child'[x].dest = Closed
    BY <1>1, <1>3, <1>6 DEF Connected
  <2>3. \A x \in Children, e \in Databases :
          KindOf[x] \in {"stmt", "vm"} /\ child'[x].obj = handle[e].sqlite /\ child'[x].obj \in open =>
            child'[x].h = e
    BY <1>1, <1>3, <1>6 DEF Connected
  <2> QED
    BY <1>1, <2>1, <2>2, <2>3 DEF Connected
<1>11. Finalizing'
  <2>1. \A x \in Children \ {k} : java'[x] = java[x] /\ child'[x] = child[x]
    BY <1>1, <1>2, <1>6 DEF HandlesTypeOK, Objects
  <2>2. java'[k] = "held"
    BY <1>1, <1>2 DEF HandlesTypeOK, Objects
  <2>3. \A e \in Databases : java'[e] = java[e]
    BY <1>1, <1>2, HandleAssumption DEF HandlesTypeOK, Objects
  <2>4. using'.k = None
    BY <1>1 DEF Idle
  <2> QED
    BY <1>1, <1>2, <2>1, <2>2, <2>3, <2>4 DEF Finalizing
<1> QED
  BY <1>1, <1>8, <1>9, <1>10, <1>11 DEF HandlesInv, Unraced, ConnectionOutlivesItsChildren
(* A child leaves its list.                                                   *)
LEMMA LeavesList ==
  ASSUME Unraced, NEW k \in Children, Unlink(k), child'[k].h = None,
         \A x \in Children \ {k} : child'[x] = child[x]
  PROVE  /\ handle' \in [Databases -> Handle] /\ Exact'
         /\ \A e \in Databases : handle'[e].sqlite = handle[e].sqlite
<1>1. HandlesTypeOK /\ Exact
  BY DEF Unraced, HandlesInv
<1>3. /\ handle' \in [Databases -> Handle]
      /\ \A e \in Databases : handle'[e].sqlite = handle[e].sqlite
      /\ \A e \in Databases, l \in Lists :
           \/ handle'[e].lists[l] = handle[e].lists[l] /\ k \notin ToSet(handle[e].lists[l])
           \/ /\ k \in ToSet(handle[e].lists[l])
              /\ handle'[e].lists[l] = Without(handle[e].lists[l], k)
  <2>1. CASE child[k].h = None
    <3>1. handle' = handle
      BY <2>1 DEF Unlink
    <3>2. \A e \in Databases, l \in Lists : k \notin ToSet(handle[e].lists[l])
      BY <1>1, <2>1, NodeFacts DEF Exact
    <3> QED
      BY <1>1, <3>1, <3>2 DEF HandlesTypeOK
  <2>2. CASE child[k].h # None
    <3> DEFINE d == child[k].h  list == handle[d].lists[ListOf(k)]
    <3>1. /\ d \in Databases /\ handle[d] # NoHandle /\ k \in ToSet(list)
          /\ ListOf(k) \in Lists /\ list \in Seq(Children) /\ IsInjective(list)
      BY <1>1, <2>2, ChildHasHandle, HandleFacts, Pointers DEF Exact
    <3>2. handle' = [handle EXCEPT ![d].lists[ListOf(k)] = Without(list, k)]
      BY <2>2 DEF Unlink
    <3>3. \A e \in Databases, l \in Lists : k \in ToSet(handle[e].lists[l]) <=> (e = d /\ l = ListOf(k))
      BY <1>1 DEF Exact
    <3>4. Without(list, k) \in Seq(Children)
      <4> HIDE DEF list
      <4> QED
        BY <3>1, TakenOut
    <3>5. handle[d] \in [sqlite : Connections \union {Closed}, lists : [Lists -> Seq(Children)]]
      BY <1>1, <3>1 DEF HandlesTypeOK, Handle
    <3>6. handle \in [Databases -> Handle]
      BY <1>1 DEF HandlesTypeOK
    <3>7. handle'[d] = [handle[d] EXCEPT !.lists = [@ EXCEPT ![ListOf(k)] = Without(list, k)]]
      BY <3>1, <3>2, <3>6
    <3>8. \A e \in Databases \ {d} : handle'[e] = handle[e]
      BY <3>2, <3>6
    <3>9. /\ handle'[d].sqlite = handle[d].sqlite
          /\ handle'[d].lists[ListOf(k)] = Without(list, k)
          /\ \A l \in Lists \ {ListOf(k)} : handle'[d].lists[l] = handle[d].lists[l]
          /\ handle'[d] \in Handle
      <4> HIDE DEF d, list
      <4>1. handle[d].lists \in [Lists -> Seq(Children)] /\ handle[d].sqlite \in Connections \union {Closed}
        BY <3>5
      <4>2. handle'[d] = [sqlite |-> handle[d].sqlite,
                          lists |-> [handle[d].lists EXCEPT ![ListOf(k)] = Without(list, k)]]
        BY <3>5, <3>7
      <4>3. [handle[d].lists EXCEPT ![ListOf(k)] = Without(list, k)] \in [Lists -> Seq(Children)]
        BY <3>1, <3>4, <4>1
      <4>4. handle'[d] \in Handle
        BY <4>1, <4>2, <4>3 DEF Handle
      <4> QED
        BY <3>1, <4>1, <4>2, <4>4
    <3>10. handle' \in [Databases -> Handle]
      BY <3>1, <3>2, <3>6, <3>8, <3>9
    <3>11. \A e \in Databases : handle'[e].sqlite = handle[e].sqlite
      BY <3>8, <3>9
    <3>12. \A e \in Databases, l \in Lists :
           \/ handle'[e].lists[l] = handle[e].lists[l] /\ k \notin ToSet(handle[e].lists[l])
           \/ /\ k \in ToSet(handle[e].lists[l])
              /\ handle'[e].lists[l] = Without(handle[e].lists[l], k)
      BY <3>3, <3>8, <3>9
    <3> QED
      BY <3>10, <3>11, <3>12
  <2> QED
    BY <2>1, <2>2
<1>4. Exact'
  <2> SUFFICES ASSUME NEW e \in Databases, NEW l \in Lists
               PROVE  /\ IsInjective(handle'[e].lists[l])
                      /\ \A x \in Children : x \in ToSet(handle'[e].lists[l]) <=>
                           (child'[x].h = e /\ ListOf(x) = l)
    BY DEF Exact
  <2>1. /\ IsInjective(handle'[e].lists[l])
        /\ \A x : x \in ToSet(handle'[e].lists[l]) <=> (x \in ToSet(handle[e].lists[l]) /\ x # k)
    <3>1. handle[e].lists[l] \in Seq(Children) /\ IsInjective(handle[e].lists[l])
      BY <1>1, HandleFacts DEF Exact
    <3> QED
      BY <1>3, <3>1, TakenOut
  <2>2. \A x \in Children : (child'[x].h = e) <=> (child[x].h = e /\ x # k)
    BY <1>1, NodeFacts
  <2> QED
    BY <1>1, <2>1, <2>2 DEF Exact
<1> QED
  BY <1>3, <1>4

(* It does when it is freed.                                                  *)
LEMMA UnlinkKeeps ==
  ASSUME Unraced, NEW k \in Children, Unlink(k), child' = [child EXCEPT ![k] = NoNode],
         UNCHANGED open
  PROVE  /\ handle' \in [Databases -> Handle] /\ child' \in [Children -> Node]
         /\ Exact' /\ Connected'
<1>1. HandlesTypeOK /\ Exact /\ Connected
  BY DEF Unraced, HandlesInv
<1>2. /\ child'[k] = NoNode /\ child'[k].h = None /\ child'[k].obj = Null /\ child'[k].dest = Closed
      /\ \A x \in Children \ {k} : child'[x] = child[x]
      /\ child' \in [Children -> Node]
  BY <1>1 DEF HandlesTypeOK, Node, NoNode
<1>3. /\ handle' \in [Databases -> Handle] /\ Exact'
      /\ \A e \in Databases : handle'[e].sqlite = handle[e].sqlite
  BY <1>2, LeavesList
<1>4. Connected'
  <2>1. \A x \in Children : /\ child'[x].obj \in open \union {Closed, Null}
                            /\ KindOf[x] # "backup" => child'[x].dest = Closed
    BY <1>1, <1>2 DEF Connected
  <2>2. Null \notin open
    BY <1>1, Pointers DEF HandlesTypeOK
  <2>3. \A x \in Children, e \in Databases :
          KindOf[x] \in {"stmt", "vm"} /\ child'[x].obj = handle[e].sqlite /\ child'[x].obj \in open =>
            child'[x].h = e
    BY <1>1, <1>2, <2>2 DEF Connected
  <2> QED
    BY <1>1, <1>3, <2>1, <2>3 DEF Connected
<1> QED
  BY <1>2, <1>3, <1>4

(* Nobody works on a closed connection, unless it is a backup on its          *)
(* destination.                                                               *)
LEMMA UseIsSafe ==
  ASSUME Unraced, NEW k \in Children
  PROVE  Astray({k}, open) \subseteq {"backup"}
<1>1. HandlesTypeOK /\ Connected
  BY DEF Unraced, HandlesInv
<1>2. \A x \in {k} \intersect Nodes : KindOf[x] # "backup" =>
        child[x].obj \in open \union {Closed} /\ child[x].dest = Closed
  BY <1>1, NodeFacts DEF Connected
<1> QED
  BY <1>1, <1>2, NoneAstray

LEMMA FinishKeeps ==
  ASSUME Unraced, NEW k \in Children, Unlink(k), FreeNode(k), UNCHANGED <<open, finalizer>>,
         \/ using.k = k /\ using' = Idle /\ UNCHANGED java
         \/ Lost(k) /\ java' = [java EXCEPT ![k] = "dead"] /\ UNCHANGED using
  PROVE  HandlesInv'
<1>1. /\ HandlesTypeOK /\ Exact /\ Connected /\ Finalizing
      /\ UNCHANGED <<open, unlinking, closing>>
  BY DEF Unraced, HandlesInv, finalizer
<1>2. child' = [child EXCEPT ![k] = NoNode] /\ faults' \subseteq faults \union {"backup"}
  BY UseIsSafe DEF FreeNode
<1>7. /\ using.k = k => java[k] = "held"
      /\ Idle.k = None /\ None \notin Children
      /\ Idle \in [k : Children \union {None}, h : Databases \union {None},
                   after : Children \union {None}]
  BY <1>1, HandleAssumption DEF Finalizing, Idle
<1>3. /\ handle' \in [Databases -> Handle] /\ child' \in [Children -> Node]
      /\ Exact' /\ Connected'
  BY <1>2, UnlinkKeeps
<1>4. HandlesTypeOK'
  BY <1>1, <1>2, <1>3, <1>7 DEF HandlesTypeOK, Kinds
<1>5. Finalizing'
  <2>1. \A x \in Children \ {k} : child'[x] = child[x] /\ java'[x] = java[x]
    BY <1>1, <1>2 DEF HandlesTypeOK, Objects
  <2>2. child'[k] = NoNode
    BY <1>1, <1>2 DEF HandlesTypeOK
  <2>3. unlinking' # Nobody => unlinking.k # k /\ UNCHANGED java
    BY <1>1, <1>7 DEF Finalizing, Lost
  <2>4. \A e \in Databases : java'[e] = java[e]
    BY <1>1, HandleAssumption DEF HandlesTypeOK, Objects
  <2>5. using'.k = None \/ (using'.k \in Children \ {k} /\ using' = using)
    BY <1>1, <1>7 DEF HandlesTypeOK, Finalizing, Lost
  <2>6. closing.d \in Databases \union {None}
    BY <1>1 DEF HandlesTypeOK
  <2>7. using'.k # None => java'[using'.k] = "held" /\ child'[using'.k] # NoNode
    BY <1>1, <2>1, <2>5 DEF Finalizing
  <2>8. \A x \in Children : java'[x] = "unborn" => child'[x] = NoNode
    BY <1>1, <2>1, <2>2 DEF Finalizing
  <2>9. unlinking' # Nobody =>
          /\ unlinking'.k \in Children /\ java'[unlinking'.k] = "garbage"
          /\ unlinking'.after # unlinking'.k
          /\ unlinking'.freed \/ child'[unlinking'.k].h # None
    BY <1>1, <2>1, <2>3 DEF Finalizing
  <2> QED
    BY <1>1, <2>4, <2>6, <2>7, <2>8, <2>9 DEF Finalizing
<1>6. ConnectionOutlivesItsChildren'
  BY <1>2 DEF Unraced, HandlesInv, ConnectionOutlivesItsChildren
<1> QED
  BY <1>3, <1>4, <1>5, <1>6 DEF HandlesInv
(* A statement that ends, or is compiled anew.                                *)
LEMMA RecompileKeeps ==
  ASSUME Unraced, NEW k \in Children, End(k) \/ Recompile(k)
  PROVE  HandlesInv'
<1>1. /\ HandlesTypeOK /\ Exact /\ Connected /\ Finalizing
      /\ using.k = k /\ using' = Idle
      /\ UNCHANGED <<java, handle, open, unlinking, closing, faults>>
  BY DEF Unraced, HandlesInv, End, Recompile, Held, finalizer
<1>2. child[k] # NoNode /\ child[k] \in Node
  BY <1>1, HandleAssumption DEF Finalizing, HandlesTypeOK
<1>3. PICK c : /\ child' = [child EXCEPT ![k].obj = c]
               /\ c = Closed \/ (child[k].h # None /\ c = handle[child[k].h].sqlite)
  BY DEF End, Recompile
<1>4. c = Closed \/ (child[k].h \in Databases /\ c \in open /\ c \in Connections
                     /\ c = handle[child[k].h].sqlite)
  BY <1>1, <1>3, ChildHasHandle, HandleFacts DEF Connected
<1>5. /\ child'[k].h = child[k].h /\ child'[k].obj = c /\ child'[k].dest = child[k].dest
      /\ child'[k] \in Node /\ \A x \in Children \ {k} : child'[x] = child[x]
      /\ child' \in [Children -> Node]
  BY <1>1, <1>2, <1>3, <1>4 DEF HandlesTypeOK, Node
<1>6. HandlesTypeOK'
  BY <1>1, <1>5 DEF HandlesTypeOK, Idle
<1>7. Exact'
  <2>1. \A x \in Children : child'[x].h = child[x].h
    BY <1>5
  <2> QED
    BY <1>1, <2>1 DEF Exact
<1>8. Connected'
  <2>1. \A x \in Children : /\ child'[x].obj \in open \union {Closed, Null}
                            /\ KindOf[x] # "backup" => child'[x].dest = Closed
    BY <1>1, <1>4, <1>5 DEF Connected
  <2>2. Closed \notin open
    BY <1>1, Pointers DEF HandlesTypeOK
  <2>3. \A x \in Children, e \in Databases :
          KindOf[x] \in {"stmt", "vm"} /\ child'[x].obj = handle[e].sqlite /\ child'[x].obj \in open =>
            child'[x].h = e
    BY <1>1, <1>4, <1>5, <2>2 DEF Connected
  <2> QED
    BY <1>1, <2>1, <2>3 DEF Connected
<1>9. Finalizing'
  BY <1>1, <1>2, <1>5 DEF Finalizing, Idle
<1> QED
  BY <1>1, <1>6, <1>7, <1>8, <1>9 DEF HandlesInv, Unraced, ConnectionOutlivesItsChildren

LEMMA UseKeeps ==
  ASSUME Unraced, NEW k \in Children, Use(k)
  PROVE  HandlesInv'
<1>1. /\ faults' \subseteq faults \union {"backup"} /\ using' = Idle
      /\ UNCHANGED <<java, handle, child, open, unlinking, closing>>
  BY UseIsSafe DEF Use, Held, finalizer
<1> QED
  BY <1>1 DEF Idle, Unraced, HandlesInv, HandlesTypeOK, Kinds, Exact, Connected, Finalizing,
     ConnectionOutlivesItsChildren

LEMMA DropKeeps ==
  ASSUME Unraced, NEW o \in Objects, Drop(o)
  PROVE  HandlesInv'
<1>1. /\ UNCHANGED <<handle, child, open, using, unlinking, closing, faults>> /\ java[o] = "held"
      /\ java' = [java EXCEPT ![o] = "garbage"] /\ using = Idle
  BY DEF Drop, Holds, finalizer
<1>2. HandlesTypeOK' /\ Exact' /\ Connected' /\ ConnectionOutlivesItsChildren'
  BY <1>1 DEF Unraced, HandlesInv, HandlesTypeOK, Exact, Connected, ConnectionOutlivesItsChildren
<1>3. Finalizing'
  BY <1>1 DEF Unraced, HandlesInv, HandlesTypeOK, Finalizing, Objects, Idle
<1> QED
  BY <1>1, <1>2, <1>3 DEF Unraced, HandlesInv

(* Where the pointer to a node is found.                                      *)
LEMMA PlaceBefore ==
  ASSUME Unraced, NEW k \in Children, child[k].h # None
  PROVE  /\ Place(k) \in Children \union {None} /\ Place(k) # k
         /\ Contains(handle[child[k].h].lists[ListOf(k)], k)
<1> DEFINE list == handle[child[k].h].lists[ListOf(k)]
<1>1. /\ k \in ToSet(list) /\ list \in Seq(Children) /\ IsInjective(list)
  BY ChildHasHandle, HandleFacts, Pointers DEF Unraced, HandlesInv, Exact
<1>2. Place(k) = IF Position(list, k) = 1 THEN None ELSE list[Position(list, k) - 1]
  BY DEF Place
<1>3. None # k
  BY HandleAssumption
<1> HIDE DEF list
<1>4. PICK i \in 1 .. Len(list) : i = Position(list, k) /\ list[i] = k /\ Contains(list, k)
  BY <1>1, PositionIn
<1>5. CASE i = 1
  BY <1>2, <1>3, <1>4, <1>5 DEF list
<1>6. CASE i # 1
  <2>1. i - 1 \in DOMAIN list /\ i \in DOMAIN list /\ i - 1 # i
    BY <1>1, <1>6
  <2>2. list[i - 1] \in Children /\ list[i - 1] # list[i]
    BY <1>1, <2>1 DEF IsInjective
  <2>3. Place(k) = list[i - 1]
    BY <1>2, <1>4, <1>6
  <2> QED
    BY <1>4, <2>2, <2>3 DEF list
<1> QED
  BY <1>5, <1>6

LEMMA WalksKeeps ==
  ASSUME Unraced, NEW k \in Children, FinalizeWalks(k)
  PROVE  HandlesInv'
<1>1. /\ UNCHANGED <<java, handle, child, open, using, closing, faults>> 
      /\ java[k] = "garbage" /\ child[k].h # None /\ closing = Resting
      /\ unlinking' = [k |-> k, after |-> Place(k), freed |-> FALSE]
  BY PlaceBefore DEF FinalizeWalks, Lost
<1>2. /\ unlinking'.k = k /\ unlinking'.after = Place(k) /\ Place(k) # k
      /\ unlinking' \in [k : Children \union {None}, after : Children \union {None}, freed : BOOLEAN]
  BY <1>1, PlaceBefore
<1>3. HandlesTypeOK' /\ Exact' /\ Connected' /\ ConnectionOutlivesItsChildren'
  BY <1>1, <1>2 DEF Unraced, HandlesInv, HandlesTypeOK, Exact, Connected, ConnectionOutlivesItsChildren
<1>4. Finalizing'
  BY <1>1, <1>2 DEF Unraced, HandlesInv, Finalizing, Resting
<1> QED
  BY <1>1, <1>3, <1>4 DEF Unraced, HandlesInv
(* A method of a child begins, or is overtaken in the middle of one.          *)
LEMMA EnterKeeps ==
  ASSUME Unraced, NEW k \in Children, Enter(k)
  PROVE  HandlesInv'
<1>1. /\ UNCHANGED <<java, handle, child, open, unlinking, closing, faults>>
      /\ java[k] = "held" /\ child[k] # NoNode
      /\ using' = [k |-> k, h |-> child[k].h,
                   after |-> IF child[k].h = None THEN None ELSE Place(k)]
  BY DEF Enter, Holds, finalizer
<1>2. using' \in [k : Children \union {None}, h : Databases \union {None},
                   after : Children \union {None}]
  <2>1. HandlesTypeOK
    BY DEF Unraced, HandlesInv
  <2> QED
    BY <1>1, <2>1, NodeFacts, PlaceBefore
<1>3. HandlesTypeOK' /\ Exact' /\ Connected' /\ ConnectionOutlivesItsChildren'
  BY <1>1, <1>2 DEF Unraced, Sound, HandlesInv, HandlesTypeOK, Exact, Connected,
     ConnectionOutlivesItsChildren
<1>4. Finalizing'
  BY <1>1 DEF Unraced, Sound, HandlesInv, Finalizing
<1> QED
  BY <1>3, <1>4 DEF HandlesInv

LEMMA OvertakenKeeps ==
  ASSUME Unraced, Overtaken
  PROVE  HandlesInv'
<1>1. /\ UNCHANGED <<java, handle, child, open, unlinking, closing>>
      /\ using' = Idle /\ faults' = faults \union {"raced"}
  BY DEF Overtaken, finalizer
<1>2. HandlesTypeOK' /\ ConnectionOutlivesItsChildren' /\ ~Sound'
  BY <1>1 DEF Unraced, HandlesInv, HandlesTypeOK, ConnectionOutlivesItsChildren, Sound, Idle
<1> QED
  BY <1>2 DEF HandlesInv

(* A Database is finalized child by child: one is met ...                     *)
LEMMA BeginsKeeps ==
  ASSUME Unraced, NEW d \in Databases, FinalizeDatabase(d) \/ CloseMeets(d)
  PROVE  HandlesInv'
<1>1. /\ HandlesTypeOK /\ Finalizing
      /\ UNCHANGED <<handle, child, open, using, unlinking, faults>>
  BY DEF Unraced, HandlesInv, FinalizeDatabase, CloseMeets
<1>2. CASE CloseMeets(d)
  <2>1. PICK l \in Lists : /\ handle[d].lists[l] # <<>>
                           /\ closing' = [closing EXCEPT !.v = Head(handle[d].lists[l]),
                                                        !.obj = child[Head(handle[d].lists[l])].obj]
    BY <1>2 DEF CloseMeets, MeetsNext
  <2>2. handle[d].lists[l] \in Seq(Children)
    BY <1>1, HandleFacts
  <2>3. Head(handle[d].lists[l]) \in Children
    BY <2>1, <2>2
  <2>4. child[Head(handle[d].lists[l])].obj \in Connections \union {Closed, Null}
    BY <1>1, <2>3, NodeFacts
  <2>5. UNCHANGED java /\ closing.d = d /\ d # None
    BY <1>2, HandleAssumption DEF CloseMeets, Closes
  <2>6. HandlesTypeOK'
    BY <1>1, <2>1, <2>3, <2>4, <2>5 DEF HandlesTypeOK
  <2>7. Finalizing'
    BY <1>1, <2>1, <2>5 DEF Finalizing, HandlesTypeOK
  <2> QED
    BY <1>1, <2>6, <2>7 DEF Unraced, HandlesInv, Exact, Connected, ConnectionOutlivesItsChildren, Sound
<1>3. CASE FinalizeDatabase(d)
  <2>1. /\ java[d] = "garbage" /\ closing = Resting /\ unlinking = Nobody
        /\ \/ java' = [java EXCEPT ![d] = "dead"] /\ UNCHANGED closing
           \/ closing' = [Resting EXCEPT !.d = d] /\ UNCHANGED java
    BY <1>3 DEF FinalizeDatabase, Lost
  <2>2. HandlesTypeOK'
    BY <1>1, <2>1 DEF HandlesTypeOK, Resting
  <2>3. \A k \in Children : java'[k] = java[k]
    BY <1>1, <2>1, HandleAssumption DEF HandlesTypeOK, Objects
  <2>4. using.k \in Children \union {None}
    BY <1>1 DEF HandlesTypeOK
  <2>5. Finalizing'
    BY <1>1, <2>1, <2>3, <2>4 DEF Finalizing, Resting
  <2> QED
    BY <1>1, <2>2, <2>5 DEF Unraced, HandlesInv, Exact, Connected, ConnectionOutlivesItsChildren, Sound
<1> QED
  BY <1>2, <1>3

(* ... and taken out of its list ...                                          *)
LEMMA TakesKeeps ==
  ASSUME Unraced, CloseTakes
  PROVE  HandlesInv'
<1> DEFINE k == closing.v
<1>1. /\ HandlesTypeOK /\ Exact /\ Connected /\ Finalizing
      /\ k \in Children /\ closing.d \in Databases
      /\ UNCHANGED <<java, open, using, unlinking>>
      /\ closing' = [closing EXCEPT !.v = None, !.obj = Null]
  BY DEF Unraced, HandlesInv, CloseTakes, Finalizing, HandlesTypeOK
<1>2. closing' \in [d : Databases \union {None}, v : Children \union {None},
                    obj : Connections \union {Closed, Null}]
  BY <1>1 DEF HandlesTypeOK
<1>3. CASE faults' = faults \union {"raced"} /\ UNCHANGED <<handle, child>>
  <2>1. HandlesTypeOK' /\ ConnectionOutlivesItsChildren' /\ ~Sound'
    BY <1>1, <1>2, <1>3 DEF Unraced, HandlesInv, HandlesTypeOK, ConnectionOutlivesItsChildren, Sound
  <2> QED
    BY <2>1 DEF HandlesInv
<1>4. CASE /\ child[k].h = closing.d /\ Unlink(k) /\ child' = Forget(child, {k})
           /\ faults' \subseteq faults \union Astray({k}, open) \union {"twice"}
  <2>1. /\ child[k] # NoNode /\ child[k] \in Node /\ child[k].h \in Databases
        /\ child[k].h # None
    BY <1>1, <1>4, NodeFacts DEF HandlesTypeOK
  <2>2. /\ child'[k].h = None /\ child'[k].obj = Closed /\ child'[k].dest = child[k].dest
        /\ child'[k] \in Node /\ child'[k] # NoNode
        /\ \A x \in Children \ {k} : child'[x] = child[x]
    <3>1. child'[k] = [child[k] EXCEPT !.h = None, !.obj = Closed]
      BY <1>1, <1>4 DEF Forget
    <3> QED
      BY <1>1, <1>4, <2>1, <3>1, Pointers DEF Forget, Node, NoNode
  <2>3. child' \in [Children -> Node]
    BY <1>1, <1>4, <2>2 DEF Forget, HandlesTypeOK
  <2>4. /\ handle' \in [Databases -> Handle] /\ Exact'
        /\ \A e \in Databases : handle'[e].sqlite = handle[e].sqlite
    BY <1>1, <1>4, <2>2, <2>3, LeavesList
  <2>5. faults' \subseteq faults \union {"backup", "twice"}
    BY <1>1, <1>4, UseIsSafe
  <2>6. HandlesTypeOK'
    BY <1>1, <1>2, <2>3, <2>4, <2>5 DEF HandlesTypeOK, Kinds
  <2>7. Connected'
    <3>1. \A x \in Children : /\ child'[x].obj \in open \union {Closed, Null}
                              /\ KindOf[x] # "backup" => child'[x].dest = Closed
      BY <1>1, <2>2 DEF Connected
    <3>2. Closed \notin open
      BY <1>1, Pointers DEF HandlesTypeOK
    <3>3. \A x \in Children, e \in Databases :
            KindOf[x] \in {"stmt", "vm"} /\ child'[x].obj = handle[e].sqlite /\ child'[x].obj \in open =>
              child'[x].h = e
      BY <1>1, <2>2, <3>2 DEF Connected
    <3> QED
      BY <1>1, <2>4, <3>1, <3>3 DEF Connected
  <2>8. Finalizing'
    <3>1. closing.d # None /\ closing.d = closing'.d /\ closing'.v = None
      BY <1>1, HandleAssumption DEF HandlesTypeOK
    <3> QED
      BY <1>1, <2>1, <2>2, <3>1 DEF Finalizing, HandlesTypeOK
  <2> QED
    BY <2>5, <2>6, <2>4, <2>7, <2>8 DEF HandlesInv, Unraced, ConnectionOutlivesItsChildren
<1> QED
  BY <1>3, <1>4 DEF CloseTakes

(* ... the connection is closed, once no statement is left ...                *)
LEMMA ConnectionEffect ==
  ASSUME HandlesTypeOK, Exact, Connected, NEW d \in Databases, CloseConnection(d)
  PROVE  /\ handle[d].sqlite \in Connections
         /\ \A k \in Children : child[k].h = d => KindOf[k] \notin {"stmt", "vm"}
         /\ open' \subseteq open
         /\ \A c \in open : c # handle[d].sqlite => c \in open'
         /\ \A k \in Children : child[k].obj \in open => child[k].obj \in open'
         /\ handle[d].sqlite \in open' => \E k \in Children : child[k].obj = handle[d].sqlite
<1>1. /\ handle[d].lists["vms"] = <<>> /\ handle[d].sqlite \in Connections
      /\ open' = Sqlite3Close(handle[d].sqlite, child, open) /\ DOMAIN child = Children
  BY DEF CloseConnection, HandlesTypeOK
<1>2. \A k \in Children : child[k].h = d => ListOf(k) # "vms"
  <2>1. "vms" \in Lists /\ \A k \in Children : k \notin ToSet(<<>>)
    BY DEF Lists, ToSet
  <2> QED
    BY <1>1, <2>1 DEF Exact
<1>3. \A k \in Children : child[k].h = d => KindOf[k] \notin {"stmt", "vm"}
  BY <1>2 DEF ListOf
<1> QED
  BY <1>1, <1>3, ClosingKeeps

LEMMA ConnectionKeeps ==
  ASSUME Unraced, NEW d \in Databases, CloseConnection(d)
  PROVE  HandlesInv'
<1>1. /\ HandlesTypeOK /\ Exact /\ Connected /\ Finalizing
      /\ UNCHANGED <<java, child, using, unlinking, closing, faults>>
      /\ handle' = [handle EXCEPT ![d].sqlite = Closed]
  BY DEF Unraced, HandlesInv, CloseConnection, finalizer
<1>2. /\ handle[d].sqlite \in Connections
      /\ open' \subseteq open
      /\ \A c \in open : c # handle[d].sqlite => c \in open'
      /\ \A k \in Children : child[k].obj \in open => child[k].obj \in open'
  BY <1>1, ConnectionEffect
<1>3. /\ handle' \in [Databases -> Handle] /\ handle'[d].sqlite = Closed
      /\ \A e \in Databases : handle'[e].lists = handle[e].lists
      /\ \A e \in Databases \ {d} : handle'[e].sqlite = handle[e].sqlite
  <2>1. handle[d] \in [sqlite : Connections \union {Closed}, lists : [Lists -> Seq(Children)]]
    BY <1>1, <1>2, Pointers DEF HandlesTypeOK, Handle, NoHandle
  <2> QED
    BY <1>1, <2>1 DEF HandlesTypeOK, Handle
<1>4. HandlesTypeOK'
  BY <1>1, <1>2, <1>3 DEF HandlesTypeOK
<1>5. Exact'
  BY <1>1, <1>3 DEF Exact
<1>6. Connected'
  <2>1. Closed \notin open /\ Null \notin open
    BY <1>1, Pointers DEF HandlesTypeOK
  <2>2. \A e \in Databases : handle'[e].sqlite \in open' \union {Closed, Null}
    BY <1>1, <1>2, <1>3 DEF Connected
  <2>3. \A e \in Databases : handle'[e].sqlite \in open' => e # d /\ handle[e].sqlite = handle'[e].sqlite
    BY <1>2, <1>3, <2>1
  <2> QED
    BY <1>1, <1>2, <2>2, <2>3 DEF Connected
<1> QED
  BY <1>1, <1>4, <1>5, <1>6 DEF HandlesInv, Finalizing, Unraced, ConnectionOutlivesItsChildren

(* ... and at last the handle is freed.                                       *)
LEMMA EndsKeeps ==
  ASSUME Unraced, NEW d \in Databases, CloseEnds(d)
  PROVE  HandlesInv'
<1>1. /\ HandlesTypeOK /\ Exact /\ Connected /\ Finalizing
      /\ UNCHANGED <<child, open, using, unlinking, faults>>
      /\ java' = [java EXCEPT ![d] = "dead"] /\ closing' = Resting
      /\ handle[d] = [sqlite |-> Closed, lists |-> Empty]
      /\ handle' = [handle EXCEPT ![d] = NoHandle]
  BY DEF Unraced, HandlesInv, CloseEnds
<1>2. /\ handle' \in [Databases -> Handle] /\ handle'[d].sqlite = Null
      /\ \A e \in Databases : handle'[e].lists = handle[e].lists
      /\ \A e \in Databases \ {d} : handle'[e] = handle[e]
  BY <1>1 DEF HandlesTypeOK, Handle, NoHandle
<1>3. HandlesTypeOK'
  BY <1>1, <1>2 DEF HandlesTypeOK, Resting
<1>4. Exact'
  BY <1>1, <1>2 DEF Exact
<1>5. Connected'
  <2>1. Null \notin open
    BY <1>1, Pointers DEF HandlesTypeOK
  <2> QED
    BY <1>1, <1>2, <2>1 DEF Connected
<1>6. Finalizing'
  <2>1. \A k \in Children : java'[k] = java[k]
    BY <1>1, HandleAssumption DEF HandlesTypeOK, Objects
  <2>2. using.k \in Children \union {None} /\ unlinking.k \in Children \union {None}
    BY <1>1 DEF HandlesTypeOK
  <2> QED
    BY <1>1, <2>1, <2>2 DEF Finalizing, Resting
<1> QED
  BY <1>1, <1>3, <1>4, <1>5, <1>6 DEF HandlesInv, Unraced, ConnectionOutlivesItsChildren

(* What it writes is typed, and takes the node out of its list if the pointer *)
(* is still the one that points there.                                        *)
LEMMA WritesKeeps ==
  ASSUME Unraced, FinalizeWrites
  PROVE  HandlesInv'
<1> DEFINE k == unlinking.k
           d == child[k].h
           list == handle[d].lists[ListOf(k)]
           gone == \/ unlinking.freed
                   \/ unlinking.after # None /\ child[unlinking.after] = NoNode
           writes == ~gone /\ unlinking.after # k
           cut == IF unlinking.after = None THEN SubSeq(list, Position(list, k) + 1, Len(list))
                  ELSE Without(list, k)
<1>1. /\ HandlesTypeOK /\ Exact /\ Connected /\ Finalizing
      /\ k \in Children /\ unlinking.after # k /\ (unlinking.freed \/ d # None)
  BY DEF Unraced, HandlesInv, FinalizeWrites, Finalizing
<1>2. /\ java' = [java EXCEPT ![k] = "dead"]
      /\ handle' = IF ~writes THEN handle ELSE [handle EXCEPT ![d].lists[ListOf(k)] = cut]
      /\ child' = [child EXCEPT ![k] = NoNode]
      /\ faults' = faults \union Astray({k}, open)
                   \union IF gone \/ (writes /\ unlinking.after # Place(k)) THEN {"raced"} ELSE {}
      /\ unlinking' = Nobody
      /\ UNCHANGED <<open, using, closing>>
  BY DEF FinalizeWrites
<1>3. Astray({k}, open) \subseteq {"backup"}
  BY <1>1, UseIsSafe
<1>4. ~gone => /\ d \in Databases /\ handle[d] # NoHandle /\ k \in ToSet(list)
               /\ ListOf(k) \in Lists /\ list \in Seq(Children) /\ IsInjective(list)
  BY <1>1, ChildHasHandle, HandleFacts, Pointers DEF Exact
<1>5. ~gone => cut \in Seq(Children)
  <2> SUFFICES ASSUME ~gone PROVE cut \in Seq(Children)
    OBVIOUS
  <2>1. list \in Seq(Children) /\ IsInjective(list) /\ k \in ToSet(list)
    BY <1>4
  <2> HIDE DEF gone, list
  <2>2. Position(list, k) \in 1 .. Len(list)
    BY <2>1, PositionIn
  <2>3. SubSeq(list, Position(list, k) + 1, Len(list)) \in Seq(Children)
    BY <2>1, <2>2
  <2>4. Without(list, k) \in Seq(Children)
    BY <2>1, TakenOut
  <2> QED
    BY <2>3, <2>4
<1>6. handle' \in [Databases -> Handle]
  <2>1. CASE writes
    <3> HIDE DEF cut
    <3>1. handle' = [handle EXCEPT ![d].lists[ListOf(k)] = cut]
      BY <1>2, <2>1
    <3>2. /\ handle[d] \in [sqlite : Connections \union {Closed}, lists : [Lists -> Seq(Children)]]
          /\ d \in Databases /\ cut \in Seq(Children) /\ ListOf(k) \in Lists
      BY <1>1, <1>4, <1>5, <2>1 DEF HandlesTypeOK, Handle
    <3> HIDE DEF d, k, list, gone, writes
    <3>3. [handle[d] EXCEPT !.lists = [@ EXCEPT ![ListOf(k)] = cut]] \in Handle
      BY <3>2 DEF Handle
    <3>4. handle' = [handle EXCEPT ![d] = [handle[d] EXCEPT !.lists = [@ EXCEPT ![ListOf(k)] = cut]]]
      BY <3>1
    <3> QED
      BY <1>1, <3>3, <3>4 DEF HandlesTypeOK
  <2>2. CASE ~writes
    BY <1>1, <1>2, <2>2 DEF HandlesTypeOK
  <2> QED
    BY <2>1, <2>2
<1>7. HandlesTypeOK'
  <2>1. NoNode \in Node /\ Nobody \in [k : Children \union {None}, after : Children \union {None}, freed : BOOLEAN]
    BY DEF Node, Nobody
  <2>2. faults' \subseteq faults \union {"backup", "raced"}
    BY <1>2, <1>3
  <2> HIDE DEF k, d, list, gone, writes, cut
  <2> QED
    BY <1>1, <1>2, <1>6, <2>1, <2>2 DEF HandlesTypeOK, Kinds
<1>8. ConnectionOutlivesItsChildren'
  <2>1. faults' \subseteq faults \union {"backup", "raced"}
    BY <1>2, <1>3
  <2> QED
    BY <2>1 DEF Unraced, HandlesInv, ConnectionOutlivesItsChildren
<1>9. CASE ~Sound'
  BY <1>7, <1>8, <1>9 DEF HandlesInv
<1>10. CASE Sound'
  <2>1. ~gone /\ unlinking.after = Place(k)
    BY <1>1, <1>2, <1>10 DEF Sound
  <2>2. cut = Without(list, k)
    <3>1. CASE unlinking.after = None
      <4>1. Place(k) = IF Position(list, k) = 1 THEN None ELSE list[Position(list, k) - 1]
        BY DEF Place
      <4>2. list \in Seq(Children) /\ k \in ToSet(list)
        BY <1>4, <2>1
      <4> HIDE DEF list
      <4>3. Position(list, k) \in 1 .. Len(list)
        BY <4>2, PositionIn
      <4>4. ASSUME Position(list, k) # 1 PROVE list[Position(list, k) - 1] # None
        <5>1. Position(list, k) - 1 \in 1 .. Len(list)
          BY <4>2, <4>3, <4>4
        <5>2. list[Position(list, k) - 1] \in Children
          BY <4>2, <5>1
        <5> QED
          BY <5>2, HandleAssumption
      <4>5. Position(list, k) = 1
        BY <2>1, <3>1, <4>1, <4>4
      <4> QED
        BY <3>1, <4>2, <4>5, CutOff
    <3> QED
      BY <3>1
  <2>3. Unlink(k)
    BY <1>1, <1>2, <2>1, <2>2 DEF Unlink
  <2>4. Exact' /\ Connected'
    BY <1>1, <1>2, <2>3, UnlinkKeeps
  <2>5. Finalizing'
    <3>1. java[k] = "garbage" /\ java'[k] = "dead" /\ child'[k] = NoNode
      BY <1>1, <1>2 DEF Finalizing, HandlesTypeOK, Objects, FinalizeWrites
    <3>2. \A x \in Objects \ {k} : java'[x] = java[x]
      BY <1>1, <1>2 DEF HandlesTypeOK
    <3>3. \A x \in Children \ {k} : child'[x] = child[x]
      BY <1>1, <1>2 DEF HandlesTypeOK
    <3>4. using.k \in Children \union {None} /\ closing.d \in Databases \union {None} /\ k \notin Databases
      BY <1>1, HandleAssumption DEF HandlesTypeOK
    <3> HIDE DEF k, d, list, gone, writes, cut
    <3> QED
      BY <1>1, <1>2, <3>1, <3>2, <3>3, <3>4 DEF Finalizing, Objects
  <2> QED
    BY <1>7, <1>8, <1>10, <2>4, <2>5 DEF HandlesInv
<1> QED
  BY <1>9, <1>10

(* After a race no step is taken.                                             *)
LEMMA NextIsSound ==
  ASSUME HandlesNext
  PROVE  Sound
BY DEF HandlesNext, OpenDatabase, CloseDatabase, FinalizeDatabase, CloseMeets, CloseConnection,
   CloseEnds, Closes, CloseTakes, Compile, Backup, Create, Enter, Overtaken, Use, End, Recompile,
   Finish, Held, FinalizeChild, FinalizeWalks, FinalizeWrites, Drop, Holds, Lost

LEMMA HandlesInvStays == HandlesInv /\ [HandlesNext]_handleVars => HandlesInv'
<1>1. CASE UNCHANGED handleVars
  BY <1>1 DEF handleVars, finalizer, HandlesInv, HandlesTypeOK, ConnectionOutlivesItsChildren, Exact,
     Connected, Finalizing, Nodes, Sound
<1>3. ASSUME HandlesInv, HandlesNext PROVE HandlesInv'
  <2>1. Unraced
    BY <1>3, NextIsSound DEF Unraced
  <2>2. ASSUME NEW d \in Databases, OpenDatabase(d) PROVE HandlesInv'
    BY <2>1, <2>2, OpenDatabaseKeeps
  <2>3. ASSUME NEW d \in Databases, CloseDatabase(d) PROVE HandlesInv'
    BY <2>1, <2>3, DoCloseKeeps
  <2>4. ASSUME NEW d \in Databases,
               FinalizeDatabase(d) \/ CloseMeets(d) \/ CloseConnection(d) \/ CloseEnds(d)
        PROVE  HandlesInv'
    BY <2>1, <2>4, BeginsKeeps, ConnectionKeeps, EndsKeeps
  <2>5. ASSUME NEW d \in Databases, NEW k \in Children, Compile(d, k) PROVE HandlesInv'
    BY <2>1, <2>5, CreateKeeps DEF Compile
  <2>6. ASSUME NEW d \in Databases, NEW to \in Databases, NEW k \in Children, Backup(d, to, k)
        PROVE  HandlesInv'
    <3>1. handle[to].sqlite \in Connections
      BY <2>1, <2>6, HandleFacts DEF Unraced, HandlesInv, Backup
    <3> QED
      BY <2>1, <2>6, <3>1, CreateKeeps DEF Backup
  <2>7. ASSUME NEW k \in Children, Enter(k) \/ Use(k) \/ End(k) \/ Recompile(k) PROVE HandlesInv'
    BY <2>1, <2>7, EnterKeeps, UseKeeps, RecompileKeeps
  <2>8. ASSUME NEW k \in Children, Finish(k) PROVE HandlesInv'
    BY <2>1, <2>8, FinishKeeps DEF Finish, Held
  <2>9. ASSUME NEW k \in Children, FinalizeChild(k) PROVE HandlesInv'
    BY <2>1, <2>9, FinishKeeps DEF FinalizeChild, Unlink
  <2>10. ASSUME NEW k \in Children, FinalizeWalks(k) PROVE HandlesInv'
    BY <2>1, <2>10, WalksKeeps
  <2>11. CASE CloseTakes \/ FinalizeWrites \/ Overtaken
    BY <2>1, <2>11, TakesKeeps, WritesKeeps, OvertakenKeeps
  <2>12. ASSUME NEW o \in Objects, Drop(o) PROVE HandlesInv'
    BY <2>1, <2>12, DropKeeps
  <2> QED
    BY <1>3, <2>2, <2>3, <2>4, <2>5, <2>6, <2>7, <2>8, <2>9, <2>10, <2>11, <2>12 DEF HandlesNext
<1> QED
  BY <1>1, <1>3

LEMMA HandlesInvariant == HandlesSpec => []HandlesInv
<1>1. HandlesInit => HandlesInv
  <2> SUFFICES ASSUME HandlesInit PROVE HandlesInv
    OBVIOUS
  <2>1. HandlesTypeOK
    BY DEF HandlesInit, HandlesTypeOK, Handle, Node, NoHandle, NoNode, Nobody, Idle, Resting, Objects
  <2>2. Exact
    <3>1. \A d \in Databases, l \in Lists : handle[d].lists[l] = Empty[l]
      BY DEF HandlesInit, NoHandle
    <3>2. \A k \in Children : child[k].h \notin Databases
      BY HandleAssumption DEF HandlesInit, NoNode
    <3> QED
      BY <3>1, <3>2, EmptyLists DEF Exact
  <2>3. Connected
    BY DEF HandlesInit, Connected, NoHandle, NoNode
  <2>4. Finalizing /\ ConnectionOutlivesItsChildren
    BY DEF HandlesInit, Finalizing, ConnectionOutlivesItsChildren, Idle, Resting
  <2> QED
    BY <2>1, <2>2, <2>3, <2>4 DEF HandlesInv
<1> QED
  BY <1>1, HandlesInvStays, PTL DEF HandlesSpec

(* The lists of a handle hold exactly the children that point back to it, so  *)
(* that neither doclose nor the children's final methods leave a pointer to   *)
(* what has been freed, for any number of objects ended in any order.         *)
THEOREM HandlesListsAreExact == HandlesSpec => []ListsAreExact
<1>1. HandlesInv => ListsAreExact
  <2> SUFFICES ASSUME HandlesInv, Sound PROVE ListsAreExact
    BY DEF ListsAreExact
  <2>1. HandlesTypeOK /\ Exact
    BY DEF HandlesInv
  <2>2. ASSUME NEW d \in Databases, NEW l \in Lists
        PROVE  /\ IsInjective(handle[d].lists[l])
               /\ ToSet(handle[d].lists[l]) = {k \in Nodes : child[k].h = d /\ ListOf(k) = l}
    <3>1. ToSet(handle[d].lists[l]) \subseteq Children
      <4>1. handle[d].lists[l] \in Seq(Children)
        BY <2>1, HandleFacts
      <4> QED
        BY <4>1 DEF ToSet
    <3>2. \A k \in Children : child[k].h = d => k \in Nodes
      BY <2>1, NodeFacts
    <3> QED
      BY <2>1, <3>1, <3>2 DEF Exact, Nodes
  <2>3. \A k \in Nodes : child[k].h # None => handle[child[k].h] # NoHandle
    BY <2>1, ChildHasHandle DEF Nodes
  <2> QED
    BY <2>2, <2>3 DEF ListsAreExact
<1> QED
  BY <1>1, HandlesInvariant, PTL

(* No statement and no blob works on a connection that has been closed, for   *)
(* any number of objects, and between any two steps of a finalization, unless *)
(* one of the two threads overtakes the other in the middle of a method.      *)
THEOREM HandlesConnectionOutlives == HandlesSpec => []ConnectionOutlivesItsChildren
<1>1. HandlesInv => ConnectionOutlivesItsChildren
  BY DEF HandlesInv
<1> QED
  BY <1>1, HandlesInvariant, PTL
(* Only doclose takes a Database's handle or its connection away.             *)
LEMMA OnlyCloseForgets ==
  ASSUME HandlesInv, HandlesNext, NEW d \in Databases, handle[d] # NoHandle,
         handle'[d] = NoHandle \/ (closing.d = d /\ handle'[d].sqlite = Closed),
         handle[d].sqlite \in open'
  PROVE  DoClose(d) \/ CloseConnection(d)
<1>1. /\ HandlesTypeOK /\ Exact /\ Connected /\ Finalizing
      /\ handle \in [Databases -> Handle] /\ handle[d].sqlite \in Connections \union {Closed}
  BY NextIsSound, HandleFacts DEF HandlesInv, HandlesTypeOK
<1>2. handle[d].sqlite \in Connections
  <2>1. open' \subseteq Connections
    BY HandlesInvStays DEF HandlesInv, HandlesTypeOK
  <2> QED
    BY <2>1
<1>3. handle'[d].sqlite # handle[d].sqlite
  BY <1>2, Pointers DEF NoHandle
<1>4. ASSUME NEW e, NEW l, NEW list,
             handle' = [handle EXCEPT ![e].lists[l] = list] \/ handle' = handle
      PROVE  FALSE
  <2>1. handle[d] \in [sqlite : Connections \union {Closed}, lists : [Lists -> Seq(Children)]]
    BY <1>1 DEF Handle
  <2>2. CASE handle' = [handle EXCEPT ![e].lists[l] = list]
    <3>1. handle' = [handle EXCEPT ![e] = [handle[e] EXCEPT !.lists = [@ EXCEPT ![l] = list]]]
      BY <2>2
    <3>2. handle'[d] = handle[d] \/ handle'[d] = [handle[d] EXCEPT !.lists = [@ EXCEPT ![l] = list]]
      BY <1>1, <3>1
    <3> QED
      BY <1>3, <2>1, <3>2
  <2> QED
    BY <1>3, <1>4, <2>2
<1>5. ASSUME NEW e \in Databases, OpenDatabase(e) PROVE FALSE
  <2>1. PICK cs \in SUBSET (Connections \ open) :
           \/ \E c \in cs \union {Closed} :
                handle' = [handle EXCEPT ![e] = [sqlite |-> c, lists |-> handle[e].lists]]
           \/ handle' = handle /\ handle[e] = NoHandle
    BY <1>1, <1>5, OpenEffect
  <2>2. e = d
    BY <1>1, <1>3, <2>1
  <2>3. handle'[d] # NoHandle
    BY <1>1, <2>1, <2>2, Pointers DEF NoHandle
  <2>4. java[d] = "held" /\ d # None
    BY <1>5, <2>2, HandleAssumption DEF OpenDatabase, Holds
  <2> QED
    BY <1>1, <2>3, <2>4 DEF Finalizing
<1>6. ASSUME NEW e \in Databases, DoClose(e) \/ CloseConnection(e) PROVE e = d
  BY <1>1, <1>3, <1>6 DEF DoClose, CloseConnection
<1>7. ASSUME NEW e \in Databases, CloseEnds(e) PROVE FALSE
  <2>1. e = d
    BY <1>1, <1>3, <1>7 DEF CloseEnds
  <2> QED
    BY <1>2, <1>7, <2>1, Pointers DEF CloseEnds
<1>8. ASSUME NEW k, Unlink(k) PROVE FALSE
  BY <1>4, <1>8 DEF Unlink
<1>9. ASSUME NEW e \in Databases, NEW k \in Children, NEW c, Create(e, k, c) PROVE FALSE
  BY <1>4, <1>9 DEF Create
<1>10. CASE CloseTakes \/ Overtaken
  BY <1>4, <1>8, <1>10 DEF CloseTakes, Overtaken
<1>11. CASE FinalizeWrites
  BY <1>4, <1>11 DEF FinalizeWrites
<1>12. ASSUME NEW k \in Children,
              Enter(k) \/ Use(k) \/ End(k) \/ Recompile(k) \/ FinalizeChild(k) \/ FinalizeWalks(k)
       PROVE  FALSE
  BY <1>4, <1>12 DEF Enter, Use, End, Recompile, FinalizeChild, FinalizeWalks
<1>13. ASSUME NEW k \in Children, Finish(k) PROVE FALSE
  BY <1>8, <1>13 DEF Finish
<1>14. ASSUME NEW e \in Databases, FinalizeDatabase(e) \/ CloseMeets(e) PROVE FALSE
  BY <1>4, <1>14 DEF FinalizeDatabase, CloseMeets
<1>15. ASSUME NEW o \in Objects, Drop(o) PROVE FALSE
  BY <1>4, <1>15 DEF Drop
<1> QED
  BY <1>5, <1>6, <1>7, <1>9, <1>10, <1>11, <1>12, <1>13, <1>14, <1>15
     DEF HandlesNext, CloseDatabase, Compile, Backup

(* When a Database is closed its statements never keep SQLite from closing    *)
(* the connection, for any number of Databases and children.                  *)
THEOREM HandlesCloseCloses == HandlesSpec => CloseClosesTheConnection
<1>1. HandlesInv /\ [HandlesNext]_handleVars =>
       [\A d \in Databases :
          /\ handle[d] # NoHandle
          /\ handle'[d] = NoHandle \/ (closing.d = d /\ handle'[d].sqlite = Closed)
          /\ handle[d].sqlite \in open'
          => \E k \in Nodes : child[k].obj = handle[d].sqlite /\ KindOf[k] \in {"blob", "backup"}]_handleVars
  <2> SUFFICES ASSUME HandlesInv, HandlesNext, NEW d \in Databases,
                      handle[d] # NoHandle,
                      handle'[d] = NoHandle \/ (closing.d = d /\ handle'[d].sqlite = Closed),
                      handle[d].sqlite \in open'
               PROVE  \E k \in Nodes : /\ child[k].obj = handle[d].sqlite
                                       /\ KindOf[k] \in {"blob", "backup"}
    OBVIOUS
  <2>1. /\ DoClose(d) \/ CloseConnection(d)
        /\ Unraced /\ HandlesTypeOK /\ Exact /\ Connected
    BY OnlyCloseForgets, NextIsSound DEF HandlesInv, Unraced
  <2>2. PICK k \in Children : /\ KindOf[k] \notin {"stmt", "vm"} \/ child[k].h # d
                              /\ child[k].obj = handle[d].sqlite
    BY <2>1, CloseEffect, ConnectionEffect
  <2>3. handle[d].sqlite \in open
    BY <2>1, CloseEffect, ConnectionEffect
  <2>4. KindOf[k] \in {"blob", "backup"}
    BY <2>1, <2>2, <2>3, Pointers DEF Connected, Kinds
  <2>5. k \in Nodes
    BY <2>1, <2>2, <2>3, NodeFacts, Pointers DEF HandlesTypeOK
  <2> QED
    BY <2>2, <2>4, <2>5
<1> QED
  BY <1>1, HandlesInvariant, PTL DEF HandlesSpec, CloseClosesTheConnection
=============================================================================
