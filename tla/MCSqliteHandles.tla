-------------------------- MODULE MCSqliteHandles --------------------------
(* Two databases; two statements, which share a list, a blob and a backup. *)
EXTENDS SqliteHandles, TLC

CONSTANTS d1, d2, s1, v1, b1, u1

Classes ==
  [k \in Children |->
     CASE k = s1 -> "stmt" [] k = v1 -> "vm" [] k = b1 -> "blob" [] k = u1 -> "backup"]

Exchange == Permutations({d1, d2})

(* Of the second statement and the backup a program uses one only: an object
   that is dead from the start is one that is never created.                 *)
MCInit ==
  /\ \E k \in {v1, u1} :
       java = [o \in Objects |-> IF o \in Databases THEN "held"
                                 ELSE IF o = k THEN "dead" ELSE "unborn"]
  /\ handle = [d \in Databases |-> NoHandle]
  /\ child = [k \in Children |-> NoNode]
  /\ open = {}
  /\ using = Idle /\ unlinking = Nobody /\ closing = Resting
  /\ faults = {}

MCSpec == MCInit /\ [][HandlesNext]_handleVars
=============================================================================
