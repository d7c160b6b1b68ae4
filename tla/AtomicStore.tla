------------------------------ MODULE AtomicStore ------------------------------
(* What the comments of sqlite3.c promise of a database file: a transaction   *)
(* is atomic, also across the death of a process and the loss of power, and   *)
(* everyone reads the image that the last commit left. A commit that has only *)
(* just happened may be undone, as a whole, by a loss of power: the deletion  *)
(* of the journal is not synced.                                              *)

CONSTANTS Conn,
          Image      \* the contents that the file can have

VARIABLES image,     \* what a reader sees
          before,    \* what a loss of power may bring back; else image
          reading    \* the connections with a transaction

storeVars == <<image, before, reading>>

Init == /\ image \in Image
        /\ before = image
        /\ reading = {}

Begin(c) == /\ c \notin reading
            /\ reading' = reading \cup {c}
            /\ UNCHANGED <<image, before>>

(* A commit while nobody else reads: no transaction sees two images.          *)
Commit(c) == /\ reading = {c}
             /\ UNCHANGED reading
             /\ before' = image
             /\ image' \in Image

Settle == /\ before # image
          /\ before' = image
          /\ UNCHANGED <<image, reading>>

(* Transactions end, those of a dying process all at once.                    *)
End(cs) == /\ cs # {}
           /\ reading' = reading \ cs
           /\ UNCHANGED <<image, before>>

LosePower == /\ reading' = {}
             /\ image' \in {image, before}
             /\ before' = image'

Next == \/ \E c \in Conn : Begin(c) \/ Commit(c)
        \/ \E cs \in SUBSET reading : End(cs)
        \/ Settle
        \/ LosePower

Spec == Init /\ [][Next]_storeVars
=============================================================================
