-------------------------------- MODULE MCPager --------------------------------
(* Two connections, of one process or of two.                                 *)
EXTENDS Pager, TLC

CONSTANTS c1, c2, p1, p2

Apart == c1 :> p1 @@ c2 :> p2
Together == c1 :> p1 @@ c2 :> p1

From(size, processes, txsLeft, faultsLeft) ==
  [size |-> size, processOf |-> processes, txs |-> MaxTx - txsLeft, faults |-> MaxFault - faultsLeft]

(* Two processes: one transaction and two faults, or two and one.             *)
Starts == {From(1, Apart, 1, 2), From(1, Apart, 2, 1), From(0, Apart, 2, 1),
           From(1, Together, 2, 0)}

(* One process, with one fault.                                               *)
OneProcess == {From(1, Together, 2, 1)}

(* A new file, and two faults.                                                *)
NewFile == {From(0, Together, 2, 2)}

(* The connections may be exchanged, together with their processes.           *)
Same == [x \in {c1, c2, p1, p2} |-> x]
Exchange == {Same, c1 :> c2 @@ c2 :> c1 @@ p1 :> p2 @@ p2 :> p1}
=============================================================================
