------------------------------ MODULE MCPoiStore ------------------------------
(* Three managers of one file, two points. *)
EXTENDS PoiStore, TLC

Exchange == Permutations(Managers) \union Permutations(Pois)
=============================================================================
