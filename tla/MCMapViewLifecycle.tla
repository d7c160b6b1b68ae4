-------------------------- MODULE MCMapViewLifecycle --------------------------
(* Two map files and two generators. *)
EXTENDS MapViewLifecycle
=============================================================================
