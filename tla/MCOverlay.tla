------------------------------ MODULE MCOverlay ------------------------------
(* One overlay, a few calls on the UI thread and a few moves.                 *)
EXTENDS Overlay
=============================================================================
