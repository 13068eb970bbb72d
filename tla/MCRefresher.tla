---------------------------- MODULE MCRefresher ----------------------------
(* A small instance of Refresher for TLC.  Its run checks liveness, so no    *)
(* symmetry is declared. *)
EXTENDS Refresher
=============================================================================
