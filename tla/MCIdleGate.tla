----------------------------- MODULE MCIdleGate -----------------------------
(* Small instances of IdleGate for TLC. Its runs check liveness or look for  *)
(* a short counterexample, so no symmetry is declared. *)
EXTENDS IdleGate
=============================================================================
