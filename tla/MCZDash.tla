------------------------------ MODULE MCZDash ------------------------------
(* Small instances of ZDash for TLC. *)
EXTENDS ZDash, TLC

(* Connections, timers and loops are interchangeable. *)
Symmetry ==
    Permutations(Conns) \cup Permutations(GraceTimers) \cup Permutations(Loops)
=============================================================================
