---------------------------- MODULE MCSmartSweep ----------------------------
(* Small instances of SmartSweep for TLC. *)
EXTENDS SmartSweep
=============================================================================
