-------------------------- MODULE MCRefreshTiming --------------------------
(* RefreshTiming with the zpool endpoint and the SMART endpoint of the code. *)
EXTENDS RefreshTiming

MCttls == [zpool |-> 6, smart |-> 60]
MCbudget == [zpool |-> 5, smart |-> 30]
=============================================================================
