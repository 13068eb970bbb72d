---------------------------- MODULE MCActivation ----------------------------
(* Small instances of Activation for TLC. *)
EXTENDS Activation

(* The deployment of systemd-socket.nix. *)
Activated ==
    [socketUnit |-> TRUE, linux |-> TRUE, optIn |-> TRUE, fds |-> 1, pid |-> "mine",
     fd3 |-> "listening"]

(* What keeps a process from adopting or from serving, one reason at a time. *)
Spoiled(d) ==
    {[d EXCEPT !.linux = FALSE], [d EXCEPT !.optIn = FALSE], [d EXCEPT !.fds = 0],
     [d EXCEPT !.fds = Garbage], [d EXCEPT !.pid = "other"], [d EXCEPT !.pid = Garbage],
     [d EXCEPT !.fd3 = "socket"], [d EXCEPT !.fd3 = "other"]}

(* With a .socket unit, and without one but in an environment that was       *)
(* inherited from a process that had one. *)
SmallDeployments ==
    {Activated} \cup Spoiled(Activated) \cup Spoiled([Activated EXCEPT !.socketUnit = FALSE])
=============================================================================
