------------------------------ MODULE ZeroCost ------------------------------
(***************************************************************************)
(* What zdash promises about its cost: the process is asleep, caching      *)
(* nothing and running no fetch of its own accord, unless it is awake for  *)
(* a client; a client is only ever served awake; the process never goes    *)
(* to sleep or goes away underneath a client.                              *)
(***************************************************************************)
EXTENDS Integers

CONSTANTS Clients, Endpoints

VARIABLES
    mode,      \* "asleep", "awake" or "gone"
    clients,   \* the clients being served
    cached,    \* the endpoints whose response is held in memory
    fetches    \* how many fetches have been started

vars == <<mode, clients, cached, fetches>>

TypeOK ==
    /\ mode \in {"asleep", "awake", "gone"}
    /\ clients \subseteq Clients
    /\ cached \subseteq Endpoints
    /\ fetches \in Nat

Init == mode = "asleep" /\ clients = {} /\ cached = {} /\ fetches = 0

(* The first client wakes the process up. *)
Arrive(c) ==
    /\ mode # "gone"
    /\ mode' = "awake"
    /\ clients' = clients \cup {c}
    /\ UNCHANGED <<cached, fetches>>

Leave(c) ==
    /\ mode = "awake"
    /\ clients' = clients \ {c}
    /\ UNCHANGED <<mode, cached, fetches>>

Fetch ==
    /\ mode = "awake"
    /\ fetches' = fetches + 1
    /\ UNCHANGED <<mode, clients, cached>>

Cache(k) ==
    /\ mode = "awake"
    /\ cached' = cached \cup {k}
    /\ UNCHANGED <<mode, clients, fetches>>

Sleep ==
    /\ mode = "awake"
    /\ clients = {}
    /\ mode' = "asleep"
    /\ cached' = {}
    /\ UNCHANGED <<clients, fetches>>

Exit ==
    /\ mode = "asleep"
    /\ clients = {}
    /\ mode' = "gone"
    /\ UNCHANGED <<clients, cached, fetches>>

Next ==
    \/ \E c \in Clients : Arrive(c) \/ Leave(c)
    \/ \E k \in Endpoints : Cache(k)
    \/ Fetch \/ Sleep \/ Exit

Spec == Init /\ [][Next]_vars
=============================================================================
