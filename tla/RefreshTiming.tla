--------------------------- MODULE RefreshTiming ---------------------------
(***************************************************************************)
(* The refresher of refresher.go against a clock: the lifetimes of the     *)
(* cached responses, the ticker of the background loop, the time the       *)
(* producers take and the polls of any number of dashboard tabs, within    *)
(* one session.  Refresher has the same code without time but with every   *)
(* interleaving and with the ends of sessions.                             *)
(*                                                                         *)
(* Time advances only while nothing of the Go program is due: what it does *)
(* between two waits takes no time on the scale of a second.  A poll that  *)
(* finds a fresh entry is answered at once and changes nothing.            *)
(***************************************************************************)
EXTENDS Integers

CONSTANTS
    Keys,         \* the endpoints
    ttls,         \* the lifetime of each endpoint's entry
    budget,       \* the longest each endpoint's producer takes
    refreshTick,  \* the period of the background loop's ticker
    Slowest       \* the budget of the slowest producer

ASSUME DurationsNat ==
    /\ ttls \in [Keys -> Nat \ {0}]
    /\ budget \in [Keys -> Nat]
    /\ refreshTick \in Nat \ {0}
    /\ Slowest \in Nat
    /\ \A k \in Keys : budget[k] <= Slowest

(* "zpool/arc/sysinfo slightly exceed" the cadence, and smart by far. *)
ASSUME TTLExceedsTick == \A k \in Keys : ttls[k] > refreshTick

VARIABLES
    cached,   \* the keys with an entry
    age,      \* age[k]: time since the entry was stored
    flying,   \* the keys with a fetch in flight
    run,      \* run[k]: how long that fetch has been running
    gap,      \* gap[k]: time since k was last fetched, counted up to its ttl
    polled,   \* the keys a client is waiting for
    wait,     \* wait[k]: how long the first of them has been waiting
    loop,     \* "start", "round" (in refreshAll) or "select"
    waits,    \* the fetches the round waits for
    phase,    \* time since the ticker last ticked
    pending,  \* a tick is in the ticker's channel, which holds one
    warm,     \* history: the first round is over and another has begun
    since     \* history: time since the last round began

vars == <<cached, age, flying, run, gap, polled, wait, loop, waits, phase,
          pending, warm, since>>

Zero == [k \in Keys |-> 0]

TypeOK ==
    /\ cached \subseteq Keys /\ flying \subseteq Keys
    /\ polled \subseteq Keys /\ waits \subseteq Keys
    /\ age \in [Keys -> Nat] /\ run \in [Keys -> Nat]
    /\ gap \in [Keys -> Nat] /\ wait \in [Keys -> Nat]
    /\ loop \in {"start", "round", "select"}
    /\ phase \in Nat /\ since \in Nat
    /\ pending \in BOOLEAN /\ warm \in BOOLEAN

-----------------------------------------------------------------------------
(* Faulty: an entry expires one second early. *)
StaleEarly(k) == k \notin cached \/ age[k] + 1 >= ttls[k]

(* No entry, or one whose lifetime has passed. *)
Stale(k) == k \notin cached \/ age[k] >= ttls[k]

Launch(S) ==
    /\ flying' = flying \cup S
    /\ run' = [k \in Keys |-> IF k \in S THEN 0 ELSE run[k]]
    /\ gap' = [k \in Keys |-> IF k \in S THEN 0 ELSE gap[k]]

(* refreshAll at the start of the loop and on a tick: one worker per stale   *)
(* key, which fetches it or joins the fetch in flight. *)
BeginRound ==
    /\ loop = "start" \/ (loop = "select" /\ pending)
    /\ LET keys == {k \in Keys : Stale(k)}
       IN  waits' = keys /\ Launch(keys \ flying)
    /\ loop' = "round"
    /\ warm' = (loop = "select")
    /\ pending' = FALSE
    /\ since' = 0
    /\ UNCHANGED <<cached, age, polled, wait, phase>>

(* Faulty: a tick that came during the round is dropped. *)
EndRoundDropsTick ==
    /\ loop = "round" /\ waits = {}
    /\ loop' = "select"
    /\ pending' = FALSE
    /\ phase' = IF warm THEN phase ELSE 0
    /\ UNCHANGED <<cached, age, flying, run, gap, polled, wait, waits, warm, since>>

(* wg.Wait returns; the ticker is made after the first round. *)
EndRound ==
    /\ loop = "round" /\ waits = {}
    /\ loop' = "select"
    /\ phase' = IF warm THEN phase ELSE 0
    /\ UNCHANGED <<cached, age, flying, run, gap, polled, wait, waits, pending,
                   warm, since>>

(* Faulty: get() does not look for a fetch in flight. *)
PollJoinRestarts(k) ==
    /\ Stale(k) /\ k \in flying
    /\ polled' = polled \cup {k}
    /\ Launch({k})
    /\ UNCHANGED <<cached, age, wait, loop, waits, phase, pending, warm, since>>

(* A poll of an expired key waits for the fetch in flight. *)
PollJoin(k) ==
    /\ Stale(k) /\ k \in flying /\ k \notin polled
    /\ polled' = polled \cup {k}
    /\ UNCHANGED <<cached, age, flying, run, gap, wait, loop, waits, phase,
                   pending, warm, since>>

(* ... or fetches the key itself. *)
PollFetch(k) ==
    /\ Stale(k) /\ k \notin flying
    /\ polled' = polled \cup {k}
    /\ Launch({k})
    /\ UNCHANGED <<cached, age, wait, loop, waits, phase, pending, warm, since>>

(* The clients go away; the fetch outlives them. *)
Leave(k) ==
    /\ k \in polled
    /\ polled' = polled \ {k}
    /\ wait' = [wait EXCEPT ![k] = 0]
    /\ UNCHANGED <<cached, age, flying, run, gap, loop, waits, phase, pending,
                   warm, since>>

(* The producer returns: its response is stored and its waiters answered. *)
EndFetch(k) ==
    /\ k \in flying
    /\ flying' = flying \ {k}
    /\ cached' = cached \cup {k}
    /\ age' = [age EXCEPT ![k] = 0]
    /\ run' = [run EXCEPT ![k] = 0]
    /\ waits' = waits \ {k}
    /\ polled' = polled \ {k}
    /\ wait' = [wait EXCEPT ![k] = 0]
    /\ UNCHANGED <<gap, loop, phase, pending, warm, since>>

(* Something the loop would do at once. *)
Due == \/ loop = "start"
       \/ loop = "select" /\ pending
       \/ loop = "round" /\ waits = {}

(* The clocks in f of the members of S, a second later. *)
Later(f, S) == [k \in Keys |-> IF k \in S THEN f[k] + 1 ELSE f[k]]

(* A second passes; no producer exceeds its budget.  The ticker runs from    *)
(* the end of the first round; a tick that finds the channel full is lost. *)
Second ==
    /\ ~Due
    /\ \A k \in flying : run[k] < budget[k]
    /\ age' = Later(age, cached)
    /\ run' = Later(run, flying)
    /\ gap' = Later(gap, {k \in Keys : gap[k] < ttls[k]})
    /\ wait' = Later(wait, polled)
    /\ since' = since + 1
    /\ IF loop = "round" /\ ~warm THEN UNCHANGED <<phase, pending>>
       ELSE IF phase + 1 < refreshTick THEN phase' = phase + 1 /\ UNCHANGED pending
       ELSE phase' = 0 /\ pending' = TRUE
    /\ UNCHANGED <<cached, flying, polled, loop, waits, warm>>

-----------------------------------------------------------------------------
Init ==
    /\ cached = {} /\ flying = {} /\ polled = {} /\ waits = {}
    /\ age = Zero /\ run = Zero /\ wait = Zero
    /\ gap = ttls
    /\ loop = "start" /\ phase = 0 /\ pending = FALSE /\ warm = FALSE /\ since = 0

Next ==
    \/ BeginRound \/ EndRound \/ Second
    \/ \E k \in Keys : PollJoin(k) \/ PollFetch(k) \/ Leave(k) \/ EndFetch(k)

Spec == Init /\ [][Next]_vars

-----------------------------------------------------------------------------
Longer(a, b) == IF a >= b THEN a ELSE b

(* While a session lasts no entry grows older than its lifetime, plus one    *)
(* period of the loop or the slowest producer (whichever is longer), plus    *)
(* the time of its own fetch: a SMART sweep that keeps a round waiting, and  *)
(* the ticks lost meanwhile, delay the other endpoints by no more than that, *)
(* with no client polling at all (loop, refreshAll's wg.Wait). *)
StaleBounded ==
    \A k \in cached : age[k] < ttls[k] + Longer(Slowest, refreshTick) + budget[k]

(* Nobody waits for an answer longer than the producer may take, however     *)
(* many clients poll and whoever started the fetch (get, wait). *)
WaitBounded == \A k \in polled : wait[k] <= budget[k]

(* "one zpool/smartctl run per interval, no matter how many dashboard tabs   *)
(* are open": two fetches of a key are at least its lifetime apart, with the *)
(* loop and all polls starting them (refresher, get). *)
OneRunPerInterval ==
    [][\A k \in Keys : (k \notin flying /\ k \in flying') => gap[k] >= ttls[k]]_vars
=============================================================================
