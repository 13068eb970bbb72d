----------------------------- MODULE Refresher -----------------------------
(***************************************************************************)
(* The session-scoped fetcher and cache of refresher.go.  While a session  *)
(* is active a background loop refreshes every endpoint whose cached       *)
(* response has expired; HTTP handlers and the loop's workers share one    *)
(* fetch per endpoint; the end of a session stops the loop and drops the   *)
(* cache.                                                                  *)
(*                                                                         *)
(* Goroutines: handlers, background loops (the loop of a dead session may  *)
(* outlive it), one worker of a loop per stale endpoint, one goroutine per *)
(* fetch.  Each critical section of r.mu is one step, and so is each       *)
(* channel operation.  The body of a response is the number of the fetch   *)
(* that produced it, in the order the fetches started.                     *)
(***************************************************************************)
EXTENDS Integers, Sequences, FiniteSets

CONSTANTS
    Handlers,    \* HTTP requests that can be served at once
    Keys,        \* the keys get() may be called with
    Producers,   \* those with a producer and a TTL
    Loops,       \* background loops that can exist at once, named by the
                 \* stop channel each was started with
    NoChan,      \* a nil channel
    MaxGen,      \* bound: sessions that may end
    MaxFetch     \* bound: no cached response expires after this many fetches

ASSUME KeysExist == Keys # {}
ASSUME ProducersAreKeys == Producers \subseteq Keys
ASSUME NoChanIsNoLoop == NoChan \notin Loops
ASSUME BoundsAreNat == MaxGen \in Nat /\ MaxFetch \in Nat
ASSUME HandlersAreNoWorkers == Handlers \cap (Loops \X Producers) = {}

VARIABLES
    entries,   \* r.entries: the fetch whose response is cached, 0 for nil
    fresh,     \* keys whose entry is younger than its TTL
    inflight,  \* r.inflight: the fetch callers may join, 0 for nil
    active,    \* r.active
    gen,       \* r.gen
    stop,      \* r.stop
    closed,    \* the stop channels that have been closed
    calls,     \* every fetch started so far
    loop,      \* where each background loop is
    req,       \* where each caller of get() is
    served     \* history: the newest fetch a handler has answered with, per key

cacheVars == <<entries, fresh>>
sessionVars == <<active, gen, stop, closed>>
vars == <<cacheVars, inflight, sessionVars, calls, loop, req, served>>

Workers == Loops \X Producers
Getters == Handlers \cup Workers

-----------------------------------------------------------------------------
CallStates == {"running", "stored", "unlinked", "closed"}
Call == [key : Producers, gen : Nat, st : CallStates]
Statuses == {"none", "body", "404", "405", "ended", "timeout"}

(* A caller of get(): the key, the fetch it waits for, its answer, and the   *)
(* newest answer already given for that key when the request arrived. *)
Request == [pc : {"idle", "get", "wait", "done"}, key : Keys, call : Nat,
            status : Statuses, body : Nat, floor : Nat]

TypeOK ==
    /\ entries \in [Keys -> Nat]
    /\ fresh \subseteq Keys
    /\ inflight \in [Keys -> Nat]
    /\ active \in BOOLEAN
    /\ gen \in Nat
    /\ stop \in Loops \cup {NoChan}
    /\ closed \subseteq Loops
    /\ calls \in Seq(Call)
    /\ loop \in [Loops -> {"off", "refresh", "join", "select"}]
    /\ req \in [Getters -> Request]
    /\ served \in [Keys -> Nat]

-----------------------------------------------------------------------------
(* setActive(true): a session starts with a stop channel and a loop of its   *)
(* own; a loop's name is free again once it has returned and r.stop no       *)
(* longer refers to its channel. *)
StartSession ==
    IF active
    THEN UNCHANGED <<sessionVars, loop>>
    ELSE \E l \in Loops :
            /\ loop[l] = "off"
            /\ l # stop
            /\ active' = TRUE
            /\ stop' = l
            /\ closed' = closed \ {l}
            /\ loop' = [loop EXCEPT ![l] = "refresh"]
            /\ UNCHANGED gen

(* Faulty: the loop is not told to stop. *)
EndSessionLeavesLoop ==
    /\ active' = FALSE
    /\ gen' = gen + 1
    /\ entries' = [k \in Keys |-> 0]
    /\ fresh' = {}
    /\ UNCHANGED <<stop, closed>>

(* setActive(false): never closes a channel twice, and drops the cache. *)
EndSession ==
    /\ active' = FALSE
    /\ gen' = gen + 1
    /\ closed' = closed \cup ({stop} \ {NoChan})
    /\ entries' = [k \in Keys |-> 0]
    /\ fresh' = {}
    /\ UNCHANGED stop

(* Faulty: the end of a session also clears the in-flight table. *)
SetActiveClearsInflight(b) ==
    /\ IF b THEN StartSession /\ UNCHANGED <<cacheVars, inflight>>
            ELSE EndSession /\ inflight' = [k \in Keys |-> 0] /\ UNCHANGED loop
    /\ UNCHANGED <<calls, req, served>>

SetActive(b) ==
    /\ IF b THEN StartSession /\ UNCHANGED cacheVars
            ELSE EndSession /\ UNCHANGED loop
    /\ UNCHANGED <<inflight, calls, req, served>>

-----------------------------------------------------------------------------
(* The background loop. *)
Stale(k) == entries[k] = 0 \/ k \notin fresh

Idle == [pc |-> "idle", key |-> CHOOSE k \in Keys : TRUE, call |-> 0,
         status |-> "none", body |-> 0, floor |-> 0]

(* A call of get() for key k. *)
Asking(k, floor) == [Idle EXCEPT !.pc = "get", !.key = k, !.floor = floor]

(* Faulty: only looks at endpoints that have an entry. *)
RefreshAllCachedOnly(l) ==
    /\ loop[l] = "refresh"
    /\ loop' = [loop EXCEPT ![l] = "join"]
    /\ req' = [g \in Getters |->
                  IF g \in Workers /\ g[1] = l /\ entries[g[2]] # 0 /\ Stale(g[2])
                  THEN Asking(g[2], 0) ELSE req[g]]
    /\ UNCHANGED <<cacheVars, inflight, sessionVars, calls, served>>

(* refreshAll, first half: one worker per expired endpoint. *)
RefreshAll(l) ==
    /\ loop[l] = "refresh"
    /\ loop' = [loop EXCEPT ![l] = "join"]
    /\ req' = [g \in Getters |->
                  IF g \in Workers /\ g[1] = l /\ Stale(g[2]) THEN Asking(g[2], 0) ELSE req[g]]
    /\ UNCHANGED <<cacheVars, inflight, sessionVars, calls, served>>

(* wg.Wait *)
Join(l) ==
    /\ loop[l] = "join"
    /\ \A k \in Producers : req[<<l, k>>].pc = "idle"
    /\ loop' = [loop EXCEPT ![l] = "select"]
    /\ UNCHANGED <<cacheVars, inflight, sessionVars, calls, req, served>>

(* Faulty: a tick does not look at the stop channel again. *)
TickCommitted(l) ==
    /\ loop[l] = "select"
    /\ loop' = [loop EXCEPT ![l] = "refresh"]
    /\ UNCHANGED <<cacheVars, inflight, sessionVars, calls, req, served>>

(* The ticker won the select; the stop channel is looked at once more. *)
Tick(l) ==
    /\ loop[l] = "select"
    /\ loop' = [loop EXCEPT ![l] = IF l \in closed THEN "off" ELSE "refresh"]
    /\ UNCHANGED <<cacheVars, inflight, sessionVars, calls, req, served>>

LoopStop(l) ==
    /\ loop[l] = "select"
    /\ l \in closed
    /\ loop' = [loop EXCEPT ![l] = "off"]
    /\ UNCHANGED <<cacheVars, inflight, sessionVars, calls, req, served>>

-----------------------------------------------------------------------------
(* serveRefresh: a handler receives a request. *)
Receive(h, k) ==
    /\ req[h].pc = "idle"
    /\ req' = [req EXCEPT ![h] = Asking(k, served[k])]
    /\ UNCHANGED <<cacheVars, inflight, sessionVars, calls, loop, served>>

BadMethod(h) ==
    /\ req[h].pc = "idle"
    /\ req' = [req EXCEPT ![h] = [Idle EXCEPT !.pc = "done", !.status = "405"]]
    /\ UNCHANGED <<cacheVars, inflight, sessionVars, calls, loop, served>>

(* get() returns: a handler has its answer, a worker drops it and ends. *)
Answer(g, status, body) ==
    req' = [req EXCEPT ![g] =
               IF g \in Workers THEN Idle
               ELSE [@ EXCEPT !.pc = "done", !.call = 0, !.status = status, !.body = body]]

(* get, in its one critical section: serve a fresh entry, ... *)
GetFresh(g) ==
    LET k == req[g].key IN
    /\ req[g].pc = "get"
    /\ ~Stale(k)
    /\ Answer(g, "body", entries[k])
    /\ UNCHANGED <<cacheVars, inflight, sessionVars, calls, loop, served>>

(* ... or join the fetch in flight, whoever started it, ... *)
GetJoin(g) ==
    LET k == req[g].key IN
    /\ req[g].pc = "get"
    /\ Stale(k)
    /\ inflight[k] # 0
    /\ req' = [req EXCEPT ![g].pc = "wait", ![g].call = inflight[k]]
    /\ UNCHANGED <<cacheVars, inflight, sessionVars, calls, loop, served>>

SessionEnded == stop # NoChan /\ stop \in closed

(* ... or refuse an unknown key or a session that is over, ... *)
GetRefused(g) ==
    LET k == req[g].key IN
    /\ req[g].pc = "get"
    /\ Stale(k)
    /\ inflight[k] = 0
    /\ k \notin Producers \/ SessionEnded
    /\ Answer(g, IF k \notin Producers THEN "404" ELSE "ended", 0)
    /\ UNCHANGED <<cacheVars, inflight, sessionVars, calls, loop, served>>

(* Faulty: no session check before a fetch starts. *)
GetFetchAfterEnd(g) ==
    LET k == req[g].key
        i == Len(calls) + 1 IN
    /\ req[g].pc = "get"
    /\ Stale(k)
    /\ inflight[k] = 0
    /\ k \in Producers
    /\ calls' = Append(calls, [key |-> k, gen |-> gen, st |-> "running"])
    /\ inflight' = [inflight EXCEPT ![k] = i]
    /\ req' = [req EXCEPT ![g].pc = "wait", ![g].call = i]
    /\ UNCHANGED <<cacheVars, sessionVars, loop, served>>

(* Faulty: the fetch is not offered to other callers. *)
GetFetchUnshared(g) ==
    LET k == req[g].key
        i == Len(calls) + 1 IN
    /\ req[g].pc = "get"
    /\ Stale(k)
    /\ inflight[k] = 0
    /\ k \in Producers
    /\ ~SessionEnded
    /\ calls' = Append(calls, [key |-> k, gen |-> gen, st |-> "running"])
    /\ req' = [req EXCEPT ![g].pc = "wait", ![g].call = i]
    /\ UNCHANGED <<cacheVars, inflight, sessionVars, loop, served>>

(* ... or start the fetch. *)
GetFetch(g) ==
    LET k == req[g].key
        i == Len(calls) + 1 IN
    /\ req[g].pc = "get"
    /\ Stale(k)
    /\ inflight[k] = 0
    /\ k \in Producers
    /\ ~SessionEnded
    /\ calls' = Append(calls, [key |-> k, gen |-> gen, st |-> "running"])
    /\ inflight' = [inflight EXCEPT ![k] = i]
    /\ req' = [req EXCEPT ![g].pc = "wait", ![g].call = i]
    /\ UNCHANGED <<cacheVars, sessionVars, loop, served>>

(* wait: the fetch is done, or a handler's client has gone away and gets     *)
(* whatever is cached. Workers wait with context.Background. *)
WaitDone(g) ==
    /\ req[g].pc = "wait"
    /\ calls[req[g].call].st = "closed"
    /\ Answer(g, "body", req[g].call)
    /\ UNCHANGED <<cacheVars, inflight, sessionVars, calls, loop, served>>

WaitCancelled(h) ==
    LET k == req[h].key IN
    /\ req[h].pc = "wait"
    /\ IF entries[k] # 0 THEN Answer(h, "body", entries[k]) ELSE Answer(h, "timeout", 0)
    /\ UNCHANGED <<cacheVars, inflight, sessionVars, calls, loop, served>>

(* A handler writes its response. *)
Return(h) ==
    LET k == req[h].key IN
    /\ req[h].pc = "done"
    /\ req' = [req EXCEPT ![h] = Idle]
    /\ served' = IF req[h].body > served[k] THEN [served EXCEPT ![k] = req[h].body] ELSE served
    /\ UNCHANGED <<cacheVars, inflight, sessionVars, calls, loop>>

-----------------------------------------------------------------------------
(* Faulty: the result is cached whatever session is being served. *)
StoreAlways(i) ==
    LET k == calls[i].key IN
    /\ calls[i].st = "running"
    /\ calls' = [calls EXCEPT ![i].st = "stored"]
    /\ entries' = [entries EXCEPT ![k] = i]
    /\ fresh' = fresh \cup {k}
    /\ UNCHANGED <<inflight, sessionVars, loop, req, served>>

(* The fetch goroutine: the producer returns and its result is cached for    *)
(* the session that started it, ... *)
Store(i) ==
    LET k == calls[i].key IN
    /\ calls[i].st = "running"
    /\ calls' = [calls EXCEPT ![i].st = "stored"]
    /\ IF calls[i].gen = gen
       THEN /\ entries' = [entries EXCEPT ![k] = i]
            /\ fresh' = fresh \cup {k}
       ELSE UNCHANGED cacheVars
    /\ UNCHANGED <<inflight, sessionVars, loop, req, served>>

(* ... then the call is taken off the in-flight table ... *)
Unlink(i) ==
    /\ calls[i].st = "stored"
    /\ calls' = [calls EXCEPT ![i].st = "unlinked"]
    /\ inflight' = [inflight EXCEPT ![calls[i].key] = 0]
    /\ UNCHANGED <<cacheVars, sessionVars, loop, req, served>>

(* Faulty: a fetch that outlived its session releases nobody. *)
CloseDoneInSession(i) ==
    /\ calls[i].st = "unlinked"
    /\ calls[i].gen = gen
    /\ calls' = [calls EXCEPT ![i].st = "closed"]
    /\ UNCHANGED <<cacheVars, inflight, sessionVars, loop, req, served>>

(* ... and its waiters are released. *)
CloseDone(i) ==
    /\ calls[i].st = "unlinked"
    /\ calls' = [calls EXCEPT ![i].st = "closed"]
    /\ UNCHANGED <<cacheVars, inflight, sessionVars, loop, req, served>>

(* time.Since(e.fetched) reaches the key's TTL. *)
Expire(k) ==
    /\ k \in fresh
    /\ Len(calls) < MaxFetch
    /\ fresh' = fresh \ {k}
    /\ UNCHANGED <<entries, inflight, sessionVars, calls, loop, req, served>>

-----------------------------------------------------------------------------
Init ==
    /\ entries = [k \in Keys |-> 0]
    /\ fresh = {}
    /\ inflight = [k \in Keys |-> 0]
    /\ active = FALSE
    /\ gen = 0
    /\ stop = NoChan
    /\ closed = {}
    /\ calls = <<>>
    /\ loop = [l \in Loops |-> "off"]
    /\ req = [g \in Getters |-> Idle]
    /\ served = [k \in Keys |-> 0]

LoopNext(l) == RefreshAll(l) \/ Join(l) \/ Tick(l) \/ LoopStop(l)

GetNext(g) ==
    GetFresh(g) \/ GetJoin(g) \/ GetRefused(g) \/ GetFetch(g) \/ WaitDone(g)

ClientNext(h) ==
    BadMethod(h) \/ (\E k \in Keys : Receive(h, k)) \/ WaitCancelled(h) \/ Return(h)

FetchNext(i) == Store(i) \/ Unlink(i) \/ CloseDone(i)

(* The steps the gate drives are bounded here; everything else runs freely. *)
Next ==
    \/ SetActive(TRUE)
    \/ gen < MaxGen /\ SetActive(FALSE)
    \/ \E l \in Loops : LoopNext(l)
    \/ \E h \in Handlers : ClientNext(h)
    \/ \E g \in Getters : GetNext(g)
    \/ \E i \in DOMAIN calls : FetchNext(i)
    \/ \E k \in Keys : Expire(k)

Spec == Init /\ [][Next]_vars

(* Goroutines run, tickers tick, and every producer returns: each bounds its *)
(* subprocesses with a timeout of its own. *)
FetchIds == 1..(MaxFetch + Cardinality(Producers) * (MaxGen + 1))

LoopFairness(l) == WF_vars(LoopNext(l))
GetFairness(g) == WF_vars(GetNext(g))
ReturnFairness(h) == WF_vars(Return(h))
FetchFairness(i) == WF_vars(i \in DOMAIN calls /\ FetchNext(i))

Fairness ==
    /\ \A l \in Loops : LoopFairness(l)
    /\ \A g \in Getters : GetFairness(g)
    /\ \A h \in Handlers : ReturnFairness(h)
    /\ \A i \in FetchIds : FetchFairness(i)

FairSpec == Spec /\ Fairness

-----------------------------------------------------------------------------
(* At most one fetch per endpoint is between its start and its removal from  *)
(* the in-flight table, even across sessions, and it is the one a caller     *)
(* would join: ten tabs cost one zpool run (get, the deferred delete). *)
SingleFlight ==
    \A i \in DOMAIN calls :
        calls[i].st \in {"running", "stored"} => inflight[calls[i].key] = i

(* Every cached response was fetched by the session that is being served: a  *)
(* fetch that outlives its session is not stored (get's generation guard     *)
(* against setActive's bump). *)
CacheOfThisSession ==
    \A k \in Keys : entries[k] # 0 =>
        /\ entries[k] \in DOMAIN calls
        /\ calls[entries[k]].key = k
        /\ calls[entries[k]].gen = gen

(* Once a session is over nothing is cached until the next one: no late      *)
(* store, no tick already committed can refill the cache that was dropped    *)
(* before FreeOSMemory (setActive, get). *)
EndedSessionCachesNothing == SessionEnded => \A k \in Keys : entries[k] = 0

(* A request is never answered with an older fetch than one that was already *)
(* served when it arrived, whichever of the cache, a joined fetch or the     *)
(* stale fallback of a cancelled wait answers it (get, wait). *)
MonotonicReads ==
    \A h \in Handlers : req[h].status = "body" => req[h].body >= req[h].floor

(* At most one loop has an open stop channel, and it is the active session's: *)
(* loops of ended sessions are all told to stop, and that of a session that  *)
(* goes on is not, whenever the one before it ended (setActive, loop). *)
OneLiveLoop ==
    /\ \A l \in Loops : loop[l] # "off" /\ l \notin closed => active /\ l = stop
    /\ active => stop # NoChan /\ stop \notin closed

(* Every caller of get() that waits is released (the deferred close). *)
WaitersReleased == \A g \in Getters : (req[g].pc = "wait") ~> (req[g].pc # "wait")

(* The loop of an ended session returns, although it may be in the middle of *)
(* a refresh round when its channel is closed (loop, refreshAll, get). *)
EndedLoopsReturn == \A l \in Loops : (l \in closed) ~> (loop[l] = "off")

(* A session that lasts gets every endpoint cached, even when its first      *)
(* round only joined fetches of the previous session, which are not stored   *)
(* (loop, refreshAll). *)
SessionGetsWarm == active ~> (~active \/ \A k \in Producers : entries[k] # 0)
=============================================================================
