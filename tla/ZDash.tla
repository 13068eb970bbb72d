------------------------------- MODULE ZDash -------------------------------
(***************************************************************************)
(* The process: the idle gate of idle.go and the refresher of refresher.go *)
(* wired together by init() in idle.go, with the API handlers of api.go    *)
(* running on the gate's connections.  The gate drives the refresher       *)
(* through setActive, under g.mu; the refresher reaches the gate only      *)
(* through a connection that stays open while its handler waits for an     *)
(* answer.                                                                 *)
(***************************************************************************)
EXTENDS Integers, Sequences, FiniteSets

CONSTANTS
    Conns, GraceTimers, CapTimers, NoTimer, EXIT_ON_IDLE,     \* IdleGate
    Keys, Loops, NoChan, MaxGen, MaxFetch                     \* Refresher

(* The assumptions of both components, for the constants they share. *)
ASSUME GateAssumption ==
    /\ IsFiniteSet(Conns)
    /\ NoTimer \notin GraceTimers \cup CapTimers
    /\ EXIT_ON_IDLE \subseteq BOOLEAN
ASSUME RefresherAssumption ==
    /\ Keys # {}
    /\ NoChan \notin Loops
    /\ MaxGen \in Nat /\ MaxFetch \in Nat
    /\ Conns \cap (Loops \X Keys) = {}

VARIABLES
    proc, hook, doomed, conns, liveConns, sleeping, timer, sess, exitOnIdle,
    profile, grace, cap, victims,
    entries, fresh, inflight, active, gen, stop, closed, calls, loop, req, served

(* The routes main registers are exactly the keys with a producer. *)
G == INSTANCE IdleGate
R == INSTANCE Refresher WITH Handlers <- Conns, Producers <- Keys

gateVars ==
    <<proc, hook, doomed, conns, liveConns, sleeping, timer, sess, exitOnIdle,
      profile, grace, cap, victims>>
refresherVars ==
    <<entries, fresh, inflight, active, gen, stop, closed, calls, loop, req, served>>
vars == <<gateVars, refresherVars>>

-----------------------------------------------------------------------------
(* BootSleep: enterSleep with the wired sleepFn. *)
BootSleep == G!BootSleep /\ R!SetActive(FALSE)

(* StateNew; MaxGen bounds the sessions that may follow. *)
Accept(c) == gen <= MaxGen /\ G!Accept(c) /\ UNCHANGED refresherVars

(* Faulty: leaving deep sleep does not start the refresher. *)
WakeGateOnly(c) == G!Wake(c) /\ UNCHANGED refresherVars

(* wake calls the wired wakeFn only when it leaves deep sleep. *)
Wake(c) ==
    /\ G!Wake(c)
    /\ IF sleeping THEN R!SetActive(TRUE) ELSE UNCHANGED refresherVars

(* The wired sleepFn drops the cache before runtimeSleep. *)
Park(t) == G!Park(t) /\ R!SetActive(FALSE)

(* A serving goroutine reports StateClosed after its handler has returned. *)
Close(c) == req[c].pc = "idle" /\ G!Close(c) /\ UNCHANGED refresherVars

(* The steps that touch only the gate. *)
GateStep ==
    /\ \/ G!Configure
       \/ \E c \in Conns : G!Register(c) \/ G!ScheduleSleep(c) \/ G!Unregister(c)
       \/ \E t \in GraceTimers :
             G!GraceFires(t) \/ G!TrySleep(t) \/ G!Scavenge(t) \/ G!Decide(t) \/ G!Exit(t)
       \/ \E s \in CapTimers : G!CapNext(s)
    /\ UNCHANGED refresherVars

(* Requests arrive on open connections only. *)
Receive(c, k) == hook[c] = "open" /\ R!Receive(c, k)

(* The steps that touch only the refresher. *)
RefresherStep ==
    /\ G!Running
    /\ \/ \E l \in Loops : R!LoopNext(l)
       \/ \E c \in Conns : (\E k \in Keys : Receive(c, k)) \/ R!WaitCancelled(c) \/ R!Return(c)
       \/ \E g \in R!Getters : R!GetNext(g)
       \/ \E i \in DOMAIN calls : R!FetchNext(i)
       \/ \E k \in Keys : R!Expire(k)
    /\ UNCHANGED gateVars

Init == G!Init /\ R!Init

Next ==
    \/ BootSleep
    \/ \E c \in Conns : Accept(c) \/ Wake(c) \/ Close(c)
    \/ \E t \in GraceTimers : Park(t)
    \/ GateStep
    \/ RefresherStep

Spec == Init /\ [][Next]_vars

-----------------------------------------------------------------------------
(* No client is ever told "session ended": the refusal in get() is there for *)
(* ticks committed before the end of a session, and a connection that can    *)
(* carry a request holds a session open (connState, wake, trySleep, get). *)
NoClientSeesSessionEnded == \A c \in Conns : req[c].status # "ended"

(* runtimeSleep finds the cache dropped, so FreeOSMemory can return it, and  *)
(* nothing is cached again before the next wake (init's sleepFn order, get's *)
(* generation guard). *)
ParkedCachesNothing ==
    (\/ profile = "parked"
     \/ \E t \in GraceTimers : grace[t] \in {"scavenging", "deciding", "exiting"})
    => \A k \in Keys : entries[k] = 0

(* A connection that is served belongs to an active session, so its          *)
(* endpoints are refreshed in the background (wake, init's wakeFn). *)
ServedIsRefreshed == G!Served # {} => active

(* The park at boot is never terminal: a process that exits has ended at     *)
(* least one session after the boot park's own bump of the generation, so    *)
(* whoever socket activation started it for was let in (ExitOnIdle,          *)
(* BootSleep, trySleep). *)
BootParkNotTerminal == proc = "exited" => gen >= 2

-----------------------------------------------------------------------------
(* The process as ZeroCost sees it. *)
mode == IF proc = "exited" THEN "gone" ELSE IF active THEN "awake" ELSE "asleep"

Z == INSTANCE ZeroCost WITH
        Clients <- Conns, Endpoints <- Keys, clients <- G!Served,
        cached <- {k \in Keys : entries[k] # 0}, fetches <- Len(calls)

(* Awake for clients and asleep otherwise: the gate and the refresher        *)
(* together implement ZeroCost. *)
ImplementsZeroCost == Z!Spec

-----------------------------------------------------------------------------
(* "A late fetch cannot smuggle stale bytes into the next session"           *)
(* (README.md): an answer's bytes come from a fetch of the session that      *)
(* serves them. *)
NoLateFetchServed ==
    \A c \in Conns :
        (req[c].pc = "done" /\ req[c].status = "body") => calls[req[c].body].gen = gen
=============================================================================
