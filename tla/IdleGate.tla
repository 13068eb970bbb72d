------------------------------ MODULE IdleGate ------------------------------
(***************************************************************************)
(* The session gate of idle.go: a counter of open connections that wakes   *)
(* the process on the first one and parks it (or exits) once the last one  *)
(* has been gone for the idle grace, and a session cap that force-closes   *)
(* whatever stays connected.                                               *)
(*                                                                         *)
(* Four kinds of goroutine run concurrently: the accept goroutine of       *)
(* net/http (StateNew hooks, one at a time), one serving goroutine per     *)
(* connection (StateClosed hooks), the grace-timer callbacks and the       *)
(* cap-timer callbacks.  A step is what a goroutine does between two       *)
(* accesses to shared state: an access to the atomic counter, or one       *)
(* critical section of g.mu.  Only trySleep's critical section is long     *)
(* enough for the counter to move underneath it, so it alone is split.     *)
(***************************************************************************)
EXTENDS Integers, FiniteSets

CONSTANTS
    Conns,         \* identities of net.Conn values, recycled after a close
    GraceTimers,   \* runtime timers of the idle grace that can exist at once
    CapTimers,     \* runtime timers of the session cap that can exist at once
    NoTimer,       \* a nil *time.Timer
    EXIT_ON_IDLE   \* whether the environment variable of that name may be "1"

ASSUME ConnsFinite == IsFiniteSet(Conns)
ASSUME NoTimerIsNoTimer == NoTimer \notin GraceTimers \cup CapTimers
ASSUME ExitOnIdleBool == EXIT_ON_IDLE \subseteq BOOLEAN

VARIABLES
    proc,        \* how far main is: "start", "configured", "serving", "exited"
    hook,        \* where each connection is in its ConnState hooks
    doomed,      \* open connections on which endSession has called Close
    conns,       \* g.conns
    liveConns,   \* g.liveConns
    sleeping,    \* g.sleeping
    timer,       \* g.timer
    sess,        \* g.sess
    exitOnIdle,  \* g.exitOnIdle
    profile,     \* the runtime tuning in force: "full" or "parked"
    grace,       \* state of each grace timer and of its trySleep callback
    cap,         \* state of each cap timer and of its endSession callback
    victims      \* the connections an endSession callback has yet to close

connVars  == <<hook, doomed, conns, liveConns>>
graceVars == <<timer, grace>>
capVars   == <<sess, cap, victims>>
modeVars  == <<sleeping, profile>>
mainVars  == <<proc, exitOnIdle>>
vars == <<connVars, graceVars, capVars, modeVars, mainVars>>

-----------------------------------------------------------------------------
(* A connection is "none" before accept and after its last hook; "wake" and *)
(* "register" are the two halves of StateNew, "schedule" and "unregister"   *)
(* those of StateClosed; "open" is between the two hooks.                   *)
HookStates == {"none", "wake", "register", "open", "schedule", "unregister"}
CountedStates == {"wake", "register", "open"}
ServedStates == {"register", "open"}

(* A runtime timer is "armed" until it fires; "fired" is a callback that    *)
(* has not yet got g.mu, which Stop no longer reaches.                      *)
LockStates == {"parking", "scavenging", "deciding", "exiting"}
GraceStates == {"free", "armed", "fired"} \cup LockStates
CapStates == {"free", "armed", "fired", "closing"}

TypeOK ==
    /\ proc \in {"start", "configured", "serving", "exited"}
    /\ hook \in [Conns -> HookStates]
    /\ doomed \subseteq Conns
    /\ conns \in Nat
    /\ liveConns \subseteq Conns
    /\ sleeping \in BOOLEAN
    /\ timer \in GraceTimers \cup {NoTimer}
    /\ sess \in CapTimers \cup {NoTimer}
    /\ exitOnIdle \in BOOLEAN
    /\ profile \in {"full", "parked"}
    /\ grace \in [GraceTimers -> GraceStates]
    /\ cap \in [CapTimers -> CapStates]
    /\ victims \in [CapTimers -> SUBSET Conns]

Counted == {c \in Conns : hook[c] \in CountedStates}
Served  == {c \in Conns : hook[c] \in ServedStates}

-----------------------------------------------------------------------------
(* g.mu is free unless a trySleep is in its critical section. *)
Unlocked == \A t \in GraceTimers : grace[t] \notin LockStates

Running == proc = "serving"

(* Faulty: trySleep trusts the map instead of the counter. *)
NoConnsByMap == liveConns = {}

(* The load of the atomic counter that both of trySleep's checks make. *)
NoConns == conns = 0

(* time.Timer.Stop on handle h: only a timer that has not fired is stopped. *)
Stopped(timers, h) ==
    [t \in DOMAIN timers |->
        IF t = h /\ timers[t] = "armed" THEN "free" ELSE timers[t]]

(* Faulty: the stopped timer's handle is kept. *)
StopGraceKeepsHandle == grace' = Stopped(grace, timer) /\ UNCHANGED timer

(* What wake, trySleep and enterSleep do to a pending timer. *)
StopGrace == grace' = Stopped(grace, timer) /\ timer' = NoTimer
StopCap == cap' = Stopped(cap, sess) /\ sess' = NoTimer

(* armSessionLocked, with the values that g.sleeping and the cap timers have *)
(* at the call: an armed cap is never replaced. *)
ArmSessionLocked(asleep, caps) ==
    IF sess = NoTimer /\ ~asleep
    THEN \E s \in CapTimers : /\ caps[s] = "free"
                              /\ sess' = s
                              /\ cap' = [caps EXCEPT ![s] = "armed"]
    ELSE cap' = caps /\ UNCHANGED sess

-----------------------------------------------------------------------------
(* main: ExitOnIdle when the environment asks for it, then BootSleep, then  *)
(* Serve. *)
Configure ==
    /\ proc = "start"
    /\ proc' = "configured"
    /\ \E set \in EXIT_ON_IDLE : exitOnIdle' = (exitOnIdle \/ set)
    /\ UNCHANGED <<connVars, graceVars, capVars, modeVars>>

(* Faulty: the boot park takes the exit of an idle park. *)
BootSleepMayExit ==
    /\ proc = "configured"
    /\ Unlocked
    /\ proc' = IF exitOnIdle THEN "exited" ELSE "serving"
    /\ StopGrace
    /\ StopCap
    /\ sleeping' = TRUE
    /\ profile' = "parked"
    /\ UNCHANGED <<connVars, victims, exitOnIdle>>

(* enterSleep, before the listener accepts; it never exits. *)
BootSleep ==
    /\ proc = "configured"
    /\ Unlocked
    /\ proc' = "serving"
    /\ StopGrace
    /\ StopCap
    /\ sleeping' = TRUE
    /\ profile' = IF sleeping THEN profile ELSE "parked"
    /\ UNCHANGED <<connVars, victims, exitOnIdle>>

-----------------------------------------------------------------------------
(* StateNew. The accept goroutine runs the hook to its end before it accepts *)
(* again; the counter moves first, without the mutex. *)
AcceptFree == \A c \in Conns : hook[c] \notin {"wake", "register"}

Accept(c) ==
    /\ Running
    /\ hook[c] = "none"
    /\ AcceptFree
    /\ conns' = conns + 1
    /\ hook' = [hook EXCEPT ![c] = IF conns + 1 = 1 THEN "wake" ELSE "register"]
    /\ UNCHANGED <<doomed, liveConns, graceVars, capVars, modeVars, mainVars>>

Wake(c) ==
    /\ Running
    /\ hook[c] = "wake"
    /\ Unlocked
    /\ StopGrace
    /\ sleeping' = FALSE
    /\ ArmSessionLocked(FALSE, cap)
    /\ profile' = IF sleeping THEN "full" ELSE profile
    /\ hook' = [hook EXCEPT ![c] = "register"]
    /\ UNCHANGED <<doomed, conns, liveConns, victims, mainVars>>

Register(c) ==
    /\ Running
    /\ hook[c] = "register"
    /\ Unlocked
    /\ liveConns' = liveConns \cup {c}
    /\ hook' = [hook EXCEPT ![c] = "open"]
    /\ UNCHANGED <<doomed, conns, graceVars, capVars, modeVars, mainVars>>

(* StateClosed, in the connection's own goroutine after its handler has     *)
(* returned: the client left, a server timeout hit, or endSession closed it. *)
Close(c) ==
    /\ Running
    /\ hook[c] = "open"
    /\ conns' = conns - 1
    /\ hook' = [hook EXCEPT ![c] = IF conns - 1 = 0 THEN "schedule" ELSE "unregister"]
    /\ doomed' = doomed \ {c}
    /\ UNCHANGED <<liveConns, graceVars, capVars, modeVars, mainVars>>

(* Faulty: leaves the park to the pending session cap. *)
ScheduleSleepUnlessCapped(c) ==
    /\ Running
    /\ hook[c] = "schedule"
    /\ Unlocked
    /\ IF sleeping \/ timer # NoTimer \/ sess # NoTimer
       THEN UNCHANGED graceVars
       ELSE \E t \in GraceTimers : /\ grace[t] = "free"
                                   /\ timer' = t
                                   /\ grace' = [grace EXCEPT ![t] = "armed"]
    /\ hook' = [hook EXCEPT ![c] = "unregister"]
    /\ UNCHANGED <<doomed, conns, liveConns, capVars, modeVars, mainVars>>

ScheduleSleep(c) ==
    /\ Running
    /\ hook[c] = "schedule"
    /\ Unlocked
    /\ IF sleeping \/ timer # NoTimer
       THEN UNCHANGED graceVars
       ELSE \E t \in GraceTimers : /\ grace[t] = "free"
                                   /\ timer' = t
                                   /\ grace' = [grace EXCEPT ![t] = "armed"]
    /\ hook' = [hook EXCEPT ![c] = "unregister"]
    /\ UNCHANGED <<doomed, conns, liveConns, capVars, modeVars, mainVars>>

(* The net.Conn is gone: its identity is free for the next accept, so no     *)
(* pending c.Close of an endSession may mean it any more. *)
Unregister(c) ==
    /\ Running
    /\ hook[c] = "unregister"
    /\ Unlocked
    /\ liveConns' = liveConns \ {c}
    /\ hook' = [hook EXCEPT ![c] = "none"]
    /\ victims' = [s \in CapTimers |-> victims[s] \ {c}]
    /\ UNCHANGED <<doomed, conns, graceVars, sess, cap, modeVars, mainVars>>

-----------------------------------------------------------------------------
(* The grace timer and trySleep. *)
GraceFires(t) ==
    /\ Running
    /\ grace[t] = "armed"
    /\ grace' = [grace EXCEPT ![t] = "fired"]
    /\ UNCHANGED <<connVars, timer, capVars, modeVars, mainVars>>

(* Up to the decision to park: both timers are dropped before the check. *)
TrySleep(t) ==
    /\ Running
    /\ grace[t] = "fired"
    /\ Unlocked
    /\ timer' = NoTimer
    /\ StopCap
    /\ IF sleeping \/ ~NoConns
       THEN grace' = [grace EXCEPT ![t] = "free"] /\ UNCHANGED sleeping
       ELSE grace' = [grace EXCEPT ![t] = "parking"] /\ sleeping' = TRUE
    /\ UNCHANGED <<connVars, victims, profile, mainVars>>

(* sleepFn, first half: the refresher is deactivated (composed in ZDash). *)
Park(t) ==
    /\ Running
    /\ grace[t] = "parking"
    /\ grace' = [grace EXCEPT ![t] = "scavenging"]
    /\ UNCHANGED <<connVars, timer, capVars, modeVars, mainVars>>

(* sleepFn, second half: runtimeSleep, which takes a while. *)
Scavenge(t) ==
    /\ Running
    /\ grace[t] = "scavenging"
    /\ profile' = "parked"
    /\ grace' = [grace EXCEPT ![t] = "deciding"]
    /\ UNCHANGED <<connVars, timer, capVars, sleeping, mainVars>>

(* Faulty: the mutex stays locked when the process does not exit. *)
DecideWithoutUnlock(t) ==
    /\ Running
    /\ grace[t] = "deciding"
    /\ exitOnIdle /\ NoConns
    /\ grace' = [grace EXCEPT ![t] = "exiting"]
    /\ UNCHANGED <<connVars, timer, capVars, modeVars, mainVars>>

(* The second load of the counter; without an exit the mutex is released. *)
Decide(t) ==
    /\ Running
    /\ grace[t] = "deciding"
    /\ grace' = [grace EXCEPT ![t] = IF exitOnIdle /\ NoConns THEN "exiting" ELSE "free"]
    /\ UNCHANGED <<connVars, timer, capVars, modeVars, mainVars>>

Exit(t) ==
    /\ Running
    /\ grace[t] = "exiting"
    /\ proc' = "exited"
    /\ UNCHANGED <<connVars, graceVars, capVars, modeVars, exitOnIdle>>

-----------------------------------------------------------------------------
(* The session cap and endSession. *)
CapFires(s) ==
    /\ Running
    /\ cap[s] = "armed"
    /\ cap' = [cap EXCEPT ![s] = "fired"]
    /\ UNCHANGED <<connVars, graceVars, sess, victims, modeVars, mainVars>>

(* Faulty: the map is cleared before it is copied. *)
EndSessionClearsFirst(s) ==
    /\ Running
    /\ cap[s] = "fired"
    /\ Unlocked
    /\ sess' = NoTimer
    /\ liveConns' = {}
    /\ cap' = [cap EXCEPT ![s] = "free"]
    /\ UNCHANGED <<hook, doomed, conns, graceVars, victims, modeVars, mainVars>>

(* First critical section: the live connections become this call's victims; *)
(* with none there is nothing more to do. *)
EndSession(s) ==
    /\ Running
    /\ cap[s] = "fired"
    /\ Unlocked
    /\ sess' = NoTimer
    /\ victims' = [victims EXCEPT ![s] = liveConns]
    /\ liveConns' = {}
    /\ cap' = [cap EXCEPT ![s] = IF liveConns = {} THEN "free" ELSE "closing"]
    /\ UNCHANGED <<hook, doomed, conns, graceVars, modeVars, mainVars>>

(* Faulty: the loop forgets to call Close. *)
ForceCloseSkipped(s, c) ==
    /\ Running
    /\ cap[s] = "closing"
    /\ c \in victims[s]
    /\ victims' = [victims EXCEPT ![s] = @ \ {c}]
    /\ UNCHANGED <<connVars, graceVars, sess, cap, modeVars, mainVars>>

(* One c.Close() of the loop; on a connection already closed it does nothing. *)
ForceClose(s, c) ==
    /\ Running
    /\ cap[s] = "closing"
    /\ c \in victims[s]
    /\ victims' = [victims EXCEPT ![s] = @ \ {c}]
    /\ doomed' = IF hook[c] = "open" THEN doomed \cup {c} ELSE doomed
    /\ UNCHANGED <<hook, conns, liveConns, graceVars, sess, cap, modeVars, mainVars>>

(* Second critical section: a new capped window for whoever came meanwhile. *)
Rearm(s) ==
    /\ Running
    /\ cap[s] = "closing"
    /\ victims[s] = {}
    /\ Unlocked
    /\ ArmSessionLocked(sleeping, [cap EXCEPT ![s] = "free"])
    /\ UNCHANGED <<connVars, graceVars, victims, modeVars, mainVars>>

-----------------------------------------------------------------------------
Init ==
    /\ proc = "start"
    /\ hook = [c \in Conns |-> "none"]
    /\ doomed = {}
    /\ conns = 0
    /\ liveConns = {}
    /\ sleeping = FALSE
    /\ timer = NoTimer
    /\ sess = NoTimer
    /\ exitOnIdle = FALSE
    /\ profile = "full"
    /\ grace = [t \in GraceTimers |-> "free"]
    /\ cap = [s \in CapTimers |-> "free"]
    /\ victims = [s \in CapTimers |-> {}]

ConnNext(c) ==
    Accept(c) \/ Wake(c) \/ Register(c) \/ Close(c) \/ ScheduleSleep(c) \/ Unregister(c)

GraceNext(t) ==
    GraceFires(t) \/ TrySleep(t) \/ Park(t) \/ Scavenge(t) \/ Decide(t) \/ Exit(t)

CapNext(s) ==
    CapFires(s) \/ EndSession(s) \/ (\E c \in Conns : ForceClose(s, c)) \/ Rearm(s)

Next ==
    \/ Configure
    \/ BootSleep
    \/ \E c \in Conns : ConnNext(c)
    \/ \E t \in GraceTimers : GraceNext(t)
    \/ \E s \in CapTimers : CapNext(s)

Spec == Init /\ [][Next]_vars

(* What the Go runtime promises: a started goroutine runs, an armed timer    *)
(* fires, a connection whose socket was closed leaves its serving goroutine. *)
(* Weak fairness is enough for the steps that wait for g.mu, see README.     *)
MainFairness == WF_vars(Configure) /\ WF_vars(BootSleep)

ConnFairness(c) ==
    /\ WF_vars(Wake(c)) /\ WF_vars(Register(c))
    /\ WF_vars(ScheduleSleep(c)) /\ WF_vars(Unregister(c))
    /\ WF_vars(c \in doomed /\ Close(c))

GraceFairness(t) == WF_vars(GraceNext(t))
CapFairness(s) == WF_vars(CapNext(s))

Fairness ==
    /\ MainFairness
    /\ \A c \in Conns : ConnFairness(c)
    /\ \A t \in GraceTimers : GraceFairness(t)
    /\ \A s \in CapTimers : CapFairness(s)

FairSpec == Spec /\ Fairness

(* The same system with timers, seconds to hours long, that fire only while  *)
(* no hook is under way: a counterexample then needs no more than a callback *)
(* goroutine that is scheduled a moment late. *)
PromptHooks ==
    (\/ \E t \in GraceTimers : grace[t] = "armed" /\ grace'[t] = "fired"
     \/ \E s \in CapTimers : cap[s] = "armed" /\ cap'[s] = "fired")
    => \A c \in Conns : hook[c] \in {"none", "open"}

PromptSpec == Init /\ [][Next /\ PromptHooks]_vars

-----------------------------------------------------------------------------
(* A connection past its wake-up (being registered or served) never sees the *)
(* process asleep or tuned down: trySleep cannot park underneath it, however *)
(* its callback interleaves with the accept and close hooks (connState, wake, *)
(* trySleep). *)
NoServingAsleep == Served # {} => ~sleeping /\ profile = "full"

(* A process that is awake without a connection is on its way to sleep: the  *)
(* close that took the counter to zero has still to arm the grace timer, or  *)
(* the gate holds a handle whose callback will come. A stale trySleep or a   *)
(* reconnect may drop the handle, but never the last one (scheduleSleep,     *)
(* wake, trySleep). *)
IdleAwakeWillPark ==
    (Running /\ conns = 0 /\ ~sleeping) =>
        \/ \E c \in Conns : hook[c] = "schedule"
        \/ timer \in GraceTimers /\ grace[timer] \in {"armed", "fired"}

(* No open connection can slip past a forced session end: it is on the list *)
(* endSession will copy, on the list a running endSession is closing, or     *)
(* closed already (connState, endSession). *)
CapReachesEveryConn ==
    \A c \in Conns : hook[c] = "open" =>
        c \in liveConns \/ c \in doomed \/ \E s \in CapTimers : c \in victims[s]

(* What an exit can cost, since it can cost something (NeverExitsOnLive): no *)
(* connection whose StateNew hook got past wake(), and at most one that was  *)
(* accepted after trySleep's last load of the counter and is waiting for     *)
(* g.mu (connState, trySleep). *)
ExitLosesAtMostOne ==
    proc = "exited" => Served = {} /\ \A c, d \in Counted : c = d

(* With no connection left the process parks, exits or is connected again    *)
(* (scheduleSleep, trySleep). *)
IdleParks == (Running /\ conns = 0) ~> (sleeping \/ conns > 0)

(* Every connection a forced session end found live is closed (endSession). *)
VictimsLeave ==
    \A c \in Conns :
        (\E s \in CapTimers : c \in victims[s]) ~> (hook[c] # "open")

(* The connection that wakes the process is served although a park, with its *)
(* slow FreeOSMemory, may hold g.mu when it arrives; only an exit can take   *)
(* it down (wake, trySleep). *)
AcceptedIsServed ==
    \A c \in Conns : (hook[c] = "wake") ~> (hook[c] = "open" \/ proc = "exited")

-----------------------------------------------------------------------------
(* What comments and a test of idle.go say and the code does not keep. *)

(* "must never leave the process awake and uncapped" (armSessionLocked),      *)
(* "never awake without a session cap" (endSession): whoever is past wake()  *)
(* is under a pending cap, or an endSession is on its way or at work that    *)
(* will close it or arm the next cap. *)
ServedStaysCapped ==
    Served # {} =>
        sess # NoTimer \/ \E s \in CapTimers : cap[s] \in {"fired", "closing"}

(* "never exit on top of a live connection" (trySleep): when the process      *)
(* exits, no connection is counted, served or waiting in wake(). *)
NeverExitsOnLive == proc = "exited" => Counted = {}
=============================================================================
