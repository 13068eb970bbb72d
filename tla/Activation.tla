----------------------------- MODULE Activation -----------------------------
(***************************************************************************)
(* Lives of the process: systemd starts it, main gets a listener           *)
(* (listener.go, listener_linux.go), the idle gate serves connections and  *)
(* in the end the process exits; clients queue in the kernel meanwhile.    *)
(* With a .socket unit systemd holds the listening socket across the       *)
(* lives, so the queue survives an exit and starts the next life.          *)
(***************************************************************************)
EXTENDS Integers, Sequences, FiniteSets

CONSTANTS
    Conns, GraceTimers, CapTimers, NoTimer, EXIT_ON_IDLE,   \* IdleGate
    Deployments,    \* how the service may be set up
    Garbage,        \* a variable that is unset or not a number
    NoConn          \* no connection

(* What IdleGate assumes of its constants. *)
ASSUME GateAssumption ==
    /\ IsFiniteSet(Conns)
    /\ NoTimer \notin GraceTimers \cup CapTimers
    /\ EXIT_ON_IDLE \subseteq BOOLEAN

ASSUME NoConnIsNoConn == NoConn \notin Conns

(* Whether a systemd .socket unit holds BIND_ADDR, whether the build has     *)
(* listener_linux.go or the stub, and what a process finds when it starts:   *)
(* SOCKET_ACTIVATION=1, LISTEN_FDS, LISTEN_PID and descriptor 3: a listening *)
(* socket, a stream socket nobody listens on (a unit with Accept=yes passes  *)
(* one), or anything else. *)
Deployment ==
    [socketUnit : BOOLEAN, linux : BOOLEAN, optIn : BOOLEAN,
     fds : Int \cup {Garbage}, pid : {"mine", "other", Garbage},
     fd3 : {"listening", "socket", "other"}]

ASSUME DeploymentsOK == Deployments \subseteq Deployment

VARIABLES
    proc, hook, doomed, conns, liveConns, sleeping, timer, sess, exitOnIdle,
    profile, grace, cap, victims,
    want,        \* systemd wants the service: boot of a daemon, or a failure
    env,         \* the deployment, the same for all lives
    listener,    \* "none", "adopted" or "own"
    fd3,         \* descriptor 3 of the process: what it is, or "closed"
    backlog,     \* the accept queue of the listening socket
    activator,   \* the connection this life was started for, until it is served
    lost         \* connections the last exit took down

G == INSTANCE IdleGate

gateVars ==
    <<proc, hook, doomed, conns, liveConns, sleeping, timer, sess, exitOnIdle,
      profile, grace, cap, victims>>
lifeVars == <<want, env, listener, fd3, activator>>
netVars == <<backlog, lost>>
vars == <<gateVars, lifeVars, netVars>>

Queue == {backlog[i] : i \in DOMAIN backlog}

TypeOK ==
    /\ G!TypeOK
    /\ want \in BOOLEAN
    /\ env \in Deployments
    /\ listener \in {"none", "adopted", "own"}
    /\ fd3 \in {"listening", "socket", "other", "closed"}
    /\ activator \in Conns \cup {NoConn}
    /\ backlog \in Seq(Conns)
    /\ lost \subseteq Conns

-----------------------------------------------------------------------------
activatedBySystemd(e) ==
    /\ e.fds # Garbage /\ e.fds >= 1
    /\ e.pid = "mine"

(* systemdListener adopts nothing unless it was opted in to, and is a no-op  *)
(* off Linux. *)
TriesToAdopt(e) == e.linux /\ e.optIn /\ activatedBySystemd(e)

(* adoptListener: a descriptor net.FileListener cannot use is closed; it      *)
(* does not ask whether a socket listens. *)
Adopts == TriesToAdopt(env) /\ fd3 \in {"listening", "socket"}
Fd3Offered == IF TriesToAdopt(env) /\ ~Adopts THEN "closed" ELSE fd3

(* Listen: adopt, else bind, which cannot succeed while systemd holds the    *)
(* address and may fail for other reasons; main then ends with status 1. *)
ListenReturns(ln) ==
    /\ proc = "start" /\ listener = "none"
    /\ ln = "adopted" <=> Adopts
    /\ ln = "own" => ~env.socketUnit
    /\ listener' = ln
    /\ fd3' = Fd3Offered
    /\ proc' = IF ln = "none" THEN "exited" ELSE proc
    /\ want' = (want \/ ln = "none")
    /\ UNCHANGED <<hook, doomed, conns, liveConns, sleeping, timer, sess, exitOnIdle,
                   profile, grace, cap, victims, env, activator, netVars>>

Listen == \E ln \in {"adopted", "own", "none"} : ListenReturns(ln)

Configure == listener # "none" /\ G!Configure /\ UNCHANGED <<lifeVars, netVars>>

(* enterSleep without a refresher; the process goes on to Serve. *)
BootSleep == G!BootSleep /\ UNCHANGED <<lifeVars, netVars>>

(* A new life: systemd starts the service for a queued connection, at boot,  *)
(* or again after a failure. *)
Start ==
    /\ proc = "exited"
    /\ want \/ (env.socketUnit /\ backlog # <<>>)
    /\ want' = FALSE
    /\ fd3' = env.fd3
    /\ listener' = "none"
    /\ activator' = IF backlog = <<>> THEN NoConn ELSE Head(backlog)
    /\ proc' = "start"
    /\ hook' = [c \in Conns |-> "none"]
    /\ doomed' = {} /\ conns' = 0 /\ liveConns' = {} /\ sleeping' = FALSE
    /\ timer' = NoTimer /\ sess' = NoTimer /\ exitOnIdle' = FALSE /\ profile' = "full"
    /\ grace' = [t \in GraceTimers |-> "free"]
    /\ cap' = [s \in CapTimers |-> "free"]
    /\ victims' = [s \in CapTimers |-> {}]
    /\ UNCHANGED <<env, netVars>>

-----------------------------------------------------------------------------
(* The kernel queues a client wherever somebody listens. *)
Connect(c) ==
    /\ env.socketUnit \/ (proc # "exited" /\ listener = "own")
    /\ c \notin Queue
    /\ proc = "exited" \/ hook[c] = "none"
    /\ backlog' = Append(backlog, c)
    /\ lost' = lost \ {c}
    /\ UNCHANGED <<gateVars, lifeVars>>

(* The listener is a socket on which accept fails. *)
Deaf == listener = "adopted" /\ fd3 = "socket"

(* Serve accepts in the order of the queue. *)
Accept(c) ==
    /\ ~Deaf
    /\ backlog # <<>> /\ c = Head(backlog)
    /\ G!Accept(c)
    /\ backlog' = Tail(backlog)
    /\ UNCHANGED <<lifeVars, lost>>

(* Serve returns the error of its first accept, and main ends with status 1. *)
ServeFails ==
    /\ proc = "serving" /\ Deaf
    /\ proc' = "exited"
    /\ want' = TRUE
    /\ UNCHANGED <<hook, doomed, conns, liveConns, sleeping, timer, sess, exitOnIdle,
                   profile, grace, cap, victims, env, listener, fd3, activator, netVars>>

Register(c) ==
    /\ G!Register(c)
    /\ activator' = IF activator = c THEN NoConn ELSE activator
    /\ UNCHANGED <<want, env, listener, fd3, netVars>>

(* os.Exit(0) resets what was accepted; a socket of its own dies with the    *)
(* process, and its queue with it. *)
Exit(t) ==
    /\ G!Exit(t)
    /\ LET own == listener = "own"
       IN  /\ lost' = G!Counted \cup (IF own THEN Queue ELSE {})
           /\ backlog' = IF own THEN <<>> ELSE backlog
    /\ UNCHANGED lifeVars

GateStep ==
    /\ \/ \E c \in Conns :
             G!Wake(c) \/ G!Close(c) \/ G!ScheduleSleep(c) \/ G!Unregister(c)
       \/ \E t \in GraceTimers :
             G!GraceFires(t) \/ G!TrySleep(t) \/ G!Park(t) \/ G!Scavenge(t) \/ G!Decide(t)
       \/ \E s \in CapTimers : G!CapNext(s)
    /\ UNCHANGED <<lifeVars, netVars>>

-----------------------------------------------------------------------------
(* Before the first life. A .socket unit starts nothing at boot. *)
Init ==
    /\ proc = "exited"
    /\ hook = [c \in Conns |-> "none"]
    /\ doomed = {} /\ conns = 0 /\ liveConns = {} /\ sleeping = FALSE
    /\ timer = NoTimer /\ sess = NoTimer /\ exitOnIdle = FALSE /\ profile = "full"
    /\ grace = [t \in GraceTimers |-> "free"]
    /\ cap = [s \in CapTimers |-> "free"]
    /\ victims = [s \in CapTimers |-> {}]
    /\ env \in Deployments
    /\ want = ~env.socketUnit
    /\ listener = "none"
    /\ fd3 = env.fd3
    /\ backlog = <<>>
    /\ activator = NoConn
    /\ lost = {}

Next ==
    \/ Start
    \/ Listen \/ Configure \/ BootSleep \/ ServeFails
    \/ \E c \in Conns : Connect(c) \/ Accept(c) \/ Register(c)
    \/ \E t \in GraceTimers : Exit(t)
    \/ GateStep

Spec == Init /\ [][Next]_vars

(* systemd starts what it should, main and Serve go on, and the gate's own   *)
(* fairness. Nothing is assumed of clients. *)
MainFairness ==
    /\ WF_vars(Start) /\ WF_vars(Listen) /\ WF_vars(Configure) /\ WF_vars(BootSleep)
    /\ WF_vars(ServeFails)

AcceptNext == \E c \in Conns : Accept(c)
AcceptFairness == WF_vars(AcceptNext)

ConnFairness(c) ==
    /\ WF_vars(G!Wake(c) /\ UNCHANGED <<lifeVars, netVars>>)
    /\ WF_vars(Register(c))
    /\ WF_vars(G!ScheduleSleep(c) /\ UNCHANGED <<lifeVars, netVars>>)
    /\ WF_vars(G!Unregister(c) /\ UNCHANGED <<lifeVars, netVars>>)
    /\ WF_vars(c \in doomed /\ G!Close(c) /\ UNCHANGED <<lifeVars, netVars>>)

GraceTurn(t) ==
    \/ Exit(t)
    \/ ~G!Exit(t) /\ G!GraceNext(t) /\ UNCHANGED <<lifeVars, netVars>>
GraceFairness(t) == WF_vars(GraceTurn(t))

CapFairness(s) == WF_vars(G!CapNext(s) /\ UNCHANGED <<lifeVars, netVars>>)

Fairness ==
    /\ MainFairness
    /\ AcceptFairness
    /\ \A c \in Conns : ConnFairness(c)
    /\ \A t \in GraceTimers : GraceFairness(t)
    /\ \A s \in CapTimers : CapFairness(s)

FairSpec == Spec /\ Fairness

-----------------------------------------------------------------------------
(* "The pending connection that socket activation started the service for is *)
(* always served first": a life ends well only after its activator was       *)
(* registered (ExitOnIdle, BootSleep, trySleep). *)
ActivatorServedFirst == (proc = "exited" /\ ~want) => activator = NoConn

(* Whoever is queued is served in this life or a later one, or is among those *)
(* an exit took down; nobody starves in front of a service that keeps exiting *)
(* (BootSleep, trySleep, Listen). A .socket unit whose service does not adopt *)
(* a listening socket cannot work. *)
QueuedIsServed ==
    \A c \in Conns :
        (c \in Queue /\ (env.socketUnit => Adopts /\ fd3 = "listening"))
            ~> (c \in lost \/ (proc = "serving" /\ hook[c] = "open"))

(* "No connection, no process": a socket-activated process without a         *)
(* connection exits or is connected again (trySleep, ExitOnIdle). *)
IdleExits ==
    (proc = "serving" /\ conns = 0 /\ listener = "adopted") ~> (proc = "exited" \/ conns > 0)
=============================================================================
