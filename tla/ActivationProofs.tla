-------------------------- MODULE ActivationProofs --------------------------
(***************************************************************************)
(* What holds of every life of the process, for every number of            *)
(* connections and timers and every set of deployments.                    *)
(***************************************************************************)
EXTENDS Activation, TLAPS

GP == INSTANCE IdleGateProofs

(* While the process lives the gate keeps its own invariant. *)
GateOK == proc # "exited" => GP!IInv

(* Until the activator is registered it is the next to be accepted, or being *)
(* accepted, and nobody else has come this far, so no park was scheduled. *)
ActivatorNext ==
    (activator # NoConn /\ proc # "exited") =>
        /\ \A t \in GraceTimers : grace[t] = "free"
        /\ \A c \in Conns : c # activator => hook[c] = "none"
        /\ hook[activator] \in {"none", "wake", "register"}
        /\ hook[activator] = "none" => backlog # <<>> /\ Head(backlog) = activator

IInv == TypeOK /\ GateOK /\ ActivatorNext /\ ActivatorServedFirst

-----------------------------------------------------------------------------
(* What IdleGateProofs assumes, for this instance. *)
LEMMA GateFinite == GP!IsFiniteSet(Conns)
  BY GateAssumption DEF IsFiniteSet, GP!IsFiniteSet

(* The gate as IdleGateProofs has it. *)
LEMMA SameTypeOK == G!TypeOK <=> GP!TypeOK
  BY DEF G!TypeOK, GP!TypeOK, G!HookStates, GP!HookStates, G!GraceStates, GP!GraceStates,
         G!LockStates, GP!LockStates, G!CapStates, GP!CapStates

(* The steps of the gate are those IdleGateProofs is about. *)
LEMMA SameConnNext == \A c \in Conns : G!ConnNext(c) => GP!ConnNext(c)
  BY DEF G!ConnNext, GP!ConnNext, G!Accept, GP!Accept, G!Wake, GP!Wake, G!Register, GP!Register,
         G!Close, GP!Close, G!ScheduleSleep, GP!ScheduleSleep, G!Unregister, GP!Unregister,
         G!Running, GP!Running, G!AcceptFree, GP!AcceptFree, G!graceVars, GP!graceVars,
         G!capVars, GP!capVars, G!modeVars, GP!modeVars, G!mainVars, GP!mainVars,
         G!Unlocked, GP!Unlocked, G!LockStates, GP!LockStates, G!StopGrace, GP!StopGrace,
         G!Stopped, GP!Stopped, G!ArmSessionLocked, GP!ArmSessionLocked

(* The same for the grace timers, ... *)
LEMMA SameGraceNext == \A t \in GraceTimers : G!GraceNext(t) => GP!GraceNext(t)
  BY DEF G!GraceNext, GP!GraceNext, G!GraceFires, GP!GraceFires, G!TrySleep, GP!TrySleep,
         G!Park, GP!Park, G!Scavenge, GP!Scavenge, G!Decide, GP!Decide, G!Exit, GP!Exit,
         G!Running, GP!Running, G!connVars, GP!connVars, G!graceVars, GP!graceVars,
         G!capVars, GP!capVars, G!modeVars, GP!modeVars, G!mainVars, GP!mainVars,
         G!NoConns, GP!NoConns, G!Unlocked, GP!Unlocked, G!LockStates, GP!LockStates,
         G!StopCap, GP!StopCap, G!Stopped, GP!Stopped

(* ... the session cap, ... *)
LEMMA SameCapNext == \A s \in CapTimers : G!CapNext(s) => GP!CapNext(s)
  BY DEF G!CapNext, GP!CapNext, G!CapFires, GP!CapFires, G!EndSession, GP!EndSession,
         G!ForceClose, GP!ForceClose, G!Rearm, GP!Rearm, G!ArmSessionLocked, GP!ArmSessionLocked,
         G!Running, GP!Running, G!connVars, GP!connVars, G!graceVars, GP!graceVars,
         G!modeVars, GP!modeVars, G!mainVars, GP!mainVars, G!Unlocked, GP!Unlocked,
         G!LockStates, GP!LockStates

(* The same for main. *)
LEMMA SameMain == (G!Configure => GP!Configure) /\ (G!BootSleep => GP!BootSleep)
  BY DEF G!Configure, GP!Configure, G!BootSleep, GP!BootSleep, G!connVars, GP!connVars,
         G!graceVars, GP!graceVars, G!capVars, GP!capVars, G!modeVars, GP!modeVars,
         G!Unlocked, GP!Unlocked, G!LockStates, GP!LockStates, G!StopGrace, GP!StopGrace,
         G!StopCap, GP!StopCap, G!Stopped, GP!Stopped

(* So a step of the gate keeps its invariant. *)
LEMMA GateKept ==
    ASSUME GP!IInv,
           \/ G!Configure \/ G!BootSleep
           \/ \E c \in Conns : G!ConnNext(c)
           \/ \E t \in GraceTimers : G!GraceNext(t)
           \/ \E s \in CapTimers : G!CapNext(s)
    PROVE  GP!IInv'
<1>1. GP!Next
  BY SameConnNext, SameGraceNext, SameCapNext, SameMain DEF GP!Next
<1> QED
  BY <1>1, GP!NextIInv, GateFinite, GateAssumption

(* A life begins in the invariant of the gate. *)
LEMMA GateInit == GP!Init => GP!IInv
  BY GP!InitIInv, GateFinite, GateAssumption

(* A step that leaves the gate alone leaves its invariant alone. *)
LEMMA GateSame ==
    ASSUME GP!IInv, UNCHANGED gateVars
    PROVE  GP!IInv'
<1>1. UNCHANGED GP!vars
  BY DEF gateVars, GP!vars, GP!connVars, GP!graceVars, GP!capVars, GP!modeVars, GP!mainVars
<1> QED
  BY <1>1, GP!NextIInv, GateFinite, GateAssumption

-----------------------------------------------------------------------------
(* Nothing has happened before the first life. *)
LEMMA InitIInv == Init => IInv
<1> SUFFICES ASSUME Init PROVE IInv
  OBVIOUS
<1>1. G!TypeOK
  BY DEF Init, G!TypeOK, G!HookStates, G!GraceStates, G!LockStates, G!CapStates
<1>2. env \in Deployment
  BY DeploymentsOK DEF Init
<1>3. TypeOK
  BY <1>1, <1>2 DEF Init, TypeOK, Deployment
<1> QED
  BY <1>3 DEF Init, IInv, GateOK, ActivatorNext, ActivatorServedFirst

(* A new life: the gate is as it was when main first started. *)
LEMMA StartStep ==
    ASSUME IInv, Start
    PROVE  IInv'
<1>1. GP!Init'
  BY DEF Start, GP!Init
<1>2. GP!IInv'
  BY <1>1, GateInit, PTL
<1>3. G!TypeOK'
  BY DEF Start, G!TypeOK, G!HookStates, G!GraceStates, G!LockStates, G!CapStates
<1>4. env \in Deployment /\ backlog \in Seq(Conns)
  BY DeploymentsOK DEF IInv, TypeOK
<1>5. TypeOK'
  <2>1. backlog # <<>> => Head(backlog) \in Conns
    BY <1>4
  <2>2. activator' \in Conns \cup {NoConn}
    BY <2>1 DEF Start
  <2>3. fd3' \in {"listening", "socket", "other"}
    BY <1>4 DEF Start, Deployment
  <2> QED
    BY <1>3, <2>2, <2>3 DEF IInv, TypeOK, Start, netVars
<1>6. ActivatorNext'
  <2>1. backlog # <<>> => Head(backlog) \in Conns
    BY <1>4
  <2> QED
    BY <2>1, NoConnIsNoConn DEF ActivatorNext, Start, netVars
<1> QED
  BY <1>2, <1>5, <1>6 DEF IInv, GateOK, ActivatorServedFirst, Start

(* Listen: with a listener the life goes on, without one it failed. *)
LEMMA ListenStep ==
    ASSUME IInv, Listen
    PROVE  IInv'
<1>0. PICK ln \in {"adopted", "own", "none"} : ListenReturns(ln)
  BY DEF Listen
<1> USE <1>0 DEF ListenReturns
<1>1. TypeOK'
  BY DEF IInv, TypeOK, G!TypeOK, Fd3Offered, netVars
<1>2. GateOK'
  <2>1. CASE ln = "none"
    BY <2>1 DEF GateOK
  <2>2. CASE ln # "none"
    BY <2>2, GateSame DEF IInv, GateOK, gateVars
  <2> QED
    BY <2>1, <2>2
<1>3. ActivatorNext'
  BY DEF IInv, ActivatorNext, netVars
<1>4. ActivatorServedFirst'
  BY DEF ActivatorServedFirst
<1> QED
  BY <1>1, <1>2, <1>3, <1>4 DEF IInv

(* A life that ends in an error of Serve is wanted again. *)
LEMMA ServeFailsStep ==
    ASSUME IInv, ServeFails
    PROVE  IInv'
  BY DEF IInv, ServeFails, TypeOK, G!TypeOK, GateOK, ActivatorNext, ActivatorServedFirst, netVars

(* A client joins the queue at its end. *)
LEMMA ConnectStep ==
    ASSUME IInv, NEW c \in Conns, Connect(c)
    PROVE  IInv'
<1> USE DEF Connect
<1>0. backlog \in Seq(Conns)
  BY DEF IInv, TypeOK
<1>1. TypeOK'
  BY <1>0 DEF IInv, TypeOK, G!TypeOK, gateVars, lifeVars
<1>2. GateOK'
  BY GateSame DEF IInv, GateOK, gateVars
<1>3. backlog # <<>> => backlog' # <<>> /\ Head(backlog') = Head(backlog)
  BY <1>0
<1>4. ActivatorNext'
  BY <1>3 DEF IInv, ActivatorNext, gateVars, lifeVars
<1>5. ActivatorServedFirst'
  BY DEF IInv, ActivatorServedFirst, gateVars, lifeVars
<1> QED
  BY <1>1, <1>2, <1>4, <1>5 DEF IInv

(* What is left to show of a step of a process that lives on. *)
LEMMA LivingStep ==
    ASSUME IInv, GP!IInv', proc' # "exited", ActivatorNext', UNCHANGED <<want, env, listener, fd3>>,
           activator' \in {activator, NoConn}, backlog' \in Seq(Conns), UNCHANGED lost
    PROVE  IInv'
<1>1. GP!TypeOK'
  BY DEF GP!IInv
<1>2. G!TypeOK'
  BY <1>1, SameTypeOK, PTL
<1>3. TypeOK'
  BY <1>2 DEF IInv, TypeOK
<1>4. ActivatorServedFirst'
  BY DEF IInv, ActivatorServedFirst
<1> QED
  BY <1>3, <1>4 DEF IInv, GateOK

(* main goes on to Serve. *)
LEMMA MainStep ==
    ASSUME IInv, Configure \/ BootSleep
    PROVE  IInv'
<1>0. proc # "exited" /\ proc' # "exited" /\ UNCHANGED hook /\ UNCHANGED <<lifeVars, netVars>>
  BY DEF Configure, BootSleep, G!Configure, G!BootSleep, G!connVars
<1>1. GP!IInv'
  BY <1>0, GateKept DEF IInv, GateOK, Configure, BootSleep
<1>2. grace \in [GraceTimers -> G!GraceStates]
  BY DEF IInv, TypeOK, G!TypeOK
<1>3. \A t \in GraceTimers : grace[t] = "free" => grace'[t] = "free"
  BY <1>2 DEF Configure, BootSleep, G!Configure, G!BootSleep, G!graceVars, G!StopGrace, G!Stopped
<1>4. ActivatorNext'
  BY <1>0, <1>3 DEF IInv, ActivatorNext, lifeVars, netVars
<1> QED
  BY <1>0, <1>1, <1>4, LivingStep DEF IInv, TypeOK, lifeVars, netVars

(* Serve accepts the activator first. *)
LEMMA AcceptStep ==
    ASSUME IInv, NEW c \in Conns, Accept(c)
    PROVE  IInv'
<1>0. /\ proc = "serving" /\ proc' = proc /\ UNCHANGED grace
      /\ backlog # <<>> /\ c = Head(backlog) /\ backlog' = Tail(backlog)
      /\ UNCHANGED <<want, env, listener, fd3, activator, lost>>
  BY DEF Accept, G!Accept, G!Running, G!mainVars, G!graceVars, lifeVars
<1>1. GP!IInv'
  BY <1>0, GateKept DEF IInv, GateOK, Accept, G!ConnNext
<1>2. hook \in [Conns -> G!HookStates] /\ backlog \in Seq(Conns)
  BY DEF IInv, TypeOK, G!TypeOK
<1>3. backlog' \in Seq(Conns)
  BY <1>0, <1>2
<1>4. ActivatorNext'
  <2>1. SUFFICES ASSUME activator # NoConn PROVE ActivatorNext'
    BY <1>0 DEF ActivatorNext
  <2>2. hook[activator] = "none" /\ activator = c
    BY <1>0, <2>1 DEF IInv, ActivatorNext, Accept, G!Accept, G!AcceptFree, TypeOK
  <2>3. PICK h \in {"wake", "register"} : hook' = [hook EXCEPT ![c] = h]
    BY DEF Accept, G!Accept
  <2> QED
    BY <1>0, <1>2, <2>1, <2>2, <2>3 DEF IInv, ActivatorNext
<1> QED
  BY <1>0, <1>1, <1>3, <1>4, LivingStep

(* The activator is the first to be registered. *)
LEMMA RegisterStep ==
    ASSUME IInv, NEW c \in Conns, Register(c)
    PROVE  IInv'
<1>0. /\ proc = "serving" /\ proc' = proc /\ hook[c] = "register"
      /\ activator' = IF activator = c THEN NoConn ELSE activator
      /\ UNCHANGED <<want, env, listener, fd3, backlog, lost>>
  BY DEF Register, G!Register, G!Running, G!mainVars, netVars
<1>1. GP!IInv'
  BY <1>0, GateKept DEF IInv, GateOK, Register, G!ConnNext
<1>2. activator' = NoConn
  BY <1>0 DEF IInv, ActivatorNext
<1>3. ActivatorNext'
  BY <1>2 DEF ActivatorNext
<1> QED
  BY <1>0, <1>1, <1>2, <1>3, LivingStep DEF IInv, TypeOK

(* A process exits from a park, and none was possible before the activator   *)
(* was registered. *)
LEMMA ExitStep ==
    ASSUME IInv, NEW t \in GraceTimers, Exit(t)
    PROVE  IInv'
<1>0. /\ proc = "serving" /\ proc' = "exited" /\ grace[t] = "exiting"
      /\ UNCHANGED <<want, env, listener, fd3, activator>>
  BY DEF Exit, G!Exit, G!Running, lifeVars
<1>1. GP!IInv'
  BY <1>0, GateKept DEF IInv, GateOK, Exit, G!GraceNext
<1>2. activator = NoConn
  BY <1>0 DEF IInv, ActivatorNext
<1>3. G!TypeOK'
  <2>1. GP!TypeOK'
    BY <1>1 DEF GP!IInv
  <2> QED
    BY <2>1, SameTypeOK, PTL
<1>4. backlog' \in Seq(Conns) /\ lost' \subseteq Conns
  <2>1. backlog \in Seq(Conns) /\ Queue \subseteq Conns
    BY DEF IInv, TypeOK, Queue
  <2> QED
    BY <2>1 DEF Exit, G!Counted
<1>5. TypeOK'
  BY <1>0, <1>3, <1>4 DEF IInv, TypeOK
<1> QED
  BY <1>0, <1>2, <1>5
  DEF IInv, GateOK, ActivatorNext, ActivatorServedFirst

(* The other steps of the gate. *)
LEMMA GateStepKept ==
    ASSUME IInv, GateStep
    PROVE  IInv'
<1>0. proc = "serving" /\ proc' = proc /\ UNCHANGED <<lifeVars, netVars>>
  BY DEF GateStep, G!Wake, G!Close, G!ScheduleSleep, G!Unregister, G!GraceFires, G!TrySleep, G!Park,
     G!Scavenge, G!Decide, G!CapNext, G!CapFires, G!EndSession, G!ForceClose, G!Rearm,
     G!Running, G!mainVars
<1>1. GP!IInv'
  BY <1>0, GateKept DEF IInv, GateOK, GateStep, G!ConnNext, G!GraceNext
<1>2. hook \in [Conns -> G!HookStates] /\ grace \in [GraceTimers -> G!GraceStates]
  BY DEF IInv, TypeOK, G!TypeOK
<1>3. ActivatorNext'
  <2>1. SUFFICES ASSUME activator # NoConn PROVE ActivatorNext'
    BY <1>0 DEF ActivatorNext, lifeVars
  <2>2. /\ \A t \in GraceTimers : grace[t] = "free"
        /\ \A c \in Conns : c # activator => hook[c] = "none"
        /\ hook[activator] \in {"none", "wake", "register"}
        /\ hook[activator] = "none" => backlog # <<>> /\ Head(backlog) = activator
    BY <1>0, <2>1 DEF IInv, ActivatorNext
  <2>3. ASSUME NEW c \in Conns, G!Wake(c) PROVE ActivatorNext'
    <3>1. c = activator /\ hook' = [hook EXCEPT ![c] = "register"]
      BY <2>2, <2>3 DEF G!Wake
    <3>2. \A t \in GraceTimers : grace'[t] = "free"
      BY <1>2, <2>2, <2>3 DEF G!Wake, G!StopGrace, G!Stopped
    <3> QED
      BY <1>0, <1>2, <2>2, <3>1, <3>2 DEF ActivatorNext, lifeVars, netVars
  <2>4. \A c \in Conns : ~(G!Close(c) \/ G!ScheduleSleep(c) \/ G!Unregister(c))
    BY <2>2 DEF G!Close, G!ScheduleSleep, G!Unregister
  <2>5. \A t \in GraceTimers :
           ~(G!GraceFires(t) \/ G!TrySleep(t) \/ G!Park(t) \/ G!Scavenge(t) \/ G!Decide(t))
    BY <2>2 DEF G!GraceFires, G!TrySleep, G!Park, G!Scavenge, G!Decide
  <2>6. ASSUME NEW s \in CapTimers, G!CapNext(s) PROVE ActivatorNext'
    <3>1. UNCHANGED <<hook, grace>>
      BY <2>6 DEF G!CapNext, G!CapFires, G!EndSession, G!ForceClose, G!Rearm, G!connVars, G!graceVars
    <3> QED
      BY <1>0, <2>2, <3>1 DEF ActivatorNext, lifeVars, netVars
  <2> QED
    BY <2>3, <2>4, <2>5, <2>6 DEF GateStep
<1> QED
  BY <1>0, <1>1, <1>3, LivingStep DEF IInv, TypeOK, lifeVars, netVars

(* Every step of every life keeps the invariant. *)
LEMMA NextIInv == IInv /\ [Next]_vars => IInv'
<1> SUFFICES ASSUME IInv, [Next]_vars PROVE IInv'
  OBVIOUS
<1>1. CASE UNCHANGED vars
  <2>1. UNCHANGED <<gateVars, lifeVars, netVars>>
    BY <1>1 DEF vars
  <2>2. GateOK'
    BY <2>1, GateSame DEF IInv, GateOK, gateVars
  <2>3. TypeOK'
    BY <2>1 DEF IInv, TypeOK, G!TypeOK, gateVars, lifeVars, netVars
  <2> QED
    BY <2>1, <2>2, <2>3 DEF IInv, ActivatorNext, ActivatorServedFirst,
       gateVars, lifeVars, netVars
<1>2. CASE Next
  BY <1>2, StartStep, ListenStep, ServeFailsStep, MainStep, ConnectStep, AcceptStep, RegisterStep, ExitStep,
     GateStepKept DEF Next
<1> QED
  BY <1>1, <1>2

(* The invariant holds throughout. *)
LEMMA Invariance == Spec => []IInv
  BY InitIInv, NextIInv, PTL DEF Spec

-----------------------------------------------------------------------------
(* Every life keeps its types, the gate's included. *)
THEOREM TypeCorrect == Spec => []TypeOK
<1>1. IInv => TypeOK
  BY DEF IInv
<1> QED
  BY <1>1, Invariance, PTL

(* A life that ends well has served the connection it was started for,       *)
(* however many lives, connections and timers there are (ExitOnIdle,         *)
(* BootSleep, trySleep). *)
THEOREM ActivatorIsServedFirst == Spec => []ActivatorServedFirst
<1>1. IInv => ActivatorServedFirst
  BY DEF IInv
<1> QED
  BY <1>1, Invariance, PTL

-----------------------------------------------------------------------------
(* The deployment whose service adopts descriptor 3 and can serve it. *)
Adopting == TriesToAdopt(env) /\ env.fd3 = "listening"

(* Only systemd passes a socket on, so only a .socket unit makes a process   *)
(* adopt one, and its service exits on idle (systemd-socket.nix). *)
ExitingService ==
    /\ \A d \in Deployments : TriesToAdopt(d) /\ d.fd3 = "listening" => d.socketUnit
    /\ EXIT_ON_IDLE = {TRUE}

(* Every life of such a service has an activator, and a process that is      *)
(* asleep still waits for it, is in a park that ends in an exit, or is being *)
(* woken. *)
ActivatedLives ==
    /\ Adopting => ~want /\ fd3 = "listening"
    /\ Adopting /\ proc \in {"start", "configured"} => activator # NoConn
    /\ listener = "adopted" => Adopting \/ Deaf
    /\ proc = "start" /\ listener = "none" => fd3 = env.fd3
ConfiguredExits == proc \in {"configured", "serving"} => exitOnIdle
Locked == \E t \in GraceTimers : grace[t] \in G!LockStates
AsleepOnItsWay ==
    Adopting /\ proc = "serving" /\ sleeping =>
        activator # NoConn \/ Locked \/ \E c \in Conns : hook[c] = "wake"

ExitInv == ActivatedLives /\ ConfiguredExits /\ AsleepOnItsWay

(* The gate's invariant, with the facts of it that are needed below: who is  *)
(* served is awake, and the counter is zero when nobody is counted. *)
LEMMA GateFacts ==
    ASSUME IInv, proc # "exited"
    PROVE  /\ hook \in [Conns -> G!HookStates] /\ grace \in [GraceTimers -> G!GraceStates]
           /\ conns \in Nat /\ sleeping \in BOOLEAN
           /\ conns = 0 <=> \A c \in Conns : hook[c] \notin {"wake", "register", "open"}
           /\ \A c \in Conns : hook[c] \in {"register", "open"} => ~sleeping
           /\ Locked => sleeping
<1>1. GP!IInv
  BY DEF IInv, GateOK
<1>2. GP!TypeOK /\ GP!ServedAwake /\ GP!LockedAsleep /\ GP!CountOK
  BY <1>1 DEF GP!IInv
<1>3. conns = 0 <=> \A c \in Conns : hook[c] \notin GP!CountedStates
  BY <1>2, GP!CountedFacts, GateFinite, GateAssumption
<1>4. G!LockStates = GP!LockStates
  BY DEF G!LockStates, GP!LockStates
<1> QED
  BY <1>2, <1>3, <1>4 DEF GP!CountedStates, GP!ServedAwake, GP!ServedStates, GP!LockedAsleep, Locked,
     IInv, TypeOK, G!TypeOK

(* A step of a life that leaves the deployment, the activator and the        *)
(* listener alone. *)
LEMMA ExitInvKept ==
    ASSUME ExitInv, UNCHANGED <<want, env, listener, fd3, activator, exitOnIdle>>,
           proc' = proc \/ proc' = "exited",
           AsleepOnItsWay'
    PROVE  ExitInv'
  BY DEF ExitInv, ActivatedLives, ConfiguredExits, Adopting, Deaf, TriesToAdopt, activatedBySystemd

(* main, and systemd. *)
LEMMA ExitInvMain ==
    ASSUME IInv, ExitInv, ExitingService, Start \/ Listen \/ Configure \/ BootSleep \/ ServeFails
    PROVE  ExitInv'
<1>0. env \in Deployments /\ backlog \in Seq(Conns) /\ fd3 \in {"listening", "socket", "other", "closed"}
  BY DEF IInv, TypeOK
<1>1. env' = env /\ (Adopting <=> Adopting')
  BY DEF Start, Listen, ListenReturns, Configure, BootSleep, ServeFails, lifeVars, Adopting, TriesToAdopt,
     activatedBySystemd
<1>2. CASE Start
  <2>1. Adopting => backlog # <<>>
    BY <1>0, <1>2 DEF Start, ExitInv, ActivatedLives
  <2>2. backlog # <<>> => Head(backlog) \in Conns
    BY <1>0
  <2> QED
    BY <1>1, <1>2, <2>1, <2>2, NoConnIsNoConn
    DEF Start, ExitInv, ActivatedLives, ConfiguredExits, AsleepOnItsWay, Adopting, Deaf
<1>3. CASE Listen
  <2>1. PICK ln \in {"adopted", "own", "none"} : ListenReturns(ln)
    BY <1>3 DEF Listen
  <2>2. fd3 = env.fd3
    BY <2>1 DEF ListenReturns, ExitInv, ActivatedLives
  <2>3. Adopts => Adopting \/ fd3 = "socket"
    BY <2>2 DEF Adopts, Adopting
  <2>4. Adopts => fd3' = fd3
    BY <2>1 DEF ListenReturns, Fd3Offered
  <2>5. listener' = "adopted" => Adopting' \/ Deaf'
    BY <1>1, <2>1, <2>3, <2>4 DEF ListenReturns, Deaf
  <2>6. Adopting => Adopts /\ ~want
    BY <2>2 DEF Adopting, Adopts, ExitInv, ActivatedLives
  <2> QED
    BY <1>1, <2>1, <2>4, <2>5, <2>6
    DEF ListenReturns, ExitInv, ActivatedLives, ConfiguredExits, AsleepOnItsWay
<1>4. CASE Configure
  BY <1>1, <1>4 DEF Configure, G!Configure, lifeVars, ExitInv, ActivatedLives, ConfiguredExits,
     AsleepOnItsWay, ExitingService, Deaf
<1>5. CASE BootSleep
  BY <1>1, <1>5 DEF BootSleep, G!BootSleep, lifeVars, ExitInv, ActivatedLives, ConfiguredExits,
     AsleepOnItsWay, Deaf
<1>6. CASE ServeFails
  BY <1>1, <1>6 DEF ServeFails, ExitInv, ActivatedLives, ConfiguredExits, AsleepOnItsWay, Deaf
<1> QED
  BY <1>2, <1>3, <1>4, <1>5, <1>6

(* The gate's steps.  Only a waker is counted while the process sleeps, so a *)
(* park that does not exit leaves one behind. *)
LEMMA ExitInvGate ==
    ASSUME IInv, ExitInv, ExitingService, GateStep
    PROVE  ExitInv'
<1>0. /\ proc = "serving" /\ proc' = proc
      /\ UNCHANGED <<want, env, listener, fd3, activator, exitOnIdle>>
  BY DEF GateStep, G!Wake, G!Close, G!ScheduleSleep, G!Unregister, G!GraceFires, G!TrySleep, G!Park,
     G!Scavenge, G!Decide, G!CapNext, G!CapFires, G!EndSession, G!ForceClose, G!Rearm,
     G!Running, G!mainVars, lifeVars
<1>1. /\ hook \in [Conns -> G!HookStates] /\ grace \in [GraceTimers -> G!GraceStates]
      /\ conns = 0 <=> \A c \in Conns : hook[c] \notin {"wake", "register", "open"}
      /\ \A c \in Conns : hook[c] \in {"register", "open"} => ~sleeping
      /\ exitOnIdle
  BY <1>0, GateFacts DEF ExitInv, ConfiguredExits
<1> SUFFICES ASSUME Adopting, sleeping', activator = NoConn
             PROVE  Locked' \/ \E c \in Conns : hook'[c] = "wake"
  <2>1. Adopting' <=> Adopting
    BY <1>0 DEF Adopting
  <2>2. AsleepOnItsWay'
    BY <1>0, <2>1 DEF AsleepOnItsWay
  <2> QED
    BY <1>0, <2>2, ExitInvKept
<1>2. sleeping => Locked \/ \E c \in Conns : hook[c] = "wake"
  BY <1>0 DEF ExitInv, AsleepOnItsWay
<1>3. ASSUME NEW c \in Conns, G!Wake(c) PROVE FALSE
  BY <1>3 DEF G!Wake
<1>4. ASSUME NEW c \in Conns, G!Close(c) PROVE FALSE
  BY <1>1, <1>4 DEF G!Close, G!modeVars
<1>5. ASSUME NEW c \in Conns, G!ScheduleSleep(c) PROVE Locked' \/ \E d \in Conns : hook'[d] = "wake"
  <2>1. sleeping /\ G!Unlocked /\ hook[c] = "schedule" /\ hook' = [hook EXCEPT ![c] = "unregister"]
    BY <1>5 DEF G!ScheduleSleep, G!modeVars
  <2>2. PICK d \in Conns : hook[d] = "wake"
    BY <1>2, <2>1 DEF G!Unlocked, Locked
  <2> QED
    BY <1>1, <2>1, <2>2
<1>6. ASSUME NEW c \in Conns, G!Unregister(c) PROVE Locked' \/ \E d \in Conns : hook'[d] = "wake"
  <2>1. sleeping /\ G!Unlocked /\ hook[c] = "unregister" /\ hook' = [hook EXCEPT ![c] = "none"]
    BY <1>6 DEF G!Unregister, G!modeVars
  <2>2. PICK d \in Conns : hook[d] = "wake"
    BY <1>2, <2>1 DEF G!Unlocked, Locked
  <2> QED
    BY <1>1, <2>1, <2>2
<1>7. ASSUME NEW t \in GraceTimers, G!GraceFires(t) \/ G!Park(t) \/ G!Scavenge(t)
      PROVE  Locked' \/ \E d \in Conns : hook'[d] = "wake"
  <2>1. hook' = hook /\ sleeping
    BY <1>7 DEF G!GraceFires, G!Park, G!Scavenge, G!connVars, G!modeVars
  <2>2. PICK st \in {"fired", "scavenging", "deciding"} :
            grace' = [grace EXCEPT ![t] = st] /\ (st = "fired" => grace[t] = "armed")
    BY <1>7 DEF G!GraceFires, G!Park, G!Scavenge
  <2>3. Locked => Locked'
    BY <1>1, <2>2 DEF Locked, G!LockStates
  <2> QED
    BY <1>2, <2>1, <2>3
<1>8. ASSUME NEW t \in GraceTimers, G!TrySleep(t) PROVE Locked' \/ \E d \in Conns : hook'[d] = "wake"
  <2>1. CASE sleeping
    <3>1. ~Locked /\ hook' = hook
      BY <1>8 DEF G!TrySleep, G!Unlocked, Locked, G!connVars
    <3> QED
      BY <1>2, <2>1, <3>1
  <2>2. CASE ~sleeping
    <3>1. grace' = [grace EXCEPT ![t] = "parking"]
      BY <1>8, <2>2 DEF G!TrySleep
    <3> QED
      BY <1>1, <3>1 DEF Locked, G!LockStates
  <2> QED
    BY <2>1, <2>2
<1>9. ASSUME NEW t \in GraceTimers, G!Decide(t) PROVE Locked' \/ \E d \in Conns : hook'[d] = "wake"
  <2>1. hook' = hook /\ sleeping
    BY <1>9 DEF G!Decide, G!connVars, G!modeVars
  <2>2. CASE conns = 0
    <3>1. grace' = [grace EXCEPT ![t] = "exiting"]
      BY <1>1, <1>9, <2>2 DEF G!Decide, G!NoConns
    <3> QED
      BY <1>1, <3>1 DEF Locked, G!LockStates
  <2>3. CASE conns # 0
    BY <1>1, <2>1, <2>3
  <2> QED
    BY <2>2, <2>3
<1>10. ASSUME NEW s \in CapTimers, G!CapNext(s) PROVE Locked' \/ \E d \in Conns : hook'[d] = "wake"
  <2>1. UNCHANGED <<hook, grace, sleeping>>
    BY <1>10 DEF G!CapNext, G!CapFires, G!EndSession, G!ForceClose, G!Rearm, G!connVars, G!graceVars, G!modeVars
  <2> QED
    BY <1>2, <2>1 DEF Locked
<1> QED
  BY <1>3, <1>4, <1>5, <1>6, <1>7, <1>8, <1>9, <1>10 DEF GateStep

(* ExitInv along every behaviour of such a service. *)
LEMMA ExitInvHolds ==
    ASSUME ExitingService
    PROVE  Spec => []ExitInv
<1>1. Init => ExitInv
  <2> SUFFICES ASSUME Init PROVE ExitInv
    OBVIOUS
  <2>1. Adopting => ~want /\ fd3 = "listening"
    BY DEF Init, Adopting, ExitingService
  <2> QED
    BY <2>1 DEF Init, ExitInv, ActivatedLives, ConfiguredExits, AsleepOnItsWay
<1>2. IInv /\ ExitInv /\ [Next]_vars => ExitInv'
  <2> SUFFICES ASSUME IInv, ExitInv, [Next]_vars PROVE ExitInv'
    OBVIOUS
  <2>1. CASE Start \/ Listen \/ Configure \/ BootSleep \/ ServeFails
    BY <2>1, ExitInvMain
  <2>2. CASE GateStep
    BY <2>2, ExitInvGate
  <2>3. ASSUME NEW c \in Conns, Connect(c) PROVE ExitInv'
    BY <2>3 DEF Connect, gateVars, lifeVars, ExitInv, ActivatedLives, ConfiguredExits, AsleepOnItsWay,
       Adopting, Deaf, Locked
  <2>4. ASSUME NEW c \in Conns, Accept(c) PROVE ExitInv'
    <3>0. proc = "serving"
      BY <2>4 DEF Accept, G!Accept, G!Running
    <3>1. /\ UNCHANGED <<want, env, listener, fd3, activator, exitOnIdle, proc, grace, sleeping>>
          /\ hook[c] = "none"
      BY <2>4 DEF Accept, G!Accept, lifeVars, G!mainVars, G!graceVars, G!modeVars
    <3>2. \A d \in Conns : hook[d] = "wake" => hook'[d] = "wake"
      BY <2>4, <3>0, <3>1, GateFacts DEF Accept, G!Accept
    <3>3. AsleepOnItsWay'
      BY <3>1, <3>2 DEF ExitInv, AsleepOnItsWay, Adopting, Locked
    <3> QED
      BY <3>1, <3>3, ExitInvKept
  <2>5. ASSUME NEW c \in Conns, Register(c) PROVE ExitInv'
    <3>0. proc = "serving" /\ hook[c] = "register"
      BY <2>5 DEF Register, G!Register, G!Running
    <3>1. UNCHANGED <<want, env, listener, fd3, exitOnIdle, proc, sleeping>>
      BY <2>5 DEF Register, G!Register, G!mainVars, G!modeVars
    <3>2. ~sleeping
      BY <3>0, GateFacts
    <3> QED
      BY <3>0, <3>1, <3>2 DEF ExitInv, ActivatedLives, ConfiguredExits, AsleepOnItsWay, Adopting, Deaf
  <2>6. ASSUME NEW t \in GraceTimers, Exit(t) PROVE ExitInv'
    BY <2>6, ExitInvKept DEF Exit, G!Exit, lifeVars, AsleepOnItsWay
  <2>7. CASE UNCHANGED vars
    BY <2>7 DEF vars, gateVars, lifeVars, ExitInv, ActivatedLives, ConfiguredExits, AsleepOnItsWay,
       Adopting, Deaf, Locked
  <2> QED
    BY <2>1, <2>2, <2>3, <2>4, <2>5, <2>6, <2>7 DEF Next
<1> QED
  BY <1>1, <1>2, Invariance, PTL DEF Spec

-----------------------------------------------------------------------------
(* Liveness, up to ENABLED, which the prover leaves uninterpreted: a grace   *)
(* timer's goroutine, a close on its way to scheduleSleep and Serve, be it   *)
(* that it accepts or fails, can take their step whenever its guard holds. *)
ScheduleTurn(c) == G!ScheduleSleep(c) /\ UNCHANGED <<lifeVars, netVars>>
CanTurn(t) == ENABLED <<GraceTurn(t)>>_vars
CanSchedule(c) == ENABLED <<ScheduleTurn(c)>>_vars
CanAccept == ENABLED <<AcceptNext>>_vars
CanFail == ENABLED <<ServeFails>>_vars

LivesEnabled ==
    /\ \A t \in GraceTimers :
          (/\ proc = "serving"
           /\ \/ grace[t] \in {"armed"} \cup G!LockStates
              \/ grace[t] = "fired" /\ G!Unlocked) => CanTurn(t)
    /\ \A c \in Conns :
          (/\ proc = "serving" /\ hook[c] = "schedule" /\ G!Unlocked
           /\ \E t \in GraceTimers : grace[t] = "free") => CanSchedule(c)
    /\ (/\ proc = "serving" /\ ~Deaf /\ backlog # <<>>
        /\ hook[Head(backlog)] = "none" /\ G!AcceptFree) => CanAccept
    /\ proc = "serving" /\ Deaf => CanFail

(* A socket-activated process without a connection, and how that ends. *)
IdleLife == proc = "serving" /\ conns = 0 /\ listener = "adopted"
Over == proc = "exited" \/ conns > 0

(* What can happen meanwhile. *)
LEMMA IdleLifeStep ==
    ASSUME IInv, IdleLife, [Next]_vars
    PROVE  \/ Over'
           \/ /\ IdleLife' /\ activator' = activator /\ fd3' = fd3
              /\ sleeping => sleeping'
              /\ \A t \in GraceTimers : grace[t] \in G!LockStates =>
                    \/ grace'[t] = grace[t]
                    \/ grace[t] = "parking" /\ grace'[t] = "scavenging"
                    \/ grace[t] = "scavenging" /\ grace'[t] = "deciding"
                    \/ grace[t] = "deciding" /\ grace'[t] = IF exitOnIdle THEN "exiting" ELSE "free"
<1> DEFINE Same == \A t \in GraceTimers : grace[t] \in G!LockStates => grace'[t] = grace[t]
           Kept == IdleLife' /\ activator' = activator /\ fd3' = fd3 /\ (sleeping => sleeping')
<1> USE DEF IdleLife, Over
<1>0. /\ hook \in [Conns -> G!HookStates] /\ grace \in [GraceTimers -> G!GraceStates]
      /\ \A c \in Conns : hook[c] \notin {"wake", "register", "open"}
  BY GateFacts
<1>1. CASE UNCHANGED <<gateVars, lifeVars>>
  BY <1>1 DEF gateVars, lifeVars
<1>2. ASSUME NEW c \in Conns, Accept(c) PROVE Over'
  BY <1>2 DEF Accept, G!Accept
<1>3. ASSUME NEW c \in Conns, Register(c) PROVE FALSE
  BY <1>0, <1>3 DEF Register, G!Register
<1>4. ASSUME NEW t \in GraceTimers, Exit(t) PROVE Over'
  BY <1>4 DEF Exit, G!Exit
<1>5. CASE Start \/ Listen \/ Configure \/ BootSleep \/ ServeFails
  BY <1>5 DEF Start, Listen, ListenReturns, Configure, BootSleep, G!Configure, G!BootSleep, ServeFails
<1>6. ASSUME NEW c \in Conns, G!Wake(c) \/ G!Close(c) PROVE FALSE
  BY <1>0, <1>6 DEF G!Wake, G!Close
<1>7. ASSUME NEW c \in Conns, G!ScheduleSleep(c) \/ G!Unregister(c), UNCHANGED <<lifeVars, netVars>>
      PROVE  Kept /\ Same
  <2>1. Kept
    BY <1>7 DEF G!ScheduleSleep, G!Unregister, G!modeVars, G!mainVars, lifeVars
  <2>2. Same
    BY <1>0, <1>7 DEF G!ScheduleSleep, G!Unregister, G!graceVars, G!Unlocked
  <2> QED
    BY <2>1, <2>2
<1>8. ASSUME NEW t \in GraceTimers, G!GraceFires(t) \/ G!TrySleep(t), UNCHANGED <<lifeVars, netVars>>
      PROVE  Kept /\ Same
  <2>1. Kept
    BY <1>8 DEF G!GraceFires, G!TrySleep, G!connVars, G!modeVars, G!mainVars, lifeVars
  <2>2. Same
    BY <1>0, <1>8 DEF G!GraceFires, G!TrySleep, G!LockStates
  <2> QED
    BY <2>1, <2>2
<1>9. ASSUME NEW t \in GraceTimers, G!Park(t) \/ G!Scavenge(t) \/ G!Decide(t), UNCHANGED <<lifeVars, netVars>>
      PROVE  /\ Kept
             /\ \A u \in GraceTimers : u # t => grace'[u] = grace[u]
             /\ \/ grace[t] = "parking" /\ grace'[t] = "scavenging"
                \/ grace[t] = "scavenging" /\ grace'[t] = "deciding"
                \/ grace[t] = "deciding" /\ grace'[t] = IF exitOnIdle THEN "exiting" ELSE "free"
  <2>1. Kept
    BY <1>9 DEF G!Park, G!Scavenge, G!Decide, G!connVars, G!modeVars, G!mainVars, lifeVars
  <2> QED
    BY <1>0, <1>9, <2>1 DEF G!Park, G!Scavenge, G!Decide, G!NoConns
<1>10. ASSUME NEW s \in CapTimers, G!CapNext(s), UNCHANGED <<lifeVars, netVars>>
       PROVE  Kept /\ Same
  BY <1>10 DEF G!CapNext, G!CapFires, G!EndSession, G!ForceClose, G!Rearm, G!connVars, G!graceVars,
     G!modeVars, G!mainVars, lifeVars
<1>11. CASE GateStep
  BY <1>6, <1>7, <1>8, <1>9, <1>10, <1>11 DEF GateStep
<1> QED
  BY <1>1, <1>2, <1>3, <1>4, <1>5, <1>11 DEF Next, Connect, vars

(* The step is one of the gate as IdleGateProofs has it, or ends the life. *)
LEMMA IdleLifeGate ==
    ASSUME IdleLife, [Next]_vars
    PROVE  [GP!Next]_(GP!vars) \/ Over'
<1>1. CASE UNCHANGED gateVars
  BY <1>1 DEF gateVars, GP!vars, GP!connVars, GP!graceVars, GP!capVars, GP!modeVars, GP!mainVars
<1>2. CASE Start \/ Listen
  BY <1>2 DEF Start, Listen, ListenReturns, IdleLife
<1>3. CASE Configure \/ BootSleep
  BY <1>3, SameMain DEF Configure, BootSleep, GP!Next
<1>4. CASE \E c \in Conns : Accept(c) \/ Register(c)
  BY <1>4, SameConnNext DEF Accept, Register, G!ConnNext, GP!Next
<1>5. CASE \E t \in GraceTimers : Exit(t)
  BY <1>5, SameGraceNext DEF Exit, G!GraceNext, GP!Next
<1>6. CASE GateStep
  BY <1>6, SameConnNext, SameGraceNext, SameCapNext DEF GateStep, G!ConnNext, G!GraceNext, GP!Next
<1>7. CASE ServeFails
  BY <1>7 DEF ServeFails, Over
<1> QED
  BY <1>1, <1>2, <1>3, <1>4, <1>5, <1>6, <1>7 DEF Next, Connect, vars

(* A park without a connection ends in the exit of the process. *)
LEMMA ParkExits ==
    ASSUME ExitingService, NEW t \in GraceTimers
    PROVE  FairSpec /\ []LivesEnabled => ((IdleLife /\ grace[t] \in G!LockStates) ~> Over)
<1> DEFINE F == FairSpec /\ []LivesEnabled
           A == GraceTurn(t)
           P == IdleLife /\ grace[t] = "parking"
           S == IdleLife /\ grace[t] = "scavenging"
           D == IdleLife /\ grace[t] = "deciding"
           X == IdleLife /\ grace[t] = "exiting"
           L == IdleLife /\ grace[t] \in G!LockStates
           Q == Over
<1>1. L => P \/ S \/ D \/ X
  BY DEF G!LockStates
<1>2. IInv /\ ExitInv /\ [Next]_vars => /\ P => P' \/ S' \/ Q'
                                        /\ S => S' \/ D' \/ Q'
                                        /\ D => D' \/ X' \/ Q'
                                        /\ X => X' \/ Q'
  <2> SUFFICES ASSUME IInv, ExitInv, [Next]_vars, L
               PROVE  (P => P' \/ S' \/ Q') /\ (S => S' \/ D' \/ Q') /\ (D => D' \/ X' \/ Q') /\ (X => X' \/ Q')
    BY DEF G!LockStates
  <2>1. exitOnIdle
    BY DEF ExitInv, ConfiguredExits, IdleLife
  <2> QED
    BY <2>1, IdleLifeStep
<1>3. IInv /\ <<A>>_vars => /\ ~P \/ ~P'
                            /\ ~S \/ ~S'
                            /\ ~D \/ ~D'
                            /\ ~X \/ ~X'
  <2> SUFFICES ASSUME IInv, A, L PROVE Q' \/ grace'[t] # grace[t]
    BY DEF IdleLife, Over, G!LockStates
  <2>1. grace \in [GraceTimers -> G!GraceStates]
    BY DEF IInv, TypeOK, G!TypeOK
  <2>2. CASE Exit(t)
    BY <2>2 DEF Exit, G!Exit, Over
  <2>3. CASE ~Exit(t)
    <3>1. G!Park(t) \/ G!Scavenge(t) \/ G!Decide(t)
      BY <2>3 DEF GraceTurn, G!GraceNext, G!GraceFires, G!TrySleep, G!LockStates
    <3> QED
      BY <2>1, <3>1 DEF G!Park, G!Scavenge, G!Decide
  <2> QED
    BY <2>2, <2>3
<1>4. LivesEnabled => (P \/ S \/ D \/ X => ENABLED <<A>>_vars)
  <2>1. LivesEnabled => (P \/ S \/ D \/ X => CanTurn(t))
    BY DEF LivesEnabled, IdleLife, G!LockStates
  <2> QED
    BY <2>1 DEF CanTurn
<1>5. FairSpec => GraceFairness(t)
  BY DEF FairSpec, Fairness
<1>6. GraceFairness(t) => WF_vars(A)
  BY PTL DEF GraceFairness
<1> HIDE DEF A, P, S, D, X, L, Q
<1>7. F => []IInv /\ []ExitInv /\ [][Next]_vars
  BY Invariance, ExitInvHolds, PTL DEF FairSpec, Spec
<1>8. F => (P ~> S \/ Q)
  BY <1>2, <1>3, <1>4, <1>5, <1>6, <1>7, PTL
<1>9. F => (S ~> D \/ Q)
  BY <1>2, <1>3, <1>4, <1>5, <1>6, <1>7, PTL
<1>10. F => (D ~> X \/ Q)
  BY <1>2, <1>3, <1>4, <1>5, <1>6, <1>7, PTL
<1>11. F => (X ~> Q)
  BY <1>2, <1>3, <1>4, <1>5, <1>6, <1>7, PTL
<1>12. F => (L ~> Q)
  BY <1>1, <1>8, <1>9, <1>10, <1>11, PTL
<1> QED
  BY <1>12 DEF L, Q

(* The connection the process was started for is accepted. *)
LEMMA ActivatorAccepted ==
    FairSpec /\ []LivesEnabled => ((IdleLife /\ ~Deaf /\ activator # NoConn) ~> Over)
<1> DEFINE F == FairSpec /\ []LivesEnabled
           A == AcceptNext
           V == IdleLife /\ ~Deaf /\ activator # NoConn
           Q == Over
<1>1. IInv /\ [Next]_vars => (V => V' \/ Q')
  BY IdleLifeStep DEF Deaf, IdleLife
<1>2. IInv /\ <<A>>_vars => (V => Q')
  BY DEF AcceptNext, Accept, G!Accept, IdleLife, Over
<1>3. IInv /\ LivesEnabled => (V => ENABLED <<A>>_vars)
  <2>1. IInv /\ V => /\ proc = "serving" /\ ~Deaf /\ backlog # <<>>
                     /\ hook[Head(backlog)] = "none" /\ G!AcceptFree
    <3> SUFFICES ASSUME IInv, V
                 PROVE  proc = "serving" /\ ~Deaf /\ backlog # <<>> /\ hook[Head(backlog)] = "none" /\ G!AcceptFree
      OBVIOUS
    <3>1. activator \in Conns
      BY DEF IInv, TypeOK
    <3>2. \A c \in Conns : hook[c] \notin {"wake", "register", "open"}
      BY GateFacts DEF IdleLife
    <3>3. hook[activator] = "none" /\ backlog # <<>> /\ Head(backlog) = activator
      BY <3>1, <3>2 DEF IInv, ActivatorNext, IdleLife
    <3> QED
      BY <3>2, <3>3 DEF IdleLife, G!AcceptFree
  <2>2. IInv /\ LivesEnabled => (V => CanAccept)
    BY <2>1 DEF LivesEnabled
  <2> QED
    BY <2>2 DEF CanAccept
<1>4. FairSpec => WF_vars(A)
  <2>1. FairSpec => AcceptFairness
    BY DEF FairSpec, Fairness
  <2> QED
    BY <2>1, PTL DEF AcceptFairness
<1> HIDE DEF A, V, Q
<1>5. F => (V ~> Q)
  BY <1>1, <1>2, <1>3, <1>4, Invariance, PTL DEF FairSpec, Spec
<1> QED
  BY <1>5 DEF V, Q

(* A socket that does not listen ends the life. *)
LEMMA DeafFails ==
    FairSpec /\ []LivesEnabled => ((IdleLife /\ Deaf) ~> Over)
<1> DEFINE F == FairSpec /\ []LivesEnabled
           A == ServeFails
           V == IdleLife /\ Deaf
           Q == Over
<1>1. IInv /\ [Next]_vars => (V => V' \/ Q')
  BY IdleLifeStep DEF Deaf, IdleLife
<1>2. <<A>>_vars => Q'
  BY DEF ServeFails, Over
<1>3. LivesEnabled => (V => ENABLED <<A>>_vars)
  <2>1. LivesEnabled => (V => CanFail)
    BY DEF LivesEnabled, IdleLife
  <2> QED
    BY <2>1 DEF CanFail
<1>4. FairSpec => WF_vars(A)
  <2>1. FairSpec => MainFairness
    BY DEF FairSpec, Fairness
  <2> QED
    BY <2>1, PTL DEF MainFairness
<1> HIDE DEF A, V, Q
<1>5. F => (V ~> Q)
  BY <1>1, <1>2, <1>3, <1>4, Invariance, PTL DEF FairSpec, Spec
<1> QED
  BY <1>5 DEF V, Q

(* Awake, with the steps of the gate that IdleGateProofs has: a pending      *)
(* timer parks, and a close on its way to scheduleSleep makes one pending. *)
IdleUp == IdleLife /\ ~sleeping
IdleDown == IdleLife /\ sleeping

(* While nobody connects and the process stays awake neither is dropped. *)
LEMMA IdleUpStep ==
    ASSUME IInv, IdleUp, [Next]_vars
    PROVE  \/ Over' \/ IdleDown'
           \/ /\ IdleUp'
              /\ \A t \in GraceTimers : /\ grace[t] = "armed" => grace'[t] \in {"armed", "fired"}
                                        /\ grace[t] = "fired" => grace'[t] = "fired"
              /\ \A c \in Conns : hook[c] = "schedule" =>
                    \/ hook'[c] = "schedule"
                    \/ \E t \in GraceTimers : grace'[t] \in {"armed", "fired"}
<1>1. GP!IInv /\ GP!IdleAwake
  BY DEF IInv, GateOK, IdleUp, IdleLife, GP!IdleAwake, GP!Running
<1>2. [GP!Next]_(GP!vars) \/ Over'
  BY IdleLifeGate DEF IdleUp
<1>3. \/ Over' \/ GP!ParkedOrConnected'
      \/ /\ GP!IdleAwake'
         /\ \A t \in GraceTimers : /\ grace[t] = "armed" => grace'[t] \in {"armed", "fired"}
                                   /\ grace[t] = "fired" => grace'[t] = "fired"
         /\ \A c \in Conns : hook[c] = "schedule" =>
               \/ hook'[c] = "schedule"
               \/ \E t \in GraceTimers : grace'[t] \in {"armed", "fired"}
  BY <1>1, <1>2, GP!IdleAwakeStep, GateFinite, GateAssumption
<1>4. Over' \/ IdleLife'
  BY IdleLifeStep DEF IdleUp
<1> QED
  BY <1>3, <1>4 DEF GP!ParkedOrConnected, GP!IdleAwake, IdleUp, IdleDown, IdleLife, Over

(* A pending grace timer fires, and its trySleep parks. *)
LEMMA PendingParks ==
    ASSUME NEW t \in GraceTimers
    PROVE  FairSpec /\ []LivesEnabled =>
               ((IdleUp /\ grace[t] \in {"armed", "fired"}) ~> (IdleDown \/ Over))
<1> DEFINE F == FairSpec /\ []LivesEnabled
           A == GraceTurn(t)
           N == IdleUp /\ grace[t] = "armed"
           M == IdleUp /\ grace[t] = "fired"
           P == IdleUp /\ grace[t] \in {"armed", "fired"}
           Q == IdleDown \/ Over
<1>1. P => N \/ M
  OBVIOUS
<1>2. IInv /\ [Next]_vars => (N => N' \/ M' \/ Q') /\ (M => M' \/ Q')
  BY IdleUpStep
<1>3. IInv /\ <<A>>_vars => (~N \/ ~N') /\ (M => ~IdleUp')
  <2> SUFFICES ASSUME IInv, A, P PROVE (grace[t] = "armed" => grace'[t] = "fired") /\ (M => sleeping')
    BY DEF IdleUp
  <2>0. grace \in [GraceTimers -> G!GraceStates]
    BY DEF IInv, TypeOK, G!TypeOK
  <2>1. G!GraceFires(t) \/ G!TrySleep(t)
    BY DEF GraceTurn, Exit, G!GraceNext, G!Park, G!Scavenge, G!Decide, G!Exit
  <2> QED
    BY <2>0, <2>1 DEF G!GraceFires, G!TrySleep, G!NoConns, IdleUp, IdleLife
<1>4. IInv /\ LivesEnabled => (N \/ M => ENABLED <<A>>_vars)
  <2>1. IInv /\ (N \/ M) => proc = "serving" /\ G!Unlocked
    <3> SUFFICES ASSUME IInv, IdleUp PROVE proc = "serving" /\ G!Unlocked
      OBVIOUS
    <3> QED
      BY GateFacts DEF IdleUp, IdleLife, G!Unlocked, Locked
  <2>2. IInv /\ LivesEnabled => (N \/ M => CanTurn(t))
    BY <2>1 DEF LivesEnabled
  <2> QED
    BY <2>2 DEF CanTurn
<1>5. FairSpec => GraceFairness(t)
  BY DEF FairSpec, Fairness
<1>6. GraceFairness(t) => WF_vars(A)
  BY PTL DEF GraceFairness
<1>7. M => IdleUp
  OBVIOUS
<1> HIDE DEF A, N, M, P, Q
<1>8. F => []IInv /\ [][Next]_vars
  BY Invariance, PTL DEF FairSpec, Spec
<1>9. F => (M ~> Q)
  BY <1>2, <1>3, <1>4, <1>5, <1>6, <1>7, <1>8, PTL
<1>10. F => (N ~> M \/ Q)
  BY <1>2, <1>3, <1>4, <1>5, <1>6, <1>8, PTL
<1>11. F => (P ~> Q)
  BY <1>1, <1>9, <1>10, PTL
<1> QED
  BY <1>11 DEF P, Q

(* A close on its way to scheduleSleep gets there. *)
LEMMA CloseGetsPending ==
    ASSUME NEW c \in Conns, GraceTimers # {}
    PROVE  FairSpec /\ []LivesEnabled =>
               ((IdleUp /\ hook[c] = "schedule") ~>
                   (IdleDown \/ Over \/ (IdleUp /\ \E t \in GraceTimers : grace[t] \in {"armed", "fired"})))
<1> DEFINE F == FairSpec /\ []LivesEnabled
           A == ScheduleTurn(c)
           Pending == \E t \in GraceTimers : grace[t] \in {"armed", "fired"}
           P == IdleUp /\ hook[c] = "schedule" /\ ~Pending
           P0 == IdleUp /\ hook[c] = "schedule"
           Q == IdleDown \/ Over \/ (IdleUp /\ Pending)
<1>1. P0 => P \/ Q
  OBVIOUS
<1>2. IInv /\ [Next]_vars => (P => P' \/ Q')
  BY IdleUpStep
<1>3. IInv /\ <<A>>_vars => ~P \/ ~P'
  BY DEF ScheduleTurn, G!ScheduleSleep, IInv, TypeOK, G!TypeOK
<1>4. IInv /\ LivesEnabled => (P => ENABLED <<A>>_vars)
  <2>1. IInv /\ P => /\ proc = "serving" /\ hook[c] = "schedule" /\ G!Unlocked
                     /\ \E t \in GraceTimers : grace[t] = "free"
    <3> SUFFICES ASSUME IInv, P
                 PROVE  proc = "serving" /\ G!Unlocked /\ \E t \in GraceTimers : grace[t] = "free"
      OBVIOUS
    <3>1. proc = "serving" /\ G!Unlocked /\ grace \in [GraceTimers -> G!GraceStates]
      BY GateFacts DEF IdleUp, IdleLife, G!Unlocked, Locked
    <3> QED
      BY <3>1 DEF G!Unlocked, G!GraceStates
  <2>2. IInv /\ LivesEnabled => (P => CanSchedule(c))
    BY <2>1 DEF LivesEnabled
  <2> QED
    BY <2>2 DEF CanSchedule
<1>5. FairSpec => ConnFairness(c)
  BY DEF FairSpec, Fairness
<1>6. ConnFairness(c) => WF_vars(A)
  BY PTL DEF ConnFairness, ScheduleTurn
<1> HIDE DEF A, P, P0, Q
<1>7. F => (P0 ~> Q)
  BY <1>1, <1>2, <1>3, <1>4, <1>5, <1>6, Invariance, PTL DEF FairSpec, Spec
<1> QED
  BY <1>7 DEF P0, Q

(* "No connection, no process", for any number of connections and timers: a  *)
(* socket-activated process that has none exits or is connected again,       *)
(* whether it was just started, is awake or is in a park (trySleep,          *)
(* ExitOnIdle, BootSleep). *)
THEOREM IdleProcessExits ==
    ASSUME ExitingService, GraceTimers # {}
    PROVE  FairSpec /\ []LivesEnabled => IdleExits
<1> DEFINE F == FairSpec /\ []LivesEnabled
           Lock(t) == IdleLife /\ grace[t] \in G!LockStates
           Pend(t) == IdleUp /\ grace[t] \in {"armed", "fired"}
           Sched(c) == IdleUp /\ hook[c] = "schedule"
           SomeLock == \E t \in GraceTimers : Lock(t)
           SomePend == \E t \in GraceTimers : Pend(t)
           SomeSched == \E c \in Conns : Sched(c)
           V == IdleLife /\ ~Deaf /\ activator # NoConn
           Y == IdleLife /\ Deaf
           I == IdleLife
           Q == Over
           DQ == IdleDown \/ Over
           R == IdleDown \/ Over \/ (IdleUp /\ \E t \in GraceTimers : grace[t] \in {"armed", "fired"})
           WL == \A t \in GraceTimers : (Lock(t) => <>Q)
           WP == \A t \in GraceTimers : (Pend(t) => <>DQ)
           WS == \A c \in Conns : (Sched(c) => <>R)
<1>1. ASSUME NEW t \in GraceTimers PROVE F => [](Lock(t) => <>Q)
  BY ParkExits, PTL
<1>2. ASSUME NEW t \in GraceTimers PROVE F => [](Pend(t) => <>DQ)
  BY PendingParks, PTL
<1>3. ASSUME NEW c \in Conns PROVE F => [](Sched(c) => <>R)
  BY CloseGetsPending, PTL
<1>4. F => (V ~> Q) /\ (Y ~> Q)
  BY ActivatorAccepted, DeafFails
<1>5. IInv /\ ExitInv => (DQ => V \/ Y \/ SomeLock \/ Q)
  <2> SUFFICES ASSUME IInv, ExitInv, IdleDown PROVE V \/ Y \/ SomeLock
    OBVIOUS
  <2>1. \A c \in Conns : hook[c] # "wake"
    BY GateFacts DEF IdleDown, IdleLife
  <2> QED
    BY <2>1 DEF ExitInv, ActivatedLives, AsleepOnItsWay, Locked, IdleDown, IdleLife
<1>6. IInv => (I => DQ \/ SomePend \/ SomeSched)
  <2> SUFFICES ASSUME IInv, IdleUp PROVE SomePend \/ SomeSched
    BY DEF IdleUp, IdleDown
  <2>1. GP!IdleAwakeWillPark
    BY DEF IInv, GateOK, IdleUp, IdleLife, GP!IInv
  <2> QED
    BY <2>1 DEF GP!IdleAwakeWillPark, GP!Running, IdleUp, IdleLife
<1>7. R => DQ \/ SomePend
  OBVIOUS
<1> HIDE DEF F, Lock, Pend, Sched, V, Y, I, Q, DQ, R
<1>8. F => []WL
  <2>1. F => \A t \in GraceTimers : [](Lock(t) => <>Q)
    BY <1>1
  <2>2. (\A t \in GraceTimers : [](Lock(t) => <>Q)) => [](\A t \in GraceTimers : (Lock(t) => <>Q))
    OBVIOUS
  <2> QED
    BY <2>1, <2>2
<1>9. F => []WP
  <2>1. F => \A t \in GraceTimers : [](Pend(t) => <>DQ)
    BY <1>2
  <2>2. (\A t \in GraceTimers : [](Pend(t) => <>DQ)) => [](\A t \in GraceTimers : (Pend(t) => <>DQ))
    OBVIOUS
  <2> QED
    BY <2>1, <2>2
<1>10. F => []WS
  <2>1. F => \A c \in Conns : [](Sched(c) => <>R)
    BY <1>3
  <2>2. (\A c \in Conns : [](Sched(c) => <>R)) => [](\A c \in Conns : (Sched(c) => <>R))
    OBVIOUS
  <2> QED
    BY <2>1, <2>2
<1>11. (WL => (SomeLock => <>Q)) /\ (WP => (SomePend => <>DQ)) /\ (WS => (SomeSched => <>R))
  OBVIOUS
<1> HIDE DEF WL, WP, WS, SomeLock, SomePend, SomeSched
<1>12. F => []IInv /\ []ExitInv
  BY Invariance, ExitInvHolds, PTL DEF F, FairSpec
<1>13. F => (DQ ~> Q)
  BY <1>4, <1>5, <1>8, <1>11, <1>12, PTL
<1>14. F => (I ~> Q)
  BY <1>6, <1>7, <1>9, <1>10, <1>11, <1>12, <1>13, PTL
<1> QED
  BY <1>14 DEF F, I, Q, IdleLife, Over, IdleExits
=============================================================================
