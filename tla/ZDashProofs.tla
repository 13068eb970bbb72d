---------------------------- MODULE ZDashProofs ----------------------------
(***************************************************************************)
(* The wired process keeps what its two components keep, and what neither  *)
(* of them can promise alone; it implements ZeroCost.  The inductive       *)
(* invariants of IdleGateProofs and RefresherProofs are reused as they are *)
(* for the two instances.                                                  *)
(***************************************************************************)
EXTENDS ZDash, TLAPS

GP == INSTANCE IdleGateProofs
RP == INSTANCE RefresherProofs WITH Handlers <- Conns, Producers <- Keys

(* The callback states in which the cache has been dropped. *)
Dropped == {"scavenging", "deciding", "exiting"}

(* Awake means refreshing, and a park or an exit means not. *)
AwakeActive == proc = "serving" /\ ~sleeping => active
DroppedInactive ==
    (\/ proc # "serving" \/ profile = "parked"
     \/ \E t \in GraceTimers : grace[t] \in Dropped) => ~active

(* Before the first session nothing has run. *)
Unstarted ==
    stop = NoChan => /\ calls = <<>>
                     /\ \A g \in RP!Getters : req[g].pc = "idle"
                     /\ \A l \in Loops : loop[l] = "off"

(* A handler that runs has its connection open. *)
HandlersOpen == \A c \in Conns : req[c].pc # "idle" => hook[c] = "open"

(* The boot park and every other park count as a generation. *)
GensCounted ==
    /\ proc \in {"serving", "exited"} => gen >= 1
    /\ (proc = "exited" \/ \E t \in GraceTimers : grace[t] \in Dropped) => gen >= 2

Wired ==
    /\ AwakeActive /\ DroppedInactive
    /\ Unstarted
    /\ HandlersOpen
    /\ GensCounted
    /\ NoClientSeesSessionEnded

IInv == GP!IInv /\ RP!IInv /\ Wired

-----------------------------------------------------------------------------
(* The assumptions of the instantiated proofs. *)
LEMMA GateFinite == GP!IsFiniteSet(Conns)
  BY GateAssumption DEF IsFiniteSet, GP!IsFiniteSet

(* The steps of the gate are those IdleGateProofs is about. *)
LEMMA SameConnSteps ==
    ASSUME NEW c \in Conns
    PROVE  /\ G!Accept(c) => GP!Accept(c)
           /\ G!Wake(c) => GP!Wake(c)
           /\ G!Register(c) => GP!Register(c)
           /\ G!Close(c) => GP!Close(c)
           /\ G!ScheduleSleep(c) => GP!ScheduleSleep(c)
           /\ G!Unregister(c) => GP!Unregister(c)
  BY DEF G!Accept, GP!Accept, G!Wake, GP!Wake, G!Register, GP!Register, G!Close, GP!Close,
         G!ScheduleSleep, GP!ScheduleSleep, G!Unregister, GP!Unregister, G!Running, GP!Running,
         G!AcceptFree, GP!AcceptFree, G!graceVars, GP!graceVars, G!capVars, GP!capVars,
         G!modeVars, GP!modeVars, G!mainVars, GP!mainVars, G!Unlocked, GP!Unlocked,
         G!LockStates, GP!LockStates, G!StopGrace, GP!StopGrace, G!Stopped, GP!Stopped,
         G!ArmSessionLocked, GP!ArmSessionLocked

(* The same for the grace timers, ... *)
LEMMA SameGraceSteps ==
    ASSUME NEW t \in GraceTimers
    PROVE  /\ G!GraceFires(t) => GP!GraceFires(t)
           /\ G!TrySleep(t) => GP!TrySleep(t)
           /\ G!Park(t) => GP!Park(t)
           /\ G!Scavenge(t) => GP!Scavenge(t)
           /\ G!Decide(t) => GP!Decide(t)
           /\ G!Exit(t) => GP!Exit(t)
  BY DEF G!GraceFires, GP!GraceFires, G!TrySleep, GP!TrySleep, G!Park, GP!Park,
         G!Scavenge, GP!Scavenge, G!Decide, GP!Decide, G!Exit, GP!Exit, G!Running, GP!Running,
         G!connVars, GP!connVars, G!graceVars, GP!graceVars, G!capVars, GP!capVars,
         G!modeVars, GP!modeVars, G!mainVars, GP!mainVars, G!NoConns, GP!NoConns,
         G!Unlocked, GP!Unlocked, G!LockStates, GP!LockStates, G!StopCap, GP!StopCap,
         G!Stopped, GP!Stopped

(* ... for main and the session cap. *)
LEMMA SameOtherSteps ==
    /\ G!Init => GP!Init
    /\ G!Configure => GP!Configure
    /\ G!BootSleep => GP!BootSleep
    /\ \A s \in CapTimers : G!CapNext(s) => GP!CapNext(s)
  BY DEF G!Init, GP!Init, G!Configure, GP!Configure, G!BootSleep, GP!BootSleep,
         G!CapNext, GP!CapNext, G!CapFires, GP!CapFires, G!EndSession, GP!EndSession,
         G!ForceClose, GP!ForceClose, G!Rearm, GP!Rearm, G!Running, GP!Running,
         G!connVars, GP!connVars, G!graceVars, GP!graceVars, G!capVars, GP!capVars,
         G!modeVars, GP!modeVars, G!mainVars, GP!mainVars, G!Unlocked, GP!Unlocked,
         G!LockStates, GP!LockStates, G!Stopped, GP!Stopped, G!StopGrace, GP!StopGrace,
         G!StopCap, GP!StopCap, G!ArmSessionLocked, GP!ArmSessionLocked

(* The steps of the refresher are those RefresherProofs is about. *)
LEMMA SameSetActive ==
    ASSUME NEW b \in BOOLEAN, R!SetActive(b)
    PROVE  RP!SetActive(b)
  BY DEF R!SetActive, RP!SetActive, R!StartSession, RP!StartSession, R!EndSession,
         RP!EndSession, R!cacheVars, RP!cacheVars, R!sessionVars, RP!sessionVars

(* Both instances have the same callers of get. *)
LEMMA SameGetters == R!Getters = RP!Getters /\ RP!Getters = Conns \cup (Loops \X Keys)
  BY DEF R!Getters, RP!Getters, R!Workers, RP!Workers

(* The same for the loops, ... *)
LEMMA SameLoopSteps ==
    ASSUME NEW l \in Loops, R!LoopNext(l)
    PROVE  RP!LoopNext(l)
  BY DEF R!LoopNext, RP!LoopNext, R!RefreshAll, RP!RefreshAll, R!Join, RP!Join, R!Tick, RP!Tick,
         R!LoopStop, RP!LoopStop, R!cacheVars, RP!cacheVars, R!sessionVars, RP!sessionVars,
         R!Stale, RP!Stale, R!Asking, RP!Asking, R!Idle, RP!Idle, R!Getters, RP!Getters,
         R!Workers, RP!Workers

(* ... the handlers, ... *)
LEMMA SameClientSteps ==
    ASSUME NEW c \in Conns
    PROVE  /\ \A k \in Keys : R!Receive(c, k) => RP!Receive(c, k)
           /\ R!WaitCancelled(c) => RP!WaitCancelled(c)
           /\ R!Return(c) => RP!Return(c)
  BY DEF R!Receive, RP!Receive, R!WaitCancelled, RP!WaitCancelled, R!Return, RP!Return,
         R!cacheVars, RP!cacheVars, R!sessionVars, RP!sessionVars, R!Idle, RP!Idle,
         R!Asking, RP!Asking, R!Answer, RP!Answer, R!Workers, RP!Workers

(* ... get and wait, ... *)
LEMMA SameGetSteps ==
    ASSUME NEW g \in RP!Getters
    PROVE  /\ R!GetFresh(g) => RP!GetFresh(g)
           /\ R!GetJoin(g) => RP!GetJoin(g)
           /\ R!GetRefused(g) => RP!GetRefused(g)
           /\ R!GetFetch(g) => RP!GetFetch(g)
           /\ R!WaitDone(g) => RP!WaitDone(g)
  BY DEF R!GetFresh, RP!GetFresh, R!GetJoin, RP!GetJoin, R!GetRefused, RP!GetRefused,
         R!GetFetch, RP!GetFetch, R!WaitDone, RP!WaitDone, R!cacheVars, RP!cacheVars,
         R!sessionVars, RP!sessionVars, R!Idle, RP!Idle, R!Answer, RP!Answer,
         R!Workers, RP!Workers, R!Stale, RP!Stale, R!SessionEnded, RP!SessionEnded

(* ... and the fetches. *)
LEMMA SameFetchSteps ==
    ASSUME NEW i \in DOMAIN calls, R!FetchNext(i)
    PROVE  RP!FetchNext(i)
  BY DEF R!FetchNext, RP!FetchNext, R!Store, RP!Store, R!Unlink, RP!Unlink,
         R!CloseDone, RP!CloseDone, R!cacheVars, RP!cacheVars, R!sessionVars, RP!sessionVars

(* The remaining ones, and the initial state. *)
LEMMA SameRest ==
    /\ R!Init => RP!Init
    /\ \A k \in Keys : R!Expire(k) => RP!Expire(k)
  BY DEF R!Init, RP!Init, R!Expire, RP!Expire, R!Getters, RP!Getters, R!Workers, RP!Workers,
         R!Idle, RP!Idle, R!sessionVars, RP!sessionVars

-----------------------------------------------------------------------------
(* The process starts in both components' invariants. *)
LEMMA InitIInv == Init => IInv
<1> SUFFICES ASSUME Init PROVE IInv
  OBVIOUS
<1>1. GP!IInv
  BY GP!InitIInv, GateFinite, GateAssumption, SameOtherSteps DEF Init
<1>2. RP!IInv
  BY RP!InitIInv, RefresherAssumption, SameRest DEF Init
<1>3. \A g \in RP!Getters : req[g].pc = "idle" /\ req[g].status = "none"
  BY SameGetters DEF Init, R!Init, R!Idle
<1>4. Wired
  BY <1>3, SameGetters DEF Init, G!Init, R!Init, Wired, AwakeActive, DroppedInactive, Unstarted,
         HandlersOpen, GensCounted, NoClientSeesSessionEnded, Dropped
<1> QED
  BY <1>1, <1>2, <1>4 DEF IInv

(* Each component's invariant is kept by every step of the process. *)
LEMMA GateKept == GP!IInv /\ [Next]_vars => GP!IInv'
<1> SUFFICES ASSUME GP!IInv, [Next]_vars PROVE GP!IInv'
  OBVIOUS
<1>1. [GP!Next]_(GP!vars)
  <2>1. CASE UNCHANGED gateVars
    BY <2>1 DEF gateVars, GP!vars, GP!connVars, GP!graceVars, GP!capVars, GP!modeVars, GP!mainVars
  <2>2. CASE BootSleep
    BY <2>2, SameOtherSteps DEF BootSleep, GP!Next
  <2>3. ASSUME NEW c \in Conns, Accept(c) \/ Wake(c) \/ Close(c) PROVE GP!Next
    BY <2>3, SameConnSteps DEF Accept, Wake, Close, GP!Next, GP!ConnNext
  <2>4. ASSUME NEW t \in GraceTimers, Park(t) PROVE GP!Next
    BY <2>4, SameGraceSteps DEF Park, GP!Next, GP!GraceNext
  <2>5. CASE GateStep
    <3>1. ASSUME NEW c \in Conns, G!Register(c) \/ G!ScheduleSleep(c) \/ G!Unregister(c)
          PROVE  GP!Next
      BY <3>1, SameConnSteps DEF GP!Next, GP!ConnNext
    <3>2. ASSUME NEW t \in GraceTimers,
                 G!GraceFires(t) \/ G!TrySleep(t) \/ G!Scavenge(t) \/ G!Decide(t) \/ G!Exit(t)
          PROVE  GP!Next
      BY <3>2, SameGraceSteps DEF GP!Next, GP!GraceNext
    <3>3. ASSUME G!Configure \/ \E s \in CapTimers : G!CapNext(s) PROVE GP!Next
      BY <3>3, SameOtherSteps DEF GP!Next
    <3> QED
      BY <2>5, <3>1, <3>2, <3>3 DEF GateStep
  <2> QED
    BY <2>1, <2>2, <2>3, <2>4, <2>5 DEF Next, RefresherStep, vars
<1> QED
  BY <1>1, GP!NextIInv, GateFinite, GateAssumption

(* The same for the refresher. *)
LEMMA RefresherKept == RP!IInv /\ [Next]_vars => RP!IInv'
<1> SUFFICES ASSUME RP!IInv, [Next]_vars PROVE RP!IInv'
  OBVIOUS
<1>1. CASE UNCHANGED refresherVars
  <2>1. UNCHANGED RP!vars
    BY <1>1 DEF refresherVars, RP!vars, RP!cacheVars, RP!sessionVars
  <2> QED
    BY <2>1, RP!NextIInv, RefresherAssumption
<1>2. ASSUME NEW b \in BOOLEAN, R!SetActive(b) PROVE RP!IInv'
  BY <1>2, SameSetActive, RP!SetActiveStep, RefresherAssumption
<1>3. ASSUME NEW c \in Conns, Accept(c) \/ Wake(c) \/ Close(c) PROVE RP!IInv'
  BY <1>1, <1>2, <1>3 DEF Accept, Wake, Close
<1>4. CASE RefresherStep
  <2>1. RP!Next
    <3>1. ASSUME NEW l \in Loops, R!LoopNext(l) PROVE RP!Next
      BY <3>1, SameLoopSteps DEF RP!Next
    <3>2. ASSUME NEW c \in Conns,
                 (\E k \in Keys : Receive(c, k)) \/ R!WaitCancelled(c) \/ R!Return(c)
          PROVE  RP!Next
      BY <3>2, SameClientSteps DEF Receive, RP!Next, RP!ClientNext
    <3>3. ASSUME NEW g \in R!Getters, R!GetNext(g) PROVE RP!Next
      BY <3>3, SameGetters, SameGetSteps DEF R!GetNext, RP!Next, RP!GetNext
    <3>4. ASSUME NEW i \in DOMAIN calls, R!FetchNext(i) PROVE RP!Next
      BY <3>4, SameFetchSteps DEF RP!Next
    <3>5. ASSUME NEW k \in Keys, R!Expire(k) PROVE RP!Next
      BY <3>5, SameRest DEF RP!Next
    <3> QED
      BY <1>4, <3>1, <3>2, <3>3, <3>4, <3>5 DEF RefresherStep
  <2> QED
    BY <2>1, RP!NextIInv, RefresherAssumption
<1> QED
  BY <1>1, <1>2, <1>3, <1>4 DEF Next, BootSleep, Park, GateStep, vars

-----------------------------------------------------------------------------
(* What the invariant says about a client, and about a process between two   *)
(* sessions. *)
LEMMA ServedFacts ==
    ASSUME IInv, NEW c \in Conns, hook[c] \in {"register", "open"}
    PROVE  proc = "serving" /\ ~sleeping /\ active /\ stop # NoChan /\ stop \notin closed
<1>1. ~sleeping
  BY DEF IInv, GP!IInv, GP!ServedAwake, GP!ServedStates
<1>2. proc = "serving"
  BY <1>1 DEF IInv, GP!IInv, GP!LockedAsleep, GP!Booting, GP!TypeOK
<1> QED
  BY <1>1, <1>2 DEF IInv, Wired, AwakeActive, RP!IInv, RP!ActiveOpen

(* Between two sessions nothing is cached, and no fetch is of the current generation. *)
LEMMA InactiveFacts ==
    ASSUME IInv, ~active
    PROVE  /\ \A i \in DOMAIN calls : calls[i].gen < gen
           /\ \A k \in Keys : entries[k] = 0
<1>1. CASE stop = NoChan
  <2>1. calls = <<>>
    BY <1>1 DEF IInv, Wired, Unstarted
  <2>2. DOMAIN calls = {}
    BY <2>1
  <2> QED
    BY <2>2 DEF IInv, RP!IInv, RP!CacheOfThisSession
<1>2. CASE stop # NoChan
  <2>1. \A i \in DOMAIN calls : calls[i].gen < gen
    BY <1>2 DEF IInv, RP!IInv, RP!ActiveOpen, RP!GensOrdered, RP!SessionEnded
  <2>2. ASSUME NEW k \in Keys, entries[k] # 0 PROVE FALSE
    <3>1. entries[k] \in DOMAIN calls /\ calls[entries[k]].gen = gen /\ gen \in Nat
      BY <2>2 DEF IInv, RP!IInv, RP!CacheOfThisSession, RP!TypeOK
    <3> QED
      BY <2>1, <3>1
  <2> QED
    BY <2>1, <2>2
<1> QED
  BY <1>1, <1>2

(* A step of the gate that neither parks, wakes nor serves anybody anew. *)
Quiet ==
    /\ UNCHANGED <<proc, profile, refresherVars>>
    /\ ~sleeping' => ~sleeping
    /\ \A t \in GraceTimers : grace'[t] \in Dropped => grace[t] \in Dropped
    /\ \A c \in Conns : hook[c] = "open" => hook'[c] = "open"
    /\ G!Served' = G!Served

(* Most steps of the gate are of that kind. *)
LEMMA QuietSteps ==
    ASSUME IInv
    PROVE  /\ \A c \in Conns : G!Register(c) \/ G!ScheduleSleep(c) \/ G!Unregister(c)
                 => (UNCHANGED refresherVars => Quiet)
           /\ \A t \in GraceTimers : G!GraceFires(t) \/ G!TrySleep(t) \/ G!Decide(t)
                 => (UNCHANGED refresherVars => Quiet)
           /\ \A s \in CapTimers : G!CapNext(s) => (UNCHANGED refresherVars => Quiet)
<1>0. hook \in [Conns -> GP!HookStates] /\ grace \in [GraceTimers -> GP!GraceStates]
  BY DEF IInv, GP!IInv, GP!TypeOK
<1> USE <1>0 DEF Quiet, Dropped, G!Served, G!ServedStates, G!connVars, G!graceVars, G!modeVars, G!mainVars
<1>1. ASSUME NEW c \in Conns, G!Register(c), UNCHANGED refresherVars PROVE Quiet
  BY <1>1 DEF G!Register
<1>2. ASSUME NEW c \in Conns, G!ScheduleSleep(c), UNCHANGED refresherVars PROVE Quiet
  BY <1>2 DEF G!ScheduleSleep
<1>3. ASSUME NEW c \in Conns, G!Unregister(c), UNCHANGED refresherVars PROVE Quiet
  BY <1>3 DEF G!Unregister
<1>4. ASSUME NEW t \in GraceTimers, G!GraceFires(t), UNCHANGED refresherVars PROVE Quiet
  BY <1>4 DEF G!GraceFires
<1>5. ASSUME NEW t \in GraceTimers, G!TrySleep(t), UNCHANGED refresherVars PROVE Quiet
  BY <1>5 DEF G!TrySleep
<1>6. ASSUME NEW t \in GraceTimers, G!Decide(t), UNCHANGED refresherVars PROVE Quiet
  BY <1>6 DEF G!Decide
<1>7. ASSUME NEW s \in CapTimers, G!CapNext(s), UNCHANGED refresherVars PROVE Quiet
  BY <1>7 DEF G!CapNext, G!CapFires, G!EndSession, G!ForceClose, G!Rearm
<1> QED
  BY <1>1, <1>2, <1>3, <1>4, <1>5, <1>6, <1>7

(* Such a step keeps the wiring. *)
LEMMA QuietWired ==
    ASSUME IInv, Quiet
    PROVE  Wired'
  BY DEF IInv, Wired, Quiet, refresherVars, AwakeActive, DroppedInactive, Unstarted, HandlersOpen,
         GensCounted, NoClientSeesSessionEnded

(* The end of a session, at boot or at a park. *)
LEMMA EndFacts ==
    ASSUME IInv, R!SetActive(FALSE)
    PROVE  /\ ~active' /\ gen' = gen + 1 /\ gen \in Nat
           /\ entries' = [k \in Keys |-> 0]
           /\ UNCHANGED <<stop, calls, req, loop>>
  BY DEF R!SetActive, R!EndSession, IInv, RP!IInv, RP!TypeOK

(* The steps of main. *)
LEMMA MainWired ==
    ASSUME IInv, (G!Configure /\ UNCHANGED refresherVars) \/ BootSleep
    PROVE  Wired'
<1>0. /\ proc \in {"start", "configured"}
      /\ \A c \in Conns : hook[c] = "none" /\ hook'[c] = "none"
      /\ UNCHANGED hook
  BY DEF IInv, GP!IInv, GP!Booting, G!Configure, G!connVars, BootSleep, G!BootSleep
<1>1. CASE G!Configure /\ UNCHANGED refresherVars
  BY <1>0, <1>1 DEF IInv, Wired, G!Configure, G!connVars, G!graceVars, G!modeVars, refresherVars,
     AwakeActive, DroppedInactive, Unstarted, HandlersOpen, GensCounted, NoClientSeesSessionEnded
<1>2. CASE BootSleep
  <2>1. /\ ~active' /\ gen' >= 1 /\ UNCHANGED <<stop, calls, req, loop>>
    BY <1>2, EndFacts DEF BootSleep
  <2>2. \A t \in GraceTimers : grace[t] \notin Dropped /\ grace'[t] \notin Dropped
    BY <1>2 DEF BootSleep, G!BootSleep, G!Unlocked, G!LockStates, G!StopGrace, G!Stopped, Dropped,
       IInv, GP!IInv, GP!TypeOK
  <2>3. sleeping' /\ proc' = "serving"
    BY <1>2 DEF BootSleep, G!BootSleep
  <2> QED
    BY <1>0, <2>1, <2>2, <2>3 DEF IInv, Wired,
       AwakeActive, DroppedInactive, Unstarted, HandlersOpen, GensCounted, NoClientSeesSessionEnded
<1> QED
  BY <1>1, <1>2

(* A connection is accepted, wakes the process, or closes. *)
LEMMA ConnWired ==
    ASSUME IInv, NEW c \in Conns, Accept(c) \/ Wake(c) \/ Close(c)
    PROVE  Wired'
<1>0. hook \in [Conns -> GP!HookStates] /\ sleeping \in BOOLEAN
  BY DEF IInv, GP!IInv, GP!TypeOK
<1>1. CASE Accept(c) \/ Close(c)
  <2>1. UNCHANGED <<proc, sleeping, profile, grace, refresherVars>>
    BY <1>1 DEF Accept, Close, G!Accept, G!Close, G!graceVars, G!modeVars, G!mainVars
  <2>2. \A d \in Conns : req[d].pc # "idle" /\ hook[d] = "open" => hook'[d] = "open"
    BY <1>0, <1>1 DEF Accept, Close, G!Accept, G!Close
  <2> QED
    BY <2>1, <2>2 DEF IInv, Wired, refresherVars,
       AwakeActive, DroppedInactive, Unstarted, HandlersOpen, GensCounted, NoClientSeesSessionEnded
<1>2. CASE Wake(c)
  <2>1. /\ proc = "serving" /\ proc' = "serving" /\ ~sleeping'
        /\ \A d \in Conns : hook[d] = "open" => hook'[d] = "open"
    BY <1>0, <1>2 DEF Wake, G!Wake, G!Running, G!mainVars
  <2>2. profile' # "parked"
    BY <1>0, <1>2 DEF Wake, G!Wake, IInv, GP!IInv, GP!AwakeFull
  <2>3. \A t \in GraceTimers : grace'[t] \notin Dropped
    BY <1>2 DEF Wake, G!Wake, G!Unlocked, G!LockStates, G!StopGrace, G!Stopped, Dropped,
       IInv, GP!IInv, GP!TypeOK
  <2>4. active' /\ UNCHANGED <<gen, calls, req, entries>>
    <3>1. CASE sleeping
      BY <1>2, <3>1 DEF Wake, R!SetActive, R!StartSession, R!sessionVars, R!cacheVars
    <3>2. CASE ~sleeping
      BY <1>2, <2>1, <3>2 DEF Wake, refresherVars, IInv, Wired, AwakeActive
    <3> QED
      BY <3>1, <3>2
  <2>5. stop' # NoChan
    BY <1>2, <2>4, RefresherKept DEF IInv, RP!IInv, RP!ActiveOpen, Next
  <2> QED
    BY <2>1, <2>2, <2>3, <2>4, <2>5 DEF IInv, Wired,
       AwakeActive, DroppedInactive, Unstarted, HandlersOpen, GensCounted, NoClientSeesSessionEnded
<1> QED
  BY <1>1, <1>2

(* A park, and an exit. *)
LEMMA ParkWired ==
    ASSUME IInv, NEW t \in GraceTimers,
           Park(t) \/ (UNCHANGED refresherVars /\ (G!Scavenge(t) \/ G!Exit(t)))
    PROVE  Wired'
<1>0. grace \in [GraceTimers -> GP!GraceStates]
  BY DEF IInv, GP!IInv, GP!TypeOK
<1>1. proc = "serving" /\ UNCHANGED <<hook, sleeping>>
  BY DEF Park, G!Park, G!Scavenge, G!Exit, G!Running, G!connVars, G!modeVars
<1>2. CASE Park(t)
  <2>1. /\ sleeping /\ proc' = proc
    BY <1>2 DEF Park, G!Park, G!mainVars, IInv, GP!IInv, GP!LockedAsleep, GP!LockStates
  <2>2. ~active' /\ gen' >= 2 /\ gen' >= 1 /\ UNCHANGED <<stop, calls, req, loop>>
    BY <1>1, <1>2, EndFacts DEF Park, IInv, Wired, GensCounted
  <2> QED
    BY <1>1, <2>1, <2>2 DEF IInv, Wired,
       AwakeActive, DroppedInactive, Unstarted, HandlersOpen, GensCounted, NoClientSeesSessionEnded
<1>3. CASE UNCHANGED refresherVars /\ (G!Scavenge(t) \/ G!Exit(t))
  <2>1. /\ grace[t] \in Dropped
        /\ proc' \in {"serving", "exited"}
    BY <1>1, <1>3 DEF G!Scavenge, G!Exit, G!mainVars, Dropped
  <2>2. ~active /\ gen >= 2
    BY <2>1 DEF IInv, Wired, DroppedInactive, GensCounted
  <2>3. sleeping
    BY <2>1 DEF IInv, GP!IInv, GP!LockedAsleep, GP!LockStates, Dropped
  <2> QED
    BY <1>1, <1>3, <2>1, <2>2, <2>3 DEF IInv, Wired, refresherVars,
       AwakeActive, DroppedInactive, Unstarted, HandlersOpen, GensCounted, NoClientSeesSessionEnded
<1> QED
  BY <1>2, <1>3

-----------------------------------------------------------------------------
(* What a step of the refresher may do to its callers. *)
CallersKept ==
    /\ stop # NoChan
    /\ UNCHANGED <<gateVars, active, gen, stop>>
    /\ \A c \in Conns : /\ req'[c].pc # "idle" => hook[c] = "open"
                        /\ req'[c].status # "ended"

(* Which keeps the wiring. *)
LEMMA KeptWired ==
    ASSUME IInv, CallersKept
    PROVE  Wired'
  BY DEF IInv, Wired, CallersKept, gateVars, AwakeActive, DroppedInactive, Unstarted,
         HandlersOpen, GensCounted, NoClientSeesSessionEnded

(* Connections are no loop's workers. *)
LEMMA Apart ==
    ASSUME NEW c \in Conns
    PROVE  c \notin RP!Workers /\ c \notin R!Workers /\ c \in RP!Getters
  BY RefresherAssumption DEF RP!Workers, R!Workers, RP!Getters

(* What the invariant says about a caller. *)
LEMMA StatusFacts ==
    ASSUME IInv
    PROVE  /\ req \in [RP!Getters -> RP!Request]
           /\ \A c \in Conns : /\ req[c].pc # "idle" => hook[c] = "open"
                               /\ req[c].status # "ended"
  BY DEF IInv, RP!IInv, RP!TypeOK, Wired, HandlersOpen, NoClientSeesSessionEnded

(* A loop that runs, and a caller of get, are of a process that has served. *)
LEMMA LoopKept ==
    ASSUME IInv, NEW l \in Loops, R!LoopNext(l), UNCHANGED gateVars
    PROVE  CallersKept
<1>1. stop # NoChan
  BY DEF IInv, Wired, Unstarted, R!LoopNext, R!RefreshAll, R!Join, R!Tick, R!LoopStop
<1>2. UNCHANGED <<active, gen, stop>>
  BY DEF R!LoopNext, R!RefreshAll, R!Join, R!Tick, R!LoopStop, R!sessionVars
<1>3. \A c \in Conns : req'[c] = req[c]
  <2>1. CASE R!RefreshAll(l)
    BY <2>1, Apart, SameGetters DEF R!RefreshAll
  <2>2. CASE UNCHANGED req
    BY <2>2
  <2> QED
    BY <2>1, <2>2 DEF R!LoopNext, R!Join, R!Tick, R!LoopStop
<1> QED
  BY <1>1, <1>2, <1>3, StatusFacts DEF CallersKept

(* A request arrives on, and is answered on, an open connection. *)
LEMMA ClientKept ==
    ASSUME IInv, NEW c \in Conns, UNCHANGED gateVars,
           (\E k \in Keys : Receive(c, k)) \/ R!WaitCancelled(c) \/ R!Return(c)
    PROVE  CallersKept
<1>1. hook[c] = "open"
  BY StatusFacts DEF Receive, R!WaitCancelled, R!Return
<1>2. stop # NoChan
  BY <1>1, ServedFacts
<1>3. UNCHANGED <<active, gen, stop>>
  BY DEF Receive, R!Receive, R!WaitCancelled, R!Return, R!sessionVars
<1>4. \A d \in Conns : d # c => req'[d] = req[d]
  BY Apart, StatusFacts DEF Receive, R!Receive, R!WaitCancelled, R!Return, R!Answer
<1>5. req'[c].status # "ended"
  <2>0. c \in DOMAIN req /\ c \notin R!Workers
    BY Apart, StatusFacts
  <2>1. CASE \E k \in Keys : Receive(c, k)
    BY <2>0, <2>1 DEF Receive, R!Receive, R!Asking, R!Idle
  <2>2. CASE R!WaitCancelled(c)
    <3>1. PICK w, b : w # "ended" /\ R!Answer(c, w, b)
      BY <2>2 DEF R!WaitCancelled
    <3>2. req'[c] = [req[c] EXCEPT !.pc = "done", !.call = 0, !.status = w, !.body = b]
      BY <2>0, <3>1 DEF R!Answer
    <3>3. req[c] \in RP!Request
      BY Apart, StatusFacts
    <3> QED
      BY <3>1, <3>2, <3>3 DEF RP!Request
  <2>3. CASE R!Return(c)
    BY <2>0, <2>3 DEF R!Return, R!Idle
  <2> QED
    BY <2>1, <2>2, <2>3
<1> QED
  BY <1>1, <1>2, <1>3, <1>4, <1>5, StatusFacts DEF CallersKept

(* A step of get is made for a session that has started; a client's is not   *)
(* refused for the end of one. *)
LEMMA GetKept ==
    ASSUME IInv, NEW g \in R!Getters, R!GetNext(g), UNCHANGED gateVars
    PROVE  CallersKept
<1>0. g \in RP!Getters /\ req \in [RP!Getters -> RP!Request]
  BY SameGetters, StatusFacts
<1>1. req[g].pc # "idle"
  BY DEF R!GetNext, R!GetFresh, R!GetJoin, R!GetRefused, R!GetFetch, R!WaitDone
<1>2. stop # NoChan
  BY <1>0, <1>1 DEF IInv, Wired, Unstarted
<1>3. UNCHANGED <<active, gen, stop>>
  BY DEF R!GetNext, R!GetFresh, R!GetJoin, R!GetRefused, R!GetFetch, R!WaitDone, R!sessionVars
<1>4. \A d \in Conns : d # g => req'[d] = req[d]
  BY <1>0, Apart
  DEF R!GetNext, R!GetFresh, R!GetJoin, R!GetRefused, R!GetFetch, R!WaitDone, R!Answer
<1>5. ASSUME g \in Conns PROVE hook[g] = "open" /\ req'[g].status # "ended"
  <2>0. g \notin R!Workers
    BY <1>5, Apart
  <2>1. hook[g] = "open" /\ req[g].status # "ended"
    BY <1>1, <1>5, StatusFacts
  <2>2. ~R!GetRefused(g)
    <3>1. ~R!SessionEnded
      BY <1>5, <2>1, ServedFacts DEF R!SessionEnded
    <3>2. req[g].key \in Keys
      BY <1>0 DEF RP!Request
    <3> QED
      BY <3>1, <3>2 DEF R!GetRefused
  <2>3. CASE R!GetFresh(g) \/ R!WaitDone(g)
    <3>1. PICK i : R!Answer(g, "body", i)
      BY <2>3 DEF R!GetFresh, R!WaitDone
    <3>2. req'[g] = [req[g] EXCEPT !.pc = "done", !.call = 0, !.status = "body", !.body = i]
      BY <1>0, <2>0, <3>1 DEF R!Answer
    <3>3. req[g] \in RP!Request
      BY <1>0
    <3> QED
      BY <3>2, <3>3, <2>1 DEF RP!Request
  <2>4. CASE R!GetJoin(g) \/ R!GetFetch(g)
    <3>1. PICK i : req' = [req EXCEPT ![g].pc = "wait", ![g].call = i]
      BY <2>4 DEF R!GetJoin, R!GetFetch
    <3>2. req'[g] = [req[g] EXCEPT !.pc = "wait", !.call = i]
      BY <1>0, <3>1
    <3>3. req[g] \in RP!Request
      BY <1>0
    <3> QED
      BY <2>1, <3>2, <3>3 DEF RP!Request
  <2> QED
    BY <2>1, <2>2, <2>3, <2>4 DEF R!GetNext
<1> QED
  BY <1>2, <1>3, <1>4, <1>5, StatusFacts DEF CallersKept

(* A fetch has been started by somebody. *)
LEMMA FetchKept ==
    ASSUME IInv, NEW i \in DOMAIN calls, R!FetchNext(i), UNCHANGED gateVars
    PROVE  CallersKept
<1>1. stop # NoChan
  BY DEF IInv, Wired, Unstarted
<1>2. UNCHANGED <<active, gen, stop, req>>
  BY DEF R!FetchNext, R!Store, R!Unlink, R!CloseDone, R!sessionVars
<1> QED
  BY <1>1, <1>2, StatusFacts DEF CallersKept

(* Expiry touches nothing the invariant speaks of. *)
LEMMA ExpireWired ==
    ASSUME IInv, NEW k \in Keys, R!Expire(k), UNCHANGED gateVars
    PROVE  Wired'
  BY DEF IInv, Wired, R!Expire, R!sessionVars, gateVars, AwakeActive, DroppedInactive, Unstarted,
         HandlersOpen, GensCounted, NoClientSeesSessionEnded

(* So the steps of the refresher keep the wiring. *)
LEMMA RefresherWired ==
    ASSUME IInv, RefresherStep
    PROVE  Wired'
<1> USE DEF RefresherStep
<1>1. ASSUME NEW l \in Loops, R!LoopNext(l) PROVE Wired'
  BY <1>1, LoopKept, KeptWired
<1>2. ASSUME NEW c \in Conns,
             (\E k \in Keys : Receive(c, k)) \/ R!WaitCancelled(c) \/ R!Return(c)
      PROVE  Wired'
  BY <1>2, ClientKept, KeptWired
<1>3. ASSUME NEW g \in R!Getters, R!GetNext(g) PROVE Wired'
  BY <1>3, GetKept, KeptWired
<1>4. ASSUME NEW i \in DOMAIN calls, R!FetchNext(i) PROVE Wired'
  BY <1>4, FetchKept, KeptWired
<1>5. ASSUME NEW k \in Keys, R!Expire(k) PROVE Wired'
  BY <1>5, ExpireWired
<1> QED
  BY <1>1, <1>2, <1>3, <1>4, <1>5

(* Every step of the process keeps the invariant. *)
LEMMA NextIInv == IInv /\ [Next]_vars => IInv'
<1> SUFFICES ASSUME IInv, [Next]_vars PROVE Wired'
  BY GateKept, RefresherKept DEF IInv
<1>1. CASE UNCHANGED vars
  BY <1>1 DEF vars, gateVars, refresherVars, IInv, Wired, AwakeActive, DroppedInactive, Unstarted,
     HandlersOpen, GensCounted, NoClientSeesSessionEnded
<1>2. CASE BootSleep
  BY <1>2, MainWired
<1>3. ASSUME NEW c \in Conns, Accept(c) \/ Wake(c) \/ Close(c) PROVE Wired'
  BY <1>3, ConnWired
<1>4. ASSUME NEW t \in GraceTimers, Park(t) PROVE Wired'
  BY <1>4, ParkWired
<1>5. CASE GateStep
  <2>1. UNCHANGED refresherVars
    BY <1>5 DEF GateStep
  <2>2. ASSUME NEW c \in Conns, G!Register(c) \/ G!ScheduleSleep(c) \/ G!Unregister(c)
        PROVE  Wired'
    BY <2>1, <2>2, QuietSteps, QuietWired
  <2>3. ASSUME NEW t \in GraceTimers, G!GraceFires(t) \/ G!TrySleep(t) \/ G!Decide(t)
        PROVE  Wired'
    BY <2>1, <2>3, QuietSteps, QuietWired
  <2>4. ASSUME NEW s \in CapTimers, G!CapNext(s) PROVE Wired'
    BY <2>1, <2>4, QuietSteps, QuietWired
  <2>5. ASSUME NEW t \in GraceTimers, G!Scavenge(t) \/ G!Exit(t) PROVE Wired'
    BY <2>1, <2>5, ParkWired
  <2>6. CASE G!Configure
    BY <2>1, <2>6, MainWired
  <2> QED
    BY <1>5, <2>2, <2>3, <2>4, <2>5, <2>6 DEF GateStep
<1>6. CASE RefresherStep
  BY <1>6, RefresherWired
<1> QED
  BY <1>1, <1>2, <1>3, <1>4, <1>5, <1>6 DEF Next

(* The invariant holds throughout. *)
LEMMA Invariance == Spec => []IInv
  BY InitIInv, NextIInv, PTL DEF Spec

-----------------------------------------------------------------------------
(* No client is told that its session has ended, for any number of           *)
(* connections, timers, endpoints and sessions (get's refusal). *)
THEOREM ClientsNeverSeeTheEnd == Spec => []NoClientSeesSessionEnded
<1>1. IInv => NoClientSeesSessionEnded
  BY DEF IInv, Wired
<1> QED
  BY <1>1, Invariance, PTL

(* Whoever is served belongs to an active session (wake, init's wakeFn). *)
THEOREM ServedAreRefreshed == Spec => []ServedIsRefreshed
<1>1. IInv => ServedIsRefreshed
  BY ServedFacts DEF ServedIsRefreshed, G!Served, G!ServedStates
<1> QED
  BY <1>1, Invariance, PTL

(* A parked or exiting process caches nothing (init's sleepFn, get's         *)
(* generation guard). *)
THEOREM ParkedCacheIsEmpty == Spec => []ParkedCachesNothing
<1>1. IInv => ParkedCachesNothing
  <2> SUFFICES ASSUME IInv,
                      \/ profile = "parked"
                      \/ \E t \in GraceTimers : grace[t] \in {"scavenging", "deciding", "exiting"}
               PROVE  \A k \in Keys : entries[k] = 0
    BY DEF ParkedCachesNothing
  <2>1. ~active
    BY DEF IInv, Wired, DroppedInactive, Dropped
  <2> QED
    BY <2>1, InactiveFacts
<1> QED
  BY <1>1, Invariance, PTL

(* A process exits only after a park of its own, never from the boot park    *)
(* (BootSleep, trySleep). *)
THEOREM BootParkIsNotTerminal == Spec => []BootParkNotTerminal
<1>1. IInv => BootParkNotTerminal
  BY DEF IInv, Wired, GensCounted, BootParkNotTerminal
<1> QED
  BY <1>1, Invariance, PTL

-----------------------------------------------------------------------------
(* The process implements ZeroCost: each step is one of its steps, or leaves *)
(* what it shows of the process alone. *)
LEMMA ZInit == Init => Z!Init
<1> SUFFICES ASSUME Init PROVE Z!Init
  OBVIOUS
<1>1. G!Served = {}
  BY DEF Init, G!Init, G!Served, G!ServedStates
<1>2. mode = "asleep"
  BY DEF Init, G!Init, R!Init, mode
<1>3. {k \in Keys : entries[k] # 0} = {} /\ Len(calls) = 0
  BY DEF Init, R!Init
<1> QED
  BY <1>1, <1>2, <1>3 DEF Z!Init

(* What ZeroCost does not see. *)
LEMMA ZSame ==
    ASSUME UNCHANGED <<proc, active, entries, calls>>, G!Served' = G!Served
    PROVE  UNCHANGED Z!vars
  BY DEF Z!vars, mode

(* The boot park is not seen: nothing was awake. *)
LEMMA ZMain ==
    ASSUME IInv, (G!Configure /\ UNCHANGED refresherVars) \/ BootSleep
    PROVE  UNCHANGED Z!vars
<1>1. proc # "exited" /\ proc' # "exited" /\ ~active /\ G!Served' = G!Served
  BY DEF IInv, Wired, DroppedInactive, BootSleep, G!BootSleep, G!Configure, G!connVars, G!Served
<1>2. ~active' /\ UNCHANGED calls
  <2>1. CASE BootSleep
    BY <2>1, EndFacts DEF BootSleep
  <2>2. CASE UNCHANGED refresherVars
    BY <1>1, <2>2 DEF refresherVars
  <2> QED
    BY <2>1, <2>2
<1>3. \A k \in Keys : entries[k] = 0 /\ entries'[k] = 0
  <2>1. \A k \in Keys : entries[k] = 0
    BY <1>1, InactiveFacts
  <2> QED
    BY <2>1, EndFacts DEF BootSleep, refresherVars
<1>4. mode' = mode
  BY <1>1, <1>2 DEF mode
<1>5. {k \in Keys : entries[k] # 0}' = {k \in Keys : entries[k] # 0}
  BY <1>3
<1> QED
  BY <1>1, <1>2, <1>4, <1>5 DEF Z!vars

(* A connection that finds others open is served by their session. *)
LEMMA ZAccept ==
    ASSUME IInv, NEW c \in Conns, Accept(c)
    PROVE  Z!Arrive(c) \/ UNCHANGED Z!vars
<1>0. /\ hook \in [Conns -> GP!HookStates] /\ conns \in Nat
      /\ proc = "serving" /\ UNCHANGED <<proc, refresherVars>>
      /\ hook[c] = "none"
  BY DEF IInv, GP!IInv, GP!TypeOK, Accept, G!Accept, G!Running, G!mainVars
<1>1. CASE conns = 0
  <2>1. hook' = [hook EXCEPT ![c] = "wake"]
    BY <1>1 DEF Accept, G!Accept
  <2>2. G!Served' = G!Served
    BY <1>0, <2>1 DEF G!Served, G!ServedStates
  <2> QED
    BY <1>0, <2>2, ZSame DEF refresherVars
<1>2. CASE conns # 0
  <2>1. PICK d \in Conns : hook[d] \in GP!CountedStates
    BY <1>2, GP!CountedFacts, GateFinite, GateAssumption DEF IInv, GP!IInv
  <2>2. hook[d] = "open"
    BY <2>1 DEF Accept, G!Accept, G!AcceptFree, GP!CountedStates
  <2>3. active
    BY <2>2, ServedFacts
  <2>4. hook' = [hook EXCEPT ![c] = "register"]
    <3>1. conns + 1 # 1
      BY <1>0, <1>2
    <3> QED
      BY <3>1 DEF Accept, G!Accept
  <2>5. G!Served' = G!Served \cup {c}
    BY <1>0, <2>4 DEF G!Served, G!ServedStates
  <2>6. mode = "awake" /\ mode' = "awake"
    BY <1>0, <2>3 DEF mode, refresherVars
  <2> QED
    BY <1>0, <2>5, <2>6 DEF Z!Arrive, refresherVars
<1> QED
  BY <1>1, <1>2

(* Leaving deep sleep serves the first client. *)
LEMMA ZWake ==
    ASSUME IInv, NEW c \in Conns, Wake(c)
    PROVE  Z!Arrive(c)
<1>1. /\ hook \in [Conns -> GP!HookStates] /\ proc = "serving" /\ proc' = "serving"
      /\ hook[c] = "wake" /\ hook' = [hook EXCEPT ![c] = "register"]
  BY DEF IInv, GP!IInv, GP!TypeOK, Wake, G!Wake, G!Running, G!mainVars
<1>2. G!Served' = G!Served \cup {c}
  BY <1>1 DEF G!Served, G!ServedStates
<1>3. active' /\ UNCHANGED <<entries, calls>>
  <2>1. CASE sleeping
    BY <2>1 DEF Wake, R!SetActive, R!StartSession, R!sessionVars, R!cacheVars
  <2>2. CASE ~sleeping
    BY <1>1, <2>2 DEF Wake, refresherVars, IInv, Wired, AwakeActive
  <2> QED
    BY <2>1, <2>2
<1>4. mode # "gone" /\ mode' = "awake"
  BY <1>1, <1>3 DEF mode
<1> QED
  BY <1>2, <1>3, <1>4 DEF Z!Arrive

(* A client leaves an awake process. *)
LEMMA ZClose ==
    ASSUME IInv, NEW c \in Conns, Close(c)
    PROVE  Z!Leave(c)
<1>1. /\ hook \in [Conns -> GP!HookStates] /\ proc = "serving"
      /\ UNCHANGED <<proc, refresherVars>> /\ hook[c] = "open"
  BY DEF IInv, GP!IInv, GP!TypeOK, Close, G!Close, G!Running, G!mainVars
<1>2. PICK h \in {"schedule", "unregister"} : hook' = [hook EXCEPT ![c] = h]
  BY DEF Close, G!Close
<1>3. G!Served' = G!Served \ {c}
  BY <1>1, <1>2 DEF G!Served, G!ServedStates
<1>4. mode = "awake" /\ mode' = mode
  BY <1>1, ServedFacts DEF mode, refresherVars
<1> QED
  BY <1>1, <1>3, <1>4 DEF Z!Leave, refresherVars

(* A park finds nobody served; one that follows the boot park, or another    *)
(* park, without a session between them changes nothing. *)
LEMMA ZPark ==
    ASSUME IInv, NEW t \in GraceTimers, Park(t)
    PROVE  Z!Sleep \/ UNCHANGED Z!vars
<1>1. proc = "serving" /\ UNCHANGED <<proc, hook>> /\ sleeping
  BY DEF Park, G!Park, G!Running, G!connVars, G!mainVars, IInv, GP!IInv, GP!LockedAsleep, GP!LockStates
<1>2. G!Served = {} /\ G!Served' = {}
  BY <1>1 DEF IInv, GP!IInv, GP!ServedAwake, GP!ServedStates, G!Served, G!ServedStates
<1>3. ~active' /\ entries' = [k \in Keys |-> 0] /\ UNCHANGED calls
  BY EndFacts DEF Park
<1>4. {k \in Keys : entries[k] # 0}' = {}
  BY <1>3
<1>5. CASE active
  BY <1>1, <1>2, <1>3, <1>4, <1>5 DEF Z!Sleep, mode
<1>6. CASE ~active
  <2>1. {k \in Keys : entries[k] # 0} = {}
    BY <1>6, InactiveFacts
  <2>2. mode' = mode
    BY <1>1, <1>3, <1>6 DEF mode
  <2> QED
    BY <1>2, <1>3, <1>4, <2>1, <2>2 DEF Z!vars
<1> QED
  BY <1>5, <1>6

(* runtimeSleep is not seen. *)
LEMMA ZScavenge ==
    ASSUME IInv, NEW t \in GraceTimers, G!Scavenge(t), UNCHANGED refresherVars
    PROVE  UNCHANGED Z!vars
<1>1. UNCHANGED <<proc, hook>>
  BY DEF G!Scavenge, G!connVars, G!mainVars
<1>2. G!Served' = G!Served
  BY <1>1 DEF G!Served
<1> QED
  BY <1>1, <1>2, ZSame DEF refresherVars

(* The process goes away asleep, with nobody served. *)
LEMMA ZExit ==
    ASSUME IInv, NEW t \in GraceTimers, G!Exit(t), UNCHANGED refresherVars
    PROVE  Z!Exit
<1>1. proc = "serving" /\ proc' = "exited" /\ UNCHANGED hook /\ grace[t] = "exiting"
  BY DEF G!Exit, G!Running, G!connVars
<1>2. sleeping /\ ~active
  BY <1>1 DEF IInv, GP!IInv, GP!LockedAsleep, GP!LockStates, Wired, DroppedInactive, Dropped
<1>3. G!Served = {} /\ G!Served' = {}
  BY <1>1, <1>2 DEF IInv, GP!IInv, GP!ServedAwake, GP!ServedStates, G!Served, G!ServedStates
<1>4. mode = "asleep" /\ mode' = "gone"
  BY <1>1, <1>2 DEF mode
<1> QED
  BY <1>3, <1>4 DEF Z!Exit, refresherVars

(* The refresher fetches and caches for an active session only. *)
LEMMA ZRefresher ==
    ASSUME IInv, RefresherStep
    PROVE  Z!Next \/ UNCHANGED Z!vars
<1>0. /\ proc = "serving" /\ UNCHANGED <<proc, hook>>
      /\ calls \in Seq(RP!Call) /\ entries \in [Keys -> Nat]
  BY DEF RefresherStep, G!Running, gateVars, IInv, RP!IInv, RP!TypeOK
<1>1. G!Served' = G!Served
  BY <1>0 DEF G!Served
<1>2. CASE UNCHANGED <<active, entries, calls>>
  BY <1>0, <1>1, <1>2, ZSame
<1>3. ASSUME NEW l \in Loops, R!LoopNext(l) PROVE UNCHANGED <<active, entries, calls>>
  BY <1>3 DEF R!LoopNext, R!RefreshAll, R!Join, R!Tick, R!LoopStop, R!sessionVars, R!cacheVars
<1>4. ASSUME NEW c \in Conns,
             (\E k \in Keys : Receive(c, k)) \/ R!WaitCancelled(c) \/ R!Return(c)
      PROVE  UNCHANGED <<active, entries, calls>>
  BY <1>4 DEF Receive, R!Receive, R!WaitCancelled, R!Return, R!sessionVars, R!cacheVars
<1>5. ASSUME NEW k \in Keys, R!Expire(k) PROVE UNCHANGED <<active, entries, calls>>
  BY <1>5 DEF R!Expire, R!sessionVars
<1>6. ASSUME NEW g \in R!Getters, R!GetFresh(g) \/ R!GetJoin(g) \/ R!GetRefused(g) \/ R!WaitDone(g)
      PROVE  UNCHANGED <<active, entries, calls>>
  BY <1>6 DEF R!GetFresh, R!GetJoin, R!GetRefused, R!WaitDone, R!sessionVars, R!cacheVars
<1>7. ASSUME NEW g \in R!Getters, R!GetFetch(g) PROVE Z!Fetch
  <2>1. stop # NoChan /\ ~R!SessionEnded
    BY <1>7, SameGetters DEF R!GetFetch, IInv, Wired, Unstarted
  <2>2. active
    BY <2>1 DEF IInv, RP!IInv, RP!ActiveOpen, R!SessionEnded
  <2>3. UNCHANGED <<active, entries>>
    BY <1>7 DEF R!GetFetch, R!sessionVars, R!cacheVars
  <2>4. PICK x : calls' = Append(calls, x)
    BY <1>7 DEF R!GetFetch
  <2>5. Len(calls') = Len(calls) + 1
    BY <1>0, <2>4
  <2>6. mode = "awake" /\ mode' = mode
    BY <1>0, <2>2, <2>3 DEF mode
  <2> QED
    BY <1>1, <2>3, <2>5, <2>6 DEF Z!Fetch
<1>8. ASSUME NEW i \in DOMAIN calls, R!FetchNext(i) PROVE Z!Next \/ UNCHANGED Z!vars
  <2>1. UNCHANGED <<active, gen>> /\ \E st \in RP!CallStates : calls' = [calls EXCEPT ![i].st = st]
    BY <1>8 DEF R!FetchNext, R!Store, R!Unlink, R!CloseDone, R!sessionVars, RP!CallStates
  <2>2. Len(calls') = Len(calls)
    BY <1>0, <2>1
  <2>3. mode' = mode
    BY <1>0, <2>1 DEF mode
  <2>4. CASE UNCHANGED entries
    BY <1>1, <2>2, <2>3, <2>4 DEF Z!vars
  <2>5. CASE R!Store(i) /\ calls[i].gen = gen
    <3>1. active /\ calls[i].key \in Keys
      <4>1. gen \in Nat /\ calls[i].key \in Keys
        BY RP!CallsType, RefresherAssumption DEF IInv, RP!IInv, RP!TypeOK
      <4>2. active
        BY <2>5, <4>1, InactiveFacts
      <4> QED
        BY <4>1, <4>2
    <3>2. entries' = [entries EXCEPT ![calls[i].key] = i]
      BY <2>5 DEF R!Store
    <3>3. i # 0
      BY <1>0
    <3>4. {k \in Keys : entries[k] # 0}' = {k \in Keys : entries[k] # 0} \cup {calls[i].key}
      <4>1. \A k \in Keys : entries'[k] = IF k = calls[i].key THEN i ELSE entries[k]
        BY <1>0, <3>2
      <4> QED
        BY <3>1, <3>3, <4>1
    <3>5. mode = "awake"
      BY <1>0, <3>1 DEF mode
    <3>6. PICK m \in Keys : m = calls[i].key
      BY <3>1
    <3>7. Z!Cache(m)
      BY <1>1, <2>2, <2>3, <3>4, <3>5, <3>6 DEF Z!Cache
    <3> QED
      BY <3>7 DEF Z!Next
  <2> QED
    BY <1>8, <2>4, <2>5 DEF R!FetchNext, R!Store, R!Unlink, R!CloseDone, R!cacheVars
<1> QED
  BY <1>2, <1>3, <1>4, <1>5, <1>6, <1>7, <1>8 DEF RefresherStep, R!GetNext, Z!Next

(* Every step. *)
LEMMA ZNext == IInv /\ [Next]_vars => [Z!Next]_(Z!vars)
<1> SUFFICES ASSUME IInv, [Next]_vars PROVE Z!Next \/ UNCHANGED Z!vars
  OBVIOUS
<1>0. CASE Quiet
  BY <1>0, ZSame DEF Quiet, refresherVars
<1>1. CASE UNCHANGED vars
  <2>1. UNCHANGED <<proc, active, entries, calls, hook>>
    BY <1>1 DEF vars, gateVars, refresherVars
  <2>2. G!Served' = G!Served
    BY <2>1 DEF G!Served
  <2> QED
    BY <2>1, <2>2, ZSame
<1>2. CASE BootSleep
  BY <1>2, ZMain
<1>3. ASSUME NEW c \in Conns, Accept(c) \/ Wake(c) \/ Close(c) PROVE Z!Next \/ UNCHANGED Z!vars
  BY <1>3, ZAccept, ZWake, ZClose DEF Z!Next
<1>4. ASSUME NEW t \in GraceTimers, Park(t) PROVE Z!Next \/ UNCHANGED Z!vars
  BY <1>4, ZPark DEF Z!Next
<1>5. CASE GateStep
  <2>1. UNCHANGED refresherVars
    BY <1>5 DEF GateStep
  <2>2. ASSUME NEW c \in Conns, G!Register(c) \/ G!ScheduleSleep(c) \/ G!Unregister(c)
        PROVE  Quiet
    BY <2>1, <2>2, QuietSteps
  <2>3. ASSUME NEW t \in GraceTimers, G!GraceFires(t) \/ G!TrySleep(t) \/ G!Decide(t)
        PROVE  Quiet
    BY <2>1, <2>3, QuietSteps
  <2>4. ASSUME NEW s \in CapTimers, G!CapNext(s) PROVE Quiet
    BY <2>1, <2>4, QuietSteps
  <2>5. ASSUME NEW t \in GraceTimers, G!Scavenge(t) \/ G!Exit(t)
        PROVE  Z!Next \/ UNCHANGED Z!vars
    BY <2>1, <2>5, ZScavenge, ZExit DEF Z!Next
  <2>6. CASE G!Configure
    BY <2>1, <2>6, ZMain
  <2> QED
    BY <1>0, <1>5, <2>2, <2>3, <2>4, <2>5, <2>6 DEF GateStep
<1>6. CASE RefresherStep
  BY <1>6, ZRefresher
<1> QED
  BY <1>1, <1>2, <1>3, <1>4, <1>5, <1>6 DEF Next

(* The gate and the refresher together implement ZeroCost: awake for clients *)
(* and asleep otherwise. *)
THEOREM RefinesZeroCost == Spec => ImplementsZeroCost
<1>1. Init => Z!Init
  BY ZInit
<1>2. IInv /\ [Next]_vars => [Z!Next]_(Z!vars)
  BY ZNext
<1> QED
  BY <1>1, <1>2, Invariance, PTL DEF Spec, ImplementsZeroCost, Z!Spec

-----------------------------------------------------------------------------
(* "A late fetch cannot smuggle stale bytes into the next session" does not  *)
(* hold of every behaviour.  It holds of those in which a session starts     *)
(* with no fetch in flight: a fetch of the previous session that a client    *)
(* joins is the only way in. *)
PromptStart == ~active /\ active' => \A k \in Keys : inflight[k] = 0

PromptSpec == Init /\ [][Next /\ PromptStart]_vars

(* What a client may join, waits for and was answered with is of the session *)
(* that serves it. *)
ThisSession ==
    /\ active => \A k \in Keys : inflight[k] # 0 => calls[inflight[k]].gen = gen
    /\ \A c \in Conns : req[c].pc = "wait" => calls[req[c].call].gen = gen
    /\ NoLateFetchServed

(* A client whose answer was cached, or who waited for it, ... *)
LEMMA AnswerOfSession ==
    ASSUME IInv, ThisSession, NEW c \in Conns, NEW s \in RP!Statuses, NEW b \in Nat,
           R!Answer(c, s, b), s = "body" => calls[b].gen = gen,
           UNCHANGED <<inflight, active, gen, calls>>
    PROVE  ThisSession'
<1>1. c \notin R!Workers /\ req \in [RP!Getters -> RP!Request] /\ c \in RP!Getters
  BY Apart, StatusFacts
<1>2. req'[c] = [req[c] EXCEPT !.pc = "done", !.call = 0, !.status = s, !.body = b]
  BY <1>1 DEF R!Answer
<1>3. req'[c].pc = "done" /\ req'[c].status = s /\ req'[c].body = b
  <2>1. req[c] \in RP!Request
    BY <1>1
  <2> QED
    BY <1>2, <2>1 DEF RP!Request
<1>4. \A d \in Conns : d # c => req'[d] = req[d]
  BY <1>1, Apart DEF R!Answer
<1> QED
  BY <1>3, <1>4 DEF ThisSession, NoLateFetchServed

(* ... a client who asks or leaves, ... *)
LEMMA OtherOfSession ==
    ASSUME ThisSession, UNCHANGED <<inflight, active, gen, calls>>,
           \A c \in Conns : req'[c] = req[c] \/ req'[c].pc \in {"idle", "get"}
    PROVE  ThisSession'
  BY DEF ThisSession, NoLateFetchServed

(* ... a client who joins a fetch or starts one, and a loop's worker, ... *)
LEMMA GetOfSession ==
    ASSUME IInv, ThisSession, NEW g \in R!Getters, R!GetNext(g)
    PROVE  ThisSession'
<1>0. g \in RP!Getters /\ req \in [RP!Getters -> RP!Request]
  BY SameGetters, StatusFacts
<1>1. /\ req[g] \in RP!Request /\ RP!CallerOK(req[g])
      /\ req[g].key \in Keys /\ req[g].call \in Nat /\ entries[req[g].key] \in Nat
  BY <1>0 DEF RP!Request, IInv, RP!IInv, RP!TypeOK, RP!ReqOK
<1>2. req[g].pc # "idle"
  BY DEF R!GetNext, R!GetFresh, R!GetJoin, R!GetRefused, R!GetFetch, R!WaitDone
<1>3. g \in Conns => active
  BY <1>2, StatusFacts, ServedFacts
<1>4. CASE R!GetFetch(g)
  <2> DEFINE k == req[g].key
             n == Len(calls) + 1
             new == [key |-> k, gen |-> gen, st |-> "running"]
  <2>1. /\ calls' = Append(calls, new) /\ inflight' = [inflight EXCEPT ![k] = n]
        /\ req' = [req EXCEPT ![g].pc = "wait", ![g].call = n]
        /\ UNCHANGED <<active, gen>>
    BY <1>4 DEF R!GetFetch, R!sessionVars
  <2>2. /\ calls'[n].gen = gen
        /\ \A i \in DOMAIN calls : calls'[i] = calls[i]
    <3>1. calls \in Seq(RP!Call)
      BY DEF IInv, RP!IInv, RP!TypeOK
    <3>2. Len(calls) \in Nat /\ DOMAIN calls = 1..Len(calls)
      BY <3>1
    <3>3. new.gen = gen
      OBVIOUS
    <3> HIDE DEF new
    <3> QED
      BY <2>1, <3>1, <3>2, <3>3
  <2>3. \A d \in Conns : d # g => req'[d] = req[d]
    BY <1>0, <2>1, Apart
  <2>4. req'[g].pc = "wait" /\ req'[g].call = n
    <3>1. req'[g] = [req[g] EXCEPT !.pc = "wait", !.call = n]
      BY <1>0, <2>1
    <3> QED
      BY <1>1, <3>1 DEF RP!Request
  <2>5. \A m \in Keys : inflight'[m] = IF m = k THEN n ELSE inflight[m]
    BY <1>1, <2>1 DEF IInv, RP!IInv, RP!TypeOK
  <2>6. \A m \in Keys : inflight[m] # 0 => inflight[m] \in DOMAIN calls
    BY DEF IInv, RP!IInv, RP!InflightOK
  <2>7. \A d \in Conns : RP!CallerOK(req[d])
    BY Apart DEF IInv, RP!IInv, RP!ReqOK
  <2> HIDE DEF n, new, k
  <2>8. \A m \in Keys : active' /\ inflight'[m] # 0 => calls'[inflight'[m]].gen = gen
    <3> SUFFICES ASSUME NEW m \in Keys, active, inflight'[m] # 0
                 PROVE  calls'[inflight'[m]].gen = gen
      BY <2>1
    <3>1. CASE m = k
      BY <2>2, <2>5, <3>1
    <3>2. CASE m # k
      <4>1. inflight'[m] = inflight[m] /\ inflight[m] \in DOMAIN calls
        BY <2>5, <2>6, <3>2
      <4>2. calls[inflight[m]].gen = gen
        BY <4>1 DEF ThisSession
      <4> QED
        BY <2>2, <4>1, <4>2
    <3> QED
      BY <3>1, <3>2
  <2>9. \A d \in Conns : req'[d].pc = "wait" => calls'[req'[d].call].gen = gen
    BY <2>2, <2>3, <2>4, <2>7 DEF ThisSession, RP!CallerOK
  <2>10. \A d \in Conns : req'[d].pc = "done" /\ req'[d].status = "body" => calls'[req'[d].body].gen = gen
    BY <2>2, <2>3, <2>4, <2>7 DEF ThisSession, NoLateFetchServed, RP!CallerOK, RP!Finished
  <2> QED
    BY <2>1, <2>8, <2>9, <2>10 DEF ThisSession, NoLateFetchServed
<1>5. ASSUME ~R!GetFetch(g) PROVE UNCHANGED <<inflight, active, gen, calls>>
  BY <1>5 DEF R!GetNext, R!GetFresh, R!GetJoin, R!GetRefused, R!WaitDone, R!sessionVars
<1>6. ASSUME ~R!GetFetch(g), g \notin Conns PROVE ThisSession'
  <2>1. \A d \in Conns : req'[d] = req[d]
    BY <1>0, <1>6, Apart
    DEF R!GetNext, R!GetFresh, R!GetJoin, R!GetRefused, R!WaitDone, R!Answer
  <2> QED
    BY <1>5, <1>6, <2>1, OtherOfSession
<1>7. ASSUME ~R!GetFetch(g), g \in Conns PROVE ThisSession'
  <2>1. CASE R!GetJoin(g)
    <3> DEFINE k == req[g].key
    <3>1. inflight[k] # 0 /\ req' = [req EXCEPT ![g].pc = "wait", ![g].call = inflight[k]]
      BY <2>1 DEF R!GetJoin
    <3>2. req'[g].pc = "wait" /\ req'[g].call = inflight[k]
      <4>1. req'[g] = [req[g] EXCEPT !.pc = "wait", !.call = inflight[k]]
        BY <1>0, <3>1
      <4> QED
        BY <1>1, <4>1 DEF RP!Request
    <3>3. calls[inflight[k]].gen = gen
      BY <1>1, <1>3, <1>7, <3>1 DEF ThisSession
    <3>4. \A d \in Conns : d # g => req'[d] = req[d]
      BY <1>0, <3>1, Apart
    <3> QED
      BY <1>5, <1>7, <3>2, <3>3, <3>4 DEF ThisSession, NoLateFetchServed
  <2>2. CASE R!GetFresh(g)
    <3>1. entries[req[g].key] # 0 /\ R!Answer(g, "body", entries[req[g].key])
      BY <2>2 DEF R!GetFresh, R!Stale
    <3>2. calls[entries[req[g].key]].gen = gen
      BY <1>1, <3>1 DEF IInv, RP!IInv, RP!CacheOfThisSession
    <3> QED
      BY <1>1, <1>5, <1>7, <3>1, <3>2, AnswerOfSession DEF RP!Statuses
  <2>3. CASE R!WaitDone(g)
    <3>1. R!Answer(g, "body", req[g].call) /\ calls[req[g].call].gen = gen
      BY <1>7, <2>3 DEF R!WaitDone, ThisSession
    <3> QED
      BY <1>1, <1>5, <1>7, <3>1, AnswerOfSession DEF RP!Statuses
  <2>4. CASE R!GetRefused(g)
    <3>1. PICK s \in {"404", "ended"} : R!Answer(g, s, 0)
      BY <2>4 DEF R!GetRefused
    <3> QED
      BY <1>5, <1>7, <3>1, AnswerOfSession DEF RP!Statuses
  <2> QED
    BY <1>7, <2>1, <2>2, <2>3, <2>4 DEF R!GetNext
<1> QED
  BY <1>4, <1>6, <1>7

(* ... and every other step of the refresher keeps to the session, ... *)
LEMMA RefresherOfSession ==
    ASSUME IInv, ThisSession, RefresherStep
    PROVE  ThisSession'
<1>0. req \in [RP!Getters -> RP!Request]
  BY StatusFacts
<1>1. ASSUME NEW l \in Loops, R!LoopNext(l) PROVE ThisSession'
  <2>1. UNCHANGED <<inflight, active, gen, calls>>
    BY <1>1 DEF R!LoopNext, R!RefreshAll, R!Join, R!Tick, R!LoopStop, R!sessionVars
  <2>2. \A c \in Conns : req'[c] = req[c]
    BY <1>1, Apart, SameGetters DEF R!LoopNext, R!RefreshAll, R!Join, R!Tick, R!LoopStop
  <2> QED
    BY <2>1, <2>2, OtherOfSession
<1>2. ASSUME NEW c \in Conns, R!WaitCancelled(c) PROVE ThisSession'
  <2>1. UNCHANGED <<inflight, active, gen, calls>>
    BY <1>2 DEF R!WaitCancelled, R!sessionVars
  <2>2. req[c].key \in Keys /\ entries[req[c].key] \in Nat
    BY <1>0, Apart DEF RP!Request, IInv, RP!IInv, RP!TypeOK
  <2>3. CASE entries[req[c].key] # 0
    <3>1. calls[entries[req[c].key]].gen = gen
      BY <2>2, <2>3 DEF IInv, RP!IInv, RP!CacheOfThisSession
    <3> QED
      BY <1>2, <2>1, <2>2, <2>3, <3>1, AnswerOfSession DEF R!WaitCancelled, RP!Statuses
  <2>4. CASE entries[req[c].key] = 0
    BY <1>2, <2>1, <2>4, AnswerOfSession DEF R!WaitCancelled, RP!Statuses
  <2> QED
    BY <2>3, <2>4
<1>3. ASSUME NEW c \in Conns, (\E k \in Keys : Receive(c, k)) \/ R!Return(c) PROVE ThisSession'
  <2>1. UNCHANGED <<inflight, active, gen, calls>>
    BY <1>3 DEF Receive, R!Receive, R!Return, R!sessionVars
  <2>2. \A d \in Conns : req'[d] = req[d] \/ req'[d].pc \in {"idle", "get"}
    <3>1. c \in DOMAIN req /\ \A d \in Conns : d \in DOMAIN req
      BY <1>0, Apart
    <3>2. R!Idle.pc = "idle" /\ \A k, f : R!Asking(k, f).pc = "get"
      BY DEF R!Asking, R!Idle
    <3>3. PICK r : req' = [req EXCEPT ![c] = r] /\ r.pc \in {"idle", "get"}
      BY <1>3, <3>2 DEF Receive, R!Receive, R!Return
    <3> QED
      BY <3>1, <3>3
  <2> QED
    BY <2>1, <2>2, OtherOfSession
<1>4. ASSUME NEW i \in DOMAIN calls, R!FetchNext(i) PROVE ThisSession'
  <2>1. /\ UNCHANGED <<active, gen, req>>
        /\ \A k \in Keys : inflight'[k] = inflight[k] \/ inflight'[k] = 0
    BY <1>4 DEF R!FetchNext, R!Store, R!Unlink, R!CloseDone, R!sessionVars, IInv, RP!IInv, RP!TypeOK
  <2>2. \A j \in DOMAIN calls : calls'[j].gen = calls[j].gen
    <3>1. calls \in Seq(RP!Call)
      BY DEF IInv, RP!IInv, RP!TypeOK
    <3>2. PICK st \in RP!CallStates : calls' = [calls EXCEPT ![i].st = st]
      BY <1>4 DEF R!FetchNext, R!Store, R!Unlink, R!CloseDone, RP!CallStates
    <3> QED
      BY <3>1, <3>2, RP!CallUpdate, RefresherAssumption
  <2>3. \A k \in Keys : inflight[k] # 0 => inflight[k] \in DOMAIN calls
    BY DEF IInv, RP!IInv, RP!InflightOK
  <2>4. \A d \in Conns : RP!CallerOK(req[d])
    BY Apart DEF IInv, RP!IInv, RP!ReqOK
  <2> QED
    BY <2>1, <2>2, <2>3, <2>4 DEF ThisSession, NoLateFetchServed, RP!CallerOK, RP!Finished
<1>5. ASSUME NEW k \in Keys, R!Expire(k) PROVE ThisSession'
  BY <1>5, OtherOfSession DEF R!Expire, R!sessionVars
<1> QED
  BY <1>1, <1>2, <1>3, <1>4, <1>5, GetOfSession DEF RefresherStep

(* ... while a park finds no handler running. *)
LEMMA ParkOfSession ==
    ASSUME IInv, R!SetActive(FALSE), \A c \in Conns : hook[c] # "open"
    PROVE  ThisSession'
<1>1. ~active' /\ req' = req
  BY EndFacts
<1>2. \A c \in Conns : req'[c].pc = "idle"
  BY <1>1, StatusFacts
<1> QED
  BY <1>1, <1>2 DEF ThisSession, NoLateFetchServed

(* No client is answered with bytes of a fetch of an earlier session, if     *)
(* sessions start with nothing in flight (get's join, README.md). *)
THEOREM LateOnlyByJoining == PromptSpec => []NoLateFetchServed
<1>1. Init => ThisSession
  <2> SUFFICES ASSUME Init PROVE ThisSession
    OBVIOUS
  <2>1. \A c \in Conns : req[c].pc = "idle"
    BY Apart, SameGetters DEF Init, R!Init, R!Idle
  <2> QED
    BY <2>1 DEF Init, R!Init, ThisSession, NoLateFetchServed
<1>2. IInv /\ ThisSession /\ [Next /\ PromptStart]_vars => ThisSession'
  <2> SUFFICES ASSUME IInv, ThisSession, [Next /\ PromptStart]_vars PROVE ThisSession'
    OBVIOUS
  <2>1. CASE UNCHANGED refresherVars
    BY <2>1, OtherOfSession DEF refresherVars
  <2>2. CASE BootSleep
    <3>1. \A c \in Conns : hook[c] # "open"
      BY <2>2 DEF BootSleep, G!BootSleep, IInv, GP!IInv, GP!Booting
    <3> QED
      BY <2>2, <3>1, ParkOfSession DEF BootSleep
  <2>3. ASSUME NEW t \in GraceTimers, Park(t) PROVE ThisSession'
    <3>1. sleeping
      BY <2>3 DEF Park, G!Park, IInv, GP!IInv, GP!LockedAsleep, GP!LockStates
    <3>2. \A c \in Conns : hook[c] # "open"
      BY <3>1, ServedFacts
    <3> QED
      BY <2>3, <3>2, ParkOfSession DEF Park
  <2>4. ASSUME NEW c \in Conns, Wake(c), PromptStart PROVE ThisSession'
    <3>1. CASE R!SetActive(TRUE)
      <4>1. UNCHANGED <<inflight, calls, req, gen>>
        BY <3>1 DEF R!SetActive, R!StartSession, R!sessionVars
      <4>2. active \/ \A k \in Keys : inflight[k] = 0
        BY <2>4, <3>1 DEF PromptStart, R!SetActive, R!StartSession
      <4> QED
        BY <4>1, <4>2 DEF ThisSession, NoLateFetchServed
    <3> QED
      BY <2>1, <2>4, <3>1 DEF Wake
  <2>5. CASE Next /\ PromptStart
    BY <2>1, <2>2, <2>3, <2>4, <2>5, RefresherOfSession DEF Next, Accept, Close, GateStep
  <2> QED
    BY <2>1, <2>5 DEF vars
<1>3. PromptSpec => Spec
  BY PTL DEF PromptSpec, Spec
<1>4. ThisSession => NoLateFetchServed
  BY DEF ThisSession
<1> QED
  BY <1>1, <1>2, <1>3, <1>4, Invariance, PTL DEF PromptSpec
=============================================================================
