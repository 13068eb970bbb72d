--------------------------- MODULE IdleGateProofs ---------------------------
(***************************************************************************)
(* Safety and progress of IdleGate, for every number of connections and    *)
(* timers.                                                                 *)
(***************************************************************************)
EXTENDS IdleGate, FiniteSetTheorems, TLAPS

(* The counter is the number of connections between their two hooks, minus  *)
(* none: what makes a load of it mean something. *)
CountOK == conns = Cardinality(Counted)

(* net/http runs one StateNew hook at a time, and the one that wakes found   *)
(* nobody else. *)
AcceptSerial ==
    \A c, d \in Conns : (hook[c] \in {"wake", "register"} /\ hook[d] \in {"wake", "register"}) => c = d
WakeAlone == \A c, d \in Conns : (hook[c] = "wake" /\ hook[d] \in CountedStates) => c = d

(* A park in progress, and one that ended in an exit, have sleeping set. *)
LockedAsleep ==
    /\ \A t \in GraceTimers : grace[t] \in LockStates => sleeping
    /\ proc = "exited" => sleeping

(* The deep-sleep profile is in force only asleep, and nobody is asleep      *)
(* underneath a served connection. *)
AwakeFull == ~sleeping => profile = "full"
ServedAwake == \A c \in Conns : hook[c] \in ServedStates => ~sleeping

(* g.timer is a timer whose callback has not run. *)
HandleLive == timer # NoTimer => grace[timer] \in {"armed", "fired"}

(* Nothing is accepted before main serves. *)
Booting == proc \in {"start", "configured"} => \A c \in Conns : hook[c] = "none"

(* Only an endSession between its two critical sections has victims. *)
VictimsOK == \A s \in CapTimers : cap[s] # "closing" => victims[s] = {}

IInv ==
    /\ TypeOK
    /\ CountOK
    /\ AcceptSerial /\ WakeAlone
    /\ LockedAsleep /\ AwakeFull /\ ServedAwake
    /\ HandleLive
    /\ Booting
    /\ VictimsOK
    /\ IdleAwakeWillPark
    /\ CapReachesEveryConn

-----------------------------------------------------------------------------
(* The connections counted are finitely many, so the counter can be read as  *)
(* their number: zero means there are none (g.conns.Load). *)
LEMMA CountedFacts ==
    ASSUME TypeOK, CountOK
    PROVE  /\ IsFiniteSet(Counted)
           /\ conns \in Nat
           /\ conns = 0 <=> \A c \in Conns : hook[c] \notin CountedStates
<1>1. IsFiniteSet(Counted)
  BY ConnsFinite, FS_Subset DEF Counted
<1>2. conns \in Nat
  BY <1>1, FS_CardinalityType DEF CountOK
<1>3. conns = 0 <=> Counted = {}
  BY <1>1, FS_EmptySet DEF CountOK
<1> QED
  BY <1>1, <1>2, <1>3 DEF Counted

(* A step that changes the hook of no connection across the counted states   *)
(* keeps the counter right. *)
LEMMA CountKept ==
    ASSUME TypeOK, CountOK, conns' = conns,
           \A c \in Conns : hook'[c] \in CountedStates <=> hook[c] \in CountedStates
    PROVE  CountOK'
<1>1. Counted' = Counted
  BY DEF Counted
<1> QED
  BY <1>1 DEF CountOK

(* The invariant holds when main starts. *)
LEMMA InitIInv == Init => IInv
<1> SUFFICES ASSUME Init PROVE IInv
  OBVIOUS
<1>1. TypeOK
  BY ExitOnIdleBool DEF Init, TypeOK, HookStates, GraceStates, CapStates, LockStates
<1>2. CountOK
  <2>1. Counted = {}
    BY DEF Init, Counted, CountedStates
  <2> QED
    BY <2>1, FS_EmptySet DEF Init, CountOK
<1>3. LockedAsleep /\ IdleAwakeWillPark
  BY DEF Init, LockedAsleep, LockStates, IdleAwakeWillPark, Running
<1> QED
  BY <1>1, <1>2, <1>3
  DEF Init, IInv, AcceptSerial, WakeAlone, AwakeFull, ServedAwake, ServedStates,
      HandleLive, Booting, VictimsOK, CapReachesEveryConn

-----------------------------------------------------------------------------
(* Each step keeps the invariant. First the steps of main. *)
LEMMA MainStep ==
    ASSUME IInv, Configure \/ BootSleep
    PROVE  IInv'
<1> USE DEF IInv
<1>1. CASE Configure
  <2> USE <1>1 DEF Configure, connVars, graceVars, capVars, modeVars
  <2>1. TypeOK'
    BY ExitOnIdleBool DEF TypeOK
  <2>2. CountOK'
    BY CountKept
  <2>3. AcceptSerial' /\ WakeAlone' /\ LockedAsleep' /\ AwakeFull' /\ ServedAwake'
    BY DEF AcceptSerial, WakeAlone, LockedAsleep, AwakeFull, ServedAwake
  <2>4. HandleLive' /\ Booting' /\ VictimsOK' /\ IdleAwakeWillPark' /\ CapReachesEveryConn'
    BY DEF HandleLive, Booting, VictimsOK, IdleAwakeWillPark, CapReachesEveryConn, Running
  <2> QED
    BY <2>1, <2>2, <2>3, <2>4
<1>2. CASE BootSleep
  <2> USE <1>2 DEF BootSleep, connVars, StopGrace, StopCap, Stopped
  <2>0. \A c \in Conns : hook[c] = "none"
    BY DEF Booting
  <2>1. TypeOK'
    BY DEF TypeOK, GraceStates, CapStates, LockStates
  <2>2. CountOK'
    BY CountKept
  <2>3. AcceptSerial' /\ WakeAlone' /\ LockedAsleep' /\ AwakeFull' /\ ServedAwake'
    BY <2>0 DEF AcceptSerial, WakeAlone, LockedAsleep, AwakeFull, ServedAwake, ServedStates
  <2>4. HandleLive' /\ Booting' /\ VictimsOK' /\ IdleAwakeWillPark' /\ CapReachesEveryConn'
    BY <2>0 DEF HandleLive, Booting, VictimsOK, IdleAwakeWillPark, CapReachesEveryConn, TypeOK
  <2> QED
    BY <2>1, <2>2, <2>3, <2>4
<1> QED
  BY <1>1, <1>2

(* The StateNew hook: counting, waking, registering. *)
LEMMA AcceptStep ==
    ASSUME IInv, NEW c \in Conns, Accept(c)
    PROVE  IInv'
<1> USE DEF IInv, Accept, graceVars, capVars, modeVars, mainVars
<1>0. /\ hook' = [hook EXCEPT ![c] = IF conns = 0 THEN "wake" ELSE "register"]
      /\ conns' = conns + 1
  <2>1. conns \in Nat
    BY CountedFacts
  <2>2. (conns + 1 = 1) = (conns = 0)
    BY <2>1
  <2> QED
    BY <2>2
<1>1. TypeOK'
  BY <1>0 DEF TypeOK, HookStates
<1>2. CountOK'
  <2>1. Counted' = Counted \cup {c} /\ c \notin Counted
    BY <1>0 DEF Counted, CountedStates, TypeOK
  <2> QED
    BY <1>0, <2>1, CountedFacts, FS_AddElement DEF CountOK
<1>3. ServedAwake'
  <2>1. CASE conns = 0
    BY <1>0, <2>1 DEF ServedAwake, ServedStates, TypeOK
  <2>2. CASE conns # 0
    <3>1. PICK d \in Conns : hook[d] \in CountedStates
      BY <2>2, CountedFacts
    <3>2. hook[d] \in ServedStates
      BY <3>1 DEF AcceptFree, CountedStates, ServedStates
    <3> QED
      BY <3>2 DEF ServedAwake
  <2> QED
    BY <2>1, <2>2
<1>4. AcceptSerial' /\ WakeAlone'
  BY <1>0, CountedFacts DEF AcceptSerial, WakeAlone, AcceptFree, CountedStates, TypeOK
<1>5. IdleAwakeWillPark'
  BY <1>0, CountedFacts DEF IdleAwakeWillPark
<1>6. LockedAsleep' /\ AwakeFull' /\ HandleLive' /\ VictimsOK'
  BY DEF LockedAsleep, AwakeFull, HandleLive, VictimsOK
<1>7. Booting' /\ CapReachesEveryConn'
  BY <1>0 DEF Booting, CapReachesEveryConn, TypeOK, Running
<1> QED
  BY <1>1, <1>2, <1>3, <1>4, <1>5, <1>6, <1>7

(* wake(): the process is up before the connection is registered. *)
LEMMA WakeStep ==
    ASSUME IInv, NEW c \in Conns, Wake(c)
    PROVE  IInv'
<1> USE DEF IInv, Wake, StopGrace, mainVars
<1>1. /\ sess' \in CapTimers \cup {NoTimer}
      /\ cap' \in [CapTimers -> CapStates]
      /\ \A s \in CapTimers : cap'[s] # "closing" => cap[s] # "closing"
  BY DEF ArmSessionLocked, TypeOK, CapStates
<1>2. grace' \in [GraceTimers -> GraceStates] /\ \A t \in GraceTimers : grace'[t] \notin LockStates
  BY DEF Stopped, TypeOK, GraceStates, LockStates, Unlocked
<1>3. TypeOK'
  BY <1>1, <1>2 DEF TypeOK, HookStates
<1>4. CountOK'
  BY CountKept DEF TypeOK, CountedStates
<1>5. AcceptSerial' /\ WakeAlone'
  BY DEF AcceptSerial, WakeAlone, CountedStates, TypeOK
<1>6. LockedAsleep' /\ AwakeFull' /\ ServedAwake'
  BY <1>2 DEF LockedAsleep, AwakeFull, ServedAwake, Running
<1>7. IdleAwakeWillPark'
  BY CountedFacts DEF IdleAwakeWillPark, CountedStates
<1>8. HandleLive' /\ Booting' /\ VictimsOK' /\ CapReachesEveryConn'
  BY <1>1 DEF HandleLive, Booting, VictimsOK, CapReachesEveryConn, TypeOK, Running
<1> QED
  BY <1>3, <1>4, <1>5, <1>6, <1>7, <1>8

(* The connection is on the list of the live ones. *)
LEMMA RegisterStep ==
    ASSUME IInv, NEW c \in Conns, Register(c)
    PROVE  IInv'
<1> USE DEF IInv, Register, graceVars, capVars, modeVars, mainVars
<1>1. TypeOK'
  BY DEF TypeOK, HookStates
<1>2. CountOK'
  BY CountKept DEF TypeOK, CountedStates
<1>3. AcceptSerial' /\ WakeAlone' /\ ServedAwake'
  BY DEF AcceptSerial, WakeAlone, ServedAwake, CountedStates, ServedStates, TypeOK
<1>4. LockedAsleep' /\ AwakeFull' /\ HandleLive' /\ VictimsOK'
  BY DEF LockedAsleep, AwakeFull, HandleLive, VictimsOK
<1>5. Booting' /\ IdleAwakeWillPark' /\ CapReachesEveryConn'
  BY DEF Booting, IdleAwakeWillPark, CapReachesEveryConn, TypeOK, Running
<1> QED
  BY <1>1, <1>2, <1>3, <1>4, <1>5

(* The StateClosed hook: counting down, scheduling the park, unregistering. *)
LEMMA CloseStep ==
    ASSUME IInv, NEW c \in Conns, Close(c)
    PROVE  IInv'
<1> USE DEF IInv, Close, graceVars, capVars, modeVars, mainVars
<1>1. CountOK' /\ conns' \in Nat
  <2>1. Counted' = Counted \ {c} /\ c \in Counted
    BY DEF Counted, CountedStates, TypeOK
  <2>2. Cardinality(Counted') = Cardinality(Counted) - 1 /\ IsFiniteSet(Counted')
    BY <2>1, CountedFacts, FS_RemoveElement
  <2> QED
    BY <2>2, FS_CardinalityType DEF CountOK
<1>2. TypeOK'
  BY <1>1 DEF TypeOK, HookStates
<1>3. AcceptSerial' /\ WakeAlone' /\ ServedAwake'
  BY DEF AcceptSerial, WakeAlone, ServedAwake, CountedStates, ServedStates, TypeOK
<1>4. LockedAsleep' /\ AwakeFull' /\ HandleLive' /\ VictimsOK'
  BY DEF LockedAsleep, AwakeFull, HandleLive, VictimsOK
<1>5. IdleAwakeWillPark'
  BY CountedFacts DEF IdleAwakeWillPark, TypeOK
<1>6. Booting' /\ CapReachesEveryConn'
  BY DEF Booting, CapReachesEveryConn, TypeOK, Running
<1> QED
  BY <1>1, <1>2, <1>3, <1>4, <1>5, <1>6

(* scheduleSleep: a timer is pending once the last hook is through. *)
LEMMA ScheduleSleepStep ==
    ASSUME IInv, NEW c \in Conns, ScheduleSleep(c)
    PROVE  IInv'
<1> USE DEF IInv, ScheduleSleep, capVars, modeVars, mainVars
<1>1. /\ timer' \in GraceTimers \cup {NoTimer}
      /\ grace' \in [GraceTimers -> GraceStates]
      /\ \A t \in GraceTimers : grace'[t] \in LockStates => grace[t] \in LockStates
      /\ timer' # NoTimer => grace'[timer'] \in {"armed", "fired"}
      /\ ~sleeping => timer' # NoTimer
  <2>1. CASE sleeping \/ timer # NoTimer
    BY <2>1 DEF graceVars, TypeOK, HandleLive
  <2>2. CASE ~sleeping /\ timer = NoTimer
    <3>1. PICK t \in GraceTimers : /\ grace[t] = "free"
                                   /\ timer' = t
                                   /\ grace' = [grace EXCEPT ![t] = "armed"]
      BY <2>2
    <3> QED
      BY <3>1, NoTimerIsNoTimer DEF TypeOK, GraceStates, LockStates
  <2> QED
    BY <2>1, <2>2
<1>2. TypeOK'
  BY <1>1 DEF TypeOK, HookStates
<1>3. CountOK'
  BY CountKept DEF TypeOK, CountedStates
<1>4. AcceptSerial' /\ WakeAlone' /\ ServedAwake'
  BY DEF AcceptSerial, WakeAlone, ServedAwake, CountedStates, ServedStates, TypeOK
<1>5. LockedAsleep' /\ AwakeFull' /\ HandleLive' /\ VictimsOK'
  BY <1>1 DEF LockedAsleep, AwakeFull, HandleLive, VictimsOK
<1>6. IdleAwakeWillPark'
  BY <1>1 DEF IdleAwakeWillPark
<1>7. Booting' /\ CapReachesEveryConn'
  BY DEF Booting, CapReachesEveryConn, TypeOK, Running
<1> QED
  BY <1>2, <1>3, <1>4, <1>5, <1>6, <1>7

(* A connection that has gone is on no list. *)
LEMMA UnregisterStep ==
    ASSUME IInv, NEW c \in Conns, Unregister(c)
    PROVE  IInv'
<1> USE DEF IInv, Unregister, graceVars, modeVars, mainVars
<1>1. TypeOK'
  BY DEF TypeOK, HookStates
<1>2. CountOK'
  BY CountKept DEF TypeOK, CountedStates
<1>3. AcceptSerial' /\ WakeAlone' /\ ServedAwake'
  BY DEF AcceptSerial, WakeAlone, ServedAwake, CountedStates, ServedStates, TypeOK
<1>4. LockedAsleep' /\ AwakeFull' /\ HandleLive' /\ VictimsOK'
  BY DEF LockedAsleep, AwakeFull, HandleLive, VictimsOK
<1>5. Booting' /\ IdleAwakeWillPark' /\ CapReachesEveryConn'
  BY DEF Booting, IdleAwakeWillPark, CapReachesEveryConn, TypeOK, Running
<1> QED
  BY <1>1, <1>2, <1>3, <1>4, <1>5

-----------------------------------------------------------------------------
(* The grace timer and its trySleep. *)
LEMMA TrySleepStep ==
    ASSUME IInv, NEW t \in GraceTimers, TrySleep(t)
    PROVE  IInv'
<1> USE DEF IInv, TrySleep, StopCap, connVars, mainVars
<1>1. cap' \in [CapTimers -> CapStates] /\ \A s \in CapTimers : cap'[s] # "closing" => cap[s] # "closing"
  BY DEF Stopped, TypeOK, CapStates
<1>2. grace' \in [GraceTimers -> GraceStates] /\ sleeping' \in BOOLEAN
  BY DEF TypeOK, GraceStates, LockStates
<1>3. TypeOK'
  BY <1>1, <1>2 DEF TypeOK
<1>4. CountOK'
  BY CountKept
<1>5. LockedAsleep'
  BY DEF LockedAsleep, LockStates, TypeOK, Running
<1>6. AwakeFull' /\ ServedAwake'
  <2>1. CASE sleeping \/ ~NoConns
    BY <2>1 DEF AwakeFull, ServedAwake
  <2>2. CASE ~sleeping /\ NoConns
    <3>1. \A c \in Conns : hook[c] \notin ServedStates
      BY <2>2, CountedFacts DEF NoConns, CountedStates, ServedStates
    <3> QED
      BY <2>2, <3>1 DEF AwakeFull, ServedAwake
  <2> QED
    BY <2>1, <2>2
<1>7. IdleAwakeWillPark'
  BY DEF IdleAwakeWillPark, NoConns
<1>8. AcceptSerial' /\ WakeAlone' /\ HandleLive'
  BY DEF AcceptSerial, WakeAlone, HandleLive
<1>9. Booting' /\ VictimsOK' /\ CapReachesEveryConn'
  BY <1>1 DEF Booting, VictimsOK, CapReachesEveryConn
<1> QED
  BY <1>3, <1>4, <1>5, <1>6, <1>7, <1>8, <1>9

(* The other steps of a grace timer change neither a handle nor a connection. *)
LEMMA GraceStep ==
    ASSUME IInv, NEW t \in GraceTimers,
           GraceFires(t) \/ Park(t) \/ Scavenge(t) \/ Decide(t) \/ Exit(t)
    PROVE  IInv'
<1> USE DEF IInv, GraceFires, Park, Scavenge, Decide, Exit,
            connVars, graceVars, capVars, modeVars, mainVars
<1>1. /\ grace' \in [GraceTimers -> GraceStates]
      /\ \A u \in GraceTimers : grace'[u] \in LockStates => grace[u] \in LockStates
      /\ \A u \in GraceTimers : grace[u] \in {"armed", "fired"} => grace'[u] \in {"armed", "fired"}
  BY DEF TypeOK, GraceStates, LockStates
<1>2. TypeOK'
  BY <1>1 DEF TypeOK
<1>3. CountOK'
  BY CountKept
<1>4. LockedAsleep' /\ AwakeFull'
  BY <1>1 DEF LockedAsleep, AwakeFull, LockStates
<1>5. HandleLive' /\ IdleAwakeWillPark'
  BY <1>1 DEF HandleLive, IdleAwakeWillPark, TypeOK, Running
<1>6. AcceptSerial' /\ WakeAlone' /\ ServedAwake'
  BY DEF AcceptSerial, WakeAlone, ServedAwake
<1>7. Booting' /\ VictimsOK' /\ CapReachesEveryConn'
  BY DEF Booting, VictimsOK, CapReachesEveryConn, Running
<1> QED
  BY <1>2, <1>3, <1>4, <1>5, <1>6, <1>7

-----------------------------------------------------------------------------
(* The session cap and its endSession, which leave hooks, counter, mode and  *)
(* grace timers alone. *)
LEMMA CapStep ==
    ASSUME IInv, NEW s \in CapTimers, CapNext(s)
    PROVE  IInv'
<1> USE DEF IInv
<1>1. UNCHANGED <<hook, conns, graceVars, modeVars, mainVars>>
  BY DEF CapNext, CapFires, EndSession, ForceClose, Rearm, connVars
<1>2. TypeOK' /\ VictimsOK' /\ CapReachesEveryConn'
  <2>1. CASE CapFires(s)
    BY <2>1 DEF CapFires, connVars, graceVars, modeVars, mainVars, TypeOK, VictimsOK,
                CapReachesEveryConn, CapStates
  <2>2. CASE EndSession(s)
    BY <2>2 DEF EndSession, graceVars, modeVars, mainVars, TypeOK, VictimsOK,
                CapReachesEveryConn, CapStates
  <2>3. ASSUME NEW c \in Conns, ForceClose(s, c)
        PROVE  TypeOK' /\ VictimsOK' /\ CapReachesEveryConn'
    BY <2>3 DEF ForceClose, graceVars, modeVars, mainVars, TypeOK, VictimsOK,
                CapReachesEveryConn, CapStates
  <2>4. CASE Rearm(s)
    <3>1. /\ sess' \in CapTimers \cup {NoTimer}
          /\ cap' \in [CapTimers -> CapStates]
          /\ \A u \in CapTimers : cap'[u] # "closing" => cap[u] # "closing" \/ u = s
      BY <2>4 DEF Rearm, ArmSessionLocked, TypeOK, CapStates
    <3> QED
      BY <2>4, <3>1 DEF Rearm, connVars, graceVars, modeVars, mainVars, TypeOK, VictimsOK,
                        CapReachesEveryConn
  <2> QED
    BY <2>1, <2>2, <2>3, <2>4 DEF CapNext
<1>3. CountOK'
  BY <1>1, CountKept
<1>4. AcceptSerial' /\ WakeAlone' /\ LockedAsleep' /\ AwakeFull' /\ ServedAwake'
  BY <1>1 DEF AcceptSerial, WakeAlone, LockedAsleep, AwakeFull, ServedAwake,
              graceVars, modeVars, mainVars
<1>5. HandleLive' /\ Booting' /\ IdleAwakeWillPark'
  BY <1>1 DEF HandleLive, Booting, IdleAwakeWillPark, Running, graceVars, modeVars, mainVars
<1> QED
  BY <1>2, <1>3, <1>4, <1>5

-----------------------------------------------------------------------------
(* IInv is inductive. *)
LEMMA NextIInv == IInv /\ [Next]_vars => IInv'
<1> SUFFICES ASSUME IInv, [Next]_vars PROVE IInv'
  OBVIOUS
<1>1. ASSUME NEW c \in Conns, ConnNext(c) PROVE IInv'
  BY <1>1, AcceptStep, WakeStep, RegisterStep, CloseStep, ScheduleSleepStep, UnregisterStep
  DEF ConnNext
<1>2. ASSUME NEW t \in GraceTimers, GraceNext(t) PROVE IInv'
  BY <1>2, TrySleepStep, GraceStep DEF GraceNext
<1>3. CASE UNCHANGED vars
  <2> USE <1>3 DEF IInv, vars, connVars, graceVars, capVars, modeVars, mainVars
  <2>1. TypeOK'
    BY DEF TypeOK
  <2>2. CountOK'
    BY CountKept
  <2>3. AcceptSerial' /\ WakeAlone' /\ LockedAsleep' /\ AwakeFull' /\ ServedAwake'
    BY DEF AcceptSerial, WakeAlone, LockedAsleep, AwakeFull, ServedAwake
  <2>4. HandleLive' /\ Booting' /\ VictimsOK' /\ IdleAwakeWillPark' /\ CapReachesEveryConn'
    BY DEF HandleLive, Booting, VictimsOK, IdleAwakeWillPark, CapReachesEveryConn, Running
  <2> QED
    BY <2>1, <2>2, <2>3, <2>4
<1> QED
  BY <1>1, <1>2, <1>3, MainStep, CapStep DEF Next

(* The invariant along every behaviour of the gate. *)
THEOREM Invariance == Spec => []IInv
<1> QED
  BY InitIInv, NextIInv, PTL DEF Spec

(* Every state of the gate is well formed; in particular the counter never   *)
(* goes below zero (connState). *)
THEOREM TypeCorrect == Spec => []TypeOK
<1>1. IInv => TypeOK
  BY DEF IInv
<1> QED
  BY <1>1, Invariance, PTL

(* trySleep never parks underneath a connection past its wake-up, however    *)
(* many connections and callbacks interleave (connState, wake, trySleep). *)
THEOREM ServedStayAwake == Spec => []NoServingAsleep
<1>1. IInv => NoServingAsleep
  BY DEF IInv, ServedAwake, AwakeFull, NoServingAsleep, Served
<1> QED
  BY <1>1, Invariance, PTL

(* An awake process without a connection always has its park coming          *)
(* (scheduleSleep, wake, trySleep). *)
THEOREM IdleIsOnItsWayToSleep == Spec => []IdleAwakeWillPark
<1>1. IInv => IdleAwakeWillPark
  BY DEF IInv
<1> QED
  BY <1>1, Invariance, PTL

(* No open connection escapes a forced session end (connState, endSession). *)
THEOREM CapIsComplete == Spec => []CapReachesEveryConn
<1>1. IInv => CapReachesEveryConn
  BY DEF IInv
<1> QED
  BY <1>1, Invariance, PTL

(* An exit on idle costs at most the one connection waiting to wake the      *)
(* process (trySleep against connState). *)
THEOREM ExitIsCheap == Spec => []ExitLosesAtMostOne
<1>1. IInv => ExitLosesAtMostOne
  <2> SUFFICES ASSUME IInv, proc = "exited"
               PROVE  Served = {} /\ \A c, d \in Counted : c = d
    BY DEF ExitLosesAtMostOne
  <2>1. Served = {}
    BY DEF IInv, LockedAsleep, ServedAwake, Served
  <2>2. \A c \in Counted : hook[c] = "wake"
    BY <2>1 DEF Counted, Served, CountedStates, ServedStates
  <2> QED
    BY <2>1, <2>2 DEF IInv, AcceptSerial, Counted
<1> QED
  BY <1>1, Invariance, PTL

-----------------------------------------------------------------------------
(* The comments "must never leave the process awake and uncapped" and "never *)
(* awake without a session cap" are not kept (ServedStaysCapped is violated). *)
(* What follows says by which steps alone: while somebody is served, a       *)
(* trySleep callback that comes too late and drops the cap of the session    *)
(* under way, or an endSession that comes before any of the served ones is   *)
(* registered and finds nothing to close. *)
Raced ==
    /\ Served # {}
    /\ \/ \E t \in GraceTimers : TrySleep(t)
       \/ \E s \in CapTimers : EndSession(s) /\ liveConns = {}

(* g.sess is a timer whose endSession has not run. *)
CapHandleLive == sess # NoTimer => cap[sess] \in {"armed", "fired"}

(* A served connection is under a cap, or an endSession is at work that will *)
(* arm the next one. *)
AwakeIsCapped == Served # {} => sess # NoTimer \/ \E s \in CapTimers : cap[s] = "closing"

(* The gate without these races. *)
RaceFree == Init /\ [][Next /\ ~Raced]_vars

CappedInv == IInv /\ CapHandleLive /\ AwakeIsCapped

(* The steps of main and of a connection leave a served connection capped. *)
LEMMA CappedConnStep ==
    ASSUME CappedInv, IInv', Configure \/ BootSleep \/ \E c \in Conns : ConnNext(c)
    PROVE  CapHandleLive' /\ AwakeIsCapped'
<1> USE DEF CappedInv, IInv, CapHandleLive, AwakeIsCapped, Served, ServedStates
<1>1. CASE Configure
  BY <1>1 DEF Configure, connVars, capVars
<1>2. CASE BootSleep
  BY <1>2 DEF BootSleep, connVars, StopCap, Booting
<1>3. ASSUME NEW c \in Conns, Accept(c) PROVE CapHandleLive' /\ AwakeIsCapped'
  <2> USE <1>3 DEF Accept, capVars
  <2>1. CapHandleLive'
    OBVIOUS
  <2>2. CASE conns = 0
    <3>1. \A d \in Conns : d # c => hook'[d] = hook[d]
      BY DEF TypeOK
    <3>2. hook'[c] = "wake"
      BY <2>2 DEF TypeOK
    <3>3. Served' \subseteq Served
      BY <3>1, <3>2
    <3> QED
      BY <2>1, <3>3
  <2>3. CASE conns # 0
    <3>1. PICK d \in Conns : hook[d] \in CountedStates
      BY <2>3, CountedFacts
    <3>2. d \in Served
      BY <3>1 DEF AcceptFree, CountedStates
    <3> QED
      BY <2>1, <3>2
  <2> QED
    BY <2>2, <2>3
<1>4. ASSUME NEW c \in Conns, Wake(c) PROVE CapHandleLive' /\ AwakeIsCapped'
  <2> USE <1>4 DEF Wake, ArmSessionLocked
  <2>1. CASE sess = NoTimer
    <3>1. PICK s \in CapTimers : sess' = s /\ cap' = [cap EXCEPT ![s] = "armed"]
      BY <2>1
    <3> QED
      BY <3>1, NoTimerIsNoTimer DEF TypeOK
  <2>2. CASE sess # NoTimer
    BY <2>2
  <2> QED
    BY <2>1, <2>2
<1>5. ASSUME NEW c \in Conns, Register(c) PROVE CapHandleLive' /\ AwakeIsCapped'
  BY <1>5 DEF Register, capVars, TypeOK
<1>6. ASSUME NEW c \in Conns, Close(c) \/ ScheduleSleep(c) PROVE CapHandleLive' /\ AwakeIsCapped'
  BY <1>6 DEF Close, ScheduleSleep, capVars, TypeOK
<1>7. ASSUME NEW c \in Conns, Unregister(c) PROVE CapHandleLive' /\ AwakeIsCapped'
  BY <1>7 DEF Unregister, TypeOK
<1> QED
  BY <1>1, <1>2, <1>3, <1>4, <1>5, <1>6, <1>7 DEF ConnNext

(* So do the timers and their callbacks, but for the races. *)
LEMMA CappedTimerStep ==
    ASSUME CappedInv, ~Raced,
           (\E t \in GraceTimers : GraceNext(t)) \/ (\E s \in CapTimers : CapNext(s))
    PROVE  CapHandleLive' /\ AwakeIsCapped'
<1> USE DEF CappedInv, IInv, CapHandleLive, AwakeIsCapped
<1>1. ASSUME NEW t \in GraceTimers, TrySleep(t) PROVE CapHandleLive' /\ AwakeIsCapped'
  <2>1. Served = {}
    BY <1>1 DEF Raced
  <2>2. Served' = Served
    BY <1>1 DEF TrySleep, Served, connVars
  <2> QED
    BY <1>1, <2>1, <2>2 DEF TrySleep, StopCap
<1>2. ASSUME NEW t \in GraceTimers, GraceFires(t) \/ Park(t) \/ Scavenge(t) \/ Decide(t) \/ Exit(t)
      PROVE  CapHandleLive' /\ AwakeIsCapped'
  BY <1>2 DEF GraceFires, Park, Scavenge, Decide, Exit, connVars, capVars, Served
<1>3. ASSUME NEW s \in CapTimers, CapFires(s) PROVE CapHandleLive' /\ AwakeIsCapped'
  BY <1>3, NoTimerIsNoTimer DEF CapFires, connVars, Served, TypeOK
<1>4. ASSUME NEW s \in CapTimers, EndSession(s) PROVE CapHandleLive' /\ AwakeIsCapped'
  <2>1. Served' = Served
    BY <1>4 DEF EndSession, Served
  <2>2. liveConns # {} => cap'[s] = "closing"
    BY <1>4 DEF EndSession, TypeOK
  <2>3. liveConns = {} => Served = {}
    BY <1>4 DEF Raced
  <2> QED
    BY <1>4, <2>1, <2>2, <2>3 DEF EndSession
<1>5. ASSUME NEW s \in CapTimers, NEW c \in Conns, ForceClose(s, c)
      PROVE  CapHandleLive' /\ AwakeIsCapped'
  BY <1>5 DEF ForceClose, Served
<1>6. ASSUME NEW s \in CapTimers, Rearm(s) PROVE CapHandleLive' /\ AwakeIsCapped'
  <2> USE <1>6 DEF Rearm, ArmSessionLocked
  <2>1. Served' = Served
    BY DEF connVars, Served
  <2>2. Served # {} => ~sleeping
    BY DEF ServedAwake, Served
  <2>3. CASE sess = NoTimer /\ ~sleeping
    <3>1. PICK u \in CapTimers : sess' = u /\ cap' = [[cap EXCEPT ![s] = "free"] EXCEPT ![u] = "armed"]
      BY <2>3
    <3>2. cap'[u] = "armed"
      BY <3>1 DEF TypeOK
    <3> QED
      BY <3>1, <3>2, NoTimerIsNoTimer
  <2>4. CASE ~(sess = NoTimer /\ ~sleeping)
    <3>1. cap' = [cap EXCEPT ![s] = "free"] /\ sess' = sess
      BY <2>4
    <3>2. sess # NoTimer => sess # s /\ sess \in CapTimers
      BY DEF TypeOK
    <3>3. CapHandleLive'
      BY <3>1, <3>2 DEF TypeOK
    <3> QED
      BY <3>1, <3>3, <2>1, <2>2, <2>4
  <2> QED
    BY <2>3, <2>4
<1> QED
  BY <1>1, <1>2, <1>3, <1>4, <1>5, <1>6 DEF GraceNext, CapNext

(* Nobody is served awake and uncapped unless one of the two callbacks has   *)
(* met a served connection: whatever else interleaves, the cap is armed, has *)
(* fired, or is about to be armed again (armSessionLocked, endSession). *)
THEOREM UncappedOnlyByRaces == RaceFree => []ServedStaysCapped
<1>1. Init => CappedInv
  BY InitIInv DEF CappedInv, Init, CapHandleLive, AwakeIsCapped, Served, ServedStates
<1>2. CappedInv /\ [Next /\ ~Raced]_vars => CappedInv'
  <2> SUFFICES ASSUME CappedInv, [Next /\ ~Raced]_vars PROVE CappedInv'
    OBVIOUS
  <2>1. IInv'
    BY NextIInv DEF CappedInv
  <2>2. CASE UNCHANGED vars
    BY <2>1, <2>2 DEF CappedInv, CapHandleLive, AwakeIsCapped, Served, vars, connVars, capVars
  <2>3. CASE Next /\ ~Raced
    BY <2>1, <2>3, CappedConnStep, CappedTimerStep DEF Next, CappedInv
  <2> QED
    BY <2>2, <2>3
<1>3. CappedInv => ServedStaysCapped
  BY DEF CappedInv, AwakeIsCapped, ServedStaysCapped
<1> QED
  BY <1>1, <1>2, <1>3, PTL DEF RaceFree

-----------------------------------------------------------------------------
(* Liveness.  The prover has no rules for ENABLED, so the theorems below     *)
(* take one hypothesis about it: an action of the fairness condition can     *)
(* take a step whenever its guard holds, which is how a guard is meant. *)
GateEnabled ==
    /\ \A c \in Conns :
          /\ (/\ Running /\ hook[c] = "wake" /\ Unlocked
              /\ sess # NoTimer \/ \E s \in CapTimers : cap[s] = "free")
             => ENABLED <<Wake(c)>>_vars
          /\ Running /\ hook[c] = "register" /\ Unlocked => ENABLED <<Register(c)>>_vars
          /\ (/\ Running /\ hook[c] = "schedule" /\ Unlocked
              /\ \E t \in GraceTimers : grace[t] = "free")
             => ENABLED <<ScheduleSleep(c)>>_vars
    /\ \A t \in GraceTimers :
          (/\ Running
           /\ \/ grace[t] \in {"armed"} \cup LockStates
              \/ grace[t] = "fired" /\ Unlocked) => ENABLED <<GraceNext(t)>>_vars

(* Awake without a connection. *)
IdleAwake == Running /\ conns = 0 /\ ~sleeping
ParkedOrConnected == sleeping \/ conns > 0

(* While it lasts no pending grace timer is dropped, and a close on its way  *)
(* to scheduleSleep stays on its way until a timer is pending. *)
LEMMA IdleAwakeStep ==
    ASSUME IInv, IdleAwake, [Next]_vars
    PROVE  \/ ParkedOrConnected'
           \/ /\ IdleAwake'
              /\ \A t \in GraceTimers : /\ grace[t] = "armed" => grace'[t] \in {"armed", "fired"}
                                        /\ grace[t] = "fired" => grace'[t] = "fired"
              /\ \A c \in Conns : hook[c] = "schedule" =>
                    \/ hook'[c] = "schedule"
                    \/ \E t \in GraceTimers : grace'[t] \in {"armed", "fired"}
<1> USE DEF IInv, IdleAwake, ParkedOrConnected, Running
<1>0. /\ TypeOK
      /\ \A c \in Conns : hook[c] \notin CountedStates
      /\ \A t \in GraceTimers : grace[t] \notin LockStates
  BY CountedFacts DEF LockedAsleep
<1>1. CASE Configure \/ BootSleep
  BY <1>1 DEF Configure, BootSleep
<1>2. ASSUME NEW c \in Conns, Accept(c) PROVE ParkedOrConnected'
  BY <1>2 DEF Accept
<1>3. ASSUME NEW c \in Conns, Wake(c) \/ Register(c) \/ Close(c) PROVE FALSE
  BY <1>3, <1>0 DEF Wake, Register, Close, CountedStates
<1>4. ASSUME NEW c \in Conns, ScheduleSleep(c)
      PROVE  /\ IdleAwake'
             /\ \A t \in GraceTimers : grace[t] \in {"armed", "fired"} => grace'[t] = grace[t]
             /\ \E t \in GraceTimers : grace'[t] \in {"armed", "fired"}
  <2>1. IdleAwake'
    BY <1>4 DEF ScheduleSleep, modeVars, mainVars
  <2>2. CASE timer # NoTimer
    <3>1. timer \in GraceTimers /\ grace[timer] \in {"armed", "fired"} /\ grace' = grace
      BY <2>2, <1>4, <1>0 DEF ScheduleSleep, HandleLive, graceVars, TypeOK
    <3> QED
      BY <3>1, <2>1
  <2>3. CASE timer = NoTimer
    <3>1. PICK u \in GraceTimers : grace[u] = "free" /\ grace' = [grace EXCEPT ![u] = "armed"]
      BY <2>3, <1>4 DEF ScheduleSleep
    <3> QED
      BY <3>1, <2>1, <1>0 DEF TypeOK
  <2> QED
    BY <2>2, <2>3
<1>5. ASSUME NEW c \in Conns, Unregister(c)
      PROVE  IdleAwake' /\ grace' = grace /\ \A d \in Conns : hook[d] = "schedule" => hook'[d] = "schedule"
  BY <1>5, <1>0 DEF Unregister, graceVars, modeVars, mainVars, TypeOK
<1>6. ASSUME NEW u \in GraceTimers, GraceFires(u)
      PROVE  /\ IdleAwake' /\ hook' = hook
             /\ \A t \in GraceTimers : /\ grace[t] = "armed" => grace'[t] \in {"armed", "fired"}
                                       /\ grace[t] = "fired" => grace'[t] = "fired"
  BY <1>6, <1>0 DEF GraceFires, connVars, modeVars, mainVars, TypeOK
<1>7. ASSUME NEW u \in GraceTimers, TrySleep(u) PROVE ParkedOrConnected'
  BY <1>7 DEF TrySleep, NoConns
<1>8. ASSUME NEW u \in GraceTimers, Park(u) \/ Scavenge(u) \/ Decide(u) \/ Exit(u) PROVE FALSE
  BY <1>8, <1>0 DEF Park, Scavenge, Decide, Exit, LockStates
<1>9. ASSUME NEW s \in CapTimers, CapNext(s) PROVE IdleAwake' /\ hook' = hook /\ grace' = grace
  BY <1>9 DEF CapNext, CapFires, EndSession, ForceClose, Rearm, connVars, graceVars, modeVars, mainVars
<1>10. CASE UNCHANGED vars
  BY <1>10 DEF vars, connVars, graceVars, modeVars, mainVars
<1> QED
  BY <1>1, <1>2, <1>3, <1>4, <1>5, <1>6, <1>7, <1>8, <1>9, <1>10 DEF Next, ConnNext, GraceNext

(* A grace timer that is pending while the process is idle and awake fires,  *)
(* and its trySleep parks. *)
LEMMA PendingTimerParks ==
    ASSUME NEW t \in GraceTimers
    PROVE  FairSpec /\ []GateEnabled =>
               ((IdleAwake /\ grace[t] \in {"armed", "fired"}) ~> ParkedOrConnected)
<1> DEFINE Armed == IdleAwake /\ grace[t] = "armed"
           Fired == IdleAwake /\ grace[t] = "fired"
           Q == ParkedOrConnected
<1>1. FairSpec => GraceFairness(t)
  BY DEF FairSpec, Fairness
<1>2. IInv /\ Armed /\ [Next]_vars => Armed' \/ Fired' \/ Q'
  BY IdleAwakeStep
<1>3. IInv /\ Fired /\ [Next]_vars => Fired' \/ Q'
  BY IdleAwakeStep
<1>4. IInv /\ Armed /\ <<GraceNext(t)>>_vars => Fired' \/ Q'
  <2> SUFFICES ASSUME IInv, Armed, GraceNext(t) PROVE Fired' \/ Q'
    OBVIOUS
  <2>1. GraceFires(t)
    BY DEF GraceNext, TrySleep, Park, Scavenge, Decide, Exit
  <2> QED
    BY <2>1 DEF GraceFires, IInv, TypeOK, IdleAwake, Running, connVars, modeVars, mainVars
<1>5. IInv /\ Fired /\ <<GraceNext(t)>>_vars => Q'
  <2> SUFFICES ASSUME IInv, Fired, GraceNext(t) PROVE Q'
    OBVIOUS
  <2>1. TrySleep(t)
    BY DEF GraceNext, GraceFires, Park, Scavenge, Decide, Exit
  <2> QED
    BY <2>1 DEF TrySleep, IdleAwake, NoConns, ParkedOrConnected
<1>6. IInv /\ GateEnabled => (Armed \/ Fired => ENABLED <<GraceNext(t)>>_vars)
  <2> SUFFICES ASSUME IInv, GateEnabled, Armed \/ Fired PROVE ENABLED <<GraceNext(t)>>_vars
    OBVIOUS
  <2>1. Running /\ Unlocked /\ grace[t] \in {"armed", "fired"}
    BY DEF IInv, LockedAsleep, IdleAwake, Unlocked
  <2> QED
    BY <2>1 DEF GateEnabled
<1>7. IdleAwake /\ grace[t] \in {"armed", "fired"} => Armed \/ Fired
  OBVIOUS
<1> QED
  BY <1>1, <1>2, <1>3, <1>4, <1>5, <1>6, <1>7, Invariance, PTL DEF FairSpec, Spec, GraceFairness

(* A close on its way to scheduleSleep gets there. *)
LEMMA CloseSchedules ==
    ASSUME NEW c \in Conns, GraceTimers # {}
    PROVE  FairSpec /\ []GateEnabled =>
               ((IdleAwake /\ hook[c] = "schedule") ~>
                   (ParkedOrConnected \/ (IdleAwake /\ \E t \in GraceTimers : grace[t] \in {"armed", "fired"})))
<1> DEFINE Pending == \E t \in GraceTimers : grace[t] \in {"armed", "fired"}
           P == IdleAwake /\ hook[c] = "schedule" /\ ~Pending
           Q == ParkedOrConnected \/ (IdleAwake /\ Pending)
<1>1. FairSpec => ConnFairness(c)
  BY DEF FairSpec, Fairness
<1>2. IInv /\ P /\ [Next]_vars => P' \/ Q'
  BY IdleAwakeStep
<1>3. IInv /\ P /\ <<ScheduleSleep(c)>>_vars => Q'
  <2> SUFFICES ASSUME IInv, P, ScheduleSleep(c) PROVE Q'
    OBVIOUS
  <2>1. [Next]_vars
    BY DEF Next, ConnNext
  <2>2. hook'[c] # "schedule"
    BY DEF ScheduleSleep, IInv, TypeOK
  <2> QED
    BY <2>1, <2>2, IdleAwakeStep
<1>4. IInv /\ GateEnabled => (P => ENABLED <<ScheduleSleep(c)>>_vars)
  <2> SUFFICES ASSUME IInv, GateEnabled, P PROVE ENABLED <<ScheduleSleep(c)>>_vars
    OBVIOUS
  <2>1. Running /\ Unlocked
    BY DEF IInv, LockedAsleep, IdleAwake, Unlocked
  <2>2. \E t \in GraceTimers : grace[t] = "free"
    BY <2>1 DEF IInv, TypeOK, Unlocked, GraceStates
  <2> QED
    BY <2>1, <2>2 DEF GateEnabled
<1>5. IdleAwake /\ hook[c] = "schedule" => P \/ Q
  OBVIOUS
<1> HIDE DEF P, Q
<1>6. FairSpec /\ []GateEnabled => ((IdleAwake /\ hook[c] = "schedule") ~> Q)
  BY <1>1, <1>2, <1>3, <1>4, <1>5, Invariance, PTL DEF FairSpec, Spec, ConnFairness
<1> QED
  BY <1>6 DEF Q

(* With no connection left the process parks or is connected again, for any  *)
(* number of connections and timers: a late callback or a reconnect may drop *)
(* a pending timer, but the park comes (scheduleSleep, trySleep). *)
THEOREM IdleProcessParks ==
    ASSUME GraceTimers # {}
    PROVE  FairSpec /\ []GateEnabled => IdleParks
<1> DEFINE Pend(t) == IdleAwake /\ grace[t] \in {"armed", "fired"}
           Sched(c) == IdleAwake /\ hook[c] = "schedule"
           SomePend == \E t \in GraceTimers : Pend(t)
           SomeSched == \E c \in Conns : Sched(c)
           Q == ParkedOrConnected
           F == FairSpec /\ []GateEnabled
<1>1. F => (SomePend ~> Q)
  <2>1. ASSUME NEW t \in GraceTimers PROVE F => [](Pend(t) => <>Q)
    BY PendingTimerParks, PTL
  <2> HIDE DEF F, Pend, Q
  <2>2. F => \A t \in GraceTimers : [](Pend(t) => <>Q)
    BY <2>1
  <2>3. (\A t \in GraceTimers : [](Pend(t) => <>Q)) => [](\A t \in GraceTimers : (Pend(t) => <>Q))
    OBVIOUS
  <2> DEFINE W == \A t \in GraceTimers : (Pend(t) => <>Q)
  <2>4. F => []W
    BY <2>2, <2>3
  <2>5. W => (SomePend => <>Q)
    OBVIOUS
  <2> HIDE DEF W, SomePend
  <2> QED
    BY <2>4, <2>5, PTL
<1>2. F => (SomeSched ~> Q \/ SomePend)
  <2> DEFINE R == Q \/ SomePend
  <2>1. ASSUME NEW c \in Conns PROVE F => [](Sched(c) => <>R)
    <3>1. (ParkedOrConnected \/ (IdleAwake /\ \E t \in GraceTimers : grace[t] \in {"armed", "fired"})) => R
      OBVIOUS
    <3> HIDE DEF R
    <3> QED
      BY <3>1, CloseSchedules, PTL
  <2> HIDE DEF F, Sched, R
  <2>2. F => \A c \in Conns : [](Sched(c) => <>R)
    BY <2>1
  <2>3. (\A c \in Conns : [](Sched(c) => <>R)) => [](\A c \in Conns : (Sched(c) => <>R))
    OBVIOUS
  <2> DEFINE W == \A c \in Conns : (Sched(c) => <>R)
  <2>4. F => []W
    BY <2>2, <2>3
  <2>5. W => (SomeSched => <>R)
    OBVIOUS
  <2> HIDE DEF W, SomeSched
  <2>6. F => (SomeSched ~> R)
    BY <2>4, <2>5, PTL
  <2> QED
    BY <2>6 DEF R
<1>3. IInv /\ Running /\ conns = 0 => Q \/ SomePend \/ SomeSched
  <2> SUFFICES ASSUME IInv, Running, conns = 0, ~sleeping PROVE SomePend \/ SomeSched
    BY DEF ParkedOrConnected
  <2> QED
    BY DEF IInv, IdleAwakeWillPark, IdleAwake
<1> HIDE DEF SomePend, SomeSched
<1>4. F => ((Running /\ conns = 0) ~> Q)
  BY <1>1, <1>2, <1>3, Invariance, PTL DEF FairSpec
<1> QED
  BY <1>4, PTL DEF IdleParks, ParkedOrConnected

-----------------------------------------------------------------------------
(* g.mu has one holder. *)
LockAlone ==
    \A t, u \in GraceTimers : grace[t] \in LockStates /\ grace[u] \in LockStates => t = u

(* Only trySleep takes it across steps, and only when it is free. *)
LEMMA LockStep == IInv /\ LockAlone /\ [Next]_vars => LockAlone'
<1> SUFFICES ASSUME IInv, LockAlone, [Next]_vars PROVE LockAlone'
  OBVIOUS
<1> USE DEF LockAlone, LockStates
<1>0. TypeOK
  BY DEF IInv
<1>1. CASE Configure \/ BootSleep \/ UNCHANGED vars
  BY <1>1, <1>0 DEF Configure, BootSleep, StopGrace, Stopped, graceVars, vars, TypeOK
<1>2. ASSUME NEW c \in Conns, ConnNext(c) PROVE LockAlone'
  <2>1. CASE Wake(c)
    BY <2>1, <1>0 DEF Wake, StopGrace, Stopped, TypeOK
  <2>2. CASE ScheduleSleep(c)
    BY <2>2, <1>0 DEF ScheduleSleep, graceVars, TypeOK
  <2> QED
    BY <1>2, <2>1, <2>2 DEF ConnNext, Accept, Register, Close, Unregister, graceVars
<1>3. ASSUME NEW v \in GraceTimers, TrySleep(v) PROVE LockAlone'
  BY <1>3, <1>0 DEF TrySleep, Unlocked, TypeOK
<1>4. ASSUME NEW v \in GraceTimers, GraceFires(v) \/ Park(v) \/ Scavenge(v) \/ Decide(v) \/ Exit(v)
      PROVE  LockAlone'
  BY <1>4, <1>0 DEF GraceFires, Park, Scavenge, Decide, Exit, graceVars, TypeOK
<1>5. ASSUME NEW s \in CapTimers, CapNext(s) PROVE LockAlone'
  BY <1>5 DEF CapNext, CapFires, EndSession, ForceClose, Rearm, graceVars
<1> QED
  BY <1>1, <1>2, <1>3, <1>4, <1>5 DEF Next, GraceNext

(* Only finitely many cap timers are ever in use, so time.AfterFunc, which   *)
(* allocates one, always has one to give. *)
BusyCaps == {s \in CapTimers : cap[s] # "free"}

(* A step takes at most one more. *)
LEMMA BusyStep == TypeOK /\ IsFiniteSet(BusyCaps) /\ [Next]_vars => IsFiniteSet(BusyCaps)'
<1> SUFFICES ASSUME TypeOK, IsFiniteSet(BusyCaps), [Next]_vars PROVE IsFiniteSet(BusyCaps')
  OBVIOUS
<1>1. CASE BusyCaps' \subseteq BusyCaps
  BY <1>1, FS_Subset
<1>2. ASSUME NEW s, BusyCaps' \subseteq BusyCaps \cup {s} PROVE IsFiniteSet(BusyCaps')
  BY <1>2, FS_AddElement, FS_Subset
<1> USE DEF BusyCaps
<1>3. CASE Configure \/ BootSleep \/ UNCHANGED vars
  BY <1>1, <1>3 DEF Configure, BootSleep, StopCap, Stopped, capVars, vars, TypeOK
<1>4. ASSUME NEW c \in Conns, Wake(c) PROVE IsFiniteSet(BusyCaps')
  <2>1. CASE cap' = cap
    BY <1>1, <2>1
  <2>2. CASE \E s \in CapTimers : cap' = [cap EXCEPT ![s] = "armed"]
    <3>1. PICK s \in CapTimers : cap' = [cap EXCEPT ![s] = "armed"]
      BY <2>2
    <3>2. BusyCaps' \subseteq BusyCaps \cup {s}
      BY <3>1 DEF TypeOK
    <3> QED
      BY <3>2, <1>2
  <2> QED
    BY <1>4, <2>1, <2>2 DEF Wake, ArmSessionLocked
<1>5. ASSUME NEW c \in Conns, Accept(c) \/ Register(c) \/ Close(c) \/ ScheduleSleep(c) \/ Unregister(c)
      PROVE  IsFiniteSet(BusyCaps')
  BY <1>1, <1>5 DEF Accept, Register, Close, ScheduleSleep, Unregister, capVars
<1>6. ASSUME NEW t \in GraceTimers, GraceNext(t) PROVE IsFiniteSet(BusyCaps')
  BY <1>1, <1>6 DEF GraceNext, GraceFires, TrySleep, Park, Scavenge, Decide, Exit, StopCap, Stopped,
                    capVars, TypeOK
<1>7. ASSUME NEW s \in CapTimers, CapFires(s) \/ EndSession(s) \/ \E c \in Conns : ForceClose(s, c)
      PROVE  IsFiniteSet(BusyCaps')
  <2>1. BusyCaps' \subseteq BusyCaps \cup {s}
    BY <1>7 DEF CapFires, EndSession, ForceClose, TypeOK
  <2> QED
    BY <2>1, <1>2
<1>8. ASSUME NEW s \in CapTimers, Rearm(s) PROVE IsFiniteSet(BusyCaps')
  <2>1. CASE cap' = [cap EXCEPT ![s] = "free"]
    BY <1>1, <2>1 DEF TypeOK
  <2>2. CASE \E u \in CapTimers : cap' = [[cap EXCEPT ![s] = "free"] EXCEPT ![u] = "armed"]
    <3>1. PICK u \in CapTimers : cap' = [[cap EXCEPT ![s] = "free"] EXCEPT ![u] = "armed"]
      BY <2>2
    <3>2. BusyCaps' \subseteq BusyCaps \cup {u}
      BY <3>1 DEF TypeOK
    <3> QED
      BY <3>2, <1>2
  <2> QED
    BY <1>8, <2>1, <2>2 DEF Rearm, ArmSessionLocked
<1> QED
  BY <1>3, <1>4, <1>5, <1>6, <1>7, <1>8 DEF Next, ConnNext, CapNext

(* What the liveness of a wake-up rests on. *)
WakeInv == IInv /\ LockAlone /\ IsFiniteSet(BusyCaps)

(* It holds throughout. *)
LEMMA WakeInvHolds == Spec => []WakeInv
<1>1. Init => WakeInv
  <2> SUFFICES ASSUME Init PROVE WakeInv
    OBVIOUS
  <2>1. BusyCaps = {}
    BY DEF Init, BusyCaps
  <2> QED
    BY <2>1, InitIInv, FS_EmptySet DEF Init, WakeInv, LockAlone, LockStates
<1>2. WakeInv /\ [Next]_vars => WakeInv'
  BY NextIInv, LockStep, BusyStep DEF WakeInv, IInv
<1> QED
  BY <1>1, <1>2, PTL DEF Spec

(* While a connection waits in wake() the mutex, once free, stays free for   *)
(* it, and a park that holds it goes on undisturbed. *)
Waking(c) == Running /\ hook[c] = "wake"

(* Only its own wake(), or an exit, ends that. *)
LEMMA WakingStep ==
    ASSUME WakeInv, NEW c \in Conns, Waking(c), [Next]_vars
    PROVE  \/ proc' = "exited"
           \/ Running' /\ hook'[c] = "register" /\ Wake(c)
           \/ /\ Waking(c)'
              /\ Unlocked => Unlocked'
              /\ \A t \in GraceTimers : grace[t] \in LockStates =>
                    \/ grace'[t] = grace[t]
                    \/ grace[t] = "parking" /\ grace'[t] = "scavenging"
                    \/ grace[t] = "scavenging" /\ grace'[t] = "deciding"
                    \/ grace[t] = "deciding" /\ grace'[t] = "exiting"
                    \/ grace[t] = "deciding" /\ Unlocked'
<1> USE DEF WakeInv, Waking, Running
<1>0. TypeOK /\ conns # 0
  BY CountedFacts DEF IInv, CountedStates
<1>1. CASE Configure \/ BootSleep
  BY <1>1 DEF Configure, BootSleep
<1>2. CASE Wake(c)
  BY <1>2, <1>0 DEF Wake, mainVars, TypeOK
<1>3. ASSUME NEW d \in Conns, ConnNext(d), ~(d = c /\ Wake(c))
      PROVE  Waking(c)' /\ (\A t \in GraceTimers : grace[t] \in LockStates => grace'[t] = grace[t])
             /\ (Unlocked => Unlocked')
  <2>1. Waking(c)'
    BY <1>3, <1>0 DEF ConnNext, Accept, Wake, Register, Close, ScheduleSleep, Unregister, mainVars, TypeOK
  <2>2. CASE Wake(d)
    BY <2>1, <2>2, <1>0 DEF Wake, StopGrace, Stopped, Unlocked, LockStates, TypeOK
  <2>3. CASE ScheduleSleep(d)
    BY <2>1, <2>3, <1>0 DEF ScheduleSleep, graceVars, Unlocked, LockStates, TypeOK
  <2>4. CASE Accept(d) \/ Register(d) \/ Close(d) \/ Unregister(d)
    BY <2>1, <2>4 DEF Accept, Register, Close, Unregister, graceVars, Unlocked
  <2> QED
    BY <1>3, <2>2, <2>3, <2>4 DEF ConnNext
<1>4. ASSUME NEW u \in GraceTimers, GraceFires(u) \/ TrySleep(u)
      PROVE  Waking(c)' /\ (\A t \in GraceTimers : grace[t] \in LockStates => grace'[t] = grace[t])
             /\ (Unlocked => Unlocked')
  <2>1. Waking(c)'
    BY <1>4 DEF GraceFires, TrySleep, connVars, mainVars
  <2>2. grace' = [grace EXCEPT ![u] = "fired"] \/ grace' = [grace EXCEPT ![u] = "free"]
    BY <1>4, <1>0 DEF GraceFires, TrySleep, NoConns
  <2>3. grace[u] \notin LockStates
    BY <1>4 DEF GraceFires, TrySleep, LockStates
  <2> QED
    BY <2>1, <2>2, <2>3, <1>0 DEF Unlocked, LockStates, TypeOK
<1>5. ASSUME NEW u \in GraceTimers, Park(u) \/ Scavenge(u) \/ Decide(u)
      PROVE  /\ Waking(c)'
             /\ Unlocked => Unlocked'
             /\ \A t \in GraceTimers : grace[t] \in LockStates =>
                    \/ grace'[t] = grace[t]
                    \/ grace[t] = "parking" /\ grace'[t] = "scavenging"
                    \/ grace[t] = "scavenging" /\ grace'[t] = "deciding"
                    \/ grace[t] = "deciding" /\ grace'[t] = "exiting"
                    \/ grace[t] = "deciding" /\ Unlocked'
  <2>1. Waking(c)'
    BY <1>5 DEF Park, Scavenge, Decide, connVars, mainVars
  <2>2. grace[u] \in LockStates
    BY <1>5 DEF Park, Scavenge, Decide, LockStates
  <2>3. \A t \in GraceTimers : t # u => grace[t] \notin LockStates /\ grace'[t] = grace[t]
    BY <1>5, <2>2, <1>0 DEF Park, Scavenge, Decide, LockAlone, TypeOK
  <2>4. \/ grace[u] = "parking" /\ grace'[u] = "scavenging"
        \/ grace[u] = "scavenging" /\ grace'[u] = "deciding"
        \/ grace[u] = "deciding" /\ grace'[u] \in {"exiting", "free"}
    BY <1>5, <1>0 DEF Park, Scavenge, Decide, TypeOK
  <2>5. grace'[u] = "free" => Unlocked'
    BY <2>3 DEF Unlocked, LockStates
  <2> QED
    BY <2>1, <2>2, <2>3, <2>4, <2>5 DEF Unlocked
<1>6. ASSUME NEW u \in GraceTimers, Exit(u) PROVE proc' = "exited"
  BY <1>6 DEF Exit
<1>7. ASSUME NEW s \in CapTimers, CapNext(s) PROVE Waking(c)' /\ grace' = grace
  BY <1>7 DEF CapNext, CapFires, EndSession, ForceClose, Rearm, connVars, graceVars, mainVars
<1>8. CASE UNCHANGED vars
  BY <1>8 DEF vars, connVars, graceVars, mainVars, Unlocked
<1> QED
  BY <1>1, <1>2, <1>3, <1>4, <1>5, <1>6, <1>7, <1>8 DEF Next, GraceNext, Unlocked

(* A park in progress releases the mutex or ends in an exit. *)
LEMMA ParkReleases ==
    ASSUME NEW c \in Conns, NEW t \in GraceTimers
    PROVE  FairSpec /\ []GateEnabled =>
               ((Waking(c) /\ grace[t] \in LockStates) ~>
                   \/ proc = "exited"
                   \/ Running /\ hook[c] = "register"
                   \/ Waking(c) /\ Unlocked)
<1> DEFINE Q == \/ proc = "exited"
                \/ Running /\ hook[c] = "register"
                \/ Waking(c) /\ Unlocked
           P1 == Waking(c) /\ grace[t] = "parking"
           P2 == Waking(c) /\ grace[t] = "scavenging"
           P3 == Waking(c) /\ grace[t] = "deciding"
           P4 == Waking(c) /\ grace[t] = "exiting"
<1>1. FairSpec => GraceFairness(t)
  BY DEF FairSpec, Fairness
<1> USE DEF LockStates
<1>2. WakeInv /\ P1 /\ [Next]_vars => P1' \/ P2' \/ Q'
  BY WakingStep
<1>3. WakeInv /\ P2 /\ [Next]_vars => P2' \/ P3' \/ Q'
  BY WakingStep
<1>4. WakeInv /\ P3 /\ [Next]_vars => P3' \/ P4' \/ Q'
  BY WakingStep
<1>5. WakeInv /\ P4 /\ [Next]_vars => P4' \/ Q'
  BY WakingStep
<1>6. WakeInv /\ P1 /\ <<GraceNext(t)>>_vars => ~P1'
  <2> SUFFICES ASSUME WakeInv, P1, GraceNext(t) PROVE ~P1'
    OBVIOUS
  <2>1. Park(t)
    BY DEF GraceNext, GraceFires, TrySleep, Scavenge, Decide, Exit
  <2> QED
    BY <2>1 DEF Park, WakeInv, IInv, TypeOK
<1>7. WakeInv /\ P2 /\ <<GraceNext(t)>>_vars => ~P2'
  <2> SUFFICES ASSUME WakeInv, P2, GraceNext(t) PROVE ~P2'
    OBVIOUS
  <2>1. Scavenge(t)
    BY DEF GraceNext, GraceFires, TrySleep, Park, Decide, Exit
  <2> QED
    BY <2>1 DEF Scavenge, WakeInv, IInv, TypeOK
<1>8. WakeInv /\ P3 /\ <<GraceNext(t)>>_vars => ~P3'
  <2> SUFFICES ASSUME WakeInv, P3, GraceNext(t) PROVE ~P3'
    OBVIOUS
  <2>1. Decide(t)
    BY DEF GraceNext, GraceFires, TrySleep, Park, Scavenge, Exit
  <2> QED
    BY <2>1 DEF Decide, WakeInv, IInv, TypeOK
<1>9. WakeInv /\ P4 /\ <<GraceNext(t)>>_vars => Q'
  <2> SUFFICES ASSUME WakeInv, P4, GraceNext(t) PROVE Q'
    OBVIOUS
  <2>1. Exit(t)
    BY DEF GraceNext, GraceFires, TrySleep, Park, Scavenge, Decide
  <2> QED
    BY <2>1 DEF Exit
<1>10. GateEnabled => (P1 \/ P2 \/ P3 \/ P4 => ENABLED <<GraceNext(t)>>_vars)
  BY DEF GateEnabled, Waking
<1>11. Waking(c) /\ grace[t] \in LockStates => P1 \/ P2 \/ P3 \/ P4
  OBVIOUS
<1> HIDE DEF P1, P2, P3, P4, Q
<1>12. FairSpec /\ []GateEnabled => ((Waking(c) /\ grace[t] \in LockStates) ~> Q)
  <2> DEFINE F == FairSpec /\ []GateEnabled
  <2>1. F => (P4 ~> Q)
    BY <1>1, <1>5, <1>9, <1>10, WakeInvHolds, PTL DEF FairSpec, Spec, GraceFairness
  <2>2. F => (P3 ~> P4 \/ Q)
    BY <1>1, <1>4, <1>8, <1>10, WakeInvHolds, PTL DEF FairSpec, Spec, GraceFairness
  <2>3. F => (P2 ~> P3 \/ Q)
    BY <1>1, <1>3, <1>7, <1>10, WakeInvHolds, PTL DEF FairSpec, Spec, GraceFairness
  <2>4. F => (P1 ~> P2 \/ Q)
    BY <1>1, <1>2, <1>6, <1>10, WakeInvHolds, PTL DEF FairSpec, Spec, GraceFairness
  <2> QED
    BY <2>1, <2>2, <2>3, <2>4, <1>11, PTL
<1> QED
  BY <1>12 DEF Q

(* With the mutex free the wake-up and the registration happen. *)
LEMMA UnlockedIsServed ==
    ASSUME NEW c \in Conns, ~IsFiniteSet(CapTimers)
    PROVE  FairSpec /\ []GateEnabled =>
               ((Waking(c) /\ Unlocked) \/ (Running /\ hook[c] = "register")
                    ~> (hook[c] = "open" \/ proc = "exited"))
<1> DEFINE P1 == Waking(c) /\ Unlocked
           P2 == Running /\ hook[c] = "register"
           Q == hook[c] = "open" \/ proc = "exited"
<1>1. FairSpec => ConnFairness(c)
  BY DEF FairSpec, Fairness
<1>2. WakeInv /\ P1 /\ [Next]_vars => P1' \/ P2' \/ Q'
  BY WakingStep
<1>3. WakeInv /\ P1 /\ <<Wake(c)>>_vars => P2'
  BY DEF WakeInv, IInv, TypeOK, Wake, mainVars, Running
<1>4. WakeInv /\ P2 /\ [Next]_vars => P2' \/ Q'
  <2> SUFFICES ASSUME WakeInv, P2, [Next]_vars PROVE P2' \/ Q'
    OBVIOUS
  <2> USE DEF Running
  <2>0. TypeOK
    BY DEF WakeInv, IInv
  <2>1. CASE Configure \/ BootSleep
    BY <2>1 DEF Configure, BootSleep
  <2>2. ASSUME NEW d \in Conns, ConnNext(d) PROVE P2' \/ Q'
    BY <2>2, <2>0 DEF ConnNext, Accept, Wake, Register, Close, ScheduleSleep, Unregister, mainVars, TypeOK
  <2>3. ASSUME NEW u \in GraceTimers, GraceNext(u) PROVE P2' \/ Q'
    BY <2>3 DEF GraceNext, GraceFires, TrySleep, Park, Scavenge, Decide, Exit, connVars, mainVars
  <2>4. ASSUME NEW s \in CapTimers, CapNext(s) PROVE P2'
    BY <2>4 DEF CapNext, CapFires, EndSession, ForceClose, Rearm, connVars, mainVars
  <2>5. CASE UNCHANGED vars
    BY <2>5 DEF vars, connVars, mainVars
  <2> QED
    BY <2>1, <2>2, <2>3, <2>4, <2>5 DEF Next
<1>5. WakeInv /\ P2 /\ <<Register(c)>>_vars => Q'
  BY DEF WakeInv, IInv, TypeOK, Register
<1>6. WakeInv /\ GateEnabled => (P1 => ENABLED <<Wake(c)>>_vars)
  <2> SUFFICES ASSUME WakeInv, GateEnabled, P1 PROVE ENABLED <<Wake(c)>>_vars
    OBVIOUS
  <2>1. \E s \in CapTimers : cap[s] = "free"
    <3> SUFFICES ASSUME \A s \in CapTimers : cap[s] # "free" PROVE FALSE
      OBVIOUS
    <3>1. BusyCaps = CapTimers
      BY DEF BusyCaps
    <3> QED
      BY <3>1 DEF WakeInv
  <2> QED
    BY <2>1 DEF GateEnabled, Waking
<1>7. WakeInv /\ GateEnabled => (P2 => ENABLED <<Register(c)>>_vars)
  <2> SUFFICES ASSUME WakeInv, GateEnabled, P2 PROVE ENABLED <<Register(c)>>_vars
    OBVIOUS
  <2>1. Unlocked
    BY DEF WakeInv, IInv, LockedAsleep, ServedAwake, ServedStates, Unlocked
  <2> QED
    BY <2>1 DEF GateEnabled
<1> HIDE DEF P1, P2, Q
<1> DEFINE F == FairSpec /\ []GateEnabled
<1>8. F => (P2 ~> Q)
  BY <1>1, <1>4, <1>5, <1>7, WakeInvHolds, PTL DEF FairSpec, Spec, ConnFairness
<1>9. F => (P1 ~> P2 \/ Q)
  BY <1>1, <1>2, <1>3, <1>6, WakeInvHolds, PTL DEF FairSpec, Spec, ConnFairness
<1>10. F => (P1 \/ P2 ~> Q)
  BY <1>8, <1>9, PTL
<1> QED
  BY <1>10 DEF P1, P2, Q

(* The connection that wakes the process is served, whatever park with its   *)
(* slow FreeOSMemory holds g.mu when it arrives, and only an exit can take   *)
(* it down (wake, trySleep).  Timers are not scarce: time.AfterFunc          *)
(* allocates them. *)
THEOREM WakerIsServed ==
    ASSUME ~IsFiniteSet(CapTimers)
    PROVE  FairSpec /\ []GateEnabled => AcceptedIsServed
<1> DEFINE F == FairSpec /\ []GateEnabled
<1>1. ASSUME NEW c \in Conns
      PROVE  F => ((hook[c] = "wake") ~> (hook[c] = "open" \/ proc = "exited"))
  <2> DEFINE Q == hook[c] = "open" \/ proc = "exited"
             Lock(t) == Waking(c) /\ grace[t] \in LockStates
             Free == (Waking(c) /\ Unlocked) \/ (Running /\ hook[c] = "register")
             R == Q \/ Free
             Locked == \E t \in GraceTimers : Lock(t)
  <2>1. F => (Free ~> Q)
    BY UnlockedIsServed
  <2>2. F => (Locked ~> R)
    <3>1. ASSUME NEW t \in GraceTimers PROVE F => [](Lock(t) => <>R)
      <4>1. (proc = "exited" \/ (Running /\ hook[c] = "register") \/ (Waking(c) /\ Unlocked)) => R
        OBVIOUS
      <4> HIDE DEF R
      <4> QED
        BY <4>1, ParkReleases, PTL
    <3> HIDE DEF F, Lock, R
    <3>2. F => \A t \in GraceTimers : [](Lock(t) => <>R)
      BY <3>1
    <3>3. (\A t \in GraceTimers : [](Lock(t) => <>R)) => [](\A t \in GraceTimers : (Lock(t) => <>R))
      OBVIOUS
    <3> DEFINE W == \A t \in GraceTimers : (Lock(t) => <>R)
    <3>4. F => []W
      BY <3>2, <3>3
    <3>5. W => (Locked => <>R)
      OBVIOUS
    <3> HIDE DEF W, Locked
    <3> QED
      BY <3>4, <3>5, PTL
  <2>3. WakeInv /\ hook[c] = "wake" => R \/ Locked
    BY DEF WakeInv, IInv, TypeOK, Booting, Waking, Running, Unlocked
  <2> HIDE DEF Locked, Free
  <2> QED
    BY <2>1, <2>2, <2>3, WakeInvHolds, PTL DEF FairSpec
<1>2. F => \A c \in Conns : (hook[c] = "wake") ~> (hook[c] = "open" \/ proc = "exited")
  <2> HIDE DEF F
  <2> QED
    BY <1>1
<1> QED
  BY <1>2 DEF AcceptedIsServed
=============================================================================
