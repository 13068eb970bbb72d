-------------------------- MODULE DashboardProofs --------------------------
(***************************************************************************)
(* Proofs about Dashboard, for any set of drives.                          *)
(***************************************************************************)
EXTENDS Dashboard, TLAPS

Optional == {e \in {"zpool", "arc"} : IF e = "zpool" THEN caps.zfs ELSE caps.arc}

(* A refresh is under way exactly while an answer is awaited, and sysinfo is *)
(* awaited alone. *)
RoundShape ==
    /\ refreshing <=> awaiting # {}
    /\ "sysinfo" \in awaiting => awaiting = {"sysinfo"}

(* Once sysinfo has answered, the round asks for what the capabilities       *)
(* enable, and every enabled endpoint that has answered shows its answer. *)
RoundSettles ==
    "sysinfo" \notin awaiting =>
        /\ want = Optional
        /\ awaiting \subseteq want \cup {"smart"}
        /\ awaiting \cap got = {}
        /\ \A e \in Enabled \ awaiting : latest[e] = IF e \in got THEN "new" ELSE "null"

PillInv == ~refreshing => (live <=> Enabled \subseteq got)

RoundInv == RoundShape /\ RoundSettles /\ PillInv

IInv == TypeOK /\ OneInterval /\ CapTabsNeverDead /\ RoundInv

(* The page as loaded satisfies the invariant. *)
LEMMA InitIInv == Init => IInv
  <1> SUFFICES ASSUME Init PROVE IInv
    OBVIOUS
  <1>1. TypeOK
    BY DEF Init, TypeOK, Endpoints, Caps
  <1>2. OneInterval
    BY DEF Init, OneInterval
  <1>3. CapTabsNeverDead
    BY DEF Init, CapTabsNeverDead, VisibleTabs
  <1>4. RoundInv
    BY DEF Init, RoundInv, RoundShape, RoundSettles, PillInv
  <1> QED BY <1>1, <1>2, <1>3, <1>4 DEF IInv

(* refreshAll keeps the shape of the round from every state of the           *)
(* invariant, whatever the handler that calls it does to the timer. *)
LEMMA RefreshAllStep ==
  ASSUME TypeOK, RoundInv, refreshAll, UNCHANGED <<caps, smartTabs, activeTab, live>>
  PROVE  /\ RoundInv'
         /\ refreshing' \in BOOLEAN /\ awaiting' \subseteq Endpoints
         /\ want' \subseteq {"zpool", "arc"} /\ got' \subseteq Endpoints
         /\ latest' \in [Endpoints -> {"null", "old", "new"}]
  <1>1. CASE refreshing
    <2>1. UNCHANGED <<refreshing, awaiting, got, want, latest, caps, live>>
      BY <1>1 DEF refreshAll
    <2> QED BY <2>1 DEF RoundInv, RoundShape, RoundSettles, PillInv, Optional, Enabled, TypeOK
  <1>2. CASE ~refreshing
    <2>1. Begin
      BY <1>2 DEF refreshAll
    <2>2. RoundInv'
      BY <2>1 DEF Begin, RoundInv, RoundShape, RoundSettles, PillInv
    <2>3. latest' \in [Endpoints -> {"null", "old", "new"}]
      BY <2>1 DEF Begin
    <2> QED BY <2>1, <2>2, <2>3 DEF Begin, Endpoints
  <1> QED BY <1>1, <1>2

(* The handlers that call refreshAll and touch neither capabilities nor tabs. *)
LEMMA HandlerStep ==
  ASSUME IInv, refreshAll, UNCHANGED <<caps, smartTabs, activeTab, live>>,
         hidden' \in BOOLEAN, timer' \in BOOLEAN, intervals' \in Nat,
         intervals' = (IF timer' THEN 1 ELSE 0), ~hidden' => timer'
  PROVE  IInv'
  <1>1. /\ RoundInv'
        /\ refreshing' \in BOOLEAN /\ awaiting' \subseteq Endpoints
        /\ want' \subseteq {"zpool", "arc"} /\ got' \subseteq Endpoints
        /\ latest' \in [Endpoints -> {"null", "old", "new"}]
    BY RefreshAllStep DEF IInv
  <1>2. TypeOK'
    BY <1>1 DEF IInv, TypeOK
  <1>3. OneInterval'
    BY DEF OneInterval
  <1>4. CapTabsNeverDead'
    BY DEF IInv, CapTabsNeverDead, VisibleTabs
  <1> QED BY <1>1, <1>2, <1>3, <1>4 DEF IInv

(* An answer of an endpoint other than sysinfo. *)
LEMMA AnswerStep ==
  ASSUME IInv, NEW e \in {"zpool", "arc", "smart"}, NEW ok \in BOOLEAN, Answer(e, ok),
         caps'.zfs = caps.zfs, caps'.arc = caps.arc
  PROVE  /\ RoundInv' /\ OneInterval'
         /\ hidden' \in BOOLEAN /\ timer' \in BOOLEAN /\ intervals' \in Nat
         /\ refreshing' \in BOOLEAN /\ live' \in BOOLEAN
         /\ awaiting' \subseteq Endpoints /\ want' \subseteq {"zpool", "arc"}
         /\ got' \subseteq Endpoints
         /\ latest' \in [Endpoints -> {"null", "old", "new"}]
  <1> USE DEF IInv
  <1>1. /\ "sysinfo" \notin awaiting /\ "sysinfo" \notin awaiting'
        /\ refreshing /\ e \in awaiting /\ e \notin got /\ e \in Endpoints
    BY DEF Answer, RoundInv, RoundShape, RoundSettles, Endpoints
  <1>2. /\ awaiting' = awaiting \ {e}
        /\ got' = IF ok THEN got \cup {e} ELSE got
        /\ latest' = [latest EXCEPT ![e] = IF ok THEN "new" ELSE "null"]
        /\ UNCHANGED <<hidden, timer, intervals, want>>
        /\ latest \in [Endpoints -> {"null", "old", "new"}]
        /\ want = Optional
    BY <1>1 DEF Answer, TypeOK, RoundInv, RoundSettles
  <1>3. Optional' = Optional /\ Enabled' = Enabled
    BY DEF Optional, Enabled
  <1>4. /\ awaiting' = {} => live' = (Enabled' \subseteq got') /\ refreshing' = FALSE
        /\ awaiting' # {} => live' = live /\ refreshing' = refreshing
    BY <1>2, <1>3 DEF Answer, AllAnswered, Enabled, Optional
  <1>5. RoundShape'
    BY <1>1, <1>2, <1>4 DEF RoundShape
  <1>6. ASSUME NEW x \in Enabled' \ awaiting'
        PROVE  latest'[x] = IF x \in got' THEN "new" ELSE "null"
    <2>1. x \in Endpoints
      BY <1>3 DEF Enabled, Endpoints
    <2>2. CASE x = e
      BY <2>1, <2>2, <1>1, <1>2
    <2>3. CASE x # e
      <3>1. x \in Enabled \ awaiting
        BY <2>3, <1>2, <1>3
      <3>2. latest[x] = IF x \in got THEN "new" ELSE "null"
        BY <3>1, <1>1 DEF RoundInv, RoundSettles
      <3> QED BY <3>2, <2>1, <2>3, <1>2
    <2> QED BY <2>2, <2>3
  <1>7. RoundSettles'
    BY <1>1, <1>2, <1>3, <1>6 DEF RoundInv, RoundSettles
  <1>8. PillInv'
    BY <1>1, <1>4 DEF PillInv
  <1>9. latest' \in [Endpoints -> {"null", "old", "new"}]
    BY <1>1, <1>2
  <1>10. refreshing' \in BOOLEAN /\ live' \in BOOLEAN
    BY <1>4, <1>1 DEF TypeOK
  <1> QED BY <1>1, <1>2, <1>5, <1>7, <1>8, <1>9, <1>10
             DEF RoundInv, OneInterval, TypeOK

(* The step of sysinfo's answer. *)
LEMMA SysInfoStep ==
  ASSUME IInv, NEW a \in SysAnswers, NEW zfs \in BOOLEAN,
         NEW arc \in BOOLEAN, fetchSysInfo(a, zfs, arc)
  PROVE  IInv'
  <1> USE DEF IInv
  <1>1. /\ awaiting = {"sysinfo"} /\ refreshing
        /\ latest \in [Endpoints -> {"null", "old", "new"}]
        /\ latest' = [latest EXCEPT !["sysinfo"] = IF a = "data" THEN "new" ELSE "null"]
        /\ got' = IF a = "data" THEN {"sysinfo"} ELSE {}
        /\ want' = Optional'
        /\ awaiting' = want' \cup {"smart"}
        /\ UNCHANGED <<hidden, timer, intervals, refreshing, smartTabs, live>>
    BY DEF fetchSysInfo, RoundInv, RoundShape, TypeOK, Wanted, Optional
  <1>2. \/ \E z, c \in BOOLEAN : applyCaps(z, c)
        \/ UNCHANGED <<caps, activeTab>>
    BY DEF fetchSysInfo
  <1>3. caps' \in Caps /\ activeTab' \in {"system", "pools", "arc"} \cup Drives
    <2>0. caps \in Caps /\ activeTab \in {"system", "pools", "arc"} \cup Drives
      BY DEF TypeOK
    <2>1. ASSUME NEW z \in BOOLEAN, NEW c \in BOOLEAN, applyCaps(z, c)
          PROVE  caps' \in Caps /\ activeTab' \in {"system", "pools", "arc"} \cup Drives
      <3>1. [caps EXCEPT !.zfs = z, !.arc = c] \in Caps
        BY <2>0 DEF Caps
      <3>2. caps' = [caps EXCEPT !.zfs = z, !.arc = c] /\ activeTab' \in {"system", activeTab}
        BY <2>1 DEF applyCaps
      <3> QED
        BY <2>0, <3>1, <3>2
    <2> QED
      BY <1>2, <2>0, <2>1
  <1>4. want' \subseteq {"zpool", "arc"}
    BY <1>1 DEF Optional
  <1>5. TypeOK'
    <2>1. latest' \in [Endpoints -> {"null", "old", "new"}]
      BY <1>1
    <2> QED BY <2>1, <1>1, <1>3, <1>4 DEF TypeOK, Endpoints
  <1>6. CapTabsNeverDead'
    <2>1. CASE UNCHANGED <<caps, activeTab>>
      BY <2>1, <1>1 DEF CapTabsNeverDead, VisibleTabs
    <2>2. ASSUME NEW z \in BOOLEAN, NEW c \in BOOLEAN, applyCaps(z, c)
          PROVE  CapTabsNeverDead'
      <3>1. caps'.zfs = z /\ caps'.arc = c
        BY <2>2 DEF applyCaps, TypeOK, Caps
      <3>2. activeTab' = activeTab \/ activeTab' = "system"
        BY <2>2 DEF applyCaps
      <3>3. CASE activeTab' = "system"
        BY <3>3 DEF CapTabsNeverDead, VisibleTabs
      <3>4. CASE activeTab' = activeTab /\ activeTab' # "system"
        <4>1. (activeTab = "pools" => z) /\ (activeTab = "arc" => c)
          BY <2>2, <3>4 DEF applyCaps
        <4>2. CASE activeTab \in {"pools", "arc"}
          BY <4>1, <4>2, <3>1, <3>4 DEF CapTabsNeverDead, VisibleTabs
        <4>3. CASE activeTab \in Drives
          BY <4>3, <3>4, <1>1, DrivesAreNotTabs DEF CapTabsNeverDead, VisibleTabs
        <4> QED BY <4>2, <4>3, <3>4 DEF TypeOK
      <3> QED BY <3>2, <3>3, <3>4
    <2> QED BY <1>2, <2>1, <2>2
  <1>7. RoundInv'
    <2>1. /\ "sysinfo" \notin awaiting' /\ awaiting' # {} /\ refreshing'
          /\ awaiting' \cap got' = {}
      BY <1>1, <1>4
    <2>2. Enabled' \ awaiting' \subseteq {"sysinfo"}
      BY <1>1 DEF Enabled, Optional
    <2>3. latest'["sysinfo"] = IF "sysinfo" \in got' THEN "new" ELSE "null"
      BY <1>1 DEF Endpoints
    <2> QED BY <2>1, <2>2, <2>3, <1>1 DEF RoundInv, RoundShape, RoundSettles, PillInv
  <1>8. OneInterval'
    BY <1>1 DEF OneInterval
  <1> QED BY <1>5, <1>6, <1>7, <1>8

(* Every event, answer and click keeps the invariant. *)
LEMMA NextIInv == IInv /\ [Next]_vars => IInv'
  <1> SUFFICES ASSUME IInv, [Next]_vars PROVE IInv'
    OBVIOUS
  <1>0. TypeOK /\ OneInterval /\ RoundInv /\ CapTabsNeverDead
    BY DEF IInv
  <1>1. CASE Tick
    BY <1>1, <1>0, HandlerStep DEF Tick, TypeOK, OneInterval
  <1>2. CASE Click
    BY <1>2, <1>0, HandlerStep DEF Click, TypeOK, OneInterval
  <1>3. CASE Hide
    <2>1. intervals' = 0 /\ intervals' \in Nat
      BY <1>3, <1>0 DEF Hide, OneInterval, TypeOK
    <2>2. TypeOK'
      BY <2>1, <1>3, <1>0 DEF Hide, TypeOK
    <2> QED BY <2>1, <2>2, <1>3, <1>0
            DEF Hide, IInv, OneInterval, CapTabsNeverDead, VisibleTabs, RoundInv,
                RoundShape, RoundSettles, PillInv, Optional, Enabled
  <1>4. CASE Show
    <2>1. CASE timer
      <3>1. TypeOK'
        BY <2>1, <1>4, <1>0 DEF Show, TypeOK
      <3> QED BY <3>1, <2>1, <1>4, <1>0
              DEF Show, IInv, OneInterval, CapTabsNeverDead, VisibleTabs, RoundInv,
                  RoundShape, RoundSettles, PillInv, Optional, Enabled
    <2>2. CASE ~timer
      <3>1. intervals' = 1 /\ timer' = TRUE /\ hidden' = FALSE
        BY <2>2, <1>4, <1>0 DEF Show, OneInterval
      <3>2. refreshAll /\ UNCHANGED <<caps, smartTabs, activeTab, live>>
        BY <2>2, <1>4 DEF Show
      <3> QED BY <3>1, <3>2, HandlerStep
    <2> QED BY <2>1, <2>2
  <1>5. ASSUME NEW t \in {"system", "pools", "arc"} \cup Drives, switchTab(t)
        PROVE  IInv'
    <2>1. TypeOK'
      BY <1>5, <1>0 DEF switchTab, TypeOK
    <2> QED BY <2>1, <1>5, <1>0
            DEF switchTab, IInv, OneInterval, CapTabsNeverDead, VisibleTabs, RoundInv,
                RoundShape, RoundSettles, PillInv, Optional, Enabled
  <1>6. ASSUME NEW a \in SysAnswers, NEW zfs \in BOOLEAN,
               NEW arc \in BOOLEAN, fetchSysInfo(a, zfs, arc)
        PROVE  IInv'
    BY <1>6, SysInfoStep
  <1>7. ASSUME NEW ok \in BOOLEAN, fetchPools(ok) \/ fetchARC(ok)
        PROVE  IInv'
    <2>1. UNCHANGED <<caps, smartTabs, activeTab>> /\ (Answer("zpool", ok) \/ Answer("arc", ok))
      BY <1>7 DEF fetchPools, fetchARC
    <2>2. /\ RoundInv' /\ OneInterval'
          /\ hidden' \in BOOLEAN /\ timer' \in BOOLEAN /\ intervals' \in Nat
          /\ refreshing' \in BOOLEAN /\ live' \in BOOLEAN
          /\ awaiting' \subseteq Endpoints /\ want' \subseteq {"zpool", "arc"}
          /\ got' \subseteq Endpoints
          /\ latest' \in [Endpoints -> {"null", "old", "new"}]
      BY <2>1, AnswerStep
    <2>3. TypeOK' /\ CapTabsNeverDead'
      BY <2>1, <2>2, <1>0 DEF TypeOK, CapTabsNeverDead, VisibleTabs
    <2> QED BY <2>2, <2>3 DEF IInv
  <1>8. ASSUME NEW ok \in BOOLEAN, NEW av \in BOOLEAN, NEW D \in SUBSET Drives,
               fetchSmart(ok, av, D)
        PROVE  IInv'
    <2>1. /\ Answer("smart", ok)
          /\ caps' = [caps EXCEPT !.smart = ok /\ av /\ D # {}]
          /\ IF caps'.smart THEN smartTabs' = D /\ UNCHANGED activeTab ELSE clearSmartTabs
      BY <1>8 DEF fetchSmart
    <2>2. /\ caps'.zfs = caps.zfs /\ caps'.arc = caps.arc /\ caps' \in Caps
          /\ caps'.smart = (ok /\ av /\ D # {})
      BY <2>1, <1>0 DEF TypeOK, Caps
    <2>3. /\ RoundInv' /\ OneInterval'
          /\ hidden' \in BOOLEAN /\ timer' \in BOOLEAN /\ intervals' \in Nat
          /\ refreshing' \in BOOLEAN /\ live' \in BOOLEAN
          /\ awaiting' \subseteq Endpoints /\ want' \subseteq {"zpool", "arc"}
          /\ got' \subseteq Endpoints
          /\ latest' \in [Endpoints -> {"null", "old", "new"}]
      BY <2>1, <2>2, AnswerStep
    <2>4. /\ smartTabs' \subseteq Drives
          /\ activeTab' \in {"system", "pools", "arc"} \cup Drives
      BY <2>1, <1>0 DEF clearSmartTabs, TypeOK
    <2>5. TypeOK'
      BY <2>2, <2>3, <2>4 DEF TypeOK
    <2>6. CapTabsNeverDead'
      <3>1. CASE caps'.smart
        <4>1. smartTabs' = D /\ D # {} /\ activeTab' = activeTab
          BY <3>1, <2>1, <2>2
        <4>2. CASE activeTab \in Drives
          BY <4>1, <4>2 DEF CapTabsNeverDead
        <4>3. CASE activeTab \notin Drives
          <5>1. activeTab \in VisibleTabs
            BY <4>3, <1>0 DEF CapTabsNeverDead
          <5>2. activeTab \notin smartTabs
            BY <4>3, <1>0 DEF TypeOK
          <5> QED BY <5>1, <5>2, <4>1, <2>2 DEF CapTabsNeverDead, VisibleTabs
        <4> QED BY <4>2, <4>3
      <3>2. CASE ~caps'.smart
        <4>1. smartTabs' = {} /\ activeTab' = IF activeTab \in Drives THEN "system" ELSE activeTab
          BY <3>2, <2>1 DEF clearSmartTabs
        <4>2. CASE activeTab \in Drives
          BY <4>1, <4>2 DEF CapTabsNeverDead, VisibleTabs
        <4>3. CASE activeTab \notin Drives
          <5>1. activeTab \in VisibleTabs
            BY <4>3, <1>0 DEF CapTabsNeverDead
          <5>2. activeTab \notin smartTabs
            BY <4>3, <1>0 DEF TypeOK
          <5> QED BY <5>1, <5>2, <4>1, <4>3, <2>2 DEF CapTabsNeverDead, VisibleTabs
        <4> QED BY <4>2, <4>3
      <3> QED BY <3>1, <3>2
    <2> QED BY <2>3, <2>5, <2>6 DEF IInv
  <1>9. CASE UNCHANGED vars
    <2>1. TypeOK'
      BY <1>9, <1>0 DEF vars, TypeOK
    <2> QED BY <2>1, <1>9, <1>0
            DEF vars, IInv, OneInterval, CapTabsNeverDead, VisibleTabs, RoundInv,
                RoundShape, RoundSettles, PillInv, Optional, Enabled
  <1> QED BY <1>1, <1>2, <1>3, <1>4, <1>5, <1>6, <1>7, <1>8, <1>9 DEF Next, Answers

(* The invariant holds of every behaviour of the page. *)
THEOREM IInvHolds == Spec => []IInv
  BY InitIInv, NextIInv, PTL DEF Spec

(* Every handler of the script keeps the page's variables in their types. *)
THEOREM TypeCorrect == Spec => []TypeOK
  <1>1. IInv => TypeOK
    BY DEF IInv
  <1> QED BY <1>1, IInvHolds, PTL

(* Between refreshes the pill says live exactly if every enabled endpoint    *)
(* shows data, and all data shown is of the last round (refreshAll). *)
THEOREM PillIsTruthful == Spec => []PillTellsTheTruth
  <1>1. IInv => PillTellsTheTruth
    <2> SUFFICES ASSUME IInv, ~refreshing PROVE PillTellsTheTruth
      BY DEF PillTellsTheTruth
    <2>1. awaiting = {} /\ (live <=> Enabled \subseteq got)
      BY DEF IInv, RoundInv, RoundShape, PillInv
    <2>2. \A e \in Enabled : latest[e] = IF e \in got THEN "new" ELSE "null"
      BY <2>1 DEF IInv, RoundInv, RoundSettles
    <2>3. \A e \in Enabled : latest[e] # "null" <=> e \in got
      BY <2>2
    <2>4. \A e \in Enabled : latest[e] # "old"
      BY <2>2
    <2> QED BY <2>1, <2>3, <2>4 DEF PillTellsTheTruth
  <1> QED BY <1>1, IInvHolds, PTL

(* No tab of a missing capability is selected (applyCaps, clearSmartTabs). *)
THEOREM TabsStayAlive == Spec => []CapTabsNeverDead
  <1>1. IInv => CapTabsNeverDead
    BY DEF IInv
  <1> QED BY <1>1, IInvHolds, PTL

(* Intervals do not accumulate (visibilitychange). *)
THEOREM IntervalsDoNotLeak == Spec => []OneInterval
  <1>1. IInv => OneInterval
    BY DEF IInv
  <1> QED BY <1>1, IInvHolds, PTL

(* A paused page begins no refresh (visibilitychange). *)
THEOREM PausedPageIsSilent == Spec => PauseHolds
  <1>1. IInv /\ [Next]_vars => [hidden /\ ~timer /\ hidden' => (refreshing' => refreshing)]_vars
    <2> SUFFICES ASSUME IInv, Next, hidden, ~timer, hidden', refreshing'
                 PROVE  refreshing
      OBVIOUS
    <2>1. intervals = 0
      BY DEF IInv, OneInterval
    <2>2. CASE Tick
      BY <2>1, <2>2 DEF Tick
    <2>3. CASE Answers
      BY <2>3 DEF Answers, fetchSysInfo, fetchPools, fetchARC, fetchSmart, Answer
    <2> QED BY <2>2, <2>3 DEF Next, Click, Hide, Show, switchTab
  <1> QED BY <1>1, IInvHolds, PTL DEF Spec, PauseHolds

(* Refreshes never overlap (refreshAll's refreshing flag). *)
THEOREM OneRoundAtATime == Spec => RoundsDoNotOverlap
  <1> DEFINE A == /\ \A e \in awaiting' \ awaiting :
                       IF e = "sysinfo" THEN awaiting = {} ELSE awaiting = {"sysinfo"}
                  /\ (refreshing /\ "sysinfo" \in awaiting') => "sysinfo" \in awaiting
  <1>1. IInv /\ [Next]_vars => [A]_vars
    <2> SUFFICES ASSUME IInv, Next PROVE A
      OBVIOUS
    <2>1. RoundShape
      BY DEF IInv, RoundInv
    <2>2. CASE refreshAll
      BY <2>1, <2>2 DEF refreshAll, Begin, RoundShape
    <2>3. CASE UNCHANGED awaiting
      BY <2>3
    <2>4. CASE Answers
      BY <2>4 DEF Answers, fetchSysInfo, Wanted, fetchPools, fetchARC, fetchSmart, Answer
    <2> QED BY <2>2, <2>3, <2>4 DEF Next, Tick, Click, Hide, Show, switchTab
  <1> QED BY <1>1, IInvHolds, PTL DEF Spec, RoundsDoNotOverlap

(* "A hidden tab pauses polling" is true of every page that was loaded in    *)
(* the foreground: loading it in a background tab is the only way to break   *)
(* it (the last lines of the script, visibilitychange). *)
THEOREM ForegroundPagePauses == Init /\ ~hidden /\ [][Next]_vars => HiddenTabPausesPolling
  <1> DEFINE Paused == hidden => ~timer
             Foreground == ~hidden
  <1>1. Foreground => Paused
    OBVIOUS
  <1>2. IInv /\ Paused /\ [Next]_vars => Paused'
    <2> SUFFICES ASSUME IInv, Paused, [Next]_vars PROVE Paused'
      OBVIOUS
    <2>1. CASE Tick \/ Click \/ Hide \/ Show \/ UNCHANGED vars
      BY <2>1 DEF Tick, Click, Hide, Show, vars
    <2>2. CASE Answers
      BY <2>2 DEF Answers, fetchSysInfo, fetchPools, fetchARC, fetchSmart, Answer
    <2> QED BY <2>1, <2>2 DEF Next, switchTab
  <1>3. Paused /\ [hidden /\ ~timer /\ hidden' => (refreshing' => refreshing)]_vars
          => [hidden /\ hidden' => (refreshing' => refreshing)]_vars
    OBVIOUS
  <1> HIDE DEF Paused, Foreground
  <1>4. Init /\ Foreground /\ [][Next]_vars => []Paused
    BY <1>1, <1>2, IInvHolds, PTL DEF Spec
  <1>5. Init /\ Foreground /\ [][Next]_vars => HiddenTabPausesPolling
    BY <1>3, <1>4, PausedPageIsSilent, PTL DEF Spec, PauseHolds, HiddenTabPausesPolling
  <1> QED BY <1>5 DEF Foreground

-----------------------------------------------------------------------------
(* Liveness, up to ENABLED, which the prover leaves uninterpreted: the       *)
(* interval of a page can fire between refreshes, and a request that is      *)
(* awaited can be answered.  Both steps assign every variable. *)
PageEnabled ==
    /\ intervals > 0 /\ ~refreshing => ENABLED <<Tick>>_vars
    /\ refreshing /\ awaiting # {} => ENABLED <<Answers>>_vars

(* How much of a refresh is left: sysinfo, or so many of the others. *)
First == awaiting = {"sysinfo"}
Three == awaiting = {"zpool", "arc", "smart"}
Two == awaiting \in {{"zpool", "arc"}, {"zpool", "smart"}, {"arc", "smart"}}
One == awaiting \in {{"zpool"}, {"arc"}, {"smart"}}
Done == awaiting = {}

(* A refresh is at one of these stages, or over. *)
LEMMA Stages == IInv => (First \/ Three \/ Two \/ One \/ Done) /\ (Done <=> ~refreshing)
  <1> SUFFICES ASSUME IInv PROVE (First \/ Three \/ Two \/ One \/ Done) /\ (Done <=> ~refreshing)
    OBVIOUS
  <1>1. RoundShape /\ awaiting \subseteq Endpoints
    BY DEF IInv, RoundInv, TypeOK
  <1>2. CASE "sysinfo" \in awaiting
    BY <1>1, <1>2 DEF RoundShape, First, Done
  <1>3. CASE "sysinfo" \notin awaiting
    BY <1>1, <1>3 DEF RoundShape, Endpoints, First, Three, Two, One, Done
  <1> QED BY <1>2, <1>3

(* An answer takes the refresh to its next stage, and nothing takes it back. *)
LEMMA StageStep ==
  ASSUME IInv, [Next]_vars
  PROVE  /\ First => (First' /\ ~Answers) \/ Three' \/ Two' \/ One'
         /\ Three => (Three' /\ ~Answers) \/ Two'
         /\ Two => (Two' /\ ~Answers) \/ One'
         /\ One => (One' /\ ~Answers) \/ Done'
  <1> USE DEF First, Three, Two, One, Done
  <1>1. (First \/ Three \/ Two \/ One) => refreshing
    BY DEF IInv, RoundInv, RoundShape
  <1>2. CASE ~Answers
    <2>1. refreshing => awaiting' = awaiting
      BY <1>2 DEF Next, Tick, Click, Hide, Show, switchTab, refreshAll, vars
    <2> QED BY <1>1, <1>2, <2>1
  <1>3. ASSUME NEW a, NEW zfs, NEW arc, fetchSysInfo(a, zfs, arc)
        PROVE  First /\ (Three' \/ Two' \/ One')
    BY <1>3 DEF fetchSysInfo, Wanted
  <1>4. ASSUME NEW e \in {"zpool", "arc", "smart"}, NEW ok, Answer(e, ok)
        PROVE  ~First /\ (Three => Two') /\ (Two => One') /\ (One => Done')
    BY <1>4 DEF Answer
  <1>5. CASE Answers
    <2>1. CASE \E a \in SysAnswers, zfs, arc \in BOOLEAN : fetchSysInfo(a, zfs, arc)
      BY <2>1, <1>3
    <2>2. CASE \E e \in {"zpool", "arc", "smart"}, ok \in BOOLEAN : Answer(e, ok)
      BY <2>2, <1>4
    <2> QED BY <1>5, <2>1, <2>2 DEF Answers, fetchPools, fetchARC, fetchSmart
  <1> QED BY <1>2, <1>5

(* A page that stays visible refreshes again and again, and every refresh,   *)
(* visible or not, comes to its end (setInterval, getJSON's deadline, the    *)
(* finally of refreshAll). *)
THEOREM VisiblePageRefreshes == FairSpec /\ []PageEnabled => VisibleKeepsRefreshing
  <1> DEFINE F == FairSpec /\ []PageEnabled
             Resting == Done /\ ~hidden
             Hid == hidden
             Busy == refreshing
  <1>1. FairSpec => []IInv /\ [][Next]_vars
    BY IInvHolds, PTL DEF FairSpec, Spec
  <1>2. IInv /\ [Next]_vars => /\ First => First' \/ Three' \/ Two' \/ One'
                               /\ Three => Three' \/ Two'
                               /\ Two => Two' \/ One'
                               /\ One => One' \/ Done'
    BY StageStep
  <1>3. IInv /\ [Next]_vars /\ <<Answers>>_vars => /\ First => Three' \/ Two' \/ One'
                                                   /\ Three => Two'
                                                   /\ Two => One'
                                                   /\ One => Done'
    BY StageStep
  <1>4. IInv /\ PageEnabled => (First \/ Three \/ Two \/ One => ENABLED <<Answers>>_vars)
    <2> SUFFICES ASSUME IInv, PageEnabled, First \/ Three \/ Two \/ One
                 PROVE  ENABLED <<Answers>>_vars
      OBVIOUS
    <2>1. awaiting # {}
      BY DEF First, Three, Two, One
    <2>2. refreshing
      BY <2>1 DEF IInv, RoundInv, RoundShape
    <2> QED BY <2>1, <2>2 DEF PageEnabled
  <1>5. IInv /\ [Next]_vars => (Resting => Resting' \/ Busy' \/ Hid')
    <2> SUFFICES ASSUME IInv, [Next]_vars, Resting, ~refreshing' PROVE Resting' \/ hidden'
      OBVIOUS
    <2>1. ~refreshing /\ awaiting = {}
      BY Stages DEF Done
    <2>2. ~Answers
      BY <2>1 DEF Answers, fetchSysInfo, fetchPools, fetchARC, fetchSmart, Answer
    <2> QED BY <2>1, <2>2 DEF Next, Tick, Click, Hide, Show, switchTab, refreshAll, Begin, vars, Done
  <1>6. IInv /\ <<Tick>>_vars => Busy'
    BY DEF Tick, refreshAll, Begin
  <1>7. IInv /\ PageEnabled => (Resting => ENABLED <<Tick>>_vars)
    <2> SUFFICES ASSUME IInv, PageEnabled, Resting PROVE ENABLED <<Tick>>_vars
      OBVIOUS
    <2>1. ~refreshing /\ intervals = 1
      BY Stages DEF IInv, OneInterval
    <2> QED BY <2>1 DEF PageEnabled
  <1>8. IInv => (First \/ Three \/ Two \/ One \/ Done) /\ (Done <=> ~Busy)
    BY Stages
  <1>9. Done /\ ~Hid <=> Resting
    OBVIOUS
  <1> HIDE DEF Resting, Hid, Busy
  <1>10. F => (One ~> Done)
    BY <1>1, <1>2, <1>3, <1>4, PTL DEF FairSpec
  <1>11. F => (Two ~> One)
    BY <1>1, <1>2, <1>3, <1>4, PTL DEF FairSpec
  <1>12. F => (Three ~> Two)
    BY <1>1, <1>2, <1>3, <1>4, PTL DEF FairSpec
  <1>13. F => (First ~> Three \/ Two \/ One)
    BY <1>1, <1>2, <1>3, <1>4, PTL DEF FairSpec
  <1>14. F => (Resting ~> Busy \/ Hid)
    BY <1>1, <1>5, <1>6, <1>7, PTL DEF FairSpec
  <1>15. F => []<>Done
    BY <1>1, <1>8, <1>10, <1>11, <1>12, <1>13, PTL
  <1>16. F => (<>[](~Hid) => []<>Busy /\ []<>(~Busy))
    BY <1>1, <1>8, <1>9, <1>14, <1>15, PTL
  <1> QED BY <1>16 DEF VisibleKeepsRefreshing, Hid, Busy
=============================================================================
