----------------------------- MODULE Dashboard -----------------------------
(***************************************************************************)
(* The polling and the tabs of the dashboard page, embed/index.html.  The  *)
(* page is one event loop: timer ticks, clicks, visibility changes and     *)
(* answers are handled one at a time, and a handler runs on to its next    *)
(* await.  The server is only what it answers: data, an error status or    *)
(* error body, a body that is no JSON, or nothing within getJSON's         *)
(* deadline, which is an error too.                                        *)
(***************************************************************************)
EXTENDS Naturals, FiniteSets

CONSTANT Drives     \* names of drives, each of which may have a tab

ASSUME DrivesAreNotTabs == Drives \cap {"system", "pools", "arc"} = {}

VARIABLES
    hidden,      \* document.hidden
    timer,       \* the variable timer holds an interval
    intervals,   \* the intervals that run
    refreshing,  \* a refreshAll is under way
    awaiting,    \* the endpoints whose answer it awaits
    want,        \* wantPools and wantArc: the optional endpoints of this round
    got,         \* the endpoints that returned data in this round
    latest,      \* state.latest: "null", or data of this or an earlier round
    caps,        \* caps.zfs, caps.arc, caps.smart
    smartTabs,   \* the drives with a tab
    activeTab,
    live         \* the navigation pill

vars == <<hidden, timer, intervals, refreshing, awaiting, want, got, latest,
          caps, smartTabs, activeTab, live>>

Endpoints == {"sysinfo", "zpool", "arc", "smart"}
Caps == [zfs : BOOLEAN, arc : BOOLEAN, smart : BOOLEAN]

TypeOK ==
    /\ hidden \in BOOLEAN /\ timer \in BOOLEAN /\ intervals \in Nat
    /\ refreshing \in BOOLEAN /\ live \in BOOLEAN
    /\ awaiting \subseteq Endpoints /\ want \subseteq {"zpool", "arc"}
    /\ got \subseteq Endpoints
    /\ latest \in [Endpoints -> {"null", "old", "new"}]
    /\ caps \in Caps
    /\ smartTabs \subseteq Drives
    /\ activeTab \in {"system", "pools", "arc"} \cup Drives

(* The tabs that can be clicked. *)
VisibleTabs ==
    {"system"} \cup (IF caps.zfs THEN {"pools"} ELSE {})
               \cup (IF caps.arc THEN {"arc"} ELSE {}) \cup smartTabs

-----------------------------------------------------------------------------
(* refreshAll up to its first await; the previous round's data is old now. *)
Begin ==
    /\ refreshing' = TRUE
    /\ awaiting' = {"sysinfo"}
    /\ got' = {} /\ want' = {}
    /\ latest' = [e \in Endpoints |-> IF latest[e] = "null" THEN "null" ELSE "old"]

(* One refresh at a time. *)
refreshAll ==
    IF refreshing THEN UNCHANGED <<refreshing, awaiting, got, want, latest>> ELSE Begin

(* The interval fires. *)
Tick ==
    /\ intervals > 0
    /\ refreshAll
    /\ UNCHANGED <<hidden, timer, intervals, caps, smartTabs, activeTab, live>>

(* The refresh button, or the theme switch more than 800 ms after a refresh. *)
Click ==
    /\ ~hidden
    /\ refreshAll
    /\ UNCHANGED <<hidden, timer, intervals, caps, smartTabs, activeTab, live>>

(* Faulty: the variable is reset, the interval runs on. *)
HideForgetsInterval ==
    /\ ~hidden
    /\ hidden' = TRUE
    /\ timer' = FALSE
    /\ UNCHANGED <<intervals, refreshing, awaiting, want, got, latest, caps, smartTabs, activeTab, live>>

(* visibilitychange. *)
Hide ==
    /\ ~hidden
    /\ hidden' = TRUE
    /\ timer' = FALSE
    /\ intervals' = IF timer THEN intervals - 1 ELSE intervals
    /\ UNCHANGED <<refreshing, awaiting, want, got, latest, caps, smartTabs, activeTab, live>>

(* Faulty: a new interval although one runs. *)
ShowUnguarded ==
    /\ hidden
    /\ hidden' = FALSE
    /\ timer' = TRUE /\ intervals' = intervals + 1
    /\ refreshAll
    /\ UNCHANGED <<caps, smartTabs, activeTab, live>>

(* Faulty: a refresh, but no new interval. *)
ShowOnlyRefreshes ==
    /\ hidden
    /\ hidden' = FALSE
    /\ refreshAll
    /\ UNCHANGED <<timer, intervals, caps, smartTabs, activeTab, live>>

Show ==
    /\ hidden
    /\ hidden' = FALSE
    /\ timer' = TRUE
    /\ IF timer THEN UNCHANGED <<intervals, refreshing, awaiting, want, got, latest>>
       ELSE intervals' = intervals + 1 /\ refreshAll
    /\ UNCHANGED <<caps, smartTabs, activeTab, live>>

switchTab(t) ==
    /\ ~hidden /\ t \in VisibleTabs
    /\ activeTab' = t
    /\ UNCHANGED <<hidden, timer, intervals, refreshing, awaiting, want, got,
                   latest, caps, smartTabs, live>>

-----------------------------------------------------------------------------
(* Faulty: a tab that disappears stays selected. *)
applyCapsKeepsTab(zfs, arc) ==
    /\ caps' = [caps EXCEPT !.zfs = zfs, !.arc = arc]
    /\ activeTab' = activeTab

(* The Pools and ARC tabs follow the capabilities of the host; from one that *)
(* disappears the page goes to the system tab. *)
applyCaps(zfs, arc) ==
    /\ caps' = [caps EXCEPT !.zfs = zfs, !.arc = arc]
    /\ activeTab' = IF \/ ~zfs /\ activeTab = "pools"
                       \/ ~arc /\ activeTab = "arc" THEN "system" ELSE activeTab

(* Faulty: the capabilities of the previous round decide. *)
WantedBefore == {e \in {"zpool", "arc"} : IF e = "zpool" THEN caps.zfs ELSE caps.arc}

Wanted == {e \in {"zpool", "arc"} : IF e = "zpool" THEN caps'.zfs ELSE caps'.arc}

(* What getJSON can come back with: data, data that renderSys cannot show and *)
(* throws on, a body that is no JSON, or an error. *)
SysAnswers == {"data", "unrendered", "nojson", "error"}

(* The answer to sysinfo, then refreshAll up to Promise.all.  After an error *)
(* the capabilities stay; a body that is no JSON counts as having none; data *)
(* that is not shown has set them all the same. *)
fetchSysInfo(answer, zfs, arc) ==
    /\ awaiting = {"sysinfo"}
    /\ CASE answer \in {"data", "unrendered"} -> applyCaps(zfs, arc)
         [] answer = "nojson" -> applyCaps(FALSE, FALSE)
         [] OTHER -> UNCHANGED <<caps, activeTab>>
    /\ latest' = [latest EXCEPT !["sysinfo"] = IF answer = "data" THEN "new" ELSE "null"]
    /\ got' = IF answer = "data" THEN {"sysinfo"} ELSE {}
    /\ want' = Wanted
    /\ awaiting' = want' \cup {"smart"}
    /\ UNCHANGED <<hidden, timer, intervals, refreshing, smartTabs, live>>

AllAnswered(results) == {"sysinfo", "smart"} \cup want \subseteq results

(* The answer of endpoint e, and with the last one the rest of refreshAll. *)
Answer(e, ok) ==
    /\ refreshing /\ e \in awaiting
    /\ awaiting' = awaiting \ {e}
    /\ got' = IF ok THEN got \cup {e} ELSE got
    /\ latest' = [latest EXCEPT ![e] = IF ok THEN "new" ELSE "null"]
    /\ IF awaiting' = {} THEN live' = AllAnswered(got') /\ refreshing' = FALSE
       ELSE UNCHANGED <<live, refreshing>>
    /\ UNCHANGED <<hidden, timer, intervals, want>>

(* fetchPools and fetchARC. *)
fetchPools(ok) == Answer("zpool", ok) /\ UNCHANGED <<caps, smartTabs, activeTab>>
fetchARC(ok) == Answer("arc", ok) /\ UNCHANGED <<caps, smartTabs, activeTab>>

(* No drive tab is left, and none stays selected. *)
clearSmartTabs ==
    /\ smartTabs' = {}
    /\ activeTab' = IF activeTab \in Drives THEN "system" ELSE activeTab

(* A report lists drives; without smartctl, without drives and after an      *)
(* error all drive tabs go.  A drive that is no longer listed loses its tab, *)
(* selected or not. *)
fetchSmart(ok, available, devices) ==
    /\ Answer("smart", ok)
    /\ caps' = [caps EXCEPT !.smart = ok /\ available /\ devices # {}]
    /\ IF caps'.smart THEN smartTabs' = devices /\ UNCHANGED activeTab ELSE clearSmartTabs

-----------------------------------------------------------------------------
(* The script of the page has run: refreshAll is under way and the interval  *)
(* set, whether the page was loaded in the foreground or not. *)
Init ==
    /\ hidden \in BOOLEAN
    /\ timer = TRUE /\ intervals = 1
    /\ refreshing = TRUE /\ awaiting = {"sysinfo"}
    /\ want = {} /\ got = {}
    /\ latest = [e \in Endpoints |-> "null"]
    /\ caps = [zfs |-> TRUE, arc |-> TRUE, smart |-> FALSE]
    /\ smartTabs = {} /\ activeTab = "system" /\ live = TRUE

Answers ==
    \/ \E a \in SysAnswers, zfs, arc \in BOOLEAN : fetchSysInfo(a, zfs, arc)
    \/ \E ok \in BOOLEAN : fetchPools(ok) \/ fetchARC(ok)
    \/ \E ok, av \in BOOLEAN, D \in SUBSET Drives : fetchSmart(ok, av, D)

Next ==
    \/ Tick \/ Click \/ Hide \/ Show
    \/ \E t \in {"system", "pools", "arc"} \cup Drives : switchTab(t)
    \/ Answers

Spec == Init /\ [][Next]_vars

(* The interval keeps firing, and every request is answered or aborted       *)
(* (AbortSignal.timeout in getJSON, in a browser that has it); nobody has to *)
(* click, hide or show. *)
FairSpec == Spec /\ WF_vars(Tick) /\ WF_vars(Answers)

-----------------------------------------------------------------------------
(* The endpoints the page shows anything of. *)
Enabled == {"sysinfo", "smart"} \cup {e \in {"zpool", "arc"} : IF e = "zpool" THEN caps.zfs ELSE caps.arc}

(* "The nav pill flips to a red offline state if any enabled endpoint        *)
(* fails": between refreshes the pill says live exactly if every enabled     *)
(* endpoint, by the capabilities of this round, shows data of this round,    *)
(* and none of them shows data of an earlier round (refreshAll and the four  *)
(* fetch functions). *)
PillTellsTheTruth ==
    ~refreshing =>
        /\ live <=> \A e \in Enabled : latest[e] # "null"
        /\ \A e \in Enabled : latest[e] # "old"

(* The Pools or the ARC tab is never selected while it is hidden, nor a      *)
(* drive's once all drive tabs are gone.  What remains is a drive that is no *)
(* longer listed while others are: its tab stays selected without a pane     *)
(* (applyCaps, clearSmartTabs, fetchSmart). *)
CapTabsNeverDead ==
    activeTab \notin VisibleTabs => activeTab \in Drives /\ smartTabs # {}

(* Intervals do not accumulate over any sequence of visibility changes: a    *)
(* visible page has exactly one, and the variable timer knows of every one   *)
(* that runs (the visibilitychange handler). *)
OneInterval ==
    /\ intervals = (IF timer THEN 1 ELSE 0)
    /\ ~hidden => timer

(* Refreshes never overlap: a request goes out only while no other of its    *)
(* endpoint is awaited, and sysinfo decides before the others are asked      *)
(* (refreshAll's refreshing flag). *)
RoundsDoNotOverlap ==
    [][ /\ \A e \in awaiting' \ awaiting :
             IF e = "sysinfo" THEN awaiting = {} ELSE awaiting = {"sysinfo"}
        /\ (refreshing /\ "sysinfo" \in awaiting') => "sysinfo" \in awaiting ]_vars

(* Once its interval is cleared, a hidden page begins no refresh             *)
(* (visibilitychange). *)
PauseHolds ==
    [][ hidden /\ ~timer /\ hidden' => (refreshing' => refreshing) ]_vars

(* A page that stays visible refreshes again and again, whatever the server  *)
(* answers or fails to answer (setInterval, getJSON's deadline, the finally  *)
(* of refreshAll). *)
VisibleKeepsRefreshing ==
    <>[](~hidden) => []<>refreshing /\ []<>(~refreshing)

(* "A hidden tab pauses polling": no refresh begins while the page is        *)
(* hidden.  The script sets its interval without looking at document.hidden, *)
(* so a page loaded in a background tab polls on (the last lines of the      *)
(* script). *)
HiddenTabPausesPolling ==
    [][ hidden /\ hidden' => (refreshing' => refreshing) ]_vars
=============================================================================
