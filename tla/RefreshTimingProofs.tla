------------------------ MODULE RefreshTimingProofs ------------------------
(***************************************************************************)
(* The timing of the refresher, for any endpoints, lifetimes and budgets.  *)
(***************************************************************************)
EXTENDS RefreshTiming, TLAPS

(* The longest time between the beginnings of two rounds once warm. *)
Lag == Longer(Slowest, refreshTick)

(* A fetch in flight is of an expired key and within its budget. *)
FlightOK == \A k \in flying : Stale(k) /\ run[k] <= budget[k]

(* A key whose entry is still fresh was fetched no later than the entry was  *)
(* stored. *)
GapOK ==
    \A k \in Keys \ flying :
        gap[k] >= ttls[k] \/ (k \in cached /\ gap[k] >= age[k])

(* Whoever waits waits for a fetch that is at least as old as the wait. *)
PollOK ==
    /\ \A k \in polled : k \in flying /\ wait[k] <= run[k]
    /\ \A k \in Keys \ polled : wait[k] = 0

(* A round lasts no longer than the fetches it waits for. *)
RoundOK ==
    /\ waits \subseteq flying
    /\ loop = "round" => since <= Slowest /\ \A k \in waits : since <= run[k]
    /\ loop # "round" => waits = {}

(* How long ago the last round began.  The first one is followed by a whole  *)
(* period; after that a round is followed by the next at once if a tick came *)
(* while it lasted, and one period after its own tick otherwise. *)
SinceOK ==
    /\ phase < refreshTick
    /\ loop = "start" => since = 0 /\ ~warm
    /\ loop # "select" /\ ~warm => ~pending
    /\ loop = "select" /\ ~warm =>
          since <= Slowest + (IF pending THEN refreshTick ELSE phase)
    /\ warm /\ ~pending => since <= phase
    /\ warm /\ pending /\ loop = "select" => since <= Lag

(* An entry that is not being fetched again was fresh when the last round    *)
(* began, or has been stored since. *)
AgeOK ==
    /\ ~warm => \A k \in cached : age[k] <= since
    /\ \A k \in cached \ flying : age[k] < ttls[k] + since
    /\ \A k \in cached \cap flying : age[k] < ttls[k] + Lag + run[k]

IInv == TypeOK /\ FlightOK /\ GapOK /\ PollOK /\ RoundOK /\ SinceOK /\ AgeOK

-----------------------------------------------------------------------------
(* The period and the slowest producer are both within the lag. *)
LEMMA LagBounds == Lag \in Nat /\ Slowest <= Lag /\ refreshTick <= Lag
    BY DurationsNat DEF Lag, Longer

(* An entry is not older than its lifetime and the lag when its next fetch   *)
(* begins, whoever begins it: this is where a lifetime must exceed the tick. *)
LEMMA AgeAtLaunch ==
    ASSUME IInv, NEW k \in cached \ flying
    PROVE  age[k] < ttls[k] + Lag
    <1> USE DurationsNat, TTLExceedsTick, LagBounds
    <1>0. /\ k \in Keys /\ age[k] \in Nat /\ ttls[k] \in Nat /\ since \in Nat /\ phase \in Nat
          /\ ttls[k] > refreshTick /\ refreshTick \in Nat /\ Slowest \in Nat
        BY DEF IInv, TypeOK
    <1>1. age[k] < ttls[k] + since /\ (~warm => age[k] <= since)
        BY DEF IInv, AgeOK
    <1>2. CASE loop = "round"
        BY <1>0, <1>1, <1>2 DEF IInv, RoundOK
    <1>3. CASE loop = "start"
        BY <1>0, <1>1, <1>3 DEF IInv, SinceOK
    <1>4. CASE loop = "select" /\ warm
        BY <1>0, <1>1, <1>4 DEF IInv, SinceOK
    <1>5. CASE loop = "select" /\ ~warm
        <2>1. since <= Slowest + refreshTick
            BY <1>0, <1>5 DEF IInv, SinceOK
        <2> QED BY <1>0, <1>1, <1>5, <2>1
    <1> QED BY <1>2, <1>3, <1>4, <1>5 DEF IInv, TypeOK

(* A key is fetched again only when its lifetime has passed since it was     *)
(* last fetched. *)
LEMMA GapAtLaunch ==
    ASSUME IInv, NEW k \in Keys \ flying, Stale(k)
    PROVE  gap[k] >= ttls[k]
    BY DurationsNat DEF IInv, TypeOK, GapOK, Stale

(* Starting the fetches of S keeps what the invariant says of fetches. *)
LEMMA LaunchOK ==
    ASSUME IInv, NEW S \in SUBSET (Keys \ flying), \A k \in S : Stale(k), Launch(S),
           UNCHANGED <<cached, age>>
    PROVE  /\ flying' \subseteq Keys /\ run' \in [Keys -> Nat] /\ gap' \in [Keys -> Nat]
           /\ FlightOK' /\ GapOK'
           /\ \A k \in flying : run'[k] = run[k]
           /\ \A k \in cached \cap flying' : age[k] < ttls[k] + Lag + run'[k]
    <1> USE DurationsNat, LagBounds
    <1>1. flying' \subseteq Keys /\ run' \in [Keys -> Nat] /\ gap' \in [Keys -> Nat]
        BY DEF Launch, IInv, TypeOK
    <1>2. \A k \in flying : run'[k] = run[k]
        BY DEF Launch, IInv, TypeOK
    <1>3. \A k \in S : run'[k] = 0
        BY DEF Launch, IInv, TypeOK
    <1>4. FlightOK'
        BY <1>2, <1>3 DEF Launch, IInv, TypeOK, FlightOK, Stale
    <1>5. GapOK'
        BY DEF Launch, IInv, TypeOK, GapOK
    <1>6. \A k \in cached \cap flying' : age[k] < ttls[k] + Lag + run'[k]
        <2> TAKE k \in cached \cap flying'
        <2>1. CASE k \in flying
            BY <1>2, <2>1 DEF IInv, AgeOK
        <2>2. CASE k \in S
            <3>1. age[k] < ttls[k] + Lag
                BY <2>2, AgeAtLaunch
            <3>2. age[k] \in Nat /\ ttls[k] \in Nat
                BY DEF IInv, TypeOK
            <3> QED BY <1>3, <2>2, <3>1, <3>2
        <2> QED BY <2>1, <2>2 DEF Launch
    <1> QED BY <1>1, <1>2, <1>4, <1>5, <1>6

-----------------------------------------------------------------------------
(* The invariant holds when the session begins. *)
LEMMA InitIInv == Init => IInv
    <1> SUFFICES ASSUME Init PROVE IInv
        OBVIOUS
    <1>1. Zero \in [Keys -> Nat] /\ \A k \in Keys : Zero[k] = 0
        BY DEF Zero
    <1>2. gap \in [Keys -> Nat] /\ \A k \in Keys : gap[k] = ttls[k] /\ ttls[k] \in Nat
        BY DurationsNat DEF Init
    <1>3. TypeOK
        BY <1>1, <1>2 DEF Init, TypeOK
    <1>4. FlightOK /\ GapOK /\ PollOK /\ RoundOK
        BY <1>1, <1>2 DEF Init, FlightOK, GapOK, PollOK, RoundOK
    <1>5. SinceOK /\ AgeOK
        BY DurationsNat DEF Init, SinceOK, AgeOK
    <1> QED BY <1>3, <1>4, <1>5 DEF IInv

(* Every step preserves the invariant. *)
LEMMA NextIInv == IInv /\ [Next]_vars => IInv'
    <1> SUFFICES ASSUME IInv, [Next]_vars PROVE IInv'
        OBVIOUS
    <1> USE DurationsNat, LagBounds
    <1>0. TypeOK /\ FlightOK /\ GapOK /\ PollOK /\ RoundOK /\ SinceOK /\ AgeOK
        BY DEF IInv
    <1>1. ASSUME BeginRound PROVE IInv'
        <2> DEFINE keys == {k \in Keys : Stale(k)}
        <2>1. /\ waits' = keys /\ Launch(keys \ flying) /\ UNCHANGED <<cached, age>>
              /\ keys \ flying \in SUBSET (Keys \ flying)
              /\ \A k \in keys \ flying : Stale(k)
            BY <1>1 DEF BeginRound
        <2>2. /\ flying' \subseteq Keys /\ run' \in [Keys -> Nat] /\ gap' \in [Keys -> Nat]
              /\ FlightOK' /\ GapOK'
              /\ \A k \in flying : run'[k] = run[k]
              /\ \A k \in cached \cap flying' : age[k] < ttls[k] + Lag + run'[k]
            BY <2>1, LaunchOK
        <2>3. keys \subseteq flying' /\ flying \subseteq flying'
            BY <2>1 DEF Launch
        <2>4. TypeOK'
            BY <1>0, <1>1, <2>1, <2>2 DEF BeginRound, TypeOK
        <2>5. PollOK'
            BY <1>0, <1>1, <2>2, <2>3 DEF BeginRound, PollOK, TypeOK
        <2>6. RoundOK'
            BY <1>1, <2>1, <2>2, <2>3 DEF BeginRound, RoundOK
        <2>7. SinceOK'
            BY <1>0, <1>1 DEF BeginRound, SinceOK, TypeOK
        <2>8. \A k \in cached \ flying' : age[k] < ttls[k] + 0
            BY <1>0, <2>3 DEF TypeOK, Stale
        <2>9. ~warm' => \A k \in cached : age[k] <= 0
            BY <1>0, <1>1 DEF BeginRound, AgeOK, SinceOK, TypeOK
        <2>10. AgeOK'
            BY <1>1, <2>1, <2>2, <2>8, <2>9 DEF BeginRound, AgeOK
        <2> QED BY <2>2, <2>4, <2>5, <2>6, <2>7, <2>10 DEF IInv
    <1>2. ASSUME EndRound PROVE IInv'
        <2>1. TypeOK' /\ FlightOK' /\ GapOK' /\ PollOK' /\ AgeOK'
            BY <1>0, <1>2 DEF EndRound, TypeOK, FlightOK, Stale, GapOK, PollOK, AgeOK
        <2>2. RoundOK'
            BY <1>0, <1>2 DEF EndRound, RoundOK
        <2>3. SinceOK'
            BY <1>0, <1>2 DEF EndRound, RoundOK, SinceOK, TypeOK
        <2> QED BY <2>1, <2>2, <2>3 DEF IInv
    <1>3. ASSUME NEW k \in Keys, PollJoin(k) PROVE IInv'
        <2>1. TypeOK' /\ FlightOK' /\ GapOK' /\ RoundOK' /\ SinceOK' /\ AgeOK'
            BY <1>0, <1>3 DEF PollJoin, TypeOK, FlightOK, Stale, GapOK, RoundOK, SinceOK, AgeOK
        <2>2. PollOK'
            BY <1>0, <1>3 DEF PollJoin, PollOK, TypeOK
        <2> QED BY <2>1, <2>2 DEF IInv
    <1>4. ASSUME NEW k \in Keys, PollFetch(k) PROVE IInv'
        <2>1. /\ Launch({k}) /\ UNCHANGED <<cached, age>>
              /\ {k} \in SUBSET (Keys \ flying) /\ \A j \in {k} : Stale(j)
            BY <1>4 DEF PollFetch
        <2>2. /\ flying' \subseteq Keys /\ run' \in [Keys -> Nat] /\ gap' \in [Keys -> Nat]
              /\ FlightOK' /\ GapOK'
              /\ \A j \in flying : run'[j] = run[j]
              /\ \A j \in cached \cap flying' : age[j] < ttls[j] + Lag + run'[j]
            BY <2>1, LaunchOK
        <2>3. k \in flying' /\ flying \subseteq flying'
            BY <2>1 DEF Launch
        <2>4. TypeOK' /\ SinceOK'
            BY <1>0, <1>4, <2>2 DEF PollFetch, TypeOK, SinceOK
        <2>5. PollOK'
            <3>1. k \notin polled /\ wait[k] = 0
                BY <1>0, <1>4 DEF PollFetch, PollOK
            <3> QED BY <1>0, <1>4, <2>2, <2>3, <3>1 DEF PollFetch, PollOK, TypeOK
        <2>6. RoundOK'
            BY <1>0, <1>4, <2>2, <2>3 DEF PollFetch, RoundOK
        <2>7. AgeOK'
            BY <1>0, <1>4, <2>2, <2>3 DEF PollFetch, AgeOK
        <2> QED BY <2>2, <2>4, <2>5, <2>6, <2>7 DEF IInv
    <1>5. ASSUME NEW k \in Keys, Leave(k) PROVE IInv'
        <2>1. TypeOK' /\ FlightOK' /\ GapOK' /\ RoundOK' /\ SinceOK' /\ AgeOK'
            BY <1>0, <1>5 DEF Leave, TypeOK, FlightOK, Stale, GapOK, RoundOK, SinceOK, AgeOK
        <2>2. PollOK'
            BY <1>0, <1>5 DEF Leave, PollOK, TypeOK
        <2> QED BY <2>1, <2>2 DEF IInv
    <1>6. ASSUME NEW k \in Keys, EndFetch(k) PROVE IInv'
        <2>1. TypeOK'
            BY <1>0, <1>6 DEF EndFetch, TypeOK
        <2>2. FlightOK' /\ GapOK'
            BY <1>0, <1>6 DEF EndFetch, TypeOK, FlightOK, Stale, GapOK
        <2>3. PollOK'
            BY <1>0, <1>6 DEF EndFetch, TypeOK, PollOK
        <2>4. RoundOK' /\ SinceOK'
            BY <1>0, <1>6 DEF EndFetch, TypeOK, RoundOK, SinceOK
        <2>5. AgeOK'
            BY <1>0, <1>6 DEF EndFetch, TypeOK, AgeOK
        <2> QED BY <2>1, <2>2, <2>3, <2>4, <2>5 DEF IInv
    <1>7. ASSUME Second PROVE IInv'
        <2>1. TypeOK'
            <3>1. \A f \in [Keys -> Nat], S \in SUBSET Keys : Later(f, S) \in [Keys -> Nat]
                BY DEF Later
            <3>2. /\ age' \in [Keys -> Nat] /\ run' \in [Keys -> Nat]
                  /\ gap' \in [Keys -> Nat] /\ wait' \in [Keys -> Nat]
                BY <1>0, <1>7, <3>1 DEF Second, TypeOK
            <3>3. phase' \in Nat /\ since' \in Nat
                BY <1>0, <1>7 DEF Second, TypeOK
            <3>4. pending' \in BOOLEAN
                BY <1>0, <1>7, Zenon DEF Second, TypeOK
            <3> QED BY <1>0, <1>7, <3>2, <3>3, <3>4 DEF Second, TypeOK
        <2>2. \A j \in Keys : /\ age'[j] = IF j \in cached THEN age[j] + 1 ELSE age[j]
                              /\ run'[j] = IF j \in flying THEN run[j] + 1 ELSE run[j]
                              /\ gap'[j] = IF gap[j] < ttls[j] THEN gap[j] + 1 ELSE gap[j]
                              /\ wait'[j] = IF j \in polled THEN wait[j] + 1 ELSE wait[j]
            BY <1>0, <1>7 DEF Second, Later, TypeOK
        <2>3. FlightOK' /\ GapOK' /\ PollOK'
            <3>1. FlightOK'
                <4> SUFFICES ASSUME NEW j \in flying PROVE Stale(j)' /\ run'[j] <= budget[j]
                    BY <1>7 DEF FlightOK, Second
                <4>1. Stale(j) /\ run[j] < budget[j] /\ run'[j] = run[j] + 1
                    BY <1>0, <1>7, <2>2 DEF FlightOK, Second, TypeOK
                <4>2. run[j] \in Nat /\ budget[j] \in Nat /\ ttls[j] \in Nat
                    BY <1>0 DEF TypeOK
                <4>3. Stale(j)'
                    <5>1. j \in cached => age'[j] = age[j] + 1 /\ age[j] \in Nat
                        BY <1>0, <2>2 DEF TypeOK
                    <5> QED BY <1>7, <4>1, <4>2, <5>1 DEF Stale, Second
                <4> QED BY <4>1, <4>2, <4>3
            <3>2. GapOK'
                BY <1>0, <1>7, <2>2 DEF GapOK, Second, TypeOK
            <3>3. PollOK'
                <4>1. \A j \in polled : wait'[j] = wait[j] + 1 /\ run'[j] = run[j] + 1
                                       /\ wait[j] \in Nat /\ run[j] \in Nat
                    BY <1>0, <2>2 DEF PollOK, TypeOK
                <4>2. \A j \in Keys \ polled : wait'[j] = 0
                    BY <1>0, <2>2 DEF PollOK
                <4> QED BY <1>0, <1>7, <4>1, <4>2 DEF PollOK, Second
            <3> QED BY <3>1, <3>2, <3>3
        <2>4. RoundOK'
            <3>1. loop = "round" => \E j \in waits : TRUE
                BY <1>0, <1>7 DEF Second, Due
            <3>2. loop = "round" => since + 1 <= Slowest
                BY <1>0, <1>7, <3>1 DEF Second, TypeOK, RoundOK
            <3>3. \A j \in waits : since <= run[j] => since + 1 <= run'[j]
                BY <1>0, <2>2 DEF TypeOK, RoundOK
            <3> QED BY <1>0, <1>7, <3>2, <3>3 DEF Second, RoundOK
        <2>5. SinceOK'
            <3>1. since' = since + 1 /\ loop' = loop /\ warm' = warm /\ loop # "start"
                  /\ ~(loop = "select" /\ pending)
                  /\ since \in Nat /\ phase \in Nat /\ refreshTick \in Nat /\ Slowest \in Nat
                BY <1>0, <1>7 DEF Second, Due, TypeOK
            <3>2. CASE loop = "round" /\ ~warm
                <4>1. phase' = phase /\ pending' = pending
                    BY <1>7, <3>2 DEF Second
                <4> QED BY <1>0, <3>1, <3>2, <4>1 DEF SinceOK
            <3>3. CASE ~(loop = "round" /\ ~warm) /\ phase + 1 < refreshTick
                <4>1. phase' = phase + 1 /\ pending' = pending
                    BY <1>7, <3>3 DEF Second
                <4> QED BY <1>0, <3>1, <3>3, <4>1 DEF SinceOK
            <3>4. CASE ~(loop = "round" /\ ~warm) /\ ~(phase + 1 < refreshTick)
                <4>1. phase' = 0 /\ pending' = TRUE
                    BY <1>7, <3>4 DEF Second
                <4>2. phase + 1 = refreshTick /\ refreshTick > 0
                    BY <1>0, <3>1, <3>4 DEF SinceOK
                <4>3. loop = "select" /\ warm => since + 1 <= Lag
                    BY <1>0, <3>1, <4>2 DEF SinceOK
                <4>4. loop = "select" /\ ~warm => since + 1 <= Slowest + refreshTick
                    BY <1>0, <3>1, <4>2 DEF SinceOK
                <4>5. loop = "round" => warm
                    BY <3>4
                <4> QED BY <1>0, <3>1, <4>1, <4>2, <4>3, <4>4, <4>5 DEF SinceOK, TypeOK
            <3> QED BY <3>2, <3>3, <3>4
        <2>6. AgeOK'
            <3>1. \A j \in cached : age'[j] = age[j] + 1 /\ age[j] \in Nat /\ ttls[j] \in Nat
                                   /\ run[j] \in Nat
                BY <1>0, <2>2 DEF TypeOK
            <3>2. \A j \in flying : run'[j] = run[j] + 1
                BY <1>0, <2>2 DEF TypeOK
            <3>3. since' = since + 1 /\ since \in Nat /\ UNCHANGED <<cached, flying, warm>>
                BY <1>0, <1>7 DEF Second, TypeOK
            <3> QED BY <1>0, <3>1, <3>2, <3>3 DEF AgeOK
        <2> QED BY <2>1, <2>3, <2>4, <2>5, <2>6 DEF IInv
    <1>8. CASE UNCHANGED vars
        BY <1>0, <1>8 DEF vars, IInv, TypeOK, FlightOK, Stale, GapOK, PollOK, RoundOK,
                          SinceOK, AgeOK
    <1> QED BY <1>1, <1>2, <1>3, <1>4, <1>5, <1>6, <1>7, <1>8 DEF Next

(* The invariant, of every reachable state. *)
LEMMA AlwaysIInv == Spec => []IInv
    BY InitIInv, NextIInv, PTL DEF Spec

-----------------------------------------------------------------------------
(* The state of the clocks and of the loop is well formed (refresher). *)
THEOREM TypeCorrect == Spec => []TypeOK
    <1>1. IInv => TypeOK
        BY DEF IInv
    <1> QED BY AlwaysIInv, <1>1, PTL

(* No entry outlives its lifetime by more than the lag of the loop and its   *)
(* own fetch, whatever the producers take (loop, refreshAll). *)
THEOREM StalenessIsBounded == Spec => []StaleBounded
    <1>1. IInv => StaleBounded
        <2> SUFFICES ASSUME IInv, NEW k \in cached
                     PROVE  age[k] < ttls[k] + Longer(Slowest, refreshTick) + budget[k]
            BY DEF StaleBounded
        <2>1. /\ age[k] \in Nat /\ ttls[k] \in Nat /\ budget[k] \in Nat /\ run[k] \in Nat
              /\ Lag \in Nat
            BY DurationsNat, LagBounds DEF IInv, TypeOK
        <2>2. CASE k \in flying
            BY <2>1, <2>2 DEF IInv, AgeOK, FlightOK, Lag
        <2>3. CASE k \notin flying
            BY <2>1, <2>3, AgeAtLaunch DEF Lag
        <2> QED BY <2>2, <2>3
    <1> QED BY AlwaysIInv, <1>1, PTL

(* No client waits longer than the producer it waits for may take (wait). *)
THEOREM WaitingIsBounded == Spec => []WaitBounded
    <1>1. IInv => WaitBounded
        <2> SUFFICES ASSUME IInv, NEW k \in polled PROVE wait[k] <= budget[k]
            BY DEF WaitBounded
        <2>1. wait[k] \in Nat /\ run[k] \in Nat /\ budget[k] \in Nat
            BY DurationsNat DEF IInv, TypeOK
        <2> QED BY <2>1 DEF IInv, PollOK, FlightOK
    <1> QED BY AlwaysIInv, <1>1, PTL

(* However many clients poll, a key is fetched at most once per lifetime     *)
(* (get, refreshAll). *)
THEOREM FetchRateIsBounded == Spec => OneRunPerInterval
    <1>1. IInv /\ [Next]_vars =>
            [\A k \in Keys : (k \notin flying /\ k \in flying') => gap[k] >= ttls[k]]_vars
        <2> SUFFICES ASSUME IInv, Next, NEW k \in Keys, k \notin flying, k \in flying'
                     PROVE  gap[k] >= ttls[k]
            BY DEF vars
        <2>1. Stale(k)
            BY DEF Next, BeginRound, EndRound, PollJoin, PollFetch, Leave, EndFetch,
                   Second, Launch
        <2> QED BY <2>1, GapAtLaunch
    <1> QED BY AlwaysIInv, <1>1, PTL DEF Spec, OneRunPerInterval
=============================================================================
