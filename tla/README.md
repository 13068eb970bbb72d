# zdash in TLA+

zdash is a ZFS dashboard server whose promise is to cost nothing while nobody
looks at it: it parks itself (or exits) when the last HTTP connection is gone,
wakes up on the next one, and refreshes its data in the background only for as
long as a session lasts. This directory models the program from the accept hook
to the page that polls it, checks the models with TLC on small instances, and
proves their safety properties, and all but three of their progress properties
up to one hypothesis about ENABLED, with TLAPS for instances of any size (two of
the latter for the four endpoints the program has).

## The system

| component | state | operations | interacts with |
|---|---|---|---|
| idle gate (`idle.go`) | connection counter, live-connection map, sleeping flag, grace timer, session cap | ConnState hooks, `wake`, `scheduleSleep`, `trySleep`, `enterSleep`, `endSession`, `ExitOnIdle` | net/http calls the hooks; timers call `trySleep` and `endSession`; calls the refresher through `wakeFn`/`sleepFn` |
| refresher (`refresher.go`) | cache entries, in-flight table, active flag, generation, stop channel | `setActive`, `loop`, `refreshAll`, `get`, `wait` | gate (`setActive`), handlers (`get`), producers |
| wiring (`init` in `idle.go`, `main.go`, `api.go`) | none of its own | boot order, callbacks, routes | gate, refresher, net/http |
| listener (`listener*.go`) | adopted sockets | `Listen`, `systemdListener`, `adoptListener` | systemd, `main` |
| producers (`refresher.go`/`api.go` zpool, `smart.go`, `arc.go`, `sysinfo.go`) | none | run a subprocess or read /proc, parse, render JSON | refresher |
| dashboard page (`embed/index.html`) | last data, capabilities, tabs, interval | polling, pausing while hidden, tab switches | the API |

What is hard here is concurrency. The counter is lock-free while everything
else in the gate is under `g.mu`; `trySleep` holds `g.mu` across a slow
`FreeOSMemory`; a stopped timer's callback may already be on its way;
`endSession` works in two critical sections with a map that lags the counter;
fetches and background loops outlive the session that started them; a slow
producer holds up a round for everybody and swallows ticks; the page's handlers
interleave at every await. Beside that there are the edges of parsing what a
kernel reports: missing, repeated and unparsable rows, zeros and unsigned
arithmetic. The tests of the repository drive these paths one at a time.
`PROJECT.json` lists each such place under `hazards`, with the properties that
would catch it.

What makes each component correct:

* gate: nobody is parked underneath (`NoServingAsleep`), an idle process always
  parks (`IdleAwakeWillPark`, `IdleParks`), a forced end misses nobody
  (`CapReachesEveryConn`, `VictimsLeave`), the wake-up gets through a park in
  progress (`AcceptedIsServed`), an exit, which can lose a
  connection, loses at most one and none that is served (`ExitLosesAtMostOne`);
* refresher: one fetch per endpoint (`SingleFlight`), a cache of this session
  only (`CacheOfThisSession`), answers that never go back in time
  (`MonotonicReads`), loops that stop (`OneLiveLoop`, `EndedLoopsReturn`), waiters
  that are released (`WaitersReleased`), sessions that get warm
  (`SessionGetsWarm`);
* timing: entries of a lasting session do not grow old (`StaleBounded`), polls do
  not wait (`WaitBounded`), one run per interval whoever asks
  (`OneRunPerInterval`);
* listener and lives: nobody queued starves across exits (`QueuedIsServed`),
  whoever started the service is served (`ActivatorServedFirst`), idle means gone
  (`IdleExits`);
* SMART sweep: bounded in time (`SweepBounded`, `SweepEnds`), one device's trouble
  stays its own (`CutOnlyAtBudget`), a complete report in scan order
  (`ReportInScanOrder`), failing drives are seen (`FailingDriveSurfaces`);
* host readers: fields are what the rows of their source say, whatever stands
  around them (`FieldsAsRead`, `FirstLocalAddress`), differences of unsigned
  numbers do not wrap (`UsedWithinTotal`), the uptime text means the uptime
  (`UptimeReadsBack`);
* page: the pill does not lie (`PillTellsTheTruth`), no hidden Pools or
  ARC tab stays selected, nor a drive's after the last drive has gone
  (`CapTabsNeverDead`), intervals and refreshes do not pile up (`OneInterval`,
  `RoundsDoNotOverlap`), it pauses (`PauseHolds`) and does not stall
  (`VisibleKeepsRefreshing`);
* together: a client never meets an ended session
  (`NoClientSeesSessionEnded`), a parked process caches nothing
  (`ParkedCachesNothing`), whoever is served is refreshed (`ServedIsRefreshed`),
  and the whole implements `ZeroCost`.

## Modules

* `IdleGate` - the gate. `hook[c]` says where connection `c` is in its two
  ConnState hooks; `grace[t]` and `cap[s]` are runtime timers together with
  their callbacks, `timer` and `sess` the handles the gate keeps. One action is
  one access to the atomic counter or one critical section of `g.mu`. Only
  `trySleep`'s critical section is split (`TrySleep`, `Park`, `Scavenge`,
  `Decide`, `Exit`), because the counter moves underneath it and the first half
  of `sleepFn` meets the refresher; while it runs, `Unlocked` is false and
  nobody else gets `g.mu`. `Stop` on a timer that has fired has no effect: the
  callback is still to come.
* `Refresher` - the cache. A fetch is an element of `calls`, numbered in the
  order of starts; a response body is the number of its fetch. `req[g]` is a
  caller of `get`: a handler, or the worker `<<l, k>>` that loop `l` started for
  key `k`. `get` is one critical section with four outcomes (`GetFresh`,
  `GetJoin`, `GetRefused`, `GetFetch`); the fetch goroutine is `Store`,
  `Unlink`, `CloseDone`. A TTL is the event `Expire`. `served` is a history
  variable for `MonotonicReads`.
* `ZDash` - both instantiated and wired as in `init()`: `Wake` and
  `SetActive(TRUE)` are one step (both under `g.mu`, nothing in between is
  visible), `Park` is `SetActive(FALSE)`, requests arrive on open connections
  and a connection closes after its handler returned.
* `ZeroCost` - the abstract promise: awake only for clients, asleep nothing is
  cached and no fetch starts, sleep and exit only without clients. `ZDash`
  implements it under the mapping: `mode` is gone, awake or asleep by `proc`
  and `active`; clients are the connections past their wake-up; `cached` the
  keys with an entry; `fetches` the number of calls.
* `Activation` - the lives of the process. It instantiates the gate and adds what
  is around it: systemd (`Start`), the kernel's accept queue (`Connect`,
  `backlog`), the listener's decision (`Listen`, in the environment `env` of the
  deployment) and what an exit does to sockets (`Exit`). A `.socket` unit keeps the
  queue across lives; a socket of the process's own dies with it. A passed socket
  that does not listen is adopted all the same, as `net.FileListener` does not ask;
  then `Serve` fails at its first accept and `main` ends (`ServeFails`). The
  refresher plays no part here.
* `SmartSweep` - `produceSmart`. `probe[i]` is the goroutine of slot `i`, `left`
  what its smartctl left behind: whether the command failed, and no output,
  garbage or one of three kinds of JSON. `now` is a clock that restarts with each
  sweep; it does not advance past the deadline of a running smartctl.
* `RefreshTiming` - the refresher against a clock, within one session: `Second`
  lets time pass while nothing of the Go program is due, ages entries and fetches
  and drives the ticker, whose channel holds one tick. A round (`BeginRound`,
  `EndRound`) waits for the fetches of all stale keys, as `wg.Wait` does. `warm`
  and `since` are history variables. What `Refresher` has and this module does not
  is the order of steps that take no time, and the end of a session.
* `HostInfo` - `sysinfo.go` and `arc.go`. A behaviour is one section: a source is
  unreadable, or is read at one moment and scanned row by row, one action per
  parser, until the section ends. The steps between two sources that share
  fields (route and FIB, cpuinfo and cpufreq) are actions too.
* `Dashboard` - the page's script: one event loop, one action per handler up to
  its next await. `latest` says whether what an endpoint shows is of this round
  or of an earlier one.
* `IdleGateProofs`, `RefresherProofs`, `ZDashProofs`, `ActivationProofs`,
  `SmartSweepProofs`, `RefreshTimingProofs`, `HostInfoProofs`, `DashboardProofs` -
  the theorems.
* `MCIdleGate`, `MCRefresher`, `MCZDash`, `MCActivation`, `MCSmartSweep`,
  `MCRefreshTiming`, `MCHostInfo`, `MCDashboard` - symmetry sets, deployments,
  durations and rows for TLC.

Operators whose comment begins with "Faulty" are variants with a plausible bug;
substituted for the definition that follows them they must make a property
fail, which shows that the property is about the code.

From outside the repository, modelled as `idle.go` and `refresher.go` use them:
net/http runs the StateNew hook in its one accept goroutine and starts a
connection's serving goroutine only afterwards; StateClosed comes from that
goroutine once its handler has returned; `time.AfterFunc` runs its function in
a goroutine of its own; systemd starts a service for a queued connection and
again after a failure (`Restart=on-failure`, no start limit, as in
`systemd-socket.nix`); `exec.CommandContext` kills a process at its deadline and
starts none after it; `smartctl --json` writes JSON with a non-zero exit status
for a failing drive and for a device it cannot open; a browser runs the page's
handlers one at a time and keeps an interval until it is cleared.

## Runs

| run | what it checks |
|---|---|
| `gate` | the gate's invariants and progress; 2 connections, 2 grace and 2 cap timers, with and without `EXIT_ON_IDLE`, with fairness |
| `gate_uncapped` | that a served connection is always under a session cap, as comments of `idle.go` say and the code does not keep |
| `gate_exit` | that the process never exits on top of a live connection, as comments and a test of `idle.go` say and the code does not keep |
| `refresher` | the cache's invariants and progress; a handler, the loops of 2 sessions with their workers, an endpoint and a key without a producer, a session end, expiry, with fairness |
| `zdash` | gate and refresher together and the refinement of `ZeroCost`; 2 connections, with and without `EXIT_ON_IDLE` |
| `zdash_late_fetch` | a sentence of the README that the code does not keep |
| `activation` | the lives of the process under systemd; 2 clients, the deployment of `systemd-socket.nix` and 16 in which something keeps it from adopting a listening socket, with fairness |
| `smart_sweep` | the sweep's invariants and progress; up to 2 devices (a scan may list a name twice), with fairness |
| `timing` | ages, waits and fetch rate; the zpool endpoint (lifetime 6 s, budget 5 s) beside the SMART endpoint (60 s, 30 s), tick 5 s: the code's own seconds |
| `hostinfo` | the parsers against their reference definitions; 13 sources, every text of up to 5 rows of the relevant kinds |
| `dashboard` | the page's invariants, action properties and progress; 2 drives, with fairness |
| `dashboard_hidden` | a sentence of the README that the page does not keep |

Type invariants are in no run: they are theorems of the proof modules.

Bounds. Two connections are what every race in the gate needs (one closing, one
arriving), and the proofs carry the invariants to any number. Two timers of a
kind give a stale callback and a current one. The refresher runs have one
endpoint: endpoints share nothing but `r.mu` and the generation, and the proofs
hold for any number of them; a handler and the loops' workers are callers of
`get` alike, so one handler already shares fetches with the others. A goroutine
that finds no free timer or loop of the pool waits, as if it were scheduled late.
`MaxGen` bounds the sessions that end (in `ZDash` the connections accepted after
that many) and `MaxFetch` the fetches after which nothing expires any more; both
are guards of steps the environment drives, never of `get`. `CHECK_DEADLOCK
FALSE` stands where the process really stops: after an exit, when the bound on
sessions is used up, and at the end of a section of `HostInfo`. `Activation` needs
no bound on lives: a new life resets the gate. `smartTimeout` and
`perDeviceTimeout` are 5 and 2, the code's 30 s and 12 s in units of 6 s, so a scan
may leave the probes their full budget, less, or nothing. `timing` needs no bound
on time: every clock of the model is reset or stops at its limit. In `hostinfo`
five rows (fewer where a source has one value) are enough for a key to be
missing, repeated, unparsable and surrounded by foreign rows; `Word`, 2^64 in the
code, is 2^20, so that a product of 1024 and a small number wraps. The `dashboard`
run's two drives are what a vanished drive among remaining ones needs.

Fairness. `FairSpec` of the gate assumes that goroutines run, armed timers fire,
and a connection whose socket was closed reports StateClosed. Weak fairness is
enough for steps that wait for `g.mu`: the only long holder is a park, and while
a connection is counted no new park can begin. Nothing is assumed about clients.
In every module `Fairness` is a conjunction of named parts, one per goroutine or
timer (`GraceFairness(t)`, `GetFairness(g)`, `FetchFairness(i)`, ...), which the
proofs cite one by one.
`FairSpec` of the refresher assumes that goroutines run, the ticker ticks and
each producer returns. For zpool and SMART, which run subprocesses, their own
timeouts guarantee it; the readers of /proc, /sys and /etc look at their context
only before they read, so there it is the kernel that must answer. `FairSpec` of
`SmartSweep` shows it for the SMART producer: it assumes that time passes and
goroutines run, and of a smartctl only that the kill at its deadline ends it (a
process that even SIGKILL does not end is outside the model). `FairSpec` of
`Activation` adds to the gate's that systemd starts the service and Serve accepts.
`FairSpec` of `Dashboard` assumes that a set interval keeps firing and that every
request is answered or aborted, which `AbortSignal.timeout(35000)` in `getJSON`
guarantees in a browser that has it (`index.html:868` falls back to no deadline
at all, and there the assumption is about the network); the user need not do
anything.

The violation runs of the gate use `PromptSpec`, in which timers fire only while
no hook is under way, so that a counterexample needs no more than a callback
goroutine that is scheduled a moment late, not a timer of minutes that expires
within microseconds.

### Where the code and its documentation disagree

1. `endSession` returns early on an empty map without arming a new cap, and the
   map lags the counter. In the trace of `gate_uncapped` a connection is open and
   its cap has fired; a second one is accepted, finds the counter above zero and
   skips `wake()`; the first closes and leaves the map; the callback then finds the
   map empty, since the second is counted but not yet registered. The second is
   served without a cap until the counter next drops to zero, which `idle.go:280`,
   `idle.go:167` and `README.md:179` exclude (`ServedStaysCapped`). There is one
   other way into such a state: `trySleep` stops the cap before it looks at the
   counter (`idle.go:215`), so a grace callback that gets `g.mu` just after a
   reconnect's `wake()` disarms the cap and stays awake. `UncappedOnlyByRaces`
   says that there is no third.
2. The exit is check-then-act against a lock-free counter. In the trace of
   `gate_exit` a connection is accepted and counted after `trySleep`'s second load
   and waits in `wake()` for `g.mu` when the process exits, which `idle.go:225`,
   `idle.go:137` and `idle_test.go:196` exclude (`NeverExitsOnLive`).
   `ExitLosesAtMostOne` is what does hold.
3. The in-flight table survives a session, so the next one's clients can be
   served a fetch of the previous one (`zdash_late_fetch`, against
   `README.md:177`). `CacheOfThisSession` is what does hold.
4. The page sets its interval without looking at `document.hidden`, so one that
   is loaded in a background tab polls until it has been shown and hidden once
   (`dashboard_hidden`, against `README.md:197`). `PauseHolds` is what does hold.

Smaller observations, without a run of their own:

* A smartctl that could not open its device still writes JSON, so its probe
  counts as successful and the drive as not passed (`smart.go:286`, against
  `smart.go:43` and `README.md:350`). `FailingDriveSurfaces` holds.
* `PollFetch` of `RefreshTiming` fires: `refresher.go:12` calls the background loop
  the only fetcher, but an entry expires up to a period before the loop looks.
* `arc.go:67` speaks of a stalled file system; the context is looked at before the
  read only.
* `parseOSRelease` stores an empty value over an earlier one, although its comment
  (`sysinfo.go:291`) says that empty values are skipped; `FieldsAsRead` leaves open
  what an empty last row does. `MemAvailable: 0` is taken for a missing row, and an IPv4 address has no prefix length although its
  field's comment speaks of CIDR form (`sysinfo.go`).
* A single drive that vanishes while others remain leaves its tab selected and
  without a pane; `CapTabsNeverDead` is stated for what does hold.

## Proofs

The theorems hold for every finite set of connections and any sets of timers,
handlers, keys, loops, devices and drives, any durations, texts of any length and
any deployments. The assumptions are the named ASSUMEs of the modules: nil differs
from every handle, handlers differ from workers, producers are keys, some key
exists, budgets are positive, a lifetime exceeds the tick (`TTLExceedsTick`, which
`refresher.go` states and its constants satisfy), rows are keys with a number or
`Bad`. Each module's `TypeOK` is a theorem (`TypeCorrect`), that of `ZDash` through
its two components.

`IdleGateProofs` shows `Spec => []TypeOK`, `[]NoServingAsleep`,
`[]IdleAwakeWillPark`, `[]CapReachesEveryConn` and `[]ExitLosesAtMostOne` from
one inductive invariant. None of them is inductive alone. The argument for
`NoServingAsleep`: the counter is the number of connections between their hooks
(`CountOK`, by the cardinality theorems); a hook that finds the counter at one
is alone (`WakeAlone`, `AcceptSerial`); so a connection that skips `wake()`
found somebody served, hence the process awake (`ServedAwake`), and `trySleep`,
which reads zero under `g.mu`, parks over nobody. `HandleLive` (the gate's
handle is a timer whose callback is still to come) carries `IdleAwakeWillPark`;
`VictimsOK` carries `CapReachesEveryConn`; `LockedAsleep` carries the exit.
One more theorem says how far the code is from what `gate_uncapped` refutes.
`Raced` is a `trySleep` that runs while a connection is served, or an `endSession`
that finds no live connection while one is served. `UncappedOnlyByRaces`: in
behaviours without such a step `ServedStaysCapped` holds. What carries it is that
`g.sess` is a timer whose callback is still to come (`CapHandleLive`), that a
connection which skips `wake()` does so beside one that is served, hence capped
(`AwakeIsCapped`), and that a forced end which finds somebody arms the next cap
before it is over.

`RefresherProofs` shows `[]TypeOK`, `[]SingleFlight`, `[]CacheOfThisSession`,
`[]EndedSessionCachesNothing`, `[]MonotonicReads` and `[]OneLiveLoop`. The
invariant orders fetches by generation (`GensOrdered`), says that the in-flight
call is the newest of its key (`InflightOK`) and that an entry is the newest
finished one (`EntriesOK`); then neither the cache nor a joined fetch can be
behind what was served (`NeverBehind`), which is `MonotonicReads`.
`FetchesBounded` counts: past `MaxFetch` nothing expires, so a session fetches an
endpoint at most once more (`OncePerSession`, `LateKept`), and no behaviour starts
more than `MaxFetch + Cardinality(Producers) * (MaxGen + 1)` fetches, for any finite
set of producers. These are the numbers `Fairness` ranges over, so no fetch
goroutine is left out of it.

`SmartSweepProofs` shows `[]TypeOK`, `[]SweepBounded`, `[]ReportInScanOrder`,
`[]FailingDriveSurfaces` and the action property `CutOnlyAtBudget`, for any
number of devices and any positive budgets. The invariant says that the deadline
of a running probe is still ahead, within the sweep's budget and no earlier than
its own budget allows (`DeadlinesOK`), that the slot of an ended probe holds its
result (`ResultsOK`), and that a report is rendered after the last of them
(`WaitOK`).

`ZDashProofs` reuses the invariants of the gate and of the refresher as they are:
the two proof modules are instantiated, the steps of the process are shown to be
steps of the instances, and their `NextIInv` lemmas then keep both invariants. What
neither component can know is the wiring (`Wired`): awake means active
(`AwakeActive`), a parked, parking or exiting process is inactive
(`DroppedInactive`), a handler that runs has its connection open
(`HandlersOpen`), and before the first session there are no fetches (`Unstarted`).
From this follow `[]NoClientSeesSessionEnded`, `[]ServedIsRefreshed`,
`[]ParkedCachesNothing`, `[]BootParkNotTerminal`, and the refinement
`Spec => ImplementsZeroCost`. Its interesting cases are an accepted connection
that skips `wake()` (the counter was not zero, so somebody is open, so a session is
active), a late `Store` (its generation is the current one only in an active
session) and a park after the boot park (a stuttering step). `LateOnlyByJoining`
is the counterpart of `zdash_late_fetch`: in behaviours in which a session starts
with no fetch in flight (`PromptStart`) nobody is served a fetch of an earlier one.

`ActivationProofs` reuses the gate's invariant for each life: a new life begins in
the gate's initial state. `ActivatorNext` says that until the activator is
registered nobody else has been accepted and no grace timer was ever armed, hence
nothing could exit; from it follows `[]ActivatorServedFirst`.

`RefreshTimingProofs` shows `[]StaleBounded`, `[]WaitBounded` and the action
property `OneRunPerInterval`. `SinceOK` bounds the time since the last round began by the
slowest producer or the period; `AgeOK` says that an entry not being fetched was
still fresh when that round began. That a lifetime exceeds the tick is used
where the next fetch of an entry begins (`AgeAtLaunch`): in a session that is not
warm yet, no more than the first round and a period lie behind it.

`HostInfoProofs` shows `[]FieldsAsRead`, `[]FirstLocalAddress` and
`[]UsedWithinTotal`, each by an invariant about the rows before `pos`
(`LastRowStored`, that the last row is stored even where it is empty, is the
inductive one behind the weaker `LastRowWins`; `PositionInv` says that a file of one
value is done after one row), and `[]UptimeReadsBack`: `formatUptime` writes at most four units, so their recursive
sum is unfolded, and the rest is division with remainder.
`DashboardProofs` shows `[]PillTellsTheTruth`, `[]CapTabsNeverDead`, `[]OneInterval`
and the action properties `RoundsDoNotOverlap` and `PauseHolds`; the invariant
`RoundSettles` follows the answers of a round. `ForegroundPagePauses` is the
counterpart of `dashboard_hidden`: a page that was not loaded in a hidden tab keeps
the sentence of the README.

### Progress

Liveness is proved up to one hypothesis. The prover has no rules for ENABLED, so
each theorem has a second premise next to `FairSpec`, a state predicate that must
always hold: `GateEnabled`, `RefresherEnabled`, `PageEnabled`, `LivesEnabled`. They
say of the actions under weak fairness that one whose guard is true can take a
step. The actions concerned assign every variable, to a value that exists when the
guard holds, and change one of them, so this is how a guard is meant; that it is
so in every reachable state of the `gate`, `refresher`, `dashboard` and `activation`
instances has been checked with TLC, which does evaluate ENABLED. Everything else
is proved: which steps lead from one stage to the next, that no other step leaves
the stage, and which invariant makes the guard true. The theorems:

* `IdleProcessParks` (`IdleParks`): awake and idle, a close is on its way to
  `scheduleSleep` or a timer is pending (`IdleAwakeWillPark`); while nobody connects
  neither is dropped (`IdleAwakeStep`). Some grace timer must exist.
* `WakerIsServed` (`AcceptedIsServed`): the mutex has one holder (`LockAlone`), a park
  that holds it runs to its end while somebody waits in `wake()`, and no new one
  starts (`WakingStep`). `wake()` must be able to arm a cap: the theorem assumes
  infinitely many cap timers, as `time.AfterFunc` allocates them, and shows that
  only finitely many are ever in use (`BusyCaps`).
* `EveryWaiterReleased` (`WaitersReleased`): for any finite set of producers; the
  fetch waited for stores, unlinks and closes, and is one of `FetchIds` by
  `FetchesBounded`.
* `EndedLoopReturns` (`EndedLoopsReturn`): a round ends because each worker does, and
  then the loop sees its closed channel.
* `EverySessionGetsWarm` (`SessionGetsWarm`): while an endpoint is cold its fetch in
  flight is of this session, and will be stored, or of an earlier one, and makes
  room, or there is none, and the next round starts one (`ColdStep`, `FreeStep`).
  What is cached stays until the session ends, so all endpoints are warm at once.
* `VisiblePageRefreshes` (`VisibleKeepsRefreshing`): round, answers, interval, round.
* `IdleProcessExits` (`IdleExits`): a socket-activated process without a connection is
  awake (as for the gate), in a park, or still waiting for its activator
  (`AsleepOnItsWay`), or its `Serve` fails (`DeafFails`); a park that does not exit
  leaves somebody in `wake()` behind. The
  theorem is for services set up like `systemd-socket.nix` (`ExitingService`): only a
  `.socket` unit passes a descriptor on, and `EXIT_ON_IDLE` is set.

`EndedLoopReturns` and `EverySessionGetsWarm` are for the four endpoints of
`refresher.go:35-38`, or fewer, under any names: going through a round's workers one
by one for any finite set takes an induction over temporal formulas, which the
prover does not have. For the same reason three properties are only model-checked:
`VictimsLeave` (`endSession` closes its victims one by one), `SweepEnds` (device after
device) and `QueuedIsServed` (the queue in front of a client, life after life).
Every other property of a passing run is a theorem.

## Not modelled

* The zpool producer: one subprocess and a JSON re-encoding; the refresher's
  modules keep that it ends within its timeout.
* Fields that are copied as they are: host name and fqdn, `$SHELL` and `$TERM`, the
  two `os.Stat` probes, and what `parseSmartAll` reads of a drive other
  than its health. The 33 ARC counters are represented by two.
* The page's rendering, charts, themes and history; logging and JSON layout.
* `flush`, a test seam; GOGC parsing; packaging; errors of `Serve` other than that
  of a passed socket that does not listen.
* A crash: systemd would restart the service with an empty queue, and it would
  stay parked, not gone, until its next connection.
* Time outside `SmartSweep` and `RefreshTiming`: nothing is said about how long a
  session or a grace lasts, nor about a client that the server's write timeout
  (30 s, as long as a SMART sweep may take) cuts off.

What the modules leave to add: the page and the process composed (the page's
polls as the clients of `ZDash`), and the timing of sessions and graces.
