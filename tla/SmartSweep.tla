----------------------------- MODULE SmartSweep -----------------------------
(***************************************************************************)
(* produceSmart of smart.go: one `smartctl --scan`, then one               *)
(* `smartctl --xall` per discovered device in parallel, within one budget  *)
(* for the sweep and one per device.  The refresher never runs two sweeps  *)
(* at once (SingleFlight in Refresher), so sweeps follow one another.      *)
(*                                                                         *)
(* Time is a clock that restarts with each sweep.  It advances only while  *)
(* a smartctl runs within its deadline: what the Go program does itself,   *)
(* and the kill at a deadline, take no time on the scale of the budgets.   *)
(***************************************************************************)
EXTENDS Integers, Sequences

CONSTANTS
    Names,              \* device names smartctl knows
    MaxDevices,         \* bound: devices a scan reports
    smartTimeout,       \* budget of the sweep
    perDeviceTimeout    \* budget of one probe

ASSUME MaxDevicesNat == MaxDevices \in Nat
ASSUME BudgetsPositive == smartTimeout \in Nat \ {0} /\ perDeviceTimeout \in Nat \ {0}

VARIABLES
    now,        \* time since the sweep began
    pc,         \* "scan", "probe" (until wg.Wait returns) or "done"
    scan,       \* scan.Devices: the name in each slot, in scan order
    probe,      \* the goroutine of each slot
    available,  \* report.SmartctlAvailable
    devices,    \* report.Devices
    scanned     \* history: when the scan ended

vars == <<now, pc, scan, probe, available, devices, scanned>>

-----------------------------------------------------------------------------
(* What a smartctl leaves behind: whether cmd.Output returned an error (exit *)
(* status, kill, not startable) and what was on its stdout. JSON comes in    *)
(* three kinds: the drive's health is good, the drive is failing, or the     *)
(* device could not be opened and there is no health status at all; the last *)
(* two come with a non-zero exit status. *)
JSONKinds == {"passed", "failing", "unopened"}
ProbeOutputs ==
    {o \in [err : BOOLEAN, out : JSONKinds \cup {"empty", "garbage"}] :
        o.out \in {"failing", "unopened"} => o.err}
ScanOutputs == [err : BOOLEAN, out : {"json", "empty", "garbage"}]
NotStarted == [err |-> TRUE, out |-> "empty"]

(* A process may end by itself before its deadline; at the deadline it is    *)
(* killed, whatever it has written by then; after it none is started. *)
Possible(outputs, deadline) ==
    {o \in outputs : now < deadline \/ o.err}

Min2(a, b) == IF a <= b THEN a ELSE b

(* Faulty: the probe's context is not derived from the sweep's. *)
ProbeDeadlineDetached == now + perDeviceTimeout

(* Faulty: the probe's budget is counted from the start of the sweep. *)
ProbeDeadlineFromStart == Min2(perDeviceTimeout, smartTimeout)

(* context.WithTimeout(ctx, perDeviceTimeout) under the sweep's own timeout. *)
ProbeDeadline == Min2(now + perDeviceTimeout, smartTimeout)

(* Faulty: a non-zero exit status is an error, as it is for zpool. *)
FetchErrorStrict(o, json) ==
    IF o.err THEN "exec" ELSE IF o.out \in json THEN "none" ELSE "parse"

(* fetchSmartScan and fetchSmartDevice: a failed command is an error only    *)
(* without output; the output must parse. *)
FetchError(o, json) ==
    IF o.err /\ o.out = "empty" THEN "exec"
    ELSE IF o.out \in json THEN "none" ELSE "parse"

NoDetails == [of |-> "none", passed |-> FALSE]

(* The zero value make() leaves in a slot. *)
EmptySlot == [name |-> "none", ok |-> FALSE, error |-> "none", details |-> NoDetails]

(* parseSmartAll, of which the health status is kept: without a              *)
(* smart_status in the JSON it is the zero value, not passed. *)
Details(n, o) == [of |-> n, passed |-> o.out = "passed"]

(* SmartDeviceReport for a probe of device n that left o behind. *)
Report(n, o) ==
    LET err == FetchError(o, JSONKinds)
    IN  [name |-> n, ok |-> err = "none", error |-> err,
         details |-> IF err = "none" THEN Details(n, o) ELSE NoDetails]

DeviceReports ==
    [name : Names \cup {"none"}, ok : BOOLEAN, error : {"none", "exec", "parse"},
     details : [of : Names \cup {"none"}, passed : BOOLEAN]]

(* deadline is 0 until the goroutine has made its context; left is what its  *)
(* smartctl left behind and cut whether it ended at the deadline. *)
Probes == [st : {"queued", "running", "done"}, deadline : Nat,
           left : ProbeOutputs, cut : BOOLEAN]
Queued == [st |-> "queued", deadline |-> 0, left |-> NotStarted, cut |-> FALSE]

TypeOK ==
    /\ now \in Nat
    /\ pc \in {"scan", "probe", "done"}
    /\ scan \in Seq(Names)
    /\ probe \in [1..Len(scan) -> Probes]
    /\ available \in BOOLEAN
    /\ devices \in [1..Len(scan) -> DeviceReports]
    /\ scanned \in Nat

-----------------------------------------------------------------------------
Begin ==
    [now |-> 0, pc |-> "scan", scan |-> <<>>, probe |-> <<>>,
     available |-> FALSE, devices |-> <<>>, scanned |-> 0]

Slots == 1..Len(scan)

(* Scan failure: reported as a missing capability, without devices. *)
ScanFails(o) ==
    /\ pc = "scan"
    /\ o \in Possible(ScanOutputs, smartTimeout)
    /\ FetchError(o, {"json"}) # "none"
    /\ pc' = "done"
    /\ available' = FALSE
    /\ scanned' = now
    /\ UNCHANGED <<now, scan, probe, devices>>

(* One slot and one goroutine per device of the scan. *)
ScanSucceeds(o, found) ==
    /\ pc = "scan"
    /\ o \in Possible(ScanOutputs, smartTimeout)
    /\ FetchError(o, {"json"}) = "none"
    /\ pc' = "probe"
    /\ available' = TRUE
    /\ scan' = found
    /\ probe' = [i \in 1..Len(found) |-> Queued]
    /\ devices' = [i \in 1..Len(found) |-> EmptySlot]
    /\ scanned' = now
    /\ UNCHANGED now

StartProbe(i) ==
    /\ pc = "probe"
    /\ probe[i].st = "queued"
    /\ probe' = [probe EXCEPT ![i].st = "running", ![i].deadline = ProbeDeadline]
    /\ UNCHANGED <<now, pc, scan, available, devices, scanned>>

(* Faulty: exec.Command, which ignores the probe's context. *)
EndProbeNotKilled(i, o) ==
    /\ pc = "probe"
    /\ probe[i].st = "running"
    /\ now < probe[i].deadline
    /\ probe' = [probe EXCEPT ![i].st = "done", ![i].left = o]
    /\ devices' = [devices EXCEPT ![i] = Report(scan[i], o)]
    /\ UNCHANGED <<now, pc, scan, available, scanned>>

(* Faulty: results land in the order in which the probes end. *)
EndProbeAppends(i, o) ==
    /\ pc = "probe"
    /\ probe[i].st = "running"
    /\ o \in Possible(ProbeOutputs, probe[i].deadline)
    /\ probe' = [probe EXCEPT ![i].st = "done", ![i].left = o,
                              ![i].cut = now >= probe[i].deadline]
    /\ LET k == CHOOSE j \in Slots : /\ devices[j] = EmptySlot
                                     /\ \A m \in 1..(j - 1) : devices[m] # EmptySlot
       IN  devices' = [devices EXCEPT ![k] = Report(scan[i], o)]
    /\ UNCHANGED <<now, pc, scan, available, scanned>>

(* fetchSmartDevice returns and the result lands in the device's own slot;   *)
(* when the scan has used up the sweep's budget the probe finds its context  *)
(* expired and starts no process. *)
EndProbe(i, o) ==
    /\ pc = "probe"
    /\ probe[i].st = "running"
    /\ o \in Possible(ProbeOutputs, probe[i].deadline)
    /\ scanned >= smartTimeout => o = NotStarted
    /\ probe' = [probe EXCEPT ![i].st = "done", ![i].left = o,
                              ![i].cut = now >= probe[i].deadline]
    /\ devices' = [devices EXCEPT ![i] = Report(scan[i], o)]
    /\ UNCHANGED <<now, pc, scan, available, scanned>>

(* wg.Wait, the rendering and the return. *)
Finish ==
    /\ pc = "probe"
    /\ \A i \in Slots : probe[i].st = "done"
    /\ pc' = "done"
    /\ UNCHANGED <<now, scan, probe, available, devices, scanned>>

(* The refresher calls the producer again once smartTTL has passed. *)
NextSweep ==
    /\ pc = "done"
    /\ now' = Begin.now /\ pc' = Begin.pc /\ scan' = Begin.scan
    /\ probe' = Begin.probe /\ available' = Begin.available
    /\ devices' = Begin.devices /\ scanned' = Begin.scanned

Tick ==
    /\ \/ pc = "scan" /\ now < smartTimeout
       \/ /\ pc = "probe"
          /\ \E i \in Slots : probe[i].st = "running"
          /\ \A i \in Slots : /\ probe[i].st # "queued"
                              /\ probe[i].st = "running" => now < probe[i].deadline
    /\ now' = now + 1
    /\ UNCHANGED <<pc, scan, probe, available, devices, scanned>>

-----------------------------------------------------------------------------
Init ==
    /\ now = Begin.now /\ pc = Begin.pc /\ scan = Begin.scan
    /\ probe = Begin.probe /\ available = Begin.available
    /\ devices = Begin.devices /\ scanned = Begin.scanned

Scans == UNION {[1..n -> Names] : n \in 0..MaxDevices}

ScanStep ==
    \E o \in ScanOutputs : ScanFails(o) \/ \E found \in Scans : ScanSucceeds(o, found)

ProbeStep(i) == StartProbe(i) \/ \E o \in ProbeOutputs : EndProbe(i, o)

Next ==
    \/ ScanStep
    \/ \E i \in Slots : ProbeStep(i)
    \/ Finish
    \/ NextSweep
    \/ Tick

Spec == Init /\ [][Next]_vars

(* Goroutines run and time passes; no smartctl is assumed to end by itself,  *)
(* only the kill at its deadline is. *)
Fairness ==
    /\ WF_vars(Tick)
    /\ WF_vars(Finish)
    /\ WF_vars(pc = "scan" /\ now >= smartTimeout /\ ScanStep)
    /\ \A i \in 1..MaxDevices :
          /\ WF_vars(i \in Slots /\ StartProbe(i))
          /\ WF_vars(/\ i \in Slots
                     /\ now >= probe[i].deadline
                     /\ \E o \in ProbeOutputs : EndProbe(i, o))

FairSpec == Spec /\ Fairness

-----------------------------------------------------------------------------
(* The sweep stays within smartTimeout however much of it the scan has used  *)
(* up and however many devices hang (produceSmart). *)
SweepBounded == now <= smartTimeout

(* A device is cut off only when its own budget, counted from the end of the *)
(* scan, or the sweep's is used up: a slow scan, or another device that      *)
(* hangs, is not charged to it (produceSmart). *)
CutOnlyAtBudget ==
    [][\A i \in Slots \cap DOMAIN probe' :
          (~probe[i].cut /\ probe'[i].cut)
          => now >= scanned + perDeviceTimeout \/ now >= smartTimeout]_vars

(* The report that is rendered has the devices in scan order, every slot     *)
(* written and with its own device's details, although the probes write      *)
(* without a lock and end in any order (produceSmart). *)
ReportInScanOrder ==
    (pc = "done" /\ available) =>
        \A i \in Slots :
            /\ devices[i].name = scan[i]
            /\ IF devices[i].ok THEN devices[i].details.of = scan[i]
                                ELSE devices[i].error # "none"

(* A drive that smartctl reports as failing is shown as failing, never as    *)
(* one that could not be probed, although smartctl exits with an error then  *)
(* and may even have been killed after writing (fetchSmartDevice). *)
FailingDriveSurfaces ==
    \A i \in Slots :
        (probe[i].st = "done" /\ probe[i].left.out = "failing") =>
            devices[i].ok /\ ~devices[i].details.passed

(* Every sweep returns, with devices that never answer and without help from *)
(* any of them, so the refresher's waiters are released (produceSmart). *)
SweepEnds == (pc = "scan") ~> (pc = "done")
=============================================================================
