-------------------------- MODULE SmartSweepProofs --------------------------
(***************************************************************************)
(* Safety of the SMART sweep, for any number of devices and any budgets.   *)
(***************************************************************************)
EXTENDS SmartSweep, SequenceTheorems, TLAPS

(* Every probe under way has a deadline that is still ahead, within the      *)
(* sweep's budget, and no earlier than its own budget allows. *)
DeadlinesOK ==
    /\ now <= smartTimeout
    /\ scanned <= now
    /\ \A i \in Slots : probe[i].st = "running" =>
          /\ now <= probe[i].deadline
          /\ probe[i].deadline <= smartTimeout
          /\ \/ probe[i].deadline >= scanned + perDeviceTimeout
             \/ probe[i].deadline = smartTimeout

(* The slot of a probe that has ended holds that probe's result. *)
ResultsOK ==
    \A i \in Slots : probe[i].st = "done" => devices[i] = Report(scan[i], probe[i].left)

(* A report with devices is rendered after the last probe has ended. *)
WaitOK ==
    /\ pc = "scan" => scan = <<>>
    /\ pc = "done" /\ available => \A i \in Slots : probe[i].st = "done"

IInv == TypeOK /\ DeadlinesOK /\ ResultsOK /\ WaitOK

-----------------------------------------------------------------------------
(* A report made by Report is a well-formed SmartDeviceReport that carries   *)
(* the device's name, and either its details or an error. *)
LEMMA ReportIsOfItsDevice ==
    ASSUME NEW n \in Names, NEW o \in ProbeOutputs
    PROVE  /\ Report(n, o) \in DeviceReports
           /\ Report(n, o).name = n
           /\ Report(n, o).ok => Report(n, o).details.of = n
           /\ ~Report(n, o).ok => Report(n, o).error # "none"
           /\ o.out = "failing" =>
                 Report(n, o).ok /\ ~Report(n, o).details.passed
    BY DEF Report, Details, DeviceReports, FetchError, JSONKinds, NoDetails, ProbeOutputs

(* A new slot, and the goroutine that will fill it, are well formed. *)
LEMMA FreshSlots == Queued \in Probes /\ EmptySlot \in DeviceReports
    BY DEF Queued, Probes, NotStarted, ProbeOutputs, JSONKinds, EmptySlot,
           DeviceReports, NoDetails

(* A list of devices as a scan reports it is a sequence of names. *)
LEMMA ScansAreSeqs ==
    ASSUME MaxDevices \in Nat, NEW found \in Scans
    PROVE  found \in Seq(Names) /\ Len(found) \in Nat /\ DOMAIN found = 1..Len(found)
    BY DEF Scans

(* Before the scan there are no slots. *)
LEMMA NoSlots ==
    ASSUME NEW S
    PROVE  <<>> \in Seq(S) /\ Len(<<>>) = 0 /\ <<>> \in [1..0 -> S] /\ DOMAIN <<>> = {}
    <1>1. <<>> \in Seq(S) /\ Len(<<>>) = 0
        OBVIOUS
    <1>2. <<>> \in [1..Len(<<>>) -> S]
        BY <1>1, LenProperties
    <1>3. 1..0 = {}
        OBVIOUS
    <1> QED BY <1>1, <1>2, <1>3

-----------------------------------------------------------------------------
(* The invariant holds when a sweep begins. *)
LEMMA InitIInv == Init => IInv
    <1> SUFFICES ASSUME Init PROVE IInv
        OBVIOUS
    <1>1. now = 0 /\ pc = "scan" /\ scan = <<>> /\ probe = <<>> /\ devices = <<>>
          /\ available = FALSE /\ scanned = 0
        BY DEF Init, Begin
    <1>2. Slots = {}
        BY <1>1 DEF Slots
    <1>3. TypeOK
        BY <1>1, NoSlots DEF TypeOK
    <1> QED
        BY <1>1, <1>2, <1>3, BudgetsPositive DEF IInv, DeadlinesOK, ResultsOK, WaitOK

(* Every step of a sweep preserves the invariant. *)
LEMMA NextIInv == IInv /\ [Next]_vars => IInv'
    <1> SUFFICES ASSUME IInv, [Next]_vars PROVE IInv'
        OBVIOUS
    <1> USE BudgetsPositive, MaxDevicesNat
    <1>0. TypeOK /\ DeadlinesOK /\ ResultsOK /\ WaitOK
        BY DEF IInv
    <1>1. ASSUME NEW o \in ScanOutputs, ScanFails(o) PROVE IInv'
        <2>1. TypeOK'
            BY <1>0, <1>1 DEF ScanFails, TypeOK
        <2>2. DeadlinesOK'
            BY <1>0, <1>1 DEF ScanFails, TypeOK, DeadlinesOK, WaitOK, Slots
        <2>3. ResultsOK' /\ WaitOK'
            BY <1>0, <1>1 DEF ScanFails, ResultsOK, WaitOK, Slots
        <2> QED BY <2>1, <2>2, <2>3 DEF IInv
    <1>2. ASSUME NEW o \in ScanOutputs, NEW found \in Scans, ScanSucceeds(o, found)
          PROVE  IInv'
        <2>1. TypeOK'
            BY <1>0, <1>2, ScansAreSeqs, FreshSlots DEF ScanSucceeds, TypeOK
        <2>2. \A i \in Slots' : probe'[i].st = "queued"
            BY <1>2 DEF ScanSucceeds, Slots, Queued
        <2>3. DeadlinesOK'
            <3>1. now' <= smartTimeout /\ scanned' <= now'
                BY <1>0, <1>2 DEF ScanSucceeds, TypeOK, DeadlinesOK
            <3>2. \A i \in Slots' : probe'[i].st # "running"
                BY <2>2
            <3> QED BY <3>1, <3>2 DEF DeadlinesOK
        <2>4. ResultsOK' /\ WaitOK'
            BY <1>2, <2>2 DEF ScanSucceeds, ResultsOK, WaitOK
        <2> QED BY <2>1, <2>3, <2>4 DEF IInv
    <1>3. ASSUME NEW i \in Slots, StartProbe(i) PROVE IInv'
        <2>1. /\ ProbeDeadline \in Nat
              /\ now <= ProbeDeadline /\ ProbeDeadline <= smartTimeout
              /\ ProbeDeadline >= scanned + perDeviceTimeout \/ ProbeDeadline = smartTimeout
            BY <1>0 DEF TypeOK, DeadlinesOK, ProbeDeadline, Min2
        <2>2. Slots' = Slots
            BY <1>3 DEF StartProbe, Slots
        <2>3. TypeOK'
            BY <1>0, <1>3, <2>1 DEF StartProbe, TypeOK, Slots, Probes
        <2>4. DeadlinesOK'
            BY <1>0, <1>3, <2>1, <2>2 DEF StartProbe, TypeOK, DeadlinesOK, Slots, Probes
        <2>5. ResultsOK'
            BY <1>0, <1>3, <2>2 DEF StartProbe, TypeOK, ResultsOK, Slots, Probes
        <2>6. WaitOK'
            BY <1>0, <1>3 DEF StartProbe, WaitOK
        <2> QED BY <2>3, <2>4, <2>5, <2>6 DEF IInv
    <1>4. ASSUME NEW i \in Slots, NEW o \in ProbeOutputs, EndProbe(i, o) PROVE IInv'
        <2>1. scan[i] \in Names /\ Report(scan[i], o) \in DeviceReports
            BY <1>0, ReportIsOfItsDevice DEF TypeOK, Slots
        <2>2. Slots' = Slots
            BY <1>4 DEF EndProbe, Slots
        <2>3. [probe[i] EXCEPT !.st = "done", !.left = o,
                               !.cut = (now >= probe[i].deadline)] \in Probes
            <3>1. (now >= probe[i].deadline) \in BOOLEAN
                OBVIOUS
            <3>2. \A b \in BOOLEAN :
                     [probe[i] EXCEPT !.st = "done", !.left = o, !.cut = b] \in Probes
                BY <1>0 DEF TypeOK, Slots, Probes
            <3> QED BY <3>1, <3>2
        <2>4. TypeOK'
            <3>1. probe' = [probe EXCEPT ![i] =
                              [probe[i] EXCEPT !.st = "done", !.left = o,
                                               !.cut = (now >= probe[i].deadline)]]
                BY <1>0, <1>4 DEF EndProbe, TypeOK, Slots
            <3>2. probe' \in [1..Len(scan) -> Probes]
                BY <1>0, <2>3, <3>1 DEF TypeOK
            <3>3. devices' \in [1..Len(scan) -> DeviceReports]
                BY <1>0, <1>4, <2>1 DEF EndProbe, TypeOK
            <3> QED BY <1>0, <1>4, <3>2, <3>3 DEF EndProbe, TypeOK
        <2>5. DeadlinesOK'
            BY <1>0, <1>4, <2>2 DEF EndProbe, TypeOK, DeadlinesOK, Slots, Probes
        <2>6. ResultsOK'
            BY <1>0, <1>4, <2>2 DEF EndProbe, TypeOK, ResultsOK, Slots, Probes
        <2>7. WaitOK'
            BY <1>0, <1>4 DEF EndProbe, WaitOK
        <2> QED BY <2>4, <2>5, <2>6, <2>7 DEF IInv
    <1>5. ASSUME Finish PROVE IInv'
        BY <1>0, <1>5 DEF Finish, IInv, TypeOK, DeadlinesOK, ResultsOK, WaitOK, Slots
    <1>6. ASSUME NextSweep PROVE IInv'
        <2>1. /\ now' = 0 /\ pc' = "scan" /\ scan' = <<>> /\ probe' = <<>>
              /\ devices' = <<>> /\ available' = FALSE /\ scanned' = 0
            BY <1>6 DEF NextSweep, Begin
        <2>2. Slots' = {}
            BY <2>1 DEF Slots
        <2>3. TypeOK'
            BY <2>1, NoSlots DEF TypeOK
        <2> QED BY <2>1, <2>2, <2>3 DEF IInv, DeadlinesOK, ResultsOK, WaitOK
    <1>7. ASSUME Tick PROVE IInv'
        <2>1. Slots' = Slots
            BY <1>7 DEF Tick, Slots
        <2>2. TypeOK'
            BY <1>0, <1>7 DEF Tick, TypeOK
        <2>3. DeadlinesOK'
            <3>1. now \in Nat /\ scanned \in Nat /\ now' = now + 1 /\ scanned' = scanned /\ probe' = probe
                BY <1>0, <1>7 DEF Tick, TypeOK
            <3>2. CASE pc = "scan" /\ now < smartTimeout
                <4>1. Slots = {}
                    BY <1>0, <3>2 DEF WaitOK, Slots
                <4> QED BY <1>0, <2>1, <3>1, <3>2, <4>1 DEF DeadlinesOK
            <3>3. CASE pc = "probe"
                <4>1. PICK i \in Slots : probe[i].st = "running"
                    BY <1>7, <3>3 DEF Tick
                <4>2. \A j \in Slots : /\ probe[j].st = "running" => now < probe[j].deadline
                                       /\ probe[j].deadline \in Nat
                    BY <1>0, <1>7, <3>3 DEF Tick, TypeOK, Slots, Probes
                <4> QED BY <1>0, <2>1, <3>1, <4>1, <4>2 DEF DeadlinesOK
            <3> QED BY <1>7, <3>2, <3>3 DEF Tick
        <2>4. ResultsOK' /\ WaitOK'
            BY <1>0, <1>7, <2>1 DEF Tick, ResultsOK, WaitOK
        <2> QED BY <2>2, <2>3, <2>4 DEF IInv
    <1>8. CASE UNCHANGED vars
        BY <1>0, <1>8 DEF vars, IInv, TypeOK, DeadlinesOK, ResultsOK, WaitOK, Slots
    <1> QED
        BY <1>1, <1>2, <1>3, <1>4, <1>5, <1>6, <1>7, <1>8
        DEF Next, ScanStep, ProbeStep

(* The invariant holds throughout (produceSmart). *)
LEMMA AlwaysIInv == Spec => []IInv
    BY InitIInv, NextIInv, PTL DEF Spec

-----------------------------------------------------------------------------
(* The state of a sweep is always well formed (produceSmart). *)
THEOREM TypeCorrect == Spec => []TypeOK
    <1>1. IInv => TypeOK
        BY DEF IInv
    <1> QED BY <1>1, AlwaysIInv, PTL

(* A sweep never outlives smartTimeout, whatever the scan took of it and     *)
(* however many devices hang (produceSmart). *)
THEOREM SweepStaysInBudget == Spec => []SweepBounded
    <1>1. IInv => SweepBounded
        BY DEF IInv, DeadlinesOK, SweepBounded
    <1> QED BY <1>1, AlwaysIInv, PTL

(* The rendered report has every slot written, in scan order, with its own   *)
(* device's details (produceSmart). *)
THEOREM ReportIsInScanOrder == Spec => []ReportInScanOrder
    <1>1. IInv => ReportInScanOrder
        <2> SUFFICES ASSUME IInv, pc = "done", available, NEW i \in Slots
                     PROVE  /\ devices[i].name = scan[i]
                            /\ IF devices[i].ok THEN devices[i].details.of = scan[i]
                                                ELSE devices[i].error # "none"
            BY DEF ReportInScanOrder
        <2>1. scan[i] \in Names /\ probe[i].left \in ProbeOutputs
            BY DEF IInv, TypeOK, Slots, Probes
        <2>2. devices[i] = Report(scan[i], probe[i].left)
            BY DEF IInv, WaitOK, ResultsOK
        <2> QED BY <2>1, <2>2, ReportIsOfItsDevice
    <1> QED BY <1>1, AlwaysIInv, PTL

(* A drive smartctl calls failing is shown as failing, not as unreachable    *)
(* (fetchSmartDevice). *)
THEOREM FailingDrivesSurface == Spec => []FailingDriveSurfaces
    <1>1. IInv => FailingDriveSurfaces
        <2> SUFFICES ASSUME IInv, NEW i \in Slots, probe[i].st = "done",
                            probe[i].left.out = "failing"
                     PROVE  devices[i].ok /\ ~devices[i].details.passed
            BY DEF FailingDriveSurfaces
        <2>1. scan[i] \in Names /\ probe[i].left \in ProbeOutputs
            BY DEF IInv, TypeOK, Slots, Probes
        <2>2. devices[i] = Report(scan[i], probe[i].left)
            BY DEF IInv, ResultsOK
        <2> QED BY <2>1, <2>2, ReportIsOfItsDevice
    <1> QED BY <1>1, AlwaysIInv, PTL

(* No device is cut off before its own budget or the sweep's is used up      *)
(* (produceSmart). *)
THEOREM BudgetsAreTheirOwn == Spec => CutOnlyAtBudget
    <1> DEFINE Cut ==
            \A i \in Slots \cap DOMAIN probe' :
                (~probe[i].cut /\ probe'[i].cut)
                => now >= scanned + perDeviceTimeout \/ now >= smartTimeout
    <1>1. IInv /\ [Next]_vars => [Cut]_vars
        <2> SUFFICES ASSUME IInv, Next, NEW i \in Slots, i \in DOMAIN probe',
                            ~probe[i].cut, probe'[i].cut
                     PROVE  now >= scanned + perDeviceTimeout \/ now >= smartTimeout
            OBVIOUS
        <2> USE BudgetsPositive
        <2>0. TypeOK /\ DeadlinesOK /\ WaitOK
            BY DEF IInv
        <2>1. pc # "scan"
            BY <2>0 DEF WaitOK, Slots
        <2>2. ASSUME NEW j \in Slots, StartProbe(j) PROVE FALSE
            BY <2>0, <2>2 DEF StartProbe, TypeOK, Slots, Probes
        <2>3. ASSUME NEW j \in Slots, NEW o \in ProbeOutputs, EndProbe(j, o)
              PROVE  now >= scanned + perDeviceTimeout \/ now >= smartTimeout
            <3>1. i = j /\ now >= probe[i].deadline /\ probe[i].st = "running"
                BY <2>0, <2>3 DEF EndProbe, TypeOK, Slots, Probes
            <3>2. probe[i].deadline \in Nat
                BY <2>0 DEF TypeOK, Slots, Probes
            <3> QED BY <2>0, <3>1, <3>2 DEF DeadlinesOK, TypeOK
        <2>4. ~Finish /\ ~Tick
            BY DEF Finish, Tick
        <2>5. ~NextSweep
            BY NoSlots DEF NextSweep, Begin
        <2> QED
            BY <2>1, <2>2, <2>3, <2>4, <2>5
            DEF Next, ScanStep, ProbeStep, ScanFails, ScanSucceeds
    <1> QED BY <1>1, AlwaysIInv, PTL DEF Spec, CutOnlyAtBudget
=============================================================================
