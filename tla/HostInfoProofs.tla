--------------------------- MODULE HostInfoProofs ---------------------------
(***************************************************************************)
(* Proofs about HostInfo, for any rows and texts of any length.            *)
(***************************************************************************)
EXTENDS HostInfo, FiniteSetTheorems, SequenceTheorems, TLAPS

(* Before a source is read there is no text, and nothing of the section is   *)
(* filled. *)
Fresh ==
    st = "open" =>
        /\ pos = 1 /\ text = <<>>
        /\ source \notin {"fib_trie", "cpufreq"} => s = [f \in Fields |-> 0]

(* One iteration of a scan, whatever the source. *)
Step ==
    /\ st = "scan" /\ pos <= Len(text) /\ pos' = pos + 1
    /\ UNCHANGED <<source, text, failed>>
    /\ st' \in {"scan", "done"}

Scans ==
    parseMemInfo \/ parseARCStats \/ parseOSRelease \/ parseCPUInfo
    \/ parseBtime \/ parseDefaultRoute \/ parseIPv4ForIface \/ parseLoadAvg
    \/ firstNonEmpty \/ countProcesses \/ parseUptime \/ khzToMHz \/ readTrim

(* A row of the text is one its source can have. *)
LEMMA RowType ==
  ASSUME TypeOK, NEW i \in 1..Len(text)
  PROVE  /\ text[i].val \in Nat \cup {Bad}
         /\ source = "locale" => text[i].val \in Nat /\ text[i].key = "env"
  <1>1. text[i] \in RowsOf[source]
    BY DEF TypeOK
  <1>2. RowsOf[source] \subseteq [key : STRING, val : Nat \cup {Bad}]
    BY HostAssumption DEF TypeOK
  <1>3. source = "locale" => RowsOf[source] \subseteq [key : {"env"}, val : Nat]
    BY HostAssumption DEF TypeOK
  <1> QED BY <1>1, <1>2, <1>3

(* Every parser moves on by one row. *)
LEMMA ScanStep == Scans => Step
  <1> SUFFICES ASSUME Scans PROVE Step
    OBVIOUS
  <1> QED BY DEF Scans, Step, Scanning, Goes, Returns, parseMemInfo, parseARCStats,
          parseOSRelease, parseCPUInfo, parseBtime, parseDefaultRoute, parseIPv4ForIface,
          parseLoadAvg, firstNonEmpty, countProcesses, parseUptime, khzToMHz, readTrim

(* An unopened source is well typed and has set no field. *)
LEMMA InitType == Init => TypeOK /\ Fresh
  <1> SUFFICES ASSUME Init PROVE TypeOK /\ Fresh
    OBVIOUS
  <1>1. text \in Seq(RowsOf[source]) /\ Len(text) = 0
    BY DEF Init
  <1>2. source \in Sources /\ s \in [Fields -> Nat]
    BY DEF Init
  <1>3. pos \in 1..(Len(text) + 1)
    BY <1>1 DEF Init
  <1>4. TypeOK
    BY <1>1, <1>2, <1>3 DEF Init, TypeOK
  <1>5. Fresh
    BY DEF Init, Fresh
  <1> QED BY <1>4, <1>5

(* Every step of a parser keeps the types, and fields unset until it scans. *)
LEMMA NextType == TypeOK /\ Fresh /\ [Next]_vars => TypeOK' /\ Fresh'
  <1> SUFFICES ASSUME TypeOK, Fresh, [Next]_vars PROVE TypeOK' /\ Fresh'
    OBVIOUS
  <1>0. /\ source \in Sources /\ text \in Seq(RowsOf[source]) /\ pos \in 1..(Len(text) + 1)
        /\ lastIP \in Nat /\ s \in [Fields -> Nat] /\ failed \in BOOLEAN /\ Len(text) \in Nat
    BY DEF TypeOK
  <1>1. CASE Canceled
    BY <1>1 DEF Canceled, TypeOK, Fresh
  <1>2. CASE Unreadable
    <2>1. WithCores(s) \in Nat
      BY <1>0, HostAssumption DEF WithCores, Fields
    <2>2. s' \in [Fields -> Nat]
      BY <2>1, <1>0, <1>2 DEF Unreadable
    <2> QED BY <2>2, <1>2 DEF Unreadable, TypeOK, Fresh
  <1>3. ASSUME NEW t \in Texts(source), Open(t) PROVE TypeOK' /\ Fresh'
    <2>1. t \in Seq(RowsOf[source])
      <3>1. PICK n \in 0..MaxRows[source] : t \in [1..n -> RowsOf[source]]
        BY DEF Texts
      <3>2. n \in Nat
        BY <1>0, HostAssumption
      <3> QED BY <3>1, <3>2
    <2>2. text' = t /\ source' = source /\ pos' = 1 /\ Len(t) \in Nat
      BY <1>3, <2>1 DEF Open
    <2> QED BY <2>1, <2>2, <1>3, <1>0 DEF Open, TypeOK, Fresh
  <1>4. CASE Scans
    <2>1. Step
      BY <1>4, ScanStep
    <2>2. Row.val \in Nat \cup {Bad} /\ (source = "locale" => Row.val \in Nat)
      BY <2>1, <1>0, RowType DEF Step, Row
    <2>3. OrZero(Row.val) \in Nat /\ OrZero(Row.val) \div 1000 \in Nat
      BY <2>2 DEF OrZero
    <2>5. s' \in [Fields -> Nat]
      <3>0. ASSUME NEW k, NEW v \in Nat PROVE [s EXCEPT ![k] = v] \in [Fields -> Nat]
        BY <1>0
      <3>1. CASE parseMemInfo
        <4>1. Row.val # Bad => (Row.val * 1024) % Word \in Nat
          BY <2>2, HostAssumption
        <4> QED BY <3>0, <1>0, <4>1, <3>1 DEF parseMemInfo, Store, MemKeys
      <3>2. CASE parseARCStats
        BY <3>0, <1>0, <3>2, <2>2 DEF parseARCStats, Store, ARCKeys
      <3>3. CASE parseOSRelease
        BY <3>0, <1>0, <3>3, <2>2 DEF parseOSRelease, Store, OSKeys
      <3>4. CASE parseCPUInfo
        <4>1. s["processor"] + 1 \in Nat
          BY <1>0 DEF Fields
        <4> QED BY <3>0, <1>0, <4>1, <3>4, <2>2 DEF parseCPUInfo, Store, CPUKeys
      <3>5. CASE parseBtime \/ parseDefaultRoute
        BY <3>0, <1>0, <3>5, <2>2, <2>3 DEF parseBtime, parseDefaultRoute, Store
      <3>6. CASE parseIPv4ForIface
        BY <3>0, <1>0, <3>6, <1>0 DEF parseIPv4ForIface, Store
      <3>7. CASE parseLoadAvg
        BY <3>0, <1>0, <3>7, <2>3 DEF parseLoadAvg, Store
      <3>8. CASE firstNonEmpty
        BY <3>0, <1>0, <3>8, <2>2 DEF firstNonEmpty, Store, Scanning
      <3>9. CASE countProcesses
        <4>1. s["pid"] + 1 \in Nat
          BY <1>0 DEF Fields
        <4> QED BY <3>0, <1>0, <4>1, <3>9 DEF countProcesses, Store
      <3>10. CASE parseUptime \/ khzToMHz \/ readTrim
        BY <3>0, <1>0, <3>10, <2>3 DEF parseUptime, khzToMHz, readTrim, Store
      <3> QED BY <1>4, <3>1, <3>2, <3>3, <3>4, <3>5, <3>6, <3>7, <3>8, <3>9, <3>10 DEF Scans
    <2>6. lastIP' \in Nat
      BY <1>4, <1>0, <2>3 DEF Scans, parseMemInfo, parseARCStats, parseOSRelease, parseCPUInfo,
         parseBtime, parseDefaultRoute, parseIPv4ForIface, parseLoadAvg, firstNonEmpty,
         countProcesses, parseUptime, khzToMHz, readTrim
    <2> QED BY <2>1, <2>5, <2>6, <1>0 DEF Step, TypeOK, Fresh
  <1>5. CASE End
    <2>1. WithCores(s) \in Nat
      BY <1>0, HostAssumption DEF WithCores, Fields
    <2>2. MemoryUsed(s) \in Nat
      <3>1. /\ s["MemTotal"] \in Nat /\ s["MemAvailable"] \in Nat
            /\ s["MemFree"] \in Nat /\ s["Cached"] \in Nat
        BY <1>0 DEF Fields, MemKeys
      <3>2. (s["MemFree"] + s["Cached"]) % Word \in Nat
        BY <3>1, HostAssumption
      <3> QED BY <3>1, <3>2 DEF MemoryUsed, satSub
    <2>3. s' \in [Fields -> Nat]
      BY <2>1, <2>2, <1>0, <1>5 DEF End
    <2> QED BY <2>3, <1>5, <1>0 DEF End, TypeOK, Fresh
  <1>6. CASE ThenAddress \/ ThenFrequency
    <2>1. source' \in {"fib_trie", "cpufreq"} /\ st' = "open" /\ text' = <<>> /\ pos' = 1
          /\ UNCHANGED <<lastIP, s, failed>>
      BY <1>6 DEF ThenAddress, ThenFrequency
    <2>2. source' \in Sources
      BY <2>1, HostAssumption
    <2>3. text' \in Seq(RowsOf[source']) /\ Len(text') = 0
      BY <2>1
    <2> QED BY <2>1, <2>2, <2>3, <1>0 DEF TypeOK, Fresh
  <1>7. CASE UNCHANGED vars
    BY <1>7, <1>0 DEF vars, TypeOK, Fresh
  <1> QED BY <1>1, <1>2, <1>3, <1>4, <1>5, <1>6, <1>7 DEF Next, Scans

(* A step of the scan adds its row to those that were read. *)
LEMMA RowsGrow ==
  ASSUME TypeOK, Step, NEW k
  PROVE  /\ RowsFor(k)' = IF pos > Header /\ Row.key = k /\ Row.val # Bad
                          THEN RowsFor(k) \cup {pos} ELSE RowsFor(k)
         /\ \A i \in RowsFor(k) : i \in Nat /\ i < pos /\ i \in 1..Len(text)
         /\ Header' = Header /\ (\A i : Read(i)' = Read(i))
  <1>1. pos \in Nat /\ pos >= 1 /\ pos <= Len(text) /\ Len(text) \in Nat
    BY DEF TypeOK, Step
  <1>2. pos' = pos + 1 /\ text' = text /\ source' = source
    BY DEF Step
  <1>3. 1..(pos' - 1) = 1..(pos - 1) \cup {pos} /\ pos \notin 1..(pos - 1)
    BY <1>1, <1>2
  <1>4. Header' = Header /\ (\A i : Read(i)' = Read(i))
    BY <1>2 DEF Header, Read
  <1>5. \A i \in RowsFor(k) : i \in Nat /\ i < pos /\ i \in 1..Len(text)
    BY <1>1 DEF RowsFor
  <1>6. RowsFor(k)' = {i \in 1..(pos' - 1) : i > Header /\ text[i].key = k /\ text[i].val # Bad}
    BY <1>2, <1>4 DEF RowsFor
  <1> QED BY <1>3, <1>4, <1>5, <1>6 DEF RowsFor, Row

-----------------------------------------------------------------------------
(* The last row of key k is stored, empty or not: what the code does, and    *)
(* more than LastRowWins asks of os-release. *)
LastOf(k) ==
    \/ RowsFor(k) = {} /\ s[k] = 0
    \/ \E i \in RowsFor(k) : s[k] = Read(i) /\ \A j \in RowsFor(k) : j <= i

LastRowStored == \A k \in LastKeys : LastOf(k)

(* Storing the last row reports it. *)
LEMMA StoredWins == TypeOK /\ LastRowStored => LastRowWins
  <1> SUFFICES ASSUME TypeOK, LastRowStored, NEW k \in LastKeys
               PROVE  /\ s[k] # 0 => \E i \in RowsFor(k) : s[k] = Read(i)
                      /\ \A i \in RowsFor(k) :
                            (\A j \in RowsFor(k) : j <= i) => s[k] = Read(i)
    BY DEF LastRowWins
  <1>1. LastOf(k)
    BY DEF LastRowStored
  <1>2. \A i \in RowsFor(k) : i \in Int
    BY DEF RowsFor
  <1> HIDE DEF RowsFor, Read
  <1>3. s[k] # 0 => \E i \in RowsFor(k) : s[k] = Read(i)
    BY <1>1 DEF LastOf
  <1>4. ASSUME NEW i \in RowsFor(k), \A j \in RowsFor(k) : j <= i PROVE s[k] = Read(i)
    <2>1. PICK h \in RowsFor(k) : s[k] = Read(h) /\ \A j \in RowsFor(k) : j <= h
      BY <1>1 DEF LastOf
    <2>2. h = i
      BY <2>1, <1>2, <1>4
    <2> QED BY <2>1, <2>2
  <1> QED BY <1>3, <1>4

(* A row that is stored becomes the last, any other leaves the last alone. *)
LEMMA LastOfStep ==
  ASSUME TypeOK, Step, NEW k, LastOf(k),
         IF pos > Header /\ Row.key = k /\ Row.val # Bad
         THEN s'[k] = Read(pos) ELSE s'[k] = s[k]
  PROVE  LastOf(k)'
  <1>1. /\ RowsFor(k)' = IF pos > Header /\ Row.key = k /\ Row.val # Bad
                         THEN RowsFor(k) \cup {pos} ELSE RowsFor(k)
        /\ \A i \in RowsFor(k) : i \in Nat /\ i < pos
        /\ (\A i : Read(i)' = Read(i))
    BY RowsGrow
  <1>2. text' = text /\ pos \in Nat
    BY DEF Step, TypeOK
  <1>3. CASE pos > Header /\ Row.key = k /\ Row.val # Bad
    <2>0. PICK q \in Nat : q = pos
      BY <1>2
    <2>1. q \in RowsFor(k)' /\ s'[k] = Read(q)'
      BY <2>0, <1>1, <1>3
    <2>2. \A j \in RowsFor(k)' : j <= q
      BY <2>0, <1>1, <1>2, <1>3
    <2> QED BY <2>1, <2>2 DEF LastOf
  <1>4. CASE ~(pos > Header /\ Row.key = k /\ Row.val # Bad)
    <2>1. RowsFor(k)' = RowsFor(k) /\ s'[k] = s[k]
      BY <1>1, <1>4
    <2> QED BY <2>1, <1>1, <1>2 DEF LastOf
  <1> QED BY <1>3, <1>4

(* Where the last row wins, it does so after every row. *)
LEMMA NextLast == TypeOK /\ Fresh /\ LastRowStored /\ [Next]_vars => LastRowStored'
  <1> SUFFICES ASSUME TypeOK, Fresh, LastRowStored, [Next]_vars, NEW k \in LastKeys'
               PROVE  LastOf(k)'
    BY DEF LastRowStored
  <1>0. /\ source' \in {"meminfo", "arcstats", "os-release"}
        /\ k \in Fields /\ k \notin {"used", "cores", "VARIANT"} /\ s \in [Fields -> Nat]
        /\ source' = source => LastOf(k) /\ k \in LastKeys
    BY DEF LastRowStored, LastKeys, TypeOK, Fields, MemKeys, ARCKeys, OSKeys
  <1>1. CASE st = "open" /\ (Canceled \/ Unreadable \/ \E t \in Texts(source) : Open(t))
    <2>1. s' = s /\ pos' = 1 /\ source' = source /\ s = [f \in Fields |-> 0]
      BY <1>1, <1>0 DEF Canceled, Unreadable, Open, Fresh
    <2>2. RowsFor(k)' = {}
      BY <2>1 DEF RowsFor
    <2> QED BY <2>1, <2>2, <1>0 DEF LastOf
  <1>2. CASE Scans
    <2>1. Step /\ source' = source
      BY <1>2, ScanStep DEF Step
    <2>3. parseMemInfo \/ parseARCStats \/ parseOSRelease
      BY <1>2, <2>1, <1>0 DEF Scans, Scanning, parseMemInfo, parseARCStats, parseOSRelease,
         parseCPUInfo, parseBtime, parseDefaultRoute, parseIPv4ForIface, parseLoadAvg,
         firstNonEmpty, countProcesses, parseUptime, khzToMHz, readTrim
    <2>4. pos \in Nat /\ pos >= 1
      BY <2>1 DEF Step, TypeOK
    <2>5. IF pos > Header /\ Row.key = k /\ Row.val # Bad
          THEN s'[k] = Read(pos) ELSE s'[k] = s[k]
      <3>1. CASE parseMemInfo
        <4>1. source = "meminfo" /\ Header = 0 /\ k \in MemKeys
          BY <3>1, <2>1, <1>0 DEF parseMemInfo, Scanning, Header, LastKeys
        <4>2. CASE Row.key \in MemKeys /\ Row.val # Bad
          <5>1. s' = [s EXCEPT ![Row.key] = Read(pos)]
            BY <4>1, <4>2, <3>1 DEF parseMemInfo, Store, Read, Row
          <5> QED BY <5>1, <4>1, <4>2, <2>4, <1>0
        <4>3. CASE ~(Row.key \in MemKeys /\ Row.val # Bad)
          BY <4>1, <4>3, <3>1 DEF parseMemInfo
        <4> QED BY <4>2, <4>3
      <3>2. CASE parseARCStats
        <4>1. source = "arcstats" /\ Header = 2 /\ k \in ARCKeys
          BY <3>2, <2>1, <1>0 DEF parseARCStats, Scanning, Header, LastKeys
        <4>2. CASE pos > 2 /\ Row.key \in ARCKeys /\ Row.val # Bad
          <5>1. s' = [s EXCEPT ![Row.key] = Read(pos)]
            BY <4>1, <4>2, <3>2 DEF parseARCStats, Store, Read, Row
          <5> QED BY <5>1, <4>1, <4>2, <1>0
        <4>3. CASE ~(pos > 2 /\ Row.key \in ARCKeys /\ Row.val # Bad)
          BY <4>1, <4>3, <3>2 DEF parseARCStats
        <4> QED BY <4>2, <4>3
      <3>3. CASE parseOSRelease
        <4>1. source = "os-release" /\ Header = 0 /\ k \in OSKeys
          BY <3>3, <2>1, <1>0 DEF parseOSRelease, Scanning, Header, LastKeys
        <4>2. CASE Row.key \in OSKeys \cup {"VARIANT"} /\ Row.val # Bad
          <5>1. s' = [s EXCEPT ![Row.key] = Read(pos)]
            BY <4>1, <4>2, <3>3 DEF parseOSRelease, Store, Read, Row
          <5> QED BY <5>1, <4>1, <4>2, <2>4, <1>0
        <4>3. CASE ~(Row.key \in OSKeys \cup {"VARIANT"} /\ Row.val # Bad)
          <5>1. s'[k] = s[k]
            BY <4>3, <3>3, <1>0 DEF parseOSRelease, Store
          <5> QED BY <4>1, <4>3, <5>1
        <4> QED BY <4>2, <4>3
      <3> QED BY <2>3, <3>1, <3>2, <3>3
    <2> QED BY <2>1, <2>5, <1>0, LastOfStep
  <1>3. CASE End
    <2>1. UNCHANGED <<source, text, pos>> /\ s'[k] = s[k]
      BY <1>3, <1>0 DEF End
    <2> QED BY <2>1, <1>0 DEF LastOf, RowsFor, Read, Header
  <1>4. CASE ThenAddress \/ ThenFrequency
    BY <1>4, <1>0 DEF ThenAddress, ThenFrequency
  <1>5. CASE UNCHANGED vars
    BY <1>5, <1>0 DEF vars, LastOf, RowsFor, Read, Header
  <1> QED BY <1>1, <1>2, <1>3, <1>4, <1>5 DEF Next, Scans, Canceled, Unreadable

-----------------------------------------------------------------------------
(* While a scan that stops at its first row goes on, it has not met one. *)
Stops ==
    st = "scan" =>
        /\ source = "locale" => Filled("env") = {}
        /\ source = "route" => RowsFor("default") = {}
        /\ source = "stat" => {i \in 1..(pos - 1) : text[i].key = "btime"} = {}

(* The rows that fill field k after one row more. *)
LEMMA FilledGrow ==
  ASSUME TypeOK, Step, NEW k
  PROVE  /\ Filled(k)' = IF pos > Header /\ Row.key = k /\ Row.val \notin {Bad, 0}
                         THEN Filled(k) \cup {pos} ELSE Filled(k)
         /\ \A i \in Filled(k) : i \in Nat /\ i < pos /\ text[i].val # 0
  <1>1. /\ RowsFor(k)' = IF pos > Header /\ Row.key = k /\ Row.val # Bad
                         THEN RowsFor(k) \cup {pos} ELSE RowsFor(k)
        /\ \A i \in RowsFor(k) : i \in Nat /\ i < pos
    BY RowsGrow
  <1>2. Filled(k)' = {i \in RowsFor(k)' : text[i].val # 0}
    BY DEF Filled, Step
  <1> QED BY <1>1, <1>2 DEF Filled, Row

(* A row fills a field that is empty and leaves a filled one alone. *)
LEMMA FirstOfStep ==
  ASSUME TypeOK, text' = text, NEW k, NEW S, NEW T, FirstOf(S, k),
         \A i \in S : i \in Nat /\ i < pos /\ text[i].val # 0,
         \/ T = S /\ s'[k] = s[k]
         \/ T = S \cup {pos} /\ s'[k] = IF s[k] = 0 THEN Row.val ELSE s[k]
  PROVE  \/ T = {} /\ s'[k] = 0
         \/ \E i \in T : s'[k] = text'[i].val /\ \A j \in T : i <= j
  <1>0. pos \in Nat
    BY DEF TypeOK
  <1>1. CASE T = S /\ s'[k] = s[k]
    <2>1. CASE S = {} /\ s[k] = 0
      BY <1>1, <2>1
    <2>2. ASSUME NEW i \in S, s[k] = text[i].val, \A j \in S : i <= j
          PROVE  \E h \in T : s'[k] = text'[h].val /\ \A j \in T : h <= j
      BY <1>1, <2>2
    <2> QED BY <2>1, <2>2, <1>1 DEF FirstOf
  <1>2. CASE T = S \cup {pos} /\ s'[k] = IF s[k] = 0 THEN Row.val ELSE s[k]
    <2>1. CASE s[k] = 0
      <3>1. S = {}
        BY <2>1 DEF FirstOf
      <3> QED BY <3>1, <2>1, <1>2, <1>0 DEF Row
    <2>2. CASE s[k] # 0
      <3>1. PICK i \in S : s[k] = text[i].val /\ \A j \in S : i <= j
        BY <2>2 DEF FirstOf
      <3>2. i <= pos
        BY <1>0
      <3> QED BY <3>1, <3>2, <2>2, <1>2
    <2> QED BY <2>1, <2>2
  <1> QED BY <1>1, <1>2

(* Where the first row wins, it does so after every row. *)
LEMMA NextFirst ==
  TypeOK /\ Fresh /\ FirstRowWins /\ Stops /\ [Next]_vars => FirstRowWins' /\ Stops'
  <1> SUFFICES ASSUME TypeOK, Fresh, FirstRowWins, Stops, [Next]_vars
               PROVE  FirstRowWins' /\ Stops'
    OBVIOUS
  <1>0. /\ s \in [Fields -> Nat] /\ pos \in Nat /\ pos >= 1
        /\ CPUKeys \subseteq Fields /\ "processor" \notin CPUKeys /\ "cores" \notin CPUKeys
        /\ {"env", "default", "btime", "processor", "cores", "used"} \subseteq Fields
    <2>1. s \in [Fields -> Nat] /\ pos \in Nat /\ pos >= 1
      BY DEF TypeOK
    <2>2. CPUKeys \subseteq Fields
      BY DEF Fields
    <2>3. "processor" \notin CPUKeys /\ "cores" \notin CPUKeys
      BY DEF CPUKeys
    <2>4. {"env", "default", "btime", "processor", "cores", "used"} \subseteq Fields
      BY DEF Fields
    <2> QED BY <2>1, <2>2, <2>3, <2>4
  <1>1. CASE st = "open" /\ (Canceled \/ Unreadable \/ \E t \in Texts(source) : Open(t))
    <2>1. /\ pos' = 1 /\ source' = source
          /\ source \notin {"fib_trie", "cpufreq"} => s = [f \in Fields |-> 0]
          /\ s' = s \/ s' = [s EXCEPT !["cores"] = WithCores(s)]
      BY <1>1 DEF Canceled, Unreadable, Open, Fresh
    <2>2. \A k : RowsFor(k)' = {} /\ Filled(k)' = {}
      BY <2>1 DEF RowsFor, Filled
    <2>3. source \in {"cpuinfo", "locale", "stat", "route"} =>
            \A k \in CPUKeys \cup {"env", "default", "btime"} : s'[k] = 0
      BY <2>1, <1>0
    <2>4. FirstRowWins'
      BY <2>1, <2>2, <2>3 DEF FirstRowWins, FirstOf
    <2>5. Stops'
      BY <2>1, <2>2 DEF Stops
    <2> QED BY <2>4, <2>5
  <1>2. CASE Scans
    <2>1. Step /\ source' = source /\ text' = text
      BY <1>2, ScanStep DEF Step
    <2>2. \A k : Filled(k)' = IF pos > Header /\ Row.key = k /\ Row.val \notin {Bad, 0}
                              THEN Filled(k) \cup {pos} ELSE Filled(k)
      BY <2>1, FilledGrow
    <2>3. \A k : \A i \in Filled(k) : i \in Nat /\ i < pos /\ text[i].val # 0
      BY <2>1, FilledGrow
    <2>4. \A k : RowsFor(k)' = IF pos > Header /\ Row.key = k /\ Row.val # Bad
                               THEN RowsFor(k) \cup {pos} ELSE RowsFor(k)
      BY <2>1, RowsGrow
    <2>5. CASE parseCPUInfo
      <3>1. source = "cpuinfo" /\ Header = 0
        BY <2>5 DEF parseCPUInfo, Scanning, Header
      <3>2. ASSUME NEW k \in CPUKeys PROVE FirstOf(Filled(k), k)'
        <4>1. FirstOf(Filled(k), k)
          BY <3>1 DEF FirstRowWins
        <4>2. \/ Filled(k)' = Filled(k) /\ s'[k] = s[k]
              \/ /\ Filled(k)' = Filled(k) \cup {pos}
                 /\ s'[k] = IF s[k] = 0 THEN Row.val ELSE s[k]
          <5>1. CASE Row.key = k /\ Row.val \notin {Bad, 0}
            BY <5>1, <3>1, <2>2, <2>5, <1>0 DEF parseCPUInfo, Store
          <5>2. CASE Row.key = k /\ Row.val \in {Bad, 0}
            BY <5>2, <3>1, <2>2, <2>5, <1>0 DEF parseCPUInfo, Store, Bad
          <5>3. CASE Row.key # k
            BY <5>3, <3>1, <2>2, <2>5, <1>0 DEF parseCPUInfo, Store
          <5> QED BY <5>1, <5>2, <5>3
        <4>3. \/ Filled(k)' = {} /\ s'[k] = 0
              \/ \E i \in Filled(k)' : s'[k] = text'[i].val /\ \A j \in Filled(k)' : i <= j
          BY <4>1, <4>2, <2>1, <2>3, FirstOfStep
        <4> QED BY <4>3 DEF FirstOf
      <3> QED BY <3>1, <3>2, <2>1 DEF FirstRowWins, Stops
    <2>6. CASE firstNonEmpty
      <3>1. source = "locale" /\ Header = 0 /\ st = "scan" /\ Filled("env") = {}
        BY <2>6 DEF firstNonEmpty, Scanning, Header, Stops
      <3>2. Row.val \in Nat /\ Row.key = "env"
        BY <3>1, <2>1, <1>0, RowType DEF Step, Row, TypeOK
      <3>3. CASE Row.val # 0
        <4>1. Filled("env")' = {pos}
          BY <3>1, <3>2, <3>3, <2>2, <1>0 DEF Bad
        <4>2. s'["env"] = text'[pos].val /\ st' = "done"
          BY <3>3, <2>6, <2>1, <1>0 DEF firstNonEmpty, Store, Returns, Row
        <4> QED BY <4>1, <4>2, <3>1, <2>1, <1>0 DEF FirstRowWins, FirstOf, Stops
      <3>4. CASE Row.val = 0
        <4>1. Filled("env")' = {} /\ s' = s
          BY <3>1, <3>4, <2>2, <2>6 DEF firstNonEmpty
        <4> QED BY <4>1, <3>1, <2>1 DEF FirstRowWins, FirstOf, Stops
      <3> QED BY <3>3, <3>4
    <2>7. CASE parseDefaultRoute
      <3>1. source = "route" /\ Header = 1 /\ st = "scan" /\ RowsFor("default") = {}
        BY <2>7 DEF parseDefaultRoute, Scanning, Header, Stops
      <3>3. CASE pos > 1 /\ Row.key = "default" /\ Row.val # Bad
        <4>1. RowsFor("default")' = {pos}
          BY <3>1, <3>3, <2>4
        <4>2. s'["default"] = text'[pos].val /\ st' = "done"
          BY <3>3, <2>7, <2>1, <1>0 DEF parseDefaultRoute, Store, Returns, Row
        <4> QED BY <4>1, <4>2, <3>1, <2>1, <1>0 DEF FirstRowWins, FirstOf, Stops
      <3>4. CASE ~(pos > 1 /\ Row.key = "default" /\ Row.val # Bad)
        <4>1. RowsFor("default")' = {} /\ s' = s
          BY <3>1, <3>4, <2>4, <2>7 DEF parseDefaultRoute
        <4> QED BY <4>1, <3>1, <2>1 DEF FirstRowWins, FirstOf, Stops
      <3> QED BY <3>3, <3>4
    <2>8. CASE parseBtime
      <3>1. /\ source = "stat" /\ Header = 0 /\ st = "scan"
            /\ {i \in 1..(pos - 1) : text[i].key = "btime"} = {}
        BY <2>8 DEF parseBtime, Scanning, Header, Stops
      <3>2. RowsFor("btime") = {} /\ s["btime"] = 0
        BY <3>1 DEF RowsFor, FirstRowWins, FirstOf
      <3>3. CASE Row.key = "btime"
        <4>1. RowsFor("btime")' = IF Row.val # Bad THEN {pos} ELSE {}
          BY <3>1, <3>2, <3>3, <2>4, <1>0
        <4>2. s'["btime"] = OrZero(text'[pos].val) /\ st' = "done"
          BY <3>3, <2>8, <2>1, <1>0 DEF parseBtime, Store, Returns, Row
        <4> QED BY <4>1, <4>2, <3>1, <2>1, <1>0 DEF FirstRowWins, FirstOf, Stops, OrZero, Row
      <3>4. CASE Row.key # "btime"
        <4>1. RowsFor("btime")' = {} /\ s' = s
          BY <3>2, <3>4, <2>4, <2>8 DEF parseBtime
        <4>2. {i \in 1..(pos' - 1) : text'[i].key = "btime"} = {}
          <5>1. pos' = pos + 1
            BY <2>1 DEF Step
          <5> QED BY <5>1, <3>1, <3>4, <2>1, <1>0 DEF Row
        <4> QED BY <4>1, <4>2, <3>1, <3>2, <2>1 DEF FirstRowWins, FirstOf, Stops
      <3> QED BY <3>3, <3>4
    <2>9. CASE source \notin {"cpuinfo", "locale", "stat", "route"}
      BY <2>9, <2>1 DEF FirstRowWins, Stops
    <2> QED BY <1>2, <2>5, <2>6, <2>7, <2>8, <2>9 DEF Scans, Scanning, parseMemInfo,
        parseARCStats, parseOSRelease, parseIPv4ForIface, parseLoadAvg,
        countProcesses, parseUptime, khzToMHz, readTrim
  <1>3. CASE End
    <2>1. /\ UNCHANGED <<source, text, pos>> /\ st' = "done"
          /\ \A k \in CPUKeys \cup {"env", "default", "btime"} : s'[k] = s[k]
      BY <1>3, <1>0 DEF End, CPUKeys
    <2> QED BY <2>1 DEF FirstRowWins, FirstOf, Filled, RowsFor, Header, Stops
  <1>4. CASE ThenAddress \/ ThenFrequency
    BY <1>4 DEF ThenAddress, ThenFrequency, FirstRowWins, Stops
  <1>5. CASE UNCHANGED vars
    BY <1>5 DEF vars, FirstRowWins, FirstOf, Filled, RowsFor, Header, Stops
  <1> QED BY <1>1, <1>2, <1>3, <1>4, <1>5 DEF Next, Scans, Canceled, Unreadable

-----------------------------------------------------------------------------
(* The parts of VariantWins: a VARIANT row, VARIANT_ID alone, and neither. *)
LastVariant ==
    source = "os-release" =>
        \A i \in RowsFor("VARIANT") :
            (text[i].val # 0 /\ \A j \in RowsFor("VARIANT") : j <= i) =>
                s["VARIANT"] = text[i].val

IDStandsIn ==
    (source = "os-release" /\ RowsFor("VARIANT") = {}) =>
        FirstOf(Filled("VARIANT_ID"), "VARIANT")

VariantIsRead ==
    (source = "os-release" /\ s["VARIANT"] # 0) =>
        \E i \in Filled("VARIANT") \cup Filled("VARIANT_ID") : s["VARIANT"] = text[i].val

(* A VARIANT row that was read is not overwritten by a VARIANT_ID row. *)
LEMMA NextVariantLast ==
  TypeOK /\ Fresh /\ LastVariant /\ [Next]_vars => LastVariant'
  <1> SUFFICES ASSUME TypeOK, Fresh, LastVariant, [Next]_vars,
                      source' = "os-release", NEW i \in RowsFor("VARIANT")',
                      text'[i].val # 0, \A j \in RowsFor("VARIANT")' : j <= i
               PROVE  s'["VARIANT"] = text'[i].val
    BY DEF LastVariant
  <1>0. "VARIANT" \in Fields /\ s \in [Fields -> Nat] /\ pos \in Nat /\ pos >= 1
    BY DEF TypeOK, Fields
  <1>1. CASE st = "open" /\ (Canceled \/ Unreadable \/ \E t \in Texts(source) : Open(t))
    <2>1. pos' = 1
      BY <1>1 DEF Canceled, Unreadable, Open, Fresh
    <2> QED BY <2>1 DEF RowsFor
  <1>2. CASE Scans
    <2>1. Step /\ source = "os-release" /\ text' = text
      BY <1>2, ScanStep DEF Step
    <2>2. parseOSRelease
      BY <1>2, <2>1 DEF Scans, Scanning, parseMemInfo, parseARCStats,
         parseCPUInfo, parseBtime, parseDefaultRoute, parseIPv4ForIface, parseLoadAvg,
         firstNonEmpty, countProcesses, parseUptime, khzToMHz, readTrim
    <2>3. /\ RowsFor("VARIANT")' = IF pos > 0 /\ Row.key = "VARIANT" /\ Row.val # Bad
                                   THEN RowsFor("VARIANT") \cup {pos} ELSE RowsFor("VARIANT")
          /\ \A j \in RowsFor("VARIANT") : j \in Nat /\ j < pos
      BY <2>1, RowsGrow DEF Header
    <2>4. CASE Row.key = "VARIANT" /\ Row.val # Bad
      <3>1. i = pos
        BY <2>3, <2>4, <1>0
      <3> QED BY <3>1, <2>1, <2>2, <2>4, <1>0 DEF parseOSRelease, Store, Row
    <2>5. CASE ~(Row.key = "VARIANT" /\ Row.val # Bad)
      <3>1. i \in RowsFor("VARIANT") /\ \A j \in RowsFor("VARIANT") : j <= i
        BY <2>3, <2>5
      <3>2. s["VARIANT"] = text[i].val /\ s["VARIANT"] # 0
        BY <3>1, <2>1 DEF LastVariant
      <3>3. s'["VARIANT"] = s["VARIANT"]
        BY <3>2, <2>2, <2>5, <1>0 DEF parseOSRelease, Store, OSKeys
      <3> QED BY <3>2, <3>3, <2>1
    <2> QED BY <2>4, <2>5
  <1>3. CASE End
    <2>1. UNCHANGED <<source, text, pos, s>>
      BY <1>3 DEF End
    <2> QED BY <2>1 DEF LastVariant, RowsFor, Header
  <1>4. CASE ThenAddress \/ ThenFrequency
    BY <1>4 DEF ThenAddress, ThenFrequency
  <1>5. CASE UNCHANGED vars
    BY <1>5 DEF vars, LastVariant, RowsFor, Header
  <1> QED BY <1>1, <1>2, <1>3, <1>4, <1>5 DEF Next, Scans, Canceled, Unreadable

(* A VARIANT_ID row counts as long as nothing else was read. *)
LEMMA NextVariantID ==
  TypeOK /\ Fresh /\ IDStandsIn /\ VariantIsRead /\ [Next]_vars
      => IDStandsIn' /\ VariantIsRead'
  <1> SUFFICES ASSUME TypeOK, Fresh, IDStandsIn, VariantIsRead, [Next]_vars,
                      source' = "os-release"
               PROVE  IDStandsIn' /\ VariantIsRead'
    BY DEF IDStandsIn, VariantIsRead
  <1>0. "VARIANT" \in Fields /\ s \in [Fields -> Nat] /\ pos \in Nat /\ pos >= 1
    BY DEF TypeOK, Fields
  <1>1. CASE st = "open" /\ (Canceled \/ Unreadable \/ \E t \in Texts(source) : Open(t))
    <2>1. pos' = 1 /\ source' = source /\ s' = s
      BY <1>1 DEF Canceled, Unreadable, Open, Fresh
    <2>2. s'["VARIANT"] = 0
      BY <2>1, <1>1, <1>0 DEF Fresh
    <2>3. \A k : RowsFor(k)' = {} /\ Filled(k)' = {}
      BY <2>1 DEF RowsFor, Filled
    <2> QED BY <2>2, <2>3 DEF IDStandsIn, VariantIsRead, FirstOf
  <1>2. CASE Scans
    <2>1. Step /\ source = "os-release" /\ text' = text /\ Header = 0
      BY <1>2, ScanStep DEF Step, Header
    <2>2. parseOSRelease
      BY <1>2, <2>1 DEF Scans, Scanning, parseMemInfo, parseARCStats,
         parseCPUInfo, parseBtime, parseDefaultRoute, parseIPv4ForIface, parseLoadAvg,
         firstNonEmpty, countProcesses, parseUptime, khzToMHz, readTrim
    <2>3. \A k : Filled(k)' = IF Row.key = k /\ Row.val \notin {Bad, 0}
                              THEN Filled(k) \cup {pos} ELSE Filled(k)
      BY <2>1, <1>0, FilledGrow
    <2>4. \A k : \A i \in Filled(k) : i \in Nat /\ i < pos /\ text[i].val # 0
      BY <2>1, FilledGrow
    <2>5. \A k : RowsFor(k)' = IF Row.key = k /\ Row.val # Bad
                               THEN RowsFor(k) \cup {pos} ELSE RowsFor(k)
      BY <2>1, <1>0, RowsGrow
    <2>6. CASE Row.key = "VARIANT" /\ Row.val # Bad
      <3>1. s'["VARIANT"] = text'[pos].val
        BY <2>6, <2>2, <2>1, <1>0 DEF parseOSRelease, Store, Row
      <3>2. RowsFor("VARIANT")' # {}
        BY <2>6, <2>5
      <3>3. text'[pos].val # 0 => pos \in Filled("VARIANT")'
        BY <2>6, <2>3, <2>1 DEF Row
      <3> QED BY <3>1, <3>2, <3>3 DEF IDStandsIn, VariantIsRead
    <2>7. CASE Row.key = "VARIANT_ID" /\ Row.val # Bad /\ s["VARIANT"] = 0
      <3>1. s'["VARIANT"] = text'[pos].val /\ text'[pos].val = Row.val
        BY <2>7, <2>2, <2>1, <1>0 DEF parseOSRelease, Store, Row, OSKeys
      <3>2. Row.val # 0 => pos \in Filled("VARIANT_ID")'
        BY <2>7, <2>3
      <3>3. VariantIsRead'
        BY <3>1, <3>2 DEF VariantIsRead
      <3>4. ASSUME RowsFor("VARIANT")' = {} PROVE FirstOf(Filled("VARIANT_ID"), "VARIANT")'
        <4>1. FirstOf(Filled("VARIANT_ID"), "VARIANT")
          BY <3>4, <2>1, <2>5 DEF IDStandsIn
        <4>2. Filled("VARIANT_ID") = {}
          BY <4>1, <2>4, <2>7 DEF FirstOf
        <4>3. Filled("VARIANT_ID")' = IF Row.val = 0 THEN {} ELSE {pos}
          BY <4>2, <2>3, <2>7
        <4> QED BY <4>3, <3>1, <1>0 DEF FirstOf
      <3> QED BY <3>3, <3>4 DEF IDStandsIn
    <2>8. CASE /\ ~(Row.key = "VARIANT" /\ Row.val # Bad)
               /\ ~(Row.key = "VARIANT_ID" /\ Row.val # Bad /\ s["VARIANT"] = 0)
      <3>1. s'["VARIANT"] = s["VARIANT"]
        BY <2>8, <2>2, <1>0 DEF parseOSRelease, Store, OSKeys
      <3>2. Filled("VARIANT") \subseteq Filled("VARIANT")'
            /\ Filled("VARIANT_ID") \subseteq Filled("VARIANT_ID")'
        BY <2>3
      <3>3. VariantIsRead'
        BY <3>1, <3>2, <2>1 DEF VariantIsRead
      <3>4. ASSUME RowsFor("VARIANT")' = {} PROVE FirstOf(Filled("VARIANT_ID"), "VARIANT")'
        <4>1. FirstOf(Filled("VARIANT_ID"), "VARIANT")
          BY <3>4, <2>1, <2>5 DEF IDStandsIn
        <4>2. \/ Filled("VARIANT_ID")' = Filled("VARIANT_ID") /\ s'["VARIANT"] = s["VARIANT"]
              \/ /\ Filled("VARIANT_ID")' = Filled("VARIANT_ID") \cup {pos}
                 /\ s'["VARIANT"] = IF s["VARIANT"] = 0 THEN Row.val ELSE s["VARIANT"]
          BY <3>1, <2>3, <2>8
        <4>3. \/ Filled("VARIANT_ID")' = {} /\ s'["VARIANT"] = 0
              \/ \E i \in Filled("VARIANT_ID")' :
                    s'["VARIANT"] = text'[i].val /\ \A j \in Filled("VARIANT_ID")' : i <= j
          BY <4>1, <4>2, <2>1, <2>4, FirstOfStep
        <4> QED BY <4>3 DEF FirstOf
      <3> QED BY <3>3, <3>4 DEF IDStandsIn
    <2> QED BY <2>6, <2>7, <2>8
  <1>3. CASE End
    <2>1. UNCHANGED <<source, text, pos, s>>
      BY <1>3 DEF End
    <2> QED BY <2>1 DEF IDStandsIn, VariantIsRead, FirstOf, Filled, RowsFor, Header
  <1>4. CASE ThenAddress \/ ThenFrequency
    BY <1>4 DEF ThenAddress, ThenFrequency
  <1>5. CASE UNCHANGED vars
    BY <1>5 DEF vars, IDStandsIn, VariantIsRead, FirstOf, Filled, RowsFor, Header
  <1> QED BY <1>1, <1>2, <1>3, <1>4, <1>5 DEF Next, Scans, Canceled, Unreadable

(* VariantWins is its three parts, and every row keeps them. *)
LEMMA NextVariant == TypeOK /\ Fresh /\ VariantWins /\ [Next]_vars => VariantWins'
  <1>1. VariantWins <=> LastVariant /\ IDStandsIn /\ VariantIsRead
    BY DEF VariantWins, LastVariant, IDStandsIn, VariantIsRead
  <1>2. VariantWins' <=> LastVariant' /\ IDStandsIn' /\ VariantIsRead'
    BY <1>1, PTL
  <1> QED BY <1>1, <1>2, NextVariantLast, NextVariantID

-----------------------------------------------------------------------------
(* The memory used is computed once, when the text ends. *)
LEMMA NextUsed == TypeOK /\ Fresh /\ UsedWithinTotal /\ [Next]_vars => UsedWithinTotal'
  <1> SUFFICES ASSUME TypeOK, Fresh, UsedWithinTotal, [Next]_vars,
                      source' = "meminfo", st' = "done"
               PROVE  /\ s'["used"] <= s'["MemTotal"]
                      /\ s'["MemAvailable"] \in 1..s'["MemTotal"] =>
                            s'["used"] + s'["MemAvailable"] = s'["MemTotal"]
    BY DEF UsedWithinTotal
  <1>0. /\ s["MemTotal"] \in Nat /\ s["MemAvailable"] \in Nat /\ s["MemFree"] \in Nat
        /\ s["Cached"] \in Nat /\ s["used"] \in Nat /\ s \in [Fields -> Nat]
        /\ {"MemTotal", "MemAvailable", "used"} \subseteq Fields
    BY DEF TypeOK, Fields, MemKeys
  <1>1. CASE st = "open" /\ (Canceled \/ Unreadable \/ \E t \in Texts(source) : Open(t))
    <2>1. s' = [f \in Fields |-> 0]
      BY <1>1 DEF Canceled, Unreadable, Open, Fresh
    <2> QED BY <2>1, <1>0
  <1>2. CASE Scans
    BY <1>2, ScanStep DEF Scans, Step, Scanning, Goes, parseMemInfo, parseARCStats, parseOSRelease,
       parseCPUInfo, parseBtime, parseDefaultRoute, parseIPv4ForIface, parseLoadAvg,
       firstNonEmpty, countProcesses, parseUptime, khzToMHz, readTrim
  <1>3. CASE End
    <2>1. s' = [s EXCEPT !["used"] = MemoryUsed(s)]
      BY <1>3 DEF End
    <2>2. (s["MemFree"] + s["Cached"]) % Word \in Nat
      BY <1>0, HostAssumption
    <2>3. MemoryUsed(s) <= s["MemTotal"]
      BY <2>2, <1>0 DEF MemoryUsed, satSub
    <2>4. s["MemAvailable"] \in 1..s["MemTotal"] =>
            MemoryUsed(s) + s["MemAvailable"] = s["MemTotal"]
      BY <1>0 DEF MemoryUsed, satSub
    <2>5. /\ s'["used"] = MemoryUsed(s) /\ s'["MemTotal"] = s["MemTotal"]
          /\ s'["MemAvailable"] = s["MemAvailable"]
      BY <2>1, <1>0
    <2> QED BY <2>3, <2>4, <2>5
  <1>4. CASE ThenAddress \/ ThenFrequency
    BY <1>4 DEF ThenAddress, ThenFrequency
  <1>5. CASE UNCHANGED vars
    BY <1>5 DEF vars, UsedWithinTotal
  <1> QED BY <1>1, <1>2, <1>3, <1>4, <1>5 DEF Next, Scans, Canceled, Unreadable

-----------------------------------------------------------------------------
(* lastIP is the last address read of the FIB, and while the scan goes on no *)
(* address it could have reported has been marked. *)
AddressInv ==
    /\ source # "fib_trie" => lastIP = 0 /\ s["ip"] = 0
    /\ source = "fib_trie" =>
          /\ s["default"] # 0
          /\ st \in {"open", "scan"} => s["ip"] = 0
          /\ st = "open" => lastIP = 0
          /\ st = "scan" =>
                \/ lastIP = 0 /\ \A h \in 1..(pos - 1) : text[h].key # "addr"
                \/ \E h \in 1..(pos - 1) :
                      /\ text[h].key = "addr" /\ lastIP = OrZero(text[h].val)
                      /\ \A j \in (h + 1)..(pos - 1) : text[j].key # "addr"

(* The address scan keeps the last address and reports the first match. *)
LEMMA NextAddress ==
  TypeOK /\ Fresh /\ AddressInv /\ FirstLocalAddress /\ [Next]_vars
    => AddressInv' /\ FirstLocalAddress'
  <1> SUFFICES ASSUME TypeOK, Fresh, AddressInv, FirstLocalAddress, [Next]_vars
               PROVE  AddressInv' /\ FirstLocalAddress'
    OBVIOUS
  <1>0. /\ s \in [Fields -> Nat] /\ pos \in Nat /\ pos >= 1 /\ lastIP \in Nat
        /\ "ip" \in Fields /\ "default" \in Fields
    BY DEF TypeOK, Fields
  <1>1. CASE st = "open" /\ (Canceled \/ Unreadable \/ \E t \in Texts(source) : Open(t))
    <2>1. /\ pos' = 1 /\ source' = source /\ lastIP' = lastIP
          /\ s'["ip"] = s["ip"] /\ s'["default"] = s["default"]
      BY <1>1, <1>0 DEF Canceled, Unreadable, Open, Fresh
    <2>2. AddressInv'
      BY <2>1, <1>1 DEF AddressInv
    <2>3. FirstLocalAddress'
      BY <2>1, <1>1 DEF AddressInv, FirstLocalAddress
    <2> QED BY <2>2, <2>3
  <1>2. CASE Scans
    <2>1. /\ Step /\ source' = source /\ text' = text /\ pos' = pos + 1
          /\ st = "scan" /\ pos <= Len(text) /\ st' \in {"scan", "done"}
      BY <1>2, ScanStep DEF Step
    <2>2. CASE source # "fib_trie"
      <3>1. lastIP' = lastIP /\ s'["ip"] = s["ip"]
        <4>1. lastIP' = lastIP
          BY <1>2, <2>2 DEF Scans, Scanning, parseMemInfo, parseARCStats, parseOSRelease,
             parseCPUInfo, parseBtime, parseDefaultRoute, parseIPv4ForIface, parseLoadAvg,
             firstNonEmpty, countProcesses, parseUptime, khzToMHz, readTrim
        <4>2. CASE parseMemInfo
          BY <4>2, <1>0 DEF parseMemInfo, Store, MemKeys
        <4>3. CASE parseARCStats
          BY <4>3, <1>0 DEF parseARCStats, Store, ARCKeys
        <4>4. CASE parseOSRelease
          BY <4>4, <1>0 DEF parseOSRelease, Store, OSKeys
        <4>5. CASE parseCPUInfo
          BY <4>5, <1>0 DEF parseCPUInfo, Store, CPUKeys
        <4>6. CASE parseLoadAvg
          <5>1. pos <= 3 => LoadKeys[pos] # "ip"
            <6>1. LoadKeys[1] # "ip" /\ LoadKeys[2] # "ip" /\ LoadKeys[3] # "ip"
              BY DEF LoadKeys
            <6> QED BY <6>1, <1>0
          <5> QED BY <5>1, <4>6, <1>0 DEF parseLoadAvg, Store
        <4>7. CASE parseBtime \/ parseDefaultRoute \/ firstNonEmpty \/ countProcesses
                   \/ parseUptime \/ khzToMHz \/ readTrim
          BY <4>7, <1>0 DEF parseBtime, parseDefaultRoute, firstNonEmpty, countProcesses,
             parseUptime, khzToMHz, readTrim, Store
        <4> QED BY <1>2, <2>2, <4>1, <4>2, <4>3, <4>4, <4>5, <4>6, <4>7
                DEF Scans, parseIPv4ForIface, Scanning
      <3> QED BY <3>1, <2>1, <2>2 DEF AddressInv, FirstLocalAddress
    <2>3. CASE source = "fib_trie"
      <3>0. parseIPv4ForIface
        BY <1>2, <2>3 DEF Scans, Scanning, parseMemInfo, parseARCStats, parseOSRelease,
           parseCPUInfo, parseBtime, parseDefaultRoute, parseLoadAvg,
           firstNonEmpty, countProcesses, parseUptime, khzToMHz, readTrim
      <3>1. /\ s["ip"] = 0 /\ s["default"] # 0
            /\ \A i \in 1..(pos - 1) : \A h \in 1..(i - 1) :
                 Marks(h, i) => text[h].val \in Loopback \cup {0, Bad}
        BY <2>1, <2>3 DEF AddressInv, FirstLocalAddress
      <3>2. \A h, i : Marks(h, i)' = Marks(h, i)
        BY <2>1 DEF Marks
      <3>3. pos' - 1 = pos /\ 1..pos = 1..(pos - 1) \cup {pos}
        BY <2>1, <1>0
      <3>4. CASE Row.key = "addr"
        <4>1. lastIP' = OrZero(text[pos].val) /\ s' = s /\ st' = "scan"
          BY <3>0, <3>4 DEF parseIPv4ForIface, Goes, Row
        <4>2. PICK q \in Nat : q = pos
          BY <1>0
        <4>3. /\ q \in 1..(pos' - 1) /\ text'[q].key = "addr" /\ lastIP' = OrZero(text'[q].val)
              /\ (q + 1)..(pos' - 1) = {}
          BY <4>1, <4>2, <3>3, <3>4, <2>1, <1>0 DEF Row
        <4>4. AddressInv'
          BY <4>1, <4>3, <3>1, <2>1, <2>3 DEF AddressInv, OrZero
        <4>5. \A h : ~Marks(h, pos)
          BY <3>4 DEF Marks, Row
        <4>6. \A i \in 1..(pos' - 1) : \A h \in 1..(i - 1) :
                 Marks(h, i) => text[h].val \in Loopback \cup {0, Bad}
          BY <4>5, <3>1, <3>3
        <4>7. FirstLocalAddress'
          BY <4>1, <4>6, <3>1, <3>2, <2>1, HostAssumption DEF FirstLocalAddress
        <4> QED BY <4>4, <4>7
      <3>5. CASE Row.key = "local" /\ Usable(lastIP)
        <4>1. s' = [s EXCEPT !["ip"] = lastIP] /\ st' = "done" /\ lastIP' = lastIP
          BY <3>0, <3>5 DEF parseIPv4ForIface, Store, Returns
        <4>2. lastIP # 0 /\ lastIP \notin Loopback
          BY <3>5 DEF Usable
        <4>3. PICK h \in 1..(pos - 1) :
                 /\ text[h].key = "addr" /\ lastIP = OrZero(text[h].val)
                 /\ \A j \in (h + 1)..(pos - 1) : text[j].key # "addr"
          BY <4>2, <2>1, <2>3 DEF AddressInv
        <4>4. Marks(h, pos) /\ text[h].val = lastIP
          BY <4>2, <4>3, <3>5 DEF Marks, Row, OrZero
        <4>5. /\ s'["ip"] = lastIP /\ s'["default"] # 0
              /\ h \in 1..(pos' - 1) /\ Marks(h, pos' - 1) /\ text'[h].val = lastIP
          BY <4>1, <4>3, <4>4, <3>1, <3>3, <2>1, <1>0
        <4>6. \A i \in 1..(pos' - 1) : \A g \in 1..(i - 1) :
                 Marks(g, i) => text[g].val \in Loopback \cup {0, Bad} \/ i = pos' - 1
          BY <3>1, <3>3
        <4>7. FirstLocalAddress'
          <5>1. (\E g \in 1..(pos - 1) : Marks(g, pos - 1) /\ text[g].val = s["ip"])'
            <6>1. PICK q \in Nat : q = pos' - 1
              BY <3>3, <1>0
            <6>2. Marks(h, q)'
              BY <6>1, <4>5, <3>2
            <6> QED BY <6>1, <6>2, <4>5 DEF Marks
          <5> QED BY <5>1, <4>2, <4>5, <4>6, <3>2, <2>1 DEF FirstLocalAddress
        <4>8. AddressInv'
          BY <4>1, <4>5, <2>1, <2>3 DEF AddressInv
        <4> QED BY <4>7, <4>8
      <3>6. CASE Row.key # "addr" /\ ~(Row.key = "local" /\ Usable(lastIP))
        <4>1. lastIP' = lastIP /\ s' = s /\ st' = "scan"
          BY <3>0, <3>6 DEF parseIPv4ForIface, Goes
        <4>2. AddressInv'
          <5>1. CASE lastIP = 0 /\ \A h \in 1..(pos - 1) : text[h].key # "addr"
            BY <5>1, <4>1, <3>1, <3>3, <3>6, <2>1, <2>3 DEF AddressInv, Row
          <5>2. ASSUME NEW h \in 1..(pos - 1), text[h].key = "addr", lastIP = OrZero(text[h].val),
                       \A j \in (h + 1)..(pos - 1) : text[j].key # "addr"
                PROVE  AddressInv'
            <6>1. (h + 1)..(pos' - 1) = ((h + 1)..(pos - 1)) \cup {pos}
              BY <3>3, <1>0
            <6>2. h \in 1..(pos' - 1) /\ text'[h].key = "addr" /\ lastIP' = OrZero(text'[h].val)
              BY <5>2, <4>1, <3>3, <2>1
            <6>3. \A j \in (h + 1)..(pos' - 1) : text'[j].key # "addr"
              BY <6>1, <5>2, <3>6, <2>1 DEF Row
            <6> QED BY <6>2, <6>3, <4>1, <3>1, <2>1, <2>3 DEF AddressInv, OrZero
          <5> QED BY <5>1, <5>2, <2>1, <2>3 DEF AddressInv
        <4>3. ASSUME NEW h \in 1..(pos - 1), Marks(h, pos)
              PROVE  text[h].val \in Loopback \cup {0, Bad}
          <5>1. Row.key = "local" /\ text[h].key = "addr"
            BY <4>3 DEF Marks, Row
          <5>2. ~Usable(lastIP)
            BY <5>1, <3>6
          <5>3. lastIP = OrZero(text[h].val)
            <6>1. PICK g \in 1..(pos - 1) :
                     /\ text[g].key = "addr" /\ lastIP = OrZero(text[g].val)
                     /\ \A j \in (g + 1)..(pos - 1) : text[j].key # "addr"
              BY <5>1, <2>1, <2>3 DEF AddressInv
            <6>2. \A j \in (h + 1)..(pos - 1) : text[j].key # "addr"
              BY <4>3 DEF Marks
            <6>3. h = g
              BY <6>1, <6>2, <5>1, <1>0
            <6> QED BY <6>1, <6>3
          <5> QED BY <5>2, <5>3 DEF Usable, OrZero
        <4>4. \A i \in 1..(pos' - 1) : \A h \in 1..(i - 1) :
                 Marks(h, i) => text[h].val \in Loopback \cup {0, Bad}
          BY <4>3, <3>1, <3>3
        <4>5. FirstLocalAddress'
          BY <4>1, <4>4, <3>1, <3>2, <2>1, HostAssumption DEF FirstLocalAddress
        <4> QED BY <4>2, <4>5
      <3> QED BY <3>4, <3>5, <3>6
    <2> QED BY <2>2, <2>3
  <1>3. CASE End
    <2>1. /\ UNCHANGED <<source, text, pos, lastIP>> /\ st' = "done"
          /\ s'["ip"] = s["ip"] /\ s'["default"] = s["default"]
      BY <1>3, <1>0 DEF End
    <2> QED BY <2>1 DEF AddressInv, FirstLocalAddress, Marks
  <1>4. CASE ThenAddress
    BY <1>4, <1>0, HostAssumption DEF ThenAddress, AddressInv, FirstLocalAddress
  <1>5. CASE ThenFrequency
    BY <1>5, <1>0 DEF ThenFrequency, AddressInv, FirstLocalAddress
  <1>6. CASE UNCHANGED vars
    BY <1>6 DEF vars, AddressInv, FirstLocalAddress, Marks
  <1> QED BY <1>1, <1>2, <1>3, <1>4, <1>5, <1>6 DEF Next, Scans, Canceled, Unreadable

-----------------------------------------------------------------------------
(* The rows that CountsAreExact counts. *)
Processors == {i \in 1..(pos - 1) : text[i].key = "processor"}
Pids == {i \in 1..(pos - 1) : text[i].key = "dir" /\ text[i].val # Bad}

(* One row more, one element more. *)
LEMMA CountStep ==
  ASSUME NEW p \in Nat, NEW S \in SUBSET (1..(p - 1))
  PROVE  /\ Cardinality(S) \in Nat
         /\ Cardinality(S \cup {p}) = Cardinality(S) + 1
  <1>1. IsFiniteSet(1..(p - 1))
    BY FS_Interval
  <1>2. IsFiniteSet(S)
    BY <1>1, FS_Subset
  <1>3. p \notin S
    OBVIOUS
  <1> QED BY <1>2, <1>3, FS_CardinalityType, FS_AddElement

(* Processors and processes are counted row by row. *)
LEMMA NextCounts ==
  TypeOK /\ Fresh /\ CountsAreExact /\ [Next]_vars => CountsAreExact'
  <1> SUFFICES ASSUME TypeOK, Fresh, CountsAreExact, [Next]_vars PROVE CountsAreExact'
    OBVIOUS
  <1>0. /\ s \in [Fields -> Nat] /\ pos \in Nat /\ pos >= 1
        /\ {"processor", "pid", "cores"} \subseteq Fields
    BY DEF TypeOK, Fields
  <1>1. CASE st = "open" /\ (Canceled \/ Unreadable \/ \E t \in Texts(source) : Open(t))
    <2>1. /\ pos' = 1 /\ source' = source
          /\ source \in {"cpuinfo", "proc"} => s'["processor"] = 0 /\ s'["pid"] = 0
      BY <1>1, <1>0 DEF Canceled, Unreadable, Open, Fresh
    <2>2. Processors' = {} /\ Pids' = {}
      BY <2>1 DEF Processors, Pids
    <2>3. source = "cpuinfo" /\ st' = "done" /\ ~failed' => s'["cores"] = NumCPU
      <3>1. ASSUME source = "cpuinfo", st' = "done", ~failed' PROVE s'["cores"] = NumCPU
        <4>1. Unreadable
          BY <1>1, <3>1 DEF Canceled, Open
        <4> QED BY <4>1, <3>1, <1>0 DEF Unreadable, WithCores, Fresh
      <3> QED BY <3>1
    <2> QED BY <2>1, <2>2, <2>3, FS_EmptySet DEF CountsAreExact, Processors, Pids
  <1>2. CASE Scans
    <2>1. /\ Step /\ source' = source /\ text' = text /\ pos' = pos + 1
          /\ 1..(pos' - 1) = 1..(pos - 1) \cup {pos}
      BY <1>2, <1>0, ScanStep DEF Step
    <2>2. CASE parseCPUInfo
      <3>1. source = "cpuinfo" /\ st' = "scan" /\ s["processor"] = Cardinality(Processors)
        BY <2>2 DEF parseCPUInfo, Scanning, Goes, CountsAreExact, Processors
      <3>2. s'["processor"] = Cardinality(Processors')
        <4>1. CASE Row.key = "processor"
          <5>1. Processors' = Processors \cup {pos}
            BY <4>1, <2>1 DEF Processors, Row
          <5>2. Cardinality(Processors \cup {pos}) = Cardinality(Processors) + 1
            <6>1. Processors \in SUBSET (1..(pos - 1))
              BY DEF Processors
            <6> QED BY <6>1, <1>0, CountStep
          <5> QED BY <5>1, <5>2, <4>1, <3>1, <2>2, <1>0 DEF parseCPUInfo, Store
        <4>2. CASE Row.key # "processor"
          <5>1. Processors' = Processors
            BY <4>2, <2>1 DEF Processors, Row
          <5> QED BY <5>1, <4>2, <3>1, <2>2, <1>0 DEF parseCPUInfo, Store
        <4> QED BY <4>1, <4>2
      <3> QED BY <3>1, <3>2, <2>1 DEF CountsAreExact, Processors
    <2>3. CASE countProcesses
      <3>1. source = "proc" /\ st' = "scan" /\ s["pid"] = Cardinality(Pids)
        BY <2>3 DEF countProcesses, Scanning, Goes, CountsAreExact, Pids
      <3>2. s'["pid"] = Cardinality(Pids')
        <4>1. CASE Row.key = "dir" /\ Row.val # Bad
          <5>1. Pids' = Pids \cup {pos}
            BY <4>1, <2>1 DEF Pids, Row
          <5>2. Cardinality(Pids \cup {pos}) = Cardinality(Pids) + 1
            <6>1. Pids \in SUBSET (1..(pos - 1))
              BY DEF Pids
            <6> QED BY <6>1, <1>0, CountStep
          <5> QED BY <5>1, <5>2, <4>1, <3>1, <2>3, <1>0 DEF countProcesses, Store
        <4>2. CASE ~(Row.key = "dir" /\ Row.val # Bad)
          <5>1. Pids' = Pids
            BY <4>2, <2>1 DEF Pids, Row
          <5> QED BY <5>1, <4>2, <3>1, <2>3, <1>0 DEF countProcesses, Store
        <4> QED BY <4>1, <4>2
      <3> QED BY <3>1, <3>2, <2>1 DEF CountsAreExact, Pids
    <2>4. CASE source \notin {"cpuinfo", "proc"}
      BY <2>4, <2>1 DEF CountsAreExact
    <2> QED BY <1>2, <2>2, <2>3, <2>4 DEF Scans, Scanning, parseMemInfo, parseARCStats,
        parseOSRelease, parseBtime, parseDefaultRoute, parseIPv4ForIface, parseLoadAvg,
        firstNonEmpty, parseUptime, khzToMHz, readTrim
  <1>3. CASE End
    <2>1. /\ UNCHANGED <<source, text, pos>>
          /\ source \in {"cpuinfo", "proc"} => s'["processor"] = s["processor"] /\ s'["pid"] = s["pid"]
          /\ source = "cpuinfo" => s'["cores"] = WithCores(s)
      BY <1>3, <1>0 DEF End
    <2>2. WithCores(s) = IF s["processor"] > 0 THEN s["processor"] ELSE NumCPU
      BY <1>0 DEF WithCores
    <2> QED BY <2>1, <2>2 DEF CountsAreExact
  <1>4. CASE ThenAddress \/ ThenFrequency
    BY <1>4 DEF ThenAddress, ThenFrequency, CountsAreExact
  <1>5. CASE UNCHANGED vars
    BY <1>5 DEF vars, CountsAreExact
  <1> QED BY <1>1, <1>2, <1>3, <1>4, <1>5 DEF Next, Scans, Canceled, Unreadable

-----------------------------------------------------------------------------
(* A file of one value is done with it after one row, and cpuinfo leaves the *)
(* frequency to cpufreq. *)
PositionInv ==
    /\ (source \in {"uptime", "cpufreq", "dmi"} /\ st = "scan") => pos = 1
    /\ source = "cpuinfo" => s["freq"] = 0

(* A position that was read keeps its value, and the next row fills the next. *)
LEMMA NextPositions ==
  TypeOK /\ Fresh /\ PositionInv /\ PositionsCount /\ [Next]_vars
      => PositionInv' /\ PositionsCount'
  <1> SUFFICES ASSUME TypeOK, Fresh, PositionInv, PositionsCount, [Next]_vars
               PROVE  PositionInv' /\ PositionsCount'
    OBVIOUS
  <1>0. /\ s \in [Fields -> Nat] /\ pos \in Nat /\ pos >= 1 /\ Len(text) \in Nat
        /\ {"load1", "load5", "load15", "uptime", "freq", "file", "cores", "used"} \subseteq Fields
    <2>1. {"load1", "load5", "load15", "uptime", "freq", "file", "cores", "used"} \subseteq Fields
      BY DEF Fields
    <2> QED BY <2>1 DEF TypeOK
  <1>1. CASE st = "open" /\ (Canceled \/ Unreadable \/ \E t \in Texts(source) : Open(t))
    <2>1. /\ pos = 1 /\ pos' = 1 /\ source' = source
          /\ s' = s \/ (source = "cpuinfo" /\ s' = [s EXCEPT !["cores"] = WithCores(s)])
      BY <1>1 DEF Canceled, Unreadable, Open, Fresh
    <2>2. \A i \in 1..3 : ValueAt(i) = 0 /\ ValueAt(i)' = 0
      BY <2>1 DEF ValueAt
    <2>3. PositionInv'
      BY <2>1, <1>0 DEF PositionInv
    <2>4. source # "cpuinfo" => s' = s
      BY <2>1
    <2>5. PositionsCount'
      BY <2>1, <2>2, <2>4 DEF PositionsCount
    <2> QED BY <2>3, <2>5
  <1>2. CASE Scans
    <2>1. /\ Step /\ source' = source /\ text' = text /\ pos' = pos + 1 /\ pos <= Len(text)
          /\ st = "scan"
      BY <1>2, ScanStep DEF Step
    <2>2. \A i \in 1..3 : ValueAt(i)' = IF i = pos THEN OrZero(Row.val) ELSE ValueAt(i)
      <3> SUFFICES ASSUME NEW i \in 1..3
                   PROVE  ValueAt(i)' = IF i = pos THEN OrZero(Row.val) ELSE ValueAt(i)
        OBVIOUS
      <3>1. ValueAt(i)' = IF i < pos + 1 /\ text[i].val # Bad THEN text[i].val ELSE 0
        BY <2>1 DEF ValueAt
      <3>2. i < pos + 1 <=> i = pos \/ i < pos
        BY <1>0
      <3>3. CASE i = pos
        BY <3>1, <3>3, <1>0 DEF OrZero, Row
      <3>4. CASE i # pos
        BY <3>1, <3>2, <3>4 DEF ValueAt
      <3> QED BY <3>3, <3>4
    <2>3. CASE parseLoadAvg
      <3>1. source = "loadavg"
        BY <2>3 DEF parseLoadAvg, Scanning
      <3>2. LoadKeys[1] = "load1" /\ LoadKeys[2] = "load5" /\ LoadKeys[3] = "load15"
        BY DEF LoadKeys
      <3>3. \A i \in 1..3 : s[LoadKeys[i]] = IF Len(text) >= 3 THEN ValueAt(i) ELSE 0
        BY <3>1 DEF PositionsCount
      <3>4. ASSUME NEW i \in 1..3
            PROVE  s'[LoadKeys[i]] = IF Len(text') >= 3 THEN ValueAt(i)' ELSE 0
        <4>1. CASE Len(text) >= 3 /\ pos <= 3
          <5>1. s' = [s EXCEPT ![LoadKeys[pos]] = OrZero(Row.val)]
            BY <4>1, <2>3 DEF parseLoadAvg, Store
          <5>2. \A j \in 1..3 : LoadKeys[j] \in Fields /\ (LoadKeys[j] = LoadKeys[i] => i = j)
            <6>1. 1..3 = {1, 2, 3}
              OBVIOUS
            <6>2. {LoadKeys[1], LoadKeys[2], LoadKeys[3]} \subseteq Fields
              BY <3>2, <1>0
            <6>3. /\ LoadKeys[1] # LoadKeys[2] /\ LoadKeys[1] # LoadKeys[3]
                  /\ LoadKeys[2] # LoadKeys[3]
              BY <3>2
            <6> HIDE DEF LoadKeys
            <6> QED BY <6>1, <6>2, <6>3
          <5>3. pos \in 1..3
            BY <4>1, <1>0
          <5>4. s'[LoadKeys[i]] = IF i = pos THEN OrZero(Row.val) ELSE s[LoadKeys[i]]
            BY <5>1, <5>2, <5>3, <1>0
          <5> QED BY <5>4, <4>1, <3>3, <2>1, <2>2
        <4>2. CASE ~(Len(text) >= 3 /\ pos <= 3)
          <5>1. s' = s
            BY <4>2, <2>3 DEF parseLoadAvg
          <5> QED BY <5>1, <4>2, <3>3, <2>1, <2>2, <1>0
        <4> QED BY <4>1, <4>2
      <3> QED BY <3>1, <3>4, <2>1 DEF PositionInv, PositionsCount
    <2>4. CASE parseUptime \/ khzToMHz \/ readTrim
      <3>1. /\ source \in {"uptime", "cpufreq", "dmi"} /\ st' = "done" /\ pos = 1
        BY <2>4, <2>1 DEF parseUptime, khzToMHz, readTrim, Scanning, Returns, PositionInv
      <3>2. ValueAt(1)' = OrZero(Row.val)
        BY <3>1, <2>2
      <3>3. /\ source = "uptime" => s'["uptime"] = OrZero(Row.val)
            /\ source = "cpufreq" => s'["freq"] = OrZero(Row.val) \div 1000
            /\ source = "dmi" => s'["file"] = OrZero(Row.val)
        BY <2>4, <1>0 DEF parseUptime, khzToMHz, readTrim, Scanning, Store
      <3> QED BY <3>1, <3>2, <3>3, <2>1 DEF PositionInv, PositionsCount
    <2>5. CASE parseCPUInfo
      <3>1. source = "cpuinfo" /\ s["freq"] = 0
        BY <2>5 DEF parseCPUInfo, Scanning, PositionInv
      <3>2. s'["freq"] = s["freq"]
        BY <2>5, <1>0 DEF parseCPUInfo, Store, CPUKeys
      <3> QED BY <3>1, <3>2, <2>1 DEF PositionInv, PositionsCount
    <2>6. CASE source \notin {"loadavg", "uptime", "cpufreq", "dmi", "cpuinfo"}
      BY <2>6, <2>1 DEF PositionInv, PositionsCount
    <2> QED BY <1>2, <2>3, <2>4, <2>5, <2>6 DEF Scans, Scanning, parseMemInfo, parseARCStats,
        parseOSRelease, parseBtime, parseDefaultRoute, parseIPv4ForIface,
        firstNonEmpty, countProcesses
  <1>3. CASE End
    <2>1. /\ UNCHANGED <<source, text, pos>> /\ st' = "done"
          /\ source \notin {"meminfo", "cpuinfo"} => s' = s
          /\ source = "cpuinfo" => s'["freq"] = s["freq"]
      BY <1>3, <1>0 DEF End
    <2>2. \A i \in 1..3 : ValueAt(i)' = ValueAt(i)
      BY <2>1 DEF ValueAt
    <2>3. PositionInv'
      BY <2>1 DEF PositionInv
    <2>4. PositionsCount'
      BY <2>1, <2>2 DEF PositionsCount
    <2> QED BY <2>3, <2>4
  <1>4. CASE ThenAddress \/ ThenFrequency
    <2>1. /\ source' \in {"fib_trie", "cpufreq"} /\ st' = "open" /\ pos' = 1 /\ s' = s
          /\ source' = "cpufreq" => source = "cpuinfo"
      BY <1>4 DEF ThenAddress, ThenFrequency
    <2>2. ValueAt(1)' \div 1000 = 0
      BY <2>1 DEF ValueAt
    <2> QED BY <2>1, <2>2 DEF PositionInv, PositionsCount
  <1>5. CASE UNCHANGED vars
    BY <1>5 DEF vars, PositionInv, PositionsCount, ValueAt
  <1> QED BY <1>1, <1>2, <1>3, <1>4, <1>5 DEF Next, Scans, Canceled, Unreadable

-----------------------------------------------------------------------------
IInv ==
    /\ TypeOK /\ Fresh /\ LastRowStored /\ FirstRowWins /\ Stops /\ VariantWins
    /\ UsedWithinTotal /\ AddressInv /\ FirstLocalAddress /\ CountsAreExact
    /\ PositionInv /\ PositionsCount

(* The invariant holds before a source is opened. *)
LEMMA InitIInv == Init => IInv
  <1> SUFFICES ASSUME Init PROVE IInv
    OBVIOUS
  <1>1. TypeOK /\ Fresh
    BY InitType
  <1>2. /\ pos = 1 /\ st = "open" /\ source # "fib_trie" /\ lastIP = 0
        /\ \A k \in Fields : s[k] = 0
    BY DEF Init
  <1>3. \A k : RowsFor(k) = {} /\ Filled(k) = {}
    BY <1>2 DEF RowsFor, Filled
  <1>4. LastRowStored
    BY <1>2, <1>3 DEF LastRowStored, LastKeys, LastOf, Fields
  <1>5. FirstRowWins
    BY <1>2, <1>3 DEF FirstRowWins, FirstOf, Fields
  <1>6. Stops /\ UsedWithinTotal
    BY <1>2 DEF Stops, UsedWithinTotal
  <1>7. VariantWins
    BY <1>2, <1>3 DEF VariantWins, FirstOf, Fields
  <1>8. AddressInv /\ FirstLocalAddress
    BY <1>2 DEF AddressInv, FirstLocalAddress, Fields
  <1>9. CountsAreExact
    <2>1. Processors = {} /\ Pids = {}
      BY <1>2 DEF Processors, Pids
    <2> QED BY <2>1, <1>2, FS_EmptySet DEF CountsAreExact, Processors, Pids, Fields
  <1>10. PositionInv /\ PositionsCount
    <2>1. /\ \A i \in 1..3 : ValueAt(i) = 0
          /\ s["uptime"] = 0 /\ s["freq"] = 0 /\ s["file"] = 0
          /\ s["load1"] = 0 /\ s["load5"] = 0 /\ s["load15"] = 0
      BY <1>2 DEF ValueAt, Fields
    <2>2. \A i \in 1..3 : s[LoadKeys[i]] = 0
      BY <2>1 DEF LoadKeys
    <2> QED BY <2>1, <2>2, <1>2 DEF PositionInv, PositionsCount
  <1> QED BY <1>1, <1>4, <1>5, <1>6, <1>7, <1>8, <1>9, <1>10 DEF IInv

(* Every step of every parser keeps the invariant. *)
LEMMA NextIInv == IInv /\ [Next]_vars => IInv'
  BY NextType, NextLast, NextFirst, NextVariant, NextUsed, NextAddress, NextCounts,
     NextPositions DEF IInv

(* Adding up at most four units one after the other, as UptimeReadsBack does: *)
(* the recursive definition has a solution, so it satisfies its equation. *)
LEMMA RunningSum ==
  ASSUME NEW u, Len(u) \in 1..4, \A i \in 1..Len(u) : u[i].n \in Nat /\ u[i].of \in Nat
  PROVE  LET Upto[i \in 0..Len(u)] == IF i = 0 THEN 0 ELSE Upto[i - 1] + u[i].n * u[i].of
         IN  /\ Upto[0] = 0
             /\ \A i \in 1..Len(u) : Upto[i] = Upto[i - 1] + u[i].n * u[i].of
  <1> DEFINE t(i) == u[i].n * u[i].of
             w == [i \in 0..Len(u) |-> IF i = 0 THEN 0
                                  ELSE IF i = 1 THEN t(1)
                                  ELSE IF i = 2 THEN t(1) + t(2)
                                  ELSE IF i = 3 THEN t(1) + t(2) + t(3)
                                  ELSE t(1) + t(2) + t(3) + t(4)]
             Is(f) == f = [i \in 0..Len(u) |-> IF i = 0 THEN 0 ELSE f[i - 1] + t(i)]
             Upto[i \in 0..Len(u)] == IF i = 0 THEN 0 ELSE Upto[i - 1] + u[i].n * u[i].of
  <1>0. /\ t(1) \in Int /\ (Len(u) >= 2 => t(2) \in Int)
        /\ (Len(u) >= 3 => t(3) \in Int) /\ (Len(u) = 4 => t(4) \in Int)
    <2>1. \A i \in 1..Len(u) : t(i) \in Int
      OBVIOUS
    <2> QED BY <2>1
  <1> HIDE DEF t
  <1>1. \A i \in 0..Len(u) : w[i] = IF i = 0 THEN 0 ELSE w[i - 1] + t(i)
    <2> SUFFICES ASSUME NEW i \in 0..Len(u), i # 0 PROVE w[i] = w[i - 1] + t(i)
      OBVIOUS
    <2>1. i \in {1, 2, 3, 4} /\ i - 1 \in 0..Len(u)
      OBVIOUS
    <2>2. w[i - 1] = IF i = 1 THEN 0 ELSE IF i = 2 THEN t(1)
                     ELSE IF i = 3 THEN t(1) + t(2) ELSE t(1) + t(2) + t(3)
      BY <2>1
    <2>3. w[i] = IF i = 1 THEN t(1) ELSE IF i = 2 THEN t(1) + t(2)
                 ELSE IF i = 3 THEN t(1) + t(2) + t(3) ELSE t(1) + t(2) + t(3) + t(4)
      BY <2>1
    <2> HIDE DEF w
    <2> QED BY <2>1, <2>2, <2>3, <1>0
  <1>2. Is(w)
    BY <1>1
  <1>3. Is(CHOOSE f : Is(f))
    BY <1>2
  <1>4. Upto = CHOOSE f : Is(f)
    BY DEF t
  <1> HIDE DEF Upto
  <1>5. Is(Upto)
    BY <1>3, <1>4
  <1>6. \A i \in 0..Len(u) : Upto[i] = IF i = 0 THEN 0 ELSE Upto[i - 1] + t(i)
    BY <1>5
  <1>7. /\ Upto[0] = 0
        /\ \A i \in 1..Len(u) : Upto[i] = Upto[i - 1] + t(i)
    BY <1>6
  <1> QED BY <1>7 DEF Upto, t

(* The division of a time into days, hours, minutes and seconds. *)
LEMMA UnitsOf ==
  ASSUME NEW sec \in Nat
  PROVE  LET d == sec \div 86400
             h == (sec % 86400) \div 3600
             m == (sec % 3600) \div 60
         IN  /\ d \in Nat /\ h \in 0..23 /\ m \in 0..59 /\ sec % 60 \in 0..59
             /\ sec = d * 86400 + h * 3600 + m * 60 + (sec % 60)
  <1> DEFINE d == sec \div 86400
             h == (sec % 86400) \div 3600
             m == (sec % 3600) \div 60
  <1>1. d \in Nat /\ h \in 0..23 /\ m \in 0..59 /\ sec % 60 \in 0..59
    OBVIOUS
  <1>2. sec = d * 86400 + h * 3600 + m * 60 + (sec % 60)
    OBVIOUS
  <1> QED BY <1>1, <1>2

(* Appending one unit to a sequence of units. *)
LEMMA LastUnit ==
  ASSUME NEW R, NEW e \in R, NEW q \in Seq(R), NEW r \in Seq(R),
         Len(r) = Len(q) + 1, \A i \in 1..Len(q) : r[i] = q[i], r[Len(q) + 1] = e
  PROVE  q \o <<e>> = r
  <1>1. <<e>> \in Seq(R) /\ Len(<<e>>) = 1 /\ <<e>>[1] = e
    OBVIOUS
  <1>2. q \o <<e>> \in Seq(R) /\ Len(q \o <<e>>) = Len(q) + 1
    BY <1>1
  <1>3. \A i \in 1..Len(r) : (q \o <<e>>)[i] = r[i]
    BY <1>1
  <1> QED BY <1>2, <1>3, SeqEqual

(* The concatenations formatUptime makes of its units. *)
LEMMA UnitTuples ==
  ASSUME NEW R, NEW d \in R, NEW h \in R, NEW m \in R, NEW c \in R
  PROVE  /\ <<d>> \o <<h>> \o <<m>> \o <<c>> = <<d, h, m, c>>
         /\ <<>> \o <<h>> \o <<m>> \o <<c>> = <<h, m, c>>
         /\ <<>> \o <<>> \o <<m>> \o <<c>> = <<m, c>>
         /\ <<>> \o <<>> \o <<>> \o <<c>> = <<c>>
  <1>0. \A e \in R : <<>> \o <<e>> = <<e>>
     OBVIOUS
  <1>1. ASSUME NEW a \in R, NEW b \in R PROVE <<a>> \o <<b>> = <<a, b>>
    <2> DEFINE q == <<a>>
               r == <<a, b>>
    <2>1. q \in Seq(R) /\ r \in Seq(R)
      OBVIOUS
    <2>2. Len(r) = Len(q) + 1 /\ (\A i \in 1..Len(q) : r[i] = q[i]) /\ r[Len(q) + 1] = b
      OBVIOUS
    <2> HIDE DEF q, r
    <2>3. q \o <<b>> = r
      BY <2>1, <2>2, LastUnit
    <2> QED BY <2>3 DEF q, r
  <1>2. ASSUME NEW a \in R, NEW b \in R, NEW f \in R PROVE <<a, b>> \o <<f>> = <<a, b, f>>
    <2> DEFINE q == <<a, b>>
               r == <<a, b, f>>
    <2>1. q \in Seq(R) /\ r \in Seq(R)
      OBVIOUS
    <2>2. Len(r) = Len(q) + 1 /\ (\A i \in 1..Len(q) : r[i] = q[i]) /\ r[Len(q) + 1] = f
      OBVIOUS
    <2> HIDE DEF q, r
    <2>3. q \o <<f>> = r
      BY <2>1, <2>2, LastUnit
    <2> QED BY <2>3 DEF q, r
  <1>3. <<d, h, m>> \o <<c>> = <<d, h, m, c>>
    <2> DEFINE q == <<d, h, m>>
               r == <<d, h, m, c>>
    <2>1. q \in Seq(R) /\ r \in Seq(R)
      OBVIOUS
    <2>2. Len(r) = Len(q) + 1 /\ (\A i \in 1..Len(q) : r[i] = q[i]) /\ r[Len(q) + 1] = c
      OBVIOUS
    <2> HIDE DEF q, r
    <2>3. q \o <<c>> = r
      BY <2>1, <2>2, LastUnit
    <2> QED BY <2>3 DEF q, r
  <1>4. <<>> \o <<>> = <<>>
     OBVIOUS
  <1>5. <<>> \o <<h>> = <<h>> /\ <<>> \o <<m>> = <<m>> /\ <<>> \o <<c>> = <<c>>
     BY <1>0
  <1>6. <<d>> \o <<h>> = <<d, h>> /\ <<h>> \o <<m>> = <<h, m>> /\ <<m>> \o <<c>> = <<m, c>> 
     BY <1>1
  <1>7. <<d, h>> \o <<m>> = <<d, h, m>> /\ <<h, m>> \o <<c>> = <<h, m, c>>
     BY <1>2
  <1> QED BY <1>6, <1>7, <1>3, <1>4, <1>5, Zenon

(* formatUptime leaves out the leading units that are zero and no others. *)
LEMMA UnitsShown ==
  ASSUME NEW cs \in Nat, cs >= 100
  PROVE  LET sec == cs \div 100
             d == [n |-> sec \div 86400, of |-> 86400]
             h == [n |-> (sec % 86400) \div 3600, of |-> 3600]
             m == [n |-> (sec % 3600) \div 60, of |-> 60]
             c == [n |-> sec % 60, of |-> 1]
         IN  formatUptime(cs) = IF d.n > 0 THEN <<d, h, m, c>>
                                ELSE IF h.n > 0 THEN <<h, m, c>>
                                ELSE IF m.n > 0 THEN <<m, c>>
                                ELSE <<c>>
  <1> DEFINE sec == cs \div 100
             d == [n |-> sec \div 86400, of |-> 86400]
             h == [n |-> (sec % 86400) \div 3600, of |-> 3600]
             m == [n |-> (sec % 3600) \div 60, of |-> 60]
             c == [n |-> sec % 60, of |-> 1]
  <1>1. formatUptime(cs) = (IF d.n > 0 THEN <<d>> ELSE <<>>) \o
                           (IF h.n > 0 \/ d.n > 0 THEN <<h>> ELSE <<>>) \o
                           (IF m.n > 0 \/ h.n > 0 \/ d.n > 0 THEN <<m>> ELSE <<>>) \o <<c>>
    BY DEF formatUptime
  <1> DEFINE R == {d, h, m, c}
  <1>0. /\ <<d>> \o <<h>> \o <<m>> \o <<c>> = <<d, h, m, c>>
        /\ <<>> \o <<h>> \o <<m>> \o <<c>> = <<h, m, c>>
        /\ <<>> \o <<>> \o <<m>> \o <<c>> = <<m, c>>
        /\ <<>> \o <<>> \o <<>> \o <<c>> = <<c>>
    <2> HIDE DEF d, h, m, c
    <2>1. d \in R /\ h \in R /\ m \in R /\ c \in R
      OBVIOUS
    <2> HIDE DEF R
    <2> QED BY <2>1, UnitTuples
  <1> HIDE DEF d, h, m, c, R
  <1>2. d.n > 0 => formatUptime(cs) = <<d, h, m, c>>
    BY <1>0, <1>1
  <1>3. ~(d.n > 0) /\ h.n > 0 => formatUptime(cs) = <<h, m, c>>
    BY <1>0, <1>1
  <1>4. ~(d.n > 0) /\ ~(h.n > 0) /\ m.n > 0 => formatUptime(cs) = <<m, c>>
    BY <1>0, <1>1
  <1>5. ~(d.n > 0) /\ ~(h.n > 0) /\ ~(m.n > 0) => formatUptime(cs) = <<c>>
    BY <1>0, <1>1
  <1>6. formatUptime(cs) = IF d.n > 0 THEN <<d, h, m, c>>
                                ELSE IF h.n > 0 THEN <<h, m, c>>
                                ELSE IF m.n > 0 THEN <<m, c>>
                                ELSE <<c>>
    BY <1>2, <1>3, <1>4, <1>5
  <1> QED BY <1>6 DEF d, h, m, c

(* What formatUptime shows of a natural number reads back. *)
LEMMA UptimeAddsUp == TypeOK => UptimeReadsBack
  <1> SUFFICES ASSUME TypeOK, source = "uptime", st = "done", s["uptime"] >= 100
               PROVE  UptimeReadsBack
    BY DEF UptimeReadsBack
  <1> DEFINE cs == s["uptime"]
             sec == cs \div 100
             d == sec \div 86400
             h == (sec % 86400) \div 3600
             m == (sec % 3600) \div 60
             c == sec % 60
             u == formatUptime(cs)
             Upto[i \in 0..Len(u)] == IF i = 0 THEN 0 ELSE Upto[i - 1] + u[i].n * u[i].of
  <1>1. cs \in Nat /\ sec \in Nat /\ sec >= 1
    BY DEF TypeOK, Fields
  <1> HIDE DEF sec, u
  <1>2. /\ d \in Nat /\ h \in 0..23 /\ m \in 0..59 /\ c \in 0..59
        /\ sec = d * 86400 + h * 3600 + m * 60 + c
    BY <1>1, UnitsOf
  <1>3. u = IF d > 0 THEN <<[n |-> d, of |-> 86400], [n |-> h, of |-> 3600],
                            [n |-> m, of |-> 60], [n |-> c, of |-> 1]>>
            ELSE IF h > 0 THEN <<[n |-> h, of |-> 3600], [n |-> m, of |-> 60],
                                 [n |-> c, of |-> 1]>>
            ELSE IF m > 0 THEN <<[n |-> m, of |-> 60], [n |-> c, of |-> 1]>>
            ELSE <<[n |-> c, of |-> 1]>>
    BY <1>1, UnitsShown DEF u, sec
  <1> HIDE DEF d, h, m, c
  <1>4. Len(u) \in 1..4 /\ \A i \in 1..Len(u) : u[i].n \in Nat /\ u[i].of \in Nat
    BY <1>2, <1>3
  <1>5. /\ Upto[0] = 0
        /\ \A i \in 1..Len(u) : Upto[i] = Upto[i - 1] + u[i].n * u[i].of
    BY <1>4, RunningSum
  <1> HIDE DEF Upto
  <1>6. Upto[Len(u)] = sec
    <2>1. CASE d > 0
      <3>1. /\ Len(u) = 4 /\ u[1].n = d /\ u[1].of = 86400 /\ u[2].n = h /\ u[2].of = 3600
            /\ u[3].n = m /\ u[3].of = 60 /\ u[4].n = c /\ u[4].of = 1
        BY <2>1, <1>3
      <3>2. /\ Upto[1] = Upto[0] + u[1].n * u[1].of /\ Upto[2] = Upto[1] + u[2].n * u[2].of
            /\ Upto[3] = Upto[2] + u[3].n * u[3].of /\ Upto[4] = Upto[3] + u[4].n * u[4].of
        BY <3>1, <1>5
      <3> QED BY <3>1, <3>2, <1>2, <1>5
    <2>2. CASE ~(d > 0) /\ h > 0
      <3>1. /\ Len(u) = 3 /\ u[1].n = h /\ u[1].of = 3600
            /\ u[2].n = m /\ u[2].of = 60 /\ u[3].n = c /\ u[3].of = 1
        BY <2>2, <1>3
      <3>2. /\ Upto[1] = Upto[0] + u[1].n * u[1].of /\ Upto[2] = Upto[1] + u[2].n * u[2].of
            /\ Upto[3] = Upto[2] + u[3].n * u[3].of
        BY <3>1, <1>5
      <3> QED BY <3>1, <3>2, <1>2, <1>5, <2>2
    <2>3. CASE ~(d > 0) /\ ~(h > 0) /\ m > 0
      <3>1. /\ Len(u) = 2 /\ u[1].n = m /\ u[1].of = 60 /\ u[2].n = c /\ u[2].of = 1
        BY <2>3, <1>3
      <3>2. /\ Upto[1] = Upto[0] + u[1].n * u[1].of /\ Upto[2] = Upto[1] + u[2].n * u[2].of
        BY <3>1, <1>5
      <3> QED BY <3>1, <3>2, <1>2, <1>5, <2>3
    <2>4. CASE ~(d > 0) /\ ~(h > 0) /\ ~(m > 0)
      <3>1. /\ Len(u) = 1 /\ u[1].n = c /\ u[1].of = 1
        BY <2>4, <1>3
      <3>2. /\ Upto[1] = Upto[0] + u[1].n * u[1].of
        BY <3>1, <1>5
      <3> QED BY <3>1, <3>2, <1>2, <1>5, <2>4
    <2> QED BY <2>1, <2>2, <2>3, <2>4
  <1>7. u[1].n > 0
    BY <1>1, <1>2, <1>3
  <1>8. \A i \in 2..Len(u) : u[i].n * u[i].of < u[i - 1].of
    <2>1. h * 3600 < 86400 /\ m * 60 < 3600 /\ c * 1 < 60
      BY <1>2
    <2>2. CASE d > 0
      <3>1. /\ Len(u) = 4 /\ u[1].of = 86400 /\ u[2].n = h /\ u[2].of = 3600
            /\ u[3].n = m /\ u[3].of = 60 /\ u[4].n = c /\ u[4].of = 1
        BY <1>3, <2>2
      <3>2. /\ u[2].n * u[2].of < u[2 - 1].of /\ u[3].n * u[3].of < u[3 - 1].of
            /\ u[4].n * u[4].of < u[4 - 1].of
        BY <2>1, <3>1
      <3>3. 2..Len(u) = {2, 3, 4}
        BY <3>1
      <3> QED BY <3>2, <3>3, Zenon
    <2>3. CASE ~(d > 0) /\ h > 0
      <3>1. /\ Len(u) = 3 /\ u[1].of = 3600 /\ u[2].n = m /\ u[2].of = 60
            /\ u[3].n = c /\ u[3].of = 1
        BY <1>3, <2>3
      <3>2. u[2].n * u[2].of < u[2 - 1].of /\ u[3].n * u[3].of < u[3 - 1].of
        BY <2>1, <3>1
      <3>3. 2..Len(u) = {2, 3}
        BY <3>1
      <3> QED BY <3>2, <3>3, Zenon
    <2>4. CASE ~(d > 0) /\ ~(h > 0) /\ m > 0
      <3>1. Len(u) = 2 /\ u[1].of = 60 /\ u[2].n = c /\ u[2].of = 1
        BY <1>3, <2>4
      <3>2. u[2].n * u[2].of < u[2 - 1].of
        BY <2>1, <3>1
      <3>3. 2..Len(u) = {2}
        BY <3>1
      <3> QED BY <3>2, <3>3, Zenon
    <2>5. CASE ~(d > 0) /\ ~(h > 0) /\ ~(m > 0)
      BY <1>3, <2>5
    <2> QED BY <2>2, <2>3, <2>4, <2>5, Zenon
  <1> QED BY <1>6, <1>7, <1>8 DEF UptimeReadsBack, Upto, u, sec

(* The invariant holds of every read of every source. *)
THEOREM IInvHolds == Spec => []IInv
  BY InitIInv, NextIInv, PTL DEF Spec

(* The parsers leave every field a natural number. *)
THEOREM TypeCorrect == Spec => []TypeOK
  <1>1. IInv => TypeOK
    BY DEF IInv
  <1> QED BY <1>1, IInvHolds, PTL

(* Every field but the used memory and the address is what the rows of its   *)
(* source make it, for texts of any length: the last row, the first, their   *)
(* number, VARIANT before VARIANT_ID, or a position (the parsers of          *)
(* sysinfo.go and arc.go). *)
THEOREM FieldsAreAsRead == Spec => []FieldsAsRead
  <1>1. IInv => FieldsAsRead
    BY StoredWins DEF IInv, FieldsAsRead
  <1> QED BY <1>1, IInvHolds, PTL

(* The first own address outside 127.0.0.0/8 is reported                     *)
(* (parseIPv4ForIface). *)
THEOREM AddressIsReported == Spec => []FirstLocalAddress
  <1>1. IInv => FirstLocalAddress
    BY DEF IInv
  <1> QED BY <1>1, IInvHolds, PTL

(* Used memory never exceeds the total (satSub). *)
THEOREM UsedIsBounded == Spec => []UsedWithinTotal
  <1>1. IInv => UsedWithinTotal
    BY DEF IInv
  <1> QED BY <1>1, IInvHolds, PTL

(* The uptime shown is the uptime read, to the second, for every uptime and  *)
(* not only at the boundaries a run tries (formatUptime). *)
THEOREM UptimeIsExact == Spec => []UptimeReadsBack
  BY TypeCorrect, UptimeAddsUp, PTL
=============================================================================
