------------------------------ MODULE HostInfo ------------------------------
(***************************************************************************)
(* The reading of the host behind /api/sysinfo and /api/arc: sysinfo.go    *)
(* and arc.go.  fetchSysInfo is a sequence of sections, each of which      *)
(* opens one source, scans it and fills its own fields of SysInfo; no      *)
(* section looks at another's fields, so a behaviour here is one section,  *)
(* or one read of the ARC kstat.                                           *)
(*                                                                         *)
(* A text is a sequence of rows: lines, fields, directory entries or       *)
(* environment variables.  A row has a key and a value; the value is Bad   *)
(* where the row is too short or its number does not parse.  Strings are   *)
(* numbers too, the empty one is 0, so 0 is Go's zero value of any field.  *)
(***************************************************************************)
EXTENDS Integers, Sequences, FiniteSets

CONSTANTS
    Sources,    \* the sources that are read
    RowsOf,     \* RowsOf[f]: the rows source f may have
    MaxRows,    \* bound: MaxRows[f] rows in source f
    Word,       \* 2^64: the range of a uint64
    NumCPU,     \* runtime.NumCPU()
    Loopback    \* the addresses in 127.0.0.0/8

Bad == -1
MemKeys == {"MemTotal", "MemFree", "MemAvailable", "Cached", "SwapTotal", "SwapFree"}
ARCKeys == {"hits", "misses"}
OSKeys == {"ID", "PRETTY_NAME", "VERSION", "VERSION_CODENAME", "BUILD_ID"}
CPUKeys == {"model name", "vendor_id", "cpu cores", "cpu MHz"}
LoadKeys == <<"load1", "load5", "load15">>

Fields ==
    MemKeys \cup ARCKeys \cup OSKeys \cup CPUKeys \cup
    {"used", "VARIANT", "processor", "cores", "load1", "load5", "load15", "btime",
     "default", "ip", "env", "pid", "uptime", "file", "freq"}

(* An environment variable is any string, so no row of the locale is Bad; an *)
(* address to read needs the FIB among the sources, a frequency the cpufreq  *)
(* files. *)
ASSUME HostAssumption ==
    /\ Word \in Nat \ {0} /\ NumCPU \in Nat \ {0}
    /\ Loopback \subseteq Nat \ {0}
    /\ \A f \in Sources : MaxRows[f] \in Nat
    /\ \A f \in Sources : RowsOf[f] \subseteq [key : STRING, val : Nat \cup {Bad}]
    /\ "locale" \in Sources => RowsOf["locale"] \subseteq [key : {"env"}, val : Nat]
    /\ {"fib_trie", "cpufreq"} \subseteq Sources

VARIABLES
    source,   \* the source of the section
    st,       \* "open", "scan" or "done"
    text,     \* what it held when it was read
    pos,      \* the next row
    lastIP,   \* parseIPv4ForIface's variable
    s,        \* SysInfo or ARCMetrics: the fields filled so far
    failed    \* an error is returned

vars == <<source, st, text, pos, lastIP, s, failed>>

Row == text[pos]

TypeOK ==
    /\ source \in Sources
    /\ st \in {"open", "scan", "done"}
    /\ text \in Seq(RowsOf[source])
    /\ pos \in 1..(Len(text) + 1)
    /\ lastIP \in Nat
    /\ s \in [Fields -> Nat]
    /\ failed \in BOOLEAN

-----------------------------------------------------------------------------
Texts(f) == UNION {[1..n -> RowsOf[f]] : n \in 0..MaxRows[f]}

(* Every cpuinfo section ends with the fallback for the logical cores. *)
WithCores(r) == IF r["processor"] = 0 THEN NumCPU ELSE r["processor"]

(* The context is over before the fetch begins: the only error of           *)
(* fetchSysInfo, and one of fetchARC.  It is not looked at again. *)
Canceled ==
    /\ st = "open" /\ source \notin {"fib_trie", "cpufreq"}
    /\ st' = "done"
    /\ failed' = TRUE
    /\ UNCHANGED <<source, text, pos, lastIP, s>>

(* os.ReadFile fails: the section leaves its fields zero; only the ARC kstat *)
(* must be readable. *)
Unreadable ==
    /\ st = "open"
    /\ st' = "done"
    /\ s' = IF source = "cpuinfo" THEN [s EXCEPT !["cores"] = WithCores(s)] ELSE s
    /\ failed' = (source = "arcstats")
    /\ UNCHANGED <<source, text, pos, lastIP>>

(* os.ReadFile returns what the source holds at this moment.  A kstat        *)
(* without its two header lines is an error. *)
Open(t) ==
    /\ st = "open"
    /\ text' = t
    /\ pos' = 1
    /\ failed' = (source = "arcstats" /\ Len(t) < 2)
    /\ st' = IF failed' THEN "done" ELSE "scan"
    /\ UNCHANGED <<source, lastIP, s>>

(* One iteration of the loop over the rows of source f. *)
Scanning(f) ==
    /\ source = f /\ st = "scan" /\ pos <= Len(text)
    /\ pos' = pos + 1
    /\ UNCHANGED <<source, text, failed>>

Goes == st' = "scan"
Returns == st' = "done"
Store(k, v) == s' = [s EXCEPT ![k] = v]

(* The zero a strconv error leaves behind. *)
OrZero(v) == IF v = Bad THEN 0 ELSE v

parseMemInfo ==
    /\ Scanning("meminfo") /\ Goes
    /\ IF Row.key \in MemKeys /\ Row.val # Bad
       THEN Store(Row.key, (Row.val * 1024) % Word) ELSE UNCHANGED s
    /\ UNCHANGED lastIP

(* Rows 1 and 2 are the kstat's header. *)
parseARCStats ==
    /\ Scanning("arcstats") /\ Goes
    /\ IF pos > 2 /\ Row.key \in ARCKeys /\ Row.val # Bad
       THEN Store(Row.key, Row.val) ELSE UNCHANGED s
    /\ UNCHANGED lastIP

(* Faulty: VARIANT_ID overwrites VARIANT. *)
parseOSReleaseIDWins ==
    /\ Scanning("os-release") /\ Goes
    /\ IF Row.key \in OSKeys \cup {"VARIANT", "VARIANT_ID"} /\ Row.val # Bad
       THEN Store(IF Row.key = "VARIANT_ID" THEN "VARIANT" ELSE Row.key, Row.val)
       ELSE UNCHANGED s
    /\ UNCHANGED lastIP

(* VARIANT_ID fills in for a VARIANT that is missing or empty so far. *)
parseOSRelease ==
    /\ Scanning("os-release") /\ Goes
    /\ IF Row.key \in OSKeys \cup {"VARIANT"} /\ Row.val # Bad
       THEN Store(Row.key, Row.val)
       ELSE IF Row.key = "VARIANT_ID" /\ Row.val # Bad /\ s["VARIANT"] = 0
       THEN Store("VARIANT", Row.val) ELSE UNCHANGED s
    /\ UNCHANGED lastIP

(* The first row of each kind that is neither empty nor zero, and the number *)
(* of processor rows. *)
parseCPUInfo ==
    /\ Scanning("cpuinfo") /\ Goes
    /\ IF Row.key = "processor" THEN Store("processor", s["processor"] + 1)
       ELSE IF Row.key \in CPUKeys /\ Row.val # Bad /\ s[Row.key] = 0
       THEN Store(Row.key, Row.val) ELSE UNCHANGED s
    /\ UNCHANGED lastIP

(* The first btime row decides, parsable or not. *)
parseBtime ==
    /\ Scanning("stat")
    /\ IF Row.key = "btime" THEN Store("btime", OrZero(Row.val)) /\ Returns
       ELSE UNCHANGED s /\ Goes
    /\ UNCHANGED lastIP

(* The first complete row after the header whose destination is 0.0.0.0. *)
parseDefaultRoute ==
    /\ Scanning("route")
    /\ IF pos > 1 /\ Row.key = "default" /\ Row.val # Bad
       THEN Store("default", Row.val) /\ Returns ELSE UNCHANGED s /\ Goes
    /\ UNCHANGED lastIP

(* Faulty: every address will do. *)
UsableAny(a) == TRUE

(* The addresses parseIPv4ForIface accepts; 0 stands for none and 0.0.0.0. *)
Usable(a) == a # 0 /\ a \notin Loopback

(* An address row is remembered; a host LOCAL row resolves it. *)
parseIPv4ForIface ==
    /\ Scanning("fib_trie")
    /\ IF Row.key = "addr" THEN lastIP' = OrZero(Row.val) /\ UNCHANGED s /\ Goes
       ELSE /\ UNCHANGED lastIP
            /\ IF Row.key = "local" /\ Usable(lastIP)
               THEN Store("ip", lastIP) /\ Returns ELSE UNCHANGED s /\ Goes

(* Three fields or nothing; one that does not parse is zero. *)
parseLoadAvg ==
    /\ Scanning("loadavg")
    /\ IF Len(text) >= 3 /\ pos <= 3 THEN Store(LoadKeys[pos], OrZero(Row.val)) /\ Goes
       ELSE UNCHANGED s /\ Returns
    /\ UNCHANGED lastIP

(* $LC_ALL, $LC_MESSAGES, $LANG in this order. *)
firstNonEmpty ==
    /\ Scanning("locale")
    /\ IF Row.val # 0 THEN Store("env", Row.val) /\ Returns ELSE UNCHANGED s /\ Goes
    /\ UNCHANGED lastIP

(* The directories of /proc with a numeric name. *)
countProcesses ==
    /\ Scanning("proc") /\ Goes
    /\ IF Row.key = "dir" /\ Row.val # Bad THEN Store("pid", s["pid"] + 1) ELSE UNCHANGED s
    /\ UNCHANGED lastIP

(* The first field of /proc/uptime. *)
parseUptime ==
    /\ Scanning("uptime") /\ Returns
    /\ Store("uptime", OrZero(Row.val))
    /\ UNCHANGED lastIP

(* A cpufreq file: kHz, reported in MHz (the model's are whole). *)
khzToMHz ==
    /\ Scanning("cpufreq") /\ Returns
    /\ Store("freq", OrZero(Row.val) \div 1000)
    /\ UNCHANGED lastIP

(* A file with one string: the DMI and kernel names. *)
readTrim ==
    /\ Scanning("dmi") /\ Returns
    /\ Store("file", OrZero(Row.val))
    /\ UNCHANGED lastIP

(* Faulty: no clamp, so the difference wraps. *)
satSubWraps(a, b) == (a - b) % Word

satSub(a, b) == IF b >= a THEN 0 ELSE a - b

(* Used memory, from MemAvailable where the kernel has it. *)
MemoryUsed(r) ==
    satSub(r["MemTotal"], IF r["MemAvailable"] > 0 THEN r["MemAvailable"]
                          ELSE (r["MemFree"] + r["Cached"]) % Word)

(* The scan is over; what the section still computes. *)
End ==
    /\ st = "scan" /\ pos > Len(text)
    /\ st' = "done"
    /\ s' = CASE source = "meminfo" -> [s EXCEPT !["used"] = MemoryUsed(s)]
              [] source = "cpuinfo" -> [s EXCEPT !["cores"] = WithCores(s)]
              [] OTHER -> s
    /\ UNCHANGED <<source, text, pos, lastIP, failed>>

(* With a default route the FIB is read for an address, a moment later. *)
ThenAddress ==
    /\ source = "route" /\ st = "done" /\ s["default"] # 0
    /\ source' = "fib_trie" /\ st' = "open"
    /\ text' = <<>> /\ pos' = 1
    /\ UNCHANGED <<lastIP, s, failed>>

(* Without a "cpu MHz" row the current cpufreq reading stands in for it. *)
ThenFrequency ==
    /\ source = "cpuinfo" /\ st = "done" /\ s["cpu MHz"] = 0 /\ ~failed
    /\ source' = "cpufreq" /\ st' = "open"
    /\ text' = <<>> /\ pos' = 1
    /\ UNCHANGED <<lastIP, s, failed>>

(* Faulty: the hours are not reduced modulo a day. *)
formatUptimeTotalHours(cs) ==
    LET sec == cs \div 100
    IN  IF cs < 100 THEN <<>>
        ELSE LET d == sec \div 86400
                 h == sec \div 3600
                 m == (sec % 3600) \div 60
             IN  (IF d > 0 THEN <<[n |-> d, of |-> 86400]>> ELSE <<>>) \o
                 (IF h > 0 THEN <<[n |-> h, of |-> 3600]>> ELSE <<>>) \o
                 (IF m > 0 \/ h > 0 THEN <<[n |-> m, of |-> 60]>> ELSE <<>>) \o
                 <<[n |-> sec % 60, of |-> 1]>>

(* The units shown for an uptime of cs hundredths of a second, /proc/uptime's *)
(* resolution; below a second a dash. *)
formatUptime(cs) ==
    LET sec == cs \div 100
        d == sec \div 86400
        h == (sec % 86400) \div 3600
        m == (sec % 3600) \div 60
    IN  IF cs < 100 THEN <<>>
        ELSE (IF d > 0 THEN <<[n |-> d, of |-> 86400]>> ELSE <<>>) \o
             (IF h > 0 \/ d > 0 THEN <<[n |-> h, of |-> 3600]>> ELSE <<>>) \o
             (IF m > 0 \/ h > 0 \/ d > 0 THEN <<[n |-> m, of |-> 60]>> ELSE <<>>) \o
             <<[n |-> sec % 60, of |-> 1]>>

-----------------------------------------------------------------------------
Init ==
    /\ source \in Sources \ {"fib_trie"}
    /\ st = "open" /\ text = <<>> /\ pos = 1 /\ lastIP = 0
    /\ s = [f \in Fields |-> 0]
    /\ failed = FALSE

Next ==
    \/ Canceled \/ Unreadable \/ (st = "open" /\ \E t \in Texts(source) : Open(t))
    \/ parseMemInfo \/ parseARCStats \/ parseOSRelease \/ parseCPUInfo
    \/ parseBtime \/ parseDefaultRoute \/ parseIPv4ForIface \/ parseLoadAvg
    \/ firstNonEmpty \/ countProcesses \/ parseUptime \/ khzToMHz \/ readTrim
    \/ End \/ ThenAddress \/ ThenFrequency

Spec == Init /\ [][Next]_vars

-----------------------------------------------------------------------------
(* The rows read so far that say something about field k. *)
Header == IF source = "arcstats" THEN 2 ELSE IF source = "route" THEN 1 ELSE 0
RowsFor(k) == {i \in 1..(pos - 1) : i > Header /\ text[i].key = k /\ text[i].val # Bad}
Filled(k) == {i \in RowsFor(k) : text[i].val # 0}

(* The value row i stands for, and the keys whose last row counts. *)
Read(i) == IF source = "meminfo" THEN (text[i].val * 1024) % Word ELSE text[i].val
LastKeys ==
    CASE source = "meminfo" -> MemKeys [] source = "arcstats" -> ARCKeys
      [] source = "os-release" -> OSKeys [] OTHER -> {}

(* In meminfo and the ARC kstat the last row of a key that parses is         *)
(* reported, in os-release if it is not empty, and no value is reported that *)
(* no row of the key has: a row of another key, a short or an unparsable one *)
(* never changes a field (parseMemInfo, parseARCStats, parseOSRelease). What *)
(* an empty last row of os-release does is left open: parseOSRelease stores  *)
(* it, its comment says that empty values are skipped. *)
LastRowWins ==
    \A k \in LastKeys :
        /\ s[k] # 0 => \E i \in RowsFor(k) : s[k] = Read(i)
        /\ \A i \in RowsFor(k) :
              (/\ \A j \in RowsFor(k) : j <= i
               /\ source = "os-release" => text[i].val # 0) => s[k] = Read(i)

FirstOf(S, k) ==
    \/ S = {} /\ s[k] = 0
    \/ \E i \in S : s[k] = text[i].val /\ \A j \in S : i <= j

(* In cpuinfo, the locale variables, /proc/stat and the routing table the    *)
(* first row that says something is reported: the scan stops there, or no    *)
(* later row overwrites it (parseCPUInfo, firstNonEmpty, parseBtime,         *)
(* parseDefaultRoute). *)
FirstRowWins ==
    /\ source = "cpuinfo" => \A k \in CPUKeys : FirstOf(Filled(k), k)
    /\ source = "locale" => FirstOf(Filled("env"), "env")
    /\ source = "stat" => FirstOf(RowsFor("btime"), "btime")
    /\ source = "route" => FirstOf(RowsFor("default"), "default")

(* A snapshot counts every logical core and every process once, and reports  *)
(* the runtime's number of cores where cpuinfo names none or is unreadable   *)
(* (parseCPUInfo, countProcesses, fetchSysInfo). *)
CountsAreExact ==
    /\ source = "cpuinfo" =>
          s["processor"] = Cardinality({i \in 1..(pos - 1) : text[i].key = "processor"})
    /\ source = "proc" =>
          s["pid"] = Cardinality({i \in 1..(pos - 1) : text[i].key = "dir" /\ text[i].val # Bad})
    /\ source = "cpuinfo" /\ st = "done" /\ ~failed =>
          s["cores"] = IF s["processor"] > 0 THEN s["processor"] ELSE NumCPU

(* "VARIANT must win over VARIANT_ID": the last VARIANT row is reported      *)
(* unless it is empty, whatever VARIANT_ID rows stand before or after it;    *)
(* without a VARIANT row the first VARIANT_ID that is not empty stands in    *)
(* for it (parseOSRelease). *)
VariantWins ==
    source = "os-release" =>
        /\ \A i \in RowsFor("VARIANT") :
              (text[i].val # 0 /\ \A j \in RowsFor("VARIANT") : j <= i) =>
                  s["VARIANT"] = text[i].val
        /\ RowsFor("VARIANT") = {} => FirstOf(Filled("VARIANT_ID"), "VARIANT")
        /\ s["VARIANT"] # 0 =>
              \E i \in Filled("VARIANT") \cup Filled("VARIANT_ID") : s["VARIANT"] = text[i].val

(* The number in row i, zero until the row is read and where it does not parse. *)
ValueAt(i) == IF i < pos /\ text[i].val # Bad THEN text[i].val ELSE 0

(* The load averages are the first three fields, or all zero where there are *)
(* fewer; the uptime, a frequency in MHz and a DMI name are the one value of *)
(* their file; what does not parse is zero (parseLoadAvg, parseUptime,       *)
(* khzToMHz, readTrim). *)
PositionsCount ==
    /\ source = "loadavg" =>
          \A i \in 1..3 : s[LoadKeys[i]] = IF Len(text) >= 3 THEN ValueAt(i) ELSE 0
    /\ source = "uptime" => s["uptime"] = ValueAt(1)
    /\ source = "cpufreq" => s["freq"] = ValueAt(1) \div 1000
    /\ source = "dmi" => s["file"] = ValueAt(1)

(* Every field but the used memory (UsedWithinTotal) and the address         *)
(* (FirstLocalAddress) is what the rows read so far make it, whatever stands *)
(* around them: the last row of a key, the first, their number, VARIANT      *)
(* before VARIANT_ID, or a position, by the rule of its source (the parsers  *)
(* of sysinfo.go and arc.go). *)
FieldsAsRead ==
    LastRowWins /\ FirstRowWins /\ CountsAreExact /\ VariantWins /\ PositionsCount

(* Row i marks the address of row h, the last address row before it. *)
Marks(h, i) ==
    /\ text[i].key = "local" /\ text[h].key = "addr"
    /\ \A j \in (h + 1)..(i - 1) : text[j].key # "addr"

(* The address reported is the first in the table that is marked as the      *)
(* host's own and is not a loopback address, and it comes with an interface; *)
(* none is reported only if there is none (parseIPv4ForIface). *)
FirstLocalAddress ==
    source = "fib_trie" =>
        /\ s["default"] # 0
        /\ s["ip"] \notin Loopback
        /\ s["ip"] # 0 =>
             \E h \in 1..(pos - 1) : Marks(h, pos - 1) /\ text[h].val = s["ip"]
        /\ \A i \in 1..(pos - 1) : \A h \in 1..(i - 1) :
             (Marks(h, i) /\ text[h].val \notin Loopback \cup {0, Bad}) =>
                s["ip"] # 0 /\ i = pos - 1

(* Used memory never exceeds the total and completes MemAvailable to it,     *)
(* although the counters are unsigned and a kernel may report inconsistent   *)
(* ones (satSub, fetchSysInfo). *)
UsedWithinTotal ==
    (source = "meminfo" /\ st = "done") =>
        /\ s["used"] <= s["MemTotal"]
        /\ (s["MemAvailable"] \in 1..s["MemTotal"]) =>
              s["used"] + s["MemAvailable"] = s["MemTotal"]

(* The uptime shown is the uptime read, to the second: the units add up to   *)
(* it, the largest is not zero and no other reaches the one before it        *)
(* (formatUptime). *)
UptimeReadsBack ==
    (source = "uptime" /\ st = "done" /\ s["uptime"] >= 100) =>
        LET u == formatUptime(s["uptime"])
            Upto[i \in 0..Len(u)] == IF i = 0 THEN 0 ELSE Upto[i - 1] + u[i].n * u[i].of
        IN  /\ Upto[Len(u)] = s["uptime"] \div 100
            /\ u[1].n > 0
            /\ \A i \in 2..Len(u) : u[i].n * u[i].of < u[i - 1].of
=============================================================================
