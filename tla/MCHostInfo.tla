----------------------------- MODULE MCHostInfo -----------------------------
EXTENDS HostInfo

Rows(k, V) == {[key |-> k, val |-> v] : v \in V}

MCRowsOf == [f \in Sources |->
    CASE f = "meminfo" -> Rows("MemTotal", {3, Bad}) \cup Rows("MemAvailable", {0, 1, 5})
                          \cup Rows("MemFree", {1}) \cup Rows("Cached", {1023}) \cup Rows("SwapCached", {2})
      [] f = "arcstats" -> Rows("hits", {1, 2, Bad}) \cup Rows("misses", {1}) \cup Rows("other", {3})
      [] f = "os-release" -> Rows("ID", {0, 1, Bad}) \cup Rows("VARIANT", {0, 1})
                             \cup Rows("VARIANT_ID", {0, 2, 4}) \cup Rows("other", {3})
      [] f = "cpuinfo" -> Rows("model name", {0, 1, 2}) \cup Rows("cpu cores", {4, Bad})
                          \cup Rows("processor", {0, 1}) \cup Rows("cpu MHz", {2})
      [] f = "cpufreq" -> Rows("khz", {0, 2000, Bad})
      [] f = "stat" -> Rows("cpu", {7}) \cup Rows("btime", {5, 6, Bad})
      [] f = "route" -> Rows("other", {3}) \cup Rows("default", {1, 2, Bad})
      [] f = "fib_trie" -> Rows("addr", {0, 1, 2, 127}) \cup Rows("local", {0}) \cup Rows("other", {0})
      [] f = "loadavg" -> Rows("load", {1, 2, Bad})
      [] f = "locale" -> Rows("env", {0, 1, 2})
      [] f = "proc" -> Rows("dir", {1, Bad}) \cup Rows("file", {1})
      [] f = "uptime" -> Rows("uptime", {Bad, 0, 99, 100, 5999, 6000, 359999, 360000, 366100,
                                         8639999, 8640000, 8646000, 9000000, 17652345})
      [] OTHER -> Rows("string", {0, 1})]

MCMaxRows == [f \in Sources |-> IF f \in {"uptime", "cpufreq", "dmi"} THEN 1 ELSE IF f = "locale" THEN 3 ELSE 5]
=============================================================================
