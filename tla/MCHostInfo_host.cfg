CONSTANTS
    Sources = {"meminfo", "arcstats", "os-release", "cpuinfo", "cpufreq", "stat", "route", "fib_trie", "loadavg", "locale", "proc", "uptime", "dmi"}
    RowsOf <- MCRowsOf
    MaxRows <- MCMaxRows
    Word = 1048576
    NumCPU = 2
    Loopback = {127}
SPECIFICATION Spec
INVARIANTS FieldsAsRead FirstLocalAddress UsedWithinTotal UptimeReadsBack
CHECK_DEADLOCK FALSE
