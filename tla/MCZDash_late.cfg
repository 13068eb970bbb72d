SPECIFICATION Spec
CONSTANTS
    Conns = {c1}
    GraceTimers = {g1}
    CapTimers = {s1}
    NoTimer = NoTimer
    EXIT_ON_IDLE = {FALSE}
    Keys = {zpool}
    Loops = {l1, l2}
    NoChan = NoChan
    MaxGen = 2
    MaxFetch = 0
INVARIANT NoLateFetchServed
CHECK_DEADLOCK FALSE
