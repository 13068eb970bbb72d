SPECIFICATION Spec
CONSTANTS
    Conns = {c1, c2}
    GraceTimers = {g1}
    CapTimers = {s1}
    NoTimer = NoTimer
    EXIT_ON_IDLE = {FALSE, TRUE}
    Keys = {zpool}
    Loops = {l1, l2}
    NoChan = NoChan
    MaxGen = 1
    MaxFetch = 0
SYMMETRY Symmetry
INVARIANTS NoClientSeesSessionEnded ParkedCachesNothing ServedIsRefreshed
PROPERTY ImplementsZeroCost
CHECK_DEADLOCK FALSE
