SPECIFICATION FairSpec
CONSTANTS
    Conns = {c1, c2}
    GraceTimers = {g1, g2}
    CapTimers = {s1, s2}
    NoTimer = NoTimer
    EXIT_ON_IDLE = {TRUE, FALSE}
INVARIANTS NoServingAsleep IdleAwakeWillPark CapReachesEveryConn ExitLosesAtMostOne
PROPERTIES IdleParks VictimsLeave AcceptedIsServed
CHECK_DEADLOCK FALSE
