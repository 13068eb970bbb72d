SPECIFICATION FairSpec
CONSTANTS
    Conns = {c1, c2}
    GraceTimers = {g1, g2}
    CapTimers = {s1}
    NoTimer = NoTimer
    EXIT_ON_IDLE = {TRUE}
    Deployments <- SmallDeployments
    Garbage = Garbage
    NoConn = NoConn
INVARIANT ActivatorServedFirst
PROPERTIES QueuedIsServed IdleExits
CHECK_DEADLOCK FALSE
