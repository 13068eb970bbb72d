SPECIFICATION PromptSpec
CONSTANTS
    Conns = {c1, c2}
    GraceTimers = {g1, g2}
    CapTimers = {s1, s2}
    NoTimer = NoTimer
    EXIT_ON_IDLE = {FALSE}
INVARIANT ServedStaysCapped
CHECK_DEADLOCK FALSE
