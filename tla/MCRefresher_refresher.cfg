SPECIFICATION FairSpec
CONSTANTS
    Handlers = {h1}
    Keys = {zpool, bogus}
    Producers = {zpool}
    Loops = {l1, l2}
    NoChan = NoChan
    MaxGen = 1
    MaxFetch = 2
INVARIANTS SingleFlight CacheOfThisSession MonotonicReads OneLiveLoop
PROPERTIES WaitersReleased EndedLoopsReturn SessionGetsWarm
