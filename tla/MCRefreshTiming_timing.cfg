SPECIFICATION Spec
CONSTANTS
    Keys = {"zpool", "smart"}
    ttls <- MCttls
    budget <- MCbudget
    refreshTick = 5
    Slowest = 30
INVARIANTS StaleBounded WaitBounded
PROPERTY OneRunPerInterval
