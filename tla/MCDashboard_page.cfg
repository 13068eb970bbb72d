CONSTANT Drives = {d1, d2}
SPECIFICATION FairSpec
INVARIANTS PillTellsTheTruth CapTabsNeverDead OneInterval
PROPERTIES RoundsDoNotOverlap PauseHolds VisibleKeepsRefreshing
