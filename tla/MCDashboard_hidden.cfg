CONSTANT Drives = {d1}
SPECIFICATION FairSpec
PROPERTY HiddenTabPausesPolling
