SPECIFICATION FairSpec
CONSTANTS
    Names = {"sda", "nvme0"}
    MaxDevices = 2
    smartTimeout = 5
    perDeviceTimeout = 2
INVARIANTS SweepBounded ReportInScanOrder FailingDriveSurfaces
PROPERTIES CutOnlyAtBudget SweepEnds
