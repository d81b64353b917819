SPECIFICATION ProfilesSpec
CONSTANTS
    Checks <- MCChecks
    Retain = 2
    MaxTime = 2
    MaxFailures = 1
    MaxCrashes = 1
INVARIANTS
    RetainedAreLatest
    RecordedWasPushed
    CleanupSparesRetained
CHECK_DEADLOCK FALSE
