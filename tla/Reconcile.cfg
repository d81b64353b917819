SPECIFICATION FairSpec
CONSTANTS
    Tools = {t1}
    NoTool = NoTool
    Checkers = {fast, webhook}
    Loops = {fast}
    MaxBuilds = 2
    MaxChanges = 1
    MaxSaveFailures = 1
    MaxCrashes = 1
INVARIANTS
    HealthyIsEarned
PROPERTIES
    PhaseNeverReturns
    HealthConverges
