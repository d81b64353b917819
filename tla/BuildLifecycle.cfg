SPECIFICATION FairSpec
CONSTANTS
    Builds = {b1}
    Specs = {tool, function}
    FunctionSpecs = {function}
    NoSpec = NoSpec
    MaxFaults = 3
    MaxCrashes = 2
INVARIANTS
    NoSilentlyStuckBuild
    SucceededIsUsable
    BuiltAtMostOnce
PROPERTIES
    StatusMovesForward
    WatchEnds
