SPECIFICATION Spec
CONSTANTS
    Calls = {c1}
    MaxUpdates = 5
CHECK_DEADLOCK FALSE
INVARIANTS
    ReportIsTrue
    NothingLeftBehind
PROPERTIES
    CallEnds
