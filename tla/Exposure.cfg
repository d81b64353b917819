SPECIFICATION Spec
CONSTANTS
    Tools = {tool}
    Data = {data}
    VaultReaders = {v}
    PaletteReaders = {p}
    MaxChanges = 4
    MaxRequests = 1
    MaxFailures = 1
    MaxCrashes = 1
INVARIANTS
    ServedWasShown
    MissesNothing
    IndexedIsReadable
CHECK_DEADLOCK FALSE
