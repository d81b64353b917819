SPECIFICATION Spec
CONSTANTS
    N = 3
    Layouts <- MCLayouts
    LinkHeaders <- MCLinkHeaders
    PageSize = 2
    MaxPages = 2
    MaxInspections = 1
    MaxChanges = 1
CHECK_DEADLOCK FALSE
INVARIANTS
    WitnessIsGenuine
    AbsenceIsConfirmed
PROPERTIES
    WitnessEnds
