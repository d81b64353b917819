SPECIFICATION Spec
CONSTANTS
    i1 = i1
    i2 = i2
    k1 = k1
    k2 = k2
    t1 = t1
    t2 = t2
    Images = {i1, i2}
    Keys = {k1, k2}
    Tools = {t1, t2}
    NoKey = NoKey
    None = None
    ImageOf <- MCImageOf
    Checks <- MCChecks
    Submitted <- MCSubmitted
    Scans <- MCScans
    EarlierIndexes <- Earlier
    MaxFailures = 1
    MaxCrashes = 1
INVARIANTS
    CertificationsAreProven
    CatalogIsEarned
PROPERTIES
    SurvivorKeepsItsEntry
