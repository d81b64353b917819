SPECIFICATION Spec
CONSTANTS
    q0 = q0
    q4 = q4
    b0 = b0
    b3 = b3
    b4 = b4
    h0 = h0
    h1 = h1
    h3 = h3
    h4 = h4
    Stores = {v1, v2, p}
    Registrars = {v1, v2}
    Requests = {q1}
    Bases = {b1}
    Hashes = {h1}
    CasOf <- MCCasOf
    DigestOf <- MCDigestOf
    EnvelopeOf <- MCEnvelopeOf
    LegacyBases = {}
    Entries = {e1}
    Images = {i1}
    InitialIndex <- EmptyIndex
    NoRequest = NoRequest
    NoReceipt = NoReceipt
    UnknownBasis = UnknownBasis
    NoStore = NoStore
    MaxInflight = 1
    MaxEpoch = 2
    MaxFaults = 3
INVARIANTS
    AckedSurvivesPowerLoss
    NoPhantomRecords
PROPERTIES
    NothingErased
