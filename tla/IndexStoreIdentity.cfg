SPECIFICATION Spec
CONSTANTS
    q0 = q0
    q4 = q4
    b0 = b0
    b3 = b3
    b4 = b4
    h0 = h0
    h1 = h1
    h3 = h3
    h4 = h4
    Stores = {v1, v2}
    Registrars = {v1, v2}
    Requests = {q0, q1, q2, q4}
    Bases = {b0, b1, b2, b3, b4}
    Hashes = {h0, h1, h3, h4}
    CasOf <- MCCasOf
    DigestOf <- MCDigestOf
    EnvelopeOf <- MCEnvelopeOf
    LegacyBases = {b0}
    Entries = {}
    Images = {}
    InitialIndex <- EarlierIndex
    NoRequest = NoRequest
    NoReceipt = NoReceipt
    UnknownBasis = UnknownBasis
    NoStore = NoStore
    MaxInflight = 1
    MaxEpoch = 2
    MaxFaults = 1
INVARIANTS
    RegistryCoherent
    LegacyReplayOnly
PROPERTIES
    RegistrySpec
SYMMETRY Symmetry
