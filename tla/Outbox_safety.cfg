SPECIFICATION PacedSpec
CONSTANTS
    Hash = {h1, h2}
    Cid = {c1, c2, c3}
    NoHash = NoHash
    NoCid = NoCid
    TTL = 1
    BackoffBase = 1
    BackoffCap = 2
    MaxShift = 1
    PromiseTimeouts = {0, 2}
    Long = 3
SYMMETRY Perms
INVARIANTS
    TypeOK
    CidsMatchCalls
PROPERTIES
    SentOnceWhileInFlight
    OnlyOwnAckRetires
    ImplementsContract
    RetriesBackOff
