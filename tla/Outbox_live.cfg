SPECIFICATION FairSpec
CONSTANTS
    Hash = {h1, h2}
    Cid = {c1, c2}
    NoHash = NoHash
    NoCid = NoCid
    TTL = 1
    BackoffBase = 1
    BackoffCap = 2
    MaxShift = 1
    PromiseTimeouts = {2}
PROPERTIES
    NeverLatched
    WantedGetsDone
