SPECIFICATION Spec
CONSTANTS
    slow = slow
    slower = slower
    quick = quick
    Root = {r1, r2}
    Soul = {s1}
    Match = {slow, quick}
    Cid = {c1, c2}
    NoSoul = NoSoul
    NoMatch = NoMatch
    NoCid = NoCid
    Priority <- MCPriority
    Instant = {quick}
    Debounce = 3
    Grace = 2
    Budget = 1
    MaxRetries = 1
    Gaps = {1, 2}
    Lossy = TRUE
INVARIANTS
    TypeOK
    NoAnswerOrphaned
PROPERTIES
    ProposesWhatIsLive
