SPECIFICATION WatchedSpec
CONSTANTS
    slow = slow
    slower = slower
    quick = quick
    Root = {r1}
    Soul = {s1, s2}
    Match = {slow, quick}
    Cid = {c1}
    NoSoul = NoSoul
    NoMatch = NoMatch
    NoCid = NoCid
    Priority <- MCPriority
    Instant = {quick}
    Debounce = 2
    Grace = 1
    Budget = 2
    MaxRetries = 1
    Gaps = {1}
    Lossy = TRUE
INVARIANTS
    ResubmitsBounded
    NoAnswerOrphaned
PROPERTIES
    WindowHonoured
    IdleRootIsEvaluated
    WaitingEnds
