SPECIFICATION Spec
CONSTANTS
    z1 = z1
    z2 = z2
    z3 = z3
    west = west
    east = east
    Soul = {s1}
    Zone = {z1, z2, z3}
    Card = {c1}
    Position = {west, east}
    NoPosition = NoPosition
    Coverage <- MCCoverage
    MaxMemory = 2
    MaxTime = 3
    MaxVersions = 3
INVARIANTS MemoryBounded
PROPERTIES RemembersAsLeft GcIsInvisible
