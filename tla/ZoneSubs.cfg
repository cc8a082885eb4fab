SPECIFICATION Spec
CONSTANTS
    z1 = z1
    z2 = z2
    r1 = r1
    near = near
    far = far
    NoPosition = NoPosition
    Zone = {z1, z2}
    Region = {r1}
    RegionOf <- MCRegionOf
    Anchor = {a1, a2}
    Position = {near, far}
    Coverage <- MCCoverage
    MaxRefs = 2
    MaxOpen = 3
    MaxNow = 2
    Recent = 1
    Stale = 2
    RecentTolerance = 2
    StaleTolerance = 1
    MaxPending = 2
INVARIANTS NeededIsOpen RegionHeldByItsZones GateFollowsManager
PROPERTIES ImplementsSticky
