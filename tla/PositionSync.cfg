SPECIFICATION Spec
CONSTANTS
    p1 = p1
    p2 = p2
    z1 = z1
    z2 = z2
    Card = {c1}
    Pos = {p1, p2}
    Zone = {z1, z2}
    ZoneOf <- MCZoneOf
    Carrier = {}
    NoPos = NoPos
    MaxTime = 2
    ServerStamps <- MCServerStamps
    MaxRows = 2
INVARIANTS LocalMoveSticks NoMoveForgotten SharedSpaceIsSynced
PROPERTIES ArrivingHoldIsSeen
