SPECIFICATION Spec
CONSTANTS
    p1 = p1
    p2 = p2
    z1 = z1
    z2 = z2
    Card = {c1, c2}
    Pos = {p1, p2}
    Zone = {z1, z2}
    ZoneOf <- MCZoneOf
    Carrier = {c2}
    NoPos = NoPos
    MaxTime = 1
    ServerStamps <- MCFewStamps
    MaxRows = 1
INVARIANTS
    NoMoveForgotten
    SharedSpaceIsSynced
