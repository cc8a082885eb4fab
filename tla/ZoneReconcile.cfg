SPECIFICATION FairSpec
CONSTANTS
    z1 = z1
    z2 = z2
    r1 = r1
    Zone = {z1, z2}
    Region = {r1}
    RegionOf <- MCRegionOf
    Spawnable = {z1}
    Cid = {c1, c2}
    NoHash = NoHash
    NoCid = NoCid
    MaxPush = 1
    MaxDeletes = 1
INVARIANTS NoCallOutlivesItsNeed
PROPERTIES TrackedZoneMaterializes
