SPECIFICATION Spec
CONSTANTS
    z1 = z1
    z2 = z2
    r1 = r1
    Zone = {z1}
    Region = {r1}
    RegionOf <- MCRegionOf
    Spawnable = {z1}
    Cid = {c1}
    NoHash = NoHash
    NoCid = NoCid
    MaxPush = 2
    MaxDeletes = 0
INVARIANT
    CacheIsOfSubscribedRegions
