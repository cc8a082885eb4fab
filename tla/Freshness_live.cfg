SPECIFICATION FairSpec
CONSTANTS
    Card = {c1}
    Root = {r1, r2}
    MaxTime = 2
    MaxVersions = 2
    MaxTiles = 0
PROPERTIES
    InForceIsEvaluated
