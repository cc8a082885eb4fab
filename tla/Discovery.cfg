SPECIFICATION FairDiscoverySpec
CONSTANTS
  Me = S3
  Other = P1
  NoPlayer = NoPlayer
  Inside = Inside
  P1 = P1
  P2 = P2
  P3 = P3
  S1 = S1
  S2 = S2
  S3 = S3
  Chest = Chest
  Box = Box
  Bundle = Bundle
  A = A
  B = B
  Far = Far
  Card <- MCCard
  Owner <- MCOwner
  PlayerSoul <- MCPlayerSoul
  Container <- MCContainer
  Versions <- MCVersions
  Viewport = {A, B}
  MaxTime = 2
CHECK_DEADLOCK FALSE
INVARIANTS SoulsAnchored OnlyOurs
PROPERTIES EverySoulIsFound
