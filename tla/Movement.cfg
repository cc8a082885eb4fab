SPECIFICATION FairSpec
CONSTANTS
  MaxPathSteps = 3
  Start <- MCStart
  Targets <- MCTargets
  Cost <- MCCost
  Second = 1
  Speed = 1
  Skews = {0}
  Unloaded <- First1
  Prompt = TRUE
  None = None
  MaxTime = 4
  MaxWalks = 2
  MaxExtras = 1
CHECK_DEADLOCK FALSE
INVARIANTS PathShortest OnSchedule
PROPERTIES WalkCompletes
