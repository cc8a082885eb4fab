SPECIFICATION Spec
CONSTANTS
  MaxPathSteps = 3
  Start <- MCStart
  Targets <- MCTargets
  Cost <- MCCost
  Second = 1
  Speed = 1
  Skews = {0}
  Unloaded={}
  Prompt = TRUE
  None = None
  MaxTime = 4
  MaxWalks = 2
  MaxExtras = 1
PROPERTY ConfirmedByItsStep
CHECK_DEADLOCK FALSE
