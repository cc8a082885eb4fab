SPECIFICATION ClockSpec
CONSTANTS
  Window = 4
  StaleMs = 6144
  DelayInit = 1536
  ClientDelayInit = 3072
  ClientDelayMin = 1536
  ClientDelayMax = 5120
  Latencies = {0, 768, 1536, 2304}
  Queued = {}
  AheadTol = 256
  BehindTol = 8192
  LateDrift = FALSE
  ServerSteps = {}
  MaxSamples = 8
  MaxCalls = 0
  MaxSteps = 0
INVARIANT ClockTypeOK
PROPERTIES SteadyConverges
CHECK_DEADLOCK FALSE
