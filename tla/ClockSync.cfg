SPECIFICATION ClockSpec
CONSTANTS
  Window = 3
  StaleMs = 6144
  DelayInit = 1536
  ClientDelayInit = 3072
  ClientDelayMin = 1536
  ClientDelayMax = 5120
  Latencies = {0, 384, 1152}
  Queued = {3840, 10240}
  AheadTol = 256
  BehindTol = 8192
  LateDrift = FALSE
  ServerSteps = {7168}
  MaxSamples = 5
  MaxCalls = 2
  MaxSteps = 1
CHECK_DEADLOCK FALSE
INVARIANTS NeverAhead NeverDeaf
PROPERTIES DriftReseats
