SPECIFICATION MlSpec
CONSTANTS
  BufferSize = 4
  RetrainEvery = 4
  Warmup = 2
  FitMayRaise = TRUE
  MaxMlPackets = 13
INVARIANTS FlaggedByFreshModel ReadyAfterWarmup
CHECK_DEADLOCK FALSE
