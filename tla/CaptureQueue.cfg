SPECIFICATION FairSpec
CONSTANTS
  QueueSize = 2
  MaxArrivals = 6
  MayRaise = TRUE
INVARIANTS EveryPacketAccounted SeenInOrder FinalCountExact StopSkipsBacklog
PROPERTIES QueueDrains
CHECK_DEADLOCK FALSE
