SPECIFICATION Spec
CONSTANTS
  s1 = s1
  s2 = s2
  d1 = d1
  p1 = p1
  p2 = p2
  p3 = p3
  Ports <- ThreePorts
  Sources <- TwoSources
  Targets <- OneTarget
  Window = 2
  Threshold = 2
  Cooldown = 3
  Start = 3
  MaxTime = 8
  MaxPackets = 4
  MaxSlips = 1
SYMMETRY Symmetries
INVARIANTS WindowExact ScansReportedOncePerCooldown
CHECK_DEADLOCK FALSE
