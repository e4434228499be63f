SPECIFICATION Spec
CONSTANTS
  i1 = i1
  i2 = i2
  m1 = m1
  m2 = m2
  IPs <- TwoIPs
  Macs <- TwoMacs
  Gateways <- Gateway
  Cooldown = 2
  Start = 2
  MaxTime = 6
  MaxPackets = 5
SYMMETRY MacSymmetry
INVARIANTS TableIsLatest MovesReported
CHECK_DEADLOCK FALSE
