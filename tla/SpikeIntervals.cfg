SPECIFICATION Spec
CONSTANTS
  k1 = k1
  k2 = k2
  Keys <- TwoKeys
  AlphaNum = 1
  AlphaDen = 3
  Scale = 27
  Interval = 2
  Den = 2
  Threshold = 7
  MinPackets = 2
  Floors = {0, 1}
  MaxTime = 6
  MaxPackets = 5
  MaxUpdates = 3
SYMMETRY KeySymmetry
INVARIANTS IntervalsPartitionPackets BaselineWithinHistory JumpsReported
CHECK_DEADLOCK FALSE
