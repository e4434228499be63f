SPECIFICATION Spec
CONSTANTS
  h1 = h1
  h2 = h2
  earlier = earlier
  Hosts <- TwoHosts
  Null = Null
  Scan = Scan
  Emitters <- OnlyScan
  Detectors <- ThreeDetectors
  HistorySize = 2
  Configured <- OneSink
  Failing <- ConsoleAndFile
  MaxAlerts = 16
  MaxWork = 2
  MaxScans = 1
INVARIANT SeenIsReported
CHECK_DEADLOCK FALSE
