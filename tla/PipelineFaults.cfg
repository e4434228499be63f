SPECIFICATION Spec
CONSTANTS
  h1 = h1
  h2 = h2
  earlier = earlier
  Hosts <- TwoHosts
  Null = Null
  Scan = Scan
  Emitters <- TwoThreads
  Detectors <- ThreeDetectors
  HistorySize = 2
  Configured <- TwoSinks
  Failing <- ConsoleAndFile
  MaxAlerts = 16
  MaxWork = 2
  MaxScans = 2
SYMMETRY HostSymmetry
INVARIANTS EveryDetectorEveryPacket HostsReportedOnce HistoryIsLatest MissingHasCause NoSpuriousOutput
CHECK_DEADLOCK FALSE
