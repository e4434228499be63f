SPECIFICATION FairSpec
CONSTANTS
  c1 = c1
  c2 = c2
  Callers <- OneCaller
  MaxScans = 3
  Packets = 2
  Faults <- Tolerated
INVARIANTS TypeOK AtMostOneScan StatusIsOwn FailedCaptureReported NoSnifferLeak StopLeavesIdle
PROPERTIES ReplayIsComplete SlotSpec FailedCaptureEndsScan ReplaySettlesIdle
