SPECIFICATION Spec
CONSTANTS
  c1 = c1
  c2 = c2
  Callers <- TwoCallers
  MaxScans = 3
  Packets = 1
  Faults <- NoFaults
INVARIANT AtMostOneScan
