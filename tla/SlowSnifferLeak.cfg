SPECIFICATION Spec
CONSTANTS
  c1 = c1
  c2 = c2
  Callers <- OneCaller
  MaxScans = 2
  Packets = 1
  Faults <- SlowSniffer
INVARIANT NoSnifferLeak
