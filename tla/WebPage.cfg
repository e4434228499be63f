SPECIFICATION WebSpec
CONSTANTS
  p1 = p1
  p2 = p2
  Page = Page
  Callers <- ThePage
  Modes <- Sources
  Polls <- TwoPolls
  Suspicious <- AnyPacket
  MaxScans = 2
  Packets = 1
  Faults <- Endings
INVARIANTS IdleAnswerIsFinal AlertsAreCounted
CHECK_DEADLOCK FALSE
PROPERTY PageCatchesUp
