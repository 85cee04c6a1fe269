CONSTANTS
  Objects = {"a", "b", "c", "d"}
  m1 = m1
  m2 = m2
  MessageIds = {m1, m2}
  WriteLengths = {0, 1, 3}
  ReadLengths = {1, 3}
  FrameLengths = {2}
  FifoDepth = 2
  MaxLag = 0
  kMaxEncodedFrameSize = 2
  DropModulus = 3
SPECIFICATION PortSpec
INVARIANTS TypeOK BuffersApart NoTornRead BeginStays
PROPERTIES UnreadFrameKept MailboxSpec PublishUnblocked InterruptsServed
