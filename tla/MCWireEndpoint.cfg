CONSTANTS
  MessageIds = {"a", "b"}
  WriteLengths = {0, 1, 2, 3}
  FrameLengths = {1, 2}
  kMaxEncodedFrameSize = 2
SPECIFICATION Spec
INVARIANTS TypeOK
PROPERTIES LatestMailboxSpec
