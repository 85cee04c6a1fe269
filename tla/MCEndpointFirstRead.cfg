CONSTANTS
  m1 = m1
  m2 = m2
  MessageIds = {m1, m2}
  WriteLengths = {1}
  ReadLengths = {2}
  FrameLengths = {1, 2}
  FifoDepth = 2
  MaxLag = 0
  kMaxEncodedFrameSize = 2
  DropModulus = 4
SPECIFICATION Spec
INVARIANTS ReadsOneFrame
