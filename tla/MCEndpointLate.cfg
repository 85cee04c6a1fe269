CONSTANTS
  m1 = m1
  m2 = m2
  MessageIds = {m1, m2}
  WriteLengths = {2}
  ReadLengths = {3}
  FrameLengths = {2}
  FifoDepth = 2
  MaxLag = 1
  kMaxEncodedFrameSize = 3
  DropModulus = 3
SYMMETRY Symmetry
VIEW View
SPECIFICATION Spec
INVARIANTS LateFrame ReadShifted
