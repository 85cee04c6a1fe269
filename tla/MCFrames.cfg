CONSTANTS
  ByteModulus = 8
  kFrameMagic = 5
  kProtocolVersion = 1
  kMaxPayloadSize = 4
  FieldCount = 1
  SentFrames <- StreamFrames
  MaxFaults = 3
  Published <- PublishedFrames
  PadBytes = {0, 7}
SPECIFICATION LinksSpec
INVARIANTS CandidateBounded IntactFrameDelivered LossBounded ReadGivesTheFrame CorruptionNoticed
