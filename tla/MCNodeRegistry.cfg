CONSTANTS
  HalfRange = 3
  kMaxNodes = 2
  ObservedIds = {0, 1, 2}
  Sequences = {0, 1}
  timeout_ms = 2
SPECIFICATION Spec
INVARIANTS TypeOK LastSeenTracksSilence
PROPERTIES MonitorSpec
