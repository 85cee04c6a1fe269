CONSTANTS
  HalfRange = 10
  kMaxNodes = 1
  PolledNodes = 1
  ObservedIds = {0}
  Sequences = {0}
  timeout_ms = 5
  kPollIntervalMs = 3
  LoopGap = 3
SPECIFICATION MonitoringSpec
INVARIANTS MonitoringTypeOK OfflineOnlyAfterMissedPolls OnlineOnlyWhileHeard
PROPERTIES DisconnectNoticed
