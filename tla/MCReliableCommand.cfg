CONSTANTS
  HalfRange = 3
  NodeIds = {0}
  Sequences = {0, 1}
  PayloadLengths = {0, 2}
  kMaxPayloadSize = 2
  kMaxPendingTransmissions = 1
  timeout_ms = 3
  policy_max_attempts = 3
  kReceivePoll = 1
  kHeartbeatInterval = 10
  kCommandInterval = 11
  Endpoints = {"pico", "wire"}
  QuickRestart = FALSE
  MaxLosses = 3
SPECIFICATION CommandSpec
INVARIANTS CommandTypeOK AcceptedMeansReceived NoFalseExhaustion SettledInTime
PROPERTIES EveryCommandReported
