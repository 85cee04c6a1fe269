CONSTANTS
  HalfRange = 3
  NodeIds = {0}
  Sequences = {0, 1}
  PayloadLengths = {0, 2}
  kMaxPayloadSize = 2
  kMaxPendingTransmissions = 1
  timeout_ms = 2
  policy_max_attempts = 2
  kReceivePoll = 1
  kHeartbeatInterval = 5
  kCommandInterval = 6
  Endpoints = {"wire"}
  QuickRestart = TRUE
  MaxLosses = 2
SPECIFICATION CommandSpec
INVARIANTS AcceptedMeansReceived
