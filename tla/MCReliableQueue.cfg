CONSTANTS
  HalfRange = 2
  NodeIds = {0, 1}
  Sequences = {0, 1}
  PayloadLengths = {0, 1}
  kMaxPayloadSize = 0
  kMaxPendingTransmissions = 2
  timeout_ms = 2
  policy_max_attempts = 2
SPECIFICATION Spec
INVARIANTS TypeOK UniqueKeys DeadlineTracksAge
PROPERTIES RetrySpec
VIEW WhatCounts
