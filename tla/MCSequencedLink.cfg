CONSTANTS
  HalfSpace = 3
  kMaxNodes = 1
  Senders = {0, 1}
  MaxSent = 14
  LogModulus = 6
  LoggedIds = {0, 1}
SPECIFICATION Spec
VIEW View
INVARIANTS TypeOK AppliedInOrder
PROPERTIES ClassifiedTruly SummaryTrue
