SPECIFICATION FairSpec
CHECK_DEADLOCK FALSE
CONSTANTS
  starter = starter
  reader = reader
  Call <- Calls
  Asks <- CallAsks
  Labels <- OneLabel
  MaxFiles = 1
  MaxOutput = 2
  StartErrorIsFinal = TRUE
  NoRequest = NoRequest
INVARIANTS GateInv SecretsMasked FollowerSawAll
PROPERTIES OutcomeKept FollowerEnds OutcomeRecorded
