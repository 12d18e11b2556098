SPECIFICATION Spec
CONSTANTS
  MaxSessions = 1
  MaxGeneration = 2
  MaxEpoch = 1
  MaxSentences = 1
INVARIANTS NewPositionIsVoiced
CHECK_DEADLOCK FALSE
