SPECIFICATION Spec
CONSTANTS
  MaxSessions = 2
  MaxGeneration = 3
  MaxEpoch = 2
  MaxSentences = 2
INVARIANTS VoiceOfThisPosition GenerationsAgree
PROPERTIES CuesOfThisSession
CHECK_DEADLOCK FALSE
