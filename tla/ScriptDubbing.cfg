SPECIFICATION ScriptSpec
CONSTANTS
  Sentences = 2
  Slot = 2
  MaxLength = 3
  Lookahead = 3
  Ahead = 1
  Preparation = 1
  MinRemaining = 1
  MaxLate = 0
  SendBatch = 2
  MaxQueued = 1
  MaxSeeks = 2
  MaxPauses = 1
  MaxModeChanges = 1
CONSTRAINT Explored
CHECK_DEADLOCK FALSE
INVARIANTS VoiceInPlace NothingForgotten ScriptLoopSound
