SPECIFICATION SpeechSpec
CONSTANTS
  MaxStreams = 2
  MaxChunks = 3
  MaxCrashes = 1
  MaxBuffered = 2
  MaxBatch = 2
  MaxFailures = 2
  MaxCancelled = 1
CONSTRAINT Explored
CHECK_DEADLOCK FALSE
INVARIANTS SpokenOnceInOrder SessionsEnd
PROPERTY AudioMovesOn
