SPECIFICATION Spec
CONSTANTS
  MaxPendingTts = 1
  Concurrency = 2
  MaxParts = 2
  MaxSegments = 4
  MaxGeneration = 2
INVARIANTS SubtitleOnce WorkConserving StreamedVoiceClosed
PROPERTIES VoiceInOrder OnlyCurrentSent
CHECK_DEADLOCK FALSE
