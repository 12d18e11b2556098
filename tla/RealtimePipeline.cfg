SPECIFICATION FairSpec
CONSTANTS
  Keys = {1, 2}
  MaxPendingFinals = 1
  MaxFinals = 2
  MaxGeneration = 2
  MaxPendingTts = 1
  Concurrency = 1
  MaxParts = 2
PROPERTIES BothHalves SentSpeechIsCurrent SpeechSettles
CHECK_DEADLOCK FALSE
