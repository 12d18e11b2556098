SPECIFICATION FairSpec
CONSTANTS
  Keys = {1, 2, 3, 4}
  MaxPendingFinals = 2
  MaxFinals = 5
  MaxGeneration = 2
INVARIANTS TypeOK HeldFragmentScheduled FinalQueueBounded
PROPERTIES OnlyCurrentSpeechPublished PublishedOnceInOrder NothingWaitsForEver
CHECK_DEADLOCK FALSE
