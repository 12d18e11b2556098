SPECIFICATION FairSpec
CONSTANTS
  Syntheses <- Calls
  Bypass <- Cancels
  Requests <- AllRequests
  CancelRequest <- CancelOf
  MaxQueueSize = 1
  MaxChildren = 2
  maxConcurrentRequests = 2
INVARIANTS OneWorker SlotsConserved
PROPERTIES CancelledWhenStale SynthesesSettle
CHECK_DEADLOCK FALSE
