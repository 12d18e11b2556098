SPECIFICATION FairSpec
CONSTANTS
  Tabs = {tabA, tabB}
  NoTab = noTab
  MaxRecords = 3
CONSTRAINT Explored
INVARIANTS ActiveIsLive OneRuntime StopWins
PROPERTIES LifecycleSettles
