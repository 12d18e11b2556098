SPECIFICATION HostSpec
CONSTANTS
  Tabs = {tabA, tabB}
  NoTab = noTab
  MaxRecords = 2
  MaxRestarts = 1
CONSTRAINT Explored
INVARIANTS CapturesEnd
PROPERTIES KeepsToManager
CHECK_DEADLOCK FALSE
