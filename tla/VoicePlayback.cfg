SPECIFICATION Spec
CONSTANTS
  MaxSegments = 3
  MaxParts = 2
  MaxLength = 1
  MaxStops = 1
  MaxBacklog = 1
  Fallback = 2
  MaxOpen = 1
  MaxQueued = 1
CHECK_DEADLOCK FALSE
INVARIANTS VoicesInTurn BacklogBounded SubtitleWithVoice
PROPERTY EverySubtitleShown
