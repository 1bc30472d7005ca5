SPECIFICATION Spec
CONSTANTS
  Formats <- LayerII
  Delay = 2
  Mishaps = {}
  MaxPackets = 10000
INVARIANT AudioAligned
CHECK_DEADLOCK FALSE
