SPECIFICATION Spec
CONSTANTS
  Formats <- All
  Delay = 2
  Mishaps = {"init", "lost", "nopts", "decode", "frame", "encode", "write"}
  MaxPackets = 6
INVARIANTS AudioTypeOK SamplesAccounted FlushIsComplete StampsAccepted AudioAligned
CHECK_DEADLOCK FALSE
