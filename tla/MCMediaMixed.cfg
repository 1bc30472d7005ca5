SPECIFICATION MediaSpec
CONSTANTS
  OutIndices = {0, 1}
  MaxInterleaveDelta = 20000
  Num = 15015
  Den = 4
  Jitters = {0}
  DecoderHolds = 0
  EncoderHolds = 0
  Troubles = {}
  MaxTroubles = 0
  Inputs <- MCLong
  BufSize = 3
  Skew = 9000
  Formats <- OneFormat
  Delay = 0
  Mishaps = {}
  MaxPackets = 20
INVARIANTS Interleaved
CHECK_DEADLOCK FALSE
