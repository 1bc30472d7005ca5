SPECIFICATION MediaSpec
CONSTANTS
  OutIndices = {0, 1}
  MaxInterleaveDelta = 8000
  Num = 15015
  Den = 4
  Jitters <- MCJitters
  DecoderHolds = 1
  EncoderHolds = 2
  Troubles = {"decode", "encode", "write"}
  MaxTroubles = 2
  Inputs <- MCInputs
  BufSize = 3
  Skew = 0
  Formats <- MCFormats
  Delay = 1
  Mishaps = {"init", "nopts", "frame"}
  MaxPackets = 7
INVARIANTS MediaTypeOK PicturesAccounted VideoAligned StraysAreDelayed InputDelivered MissingTail
PROPERTIES MemoryInputEnds ImplementsProcess
CHECK_DEADLOCK FALSE
