SPECIFICATION FairSystemSpec
CONSTANTS
  av = av  h1 = h1  h2 = h2  j1 = j1  j2 = j2
  Streams <- MCStreams
  Kind <- MCKind
  Channels <- MCChannels
  Selects <- MCSelects
  Lists <- MCLists
  Failures = {"probe", "output", "audio"}
  Threads <- OneThreads
  Handlers <- MCHandlers
  Jobs <- OneJob
  NoThread = NoThread
  NoHandler = NoHandler
  Offered = {"set_push", "avio_file", "process", "stop", "called"}
  OperatorMay = {"called", "stop"}
  MaxList = 6
  MaxCalls = 6
  MaxRequests = 6
  MaxRuns = 1
INVARIANTS ClientTypeOK DeathNeedsRejection LoopIsStoppable AcceptedChannelRouted AvioAnswerTruthful
PROPERTY ImplementsLifecycle
CHECK_DEADLOCK FALSE
