SPECIFICATION FairSystemSpec
CONSTANTS
  av = av  h1 = h1  h2 = h2  j1 = j1  j2 = j2
  Streams <- MCStreams
  Kind <- MCKind
  Channels <- MCChannels
  Selects <- MCSelects
  Lists <- MCLists
  Failures = {}
  Threads <- TwoThreads
  Handlers <- MCHandlers
  Jobs <- TwoJobs
  NoThread = NoThread
  NoHandler = NoHandler
  Offered = {"set_push", "avio_file", "process", "stop", "called"}
  OperatorMay = {}
  MaxList = 6
  MaxCalls = 6
  MaxRequests = 6
  MaxRuns = 2
INVARIANT DeathNeedsSecondProcess
PROPERTY RequestsAnswered
CHECK_DEADLOCK FALSE
