SPECIFICATION ServerSpec
CONSTANTS
  av = av  radio = radio
  h1 = h1  h2 = h2  j1 = j1  j2 = j2
  Streams <- MCStreams
  Kind <- MCKind
  Channels <- OneChannel
  Selects <- OneSelects
  Lists <- NoChannels
  Failures = {}
  Threads <- MCThreads
  Handlers <- MCHandlers
  Jobs <- MCJobs
  NoThread = NoThread
  Offered = {"set_push", "avio_memory", "avio_file", "process", "stop", "called"}
  MaxList = 4
  MaxCalls = 4
  MaxRequests = 4
INVARIANT MemoryInputReadable
CHECK_DEADLOCK FALSE
