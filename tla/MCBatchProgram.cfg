SPECIFICATION ConfigSpec
CONSTANTS
  av = av  film = film  radio = radio  data = data  nothing = nothing
  Main = Main
  Streams <- MCStreams
  Kind <- MCKind
  Channels <- MCChannels
  Selects <- MCSelects
  Lists <- MCLists
  Failures = {"open", "probe", "output", "audio"}
  Threads <- MCThreads
  NoThread = NoThread
  MaxList = 3
  MaxCalls = 3
INVARIANTS ConfigTypeOK CodecsAccounted ExitIsComplete DiesOfRejectionOnly
PROPERTIES ProgramSpec ImplementsLifecycle
CHECK_DEADLOCK FALSE
