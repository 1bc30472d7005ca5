SPECIFICATION Spec
CONSTANTS
  av = av  radio = radio
  t1 = t1  t2 = t2  t3 = t3
  Streams <- MCStreams
  Kind <- MCKind
  Channels <- MCChannels
  Selects <- MCSelects
  Lists <- MCLists
  Failures = {"alloc", "open", "probe", "output", "audio", "map"}
  Threads = {t1, t2, t3}
  NoThread = NoThread
  MaxList = 2
  MaxCalls = 3
INVARIANTS TypeOK Mutex StatusIsAttributed QuiescentStateIsTerminal OutputsListed
PROPERTIES NoFreeUnderTranscode FirstBindingWins StopIsForever
CHECK_DEADLOCK FALSE
SYMMETRY Symmetry
