SPECIFICATION FairSpec
CONSTANTS
  av = av  radio = radio
  t1 = t1  t2 = t2  t3 = t3
  Streams <- MCStreams
  Kind <- MCKind
  Channels <- GoodChannels
  Selects <- GoodSelects
  Lists <- OneList
  Failures = {"alloc", "probe", "output"}
  Threads = {t1, t2}
  NoThread = NoThread
  MaxList = 1
  MaxCalls = 3
PROPERTIES StopDrains CallsReturn
CHECK_DEADLOCK FALSE
