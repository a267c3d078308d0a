SPECIFICATION Spec
CONSTANTS
  Kinds = {"work", "robust"}
  MaxTrans = 2
  MaxStatements = 2
  Mishaps = {}
  MaxQueries = 3
  MaxRetain = 2
  Transient = FALSE
  Rows = {0, 1, 3}
  Strides = {1, 2}
  Iterators = {i1, i2}
  MaxPos = 3
  MaxAvoidance = 1
  Bytes = {7, 255}
  bufsize = 2
  MaxSize = 3
  Channels = {1, 2}
  PerChannel = {1, 2}
  MaxArrived = 2
  MaxDepth = 2
  Names = {x, y}
  MaxColumns = 3
  MaxRows = 2
  Other = 1
  Wrap = 16
  Encodings = {utf8}
  MONOBYTE = latin1
  MaxAttempts = 3
INVARIANTS
  CommittedIsExact
  AbortedIsGone
  DoubtIsAllOrNothing
  NothingLeftOpen
  SettingsAgree
  LogTellsTheTruth
  RightAnswer
  CulpritBlamed
  NeverUndefined
  NeverStray
  KeepsItsPlace
  RetrievedIsAsked
  IteratorsSeeTheirBlocks
  AreasDoNotShow
  EveryoneIsTold
  NamesStayInTheSlice
  IteratorsKeepStep
  OnceAndToldSo
