SPECIFICATION SupportSpec
CONSTANTS
  SignBit = 4
  Bases = {0, 2, 7}
  Offered <- MCOffered
  MaxRecords <- MCMaxRecords
  Builders = {b1, b2}
  XxhStates = {x1, x2}
  NoState = NoState
  Seeds = {1, 2}
  Chunks <- MCChunks
  MaxFed = 3
  Clients = {c1, c2}
  FilePaths = {"f"}
  EmptyPath = ""
  Missing = Missing
  Payloads <- MCPayloads
  NullData = NullData
  BufferLimit = 2
  Tasks = {"work", "add", "clear", "run", "throw"}
  TaskDoes <- MCTaskDoes
  NoTask = NoTask
  MaxTasks = 3
  MaxRuns = 2
  CacheKeys = {"k1", "k2"}
  EmptyKey = ""
  Schemas = {1, 2}
  Iterators = {it1, it2}
  IrKinds = {"files", "symbols"}
  Unknown = Unknown
  Images = {"image"}
  NoImage = NoImage
  CountOf <- MCCountOf
  Callers = {t1, t2}
  Spellings = {"A", "x", "X", "y"}
  Fold <- MCFold
  Builtins <- MCBuiltins
  KindOf <- MCKindOf
  NoKind = NoKind
  NoDef = NoDef
  Unreadable = Unreadable
  BadSpec = BadSpec
  Contents <- MCContents
  Profiles = 2
CHECK_DEADLOCK FALSE
INVARIANTS
  OrderIndependent
  TiesInArrivalOrder
  NoZeroAlignment
  FindsLeast
  AppliedIsExact
  StatesOwned
  DigestOfAllBytes
  ReadsHonest
  QuietCallsKept
  RunsInOrder
  HitIsCompatible
  DeliversExactly
  HandedOutComplete
  OneMeaning
  AnswersCorrect
