SPECIFICATION Spec
CONSTANTS
  Sessions = {s1}
  Results = {r1, r2}
  Paths = {p1}
  elf = elf
  pe = pe
  nElf = nElf
  nPe = nPe
  nLua = nLua
  Formats = {elf}
  PayloadSize <- MCPayloadSize
  BuiltinNames = {nElf}
  LuaNames = {nLua}
  OtherNames = {}
  DefOf <- MCDefOf
  DefaultName = nElf
  LogLevels = {4}
  CallbackModes = {TRUE}
  Configs <- ReentryConfigs
  LookupsThrow = TRUE
  Empty = Empty
  NoDef = NoDef
  NoResult = NoResult
  MaxInputs = 1
  MaxOptions = 0
  MaxDepth = 2
SYMMETRY ResultSymmetry
INVARIANTS
  TypeOK
  ResultOwnership
  OkMeansNoErrors
  RejectionReportedOnce
