SPECIFICATION FairSpec
CONSTANTS
  Sessions = {s1}
  Results = {r1}
  Paths = {p1}
  elf = elf
  pe = pe
  nElf = nElf
  nPe = nPe
  nLua = nLua
  Formats = {elf}
  PayloadSize <- MCPayloadSize
  BuiltinNames = {nElf}
  LuaNames = {}
  OtherNames = {nBad}
  DefOf <- MCDefOf
  DefaultName = nElf
  LogLevels = {}
  CallbackModes = {TRUE}
  Configs <- LiveConfigs
  LookupsThrow = FALSE
  Empty = Empty
  NoDef = NoDef
  NoResult = NoResult
  MaxInputs = 1
  MaxOptions = 1
  MaxDepth = 2
PROPERTIES
  RunReturns
