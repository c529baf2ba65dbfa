SPECIFICATION Spec
CONSTANTS
  Sessions = {s1}
  Results = {r1}
  Paths = {p1}
  elf = elf
  pe = pe
  nElf = nElf
  nPe = nPe
  nLua = nLua
  Formats = {elf}
  PayloadSize <- MCPayloadSize
  BuiltinNames = {nElf}
  LuaNames = {}
  OtherNames = {}
  DefOf <- MCDefOf
  DefaultName = nElf
  LogLevels = {}
  CallbackModes = {FALSE}
  Configs <- LiveConfigs
  LookupsThrow = FALSE
  Empty = Empty
  NoDef = NoDef
  NoResult = NoResult
  MaxInputs = 1
  MaxOptions = 0
  MaxDepth = 1
INVARIANTS
  FailureDiagnosed
