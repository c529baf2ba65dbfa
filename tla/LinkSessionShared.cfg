SPECIFICATION Spec
CONSTANTS
  Sessions = {s1, s2}
  Results = {r1, r2}
  Paths = {p1}
  elf = elf
  pe = pe
  nElf = nElf
  nPe = nPe
  nLua = nLua
  Formats = {elf, pe}
  PayloadSize <- MCPayloadSize
  BuiltinNames = {nElf, nPe}
  LuaNames = {}
  OtherNames = {}
  DefOf <- MCDefOf
  DefaultName = nElf
  LogLevels = {}
  CallbackModes = {FALSE}
  Configs <- SharedConfigs
  LookupsThrow = FALSE
  Empty = Empty
  NoDef = NoDef
  NoResult = NoResult
  MaxInputs = 1
  MaxOptions = 0
  MaxDepth = 1
SYMMETRY HandleSymmetry
INVARIANTS
  InstancesBalanced
PROPERTIES
  OutputOnlyByOwner
  SoleWriterOwnsContent
