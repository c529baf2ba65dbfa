SPECIFICATION FairComponentsSpec
CONSTANTS
  Modulus = 8
  Sections <- MCSections
  Bases = {0, 1, 6}
  MaxSections = 3
  Sizes = {0, 1, 3, 6}
  Alignments = {0, 1, 3, 4}
  OffsetBases = {0, 1, 6}
  MaxEntries = 3
  Users = {u1, u2}
  Slots = {1}
  OptionTexts = {v}
  Empty = Empty
  None = None
  kNames <- ThreeNames
  Directories <- MCDirectories
  fromCli = fromCli
  fromProfile = fromProfile
  Values = {fromCli, fromProfile}
  Unset = Unset
  Malformed = Malformed
  CountModulus = 4
  LongMax = 31
  MayFail = TRUE
  Requests <- MCRequests
  Threads = {t1, t2, t3}
  Rogue = {t3}
  CounterModulus = 5
  MaxCalls = 2
INVARIANTS
  LayoutSound
  StableOrder
  TrueMeansEndsFit
  RoomMeansSound
  HandlesBalanced
  LiveInstanceMapped
  LoadFindsAll
  EmitsOwnOptions
  AllReleased
  SessionAsRequested
  ZeroMeansLinked
  TypeOK
  CountIsOwners
PROPERTIES
  RebuildRepeats
  RefinesContract
  RefinesCounter
  ShutdownReturns
