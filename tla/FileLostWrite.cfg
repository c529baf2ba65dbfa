SPECIFICATION FileSpec
CONSTANTS
  Clients = {c1, c2}
  FilePaths = {"f"}
  EmptyPath = ""
  Missing = Missing
  Payloads <- MCPayloads
  NullData = NullData
  BufferLimit = 2
CHECK_DEADLOCK FALSE
INVARIANTS
  OkMeansStored
