SPECIFICATION CliSpec
CONSTANTS
  fromCli = fromCli
  fromProfile = fromProfile
  Values = {fromCli, fromProfile}
  Unset = Unset
  Malformed = Malformed
  CountModulus = 4
  LongMax = 31
  MayFail = FALSE
  Requests <- MalformedProfile
INVARIANT
  NeverAborted
CHECK_DEADLOCK FALSE
