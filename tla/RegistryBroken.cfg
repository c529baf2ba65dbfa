SPECIFICATION RegistrySpec
CONSTANTS
  Callers = {t1}
  Spellings = {"a", "x", "y", "z"}
  Fold <- MCFold
  Builtins <- MCBuiltins
  KindOf <- MCKindOf
  NoKind = NoKind
  NoDef = NoDef
  Unreadable = Unreadable
  BadSpec = BadSpec
  Contents <- BrokenContents
  Profiles = 2
INVARIANT
  BrokenNotRegistered
CHECK_DEADLOCK FALSE
