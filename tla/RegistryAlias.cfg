SPECIFICATION RegistrySpec
CONSTANTS
  Callers = {t1}
  Spellings = {"a", "x", "y", "z"}
  Fold <- MCFold
  Builtins <- MCBuiltins
  KindOf <- MCKindOf
  NoKind = NoKind
  NoDef = NoDef
  Unreadable = Unreadable
  BadSpec = BadSpec
  Contents <- AliasContents
  Profiles = 2
INVARIANT
  AliasDeterministic
CHECK_DEADLOCK FALSE
