SPECIFICATION FairSpec
CONSTANTS
  a = a
  b = b
  k1 = k1
  team = team
  system = system
  Nil = Nil
  Key = {k1}
  Value = {a, b}
  Default = a
  UserKey = {team}
  SystemKey = {system}
  Specs <- Few
  Limits <- FewThings
INVARIANTS
  TypeOK
  LossesAreBounded
  SyncedMeansApplied
PROPERTIES
  FilterRemovalsAreKept
  Converges
CHECK_DEADLOCK FALSE
