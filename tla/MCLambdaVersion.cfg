SPECIFICATION MCSpec
CONSTANTS
  a = a
  k1 = k1
  k2 = k2
  c1 = c1
  c2 = c2
  Nil = Nil
  Key = {k1, k2}
  Code = {c1, c2}
  Value = {a}
  Specs <- BareOrFull
  Limits <- FewThings
INVARIANTS
  TypeOK
  SharedOnlyByRace
  LossesAreBounded
  SyncedMeansApplied
PROPERTIES
  FunctionSurvives
  EditsAreKept
  Converges
CHECK_DEADLOCK FALSE
