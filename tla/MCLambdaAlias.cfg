SPECIFICATION FairSpec
CONSTANTS
  a = a
  b = b
  k1 = k1
  s1 = s1
  s2 = s2
  g = g
  h = h
  account = account
  Nil = Nil
  Key = {k1}
  Value = {a, b}
  Sid = {s1, s2}
  Grant = {g, h, account}
  Rewritten = {account}
  Specs <- Six
  Limits <- FewThings
INVARIANTS
  TypeOK
  SyncedMeansApplied
PROPERTIES
  GrantsAreKept
  KeepsContract
  Converges
CHECK_DEADLOCK FALSE
