SPECIFICATION MCSpec
CONSTANTS
  a = a
  b = b
  l1 = l1
  l2 = l2
  k1 = k1
  Nil = Nil
  Key = {k1}
  Layer = {l1, l2}
  Value = {a, b}
  Specs <- Three
  Limits <- FewThings
  PageSize = 3
INVARIANTS
  TypeOK
  NothingLeftBehind
  PublishesAreBounded
PROPERTIES
  Converges
CHECK_DEADLOCK FALSE
