SPECIFICATION FairSpec
CONSTANTS
  a = a
  b = b
  huge = huge
  k1 = k1
  o1 = o1
  o2 = o2
  Nil = Nil
  Key = {k1}
  Value = {a, b, huge}
  OutOfRange = {huge}
  Object = {o1, o2}
  ObjectStates <- Four
  Kinds = {"FunctionURLConfig", "Function", "EventSourceMapping"}
  SpecsOf <- SpecsByKind
  Limits <- FewThings
INVARIANTS
  TypeOK
  NeverHalfResolved
PROPERTIES
  ReferencesStayValid
  LeaksAreKnown
  Converges
CHECK_DEADLOCK FALSE
