SPECIFICATION Spec
CONSTANTS
  a = a
  b = b
  Nil = Nil
  Value = {a, b}
  Specs <- LayersCodeSigning
  PackageTypes = {"Zip"}
  ControllerTags = TRUE
  MaxEdits = 1
  MaxFaults = 0
  MaxDrifts = 0
INVARIANT ReadOneObserves
CHECK_DEADLOCK FALSE
