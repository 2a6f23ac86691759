SPECIFICATION Spec
CONSTANTS
  a = a
  b = b
  Nil = Nil
  Value = {a, b}
  Specs <- ConfigCode
  PackageTypes = {"Zip"}
  ControllerTags = TRUE
  MaxEdits = 1
  MaxFaults = 0
  MaxDrifts = 0
INVARIANT ReturnsUpdatedFields
CHECK_DEADLOCK FALSE
