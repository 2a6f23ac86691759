SPECIFICATION FairSpec
CONSTANTS
  a = a
  b = b
  Nil = Nil
  Value = {a, b}
  Specs <- Tags
  PackageTypes = {"Zip"}
  ControllerTags = TRUE
  MaxEdits = 1
  MaxFaults = 1
  MaxDrifts = 0
PROPERTY TagEditsAreApplied
CHECK_DEADLOCK FALSE
