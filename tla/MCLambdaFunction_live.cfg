SPECIFICATION FairSpec
CONSTANTS
  a = a
  b = b
  Nil = Nil
  Value = {a, b}
  Specs <- OneAtATime
  PackageTypes = {"Zip"}
  ControllerTags = TRUE
  MaxEdits = 1
  MaxFaults = 1
  MaxDrifts = 1
PROPERTIES
  Converges
  DeletionCompletes
CHECK_DEADLOCK FALSE
