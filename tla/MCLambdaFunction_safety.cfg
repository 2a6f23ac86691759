SPECIFICATION Spec
CONSTANTS
  a = a
  b = b
  Nil = Nil
  Value = {a, b}
  Specs <- CreatedIncomplete
  PackageTypes = {"Zip", "Image"}
  ControllerTags = TRUE
  MaxEdits = 2
  MaxFaults = 2
  MaxDrifts = 1
INVARIANTS
  TypeOK
  NoOrphan
  SyncedMeansApplied
  NeverForgotten
PROPERTIES
  PreexistingUntouched
  OverwritesAreKnown
  KeepsContract
CHECK_DEADLOCK FALSE
