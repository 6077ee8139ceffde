CONSTANTS
  Keys = {k1}
  Values = {v1, v2}
  MaxSaves = 3
  PowerLosses = FALSE
  FaultyWrites = FALSE
  ParentUnreadable = FALSE
SPECIFICATION Spec
INVARIANTS
  CreateKeepsExisting
