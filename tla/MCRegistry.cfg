SPECIFICATION Spec
CONSTANTS
  Threads = {1, 2, 3}
  NoThread = 0
  Names = {"a", "x"}
  Programs <- MCPrograms
  MaxRegistries = 13
INVARIANTS
  TreeUsable
PROPERTIES
  AddTakesEffect
  LookupAtomic
  NewFindsExisting
  VisitExact
