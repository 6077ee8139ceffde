CONSTANTS
  Keys = {k1}
  Values = {s1, s2}
  MaxSaves = 3
  PowerLosses = TRUE
  FaultyWrites = FALSE
  ParentUnreadable = FALSE
  Texts <- MCTexts
  NotANumber = NotANumber
  Sections <- MCSections
  FlagValues = {"v", "w"}
  Mergers = {"m1", "m2"}
  MaxUses = 5
SPECIFICATION DataSpec
INVARIANTS
  CleanMeansSaved
  
  FieldsExact
  MatchExact
  LoadedExact
  SettingsExact
PROPERTIES
  StoresAtomically
  
  
CHECK_DEADLOCK FALSE
