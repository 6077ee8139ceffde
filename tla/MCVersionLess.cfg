SPECIFICATION Spec
CONSTANTS
  Texts <- MCTexts
  NotANumber = NotANumber
INVARIANTS
  LessThanIsStrict
