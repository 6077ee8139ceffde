CONSTANTS
  MaxSizeBytes = 2
  MaxBackups = 1
  HasInterval = TRUE
  IntervalOf <- EachTick
  DayOf <- EveryTwoTicks
  Times <- MCTimes
  MonotoneClock = TRUE
  RotateOnStartup = TRUE
  Lengths = {1, 2, 3}
  MaxWrites = 3
  InitialFiles <- MCInitialFiles
  InitialKinds = {"regular", "link", "dangling"}
SPECIFICATION Spec
INVARIANTS
  DirectoryBounded
  RetainedIsSuffix
  NamesFollowTime
  SessionInOneInterval
