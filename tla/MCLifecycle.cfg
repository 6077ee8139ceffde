CONSTANTS
  Period = 2
  Modulus = 4
  MaxEvents = 5
  Files <- MCFiles
  Second = 2
  Grains = {1, 2}
  MaxTime = 7
  MaxWrites = 2
  Dialers = {d1, d2}
  Acceptors = {a1, a2}
  Kinds = {"unix", "service", "console"}
  MaxSignals = 2
  MaxRequests = 2
  Servers = {s1, s2}
  Configs <- MCConfigs
  Platforms = {"posix", "windows"}
  None = None
  Stale = Stale
SPECIFICATION LifeSpec
INVARIANTS
  NothingLost
  StoppedLast
  
PROPERTIES
  EventsDelivered
  StopReturns
  ChangeSeen
  ClosingReleases
  StopEndsProcess
