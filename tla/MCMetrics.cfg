SPECIFICATION MetricsSpec
CONSTANTS
  stats = stats
  state = state
  Namespaces <- TwoNamespaces
  Size = 3
  Populated <- OneNamespace
  MaxTicks = 7
  Threads = {t1, t2}
  Names = {"x", "y"}
  Deltas <- MCDeltas
  Modulus = 8
  Stamps = {0, 1, 2, 3}
  Milli = 2
  MaxOps = 4
  FilterLists <- MCFilterLists
  Kinds = {"counter", "healthcheck"}
  Wrapped = {"counter"}
  Visitors = {v1}
  MaxMetrics = 3
  MaxUpdates = 3
CHECK_DEADLOCK FALSE
INVARIANTS
  InOrderUnlessOverrun
  
  
  
PROPERTIES
  KeepsMostRecent
  StopReturns
