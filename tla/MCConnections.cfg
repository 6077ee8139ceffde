SPECIFICATION ConnectionsSpec
CONSTANTS
  Threads = {t1, t2, t3}
  NoThread = NoThread
  Addresses = {a1, a2}
  MaxSockets = 3
  Nil = Nil
  Loaded = Loaded
  rootA = rootA
  interA = interA
  caF = caF
  sys = sys
  leafA = leafA
  leafI = leafI
  leafF = leafF
  leafS = leafS
  c1 = c1
  c2 = c2
INVARIANTS
  
  PeersVerified
  ClientsAsAsked
  
PROPERTIES
  ErrorCloses
  
CHECK_DEADLOCK FALSE
