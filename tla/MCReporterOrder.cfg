SPECIFICATION Spec
CONSTANTS
  stats = stats
  state = state
  Namespaces <- OneNamespace
  Size = 2
  Populated <- OneNamespace
  MaxTicks = 3
CHECK_DEADLOCK FALSE
INVARIANTS
  ResponseInOrder
