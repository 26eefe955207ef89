SPECIFICATION AtomicSpec
CONSTANTS
  AThread = {1, 2}
  AValue = {0, 1}
  MaxNodes = 1
CHECK_DEADLOCK FALSE
INVARIANT InstanceIsOwn
