SPECIFICATION WrappersSpec
CONSTANTS
  JContext = {w1, w2}
  JName = {"A", "B"}
  MaxWrapped = 2
  MaxRegistered = 2
INVARIANT ClassesOutliveAll
CHECK_DEADLOCK FALSE
