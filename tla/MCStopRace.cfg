SPECIFICATION DemoSpec
CONSTANTS
  main = main
  worker = worker
  type1 = type1
  type2 = type2
  type3 = type3
  Thread = {main, worker}
  Main = main
  Worker = worker
  NoThread = NoThread
  Type = {type1, type2, type3}
  kMessageType1 = type1
  kMessageType2 = type2
  kMessageType3 = type3
  Exit = Exit
  Script <- MCScript
  Full = 600
  MaxSends = 7
  MaxStarts = 1
INVARIANT StopNeverDangles
CHECK_DEADLOCK FALSE
