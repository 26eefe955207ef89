SPECIFICATION WaitsSpec
CONSTANTS
  Parts = {"event", "restart", "demo", "channel"}
  EThread = {t1, t2, t3}
  NoOwner = NoOwner
  MaxCalls = 2
  MaxWakes = 1
  main = main
  worker = worker
  type1 = type1
  type2 = type2
  type3 = type3
  Thread = {main, worker}
  Main = main
  Worker = worker
  NoThread = NoThread
  Type = {type1, type2, type3}
  kMessageType1 = type1
  kMessageType2 = type2
  kMessageType3 = type3
  Exit = Exit
  Script <- MCScript
  Full = 600
  MaxSends = 7
  MaxStarts = 1
  Writer = {w1, w2}
  Capacity = 4
  Sends <- TwoSends
CHECK_DEADLOCK FALSE
INVARIANTS NoSleeperMissed OneTakePerSet LifeIsClean CountsAreComplete
PROPERTIES ImplementsAutoResetEvent SignalIsTaken TimedWaitReturns LoopingReceives StartReturns StopEndsLoop Terminates EveryOneReported
