SPECIFICATION QueuesSpec
CONSTANTS
  Parts = {"threads", "registry", "channel", "buffer", "objects"}
  Thread = {main, worker}
  Main = main
  NoThread = NoThread
  Type = {msg}
  Exit = Exit
  MaxSends = 2
  MaxStarts = 1
  Process = {p1, p2, p3}
  MaxProcesses = 2
  Writer = {w1, w2}
  Capacity = 4
  Sends <- ThreeSends
  BufSize = 4
  Byte = {0, 1}
  Registered = {1, 2}
  Objects <- MCObjects
  MaxObjects = 3
SYMMETRY Symmetry
CHECK_DEADLOCK FALSE
INVARIANTS NoLostWakeup InOrder NothingVanishes RegistryIsRepaired MessagesArriveWhole ReportIsTrue SpaceIsSignalled BufferIsAQueue ReadsWhatWasWritten
