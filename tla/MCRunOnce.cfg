SPECIFICATION Spec
CONSTANTS
  Thread = {main, w1}
  Main = main
  NoThread = NoThread
  Type = {msg}
  Exit = Exit
  MaxSends = 2
  MaxStarts = 1
PROPERTY RunOnceGetsMessages
CHECK_DEADLOCK FALSE
