SPECIFICATION TimedSpec
CONSTANTS
  Timer = {1, 2}
  Delay <- MCDelay
  Platform = "win32"
  MinTimeout = 1
  MaxTimeout = 2
  MaxTime = 4
INVARIANT DestroyedIsNotTouched
CHECK_DEADLOCK FALSE
