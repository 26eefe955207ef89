SPECIFICATION Spec
CONSTANTS
  Parts = {"timed", "locals", "service", "platform", "router", "condvar", "baton", "await",
           "linked", "counted", "list", "singleton"}
  Timer = {1, 2}
  Delay <- MCDelay
  Platform = "win32"
  MinTimeout = 1
  MaxTimeout = 2
  MaxTime = 4
  Thread = {t1, t2}
  MaxSlots = 3
  MaxRounds = 3
  MaxValues = 3
  ObsThread = {s1, s2}
  Observer = {o1, o2}
  Address = {1, 2}
  MaxNotes = 2
  MaxAdds = 3
  PortLength = 2
  MaxPosts = 5
  MaxNesting = 2
  RThread = {r1, r2}
  MaxFunctors = 4
  WThread = {1, 2, 3}
  EventId = {1, 2, 3, 4}
  MaxSignals = 3
  Ptr = {1, 2, 3}
  Object = {1, 2, 3}
  AThread = {1, 2}
  AValue = {0, 1, 2, 3}
  MaxNodes = 4
SYMMETRY Symmetry
CHECK_DEADLOCK FALSE
INVARIANTS CallsFireInTime EveryValueOnce EventsArriveInOrder LastOwnerDeletes
PROPERTIES ObserversAreTold SyncCallsReturn WaitsAreHonest RacesLoseNothing
