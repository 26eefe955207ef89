----------------------------- MODULE MCServices -----------------------------
(***************************************************************************)
(* Instances of the modules about threads and their services.  They share  *)
(* no variable; `part` selects the one that moves, so that their state     *)
(* spaces add up.                                                          *)
(***************************************************************************)
EXTENDS TimedCalls, ThreadLocals, MessageService, PlatformQueue, AsyncRouter,
        Win32Sync, SmartPointers, AtomicList, TLC

CONSTANT Parts

VARIABLE part

MCDelay == {-1, 1, 3}

Symmetry == Permutations(Thread) \cup Permutations(ObsThread)

vars == <<part, timedVars, localsVars, serviceVars, platformVars, routerVars, syncVars,
          pointerVars, atomicVars>>

Init ==
  /\ part \in Parts
  /\ TimedInit /\ LocalsInit /\ ServiceInit /\ PlatformInit /\ RouterInit /\ SyncInit
  /\ PointersInit /\ AtomicInit
  /\ IF part = "locals" THEN owner[1] = owner[2] /\ destructor[3]
     ELSE \A v, w \in Value : owner[v] = owner[w] /\ destructor[v]

Timed ==
  /\ part = "timed" /\ TimedNext
  /\ UNCHANGED <<localsVars, serviceVars, platformVars, routerVars, syncVars, pointerVars, atomicVars>>
Locals ==
  /\ part = "locals" /\ LocalsNext
  /\ UNCHANGED <<timedVars, serviceVars, platformVars, routerVars, syncVars, pointerVars, atomicVars>>
Service ==
  /\ part = "service" /\ ServiceNext
  /\ UNCHANGED <<timedVars, localsVars, platformVars, routerVars, syncVars, pointerVars, atomicVars>>
Platforms ==
  /\ part = "platform" /\ PlatformNext
  /\ UNCHANGED <<timedVars, localsVars, serviceVars, routerVars, syncVars, pointerVars, atomicVars>>
Router ==
  /\ part = "router" /\ RouterNext
  /\ UNCHANGED <<timedVars, localsVars, serviceVars, platformVars, syncVars, pointerVars, atomicVars>>
Sync ==
  /\ \/ part = "condvar" /\ CondNext
     \/ part = "baton" /\ BatonNext
     \/ part = "await" /\ AwaitNext
  /\ UNCHANGED <<timedVars, localsVars, serviceVars, platformVars, routerVars, pointerVars, atomicVars>>
Pointers ==
  /\ \/ part = "linked" /\ LinkedNext
     \/ part = "counted" /\ RefNext
  /\ UNCHANGED <<timedVars, localsVars, serviceVars, platformVars, routerVars, syncVars, atomicVars>>
Atomics ==
  /\ \/ part = "list" /\ ListNext
     \/ part = "singleton" /\ SingletonNext
  /\ UNCHANGED <<timedVars, localsVars, serviceVars, platformVars, routerVars, syncVars, pointerVars>>

Next ==
  /\ UNCHANGED part
  /\ Timed \/ Locals \/ Service \/ Platforms \/ Router \/ Sync \/ Pointers \/ Atomics

Spec == Init /\ [][Next]_vars
=============================================================================
