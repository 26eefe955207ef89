---------------------------- MODULE EventProofs -----------------------------
(***************************************************************************)
(* For any number of threads and any bounds: the event loses no wake-up,   *)
(* lets one wait return per signal, and implements AutoResetEvent.         *)
(***************************************************************************)
EXTENDS Event, TLAPS

LEMMA InitEstablishes == EventInit => EventInv
<1> SUFFICES ASSUME EventInit PROVE EventInv
  OBVIOUS
<1> USE EThreadAssumption, EBoundAssumption DEF EventInit
<1>1. EventTypeOK
  <2>1. signal_ \in BOOLEAN
    OBVIOUS
  <2>2. takes \in 0 .. sets /\ sets \in Nat /\ wakes \in 0 .. MaxWakes
    OBVIOUS
  <2>3. calls \in [EThread -> 0 .. MaxCalls]
    OBVIOUS
  <2>4. timed \in [EThread -> BOOLEAN] /\ pc \in [EThread -> Points]
    BY DEF Points
  <2>5. QED
    BY <2>1, <2>2, <2>3, <2>4 DEF EventTypeOK
<1>2. /\ HolderInside /\ BlockedInCondition /\ BroadcastAfterSet
      /\ ExpiredIsTimed
  BY DEF HolderInside, BlockedInCondition, BroadcastAfterSet,
         ExpiredIsTimed, Holding
<1>3. NoSleeperMissed /\ OneTakePerSet
  BY DEF NoSleeperMissed, OneTakePerSet
<1>4. QED
  BY <1>1, <1>2, <1>3 DEF EventInv

LEMMA StepPreserves == EventInv /\ [EventNext]_eventVars => EventInv'
<1> SUFFICES ASSUME EventInv, [EventNext]_eventVars PROVE EventInv'
  OBVIOUS
<1> USE EThreadAssumption, EBoundAssumption
    DEF EventInv, EventTypeOK, Points, SignalPoints, WaitPoints, Holding, HolderInside,
        BlockedInCondition, BroadcastAfterSet, ExpiredIsTimed, NoSleeperMissed,
        OneTakePerSet,
        Goto, Lock, Unlock
<1>1. ASSUME NEW t \in EThread, CallSignal(t) PROVE EventInv'
  BY <1>1 DEF CallSignal, CallEvent
<1>2. ASSUME NEW t \in EThread, NEW b \in BOOLEAN, CallWait(t, b) PROVE EventInv'
  BY <1>2 DEF CallWait, CallEvent
<1>3. ASSUME NEW t \in EThread, SpuriousWake(t) PROVE EventInv'
  BY <1>3 DEF SpuriousWake
<1>4. ASSUME NEW t \in EThread, SignalLock(t) PROVE EventInv'
  BY <1>4 DEF SignalLock
<1>5. ASSUME NEW t \in EThread, SignalSet(t) PROVE EventInv'
  BY <1>5 DEF SignalSet
<1>6. ASSUME NEW t \in EThread, SignalAlreadySet(t) PROVE EventInv'
  BY <1>6 DEF SignalAlreadySet
<1>7. ASSUME NEW t \in EThread, SignalAll(t) PROVE EventInv'
  BY <1>7 DEF SignalAll
<1>8. ASSUME NEW t \in EThread, WaitLock(t) PROVE EventInv'
  BY <1>8 DEF WaitLock
<1>9. ASSUME NEW t \in EThread, WaitBlock(t) PROVE EventInv'
  BY <1>9 DEF WaitBlock
<1>10. ASSUME NEW t \in EThread, WaitTake(t) PROVE EventInv'
  <2>1. sets = takes + 1 /\ sets \in Nat /\ takes \in Nat
    BY <1>10 DEF WaitTake
  <2>2. EventTypeOK' /\ OneTakePerSet'
    <3>1. signal_' = FALSE /\ sets' = sets /\ takes' = takes + 1
      BY <1>10 DEF WaitTake
    <3>2. OneTakePerSet'
      BY <3>1, <2>1
    <3>3. takes' \in 0 .. sets' /\ sets' \in Nat
      BY <3>1, <2>1
    <3>4. signal_' \in BOOLEAN
      BY <3>1
    <3>5. QED
      BY <1>10, <3>2, <3>3, <3>4 DEF WaitTake
  <2>3. HolderInside' /\ BlockedInCondition'
    BY <1>10 DEF WaitTake
  <2>4. BroadcastAfterSet' /\ ExpiredIsTimed'
    BY <1>10 DEF WaitTake
  <2>5. NoSleeperMissed'
    BY <1>10 DEF WaitTake
  <2>6. QED
    BY <2>2, <2>3, <2>4, <2>5
<1>11. ASSUME NEW t \in EThread, WaitUsedUp(t) PROVE EventInv'
  BY <1>11 DEF WaitUsedUp
<1>12. ASSUME NEW t \in EThread, WaitExpire(t) PROVE EventInv'
  BY <1>12 DEF WaitExpire
<1>13. ASSUME NEW t \in EThread, WaitTimedOut(t) PROVE EventInv'
  BY <1>13 DEF WaitTimedOut
<1>14. CASE UNCHANGED eventVars
  BY <1>14 DEF eventVars
<1>15. QED
  BY <1>1, <1>2, <1>3, <1>4, <1>5, <1>6, <1>7, <1>8, <1>9, <1>10, <1>11,
     <1>12, <1>13, <1>14 DEF EventNext, EventProceed

(* Every reachable state satisfies the inductive invariant. *)
THEOREM InvariantHolds == EventSpec => []EventInv
  BY InitEstablishes, StepPreserves, PTL DEF EventSpec

(* Whatever the interleaving of Signal, Wait and WaitWithTimeout, a set    *)
(* event leaves no thread blocked once its broadcast is done.              *)
THEOREM NoWakeupIsLost == EventSpec => []NoSleeperMissed
<1>1. EventInv => NoSleeperMissed
  BY DEF EventInv
<1>2. QED
  BY InvariantHolds, <1>1, PTL

(* Each setting of the event is taken by at most one wait and never by a   *)
(* wait that timed out.                                                    *)
THEOREM SignalsAreCounted == EventSpec => []OneTakePerSet
<1>1. EventInv => OneTakePerSet
  BY DEF EventInv
<1>2. QED
  BY InvariantHolds, <1>1, PTL

-----------------------------------------------------------------------------
LEMMA InitRefines == EventInit => Abstract!Init
  BY DEF EventInit, Abstract!Init, Waiting, WaitPoints

LEMMA StepRefines == EventInv /\ [EventNext]_eventVars => [Abstract!Next]_(Abstract!vars)
<1> SUFFICES ASSUME EventInv, [EventNext]_eventVars PROVE [Abstract!Next]_(Abstract!vars)
  OBVIOUS
<1> USE DEF EventInv, EventTypeOK, Points, SignalPoints, WaitPoints, Waiting, Goto,
            Abstract!Next, Abstract!vars
<1>1. ASSUME NEW t \in EThread, CallWait(t, TRUE) \/ CallWait(t, FALSE)
      PROVE Abstract!Ask(t)
  BY <1>1 DEF CallWait, CallEvent, Abstract!Ask
<1>2. ASSUME NEW t \in EThread, SignalSet(t) PROVE Abstract!Set
  BY <1>2 DEF SignalSet, Abstract!Set
<1>3. ASSUME NEW t \in EThread, WaitTake(t) PROVE Abstract!Take(t)
  BY <1>3 DEF WaitTake, Abstract!Take
<1>4. ASSUME NEW t \in EThread, WaitUsedUp(t) \/ WaitTimedOut(t)
      PROVE Abstract!GiveUp(t)
  BY <1>4 DEF WaitUsedUp, WaitTimedOut, ExpiredIsTimed, Abstract!GiveUp
<1>5. ASSUME NEW t \in EThread,
             \/ CallSignal(t) \/ SpuriousWake(t) \/ SignalLock(t)
             \/ SignalAlreadySet(t) \/ WaitLock(t) \/ WaitBlock(t)
             \/ WaitExpire(t)
      PROVE UNCHANGED Abstract!vars
  BY <1>5 DEF CallSignal, CallEvent, SpuriousWake, SignalLock, SignalAlreadySet,
              WaitLock, WaitBlock, WaitExpire
<1>6. ASSUME NEW t \in EThread, SignalAll(t) PROVE UNCHANGED Abstract!vars
  BY <1>6 DEF SignalAll, BlockedInCondition
<1>7. CASE UNCHANGED eventVars
  BY <1>7 DEF eventVars
<1>8. QED
  BY <1>1, <1>2, <1>3, <1>4, <1>5, <1>6, <1>7 DEF EventNext, EventProceed

(* The event of event.cc implements the auto-reset event of event.h.       *)
THEOREM EventIsAutoReset == EventSpec => ImplementsAutoResetEvent
<1>1. EventSpec => Abstract!Init /\ [][Abstract!Next]_(Abstract!vars)
  BY InvariantHolds, InitRefines, StepRefines, PTL DEF EventSpec
<1>2. QED
  BY <1>1 DEF ImplementsAutoResetEvent, Abstract!Spec
=============================================================================
