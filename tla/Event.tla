------------------------------- MODULE Event --------------------------------
(***************************************************************************)
(* common/event.cc over common/mutex_posix.cc: the auto-reset event every  *)
(* blocking operation of the library is built from.  Each step is what a   *)
(* thread does between two points at which another thread can intervene:   *)
(* acquiring mutex_, the assignment to signal_, the broadcast, the release *)
(* of mutex_ by pthread_cond_wait and its re-acquisition on the way out.   *)
(* Time is abstracted: a blocked timed wait may expire at any moment.      *)
(***************************************************************************)
EXTENDS Naturals

CONSTANTS EThread,     \* the threads that share the event
          NoOwner,   \* nobody holds mutex_
          MaxCalls,   \* bound: operations a thread starts
          MaxWakes    \* bound: spurious wake-ups of pthread_cond_wait

ASSUME EThreadAssumption == NoOwner \notin EThread
ASSUME EBoundAssumption == MaxCalls \in Nat /\ MaxWakes \in Nat

VARIABLES
  signal_,     \* Event::signal_
  mutex_,      \* the holder of Event::mutex_, or NoOwner
  condition_,  \* the threads blocked in Event::condition_
  pc,          \* where each thread is inside an operation
  timed,       \* the operation is WaitWithTimeout
  calls,       \* operations started so far
  wakes,       \* spurious wake-ups so far
  sets,        \* history: times signal_ went from false to true
  takes        \* history: waits that returned having reset signal_

eventVars == <<signal_, mutex_, condition_, pc, timed, calls, wakes, sets, takes>>

(* Program points.  "test" is the loop condition of a first pass, "retest" *)
(* the same after condition_ returned without a timeout.                   *)
SignalPoints == {"signal", "signalling", "broadcast"}
WaitPoints   == {"wait", "test", "blocked", "relock", "retest", "expired"}
Points       == {"idle"} \cup SignalPoints \cup WaitPoints
Holding      == {"signalling", "broadcast", "test", "retest"}

EventTypeOK ==
  /\ signal_ \in BOOLEAN
  /\ mutex_ \in EThread \cup {NoOwner}
  /\ condition_ \subseteq EThread
  /\ pc \in [EThread -> Points]
  /\ timed \in [EThread -> BOOLEAN]
  /\ calls \in [EThread -> 0 .. MaxCalls]
  /\ wakes \in 0 .. MaxWakes
  /\ sets \in Nat
  /\ takes \in 0 .. sets

EventInit ==
  /\ signal_ = FALSE
  /\ mutex_ = NoOwner
  /\ condition_ = {}
  /\ pc = [t \in EThread |-> "idle"]
  /\ timed = [t \in EThread |-> FALSE]
  /\ calls = [t \in EThread |-> 0]
  /\ wakes = 0
  /\ sets = 0
  /\ takes = 0

-----------------------------------------------------------------------------
(* Mutex::Lock and Mutex::Unlock, as the part of a step that takes or      *)
(* leaves mutex_.                                                          *)
Lock(t) == mutex_ = NoOwner /\ mutex_' = t

Unlock(t) == mutex_ = t /\ mutex_' = NoOwner

Goto(t, point) == pc' = [pc EXCEPT ![t] = point]

CallEvent(t, point) ==
  /\ pc[t] = "idle"
  /\ calls[t] < MaxCalls
  /\ calls' = [calls EXCEPT ![t] = @ + 1]
  /\ Goto(t, point)
  /\ UNCHANGED <<signal_, mutex_, condition_, wakes, sets, takes>>

-----------------------------------------------------------------------------
(* Event::Signal *)
CallSignal(t) == CallEvent(t, "signal") /\ UNCHANGED timed

SignalLock(t) ==
  /\ pc[t] = "signal"
  /\ Lock(t)
  /\ Goto(t, "signalling")
  /\ UNCHANGED <<signal_, condition_, timed, calls, wakes, sets, takes>>

(* Variant: signal_ is set but nobody is told. *)
SignalSetSilently(t) ==
  /\ pc[t] = "signalling"
  /\ ~signal_
  /\ signal_' = TRUE
  /\ sets' = sets + 1
  /\ Unlock(t)
  /\ Goto(t, "idle")
  /\ UNCHANGED <<condition_, timed, calls, wakes, takes>>

SignalSet(t) ==
  /\ pc[t] = "signalling"
  /\ ~signal_
  /\ signal_' = TRUE
  /\ sets' = sets + 1
  /\ Goto(t, "broadcast")
  /\ UNCHANGED <<mutex_, condition_, timed, calls, wakes, takes>>

SignalAlreadySet(t) ==
  /\ pc[t] = "signalling"
  /\ signal_
  /\ Unlock(t)
  /\ Goto(t, "idle")
  /\ UNCHANGED <<signal_, condition_, timed, calls, wakes, sets, takes>>

(* Variant: pthread_cond_signal instead of pthread_cond_broadcast. *)
SignalOne(t) ==
  /\ pc[t] = "broadcast"
  /\ \E w \in condition_ \cup {t} :
       /\ w = t => condition_ = {}
       /\ condition_' = condition_ \ {w}
       /\ pc' = [pc EXCEPT ![w] = "relock", ![t] = "idle"]
  /\ Unlock(t)
  /\ UNCHANGED <<signal_, timed, calls, wakes, sets, takes>>

(* CondVar::SignalAll: every blocked thread goes on to re-acquire mutex_. *)
SignalAll(t) ==
  /\ pc[t] = "broadcast"
  /\ condition_' = {}
  /\ pc' = [u \in EThread |-> IF u = t THEN "idle"
                             ELSE IF u \in condition_ THEN "relock"
                             ELSE pc[u]]
  /\ Unlock(t)
  /\ UNCHANGED <<signal_, timed, calls, wakes, sets, takes>>

-----------------------------------------------------------------------------
(* Event::Wait (with_timeout = FALSE) and Event::WaitWithTimeout *)
CallWait(t, with_timeout) ==
  /\ CallEvent(t, "wait")
  /\ timed' = [timed EXCEPT ![t] = with_timeout]

(* The MutexLock at the top, and the re-acquisition inside condition_. *)
WaitLock(t) ==
  /\ \/ pc[t] = "wait" /\ Goto(t, "test")
     \/ pc[t] = "relock" /\ Goto(t, "retest")
  /\ Lock(t)
  /\ UNCHANGED <<signal_, condition_, timed, calls, wakes, sets, takes>>

(* CondVar::Wait: mutex_ is released and the thread blocked in one step.   *)
WaitBlock(t) ==
  /\ pc[t] \in {"test", "retest"}
  /\ ~signal_
  /\ condition_' = condition_ \cup {t}
  /\ Unlock(t)
  /\ Goto(t, "blocked")
  /\ UNCHANGED <<signal_, timed, calls, wakes, sets, takes>>

(* Variant: the signal is not reset. *)
WaitTakeNoReset(t) ==
  /\ pc[t] \in {"test", "retest"}
  /\ signal_
  /\ takes' = takes + 1
  /\ Unlock(t)
  /\ Goto(t, "idle")
  /\ UNCHANGED <<signal_, condition_, timed, calls, wakes, sets>>

(* The while loop ends: the signal is reset and the wait returns (true). *)
WaitTake(t) ==
  /\ pc[t] \in {"test", "retest"}
  /\ signal_
  /\ signal_' = FALSE
  /\ takes' = takes + 1
  /\ Unlock(t)
  /\ Goto(t, "idle")
  /\ UNCHANGED <<condition_, timed, calls, wakes, sets>>

(* A timed wait woken with nothing left of its timeout returns false. *)
WaitUsedUp(t) ==
  /\ pc[t] = "retest"
  /\ timed[t]
  /\ ~signal_
  /\ Unlock(t)
  /\ Goto(t, "idle")
  /\ UNCHANGED <<signal_, condition_, timed, calls, wakes, sets, takes>>

(* pthread_cond_wait may return although nobody broadcast. *)
SpuriousWake(t) ==
  /\ pc[t] = "blocked"
  /\ wakes < MaxWakes
  /\ wakes' = wakes + 1
  /\ condition_' = condition_ \ {t}
  /\ Goto(t, "relock")
  /\ UNCHANGED <<signal_, mutex_, timed, calls, sets, takes>>

(* pthread_cond_timedwait gives up; it still has to re-acquire mutex_. *)
WaitExpire(t) ==
  /\ pc[t] = "blocked"
  /\ timed[t]
  /\ condition_' = condition_ \ {t}
  /\ Goto(t, "expired")
  /\ UNCHANGED <<signal_, mutex_, timed, calls, wakes, sets, takes>>

(* Variant: a timed-out wait resets the signal as a successful one does. *)
WaitTimedOutResets(t) ==
  /\ pc[t] = "expired"
  /\ mutex_ = NoOwner
  /\ signal_' = FALSE
  /\ Goto(t, "idle")
  /\ UNCHANGED <<mutex_, condition_, timed, calls, wakes, sets, takes>>

(* Variant: the timeout is treated as a wake-up, with the whole timeout    *)
(* left to wait again.                                                     *)
WaitTimedOutLoops(t) ==
  /\ pc[t] = "expired"
  /\ mutex_ = NoOwner
  /\ Goto(t, "relock")
  /\ UNCHANGED <<signal_, mutex_, condition_, timed, calls, wakes, sets, takes>>

(* ETIMEDOUT: mutex_ is taken and left again with signal_ unread. *)
WaitTimedOut(t) ==
  /\ pc[t] = "expired"
  /\ mutex_ = NoOwner
  /\ Goto(t, "idle")
  /\ UNCHANGED <<signal_, mutex_, condition_, timed, calls, wakes, sets, takes>>

-----------------------------------------------------------------------------
EventProceed(t) ==
  \/ SignalLock(t) \/ SignalSet(t) \/ SignalAlreadySet(t) \/ SignalAll(t)
  \/ WaitLock(t) \/ WaitBlock(t) \/ WaitTake(t) \/ WaitUsedUp(t)
  \/ WaitExpire(t) \/ WaitTimedOut(t)

EventNext ==
  \E t \in EThread :
    \/ CallSignal(t)
    \/ \E b \in BOOLEAN : CallWait(t, b)
    \/ SpuriousWake(t)
    \/ EventProceed(t)

EventSpec == EventInit /\ [][EventNext]_eventVars

(* A thread inside an operation keeps running: the scheduler starves no    *)
(* runnable thread, and a timed wait that stays blocked expires.           *)
EventFairSpec == EventSpec /\ \A t \in EThread : WF_eventVars(EventProceed(t))

-----------------------------------------------------------------------------
Waiting == {t \in EThread : pc[t] \in WaitPoints}

(* No wake-up is lost: once Signal has finished its broadcast, no thread   *)
(* is left blocked in condition_ while signal_ is set (event.cc 37-54).    *)
NoSleeperMissed ==
  signal_ => condition_ = {} \/ \E t \in EThread : pc[t] = "broadcast"

(* Every transition of signal_ to true lets exactly one wait return true,  *)
(* or is still pending: a wait that times out never swallows a signal, and *)
(* no two waits return on the same one (event.cc 46-80).                   *)
OneTakePerSet == sets = takes + (IF signal_ THEN 1 ELSE 0)

(* What the two invariants above rest on: mutex_ is held by exactly the    *)
(* thread inside a critical section, condition_ holds exactly the blocked  *)
(* threads, a thread about to broadcast has set signal_, and only a timed  *)
(* wait expires.                                                           *)
HolderInside ==
  \A t \in EThread : pc[t] \in Holding <=> mutex_ = t

BlockedInCondition == condition_ = {t \in EThread : pc[t] = "blocked"}

BroadcastAfterSet == \A t \in EThread : pc[t] = "broadcast" => signal_

ExpiredIsTimed == \A t \in EThread : pc[t] = "expired" => timed[t]

EventInv ==
  /\ EventTypeOK
  /\ HolderInside
  /\ BlockedInCondition
  /\ BroadcastAfterSet
  /\ ExpiredIsTimed
  /\ NoSleeperMissed
  /\ OneTakePerSet

(* The event implements the auto-reset event its header describes.         *)
Abstract == INSTANCE AutoResetEvent WITH
              Thread <- EThread,
              signal <- signal_,
              waiting <- {t \in Waiting : ~timed[t]},
              timed <- {t \in Waiting : timed[t]}

ImplementsAutoResetEvent == Abstract!Spec

(* A set event with a thread waiting for it does not stay set for ever     *)
(* with that wait blocked: it is taken, or the last waiter gives up.       *)
SignalIsTaken == (signal_ /\ Waiting # {}) ~> (~signal_ \/ Waiting = {})

(* A wait with a timeout always returns, signalled or not (event.cc 56-80) *)
TimedWaitReturns ==
  \A t \in EThread : (t \in Waiting /\ timed[t]) ~> (t \notin Waiting)
=============================================================================
