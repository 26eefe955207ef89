------------------------------ MODULE Win32Sync -----------------------------
(***************************************************************************)
(* Synchronisation built by hand: the condition variable of                *)
(* common/mutex_win32.cc, made of reference-counted manual-reset events,   *)
(* the Baton of the same file, which hands a job from process to process   *)
(* until one finishes it, and Mutex::Await of common/mutex.cc.             *)
(***************************************************************************)
EXTENDS Naturals, FiniteSets, FiniteSetsExt

CONSTANTS
  WThread,      \* threads, or for the baton processes
  EventId,      \* memory for CondVar::Event objects, used again once free
  MaxSignals    \* bound: calls of SignalAll, of Baton::get and turns of the condition

ASSUME SyncAssumption == 0 \notin EventId /\ MaxSignals \in Nat

VARIABLES
  cv_current,  \* current_event_
  cv_set,      \* the events that are signalled
  cv_thread,   \* each thread: what it does, the event it holds, signals seen when it began
  cv_signals,  \* history: calls of SignalAll that detached an event
  bt_mutex,    \* owner of the baton's mutex
  bt_event,    \* the baton's event: the job is finished
  bt_thread,   \* each process: "out", "asked", "job", "finishing", "skipped", "killed"
  bt_gets,
  aw_value,    \* the awaited condition, changed under the mutex
  aw_turns,
  aw_thread,   \* the awaiting thread: "out", "eval", "yield", "true", "false"
  aw_late      \* the deadline has passed

condVars == <<cv_current, cv_set, cv_thread, cv_signals>>
batonVars == <<bt_mutex, bt_event, bt_thread, bt_gets>>
awaitVars == <<aw_value, aw_turns, aw_thread, aw_late>>
syncVars == <<condVars, batonVars, awaitVars>>

NoEvent == 0
Running == [at |-> "run", event |-> NoEvent, began |-> 0]

SyncInit ==
  /\ cv_current = NoEvent /\ cv_set = {} /\ cv_signals = 0
  /\ cv_thread = [t \in WThread |-> Running]
  /\ bt_mutex = {} /\ bt_event = FALSE /\ bt_gets = 0
  /\ bt_thread = [t \in WThread |-> "out"]
  /\ aw_value = FALSE /\ aw_turns = 0 /\ aw_thread = "out" /\ aw_late = FALSE

-----------------------------------------------------------------------------
(* An Event lives as long as current_event_ or a thread refers to it. *)
Live == {cv_current} \cup {cv_thread[t].event : t \in WThread}

(* WaitWithTimeout, up to the wait: take part in the current event. *)
WaitOnEvent(t) ==
  /\ cv_thread[t].at = "run"
  /\ \E e \in EventId :
       /\ IF cv_current # NoEvent THEN e = cv_current ELSE e \notin Live
       /\ cv_current' = e
       /\ cv_set' = IF e = cv_current THEN cv_set ELSE cv_set \ {e}
       /\ cv_thread' = [cv_thread EXCEPT ![t] = [at |-> "wait", event |-> e, began |-> cv_signals]]
  /\ UNCHANGED <<cv_signals, batonVars, awaitVars>>

(* The wait ends because the event is set or, with a timeout, anyway. *)
Wakes(t) ==
  /\ cv_thread[t].at = "wait" /\ cv_thread[t].event \in cv_set
  /\ cv_thread' = [cv_thread EXCEPT ![t] = [at |-> "woken", event |-> NoEvent, began |-> @.began]]
  /\ UNCHANGED <<cv_current, cv_set, cv_signals, batonVars, awaitVars>>

TimesOut(t) ==
  /\ cv_thread[t].at = "wait"
  /\ cv_thread' = [cv_thread EXCEPT ![t] = Running]
  /\ UNCHANGED <<cv_current, cv_set, cv_signals, batonVars, awaitVars>>

WaitReturnsTo(t) ==
  /\ cv_thread[t].at = "woken"
  /\ cv_thread' = [cv_thread EXCEPT ![t] = Running]
  /\ UNCHANGED <<cv_current, cv_set, cv_signals, batonVars, awaitVars>>

(* Variant: the event stays the current one. *)
DetachEventKeeps(t) ==
  /\ cv_thread[t].at = "run" /\ cv_current # NoEvent /\ cv_signals < MaxSignals
  /\ cv_thread' = [cv_thread EXCEPT ![t] = [at |-> "set", event |-> cv_current, began |-> 0]]
  /\ cv_signals' = cv_signals + 1
  /\ UNCHANGED <<cv_current, cv_set, batonVars, awaitVars>>

(* SignalAll: detach the event, then set it. *)
DetachEvent(t) ==
  /\ cv_thread[t].at = "run" /\ cv_current # NoEvent /\ cv_signals < MaxSignals
  /\ cv_thread' = [cv_thread EXCEPT ![t] = [at |-> "set", event |-> cv_current, began |-> 0]]
  /\ cv_current' = NoEvent
  /\ cv_signals' = cv_signals + 1
  /\ UNCHANGED <<cv_set, batonVars, awaitVars>>

SetOldEvent(t) ==
  /\ cv_thread[t].at = "set"
  /\ cv_set' = cv_set \cup {cv_thread[t].event}
  /\ cv_thread' = [cv_thread EXCEPT ![t] = Running]
  /\ UNCHANGED <<cv_current, cv_signals, batonVars, awaitVars>>

CondNext ==
  \E t \in WThread :
    WaitOnEvent(t) \/ Wakes(t) \/ TimesOut(t) \/ WaitReturnsTo(t) \/ DetachEvent(t) \/ SetOldEvent(t)

-----------------------------------------------------------------------------
(* Baton::get: the mutex, abandoned or not, then a look at the event. *)
BatonAsk(t) ==
  /\ bt_thread[t] = "out" /\ bt_gets < MaxSignals
  /\ bt_gets' = bt_gets + 1
  /\ bt_thread' = [bt_thread EXCEPT ![t] = "asked"]
  /\ UNCHANGED <<bt_mutex, bt_event, condVars, awaitVars>>

BatonGet(t) ==
  /\ bt_thread[t] = "asked" /\ bt_mutex = {}
  /\ \/ ~bt_event /\ bt_mutex' = {t} /\ bt_thread' = [bt_thread EXCEPT ![t] = "job"]
     \/ bt_event /\ bt_thread' = [bt_thread EXCEPT ![t] = "skipped"] /\ UNCHANGED bt_mutex
  /\ UNCHANGED <<bt_event, bt_gets, condVars, awaitVars>>

BatonPass(t) ==
  /\ bt_thread[t] = "job"
  /\ bt_mutex' = {}
  /\ bt_thread' = [bt_thread EXCEPT ![t] = "out"]
  /\ UNCHANGED <<bt_event, bt_gets, condVars, awaitVars>>

(* Baton::finish: the event, then the mutex. *)
BatonFinish(t) ==
  /\ bt_thread[t] = "job"
  /\ bt_event' = TRUE
  /\ bt_thread' = [bt_thread EXCEPT ![t] = "finishing"]
  /\ UNCHANGED <<bt_mutex, bt_gets, condVars, awaitVars>>

BatonFinished(t) ==
  /\ bt_thread[t] = "finishing"
  /\ bt_event' = TRUE
  /\ bt_mutex' = {}
  /\ bt_thread' = [bt_thread EXCEPT ![t] = "skipped"]
  /\ UNCHANGED <<bt_gets, condVars, awaitVars>>

(* The browser terminates the thread; the system abandons the mutex. *)
BatonKilled(t) ==
  /\ bt_thread[t] \in {"asked", "job", "finishing"}
  /\ bt_thread' = [bt_thread EXCEPT ![t] = "killed"]
  /\ bt_mutex' = bt_mutex \ {t}
  /\ UNCHANGED <<bt_event, bt_gets, condVars, awaitVars>>

BatonNext ==
  \E t \in WThread :
    BatonAsk(t) \/ BatonGet(t) \/ BatonPass(t) \/ BatonFinish(t) \/ BatonFinished(t) \/ BatonKilled(t)

-----------------------------------------------------------------------------
(* Another thread changes the condition while the awaiting one yields. *)
ChangeCondition ==
  /\ aw_thread \in {"out", "yield"} /\ aw_turns < MaxSignals
  /\ aw_value' = ~aw_value /\ aw_turns' = aw_turns + 1
  /\ UNCHANGED <<aw_thread, aw_late, condVars, batonVars>>

Deadline ==
  /\ ~aw_late /\ aw_thread # "out"
  /\ aw_late' = TRUE
  /\ UNCHANGED <<aw_value, aw_turns, aw_thread, condVars, batonVars>>

(* AwaitImpl: the condition first, then the time, and the condition again  *)
(* for the result.                                                         *)
AwaitEval ==
  /\ aw_thread = "eval"
  /\ aw_thread' = IF aw_value THEN "true" ELSE IF aw_late THEN "false" ELSE "yield"
  /\ UNCHANGED <<aw_value, aw_turns, aw_late, condVars, batonVars>>

AwaitLocks ==
  /\ aw_thread \in {"out", "yield"}
  /\ aw_thread' = "eval"
  /\ UNCHANGED <<aw_value, aw_turns, aw_late, condVars, batonVars>>

AwaitNext == ChangeCondition \/ Deadline \/ AwaitEval \/ AwaitLocks

SyncNext == CondNext \/ BatonNext \/ AwaitNext

SyncSpec == SyncInit /\ [][SyncNext]_syncVars

-----------------------------------------------------------------------------
(* Every waiter will be woken by the next SignalAll, or the one that has   *)
(* begun: its event is the current one, set, or about to be set.  An event *)
(* is not freed and used again under a waiter.                             *)
WaiterIsReached ==
  \A t \in WThread : cv_thread[t].at = "wait" =>
    LET e == cv_thread[t].event
    IN  \/ e = cv_current /\ e \notin cv_set
        \/ e # cv_current /\ (e \in cv_set \/ \E u \in WThread : cv_thread[u].at = "set" /\ cv_thread[u].event = e)

(* A waiter is woken only by a SignalAll that came after it began. *)
WokenByLaterSignal ==
  \A t \in WThread : cv_thread[t].at = "woken" => cv_thread[t].began < cv_signals

(* Once a process has finished the job nobody gets it again, and until     *)
(* then it is not lost: the mutex of a killed process goes to the next.    *)
FinishedOnce ==
  \A t \in WThread : bt_thread'[t] = "job" /\ bt_thread[t] # "job" =>
    /\ ~bt_event
    /\ \A u \in WThread : bt_thread[u] \notin {"job", "finishing"}

(* Await reports the condition as it is when it returns, with the mutex    *)
(* held, even if it came true after the deadline.                          *)
AwaitIsTrue == aw_thread \in {"true", "false"} => (aw_thread = "true") = aw_value

(* The hand-made synchronisation of Win32: a signal reaches who waited     *)
(* before it and nobody else, Await returns true only of a true condition, *)
(* a baton's job is finished once.                                         *)
WaitsAreHonest ==
  [][/\ WaiterIsReached'
     /\ WokenByLaterSignal'
     /\ AwaitIsTrue'
     /\ FinishedOnce]_syncVars
=============================================================================
