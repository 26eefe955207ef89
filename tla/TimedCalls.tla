----------------------------- MODULE TimedCalls -----------------------------
(***************************************************************************)
(* common/timed_call.cc on one thread: TimedCall objects share one         *)
(* TimerSingleton, which keeps them in a set ordered by deadline and arms  *)
(* one OS timer for the earliest.  When the OS timer fires, Callback takes *)
(* a copy of the queue and fires what is due, one user callback after the  *)
(* other; a callback may create and destroy TimedCalls, itself included.   *)
(* Platform chooses between the Win32 and the GTK PlatformTimer.           *)
(***************************************************************************)
EXTENDS Integers, Sequences, FiniteSets, FiniteSetsExt, SequencesExt

CONSTANTS
  Timer,      \* TimedCall objects, as numbers: std::set compares addresses
  Delay,      \* the delays they may be created with, negative ones included
  Platform,   \* "win32" or "gtk"
  MinTimeout, \* the lower clamp in SetNextFire, 0x0A milliseconds
  MaxTimeout, \* the upper clamp, 0x7FFFFFFF milliseconds
  MaxTime     \* bound: last instant of the clock

ASSUME TimerAssumption == Timer \subseteq Nat /\ IsFiniteSet(Timer)
ASSUME PlatformAssumption == Platform \in {"win32", "gtk"}
ASSUME TimeAssumption ==
  /\ Delay \subseteq Int
  /\ MaxTime \in Nat /\ MinTimeout \in Nat /\ MaxTimeout \in Nat
  /\ MinTimeout <= MaxTimeout

VARIABLES
  now,        \* GetCurrentTimeMillis
  object,     \* "none", "live" or "dead" for each TimedCall
  deadline,   \* deadline_
  delay,      \* delay_
  repeat,     \* repeat_
  queue,      \* timer_queue_
  os,         \* the instants at which OS timers will fire
  running,    \* Callback is on the stack
  rest,       \* what is left of current_queue
  start,      \* `now' as Callback read it
  in_user,    \* a user callback is executing
  fires,      \* history: times each callback was called
  due         \* history: due when Callback started and not fired since

timedVars == <<now, object, deadline, delay, repeat, queue, os, running, rest,
          start, in_user, fires, due>>
callbackVars == <<running, rest, start, due>>

TimedTypeOK ==
  /\ now \in 0 .. MaxTime
  /\ object \in [Timer -> {"none", "live", "dead"}]
  /\ deadline \in [Timer -> Int]
  /\ delay \in [Timer -> Delay \cup {0}]
  /\ repeat \in [Timer -> BOOLEAN]
  /\ queue \subseteq {t \in Timer : object[t] = "live"}
  /\ os \in Seq(Int)
  /\ rest \in Seq(Timer)
  /\ in_user => running
  /\ fires \in [Timer -> Nat]
  /\ due \subseteq Timer

TimedInit ==
  /\ now = 0
  /\ object = [t \in Timer |-> "none"]
  /\ deadline = [t \in Timer |-> 0]
  /\ delay = [t \in Timer |-> 0]
  /\ repeat = [t \in Timer |-> FALSE]
  /\ queue = {}
  /\ os = <<>>
  /\ running = FALSE
  /\ rest = <<>>
  /\ start = 0
  /\ in_user = FALSE
  /\ fires = [t \in Timer |-> 0]
  /\ due = {}

-----------------------------------------------------------------------------
(* TimedCallPtrLessThan *)
Before(d, a, b) == d[a] < d[b] \/ (d[a] = d[b] /\ a < b)

(* The elements of q in the order of the std::set, as the only sequence of *)
(* a set of sequences.                                                     *)
Sorted(q, d) ==
  {s \in [1 .. Cardinality(q) -> q] :
     ToSet(s) = q /\ \A i, j \in DOMAIN s : i < j => Before(d, s[i], s[j])}

(* PlatformTimer::Cancel.  On GTK timer_id_ is never assigned, so there is *)
(* never anything to remove.                                               *)
CancelOs == IF Platform = "win32" THEN <<>> ELSE os

(* Variant: the clamps are applied in the wrong direction. *)
SetNextFireLate(timeout) ==
  Append(CancelOs, now + Max({timeout, MaxTimeout}))

(* PlatformTimer::SetNextFire *)
SetNextFire(timeout) ==
  Append(CancelOs, now + Max({Min({timeout, MaxTimeout}), MinTimeout}))

(* TimerSingleton::RearmTimer for queue q with deadlines d. *)
RearmTimer(q, d) ==
  os' = IF q = {} THEN CancelOs
        ELSE SetNextFire(Max({Min({d[t] : t \in q}) - now, 0}))

InUserCode == ~running \/ in_user

-----------------------------------------------------------------------------
Tick == /\ now < MaxTime
        /\ now' = now + 1
        /\ UNCHANGED <<object, deadline, delay, repeat, queue, os, in_user,
                       fires, callbackVars>>

(* TimedCall::TimedCall and TimerSingleton::Insert *)
Create(t, dl, rep) ==
  /\ InUserCode
  /\ object[t] = "none"
  /\ object' = [object EXCEPT ![t] = "live"]
  /\ delay' = [delay EXCEPT ![t] = dl]
  /\ repeat' = [repeat EXCEPT ![t] = rep]
  /\ deadline' = [deadline EXCEPT ![t] = now + dl]
  /\ queue' = queue \cup {t}
  /\ RearmTimer(queue', deadline')
  /\ UNCHANGED <<now, in_user, fires, callbackVars>>

(* TimedCall::~TimedCall, Cancel and TimerSingleton::Erase *)
Destroy(t) ==
  /\ InUserCode
  /\ object[t] = "live"
  /\ object' = [object EXCEPT ![t] = "dead"]
  /\ queue' = queue \ {t}
  /\ due' = due \ {t}
  /\ RearmTimer(queue', deadline)
  /\ UNCHANGED <<now, deadline, delay, repeat, in_user, fires, running, rest,
                 start>>

(* The message loop delivers an OS timer; Callback copies the queue. *)
OnTimer(i) ==
  /\ ~running
  /\ os[i] <= now
  /\ os' = RemoveAt(os, i)
  /\ running' = TRUE
  /\ rest' \in Sorted(queue, deadline)
  /\ start' = now
  /\ due' = {t \in queue : deadline[t] <= now}
  /\ UNCHANGED <<now, object, deadline, delay, repeat, queue, in_user, fires>>

(* The condition of the loop in Callback, against the time read before it. *)
NextIsDue == rest # <<>> /\ deadline[Head(rest)] <= start

(* One turn of the loop in Callback: the call leaves the queue, is put     *)
(* back first if it repeats (TimedCall::Fire), and its callback is called. *)
Fire ==
  /\ running /\ ~in_user
  /\ NextIsDue
  /\ LET t == Head(rest)
     IN  /\ object[t] = "live"
         /\ \/ /\ repeat[t]
               /\ deadline' = [deadline EXCEPT ![t] = now + delay[t]]
               /\ queue' = queue \cup {t}
               /\ RearmTimer(queue', deadline')
            \/ /\ ~repeat[t]
               /\ queue' = queue \ {t}
               /\ UNCHANGED <<deadline, os>>
         /\ fires' = [fires EXCEPT ![t] = @ + 1]
         /\ due' = due \ {t}
  /\ rest' = Tail(rest)
  /\ in_user' = TRUE
  /\ UNCHANGED <<now, object, delay, repeat, running, start>>

UserReturns ==
  /\ in_user
  /\ in_user' = FALSE
  /\ UNCHANGED <<now, object, deadline, delay, repeat, queue, os, fires,
                 callbackVars>>

(* Nothing more is due in the copy: rearm and return to the message loop.  *)
CallbackEnd ==
  /\ running /\ ~in_user
  /\ ~NextIsDue
  /\ running' = FALSE
  /\ rest' = <<>>
  /\ RearmTimer(queue, deadline)
  /\ UNCHANGED <<now, object, deadline, delay, repeat, queue, in_user, fires,
                 start, due>>

-----------------------------------------------------------------------------
TimedNext ==
  \/ Tick \/ Fire \/ UserReturns \/ CallbackEnd
  \/ \E t \in Timer : Destroy(t) \/ \E dl \in Delay, b \in BOOLEAN : Create(t, dl, b)
  \/ \E i \in DOMAIN os : OnTimer(i)

TimedSpec == TimedInit /\ [][TimedNext]_timedVars

-----------------------------------------------------------------------------
(* A pending call is never forgotten: back in the message loop, some OS    *)
(* timer fires no later than the earliest deadline, or one clamp from now. *)
WakeupCoversDeadline ==
  ~running /\ queue # {} =>
    \E i \in DOMAIN os :
      os[i] <= Max({now + MinTimeout, Min({deadline[t] : t \in queue})})

(* A call that does not repeat is called back at most once, and one that   *)
(* was called back is no longer pending.                                   *)
OneShotFiresOnce ==
  \A t \in Timer : ~repeat[t] =>
    fires[t] + (IF t \in queue THEN 1 ELSE 0) <= 1

(* When Callback returns, everything that was due when it started has been *)
(* called back or destroyed, whatever the callbacks did to the queue.      *)
DueIsFired == ~running => due = {}

(* timed_call.h 55: "'callback_' will not be called after or during        *)
(* destructor."  Callback does not even look at a destroyed call.          *)
DestroyedIsNotTouched ==
  running /\ ~in_user /\ rest # <<>> => object[Head(rest)] # "dead"

(* timed_call.h 41: "Uses one OS timer per thread."  On GTK they add up,   *)
(* since none is ever removed.                                             *)
OneOsTimer == Platform = "win32" => Len(os) <= 1

(* Whatever callbacks create and destroy, the one OS timer covers the      *)
(* earliest deadline and every call fires when, and as often as, it is     *)
(* due.                                                                    *)
CallsFireInTime ==
  /\ TimedTypeOK
  /\ WakeupCoversDeadline
  /\ OneShotFiresOnce
  /\ DueIsFired
  /\ OneOsTimer
=============================================================================
