---------------------------- MODULE ThreadQueue -----------------------------
(***************************************************************************)
(* Threads and their message queues: common/thread.cc, thread_posix.cc,    *)
(* message_queue.cc and message_queue_android.cc.                          *)
(*                                                                         *)
(* Each thread may own a ThreadSpecificQueue: a deque guarded by its own   *)
(* mutex and an auto-reset Event (see Event and AutoResetEvent).  Send     *)
(* holds queue_mutex_ from the look-up of the queue to the Signal; Stop    *)
(* holds it for the look-up only.  A receiver consumes the event, swaps    *)
(* the deque out and dispatches it message by message, and a handler may   *)
(* itself send.  The steps below are separated where another thread can    *)
(* intervene: push and Signal of a sender, Wait and PopMessages of a       *)
(* receiver.  What user code does (whom it sends to, when it loops, ends,  *)
(* starts or joins a thread) is left open.                                 *)
(***************************************************************************)
EXTENDS Naturals, Sequences, FiniteSets

CONSTANTS
  Thread,     \* thread ids
  Main,       \* the thread that owns the Thread objects of all the others
  NoThread,   \* nobody
  Type,       \* message types of the users of the queue
  Exit,       \* kAndroidLoop_Exit
  MaxSends,   \* bound: messages a thread sends
  MaxStarts   \* bound: times a Thread is started

ASSUME ThreadAssumption == Main \in Thread /\ NoThread \notin Thread
ASSUME TypeAssumption == Exit \notin Type
ASSUME BoundAssumption == MaxSends \in Nat /\ MaxStarts \in Nat \ {0}

VARIABLES
  life,         \* where a thread is between pthread_create and pthread_join
  is_running_,  \* Thread::is_running_
  thread_id_,   \* Thread::thread_id_ is not 0
  started_,     \* Thread::started_event_ is set
  live,         \* the keys of message_queues_
  gen,          \* queue objects made so far under each id
  queue_mutex_, \* who keeps queue_mutex_ across steps, or NoThread
  event_queue_, \* the deque of each thread's queue
  event_,       \* the Event of each thread's queue is set
  handlers_,    \* the message types with a registered handler
  op,           \* the library call each thread is inside of
  loop,         \* where each thread is in its message loop
  once,         \* that loop is RunOnce rather than Start
  local,        \* local_event_queue of the loop
  crashed,      \* a thread touched a destroyed queue
  sent,         \* messages sent so far by each thread
  delivered,    \* history: what each thread dispatched, in order
  discarded     \* history: messages destroyed undispatched

threadVars  == <<life, is_running_, thread_id_, started_>>
queueVars   == <<live, gen, queue_mutex_, event_queue_, event_>>
loopVars    == <<loop, once, local>>
historyVars == <<sent, delivered, discarded>>
vars == <<threadVars, queueVars, handlers_, op, loopVars, crashed, historyVars>>

Message == [from : Thread, n : 1 .. MaxSends, type : Type \cup {Exit}]

Lives == {"new", "starting", "inited", "announced", "running", "ending",
          "ended"}
Calls == {"none", "start", "join", "send_signal", "stop_push", "stop_signal"}
Loops == {"off", "wait", "pop", "dispatch", "handler"}

Call(c, u, g) == [at |-> c, to |-> u, gen |-> g]
NoCall == Call("none", NoThread, 0)

ThreadTypeOK ==
  /\ life \in [Thread -> Lives]
  /\ is_running_ \in [Thread -> BOOLEAN]
  /\ thread_id_ \in [Thread -> BOOLEAN]
  /\ started_ \in [Thread -> BOOLEAN]
  /\ live \subseteq Thread
  /\ gen \in [Thread -> 0 .. MaxStarts]

CallTypeOK ==
  /\ queue_mutex_ \in Thread \cup {NoThread}
  /\ op \in [Thread -> [at : Calls, to : Thread \cup {NoThread},
                        gen : 0 .. MaxStarts]]
  /\ loop \in [Thread -> Loops]
  /\ once \in [Thread -> BOOLEAN]
  /\ event_ \in [Thread -> BOOLEAN]
  /\ handlers_ \subseteq Type
  /\ crashed \in BOOLEAN
  /\ sent \in [Thread -> 0 .. MaxSends]

MessageTypeOK ==
  /\ event_queue_ \in [Thread -> Seq(Message)]
  /\ local \in [Thread -> Seq(Message)]
  /\ delivered \in [Thread -> Seq(Message)]
  /\ discarded \subseteq Message

TypeOK == ThreadTypeOK /\ CallTypeOK /\ MessageTypeOK

(* Main is running and has called InitThreadMessageQueue (main.cc 112). *)
Init ==
  /\ life = [t \in Thread |-> IF t = Main THEN "running" ELSE "new"]
  /\ is_running_ = [t \in Thread |-> FALSE]
  /\ thread_id_ = [t \in Thread |-> FALSE]
  /\ started_ = [t \in Thread |-> FALSE]
  /\ live = {Main}
  /\ gen = [t \in Thread |-> IF t = Main THEN 1 ELSE 0]
  /\ queue_mutex_ = NoThread
  /\ event_queue_ = [t \in Thread |-> <<>>]
  /\ event_ = [t \in Thread |-> FALSE]
  /\ handlers_ = {}
  /\ op = [t \in Thread |-> NoCall]
  /\ loop = [t \in Thread |-> "off"]
  /\ once = [t \in Thread |-> FALSE]
  /\ local = [t \in Thread |-> <<>>]
  /\ crashed = FALSE
  /\ sent = [t \in Thread |-> 0]
  /\ delivered = [t \in Thread |-> <<>>]
  /\ discarded = {}

-----------------------------------------------------------------------------
Elements(s) == {s[i] : i \in DOMAIN s}

(* User code of t is executing: its Run method, or a message handler. *)
InUserCode(t) ==
  /\ life[t] = "running"
  /\ op[t].at = "none"
  /\ loop[t] \in {"off", "handler"}

Become(t, l) == life' = [life EXCEPT ![t] = l]
Enter(t, c)  == op' = [op EXCEPT ![t] = c]
Loop(t, l)   == loop' = [loop EXCEPT ![t] = l]

-----------------------------------------------------------------------------
(* Thread::Start of u on Main: pthread_create, then started_event_.Wait. *)
ThreadStart(u) ==
  /\ InUserCode(Main)
  /\ life[u] = "new"
  /\ gen[u] < MaxStarts
  /\ Become(u, "starting")
  /\ Enter(Main, Call("start", u, 0))
  /\ UNCHANGED <<is_running_, thread_id_, started_, queueVars, handlers_,
                 loopVars, crashed, historyVars>>

ThreadStarted(u) ==
  /\ op[Main].at = "start" /\ op[Main].to = u
  /\ started_[u]
  /\ started_' = [started_ EXCEPT ![u] = FALSE]
  /\ Enter(Main, NoCall)
  /\ UNCHANGED <<life, is_running_, thread_id_, queueVars, handlers_, loopVars,
                 crashed, historyVars>>

(* Thread::ThreadMain up to InitThreadMessageQueue: a fresh, empty queue   *)
(* enters message_queues_, and the thread-end hook is set.                 *)
InitThreadMessageQueue(t) ==
  /\ life[t] = "starting"
  /\ queue_mutex_ = NoThread
  /\ Become(t, "inited")
  /\ live' = live \cup {t}
  /\ gen' = [gen EXCEPT ![t] = @ + 1]
  /\ event_queue_' = [event_queue_ EXCEPT ![t] = <<>>]
  /\ event_' = [event_ EXCEPT ![t] = FALSE]
  /\ UNCHANGED <<is_running_, thread_id_, started_, queue_mutex_, handlers_,
                 op, loopVars, crashed, historyVars>>

(* The unguarded assignments to thread_id_ and is_running_ ... *)
ThreadMainAnnounce(t) ==
  /\ life[t] = "inited"
  /\ Become(t, "announced")
  /\ thread_id_' = [thread_id_ EXCEPT ![t] = TRUE]
  /\ is_running_' = [is_running_ EXCEPT ![t] = TRUE]
  /\ UNCHANGED <<started_, queueVars, handlers_, op, loopVars, crashed,
                 historyVars>>

(* Variant: the creator is not told. *)
ThreadMainNoSignal(t) ==
  /\ life[t] = "announced"
  /\ Become(t, "running")
  /\ UNCHANGED <<is_running_, thread_id_, started_, queueVars, handlers_, op,
                 loopVars, crashed, historyVars>>

(* ... and started_event_.Signal, after which Run is entered. *)
ThreadMainSignal(t) ==
  /\ life[t] = "announced"
  /\ Become(t, "running")
  /\ started_' = [started_ EXCEPT ![t] = TRUE]
  /\ UNCHANGED <<is_running_, thread_id_, queueVars, handlers_, op, loopVars,
                 crashed, historyVars>>

(* Run returns; is_running_ is cleared and the pthread begins to exit. *)
RunReturns(t) ==
  /\ t # Main
  /\ InUserCode(t)
  /\ loop[t] = "off"
  /\ Become(t, "ending")
  /\ is_running_' = [is_running_ EXCEPT ![t] = FALSE]
  /\ UNCHANGED <<thread_id_, started_, queueVars, handlers_, op, loopVars,
                 crashed, historyVars>>

(* The thread-local destructor: the queue leaves message_queues_ and dies  *)
(* with the messages still in it.                                          *)
ThreadEndHook(t) ==
  /\ life[t] = "ending"
  /\ queue_mutex_ = NoThread
  /\ Become(t, "ended")
  /\ live' = live \ {t}
  /\ discarded' = discarded \cup Elements(event_queue_[t])
  /\ event_queue_' = [event_queue_ EXCEPT ![t] = <<>>]
  /\ UNCHANGED <<is_running_, thread_id_, started_, gen, queue_mutex_, event_,
                 handlers_, op, loopVars, crashed, sent, delivered>>

(* Thread::Join of u on Main blocks in pthread_join ... *)
ThreadJoin(u) ==
  /\ InUserCode(Main)
  /\ thread_id_[u]
  /\ Enter(Main, Call("join", u, 0))
  /\ UNCHANGED <<threadVars, queueVars, handlers_, loopVars, crashed,
                 historyVars>>

(* Variant: Join waits for is_running_ to clear, not for the pthread. *)
ThreadJoinedEarly(u) ==
  /\ op[Main].at = "join" /\ op[Main].to = u
  /\ life[u] \in {"ending", "ended"}
  /\ Become(u, "new")
  /\ thread_id_' = [thread_id_ EXCEPT ![u] = FALSE]
  /\ Enter(Main, NoCall)
  /\ UNCHANGED <<is_running_, started_, queueVars, handlers_, loopVars,
                 crashed, historyVars>>

(* ... until the pthread, hook included, is gone. *)
ThreadJoined(u) ==
  /\ op[Main].at = "join" /\ op[Main].to = u
  /\ life[u] = "ended"
  /\ Become(u, "new")
  /\ thread_id_' = [thread_id_ EXCEPT ![u] = FALSE]
  /\ Enter(Main, NoCall)
  /\ UNCHANGED <<is_running_, started_, queueVars, handlers_, loopVars,
                 crashed, historyVars>>

-----------------------------------------------------------------------------
RegisterHandler(t, type) ==
  /\ InUserCode(t)
  /\ type \notin handlers_
  /\ handlers_' = handlers_ \cup {type}
  /\ UNCHANGED <<threadVars, queueVars, op, loopVars, crashed, historyVars>>

NewMessage(t, type) == [from |-> t, n |-> sent[t] + 1, type |-> type]

Send(t, u, type) ==
  /\ InUserCode(t)
  /\ sent[t] < MaxSends
  /\ queue_mutex_ = NoThread
  /\ sent' = [sent EXCEPT ![t] = @ + 1]
  /\ UNCHANGED <<threadVars, live, gen, event_, handlers_, loopVars, crashed,
                 delivered>>

(* AndroidThreadMessageQueue::Send finds the queue and pushes the message, *)
(* with queue_mutex_ held from here to SendSignal.                         *)
SendPush(t, u, type) ==
  /\ Send(t, u, type)
  /\ u \in live
  /\ event_queue_' = [event_queue_ EXCEPT ![u] = Append(@, NewMessage(t, type))]
  /\ queue_mutex_' = t
  /\ Enter(t, Call("send_signal", u, gen[u]))
  /\ UNCHANGED discarded

(* No such queue: the message is deleted and Send returns false. *)
SendRefused(t, u, type) ==
  /\ Send(t, u, type)
  /\ u \notin live
  /\ discarded' = discarded \cup {NewMessage(t, type)}
  /\ UNCHANGED <<event_queue_, queue_mutex_, op>>

(* Variant: the message is pushed but the owner is not woken. *)
SendNoSignal(t) ==
  /\ op[t].at = "send_signal"
  /\ queue_mutex_' = NoThread
  /\ Enter(t, NoCall)
  /\ UNCHANGED <<threadVars, live, gen, event_queue_, event_, handlers_,
                 loopVars, crashed, historyVars>>

(* ThreadSpecificQueue::SendMessage signals; Send unlocks and returns. *)
SendSignal(t) ==
  /\ op[t].at = "send_signal"
  /\ event_' = [event_ EXCEPT ![op[t].to] = TRUE]
  /\ queue_mutex_' = NoThread
  /\ Enter(t, NoCall)
  /\ UNCHANGED <<threadVars, live, gen, event_queue_, handlers_, loopVars,
                 crashed, historyVars>>

-----------------------------------------------------------------------------
(* AndroidMessageLoop::Stop, called as its comment asks with u looping in  *)
(* Start.  GetQueue returns a raw pointer and releases queue_mutex_.       *)
Stop(t, u) ==
  /\ InUserCode(t)
  /\ sent[t] < MaxSends
  /\ loop[u] # "off" /\ ~once[u]
  /\ queue_mutex_ = NoThread
  /\ Enter(t, Call("stop_push", u, gen[u]))
  /\ UNCHANGED <<threadVars, queueVars, handlers_, loopVars, crashed,
                 historyVars>>

(* The queue object a pointer was taken to still exists. *)
PointsToLive(c) == c.to \in live /\ gen[c.to] = c.gen

StopPush(t) ==
  /\ op[t].at = "stop_push"
  /\ PointsToLive(op[t])
  /\ event_queue_' = [event_queue_ EXCEPT ![op[t].to] =
                        Append(@, NewMessage(t, Exit))]
  /\ sent' = [sent EXCEPT ![t] = @ + 1]
  /\ Enter(t, [op[t] EXCEPT !.at = "stop_signal"])
  /\ UNCHANGED <<threadVars, live, gen, queue_mutex_, event_, handlers_,
                 loopVars, crashed, delivered, discarded>>

StopSignal(t) ==
  /\ op[t].at = "stop_signal"
  /\ PointsToLive(op[t])
  /\ event_' = [event_ EXCEPT ![op[t].to] = TRUE]
  /\ Enter(t, NoCall)
  /\ UNCHANGED <<threadVars, live, gen, queue_mutex_, event_queue_, handlers_,
                 loopVars, crashed, historyVars>>

(* The queue was destroyed in between: what follows is undefined, and the  *)
(* model ends the execution there.                                         *)
StopDangles(t) ==
  /\ op[t].at \in {"stop_push", "stop_signal"}
  /\ ~PointsToLive(op[t])
  /\ crashed' = TRUE
  /\ UNCHANGED <<threadVars, queueVars, handlers_, op, loopVars, historyVars>>

-----------------------------------------------------------------------------
(* AndroidMessageLoop::Start and RunOnce, on the calling thread. *)
LoopStart(t, run_once) ==
  /\ InUserCode(t)
  /\ loop[t] = "off"
  /\ queue_mutex_ = NoThread
  /\ t \in live
  /\ Loop(t, "wait")
  /\ once' = [once EXCEPT ![t] = run_once]
  /\ UNCHANGED <<threadVars, queueVars, handlers_, op, local, crashed,
                 historyVars>>

(* event_.Wait returns, having reset the event. *)
LoopWait(t) ==
  /\ loop[t] = "wait"
  /\ event_[t]
  /\ event_' = [event_ EXCEPT ![t] = FALSE]
  /\ Loop(t, "pop")
  /\ UNCHANGED <<threadVars, live, gen, queue_mutex_, event_queue_, handlers_,
                 op, once, local, crashed, historyVars>>

(* Variant: the deque is cleared but only its front is taken. *)
PopFront(t) ==
  /\ loop[t] = "pop"
  /\ local' = [local EXCEPT ![t] = SubSeq(event_queue_[t], 1, 1)]
  /\ event_queue_' = [event_queue_ EXCEPT ![t] = <<>>]
  /\ Loop(t, "dispatch")
  /\ UNCHANGED <<threadVars, live, gen, queue_mutex_, event_, handlers_, op,
                 once, crashed, historyVars>>

(* ThreadSpecificQueue::PopMessages swaps the whole deque out. *)
PopMessages(t) ==
  /\ loop[t] = "pop"
  /\ local' = [local EXCEPT ![t] = event_queue_[t]]
  /\ event_queue_' = [event_queue_ EXCEPT ![t] = <<>>]
  /\ Loop(t, "dispatch")
  /\ UNCHANGED <<threadVars, live, gen, queue_mutex_, event_, handlers_, op,
                 once, crashed, historyVars>>

(* Variant: the batch is dispatched from its back. *)
DispatchBack(t) ==
  /\ loop[t] = "dispatch"
  /\ local[t] # <<>>
  /\ LET m == local[t][Len(local[t])]
     IN  /\ once[t] \/ m.type # Exit
         /\ delivered' = [delivered EXCEPT ![t] = Append(@, m)]
         /\ local' = [local EXCEPT ![t] = SubSeq(@, 1, Len(@) - 1)]
         /\ Loop(t, IF m.type \in handlers_ THEN "handler" ELSE "dispatch")
  /\ UNCHANGED <<threadVars, queueVars, handlers_, op, once, crashed, sent,
                 discarded>>

(* HandleThreadMessage of the next message: its handler is called, or      *)
(* nothing happens when its type has none.  RunOnce does not treat Exit    *)
(* specially.                                                              *)
Dispatch(t) ==
  /\ loop[t] = "dispatch"
  /\ local[t] # <<>>
  /\ once[t] \/ Head(local[t]).type # Exit
  /\ delivered' = [delivered EXCEPT ![t] = Append(@, Head(local[t]))]
  /\ local' = [local EXCEPT ![t] = Tail(@)]
  /\ Loop(t, IF Head(local[t]).type \in handlers_ THEN "handler"
             ELSE "dispatch")
  /\ UNCHANGED <<threadVars, queueVars, handlers_, op, once, crashed, sent,
                 discarded>>

HandlerReturns(t) ==
  /\ loop[t] = "handler"
  /\ op[t].at = "none"
  /\ Loop(t, "dispatch")
  /\ UNCHANGED <<threadVars, queueVars, handlers_, op, once, local, crashed,
                 historyVars>>

(* Variant: Exit breaks out of the batch only, `done' is not set. *)
LoopExitGoesOn(t) ==
  /\ loop[t] = "dispatch"
  /\ local[t] # <<>>
  /\ ~once[t]
  /\ Head(local[t]).type = Exit
  /\ delivered' = [delivered EXCEPT ![t] = Append(@, Head(local[t]))]
  /\ discarded' = discarded \cup Elements(Tail(local[t]))
  /\ local' = [local EXCEPT ![t] = <<>>]
  /\ Loop(t, "wait")
  /\ UNCHANGED <<threadVars, queueVars, handlers_, op, once, crashed, sent>>

(* Exit ends the Start loop, dropping what is left of the batch. *)
LoopExit(t) ==
  /\ loop[t] = "dispatch"
  /\ local[t] # <<>>
  /\ ~once[t]
  /\ Head(local[t]).type = Exit
  /\ delivered' = [delivered EXCEPT ![t] = Append(@, Head(local[t]))]
  /\ discarded' = discarded \cup Elements(Tail(local[t]))
  /\ local' = [local EXCEPT ![t] = <<>>]
  /\ Loop(t, "off")
  /\ UNCHANGED <<threadVars, queueVars, handlers_, op, once, crashed, sent>>

(* Variant: the event is cleared after the batch, so that it is never left *)
(* set for a queue that was already popped.                                *)
BatchDoneClears(t) ==
  /\ loop[t] = "dispatch"
  /\ local[t] = <<>>
  /\ event_' = [event_ EXCEPT ![t] = FALSE]
  /\ Loop(t, IF once[t] THEN "off" ELSE "wait")
  /\ UNCHANGED <<threadVars, live, gen, queue_mutex_, event_queue_, handlers_,
                 op, once, local, crashed, historyVars>>

(* The batch is done: Start waits again, RunOnce returns. *)
BatchDone(t) ==
  /\ loop[t] = "dispatch"
  /\ local[t] = <<>>
  /\ Loop(t, IF once[t] THEN "off" ELSE "wait")
  /\ UNCHANGED <<threadVars, queueVars, handlers_, op, once, local, crashed,
                 historyVars>>

-----------------------------------------------------------------------------
(* What a thread does by itself once it is inside the library. *)
Proceed(t) ==
  \/ InitThreadMessageQueue(t) \/ ThreadMainAnnounce(t) \/ ThreadMainSignal(t)
  \/ ThreadEndHook(t)
  \/ SendSignal(t) \/ StopPush(t) \/ StopSignal(t) \/ StopDangles(t)
  \/ LoopWait(t) \/ PopMessages(t) \/ Dispatch(t) \/ LoopExit(t)
  \/ BatchDone(t)
  \/ t = Main /\ \E u \in Thread \ {Main} : ThreadStarted(u) \/ ThreadJoined(u)

(* What its user code may ask for next. *)
UserStep(t) ==
  \/ HandlerReturns(t) \/ RunReturns(t)
  \/ \E b \in BOOLEAN : LoopStart(t, b)
  \/ \E u \in Thread, type \in Type : SendPush(t, u, type)
                                      \/ SendRefused(t, u, type)
  \/ \E u \in Thread : Stop(t, u)
  \/ \E type \in Type : RegisterHandler(t, type)
  \/ t = Main /\ \E u \in Thread \ {Main} : ThreadStart(u) \/ ThreadJoin(u)

Next == ~crashed /\ \E t \in Thread : Proceed(t) \/ UserStep(t)

Spec == Init /\ [][Next]_vars

(* The scheduler starves no thread, and message handlers return. *)
FairSpec ==
  Spec /\ \A t \in Thread : WF_vars(~crashed /\ (Proceed(t) \/ HandlerReturns(t)))

-----------------------------------------------------------------------------
(* A call of t that will still signal the current queue of u. *)
WillSignal(t, u) ==
  /\ op[t].at \in {"send_signal", "stop_signal"}
  /\ op[t].to = u
  /\ op[t].gen = gen[u]

(* No wake-up is lost between push, Signal, Wait and PopMessages: while    *)
(* messages are queued, the event is set, or the owner is about to pop, or *)
(* a sender is about to signal (message_queue_android.cc 167-192, 214-249) *)
NoLostWakeup ==
  \A u \in live :
    event_queue_[u] # <<>> =>
      event_[u] \/ loop[u] = "pop" \/ \E t \in Thread : WillSignal(t, u)

(* Messages of one sender reach a thread in the order they were sent, and  *)
(* none is dispatched twice, whatever the batches they were popped in.     *)
InOrder ==
  \A t \in Thread :
    LET s == delivered[t] \o local[t] \o event_queue_[t]
    IN  \A i, j \in DOMAIN s :
          i < j /\ s[i].from = s[j].from => s[i].n < s[j].n

(* A message is in exactly one place: with one receiver (queued, popped or *)
(* dispatched), or destroyed.  The queue that took ownership of it neither *)
(* leaks it nor hands it out twice (message_queue.h 80-84).                *)
Holds(t) ==
  Elements(delivered[t]) \cup Elements(local[t]) \cup Elements(event_queue_[t])

NothingVanishes ==
  \A s \in Thread : \A k \in 1 .. sent[s] :
    LET Is(m) == m.from = s /\ m.n = k
        receivers == {t \in Thread : \E m \in Holds(t) : Is(m)}
    IN  IF \E m \in discarded : Is(m) THEN receivers = {}
        ELSE Cardinality(receivers) = 1

(* While is_running_ tells other threads that u runs, u can be sent to and *)
(* has an id (thread.cc 81-95 against Send).                               *)
ReachableWhileRunning ==
  \A u \in Thread : is_running_[u] => u \in live /\ thread_id_[u]

(* Join leaves nothing of the thread behind: the assertions of Start and   *)
(* of the destructor hold, no queue is left under an id that pthreads may  *)
(* reuse, and no stale started_event_ lets the next Start return early.    *)
JoinLeavesNoTrace ==
  \A u \in Thread :
    life[u] = "new" => /\ ~is_running_[u] /\ ~thread_id_[u] /\ ~started_[u]
                      /\ u \notin live
                      /\ loop[u] = "off" /\ op[u].at = "none"

(* Start has returned only when the child is set up (thread.cc 54-58).     *)
StartedMeansReady ==
  \A u \in Thread :
    started_[u] => thread_id_[u] /\ op[Main].at = "start" /\ op[Main].to = u

(* The strengthening that makes these properties inductive: how the state  *)
(* of a thread, its queue and its creator's call fit together ...          *)
MainRuns == life[Main] = "running" /\ ~is_running_[Main] /\ ~thread_id_[Main]

FlagsFollowLife ==
  \A u \in Thread \ {Main} :
    /\ is_running_[u] <=> life[u] \in {"announced", "running"}
    /\ thread_id_[u] <=> life[u] \in {"announced", "running", "ending", "ended"}

QueueExists ==
  \A u \in Thread :
    u \in live <=> life[u] \in {"inited", "announced", "running", "ending"}

StartPending ==
  /\ \A u \in Thread : started_[u] =>
       /\ op[Main].at = "start" /\ op[Main].to = u
       /\ life[u] \in {"running", "ending", "ended"}
  /\ op[Main].at \in {"start", "join"} => op[Main].to \in Thread \ {Main}
  /\ \A u \in Thread : life[u] \in {"starting", "inited", "announced"} =>
       op[Main].at = "start" /\ op[Main].to = u

OnlyRunningCalls ==
  \A t \in Thread :
    loop[t] # "off" \/ op[t].at # "none" => life[t] = "running"

RoomToStart == \A u \in Thread : life[u] = "starting" => gen[u] < MaxStarts

LifeInv ==
  /\ MainRuns
  /\ FlagsFollowLife
  /\ QueueExists
  /\ StartPending
  /\ OnlyRunningCalls
  /\ RoomToStart

(* ... and what the calls in progress may rely on.                         *)
MutexHeldBySender ==
  \A t \in Thread : queue_mutex_ = t <=> op[t].at = "send_signal"

SenderPointsToLive ==
  \A t \in Thread : op[t].at = "send_signal" => PointsToLive(op[t])

RoomToStop == \A t \in Thread : op[t].at = "stop_push" => sent[t] < MaxSends

CallInv == MutexHeldBySender /\ SenderPointsToLive /\ RoomToStop

IInv == TypeOK /\ LifeInv /\ CallInv /\ NoLostWakeup

-----------------------------------------------------------------------------
(* What AndroidMessageLoop::Stop relies on: asked to stop a thread that is *)
(* looping in Start (message_queue.h 134-135), it never uses the queue of  *)
(* a thread that has meanwhile ended.                                      *)
StopNeverDangles == ~crashed

(* message_queue.h 119-121: RunOnce with an empty queue "blocks until at   *)
(* least one message is received", so it never finds nothing to process.   *)
RunOnceGetsMessages ==
  [][\A t \in Thread :
       once[t] /\ loop[t] = "pop" /\ loop'[t] = "dispatch"
         => event_queue_[t] # <<>>]_vars

(* A message queued for a thread that loops in Start is eventually popped. *)
LoopingReceives ==
  \A t \in Thread :
    (event_queue_[t] # <<>> /\ loop[t] = "wait" /\ ~once[t])
      ~> (event_queue_[t] = <<>> \/ crashed)

(* Thread::Start returns: the child always gets to signal started_event_.  *)
StartReturns == (op[Main].at = "start") ~> (op[Main].at # "start" \/ crashed)

(* A thread that loops in Start (message_queue_android.cc 214-232) leaves  *)
(* the loop once Exit is queued or in the batch it works on, whatever was  *)
(* queued before Exit and however many handlers run until it is reached:   *)
(* unless one of them waits for ever in a Join for a thread that never     *)
(* ends.                                                                   *)
ExitIsComing(t) ==
  /\ loop[t] # "off" /\ ~once[t]
  /\ \E m \in Elements(event_queue_[t]) \cup Elements(local[t]) : m.type = Exit

StopEndsLoop ==
  \A t \in Thread :
    []<>(op[t].at # "join") => (ExitIsComing(t) ~> (loop[t] = "off" \/ crashed))

(* From Start to Join and through restarts: a thread that says it runs can *)
(* be sent to, Start returns only once it is set up, and Join leaves       *)
(* nothing behind.                                                         *)
LifeIsClean ==
  /\ ReachableWhileRunning
  /\ StartedMeansReady
  /\ JoinLeavesNoTrace
=============================================================================
