---------------------------- MODULE MessageDemo -----------------------------
(***************************************************************************)
(* main.cc: the program the Makefile builds, as a client of ThreadQueue.   *)
(* Main starts a worker, sends it Script, and runs RunOnce until its own   *)
(* handler has been told that the data is complete and has stopped the     *)
(* worker; then it joins.  The worker registers two handlers, loops in     *)
(* Start, and its second handler reports to Main when its count is full.   *)
(* The sleeps are left out: any delay between two steps is possible.       *)
(***************************************************************************)
EXTENDS ThreadQueue

CONSTANTS
  Worker,                             \* the TestThread
  kMessageType1, kMessageType2, kMessageType3,
  Script,                             \* what Main sends: type and data
  Full                                \* the count that is reported, 600

WorkerTypes == {kMessageType1, kMessageType2}

ASSUME DemoAssumption ==
  /\ Worker \in Thread \ {Main}
  /\ WorkerTypes \cup {kMessageType3} \subseteq Type
  /\ kMessageType1 # kMessageType2 /\ kMessageType3 \notin WorkerTypes
  /\ Script \in Seq([type : WorkerTypes, data : Nat])
  /\ Len(Script) < MaxSends

(* What the data of type y in Script add up to, message after message. *)
CountAfter(y) ==
  LET total[i \in 0 .. Len(Script)] ==
        IF i = 0 THEN 0
        ELSE total[i - 1] + (IF Script[i].type = y THEN Script[i].data ELSE 0)
  IN  total

(* As in main.cc, the last message fills its count and no earlier one does. *)
ASSUME ScriptAssumption ==
  \A i \in 1 .. Len(Script) : CountAfter(Script[i].type)[i] = Full <=> i = Len(Script)

VARIABLES
  at,      \* position of each thread in its own code
  count_,  \* BackgroundMessageHandler::count_ of the handler of each type
  done_    \* MainMessageHandler::done_

demoVars == <<vars, at, count_, done_>>

DemoInit ==
  /\ Init
  /\ at = [t \in Thread |-> "top"]
  /\ count_ = [y \in WorkerTypes |-> 0]
  /\ done_ = FALSE

Move(t, from, to) == at[t] = from /\ at' = [at EXCEPT ![t] = to]

(* The message whose handler t is inside of. *)
Current(t) == delivered[t][Len(delivered[t])]

-----------------------------------------------------------------------------
(* TestThreadMessageQueue, in the order of its statements.  Start having   *)
(* returned, Send always finds the worker's queue: were it refused, Main   *)
(* would be stuck here and Terminates violated.                            *)
MainProgram ==
  /\ \/ /\ Move(Main, "top", "start")
        /\ RegisterHandler(Main, kMessageType3)
     \/ /\ Move(Main, "start", "send")
        /\ ThreadStart(Worker)
     \/ /\ Move(Main, "send", "send")
        /\ sent[Main] < Len(Script)
        /\ SendPush(Main, Worker, Script[sent[Main] + 1].type)
     \/ /\ Move(Main, "send", "loop")
        /\ sent[Main] = Len(Script)
        /\ InUserCode(Main)
        /\ UNCHANGED vars
     \/ /\ Move(Main, "loop", "loop")
        /\ ~done_
        /\ LoopStart(Main, TRUE)
     \/ /\ Move(Main, "loop", "join")
        /\ done_
        /\ ThreadJoin(Worker)
  /\ UNCHANGED <<count_, done_>>

(* MainMessageHandler::HandleThreadMessage *)
MainHandler ==
  /\ loop[Main] = "handler"
  /\ \/ /\ Move(Main, "loop", "stopped")
        /\ Stop(Main, Current(Main).from)
        /\ UNCHANGED done_
     \/ /\ Move(Main, "stopped", "loop")
        /\ HandlerReturns(Main)
        /\ done_' = TRUE
  /\ UNCHANGED count_

(* TestThread::Run *)
WorkerRun ==
  /\ \/ /\ Move(Worker, "top", "second")
        /\ RegisterHandler(Worker, kMessageType1)
     \/ /\ Move(Worker, "second", "ready")
        /\ RegisterHandler(Worker, kMessageType2)
     \/ /\ Move(Worker, "ready", "loop")
        /\ LoopStart(Worker, FALSE)
     \/ /\ Move(Worker, "loop", "returned")
        /\ RunReturns(Worker)
  /\ UNCHANGED <<count_, done_>>

(* Variant: the report is sent for the first message of a count. *)
WorkerHandlerReportsFirst ==
  LET m == Current(Worker)
      total == count_[m.type] + Script[m.n].data
  IN  /\ loop[Worker] = "handler"
      /\ \/ /\ count_[m.type] # 0
            /\ Move(Worker, "loop", "loop")
            /\ HandlerReturns(Worker)
            /\ count_' = [count_ EXCEPT ![m.type] = total]
         \/ /\ count_[m.type] = 0
            /\ Move(Worker, "loop", "reported")
            /\ SendPush(Worker, m.from, kMessageType3)
            /\ count_' = [count_ EXCEPT ![m.type] = total]
         \/ /\ Move(Worker, "reported", "loop")
            /\ HandlerReturns(Worker)
            /\ UNCHANGED count_
      /\ UNCHANGED done_

(* BackgroundMessageHandler::HandleThreadMessage *)
WorkerHandler ==
  LET m == Current(Worker)
      total == count_[m.type] + Script[m.n].data
  IN  /\ loop[Worker] = "handler"
      /\ \/ /\ total # Full
            /\ Move(Worker, "loop", "loop")
            /\ HandlerReturns(Worker)
            /\ count_' = [count_ EXCEPT ![m.type] = total]
         \/ /\ total = Full
            /\ Move(Worker, "loop", "reported")
            /\ SendPush(Worker, m.from, kMessageType3)
            /\ count_' = [count_ EXCEPT ![m.type] = total]
         \/ /\ Move(Worker, "reported", "loop")
            /\ HandlerReturns(Worker)
            /\ UNCHANGED count_
      /\ UNCHANGED done_

Library == (\E t \in Thread : Proceed(t)) /\ UNCHANGED <<at, count_, done_>>

DemoNext ==
  /\ ~crashed
  /\ MainProgram \/ MainHandler \/ WorkerRun \/ WorkerHandler \/ Library

DemoSafety == DemoInit /\ [][DemoNext]_demoVars

DemoFairness ==
  /\ WF_demoVars(~crashed /\ (MainProgram \/ MainHandler))
  /\ WF_demoVars(~crashed /\ (WorkerRun \/ WorkerHandler))
  /\ \A t \in Thread :
       WF_demoVars(~crashed /\ Proceed(t) /\ UNCHANGED <<at, count_, done_>>)

DemoSpec == DemoSafety /\ DemoFairness

-----------------------------------------------------------------------------
Joined == at[Main] = "join" /\ op[Main] = NoCall

(* The test's own conclusion (main.cc 143-148): once the worker is joined, *)
(* its handlers counted every message that was sent, nothing was dropped,  *)
(* and its queue is gone.                                                  *)
AllCounted ==
  Joined =>
    /\ \A y \in WorkerTypes : count_[y] = CountAfter(y)[Len(Script)]
    /\ discarded = {}
    /\ Worker \notin live

(* Once main.cc has begun it ends: no step of the protocol between Main    *)
(* and the worker can leave both waiting (unless Stop hits a destroyed     *)
(* queue).                                                                 *)
Terminates == (at[Main] = "start") ~> (Joined \/ crashed)

(* The report of the full count is sent only after every message of that   *)
(* count, and Stop only after the report (the assert of main.cc 77).       *)
StopAfterData ==
  at[Main] = "stopped" =>
    \E y \in WorkerTypes : count_[y] = Full /\ at[Worker] # "top"

(* The demo ends with every message counted, and stops its worker only     *)
(* after the data is complete.                                             *)
CountsAreComplete ==
  /\ AllCounted
  /\ StopAfterData
=============================================================================
