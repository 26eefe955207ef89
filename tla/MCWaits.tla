------------------------------ MODULE MCWaits -------------------------------
(***************************************************************************)
(* Instances for what must happen in the end: events, threads that are     *)
(* started again, main.cc, and the IPC channel.  `part` selects the one    *)
(* that moves, so that their state spaces add up; the others stay as they  *)
(* were initialised, and fairness is asked of the part that moves alone.   *)
(***************************************************************************)
EXTENDS MCMessageDemo, Event, IpcChannel

CONSTANT Parts

VARIABLE part

Large == [size |-> 4, callback |-> TRUE]
Small == [size |-> 1, callback |-> TRUE]
TwoSends == <<Large, Small>>

(* The queues of main.cc's threads in the hands of any client, with bounds *)
(* for a worker that is started twice.                                     *)
Restart == INSTANCE ThreadQueue WITH Type <- {type1}, MaxSends <- 1, MaxStarts <- 2

demoLocals == <<at, count_, done_>>
waitsVars == <<part, eventVars, demoVars, channelVars>>

WaitsInit == part \in Parts /\ EventInit /\ DemoInit /\ ChannelInit

WaitsNext ==
  /\ UNCHANGED part
  /\ \/ part = "event" /\ EventNext /\ UNCHANGED <<demoVars, channelVars>>
     \/ part = "restart" /\ Restart!Next /\ UNCHANGED <<demoLocals, eventVars, channelVars>>
     \/ part = "demo" /\ DemoNext /\ UNCHANGED <<eventVars, channelVars>>
     \/ part = "channel" /\ ChannelNext /\ UNCHANGED <<eventVars, demoVars>>

(* The fairness of EventFairSpec, of ThreadQueue's FairSpec, of main.cc's  *)
(* programs and of the channel, each asked of the part that moves.         *)
WaitsFairness ==
  /\ \A t \in EThread : WF_eventVars(part = "event" /\ EventProceed(t))
  /\ \A t \in Thread :
       WF_vars(part = "restart" /\ ~crashed /\ (Restart!Proceed(t) \/ Restart!HandlerReturns(t)))
  /\ WF_demoVars(part = "demo" /\ ~crashed /\ (MainProgram \/ MainHandler))
  /\ WF_demoVars(part = "demo" /\ ~crashed /\ (WorkerRun \/ WorkerHandler))
  /\ \A t \in Thread :
       WF_demoVars(part = "demo" /\ ~crashed /\ Proceed(t) /\ UNCHANGED demoLocals)
  /\ WF_channelVars(part = "channel" /\ ReaderStep)
  /\ \A w \in Writer : WF_channelVars(part = "channel" /\ (RunStep(w) \/ CloseStep(w)))

WaitsSpec == WaitsInit /\ [][WaitsNext]_waitsVars /\ WaitsFairness
=============================================================================
