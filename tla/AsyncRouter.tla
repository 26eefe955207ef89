----------------------------- MODULE AsyncRouter ----------------------------
(***************************************************************************)
(* AsyncRouter (common/async_router.cc) on top of the thread message       *)
(* queue: a functor runs on another thread, and CallSync waits for it on   *)
(* an event of its own stack.  A functor may itself call CallSync.         *)
(***************************************************************************)
EXTENDS Naturals, Sequences, SequencesExt

CONSTANTS
  RThread,     \* threads with a message queue
  MaxFunctors  \* bound: functors sent

ASSUME RouterAssumption == MaxFunctors \in Nat

VARIABLES
  ar_queue,    \* functors posted to each thread
  ar_stack,    \* functors being run on each thread, innermost last
  ar_waits,    \* the functor whose handled_event each thread waits on, or NoFunctor
  ar_functor,  \* by functor: caller, sync or not, and how far it is
  ar_ended     \* threads without a queue

routerVars == <<ar_queue, ar_stack, ar_waits, ar_functor, ar_ended>>

NoFunctor == 0

RouterInit ==
  /\ ar_queue = [t \in RThread |-> <<>>]
  /\ ar_stack = [t \in RThread |-> <<>>]
  /\ ar_waits = [t \in RThread |-> NoFunctor]
  /\ ar_functor = <<>>
  /\ ar_ended = {}

CanRun(t) == t \notin ar_ended /\ ar_waits[t] = NoFunctor

(* CallAsync and CallSync; Send refuses a thread without a queue. *)
Call(t, u, sync) ==
  LET f == Len(ar_functor) + 1
  IN  /\ CanRun(t) /\ Len(ar_functor) < MaxFunctors
      /\ \/ /\ u \notin ar_ended
            /\ ar_queue' = [ar_queue EXCEPT ![u] = Append(@, f)]
            /\ ar_functor' = Append(ar_functor, [sync |-> sync, on |-> u, state |-> "queued"])
            /\ ar_waits' = [ar_waits EXCEPT ![t] = IF sync THEN f ELSE NoFunctor]
         \/ /\ u \in ar_ended
            /\ ar_functor' = Append(ar_functor, [sync |-> sync, on |-> u, state |-> "refused"])
            /\ UNCHANGED <<ar_queue, ar_waits>>
      /\ UNCHANGED <<ar_stack, ar_ended>>

(* HandleThreadMessage starts functor->Run. *)
StartFunctor(t) ==
  /\ CanRun(t) /\ ar_stack[t] = <<>> /\ ar_queue[t] # <<>>
  /\ ar_queue' = [ar_queue EXCEPT ![t] = Tail(@)]
  /\ ar_stack' = [ar_stack EXCEPT ![t] = Append(@, Head(ar_queue[t]))]
  /\ ar_functor' = [ar_functor EXCEPT ![Head(ar_queue[t])].state = "running"]
  /\ UNCHANGED <<ar_waits, ar_ended>>

(* Variant: nobody is told that the functor is done. *)
FinishFunctorSilent(t) ==
  /\ CanRun(t) /\ ar_stack[t] # <<>>
  /\ ar_functor' = [ar_functor EXCEPT ![Last(ar_stack[t])].state = "done"]
  /\ ar_stack' = [ar_stack EXCEPT ![t] = Front(@)]
  /\ UNCHANGED <<ar_queue, ar_waits, ar_ended>>

(* Run returned; a SyncFunctor then signals, which ends the caller's wait. *)
FinishFunctor(t) ==
  /\ CanRun(t) /\ ar_stack[t] # <<>>
  /\ LET f == Last(ar_stack[t])
     IN  /\ ar_functor' = [ar_functor EXCEPT ![f].state = "done"]
         /\ ar_waits' = [v \in RThread |-> IF ar_waits[v] = f THEN NoFunctor ELSE ar_waits[v]]
  /\ ar_stack' = [ar_stack EXCEPT ![t] = Front(@)]
  /\ UNCHANGED <<ar_queue, ar_ended>>

(* The thread's loop exits, and what is queued is dropped. *)
EndRouterThread(t) ==
  /\ CanRun(t) /\ ar_stack[t] = <<>>
  /\ ar_ended' = ar_ended \cup {t}
  /\ ar_functor' = [f \in DOMAIN ar_functor |->
       IF \E i \in DOMAIN ar_queue[t] : ar_queue[t][i] = f
       THEN [ar_functor[f] EXCEPT !.state = "dropped"]
       ELSE ar_functor[f]]
  /\ ar_queue' = [ar_queue EXCEPT ![t] = <<>>]
  /\ UNCHANGED <<ar_stack, ar_waits>>

RouterNext ==
  \E t \in RThread :
    \/ StartFunctor(t) \/ FinishFunctor(t) \/ EndRouterThread(t)
    \/ \E u \in RThread, sync \in BOOLEAN : Call(t, u, sync)

RouterSpec == RouterInit /\ [][RouterNext]_routerVars

-----------------------------------------------------------------------------
(* CallSync hangs only if its target ended or is itself hanging: everyone  *)
(* waits on everyone, or on a thread that dropped the functor.  A wake-up  *)
(* is never lost otherwise.                                                *)
HangHasACause ==
  \A t \in RThread : ar_waits[t] # NoFunctor =>
    LET f == ar_functor[ar_waits[t]]
    IN  \/ f.state = "dropped"
        \/ f.state = "queued" /\ \E i \in DOMAIN ar_queue[f.on] : ar_queue[f.on][i] = ar_waits[t]
        \/ f.state = "running" /\ \E i \in DOMAIN ar_stack[f.on] : ar_stack[f.on][i] = ar_waits[t]

(* When CallSync returns true its functor has run to its end. *)
SyncIsOver ==
  \A t \in RThread : ar_waits[t] # NoFunctor /\ ar_waits'[t] = NoFunctor =>
    ar_functor'[ar_waits[t]].state = "done"

(* CallSync returns after its functor ran and not before, and hangs only   *)
(* where its target has ended or waits in turn.                            *)
SyncCallsReturn ==
  [][HangHasACause' /\ SyncIsOver]_routerVars
=============================================================================
