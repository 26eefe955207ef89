--------------------------- MODULE AutoResetEvent ---------------------------
(***************************************************************************)
(* What common/event.h promises of an Event (event.h lines 25-42): a       *)
(* binary, auto-resetting signal.  A thread that asks to wait is `waiting' *)
(* until it either takes the signal, which resets it, or (a wait with a    *)
(* timeout only) gives up without touching it.                             *)
(***************************************************************************)
CONSTANT Thread

VARIABLES signal,    \* the event is set
          waiting,   \* the threads inside Wait
          timed      \* the threads inside WaitWithTimeout

vars == <<signal, waiting, timed>>

Init == signal = FALSE /\ waiting = {} /\ timed = {}

Set == signal' = TRUE /\ UNCHANGED <<waiting, timed>>

Ask(t) == /\ t \notin waiting \cup timed
          /\ \/ waiting' = waiting \cup {t} /\ UNCHANGED timed
             \/ timed' = timed \cup {t} /\ UNCHANGED waiting
          /\ UNCHANGED signal

(* Exactly one waiter takes the signal, and the signal is reset with it. *)
Take(t) == /\ t \in waiting \cup timed
           /\ signal
           /\ signal' = FALSE
           /\ waiting' = waiting \ {t}
           /\ timed' = timed \ {t}

GiveUp(t) == /\ t \in timed
             /\ timed' = timed \ {t}
             /\ UNCHANGED <<signal, waiting>>

Next == \/ Set
        \/ \E t \in Thread : Ask(t) \/ Take(t) \/ GiveUp(t)

Spec == Init /\ [][Next]_vars
=============================================================================
