---------------------------- MODULE PlatformQueue ---------------------------
(***************************************************************************)
(* The thread message queues of the other platforms, as seen by one        *)
(* receiving thread: windows (message_queue_win32.cc, message_queue_cr.cc) *)
(* that are posted one wake-up for each batch, Mach ports of finite length *)
(* (message_queue_sf.cc) and the threads of Firefox 2 and 3, with one      *)
(* event for each message (message_queue_ff.cc).  A handler may run a      *)
(* message loop of its own, which dispatches before the rest of the        *)
(* handler's batch.  The system may refuse a wake-up: only a port and      *)
(* Firefox 2 look at that, the others answer true all the same.            *)
(***************************************************************************)
EXTENDS Naturals, Sequences, SequencesExt

CONSTANTS
  PortLength,   \* messages a Mach port holds
  MaxPosts,     \* bound: calls of Send
  MaxNesting    \* bound: message loops inside each other

ASSUME PortAssumption == PortLength \in Nat \ {0} /\ {MaxPosts, MaxNesting} \subseteq Nat

VARIABLES
  pq_kind,      \* "window", "port", "ff2" or "ff3": which of the implementations
  pq_life,      \* "new", "window", "mapped", "revoked", "unmapped" or "gone"
  pq_events,    \* events_: the messages not yet taken
  pq_wakeups,   \* WM_THREAD_MESSAGE, Mach messages or runnables under way
  pq_batches,   \* local_events of the active OnThreadMessage calls, innermost last
  pq_sent,      \* calls of Send
  pq_accepted,  \* history: messages Send returned true for
  pq_refused,   \* history: accepted messages whose wake-up the system refused
  pq_dropped,   \* history: accepted messages destroyed unhandled
  pq_handled    \* history: messages given to their handler

pqHistory == <<pq_accepted, pq_refused, pq_dropped, pq_handled>>

platformVars == <<pq_kind, pq_life, pq_events, pq_wakeups, pq_batches, pq_sent, pqHistory>>

PlatformInit ==
  /\ pq_kind = "none" /\ pq_life = "new"
  /\ pq_events = <<>> /\ pq_wakeups = 0 /\ pq_batches = <<>>
  /\ pq_sent = 0 /\ pq_accepted = {} /\ pq_refused = {} /\ pq_dropped = {} /\ pq_handled = <<>>

-----------------------------------------------------------------------------
(* InitThreadMessageQueue: the window exists before the map knows it. *)
CreateQueue ==
  /\ pq_life = "new"
  /\ \E kind \in {"window", "port", "ff2", "ff3"} :
       /\ pq_kind' = kind
       /\ pq_life' = IF kind = "window" THEN "window" ELSE "mapped"
  /\ UNCHANGED <<pq_events, pq_wakeups, pq_batches, pq_sent, pqHistory>>

MapQueue ==
  /\ pq_life = "window"
  /\ pq_life' = "mapped"
  /\ UNCHANGED <<pq_kind, pq_events, pq_wakeups, pq_batches, pq_sent, pqHistory>>

(* The map has the thread: until its end hook erased it, which Firefox 2   *)
(* does after revoking the events.                                         *)
InMap == pq_life \in {"mapped", "revoked"}

(* Variant: the wake-up is posted before the message is in the queue. *)
WakeupsAfterEarly ==
  CASE pq_kind = "window" -> IF Len(pq_events) = 1 THEN pq_wakeups + 1 ELSE pq_wakeups
    [] pq_kind = "port" -> IF pq_wakeups < PortLength THEN pq_wakeups + 1 ELSE pq_wakeups
    [] pq_kind \in {"ff2", "ff3"} -> pq_wakeups + 1

(* A window is woken for the first message of a batch, a port for each one *)
(* unless it is full (MACH_SEND_TIMED_OUT), a thread for each one.         *)
WakeupsAfter ==
  CASE pq_kind = "window" -> IF pq_events = <<>> THEN pq_wakeups + 1 ELSE pq_wakeups
    [] pq_kind = "port" -> IF pq_wakeups < PortLength THEN pq_wakeups + 1 ELSE pq_wakeups
    [] pq_kind \in {"ff2", "ff3"} -> pq_wakeups + 1

Post1 ==
  /\ InMap
  /\ pq_events' = Append(pq_events, pq_sent + 1)
  /\ pq_wakeups' = WakeupsAfter
  /\ pq_accepted' = pq_accepted \cup {pq_sent + 1}
  /\ UNCHANGED <<pq_refused, pq_dropped>>

(* The results of PostMessage and, on Firefox 3, of Dispatch are ignored:  *)
(* a window's message then waits without a wake-up, and a runnable nobody  *)
(* took is destroyed with its message as Send returns true.                *)
PostRefused ==
  /\ InMap
  /\ \/ /\ pq_kind = "window" /\ pq_events = <<>>
        /\ pq_events' = Append(pq_events, pq_sent + 1)
        /\ UNCHANGED pq_dropped
     \/ /\ pq_kind = "ff3"
        /\ pq_dropped' = pq_dropped \cup {pq_sent + 1}
        /\ UNCHANGED pq_events
  /\ pq_accepted' = pq_accepted \cup {pq_sent + 1}
  /\ pq_refused' = pq_refused \cup {pq_sent + 1}
  /\ UNCHANGED pq_wakeups

(* Send returns false without a queue, and when the system refuses the     *)
(* wake-up of a port (the message is taken back) or Firefox 2's event.     *)
SendFails ==
  /\ ~InMap \/ pq_kind \in {"port", "ff2"}
  /\ UNCHANGED <<pq_events, pq_wakeups, pq_accepted, pq_refused, pq_dropped>>

SendOther ==
  /\ pq_sent < MaxPosts
  /\ pq_sent' = pq_sent + 1
  /\ Post1 \/ PostRefused \/ SendFails
  /\ UNCHANGED <<pq_kind, pq_life, pq_batches, pq_handled>>

-----------------------------------------------------------------------------
(* OnThreadMessage, from the thread's loop or from one inside a handler:   *)
(* take everything, or the one message of an event.                        *)
OnThreadMessage ==
  /\ pq_life = "mapped" /\ pq_wakeups > 0 /\ Len(pq_batches) <= MaxNesting
  /\ pq_wakeups' = pq_wakeups - 1
  /\ \/ /\ pq_kind \in {"ff2", "ff3"}
        /\ pq_batches' = Append(pq_batches, <<Head(pq_events)>>)
        /\ pq_events' = Tail(pq_events)
     \/ /\ pq_kind \in {"window", "port"}
        /\ pq_batches' = IF pq_events = <<>> THEN pq_batches ELSE Append(pq_batches, pq_events)
        /\ pq_events' = <<>>
  /\ UNCHANGED <<pq_kind, pq_life, pq_sent, pqHistory>>

Innermost == Last(pq_batches)

(* HandleThreadMessage of the innermost batch's next message. *)
DispatchNext ==
  /\ pq_batches # <<>>
  /\ pq_handled' = Append(pq_handled, Head(Innermost))
  /\ pq_batches' = IF Len(Innermost) = 1
                   THEN Front(pq_batches)
                   ELSE [pq_batches EXCEPT ![Len(pq_batches)] = Tail(@)]
  /\ UNCHANGED <<pq_kind, pq_life, pq_events, pq_wakeups, pq_sent, pq_accepted, pq_refused,
                 pq_dropped>>

-----------------------------------------------------------------------------
(* What the queue still holds goes with it. *)
DropEvents ==
  /\ pq_batches = <<>>
  /\ pq_events' = <<>> /\ pq_wakeups' = 0
  /\ pq_dropped' = pq_dropped \cup ToSet(pq_events)
  /\ UNCHANGED <<pq_kind, pq_batches, pq_sent, pq_accepted, pq_refused, pq_handled>>

(* Firefox 2's ThreadEndHook, with the event service at hand, revokes the  *)
(* events while the map still has the thread.                              *)
RevokeEvents ==
  /\ pq_life = "mapped" /\ pq_kind = "ff2"
  /\ pq_life' = "revoked"
  /\ DropEvents

(* ThreadEndHook of a window or a Firefox thread: out of the map first ... *)
UnmapQueue ==
  /\ InMap /\ pq_kind # "port" /\ pq_batches = <<>>
  /\ pq_life' = "unmapped"
  /\ UNCHANGED <<pq_kind, pq_events, pq_wakeups, pq_batches, pq_sent, pqHistory>>

(* ... and then the window is destroyed, or the thread's events end with   *)
(* the thread.                                                             *)
DeleteQueue ==
  /\ pq_life = "unmapped"
  /\ pq_life' = "gone"
  /\ DropEvents

(* ThreadEndHook of a port: the map's entry owns port and events. *)
ErasePort ==
  /\ pq_life = "mapped" /\ pq_kind = "port"
  /\ pq_life' = "gone"
  /\ DropEvents

PlatformNext ==
  \/ CreateQueue \/ MapQueue \/ SendOther \/ OnThreadMessage \/ DispatchNext
  \/ RevokeEvents \/ UnmapQueue \/ DeleteQueue \/ ErasePort

PlatformSpec == PlatformInit /\ [][PlatformNext]_platformVars

-----------------------------------------------------------------------------
(* Messages that wait are announced: without a wake-up under way they      *)
(* would stay for ever, since a window is only woken for a first message   *)
(* and a full port takes no more.  The one exception: the system refused   *)
(* PostMessage for a window's first message, which nobody looks at         *)
(* (message_queue_win32.cc 233): then the window is never woken again.     *)
EventsAreAnnounced ==
  pq_events # <<>> =>
    pq_wakeups > 0 \/ (pq_kind = "window" /\ Head(pq_events) \in pq_refused)

(* The assert in OnThreadMessage: a window's wake-up finds messages, even  *)
(* after a nested loop took some.                                          *)
WakeupFindsEvents == pq_kind = "window" /\ pq_wakeups > 0 => pq_wakeups = 1 /\ pq_events # <<>>

(* Everything that waits, oldest first: what is left of the active         *)
(* batches from the outermost inwards, then the events.                    *)
Waiting == Append(pq_batches, pq_events)

Elements(queues) == UNION {ToSet(queues[b]) : b \in DOMAIN queues}

Increasing(queues) ==
  \A b, c \in DOMAIN queues : \A i \in DOMAIN queues[b], j \in DOMAIN queues[c] :
    b < c \/ (b = c /\ i < j) => queues[b][i] < queues[c][j]

(* Every accepted message is handled once, still there or dropped, and     *)
(* what is left of an outer batch is older than an inner one and than the  *)
(* events: only a nested loop overtakes.                                   *)
BatchesInOrder ==
  /\ Increasing(Waiting)
  /\ \A i, j \in DOMAIN pq_handled : i # j => pq_handled[i] # pq_handled[j]
  /\ pq_accepted = Elements(Waiting) \cup ToSet(pq_handled) \cup pq_dropped
  /\ Elements(Waiting) \cap ToSet(pq_handled) = {}
  /\ pq_dropped \cap (Elements(Waiting) \cup ToSet(pq_handled)) = {}

(* As long as the thread lives, a message is dropped only where Firefox 3  *)
(* refused its runnable.                                                   *)
DropsAtTheEnd ==
  pq_life \in {"new", "window", "mapped"} =>
    pq_dropped = IF pq_kind = "ff3" THEN pq_refused ELSE {}

(* On every platform, nested loops included, queued messages have a wake-  *)
(* up under way unless the system refused a window's, a wake-up finds      *)
(* messages, batches keep their order, and an accepted message is lost     *)
(* only with its thread or with a runnable that Firefox 3 refused.         *)
EventsArriveInOrder ==
  /\ EventsAreAnnounced
  /\ WakeupFindsEvents
  /\ BatchesInOrder
  /\ DropsAtTheEnd
=============================================================================
