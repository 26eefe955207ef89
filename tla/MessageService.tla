--------------------------- MODULE MessageService ---------------------------
(***************************************************************************)
(* MessageService (common/message_service.cc): observers of one topic, a   *)
(* set of them for each thread.  A notification is posted to every thread  *)
(* with observers and dispatched there with the service's mutex released   *)
(* around each OnNotify, which may add and remove observers.  The memory   *)
(* of a deleted collection or set may be given to the next one.            *)
(***************************************************************************)
EXTENDS Naturals, Sequences, FiniteSets

CONSTANTS
  ObsThread,     \* threads that observe and notify
  Observer,
  Address,       \* addresses of collections, and of sets
  MaxNotes,      \* bound: notifications
  MaxAdds        \* bound: calls of AddObserver

ASSUME ServiceAssumption ==
  0 \notin Address /\ Cardinality(Address) >= 2 /\ {MaxNotes, MaxAdds} \subseteq Nat

VARIABLES
  ms_collection,  \* the topic's ObserverCollection: address and set by thread
  ms_queue,       \* the notifications posted to each thread
  ms_thread,      \* each thread: the dispatch it is in
  ms_notes,       \* number of NotifyObservers calls and notifications from other processes
  ms_adds,
  ms_delivered    \* history: <<thread, observer, notification>> of OnNotify calls

serviceVars == <<ms_collection, ms_queue, ms_thread, ms_notes, ms_adds, ms_delivered>>

NoAddress == 0
NoSet == [at |-> NoAddress, members |-> {}, since |-> [o \in Observer |-> 0]]
NoCollection == [at |-> NoAddress, sets |-> [t \in ObsThread |-> NoSet]]
IdleThread == [at |-> "idle", note |-> 0, us |-> NoAddress, set |-> NoAddress, copy |-> {}, now |-> {}]

ServiceInit ==
  /\ ms_collection = NoCollection
  /\ ms_queue = [t \in ObsThread |-> <<>>]
  /\ ms_thread = [t \in ObsThread |-> IdleThread]
  /\ ms_notes = 0 /\ ms_adds = 0
  /\ ms_delivered = {}

(* Calls are made by a thread that dispatches nothing, or by an OnNotify. *)
MayCall(t) == ms_thread[t].at \in {"idle", "notify"}
SetOf(t) == ms_collection.sets[t]

-----------------------------------------------------------------------------
(* AddObserver; the collection and the set are created when missing. *)
AddObserver(t, o) ==
  /\ MayCall(t) /\ ms_adds < MaxAdds
  /\ o \notin SetOf(t).members
  /\ \E a, s \in Address :
       /\ ms_collection.at # NoAddress => a = ms_collection.at
       /\ SetOf(t).at # NoAddress => s = SetOf(t).at
       /\ SetOf(t).at = NoAddress => \A u \in ObsThread : SetOf(u).at # s
       /\ ms_collection' =
            [at |-> a, sets |-> [ms_collection.sets EXCEPT ![t] =
               [at |-> s, members |-> SetOf(t).members \cup {o}, since |-> [SetOf(t).since EXCEPT ![o] = ms_notes]]]]
  /\ ms_adds' = ms_adds + 1
  /\ UNCHANGED <<ms_queue, ms_thread, ms_notes, ms_delivered>>

(* ObserverCollection::Remove, then DeleteTopicObserverCollection if it is *)
(* empty.                                                                  *)
WithSets(sets) ==
  IF \A t \in ObsThread : sets[t].at = NoAddress THEN NoCollection ELSE [ms_collection EXCEPT !.sets = sets]

RemoveObserver(t, o) ==
  /\ MayCall(t)
  /\ o \in SetOf(t).members
  /\ LET left == SetOf(t).members \ {o}
     IN  ms_collection' = WithSets([ms_collection.sets EXCEPT ![t] =
           IF left = {} THEN NoSet ELSE [SetOf(t) EXCEPT !.members = left, !.since[o] = 0]])
  /\ UNCHANGED <<ms_queue, ms_thread, ms_notes, ms_adds, ms_delivered>>

(* PostThreadNotifications; the queue of an ending thread is gone. *)
Post ==
  /\ ms_notes < MaxNotes
  /\ ms_notes' = ms_notes + 1
  /\ ms_queue' = [t \in ObsThread |->
                    IF SetOf(t).at # NoAddress /\ ms_thread[t].at # "ending"
                    THEN Append(ms_queue[t], ms_notes + 1)
                    ELSE ms_queue[t]]
  /\ UNCHANGED <<ms_collection, ms_thread, ms_adds, ms_delivered>>

NotifyObservers(t) == MayCall(t) /\ Post

(* From another process, on the IPC thread; not sent on. *)
HandleIpcMessage == Post

-----------------------------------------------------------------------------
(* HandleThreadMessage, up to the copy of the thread's set. *)
HandleThreadMessage(t) ==
  /\ ms_thread[t].at = "idle" /\ ms_queue[t] # <<>>
  /\ ms_queue' = [ms_queue EXCEPT ![t] = Tail(@)]
  /\ ms_thread' = [ms_thread EXCEPT ![t] =
       IF SetOf(t).at = NoAddress THEN IdleThread
       ELSE [at |-> "loop", note |-> Head(ms_queue[t]), us |-> ms_collection.at, set |-> SetOf(t).at,
             copy |-> SetOf(t).members, now |-> {}]]
  /\ UNCHANGED <<ms_collection, ms_notes, ms_adds, ms_delivered>>

(* The collection and the set are still those of the copy. *)
SameSet(t) == ms_collection.at = ms_thread[t].us /\ SetOf(t).at = ms_thread[t].set

(* Variant: the copy is trusted. *)
NextObserverUnchecked(t, o) ==
  /\ ms_thread[t].at = "loop" /\ o \in ms_thread[t].copy
  /\ SameSet(t)
  /\ ms_thread' = [ms_thread EXCEPT ![t].copy = @ \ {o}, ![t].at = "notify", ![t].now = {o}]
  /\ ms_delivered' = ms_delivered \cup {<<t, o, ms_thread[t].note>>}
  /\ UNCHANGED <<ms_collection, ms_queue, ms_notes, ms_adds>>

(* One round of the loop of ProcessThreadNotification. *)
NextObserver(t, o) ==
  /\ ms_thread[t].at = "loop" /\ o \in ms_thread[t].copy
  /\ SameSet(t)
  /\ \/ /\ o \notin SetOf(t).members
        /\ ms_thread' = [ms_thread EXCEPT ![t].copy = @ \ {o}]
        /\ UNCHANGED ms_delivered
     \/ /\ o \in SetOf(t).members
        /\ ms_thread' = [ms_thread EXCEPT ![t].copy = @ \ {o}, ![t].at = "notify", ![t].now = {o}]
        /\ ms_delivered' = ms_delivered \cup {<<t, o, ms_thread[t].note>>}
  /\ UNCHANGED <<ms_collection, ms_queue, ms_notes, ms_adds>>

OnNotifyReturns(t) ==
  /\ ms_thread[t].at = "notify"
  /\ ms_thread' = [ms_thread EXCEPT ![t].at = "loop", ![t].now = {}]
  /\ UNCHANGED <<ms_collection, ms_queue, ms_notes, ms_adds, ms_delivered>>

EndLoop(t) ==
  /\ ms_thread[t].at = "loop"
  /\ ms_thread[t].copy = {} \/ ~SameSet(t)
  /\ ms_thread' = [ms_thread EXCEPT ![t] = IdleThread]
  /\ UNCHANGED <<ms_collection, ms_queue, ms_notes, ms_adds, ms_delivered>>

(* The thread ends: its message queue goes, later ThreadEndHook runs. *)
EndObsThread(t) ==
  /\ ms_thread[t].at = "idle"
  /\ ms_thread' = [ms_thread EXCEPT ![t].at = "ending"]
  /\ ms_queue' = [ms_queue EXCEPT ![t] = <<>>]
  /\ UNCHANGED <<ms_collection, ms_notes, ms_adds, ms_delivered>>

ThreadEndHook(t) ==
  /\ ms_thread[t].at = "ending"
  /\ ms_thread' = [ms_thread EXCEPT ![t].at = "ended"]
  /\ ms_collection' = WithSets([ms_collection.sets EXCEPT ![t] = NoSet])
  /\ UNCHANGED <<ms_queue, ms_notes, ms_adds, ms_delivered>>

ServiceNext ==
  \/ HandleIpcMessage
  \/ \E t \in ObsThread :
       \/ NotifyObservers(t) \/ HandleThreadMessage(t) \/ OnNotifyReturns(t) \/ EndLoop(t)
       \/ EndObsThread(t) \/ ThreadEndHook(t)
       \/ \E o \in Observer : AddObserver(t, o) \/ RemoveObserver(t, o) \/ NextObserver(t, o)

ServiceSpec == ServiceInit /\ [][ServiceNext]_serviceVars

-----------------------------------------------------------------------------
(* Addresses tell collections and sets apart, and an empty one is gone. *)
ServiceTypeOK ==
  /\ ms_collection.at = NoAddress <=> \A t \in ObsThread : SetOf(t).at = NoAddress
  /\ \A t \in ObsThread :
       /\ SetOf(t).at = NoAddress <=> SetOf(t).members = {}
       /\ \A u \in ObsThread : t # u /\ SetOf(t).at = SetOf(u).at => SetOf(t).at = NoAddress
       /\ \A i \in 1 .. Len(ms_queue[t]) : ms_queue[t][i] \in 1 .. ms_notes

(* An observer that is in the loop's copy, but was removed (and may be     *)
(* destroyed) by an OnNotify before its turn, is not called.               *)
NotifiedIsRegistered ==
  \A t \in ObsThread : ms_thread[t].at = "loop" /\ ms_thread'[t].at = "notify" =>
    ms_thread'[t].now \subseteq SetOf(t).members

(* An observer registered before a notification, and ever since, has been  *)
(* called once the thread is done with it, whatever the observers called   *)
(* before it added and removed.                                            *)
NothingMissed ==
  \A t \in ObsThread : \A o \in SetOf(t).members : \A n \in SetOf(t).since[o] + 1 .. ms_notes :
    \/ <<t, o, n>> \in ms_delivered
    \/ \E i \in 1 .. Len(ms_queue[t]) : ms_queue[t][i] = n
    \/ ms_thread[t].note = n /\ o \in ms_thread[t].copy
    \/ ms_thread[t].at \in {"ending", "ended"}

(* Observers that come and go during a dispatch: who stays registered is   *)
(* told of every notification, who is told is registered.                  *)
ObserversAreTold ==
  [][/\ ServiceTypeOK'
     /\ NothingMissed'
     /\ NotifiedIsRegistered]_serviceVars
=============================================================================
