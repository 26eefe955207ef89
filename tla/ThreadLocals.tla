---------------------------- MODULE ThreadLocals ----------------------------
(***************************************************************************)
(* common/thread_locals.cc with POSIX TLS: slots come from one atomic      *)
(* counter; each thread keeps an array of entries, one per slot, behind    *)
(* one pthread key.  Storing over a value, destroying it, and the end of   *)
(* the thread call the value's destructor, which is code of the client and *)
(* may store, destroy and read values of other slots before it returns.    *)
(***************************************************************************)
EXTENDS Integers, Sequences, FiniteSets, SequencesExt

CONSTANTS
  Thread,
  MaxSlots,   \* kMaxSlots, 64 in the code
  MaxRounds,  \* PTHREAD_DESTRUCTOR_ITERATIONS, 4
  MaxValues   \* bound: values that are ever stored

ASSUME SlotAssumption == MaxSlots \in Nat \ {0}
ASSUME RoundAssumption == MaxRounds \in Nat \ {0} /\ MaxValues \in Nat

Slot == 0 .. MaxSlots - 1
Value == 1 .. MaxValues
None == 0     \* an entry that is not valid_
Array == [Slot -> Value \cup {None}]
Null == << >> \* no array of entries

VARIABLES
  next_slot,   \* next_slot_
  alloc,       \* the slot Alloc has taken and not returned yet, or -1
  granted,     \* slots that Alloc has returned
  life,        \* "running", "exiting" or "gone"
  tls,         \* each thread's array, the value of its pthread key
  frames,      \* calls waiting for a destructor, innermost last
  round,       \* times FinalizeKey was called for the thread
  made,        \* values stored so far
  owner,       \* the thread that stored each value
  destructor,  \* whether a value came with a destructor
  runs         \* history: calls of each value's destructor

localsVars == <<next_slot, alloc, granted, life, tls, frames, round, made,
          owner, destructor, runs>>
allocVars == <<next_slot, alloc, granted>>
ownerVars == <<made, owner, destructor>>

(* DestroyValue and SetValue wait for the destructor of one slot;          *)
(* DestroyEntries walks the array it was given.                            *)
Frame ==
  [op : {"destroy"}, key : Slot, then : Value \cup {None}]
    \cup [op : {"final"}, key : 0 .. MaxSlots, array : Array, busy : BOOLEAN]

LocalsTypeOK ==
  /\ next_slot \in Nat
  /\ alloc \in [Thread -> Nat \cup {-1}]
  /\ granted \in Seq(Slot)
  /\ life \in [Thread -> {"running", "exiting", "gone"}]
  /\ tls \in [Thread -> Array \cup {Null}]
  /\ \A t \in Thread : frames[t] \in Seq(Frame)
  /\ round \in [Thread -> 0 .. MaxRounds]
  /\ made \in 0 .. MaxValues
  /\ owner \in [Value -> Thread]
  /\ destructor \in [Value -> BOOLEAN]
  /\ runs \in [Value -> Nat]

LocalsInit ==
  /\ next_slot = 0
  /\ alloc = [t \in Thread |-> -1]
  /\ granted = << >>
  /\ life = [t \in Thread |-> "running"]
  /\ tls = [t \in Thread |-> Null]
  /\ frames = [t \in Thread |-> << >>]
  /\ round = [t \in Thread |-> 0]
  /\ made = 0
  /\ owner \in [Value -> Thread]
  /\ destructor \in [Value -> BOOLEAN]
  /\ runs = [v \in Value |-> 0]

-----------------------------------------------------------------------------
(* AtomicIncrement in Alloc, called while no destructor runs.  The guard   *)
(* on next_slot bounds how often Alloc is called after the slots ran out.  *)
AllocIncrement(t) ==
  /\ alloc[t] = -1
  /\ life[t] = "running" /\ frames[t] = << >>
  /\ next_slot <= MaxSlots
  /\ alloc' = [alloc EXCEPT ![t] = next_slot]
  /\ next_slot' = next_slot + 1
  /\ UNCHANGED <<granted, life, tls, frames, round, ownerVars, runs>>

(* Alloc reads next_slot_ again and returns -1, or the slot.  The last     *)
(* slot is never returned: the counter has reached kMaxSlots by then.      *)
AllocReturn(t) ==
  /\ alloc[t] # -1
  /\ \/ next_slot >= MaxSlots /\ UNCHANGED granted
     \/ next_slot < MaxSlots /\ granted' = Append(granted, alloc[t])
  /\ alloc' = [alloc EXCEPT ![t] = -1]
  /\ UNCHANGED <<next_slot, life, tls, frames, round, ownerVars, runs>>

-----------------------------------------------------------------------------
(* DestroyEntries is in its loop, between two destructors. *)
InLoop(t) == frames[t] # << >> /\ Last(frames[t]).op = "final" /\ ~Last(frames[t]).busy

(* Client code runs: the thread's own, or that of a destructor. *)
InClientCode(t) ==
  /\ alloc[t] = -1
  /\ IF frames[t] = << >> THEN life[t] = "running" ELSE ~InLoop(t)

(* A destructor leaves alone the slot whose value it is destroying. *)
Mine(t, k) ==
  \A i \in DOMAIN frames[t] : frames[t][i].op = "destroy" => frames[t][i].key # k

(* GetValue and HasValue: what a client sees in slot k. *)
GetValue(t, k) == IF tls[t] = Null THEN None ELSE tls[t][k]

(* GetEntries(true), then the assignment of a fresh Entry. *)
Store(t, k, v) ==
  LET entries == IF tls[t] = Null THEN [s \in Slot |-> None] ELSE tls[t]
  IN  tls' = [tls EXCEPT ![t] = [entries EXCEPT ![k] = v]]

HasDestructor(v) == v # None /\ destructor[v]

CallDestructor(v) == runs' = [runs EXCEPT ![v] = @ + 1]

(* SetValue: the old value, if any, is destroyed first. *)
SetValue(t, k) ==
  /\ InClientCode(t) /\ Mine(t, k)
  /\ made < MaxValues /\ owner[made + 1] = t
  /\ made' = made + 1
  /\ \/ /\ HasDestructor(GetValue(t, k))
        /\ CallDestructor(GetValue(t, k))
        /\ frames' = [frames EXCEPT ![t] =
                        Append(@, [op |-> "destroy", key |-> k, then |-> made + 1])]
        /\ UNCHANGED tls
     \/ /\ ~HasDestructor(GetValue(t, k))
        /\ Store(t, k, made + 1)
        /\ UNCHANGED <<frames, runs>>
  /\ UNCHANGED <<life, round, owner, destructor, allocVars>>

(* DestroyValue called by a client. *)
DestroyValue(t, k) ==
  /\ InClientCode(t) /\ Mine(t, k)
  /\ GetValue(t, k) # None
  /\ \/ /\ HasDestructor(GetValue(t, k))
        /\ CallDestructor(GetValue(t, k))
        /\ frames' = [frames EXCEPT ![t] =
                        Append(@, [op |-> "destroy", key |-> k, then |-> None])]
        /\ UNCHANGED tls
     \/ /\ ~HasDestructor(GetValue(t, k))
        /\ Store(t, k, None)
        /\ UNCHANGED <<frames, runs>>
  /\ UNCHANGED <<life, round, ownerVars, allocVars>>

(* Variant: the entry stays valid_ after its destructor. *)
DestructorReturnsStillValid(t) ==
  /\ frames[t] # << >> /\ ~InLoop(t) /\ alloc[t] = -1
  /\ LET top == Last(frames[t])
     IN  \/ /\ top.op = "destroy"
            /\ IF top.then # None THEN Store(t, top.key, top.then) ELSE UNCHANGED tls
            /\ frames' = [frames EXCEPT ![t] = Front(@)]
         \/ /\ top.op = "final"
            /\ frames' = [frames EXCEPT ![t] = Append(Front(@), [top EXCEPT
                            !.array[top.key] = None, !.key = @ + 1, !.busy = FALSE])]
            /\ UNCHANGED tls
  /\ UNCHANGED <<life, round, runs, ownerVars, allocVars>>

(* A destructor returns to DestroyValue, which clears valid_ (and, within  *)
(* SetValue, stores the new value), or to the loop of DestroyEntries.      *)
DestructorReturns(t) ==
  /\ frames[t] # << >> /\ ~InLoop(t) /\ alloc[t] = -1
  /\ LET top == Last(frames[t])
     IN  \/ /\ top.op = "destroy"
            /\ Store(t, top.key, top.then)
            /\ frames' = [frames EXCEPT ![t] = Front(@)]
         \/ /\ top.op = "final"
            /\ frames' = [frames EXCEPT ![t] = Append(Front(@), [top EXCEPT
                            !.array[top.key] = None, !.key = @ + 1, !.busy = FALSE])]
            /\ UNCHANGED tls
  /\ UNCHANGED <<life, round, runs, ownerVars, allocVars>>

-----------------------------------------------------------------------------
(* The thread's code returns or it calls pthread_exit. *)
ThreadExit(t) ==
  /\ life[t] = "running" /\ frames[t] = << >> /\ alloc[t] = -1
  /\ life' = [life EXCEPT ![t] = "exiting"]
  /\ UNCHANGED <<tls, frames, round, runs, ownerVars, allocVars>>

(* Pthreads clears the key, then calls FinalizeKey with its old value, and *)
(* goes on doing so while destructors leave the key set again.             *)
FinalizeKey(t) ==
  /\ life[t] = "exiting" /\ frames[t] = << >>
  /\ tls[t] # Null /\ round[t] < MaxRounds
  /\ round' = [round EXCEPT ![t] = @ + 1]
  /\ frames' = [frames EXCEPT ![t] =
                  <<[op |-> "final", key |-> 0, array |-> tls[t], busy |-> FALSE]>>]
  /\ tls' = [tls EXCEPT ![t] = Null]
  /\ UNCHANGED <<life, runs, ownerVars, allocVars>>

(* One turn of the loop in DestroyEntries. *)
DestroyEntry(t) ==
  /\ InLoop(t)
  /\ LET top == Last(frames[t])
     IN  /\ top.key < MaxSlots
         /\ \/ /\ HasDestructor(top.array[top.key])
               /\ CallDestructor(top.array[top.key])
               /\ frames' = [frames EXCEPT ![t] =
                               Append(Front(@), [top EXCEPT !.busy = TRUE])]
            \/ /\ ~HasDestructor(top.array[top.key])
               /\ frames' = [frames EXCEPT ![t] = Append(Front(@), [top EXCEPT
                               !.array[top.key] = None, !.key = @ + 1])]
               /\ UNCHANGED runs
  /\ UNCHANGED <<life, tls, round, ownerVars, allocVars>>

(* delete[] entries at the end of DestroyEntries. *)
DeleteEntries(t) ==
  /\ InLoop(t) /\ Last(frames[t]).key = MaxSlots
  /\ frames' = [frames EXCEPT ![t] = Front(@)]
  /\ UNCHANGED <<life, tls, round, runs, ownerVars, allocVars>>

(* Pthreads is done with the keys of the thread. *)
ThreadGone(t) ==
  /\ life[t] = "exiting" /\ frames[t] = << >>
  /\ tls[t] = Null \/ round[t] = MaxRounds
  /\ life' = [life EXCEPT ![t] = "gone"]
  /\ UNCHANGED <<tls, frames, round, runs, ownerVars, allocVars>>

-----------------------------------------------------------------------------
LocalsNext ==
  \E t \in Thread :
    \/ AllocIncrement(t) \/ AllocReturn(t) \/ DestructorReturns(t)
    \/ ThreadExit(t) \/ FinalizeKey(t) \/ DestroyEntry(t) \/ DeleteEntries(t)
    \/ ThreadGone(t)
    \/ \E k \in Slot : SetValue(t, k) \/ DestroyValue(t, k)

LocalsSpec == LocalsInit /\ [][LocalsNext]_localsVars

-----------------------------------------------------------------------------
(* thread_locals.h 58: Alloc "Returns a new unique slot", whatever other   *)
(* threads do between its increment and its second read of next_slot_.     *)
SlotsAreUnique == IsInjective(granted)

(* No value is destroyed twice, though destructors store and destroy while *)
(* DestroyValue, SetValue or DestroyEntries waits for them.                *)
DestroyedOnce == \A v \in Value : runs[v] <= 1

(* A value a client can still read has not been destroyed, except for the  *)
(* one whose destructor is being run right now.                            *)
NoStaleValue ==
  \A t \in Thread : \A k \in Slot :
    Mine(t, k) /\ GetValue(t, k) # None => runs[GetValue(t, k)] = 0

(* When a thread is gone every value it stored with a destructor has been  *)
(* destroyed, those that destructors stored while it was ending included,  *)
(* unless they went on doing so for as many rounds as pthreads allows.     *)
GoneLeavesNothing ==
  \A v \in 1 .. made :
    /\ destructor[v] /\ life[owner[v]] = "gone"
    /\ round[owner[v]] < MaxRounds
    => runs[v] = 1

(* Across overlapping Allocs, destructors that call back and the end of    *)
(* threads, a slot has one owner and a value one destruction, after which  *)
(* nothing reads it.                                                       *)
EveryValueOnce ==
  /\ LocalsTypeOK
  /\ SlotsAreUnique
  /\ DestroyedOnce
  /\ NoStaleValue
  /\ GoneLeavesNothing
=============================================================================
