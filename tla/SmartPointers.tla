---------------------------- MODULE SmartPointers ---------------------------
(***************************************************************************)
(* Shared ownership: linked_ptr (common/linked_ptr.h), whose owners form a *)
(* circle, and scoped_refptr (common/scoped_refptr.h), whose objects count *)
(* their owners atomically on several threads.                             *)
(***************************************************************************)
EXTENDS Naturals, FiniteSets

CONSTANTS
  Ptr,        \* linked_ptr variables, or scoped_refptr variables of one thread each
  Object

ASSUME PointerAssumption == 0 \notin Object /\ IsFiniteSet(Ptr)

VARIABLES
  lp_value, lp_next,   \* value_ and link_.next_
  lp_state,            \* of each object: "unused", "live" or "deleted"
  rp_ptr,              \* ptr_
  rp_count,            \* RefCounted::count_
  rp_old,              \* the object a reset has still to Unref
  rp_dying,            \* the object a reset has still to delete
  rp_state

linkedVars == <<lp_value, lp_next, lp_state>>
refVars == <<rp_ptr, rp_count, rp_old, rp_dying, rp_state>>
pointerVars == <<linkedVars, refVars>>

NULL == 0

PointersInit ==
  /\ lp_value = [p \in Ptr |-> NULL]
  /\ lp_next = [p \in Ptr |-> p]
  /\ lp_state = [o \in Object |-> "unused"]
  /\ rp_ptr = [p \in Ptr |-> NULL]
  /\ rp_count = [o \in Object |-> 0]
  /\ rp_old = [p \in Ptr |-> NULL]
  /\ rp_dying = [p \in Ptr |-> NULL]
  /\ rp_state = [o \in Object |-> "unused"]

-----------------------------------------------------------------------------
(* linked_ptr_internal::depart and the delete after it: unlink from the    *)
(* circle; the last one deletes.                                           *)
Departed(p) ==
  IF lp_next[p] = p THEN lp_next
  ELSE [q \in Ptr |-> IF q # p /\ lp_next[q] = p THEN lp_next[p] ELSE lp_next[q]]

AfterDepart(p) ==
  IF lp_next[p] = p /\ lp_value[p] # NULL
  THEN [lp_state EXCEPT ![lp_value[p]] = "deleted"]
  ELSE lp_state

(* join: behind the predecessor of q. *)
Joined(next, p, q) == [r \in Ptr |-> IF r = p THEN q ELSE IF next[r] = q THEN p ELSE next[r]]

(* reset(new T), or the destructor and a constructor. *)
ResetLinked(p, o) ==
  /\ o # NULL => lp_state[o] = "unused"
  /\ lp_next' = [Departed(p) EXCEPT ![p] = p]
  /\ lp_value' = [lp_value EXCEPT ![p] = o]
  /\ lp_state' = [x \in Object |-> IF x = o THEN "live" ELSE AfterDepart(p)[x]]
  /\ UNCHANGED refVars

(* operator=: depart, then copy; nothing for itself. *)
AssignLinked(p, q) ==
  /\ p # q
  /\ lp_value' = [lp_value EXCEPT ![p] = lp_value[q]]
  /\ lp_next' = IF lp_value[q] = NULL
                THEN [Departed(p) EXCEPT ![p] = p]
                ELSE Joined([Departed(p) EXCEPT ![p] = p], p, q)
  /\ lp_state' = AfterDepart(p)
  /\ UNCHANGED refVars

(* release, which requires sole ownership. *)
ReleaseLinked(p) ==
  /\ lp_next[p] = p /\ lp_value[p] # NULL
  /\ lp_value' = [lp_value EXCEPT ![p] = NULL]
  /\ lp_state' = [lp_state EXCEPT ![lp_value[p]] = "deleted"]   \* by the caller
  /\ UNCHANGED <<lp_next, refVars>>

LinkedNext ==
  \E p \in Ptr :
    \/ \E o \in Object \cup {NULL} : ResetLinked(p, o)
    \/ \E q \in Ptr : AssignLinked(p, q)
    \/ ReleaseLinked(p)

-----------------------------------------------------------------------------
Ready(p) == rp_old[p] = NULL /\ rp_dying[p] = NULL

(* Variant: the old object is released before the new one is referenced. *)
ResetUnrefsFirst(p, o) ==
  /\ Ready(p)
  /\ rp_ptr' = [rp_ptr EXCEPT ![p] = o]
  /\ rp_old' = [rp_old EXCEPT ![p] = NULL]
  /\ rp_count' = [x \in Object |->
       rp_count[x] + (IF x = o /\ x # rp_ptr[p] THEN 1 ELSE 0) - (IF x = rp_ptr[p] /\ x # o THEN 1 ELSE 0)]
  /\ rp_dying' = [rp_dying EXCEPT ![p] =
       IF rp_ptr[p] # NULL /\ rp_count[rp_ptr[p]] = 1 THEN rp_ptr[p] ELSE NULL]
  /\ rp_state' = IF o = NULL THEN rp_state ELSE [rp_state EXCEPT ![o] = "live"]
  /\ UNCHANGED linkedVars

(* reset: take the new object, Ref it, and Unref the old one last.  The    *)
(* object is new, or another variable holds it meanwhile.                  *)
ResetRef(p, o) ==
  /\ Ready(p)
  /\ rp_ptr' = [rp_ptr EXCEPT ![p] = o]
  /\ rp_old' = [rp_old EXCEPT ![p] = rp_ptr[p]]
  /\ rp_count' = IF o = NULL THEN rp_count ELSE [rp_count EXCEPT ![o] = @ + 1]
  /\ rp_state' = IF o = NULL THEN rp_state ELSE [rp_state EXCEPT ![o] = "live"]
  /\ UNCHANGED <<rp_dying, linkedVars>>

MayReset(p, o) ==
  o # NULL => rp_state[o] = "unused" \/ \E q \in Ptr : rp_ptr[q] = o

(* Unref: an atomic decrement, then the delete on a transition to zero. *)
UnrefOld(p) ==
  /\ rp_old[p] # NULL
  /\ rp_count' = [rp_count EXCEPT ![rp_old[p]] = @ - 1]
  /\ rp_dying' = [rp_dying EXCEPT ![p] = IF rp_count[rp_old[p]] = 1 THEN rp_old[p] ELSE NULL]
  /\ rp_old' = [rp_old EXCEPT ![p] = NULL]
  /\ UNCHANGED <<rp_ptr, rp_state, linkedVars>>

DeleteThis(p) ==
  /\ rp_dying[p] # NULL
  /\ rp_state' = [rp_state EXCEPT ![rp_dying[p]] = "deleted"]
  /\ rp_dying' = [rp_dying EXCEPT ![p] = NULL]
  /\ UNCHANGED <<rp_ptr, rp_count, rp_old, linkedVars>>

RefNext ==
  \E p \in Ptr :
    \/ \E o \in Object \cup {NULL} : MayReset(p, o) /\ ResetRef(p, o)
    \/ UnrefOld(p) \/ DeleteThis(p)

PointersSpec == PointersInit /\ [][LinkedNext \/ RefNext]_pointerVars

-----------------------------------------------------------------------------
(* The circle of a pointer is exactly the pointers to its object, null     *)
(* pointers are alone, and the object lives as long as they do.            *)
CirclesAreOwners ==
  \A p \in Ptr :
    /\ lp_value[p] # NULL => lp_state[lp_value[p]] = "live"
    /\ lp_value[p] = NULL => lp_next[p] = p
    /\ lp_value[lp_next[p]] = lp_value[p]
    /\ lp_next[p] = p => \A q \in Ptr \ {p} : lp_value[q] = lp_value[p] => lp_value[p] = NULL
    /\ \A q \in Ptr : lp_next[p] = lp_next[q] => p = q

(* An object without owners was deleted: nothing leaks. *)
NoLeak == \A o \in Object : lp_state[o] = "live" => \E p \in Ptr : lp_value[p] = o

(* The count is the number of owners, those about to Unref included; an    *)
(* object is deleted by one owner only, after all the others are done.     *)
CountIsOwners ==
  \A o \in Object :
    /\ rp_count[o] = Cardinality({p \in Ptr : rp_ptr[p] = o}) + Cardinality({p \in Ptr : rp_old[p] = o})
    /\ rp_count[o] > 0 => rp_state[o] = "live" /\ \A p \in Ptr : rp_dying[p] # o
    /\ rp_state[o] = "live" /\ rp_count[o] = 0 => Cardinality({p \in Ptr : rp_dying[p] = o}) = 1
    /\ rp_state[o] = "deleted" => \A p \in Ptr : rp_dying[p] # o

(* Under both ways of sharing, circles and counts, an object lives exactly *)
(* as long as it has an owner.                                             *)
LastOwnerDeletes ==
  /\ CirclesAreOwners
  /\ NoLeak
  /\ CountIsOwners
=============================================================================
