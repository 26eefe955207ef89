----------------------------- MODULE AtomicList -----------------------------
(***************************************************************************)
(* The lock-free list of common/atomic_list.h and the LazySingleton of     *)
(* common/atomic_ops.h, one atomic operation or shared read at a time.     *)
(***************************************************************************)
EXTENDS Naturals, Sequences, FiniteSets, FiniteSetsExt

CONSTANTS
  AThread,
  AValue,      \* values that are put, once each, and the default value
  MaxNodes     \* bound: nodes of the list

ASSUME AtomicAssumption == AValue \subseteq Nat /\ MaxNodes \in Nat

VARIABLES
  al_nodes,    \* by node: value and next
  al_head,
  al_thread,   \* each thread: step, value, node, and what it read
  al_put,      \* history: <<value, node>> of completed puts
  ls_me,       \* LazySingleton::me_: 0, the mark, or an instance
  ls_thread,   \* each thread in GetInstance
  ls_made      \* instances constructed

listVars == <<al_nodes, al_head, al_thread, al_put>>
singletonVars == <<ls_me, ls_thread, ls_made>>
atomicVars == <<listVars, singletonVars>>

Default == 0
Nil == 0
Mark == 99       \* -1 in the code
Resting == [at |-> "rest", value |-> Default, node |-> Nil, read |-> 0]

AtomicInit ==
  /\ al_nodes = <<>> /\ al_head = Nil /\ al_put = {}
  /\ al_thread = [t \in AThread |-> Resting]
  /\ ls_me = Nil /\ ls_made = 0
  /\ ls_thread = [t \in AThread |-> [at |-> "test", made |-> 0]]

Go(t, next) == al_thread' = [al_thread EXCEPT ![t] = next]
Now(t) == al_thread[t]
WithPut(t) == al_put \cup (IF Now(t).value = Default THEN {} ELSE {<<Now(t).value, Now(t).node>>})

-----------------------------------------------------------------------------
(* put walks the list for a node with the default value. *)
PutStarts(t, v) ==
  /\ Now(t).at = "rest"
  /\ \A p \in al_put : p[1] # v
  /\ \A u \in AThread : Now(u).at # "rest" => Now(u).value # v
  /\ Go(t, [at |-> "walk", value |-> v, node |-> al_head, read |-> 0])
  /\ UNCHANGED <<al_nodes, al_head, al_put, singletonVars>>

PutWalks(t) ==
  /\ Now(t).at = "walk"
  /\ \/ Now(t).node = Nil /\ Go(t, [Now(t) EXCEPT !.at = "new"])
     \/ /\ Now(t).node # Nil
        /\ IF al_nodes[Now(t).node].value = Default
           THEN Go(t, [Now(t) EXCEPT !.at = "claim"])
           ELSE Go(t, [Now(t) EXCEPT !.node = al_nodes[Now(t).node].next])
  /\ UNCHANGED <<al_nodes, al_head, al_put, singletonVars>>

(* Variant: the free node is taken without a compare-and-swap. *)
PutClaimsBlindly(t) ==
  /\ Now(t).at = "claim"
  /\ al_nodes' = [al_nodes EXCEPT ![Now(t).node].value = Now(t).value]
  /\ al_put' = WithPut(t)
  /\ Go(t, Resting)
  /\ UNCHANGED <<al_head, singletonVars>>

PutClaims(t) ==
  /\ Now(t).at = "claim"
  /\ \/ /\ al_nodes[Now(t).node].value = Default
        /\ al_nodes' = [al_nodes EXCEPT ![Now(t).node].value = Now(t).value]
        /\ al_put' = WithPut(t)
        /\ Go(t, Resting)
     \/ /\ al_nodes[Now(t).node].value # Default
        /\ Go(t, [Now(t) EXCEPT !.at = "walk", !.node = al_nodes[Now(t).node].next])
        /\ UNCHANGED <<al_nodes, al_put>>
  /\ UNCHANGED <<al_head, singletonVars>>

(* push_front: a new node in front of the head that was read. *)
PushReads(t) ==
  /\ Now(t).at \in {"new", "again"}
  /\ \/ /\ Now(t).at = "new" /\ Len(al_nodes) < MaxNodes
        /\ al_nodes' = Append(al_nodes, [value |-> Now(t).value, next |-> al_head])
        /\ Go(t, [Now(t) EXCEPT !.at = "push", !.node = Len(al_nodes) + 1, !.read = al_head])
     \/ /\ Now(t).at = "again"
        /\ al_nodes' = [al_nodes EXCEPT ![Now(t).node].next = al_head]
        /\ Go(t, [Now(t) EXCEPT !.at = "push", !.read = al_head])
  /\ UNCHANGED <<al_head, al_put, singletonVars>>

PushSwaps(t) ==
  /\ Now(t).at = "push"
  /\ \/ /\ al_head = Now(t).read
        /\ al_head' = Now(t).node
        /\ al_put' = WithPut(t)
        /\ Go(t, Resting)
     \/ /\ al_head # Now(t).read
        /\ Go(t, [Now(t) EXCEPT !.at = "again"])
        /\ UNCHANGED <<al_head, al_put>>
  /\ UNCHANGED <<al_nodes, singletonVars>>

(* dismiss reads the value and swaps it in for the default value, its      *)
(* arguments being the wrong way round: so it empties no node for a later  *)
(* put, though its comment (atomic_list.h 99-100) speaks of nodes that are *)
(* dismissed and used again.                                               *)
DismissReads(t) ==
  /\ Now(t).at = "rest"
  /\ \E p \in al_put :
       Go(t, [at |-> "dismiss", value |-> Default, node |-> p[2], read |-> al_nodes[p[2]].value])
  /\ UNCHANGED <<al_nodes, al_head, al_put, singletonVars>>

DismissSwaps(t) ==
  /\ Now(t).at = "dismiss"
  /\ al_nodes' = [al_nodes EXCEPT ![Now(t).node].value = IF @ = Default THEN Now(t).read ELSE @]
  /\ Go(t, Resting)
  /\ UNCHANGED <<al_head, al_put, singletonVars>>

ListNext ==
  \E t \in AThread :
    \/ \E v \in AValue : PutStarts(t, v)
    \/ PutWalks(t) \/ PutClaims(t) \/ PushReads(t) \/ PushSwaps(t) \/ DismissReads(t) \/ DismissSwaps(t)

-----------------------------------------------------------------------------
(* LazySingleton::GetInstance: a loop that ends with an instance in me_. *)
TestInstance(t) ==
  /\ ls_thread[t].at = "test"
  /\ ls_thread' = [ls_thread EXCEPT ![t].at = IF ls_me \in {Nil, Mark} THEN "mark" ELSE "use"]
  /\ UNCHANGED <<ls_me, ls_made, listVars>>

MarkInstance(t) ==
  /\ ls_thread[t].at = "mark"
  /\ ls_me' = IF ls_me = Nil THEN Mark ELSE ls_me
  /\ ls_thread' = [ls_thread EXCEPT ![t].at = "look"]
  /\ UNCHANGED <<ls_made, listVars>>

MakeInstance(t) ==
  /\ ls_thread[t].at = "look"
  /\ IF ls_me = Mark
     THEN /\ ls_made' = ls_made + 1
          /\ ls_thread' = [ls_thread EXCEPT ![t] = [at |-> "store", made |-> ls_made + 1]]
     ELSE /\ ls_thread' = [ls_thread EXCEPT ![t].at = "test"]
          /\ UNCHANGED ls_made
  /\ UNCHANGED <<ls_me, listVars>>

StoreInstance(t) ==
  /\ ls_thread[t].at = "store"
  /\ ls_me' = IF ls_me = Mark THEN ls_thread[t].made ELSE ls_me
  /\ ls_thread' = [ls_thread EXCEPT ![t].at = "assert"]
  /\ UNCHANGED <<ls_made, listVars>>

AssertInstance(t) ==
  /\ ls_thread[t].at = "assert"
  /\ ls_thread' = [ls_thread EXCEPT ![t].at = "test"]
  /\ UNCHANGED <<ls_me, ls_made, listVars>>

SingletonNext ==
  \E t \in AThread :
    TestInstance(t) \/ MarkInstance(t) \/ MakeInstance(t) \/ StoreInstance(t) \/ AssertInstance(t)

AtomicNext == ListNext \/ SingletonNext
AtomicSpec == AtomicInit /\ [][AtomicNext]_atomicVars

-----------------------------------------------------------------------------
(* A set of nodes that has the next of each of its nodes. *)
ClosedUnderNext(S) == \A n \in S \ {Nil} : al_nodes[n].next \in S

(* What is reachable from the head: what is in each such set with the head. *)
Reachable ==
  {n \in 0 .. Len(al_nodes) :
     \A S \in SUBSET (0 .. Len(al_nodes)) : al_head \in S /\ ClosedUnderNext(S) => n \in S}

(* A value that was put is in its node, and the node is in the list, when  *)
(* several threads push at once.                                           *)
PutStays == \A p \in al_put : p[2] \in Reachable /\ al_nodes[p[2]].value = p[1]

(* Callers of GetInstance keep the reference it returned: once there is an *)
(* instance, no thread that raced to make another one replaces it.         *)
InstanceStays == ls_me \notin {Nil, Mark} => ls_me' = ls_me

(* Racing threads neither lose a value put into the list nor replace the   *)
(* singleton another thread has returned.  That dismiss takes no value out *)
(* and that a thread may find another's instance than the one it made      *)
(* (InstanceIsOwn) are how the code is, and both leave this true.          *)
RacesLoseNothing == [][PutStays' /\ InstanceStays]_atomicVars

(* atomic_ops.h 102, "assert(me_ == new_instance)": a thread that made an  *)
(* instance has stored it.                                                 *)
InstanceIsOwn == \A t \in AThread : ls_thread[t].at = "assert" => ls_me = ls_thread[t].made
=============================================================================
