---------------------------- MODULE IpcRegistry -----------------------------
(***************************************************************************)
(* IpcProcessRegistry (common/ipc_message_queue_win32.cc): the ids of all  *)
(* processes with an IPC queue, in shared memory guarded by a named mutex. *)
(* A process may be killed between any two writes; Windows then hands the  *)
(* mutex, marked as abandoned, to the next process that asks for it.       *)
(***************************************************************************)
EXTENDS Naturals, FiniteSets, FiniteSetsExt

CONSTANTS
  Process,       \* process ids; an id is used once
  MaxProcesses   \* kMaxProcesses, 31 in the code

ASSUME RegistryAssumption == 0 \notin Process /\ MaxProcesses \in Nat \ {0}

Place == 1 .. MaxProcesses
Free == 0       \* kInvalidProcessId
Nobody == 0

VARIABLES
  reg_revision,   \* Registry::revision
  reg_processes,  \* Registry::processes
  reg_mutex,      \* the owner of mutex_
  reg_abandoned,  \* its last owner died while holding it
  reg_cache,      \* each process's cached_registry_
  reg_life,       \* "new", "opening", "listed", "leaving" or "gone"
  reg_op          \* each process's call, step, argument and index

registryVars == <<reg_revision, reg_processes, reg_mutex, reg_abandoned,
                  reg_cache, reg_life, reg_op>>
lockVars == <<reg_mutex, reg_abandoned>>

Snapshot == [revision |-> reg_revision, processes |-> reg_processes]
Empty == [revision |-> 0, processes |-> [i \in Place |-> Free]]
Idle == [do |-> "none", at |-> "none", id |-> Nobody, i |-> 0]
Begin(do, id) == [do |-> do, at |-> "lock", id |-> id, i |-> 0]

RegistryTypeOK ==
  /\ reg_revision \in Nat
  /\ reg_processes \in [Place -> Process \cup {Free}]
  /\ reg_mutex \in Process \cup {Nobody}
  /\ reg_abandoned => reg_mutex = Nobody
  /\ \A p \in Process :
       /\ reg_cache[p].processes \in [Place -> Process \cup {Free}]
       /\ reg_life[p] \in {"new", "opening", "listed", "leaving", "gone"}
       /\ reg_op[p].at \notin {"none", "lock"} <=> reg_mutex = p

RegistryInit ==
  /\ reg_revision = 0
  /\ reg_processes = Empty.processes
  /\ reg_mutex = Nobody
  /\ reg_abandoned = FALSE
  /\ reg_cache = [p \in Process |-> Empty]
  /\ reg_life = [p \in Process |-> "new"]
  /\ reg_op = [p \in Process |-> Idle]

-----------------------------------------------------------------------------
At(p, do, at) == reg_op[p].do = do /\ reg_op[p].at = at
Step(p, at) == reg_op' = [reg_op EXCEPT ![p].at = at]
Valid == {i \in Place : \A j \in 1 .. i : reg_processes[j] # Free}

Release(p, next) ==
  /\ reg_mutex' = Nobody
  /\ reg_op' = [reg_op EXCEPT ![p] = next]
  /\ UNCHANGED reg_abandoned

(* IpcMutexLock: wait for the mutex and learn whether it was abandoned. *)
IpcMutexLock(p) ==
  /\ reg_op[p].at = "lock"
  /\ reg_mutex = Nobody
  /\ reg_mutex' = p
  /\ reg_abandoned' = FALSE
  /\ Step(p, IF reg_abandoned THEN "repair" ELSE "locked")
  /\ UNCHANGED <<reg_revision, reg_processes, reg_cache, reg_life>>

(* Repair: the last valid entry repeats an earlier one after a Remove that *)
(* was cut short.                                                          *)
HasDuplicate ==
  Valid # {} /\ \E i \in Valid : i < Max(Valid) /\ reg_processes[i] = reg_processes[Max(Valid)]

Repair(p) ==
  /\ reg_op[p].at = "repair"
  /\ \/ ~HasDuplicate /\ Step(p, "locked") /\ UNCHANGED reg_revision
     \/ /\ HasDuplicate
        /\ reg_revision' = reg_revision + 1
        /\ Step(p, "repair_clear")
  /\ UNCHANGED <<reg_processes, reg_cache, reg_life, lockVars>>

RepairClear(p) ==
  /\ reg_op[p].at = "repair_clear"
  /\ reg_processes' = [reg_processes EXCEPT ![Max(Valid)] = Free]
  /\ Step(p, "locked")
  /\ UNCHANGED <<reg_revision, reg_cache, reg_life, lockVars>>

-----------------------------------------------------------------------------
(* InstanceThreadProc: Open, then Add. *)
StartProcess(p) ==
  /\ reg_life[p] = "new"
  /\ reg_life' = [reg_life EXCEPT ![p] = "opening"]
  /\ reg_op' = [reg_op EXCEPT ![p] = Begin("open", p)]
  /\ UNCHANGED <<reg_revision, reg_processes, reg_cache, lockVars>>

Open(p) ==
  /\ At(p, "open", "locked")
  /\ reg_cache' = [reg_cache EXCEPT ![p] = Snapshot]
  /\ Release(p, Begin("add", p))
  /\ UNCHANGED <<reg_revision, reg_processes, reg_life>>

(* Add finds the first empty slot, or else the first dead process, and     *)
(* bumps the revision before it writes there.                              *)
AddFindsSlot(p) ==
  LET holes == {i \in Place : reg_processes[i] = Free}
      dead == {i \in Place : reg_processes[i] # Free /\ reg_life[reg_processes[i]] = "gone"}
  IN  /\ At(p, "add", "locked")
      /\ holes \cup dead # {}
      /\ \E i \in Place :
           /\ i = IF holes # {} THEN Min(holes) ELSE Min(dead)
           /\ reg_op' = [reg_op EXCEPT ![p].at = "write", ![p].i = i]
      /\ reg_revision' = reg_revision + 1
      /\ UNCHANGED <<reg_processes, reg_cache, reg_life, lockVars>>

AddWrites(p) ==
  /\ At(p, "add", "write")
  /\ reg_processes' = [reg_processes EXCEPT ![reg_op[p].i] = p]
  /\ reg_life' = [reg_life EXCEPT ![p] = "listed"]
  /\ Release(p, Idle)
  /\ UNCHANGED <<reg_revision, reg_cache>>

(* The array is full of live processes: the queue does not start. *)
AddFails(p) ==
  /\ At(p, "add", "locked")
  /\ \A i \in Place : reg_processes[i] # Free /\ reg_life[reg_processes[i]] # "gone"
  /\ reg_life' = [reg_life EXCEPT ![p] = "gone"]
  /\ Release(p, Idle)
  /\ UNCHANGED <<reg_revision, reg_processes, reg_cache>>

-----------------------------------------------------------------------------
(* A process removes itself when it ends, or another one it found dead     *)
(* (OutboundQueue::WaitComplete, SendToAll).                               *)
CallRemove(p, id) ==
  /\ reg_life[p] = "listed" /\ reg_op[p] = Idle
  /\ id = p \/ (reg_life[id] = "gone" /\ \E i \in Place : reg_processes[i] = id)
  /\ reg_op' = [reg_op EXCEPT ![p] = Begin("remove", id)]
  /\ reg_life' = [reg_life EXCEPT ![p] = IF id = p THEN "leaving" ELSE @]
  /\ UNCHANGED <<reg_revision, reg_processes, reg_cache, lockVars>>

RemoveDone(p) ==
  /\ Release(p, Idle)
  /\ reg_life' = [reg_life EXCEPT ![p] = IF @ = "leaving" THEN "gone" ELSE @]

(* Remove looks for the id and bumps the revision first. *)
RemoveFinds(p) ==
  /\ At(p, "remove", "locked")
  /\ \/ /\ \A i \in Place : reg_processes[i] # reg_op[p].id
        /\ RemoveDone(p)
        /\ UNCHANGED reg_revision
     \/ /\ \E i \in Place :
             /\ reg_processes[i] = reg_op[p].id
             /\ \A j \in 1 .. i - 1 : reg_processes[j] # reg_op[p].id
             /\ reg_op' = [reg_op EXCEPT ![p].at = "write", ![p].i = i]
        /\ reg_revision' = reg_revision + 1
        /\ UNCHANGED <<reg_life, lockVars>>
  /\ UNCHANGED <<reg_processes, reg_cache>>

(* Variant: the entry is cleared in place and leaves a hole. *)
RemoveWritesHole(p) ==
  /\ At(p, "remove", "write")
  /\ reg_processes' = [reg_processes EXCEPT ![reg_op[p].i] = Free]
  /\ RemoveDone(p)
  /\ UNCHANGED <<reg_revision, reg_cache>>

(* The last entry moves into the place of the removed one. *)
RemoveWrites(p) ==
  /\ At(p, "remove", "write")
  /\ LET i == reg_op[p].i
         last == Max(Valid)
     IN  \/ /\ last = i
            /\ reg_processes' = [reg_processes EXCEPT ![i] = Free]
            /\ RemoveDone(p)
         \/ /\ last # i
            /\ reg_processes' = [reg_processes EXCEPT ![i] = reg_processes[last]]
            /\ Step(p, "shorten")
            /\ UNCHANGED <<reg_life, lockVars>>
  /\ UNCHANGED <<reg_revision, reg_cache>>

RemoveShortens(p) ==
  /\ At(p, "remove", "shorten")
  /\ reg_processes' = [reg_processes EXCEPT ![Max(Valid)] = Free]
  /\ RemoveDone(p)
  /\ UNCHANGED <<reg_revision, reg_cache>>

(* GetAll compares the revisions without the mutex; an equal one means     *)
(* that the cached list is used.                                           *)
CallGetAll(p) ==
  /\ reg_life[p] = "listed" /\ reg_op[p] = Idle
  /\ reg_cache[p].revision # reg_revision
  /\ reg_op' = [reg_op EXCEPT ![p] = Begin("get", p)]
  /\ UNCHANGED <<reg_revision, reg_processes, reg_cache, reg_life, lockVars>>

GetAllCopies(p) ==
  /\ At(p, "get", "locked")
  /\ reg_cache' = [reg_cache EXCEPT ![p] = Snapshot]
  /\ Release(p, Idle)
  /\ UNCHANGED <<reg_revision, reg_processes, reg_life>>

-----------------------------------------------------------------------------
(* The process is killed at any point. *)
Kill(p) ==
  /\ reg_life[p] \in {"opening", "listed", "leaving"}
  /\ reg_life' = [reg_life EXCEPT ![p] = "gone"]
  /\ reg_op' = [reg_op EXCEPT ![p] = Idle]
  /\ reg_mutex' = IF reg_mutex = p THEN Nobody ELSE reg_mutex
  /\ reg_abandoned' = (reg_abandoned \/ reg_mutex = p)
  /\ UNCHANGED <<reg_revision, reg_processes, reg_cache>>

RegistryStep(p) ==
  \/ IpcMutexLock(p) \/ Repair(p) \/ RepairClear(p) \/ Open(p)
  \/ AddFindsSlot(p) \/ AddWrites(p) \/ AddFails(p)
  \/ RemoveFinds(p) \/ RemoveWrites(p) \/ RemoveShortens(p) \/ GetAllCopies(p)

RegistryNext ==
  \E p \in Process :
    \/ StartProcess(p) \/ RegistryStep(p) \/ CallGetAll(p) \/ Kill(p)
    \/ \E id \in Process : CallRemove(p, id)

RegistrySpec == RegistryInit /\ [][RegistryNext]_registryVars

-----------------------------------------------------------------------------
(* Readers stop at the first empty slot (GetAll, Repair, Remove), so there *)
(* is never a hole, not even after a process was killed half-way through.  *)
NoHoles ==
  \A i, j \in Place : i < j /\ reg_processes[i] = Free => reg_processes[j] = Free

(* An id is listed twice only in the last valid place, and only until the  *)
(* Remove that caused it or the Repair after it is done: no process can    *)
(* copy such a list.                                                       *)
DuplicateIsRepaired ==
  /\ \A i, j \in Place : i < j /\ reg_processes[i] = reg_processes[j] /\ reg_processes[i] # Free =>
       /\ j = Max(Valid)
       /\ \/ reg_abandoned
          \/ \E p \in Process : reg_op[p].at \in {"shorten", "repair", "repair_clear"}
  /\ \A p \in Process : \A i, j \in Place :
       i # j /\ reg_cache[p].processes[i] = reg_cache[p].processes[j] => reg_cache[p].processes[i] = Free

(* A running process stays listed, whoever else is added, removed, killed  *)
(* or replaced, so that SendToAll of others reaches it.                    *)
ListedIsListed ==
  \A p \in Process : reg_life[p] = "listed" => \E i \in Place : reg_processes[i] = p

(* GetAll's unlocked test is sound: an equal revision means an equal list, *)
(* even if a writer was killed between its steps.                          *)
CacheIsCurrent ==
  \A p \in Process :
    reg_cache[p].revision = reg_revision => reg_cache[p].processes = reg_processes

(* A process may be killed between any two writes: whoever takes the mutex *)
(* next finds or restores a list without holes or duplicates that holds    *)
(* every live process, and caches of that revision agree with it.          *)
RegistryIsRepaired ==
  /\ RegistryTypeOK
  /\ NoHoles
  /\ DuplicateIsRepaired
  /\ ListedIsListed
  /\ CacheIsCurrent
=============================================================================
