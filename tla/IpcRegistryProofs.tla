------------------------- MODULE IpcRegistryProofs --------------------------
(***************************************************************************)
(* RegistryIsRepaired holds for every set of processes and every size of   *)
(* the array.  The inductive invariant says how far each writer has got    *)
(* and what it leaves behind when it is killed there.                      *)
(***************************************************************************)
EXTENDS IpcRegistry, TLAPS, NaturalsInduction, WellFoundedInduction

List == [Place -> Process \cup {Free}]
Places == 0 .. MaxProcesses

Call ==
  [do : {"none", "open", "add", "remove", "get"},
   at : {"none", "lock", "repair", "repair_clear", "locked", "write", "shorten"},
   id : Process \cup {Nobody}, i : Places]

(* The types of all the variables. *)
RegType ==
  /\ reg_revision \in Nat
  /\ reg_processes \in List
  /\ reg_mutex \in Process \cup {Nobody}
  /\ reg_abandoned \in BOOLEAN
  /\ reg_cache \in [Process -> [revision : Nat, processes : List]]
  /\ reg_life \in [Process -> {"new", "opening", "listed", "leaving", "gone"}]
  /\ reg_op \in [Process -> Call]

(* Who is past the lock holds the mutex; a mutex is abandoned while free. *)
Holding ==
  /\ \A p \in Process : reg_op[p].at \notin {"none", "lock"} <=> reg_mutex = p
  /\ reg_abandoned => reg_mutex = Nobody

(* The call a process is in, by its life. *)
OpFits(p) ==
  /\ reg_op[p].do = "none" <=> reg_op[p].at = "none"
  /\ reg_op[p].do \in {"open", "add"} <=> reg_life[p] = "opening"
  /\ reg_op[p].do = "get" => reg_life[p] = "listed"
  /\ reg_op[p].do = "remove" =>
       \/ reg_op[p].id = p /\ reg_life[p] = "leaving"
       \/ /\ reg_op[p].id \in Process /\ reg_op[p].id # p
          /\ reg_life[p] = "listed" /\ reg_life[reg_op[p].id] = "gone"
  /\ reg_life[p] = "leaving" => reg_op[p].do = "remove"
  /\ reg_op[p].at = "write" => reg_op[p].do \in {"add", "remove"}
  /\ reg_op[p].at = "shorten" => reg_op[p].do = "remove"

(* Exactly the first n places are in use. *)
LenIs(n) == \A i \in Place : reg_processes[i] # Free <=> i <= n

(* The entries are in front; a process that was not added is not there; a  *)
(* running one is.                                                         *)
InFront ==
  /\ \E n \in Places : LenIs(n)
  /\ \A p \in Process : reg_life[p] \in {"new", "opening"} =>
       \A i \in Place : reg_processes[i] # p
  /\ ListedIsListed

(* Two equal entries: the later one is the last, and someone is about to   *)
(* clear it or died before.                                                *)
Twice ==
  \A i, j \in Place : i < j /\ reg_processes[i] = reg_processes[j] /\ reg_processes[i] # Free =>
    /\ LenIs(j)
    /\ \/ reg_abandoned
       \/ \E p \in Process : reg_op[p].at \in {"shorten", "repair", "repair_clear"}

(* Where each writer is about to write. *)
WritesAt(p) ==
  /\ At(p, "add", "write") =>
       /\ reg_op[p].i \in Place
       /\ \/ LenIs(reg_op[p].i - 1)
          \/ reg_processes[reg_op[p].i] # Free /\ reg_life[reg_processes[reg_op[p].i]] = "gone"
  /\ At(p, "remove", "write") =>
       reg_op[p].i \in Place /\ reg_processes[reg_op[p].i] = reg_op[p].id
  /\ reg_op[p].at \in {"shorten", "repair_clear"} =>
       \E n \in Place : LenIs(n) /\ \E k \in Place : k < n /\ reg_processes[k] = reg_processes[n]

(* The steps between the raising of the revision and the last write. *)
Writing == {"write", "shorten", "repair_clear"}

(* Every cached list was copied under the mutex; a writer raises the       *)
(* revision above all of them before its first write.                      *)
Cached ==
  /\ \A p \in Process :
       /\ reg_cache[p].revision <= reg_revision
       /\ \A i, j \in Place :
            i # j /\ reg_cache[p].processes[i] = reg_cache[p].processes[j] => reg_cache[p].processes[i] = Free
  /\ CacheIsCurrent
  /\ \A p, q \in Process : reg_op[q].at \in Writing => reg_cache[p].revision < reg_revision

RegInv ==
  /\ RegType
  /\ Holding
  /\ \A p \in Process : OpFits(p)
  /\ InFront
  /\ Twice
  /\ \A p \in Process : WritesAt(p)
  /\ Cached

-----------------------------------------------------------------------------
(* A set of naturals has a least element, which Min of FiniteSetsExt is:   *)
(* the first hole and the first dead process that Add finds.               *)
LEMMA MinIsLeast ==
  ASSUME NEW S \in SUBSET Nat, S # {}
  PROVE  Min(S) \in S /\ \A y \in S : Min(S) <= y
<1>. DEFINE R == {ss \in Nat \X Nat : ss[1] < ss[2]}
<1>1. R = OpToRel(<, Nat)
  BY DEF OpToRel
<1>2. \A a, b \in Nat : a < b => <<a, b>> \in R
  <2>. SUFFICES ASSUME NEW a \in Nat, NEW b \in Nat, a < b PROVE <<a, b>> \in R
    OBVIOUS
  <2>1. <<a, b>> \in Nat \X Nat /\ <<a, b>>[1] = a /\ <<a, b>>[2] = b
    OBVIOUS
  <2>. QED
    BY <2>1
<1>. HIDE DEF R
<1>3. PICK x \in S : \A y \in S : ~(<<y, x>> \in R)
  BY <1>1, NatLessThanWellFounded, WFMin
<1>4. \A y \in S : ~(y < x)
  BY <1>2, <1>3
<1>5. \A y \in S : x <= y
  BY <1>4
<1>. QED
  BY <1>5 DEF Min

(* The last valid place (Repair and Remove walk to it) of a list with n    *)
(* entries in front is n.                                                  *)
LEMMA LastValid ==
  ASSUME RegistryAssumption, NEW n \in Place, LenIs(n)
  PROVE  /\ Valid = 1 .. n
         /\ Max(Valid) = n
<1>1. Valid = 1 .. n
  BY DEF Valid, LenIs, Place, RegistryAssumption
<1>2. n \in Valid /\ \A y \in Valid : n >= y
  BY <1>1 DEF Place, RegistryAssumption
<1>3. \A x \in Valid : (\A y \in Valid : x >= y) => x = n
  BY <1>1, <1>2 DEF Place, RegistryAssumption
<1>. QED
  BY <1>1, <1>2, <1>3 DEF Max

(* A list has one length. *)
LEMMA OneLength ==
  ASSUME RegistryAssumption, NEW n \in Places, LenIs(n), NEW m \in Places, LenIs(m)
  PROVE  n = m
BY DEF LenIs, Place, Places, RegistryAssumption

-----------------------------------------------------------------------------
(* The registry starts in the invariant. *)
LEMMA RegInitial == RegistryAssumption /\ RegistryInit => RegInv
<1>. SUFFICES ASSUME RegistryAssumption, RegistryInit PROVE RegInv
  OBVIOUS
<1>. USE DEF RegistryInit, RegistryAssumption, Empty, Idle, Free, Nobody, Place, Places
<1>1. Empty.processes \in List /\ Empty.revision \in Nat
  BY DEF List
<1>2. RegType
  <2>1. reg_cache \in [Process -> [revision : Nat, processes : List]]
    BY <1>1
  <2>2. reg_op \in [Process -> Call]
    BY DEF Call
  <2>. QED
    BY <1>1, <2>1, <2>2 DEF RegType
<1>3. Holding /\ \A p \in Process : OpFits(p)
  BY DEF Holding, OpFits
<1>4. LenIs(0)
  BY DEF LenIs
<1>5. InFront
  BY <1>4 DEF InFront, ListedIsListed
<1>6. Twice /\ \A p \in Process : WritesAt(p)
  BY DEF Twice, WritesAt, At
<1>7. Cached
  BY DEF Cached, CacheIsCurrent, Writing
<1>. QED
  BY <1>2, <1>3, <1>5, <1>6, <1>7 DEF RegInv

(* Every form of a call record that an action writes is one. *)
LEMMA CallKept ==
  ASSUME reg_op \in [Process -> Call], NEW p \in Process
  PROVE  /\ Idle \in Call
         /\ \A do \in {"open", "add", "remove", "get"}, id \in Process : Begin(do, id) \in Call
         /\ \A at \in {"repair", "repair_clear", "locked", "shorten"} :
              [reg_op EXCEPT ![p].at = at] \in [Process -> Call]
         /\ \A i \in Place :
              [reg_op EXCEPT ![p].at = "write", ![p].i = i] \in [Process -> Call]
<1>1. Idle \in Call
  BY RegistryAssumption DEF Idle, Call, Places, Nobody
<1>2. \A do \in {"open", "add", "remove", "get"}, id \in Process : Begin(do, id) \in Call
  BY RegistryAssumption DEF Begin, Call, Places
<1>3. \A at \in {"repair", "repair_clear", "locked", "shorten"} :
        [reg_op EXCEPT ![p].at = at] \in [Process -> Call]
  BY DEF Call
<1>4. \A i \in Place : [reg_op EXCEPT ![p].at = "write", ![p].i = i] \in [Process -> Call]
  <2>. SUFFICES ASSUME NEW i \in Place
                PROVE  [reg_op EXCEPT ![p].at = "write", ![p].i = i] \in [Process -> Call]
    OBVIOUS
  <2>. DEFINE c == [reg_op[p] EXCEPT !.at = "write", !.i = i]
  <2>1. c \in Call
    <3>1. i \in Places /\ reg_op[p] \in Call
      BY RegistryAssumption DEF Place, Places
    <3>2. c = [[reg_op[p] EXCEPT !.at = "write"] EXCEPT !.i = i]
      OBVIOUS
    <3>. QED
      BY <3>1, <3>2 DEF Call
  <2>2. [reg_op EXCEPT ![p].at = "write", ![p].i = i] = [reg_op EXCEPT ![p] = c]
    OBVIOUS
  <2>. QED
    BY <2>1, <2>2
<1>. QED
  BY <1>1, <1>2, <1>3, <1>4

(* Remove and Repair find at least one entry when they look for the last. *)
LEMMA LastPlace ==
  ASSUME RegistryAssumption, RegInv, NEW p \in Process,
         \/ At(p, "remove", "write")
         \/ reg_op[p].at \in {"shorten", "repair_clear"}
  PROVE  Max(Valid) \in Place /\ LenIs(Max(Valid))
<1>1. PICK n \in Places : LenIs(n)
  BY DEF RegInv, InFront
<1>2. n \in Place
  <2>1. CASE At(p, "remove", "write")
    <3>1. reg_op[p].i \in Place /\ reg_processes[reg_op[p].i] \in Process
      BY <2>1 DEF RegInv, WritesAt, OpFits, At
    <3>. QED
      BY <1>1, <3>1 DEF LenIs, RegistryAssumption, Free, Place, Places
  <2>2. CASE reg_op[p].at \in {"shorten", "repair_clear"}
    <3>1. PICK m \in Place : LenIs(m)
      BY <2>2 DEF RegInv, WritesAt
    <3>. QED
      BY <1>1, <3>1, OneLength DEF Place, Places
  <2>. QED
    BY <2>1, <2>2
<1>. QED
  BY <1>1, <1>2, LastValid

(* The types are kept. *)
LEMMA RegTypeStep ==
  RegistryAssumption /\ RegInv /\ [RegistryNext]_registryVars => RegType'
<1>. SUFFICES ASSUME RegistryAssumption, RegInv, [RegistryNext]_registryVars PROVE RegType'
  OBVIOUS
<1>. USE DEF List
<1>0. reg_op \in [Process -> Call]
  BY DEF RegInv, RegType
<1>1. ASSUME NEW p \in Process, StartProcess(p) PROVE RegType'
  <2>1. reg_op' \in [Process -> Call]
    BY <1>0, <1>1, CallKept DEF StartProcess, lockVars
  <2>. QED
    BY <1>1, <2>1 DEF StartProcess, Begin, lockVars, RegInv, RegType, RegistryAssumption, Free, Nobody, Place, Places
<1>2. ASSUME NEW p \in Process, IpcMutexLock(p) PROVE RegType'
  <2>1. reg_op' \in [Process -> Call]
    BY <1>0, <1>2, CallKept DEF IpcMutexLock, Step
  <2>. QED
    BY <1>2, <2>1 DEF IpcMutexLock, Step, RegInv, RegType, RegistryAssumption, Free, Nobody, Place, Places
<1>3. ASSUME NEW p \in Process, Repair(p) PROVE RegType'
  <2>1. reg_op' \in [Process -> Call]
    <3>1. PICK at \in {"locked", "repair_clear"} : reg_op' = [reg_op EXCEPT ![p].at = at]
      BY <1>3 DEF Repair, Step, lockVars
    <3>. QED
      BY <1>0, <3>1, CallKept
  <2>. QED
    BY <1>3, <2>1 DEF Repair, Step, lockVars, RegInv, RegType, RegistryAssumption, Free, Nobody, Place, Places
<1>4. ASSUME NEW p \in Process, RepairClear(p) PROVE RegType'
  <2>1. reg_op' \in [Process -> Call]
    BY <1>0, <1>4, CallKept DEF RepairClear, Step, lockVars
  <2>. QED
    BY <1>4, <2>1 DEF RepairClear, Step, lockVars, RegInv, RegType, RegistryAssumption, Free, Nobody, Place, Places
<1>5. ASSUME NEW p \in Process, Open(p) PROVE RegType'
  <2>1. reg_op' \in [Process -> Call]
    BY <1>0, <1>5, CallKept DEF Open, Release
  <2>. QED
    BY <1>5, <2>1 DEF Open, At, Release, Begin, Snapshot, RegInv, RegType, RegistryAssumption, Free, Nobody, Place, Places
<1>6. ASSUME NEW p \in Process, AddFindsSlot(p) PROVE RegType'
  <2>1. reg_op' \in [Process -> Call]
    <3>1. PICK i \in Place : reg_op' = [reg_op EXCEPT ![p].at = "write", ![p].i = i]
      BY <1>6 DEF AddFindsSlot, lockVars
    <3>. QED
      BY <1>0, <3>1, CallKept
  <2>. QED
    BY <1>6, <2>1 DEF AddFindsSlot, At, lockVars, RegInv, RegType, RegistryAssumption, Free, Nobody, Place, Places
<1>7. ASSUME NEW p \in Process, AddWrites(p) PROVE RegType'
  <2>1. reg_op' \in [Process -> Call]
    BY <1>0, <1>7, CallKept DEF AddWrites, Release
  <2>. QED
    BY <1>7, <2>1 DEF AddWrites, At, Release, Idle, RegInv, RegType, RegistryAssumption, Free, Nobody, Place, Places
<1>8. ASSUME NEW p \in Process, AddFails(p) PROVE RegType'
  <2>1. reg_op' \in [Process -> Call]
    BY <1>0, <1>8, CallKept DEF AddFails, Release
  <2>. QED
    BY <1>8, <2>1 DEF AddFails, At, Release, Idle, RegInv, RegType, RegistryAssumption, Free, Nobody, Place, Places
<1>9. ASSUME NEW p \in Process, NEW id \in Process, CallRemove(p, id) PROVE RegType'
  <2>1. reg_op' \in [Process -> Call]
    BY <1>0, <1>9, CallKept DEF CallRemove, lockVars
  <2>. QED
    BY <1>9, <2>1 DEF CallRemove, Idle, Begin, lockVars, RegInv, RegType, RegistryAssumption, Free, Nobody, Place, Places
<1>10. ASSUME NEW p \in Process, RemoveFinds(p) PROVE RegType'
  <2>1. reg_op' \in [Process -> Call]
    <3>1. \/ reg_op' = [reg_op EXCEPT ![p] = Idle]
          \/ \E i \in Place : reg_op' = [reg_op EXCEPT ![p].at = "write", ![p].i = i]
      BY <1>10 DEF RemoveFinds, RemoveDone, Release, lockVars
    <3>2. CASE reg_op' = [reg_op EXCEPT ![p] = Idle]
      BY <1>0, <3>2, CallKept
    <3>3. ASSUME NEW i \in Place, reg_op' = [reg_op EXCEPT ![p].at = "write", ![p].i = i]
          PROVE  reg_op' \in [Process -> Call]
      BY <1>0, <3>3, CallKept
    <3>. QED
      BY <3>1, <3>2, <3>3
  <2>. QED
    BY <1>10, <2>1 DEF RemoveFinds, At, RemoveDone, Release, Idle, lockVars, RegInv, RegType, RegistryAssumption, Free, Nobody, Place, Places
<1>11. ASSUME NEW p \in Process, RemoveWrites(p) PROVE RegType'
  <2>1. reg_op' \in [Process -> Call]
    <3>1. \/ reg_op' = [reg_op EXCEPT ![p] = Idle]
          \/ reg_op' = [reg_op EXCEPT ![p].at = "shorten"]
      BY <1>11 DEF RemoveWrites, RemoveDone, Release, Step, lockVars
    <3>2. CASE reg_op' = [reg_op EXCEPT ![p] = Idle]
      BY <1>0, <3>2, CallKept
    <3>3. CASE reg_op' = [reg_op EXCEPT ![p].at = "shorten"]
      BY <1>0, <3>3, CallKept
    <3>. QED
      BY <3>1, <3>2, <3>3
  <2>2. Max(Valid) \in Place
    BY <1>11, LastPlace DEF RemoveWrites
  <2>3. reg_processes' \in List
    BY <1>11, <2>2 DEF RemoveWrites, RegInv, RegType, RegistryAssumption, Free, Nobody, Place, Places
  <2>4. reg_mutex' \in Process \cup {Nobody} /\ reg_abandoned' \in BOOLEAN
    BY <1>11 DEF RemoveWrites, At, RemoveDone, Release, Idle, Step, lockVars, RegInv, RegType, RegistryAssumption, Free, Nobody, Place, Places
  <2>. QED
    BY <1>11, <2>1, <2>3, <2>4 DEF RemoveWrites, At, RemoveDone, Release, Idle, Step, lockVars, RegInv, RegType, RegistryAssumption, Free, Nobody, Place, Places
<1>12. ASSUME NEW p \in Process, RemoveShortens(p) PROVE RegType'
  <2>1. reg_op' \in [Process -> Call]
    BY <1>0, <1>12, CallKept DEF RemoveShortens, RemoveDone, Release
  <2>. QED
    BY <1>12, <2>1 DEF RemoveShortens, At, RemoveDone, Release, Idle, RegInv, RegType, RegistryAssumption, Free, Nobody, Place, Places
<1>13. ASSUME NEW p \in Process, CallGetAll(p) PROVE RegType'
  <2>1. reg_op' \in [Process -> Call]
    BY <1>0, <1>13, CallKept DEF CallGetAll, lockVars
  <2>. QED
    BY <1>13, <2>1 DEF CallGetAll, Idle, Begin, lockVars, RegInv, RegType, RegistryAssumption, Free, Nobody, Place, Places
<1>14. ASSUME NEW p \in Process, GetAllCopies(p) PROVE RegType'
  <2>1. reg_op' \in [Process -> Call]
    BY <1>0, <1>14, CallKept DEF GetAllCopies, Release
  <2>. QED
    BY <1>14, <2>1 DEF GetAllCopies, At, Release, Idle, Snapshot, RegInv, RegType, RegistryAssumption, Free, Nobody, Place, Places
<1>15. ASSUME NEW p \in Process, Kill(p) PROVE RegType'
  <2>1. reg_op' \in [Process -> Call]
    BY <1>0, <1>15, CallKept DEF Kill
  <2>. QED
    BY <1>15, <2>1 DEF Kill, Idle, RegInv, RegType, RegistryAssumption, Free, Nobody, Place, Places
<1>16. CASE UNCHANGED registryVars
  BY <1>16 DEF registryVars, At, RegInv, RegType
<1>. QED
  BY <1>1, <1>2, <1>3, <1>4, <1>5, <1>6, <1>7, <1>8, <1>9, <1>10, <1>11, <1>12, <1>13, <1>14, <1>15, <1>16 DEF RegistryNext, RegistryStep

(* The mutex has one holder, whoever dies. *)
LEMMA HoldingStep ==
  RegistryAssumption /\ RegInv /\ [RegistryNext]_registryVars => Holding'
<1>. SUFFICES ASSUME RegistryAssumption, RegInv, [RegistryNext]_registryVars PROVE Holding'
  OBVIOUS
<1>. USE DEF RegInv, RegType, Holding, RegistryAssumption, Nobody, Call
<1>1. ASSUME NEW p \in Process, StartProcess(p) PROVE Holding'
  BY <1>1 DEF StartProcess, Begin, lockVars, OpFits
<1>2. ASSUME NEW p \in Process, IpcMutexLock(p) PROVE Holding'
  BY <1>2 DEF IpcMutexLock, Step
<1>3. ASSUME NEW p \in Process, Repair(p) PROVE Holding'
  BY <1>3 DEF Repair, Step, lockVars
<1>4. ASSUME NEW p \in Process, RepairClear(p) PROVE Holding'
  BY <1>4 DEF RepairClear, Step, lockVars
<1>5. ASSUME NEW p \in Process, Open(p) PROVE Holding'
  BY <1>5 DEF Open, At, Release, Begin, Snapshot
<1>6. ASSUME NEW p \in Process, AddFindsSlot(p) PROVE Holding'
  BY <1>6 DEF AddFindsSlot, At, lockVars
<1>7. ASSUME NEW p \in Process, AddWrites(p) PROVE Holding'
  BY <1>7 DEF AddWrites, At, Release, Idle
<1>8. ASSUME NEW p \in Process, AddFails(p) PROVE Holding'
  BY <1>8 DEF AddFails, At, Release, Idle
<1>9. ASSUME NEW p \in Process, NEW id \in Process, CallRemove(p, id) PROVE Holding'
  BY <1>9 DEF CallRemove, Idle, Begin, lockVars
<1>10. ASSUME NEW p \in Process, RemoveFinds(p) PROVE Holding'
  BY <1>10 DEF RemoveFinds, At, RemoveDone, Release, Idle, lockVars
<1>11. ASSUME NEW p \in Process, RemoveWrites(p) PROVE Holding'
  BY <1>11 DEF RemoveWrites, At, RemoveDone, Release, Idle, Step, lockVars
<1>12. ASSUME NEW p \in Process, RemoveShortens(p) PROVE Holding'
  BY <1>12 DEF RemoveShortens, At, RemoveDone, Release, Idle
<1>13. ASSUME NEW p \in Process, CallGetAll(p) PROVE Holding'
  BY <1>13 DEF CallGetAll, Idle, Begin, lockVars
<1>14. ASSUME NEW p \in Process, GetAllCopies(p) PROVE Holding'
  BY <1>14 DEF GetAllCopies, At, Release, Idle, Snapshot
<1>15. ASSUME NEW p \in Process, Kill(p) PROVE Holding'
  BY <1>15 DEF Kill, Idle
<1>16. CASE UNCHANGED registryVars
  BY <1>16 DEF registryVars, At, RegInv, RegType
<1>. QED
  BY <1>1, <1>2, <1>3, <1>4, <1>5, <1>6, <1>7, <1>8, <1>9, <1>10, <1>11, <1>12, <1>13, <1>14, <1>15, <1>16 DEF RegistryNext, RegistryStep

(* A call goes with the life of its process. *)
LEMMA OpFitsStep ==
  RegistryAssumption /\ RegInv /\ [RegistryNext]_registryVars => (\A q \in Process : OpFits(q))'
<1>. SUFFICES ASSUME RegistryAssumption, RegInv, [RegistryNext]_registryVars PROVE (\A q \in Process : OpFits(q))'
  OBVIOUS
<1>. USE DEF RegInv, RegType, OpFits, RegistryAssumption, Nobody, Holding, Call
<1>1. ASSUME NEW p \in Process, StartProcess(p) PROVE (\A q \in Process : OpFits(q))'
  BY <1>1 DEF StartProcess, Begin, lockVars
<1>2. ASSUME NEW p \in Process, IpcMutexLock(p) PROVE (\A q \in Process : OpFits(q))'
  BY <1>2 DEF IpcMutexLock, Step
<1>3. ASSUME NEW p \in Process, Repair(p) PROVE (\A q \in Process : OpFits(q))'
  BY <1>3 DEF Repair, Step, lockVars
<1>4. ASSUME NEW p \in Process, RepairClear(p) PROVE (\A q \in Process : OpFits(q))'
  BY <1>4 DEF RepairClear, Step, lockVars
<1>5. ASSUME NEW p \in Process, Open(p) PROVE (\A q \in Process : OpFits(q))'
  BY <1>5 DEF Open, At, Release, Begin, Snapshot
<1>6. ASSUME NEW p \in Process, AddFindsSlot(p) PROVE (\A q \in Process : OpFits(q))'
  BY <1>6 DEF AddFindsSlot, At, lockVars
<1>7. ASSUME NEW p \in Process, AddWrites(p) PROVE (\A q \in Process : OpFits(q))'
  BY <1>7 DEF AddWrites, At, Release, Idle
<1>8. ASSUME NEW p \in Process, AddFails(p) PROVE (\A q \in Process : OpFits(q))'
  BY <1>8 DEF AddFails, At, Release, Idle
<1>9. ASSUME NEW p \in Process, NEW id \in Process, CallRemove(p, id) PROVE (\A q \in Process : OpFits(q))'
  BY <1>9 DEF CallRemove, Idle, Begin, lockVars
<1>10. ASSUME NEW p \in Process, RemoveFinds(p) PROVE (\A q \in Process : OpFits(q))'
  BY <1>10 DEF RemoveFinds, At, RemoveDone, Release, Idle, lockVars
<1>11. ASSUME NEW p \in Process, RemoveWrites(p) PROVE (\A q \in Process : OpFits(q))'
  BY <1>11 DEF RemoveWrites, At, RemoveDone, Release, Idle, Step, lockVars
<1>12. ASSUME NEW p \in Process, RemoveShortens(p) PROVE (\A q \in Process : OpFits(q))'
  BY <1>12 DEF RemoveShortens, At, RemoveDone, Release, Idle
<1>13. ASSUME NEW p \in Process, CallGetAll(p) PROVE (\A q \in Process : OpFits(q))'
  BY <1>13 DEF CallGetAll, Idle, Begin, lockVars
<1>14. ASSUME NEW p \in Process, GetAllCopies(p) PROVE (\A q \in Process : OpFits(q))'
  BY <1>14 DEF GetAllCopies, At, Release, Idle, Snapshot
<1>15. ASSUME NEW p \in Process, Kill(p) PROVE (\A q \in Process : OpFits(q))'
  BY <1>15 DEF Kill, Idle
<1>16. CASE UNCHANGED registryVars
  BY <1>16 DEF registryVars, At, RegInv, RegType
<1>. QED
  BY <1>1, <1>2, <1>3, <1>4, <1>5, <1>6, <1>7, <1>8, <1>9, <1>10, <1>11, <1>12, <1>13, <1>14, <1>15, <1>16 DEF RegistryNext, RegistryStep

(* What one write does to the length of the list. *)
LEMMA LengthAfterWrite ==
  ASSUME RegistryAssumption, reg_processes \in List, NEW i \in Place, NEW v,
         reg_processes' = [reg_processes EXCEPT ![i] = v]
  PROVE  /\ LenIs(i) /\ v = Free => LenIs(i - 1)'
         /\ LenIs(i - 1) /\ v # Free => LenIs(i)'
         /\ \A n \in Places : LenIs(n) /\ reg_processes[i] # Free /\ v # Free => LenIs(n)'
<1>. USE DEF LenIs, List, RegistryAssumption, Place, Places
<1>1. LenIs(i) /\ v = Free => LenIs(i - 1)'
  OBVIOUS
<1>2. LenIs(i - 1) /\ v # Free => LenIs(i)'
  OBVIOUS
<1>3. \A n \in Places : LenIs(n) /\ reg_processes[i] # Free /\ v # Free => LenIs(n)'
  OBVIOUS
<1>. QED
  BY <1>1, <1>2, <1>3

(* The entries stay in front and a running process stays among them. *)
LEMMA InFrontStep ==
  RegistryAssumption /\ RegInv /\ [RegistryNext]_registryVars => InFront'
<1>. SUFFICES ASSUME RegistryAssumption, RegInv, [RegistryNext]_registryVars PROVE InFront'
  OBVIOUS
<1>. USE DEF InFront
<1>0. PICK len \in Places : LenIs(len)
  BY DEF RegInv
<1>1. ASSUME NEW p \in Process, StartProcess(p) PROVE InFront'
  BY <1>1, <1>0 DEF RegInv, RegType, List, ListedIsListed, RegistryAssumption, Free, OpFits, Nobody, Call, StartProcess, Begin, lockVars, LenIs
<1>2. ASSUME NEW p \in Process, IpcMutexLock(p) PROVE InFront'
  BY <1>2, <1>0 DEF RegInv, RegType, List, ListedIsListed, RegistryAssumption, Free, OpFits, Nobody, Call, IpcMutexLock, Step, LenIs
<1>3. ASSUME NEW p \in Process, Repair(p) PROVE InFront'
  BY <1>3, <1>0 DEF RegInv, RegType, List, ListedIsListed, RegistryAssumption, Free, OpFits, Nobody, Call, Repair, Step, lockVars, LenIs
<1>4. ASSUME NEW p \in Process, RepairClear(p) PROVE InFront'
  <2>1. PICK n \in Place : LenIs(n) /\ \E k \in Place : k < n /\ reg_processes[k] = reg_processes[n]
    BY <1>4 DEF RegInv, WritesAt, RepairClear
  <2>2. Max(Valid) = n
    BY <2>1, LastValid
  <2>3. reg_processes' = [reg_processes EXCEPT ![n] = Free]
    BY <1>4, <2>2 DEF RepairClear
  <2>4. LenIs(n - 1)'
    BY <2>1, <2>3, LengthAfterWrite DEF RegInv, RegType
  <2>5. n - 1 \in Places
    BY DEF Place, Places, RegistryAssumption
  <2>6. \A q \in Process : (\E i \in Place : reg_processes[i] = q) => \E i \in Place : reg_processes'[i] = q
    BY <2>1, <2>3 DEF RegInv, RegType, List, ListedIsListed, RegistryAssumption, Free, Place
  <2>7. \A i \in Place, q \in Process : reg_processes'[i] = q => reg_processes[i] = q
    BY <2>3 DEF RegInv, RegType, List, ListedIsListed, RegistryAssumption, Free
  <2>. QED
    BY <1>4, <2>4, <2>5, <2>6, <2>7 DEF RegInv, RegType, List, ListedIsListed, RegistryAssumption, Free, RepairClear, Step, lockVars
<1>5. ASSUME NEW p \in Process, Open(p) PROVE InFront'
  BY <1>5, <1>0 DEF RegInv, RegType, List, ListedIsListed, RegistryAssumption, Free, OpFits, Nobody, Call, Open, At, Release, Begin, Snapshot, LenIs
<1>6. ASSUME NEW p \in Process, AddFindsSlot(p) PROVE InFront'
  BY <1>6, <1>0 DEF RegInv, RegType, List, ListedIsListed, RegistryAssumption, Free, OpFits, Nobody, Call, AddFindsSlot, At, lockVars, LenIs
<1>7. ASSUME NEW p \in Process, AddWrites(p) PROVE InFront'
  <2>1. PICK i \in Place : /\ reg_processes' = [reg_processes EXCEPT ![i] = p]
                          /\ \/ LenIs(i - 1)
                             \/ reg_processes[i] # Free /\ reg_life[reg_processes[i]] = "gone"
    BY <1>7 DEF AddWrites, WritesAt, RegInv
  <2>2. LenIs(i)' \/ LenIs(len)'
    BY <1>0, <2>1, LengthAfterWrite DEF RegInv, RegType, RegistryAssumption, Free
  <2>3. i \in Places
    BY DEF Place, Places, RegistryAssumption
  <2>4. \A q \in Process : reg_life[q] = "listed" => \E j \in Place : reg_processes'[j] = q
    <3>. SUFFICES ASSUME NEW q \in Process, reg_life[q] = "listed"
                  PROVE  \E j \in Place : reg_processes'[j] = q
      OBVIOUS
    <3>1. PICK j \in Place : reg_processes[j] = q
      BY DEF RegInv, InFront, ListedIsListed
    <3>2. j # i
      BY <2>1, <3>1 DEF LenIs, RegistryAssumption, Free, Place
    <3>. QED
      BY <2>1, <3>1, <3>2 DEF RegInv, RegType, List
  <2>. QED
    BY <1>7, <2>1, <2>2, <2>3, <2>4 DEF RegInv, RegType, List, ListedIsListed, RegistryAssumption, Free, AddWrites, At, Release, Idle
<1>8. ASSUME NEW p \in Process, AddFails(p) PROVE InFront'
  BY <1>8, <1>0 DEF RegInv, RegType, List, ListedIsListed, RegistryAssumption, Free, OpFits, Nobody, Call, AddFails, At, Release, Idle, LenIs
<1>9. ASSUME NEW p \in Process, NEW id \in Process, CallRemove(p, id) PROVE InFront'
  BY <1>9, <1>0 DEF RegInv, RegType, List, ListedIsListed, RegistryAssumption, Free, OpFits, Nobody, Call, CallRemove, Idle, Begin, lockVars, LenIs
<1>10. ASSUME NEW p \in Process, RemoveFinds(p) PROVE InFront'
  <2>1. \A q \in Process : reg_life'[q] \in {"new", "opening", "listed"} => reg_life'[q] = reg_life[q]
    BY <1>10 DEF RegInv, RegType, RemoveFinds, RemoveDone
  <2>2. UNCHANGED reg_processes
    BY <1>10 DEF RemoveFinds
  <2>. QED
    BY <1>0, <2>1, <2>2 DEF RegInv, RegType, ListedIsListed, LenIs
<1>11. ASSUME NEW p \in Process, RemoveWrites(p) PROVE InFront'
  <2>1. PICK i \in Place, m \in Place :
          /\ i = reg_op[p].i /\ m = Max(Valid) /\ LenIs(m) /\ reg_processes[i] = reg_op[p].id
    BY <1>11, LastPlace DEF RemoveWrites, WritesAt, RegInv
  <2>2. reg_processes[i] \in Process /\ reg_life[reg_processes[i]] # "listed"
    BY <1>11, <2>1 DEF RemoveWrites, OpFits, RegInv, At
  <2>3. reg_processes[m] \in Process
    BY <2>1 DEF LenIs, Place, RegistryAssumption, RegInv, RegType, List
  <2>4. \A q \in Process : reg_life'[q] \in {"new", "opening", "listed"} => reg_life'[q] = reg_life[q]
    BY <1>11 DEF RegInv, RegType, RemoveWrites, RemoveDone
  <2>5. \A q \in Process : reg_life[q] = "listed" => \E j \in Place : reg_processes[j] = q /\ j # i
    BY <2>2 DEF RegInv, ListedIsListed
  <2>6. CASE m = i
    <3>1. reg_processes' = [reg_processes EXCEPT ![i] = Free]
      BY <1>11, <2>1, <2>6 DEF RemoveWrites
    <3>2. LenIs(i - 1)'
      BY <2>1, <2>6, <3>1, LengthAfterWrite DEF RegInv, RegType
    <3>3. i - 1 \in Places
      BY DEF Place, Places, RegistryAssumption
    <3>. QED
      BY <2>4, <2>5, <3>1, <3>2, <3>3 DEF RegInv, RegType, List, ListedIsListed, RegistryAssumption, Free
  <2>7. CASE m # i
    <3>1. reg_processes' = [reg_processes EXCEPT ![i] = reg_processes[m]]
      BY <1>11, <2>1, <2>7 DEF RemoveWrites
    <3>2. LenIs(m)'
      <4>1. m \in Places /\ reg_processes[i] # Free /\ reg_processes[m] # Free
        BY <2>2, <2>3 DEF RegistryAssumption, Free, Place, Places
      <4>. QED
        BY <2>1, <3>1, <4>1, LengthAfterWrite DEF RegInv, RegType
    <3>3. m \in Places
      BY DEF Place, Places, RegistryAssumption
    <3>. QED
      BY <2>4, <2>5, <3>1, <3>2, <3>3 DEF RegInv, RegType, List, ListedIsListed, RegistryAssumption, Free
  <2>. QED
    BY <2>6, <2>7
<1>12. ASSUME NEW p \in Process, RemoveShortens(p) PROVE InFront'
  <2>1. PICK n \in Place : LenIs(n) /\ \E k \in Place : k < n /\ reg_processes[k] = reg_processes[n]
    BY <1>12 DEF RegInv, WritesAt, RemoveShortens, At
  <2>2. Max(Valid) = n
    BY <2>1, LastValid
  <2>3. reg_processes' = [reg_processes EXCEPT ![n] = Free]
    BY <1>12, <2>2 DEF RemoveShortens, At
  <2>4. LenIs(n - 1)'
    BY <2>1, <2>3, LengthAfterWrite DEF RegInv, RegType
  <2>5. n - 1 \in Places
    BY DEF Place, Places, RegistryAssumption
  <2>6. \A q \in Process : (\E i \in Place : reg_processes[i] = q) => \E i \in Place : reg_processes'[i] = q
    BY <2>1, <2>3 DEF RegInv, RegType, List, ListedIsListed, RegistryAssumption, Free, Place
  <2>7. \A i \in Place, q \in Process : reg_processes'[i] = q => reg_processes[i] = q
    BY <2>3 DEF RegInv, RegType, List, ListedIsListed, RegistryAssumption, Free
  <2>. QED
    BY <1>12, <2>4, <2>5, <2>6, <2>7 DEF RegInv, RegType, List, ListedIsListed, RegistryAssumption, Free, RemoveShortens, At, RemoveDone, Release, Idle
<1>13. ASSUME NEW p \in Process, CallGetAll(p) PROVE InFront'
  BY <1>13, <1>0 DEF RegInv, RegType, List, ListedIsListed, RegistryAssumption, Free, OpFits, Nobody, Call, CallGetAll, Idle, Begin, lockVars, LenIs
<1>14. ASSUME NEW p \in Process, GetAllCopies(p) PROVE InFront'
  BY <1>14, <1>0 DEF RegInv, RegType, List, ListedIsListed, RegistryAssumption, Free, OpFits, Nobody, Call, GetAllCopies, At, Release, Idle, Snapshot, LenIs
<1>15. ASSUME NEW p \in Process, Kill(p) PROVE InFront'
  BY <1>15, <1>0 DEF RegInv, RegType, List, ListedIsListed, RegistryAssumption, Free, OpFits, Nobody, Call, Kill, Idle, LenIs
<1>16. CASE UNCHANGED registryVars
  BY <1>16, <1>0 DEF registryVars, RegInv, ListedIsListed, LenIs
<1>. QED
  BY <1>1, <1>2, <1>3, <1>4, <1>5, <1>6, <1>7, <1>8, <1>9, <1>10, <1>11, <1>12, <1>13, <1>14, <1>15, <1>16 DEF RegistryNext, RegistryStep

(* While the mutex is held past the repair and no Remove is half-way, no   *)
(* process is listed twice.                                                *)
NoTwice == \A i, j \in Place : i < j /\ reg_processes[i] = reg_processes[j] => reg_processes[i] = Free

LEMMA HolderSeesNoTwice ==
  ASSUME RegistryAssumption, RegInv, NEW p \in Process, reg_op[p].at \in {"locked", "write"}
  PROVE  NoTwice
BY DEF RegInv, Twice, Holding, NoTwice, RegistryAssumption, Nobody

(* Clearing the last entry ends the duplicate. *)
LEMMA ClearedNoTwice ==
  ASSUME RegistryAssumption, RegInv, NEW p \in Process, reg_op[p].at \in {"shorten", "repair_clear"},
         reg_processes' = [reg_processes EXCEPT ![Max(Valid)] = Free]
  PROVE  NoTwice'
<1>1. PICK n \in Place : n = Max(Valid) /\ LenIs(n)
  BY LastPlace
<1>2. \A i, j \in Place : i < j /\ reg_processes[i] = reg_processes[j] /\ reg_processes[i] # Free => j = n
  BY <1>1, OneLength DEF RegInv, Twice, Place, Places, RegistryAssumption
<1>. QED
  BY <1>1, <1>2 DEF NoTwice, RegInv, RegType, List

(* A duplicate is made by Remove only, and survives only until it is cleared. *)
LEMMA TwiceStep ==
  RegistryAssumption /\ RegInv /\ [RegistryNext]_registryVars => Twice'
<1>. SUFFICES ASSUME RegistryAssumption, RegInv, [RegistryNext]_registryVars PROVE Twice'
  OBVIOUS
<1>. USE DEF Twice
<1>1. ASSUME NEW p \in Process, StartProcess(p) PROVE Twice'
  BY <1>1 DEF RegInv, RegType, Holding, OpFits, Nobody, Call, LenIs, StartProcess, Begin, lockVars
<1>2. ASSUME NEW p \in Process, IpcMutexLock(p) PROVE Twice'
  BY <1>2 DEF RegInv, RegType, Holding, OpFits, Nobody, Call, LenIs, IpcMutexLock, Step
<1>3. ASSUME NEW p \in Process, Repair(p) PROVE Twice'
  <2>1. CASE HasDuplicate
    BY <1>3, <2>1 DEF RegInv, RegType, Call, LenIs, Repair, Step, lockVars
  <2>2. CASE ~HasDuplicate
    <3>1. ASSUME NEW i \in Place, NEW j \in Place, i < j, reg_processes[i] = reg_processes[j], reg_processes[i] # Free
          PROVE  FALSE
      <4>1. LenIs(j)
        BY <3>1 DEF RegInv
      <4>2. Valid = 1 .. j /\ Max(Valid) = j
        BY <4>1, LastValid
      <4>. QED
        BY <2>2, <3>1, <4>2 DEF HasDuplicate, Place, RegistryAssumption
    <3>. QED
      BY <1>3, <3>1 DEF Repair
  <2>. QED
    BY <2>1, <2>2
<1>4. ASSUME NEW p \in Process, RepairClear(p) PROVE Twice'
  <2>1. NoTwice'
    BY <1>4, ClearedNoTwice DEF RepairClear
  <2>. QED
    BY <2>1 DEF NoTwice
<1>5. ASSUME NEW p \in Process, Open(p) PROVE Twice'
  <2>1. NoTwice /\ UNCHANGED reg_processes
    BY <1>5, HolderSeesNoTwice DEF Open, At
  <2>. QED
    BY <2>1 DEF NoTwice
<1>6. ASSUME NEW p \in Process, AddFindsSlot(p) PROVE Twice'
  <2>1. NoTwice /\ UNCHANGED reg_processes
    BY <1>6, HolderSeesNoTwice DEF AddFindsSlot, At
  <2>. QED
    BY <2>1 DEF NoTwice
<1>7. ASSUME NEW p \in Process, AddWrites(p) PROVE Twice'
  <2>1. NoTwice
    BY <1>7, HolderSeesNoTwice DEF AddWrites, At
  <2>2. \A i \in Place : reg_processes[i] # p
    BY <1>7 DEF AddWrites, At, RegInv, OpFits, InFront
  <2>3. PICK i \in Place : reg_processes' = [reg_processes EXCEPT ![i] = p]
    BY <1>7 DEF AddWrites, WritesAt, RegInv
  <2>4. NoTwice'
    BY <2>1, <2>2, <2>3 DEF NoTwice, RegInv, RegType, List, Place, RegistryAssumption
  <2>. QED
    BY <2>4 DEF NoTwice
<1>8. ASSUME NEW p \in Process, AddFails(p) PROVE Twice'
  <2>1. NoTwice /\ UNCHANGED reg_processes
    BY <1>8, HolderSeesNoTwice DEF AddFails, At
  <2>. QED
    BY <2>1 DEF NoTwice
<1>9. ASSUME NEW p \in Process, NEW id \in Process, CallRemove(p, id) PROVE Twice'
  BY <1>9 DEF RegInv, RegType, Holding, OpFits, Nobody, Call, LenIs, CallRemove, Idle, Begin, lockVars
<1>10. ASSUME NEW p \in Process, RemoveFinds(p) PROVE Twice'
  <2>1. NoTwice /\ UNCHANGED reg_processes
    BY <1>10, HolderSeesNoTwice DEF RemoveFinds, At
  <2>. QED
    BY <2>1 DEF NoTwice
<1>11. ASSUME NEW p \in Process, RemoveWrites(p) PROVE Twice'
  <2>1. NoTwice
    BY <1>11, HolderSeesNoTwice DEF RemoveWrites, At
  <2>2. PICK i \in Place, m \in Place :
          /\ i = reg_op[p].i /\ m = Max(Valid) /\ LenIs(m) /\ reg_processes[i] = reg_op[p].id
    BY <1>11, LastPlace DEF RemoveWrites, WritesAt, RegInv
  <2>3. reg_processes[i] \in Process
    BY <1>11, <2>2 DEF RemoveWrites, OpFits, RegInv, At
  <2>4. CASE m = i
    <3>1. reg_processes' = [reg_processes EXCEPT ![i] = Free]
      BY <1>11, <2>2, <2>4 DEF RemoveWrites
    <3>. QED
      BY <2>1, <3>1 DEF NoTwice, RegInv, RegType, List
  <2>5. CASE m # i
    <3>1. reg_processes' = [reg_processes EXCEPT ![i] = reg_processes[m]]
      BY <1>11, <2>2, <2>5 DEF RemoveWrites
    <3>2. i < m /\ reg_processes[m] # Free
      BY <2>2, <2>3, <2>5 DEF LenIs, Place, RegistryAssumption, Free
    <3>3. \A j, k \in Place : j < k /\ reg_processes'[j] = reg_processes'[k] /\ reg_processes'[j] # Free => k = m
      BY <2>1, <3>1, <3>2 DEF NoTwice, RegInv, RegType, List, Place, RegistryAssumption
    <3>4. LenIs(m)'
      BY <2>2, <2>3, <3>1, <3>2 DEF LenIs, Place, RegistryAssumption, Free, RegInv, RegType, List
    <3>5. reg_op'[p].at = "shorten"
      BY <1>11, <2>2, <2>5 DEF RemoveWrites, Step, RegInv, RegType, Call
    <3>. QED
      BY <3>3, <3>4, <3>5
  <2>. QED
    BY <2>4, <2>5
<1>12. ASSUME NEW p \in Process, RemoveShortens(p) PROVE Twice'
  <2>1. NoTwice'
    BY <1>12, ClearedNoTwice DEF RemoveShortens, At
  <2>. QED
    BY <2>1 DEF NoTwice
<1>13. ASSUME NEW p \in Process, CallGetAll(p) PROVE Twice'
  BY <1>13 DEF RegInv, RegType, Holding, OpFits, Nobody, Call, LenIs, CallGetAll, Idle, Begin, lockVars
<1>14. ASSUME NEW p \in Process, GetAllCopies(p) PROVE Twice'
  <2>1. NoTwice /\ UNCHANGED reg_processes
    BY <1>14, HolderSeesNoTwice DEF GetAllCopies, At
  <2>. QED
    BY <2>1 DEF NoTwice
<1>15. ASSUME NEW p \in Process, Kill(p) PROVE Twice'
  <2>1. UNCHANGED reg_processes
    BY <1>15 DEF Kill
  <2>2. \A j : LenIs(j)' <=> LenIs(j)
    BY <2>1 DEF LenIs
  <2>3. CASE reg_abandoned \/ reg_mutex = p
    <3>1. reg_abandoned'
      BY <1>15, <2>3 DEF Kill
    <3>. QED
      BY <2>1, <2>2, <3>1 DEF RegInv
  <2>4. CASE ~(reg_abandoned \/ reg_mutex = p)
    <3>1. ASSUME NEW q \in Process, reg_op[q].at \in {"shorten", "repair", "repair_clear"}
          PROVE  reg_op'[q] = reg_op[q]
      <4>1. q # p
        BY <2>4, <3>1 DEF RegInv, Holding
      <4>. QED
        BY <1>15, <4>1 DEF Kill, RegInv, RegType
    <3>. QED
      BY <2>1, <2>2, <2>4, <3>1 DEF RegInv
  <2>. QED
    BY <2>3, <2>4
<1>16. CASE UNCHANGED registryVars
  BY <1>16 DEF registryVars, RegInv, LenIs
<1>. QED
  BY <1>1, <1>2, <1>3, <1>4, <1>5, <1>6, <1>7, <1>8, <1>9, <1>10, <1>11, <1>12, <1>13, <1>14, <1>15, <1>16 DEF RegistryNext, RegistryStep

(* Every writer knows where it writes: a step that changes neither the     *)
(* list nor the writer's call and revives no process leaves that so.       *)
LEMMA StillWritesAt ==
  ASSUME RegistryAssumption, RegInv, UNCHANGED reg_processes,
         \A q \in Process : reg_op'[q] = reg_op[q] \/ reg_op'[q].at \in {"none", "lock", "repair", "locked"},
         \A q \in Process : reg_life[q] = "gone" => reg_life'[q] = "gone"
  PROVE  (\A q \in Process : WritesAt(q))'
<1>. SUFFICES ASSUME NEW q \in Process PROVE WritesAt(q)'
  OBVIOUS
<1>1. CASE reg_op'[q].at \in {"none", "lock", "repair", "locked"}
  BY <1>1 DEF WritesAt, At
<1>2. CASE reg_op'[q] = reg_op[q]
  <2>1. \A n : LenIs(n)' <=> LenIs(n)
    BY DEF LenIs
  <2>2. \A i \in Place : reg_processes[i] # Free => reg_processes[i] \in Process
    BY DEF RegInv, RegType, List
  <2>3. WritesAt(q)
    BY DEF RegInv
  <2>. QED
    BY <1>2, <2>1, <2>2, <2>3 DEF WritesAt, At
<1>. QED
  BY <1>1, <1>2

(* A writer's place stays right until it has written. *)
LEMMA WritesAtStep ==
  RegistryAssumption /\ RegInv /\ [RegistryNext]_registryVars => (\A q \in Process : WritesAt(q))'
<1>. SUFFICES ASSUME RegistryAssumption, RegInv, [RegistryNext]_registryVars PROVE (\A q \in Process : WritesAt(q))'
  OBVIOUS
<1>. USE DEF RegInv
<1>1. ASSUME NEW p \in Process, StartProcess(p) PROVE (\A q \in Process : WritesAt(q))'
  <2>1. UNCHANGED reg_processes
    BY <1>1 DEF StartProcess
  <2>2. \A q \in Process : reg_op'[q] = reg_op[q] \/ reg_op'[q].at \in {"none", "lock", "repair", "locked"}
    BY <1>1 DEF StartProcess, Begin, lockVars, RegType, Call
  <2>3. \A q \in Process : reg_life[q] = "gone" => reg_life'[q] = "gone"
    BY <1>1 DEF StartProcess, RegType
  <2>. QED
    BY <2>1, <2>2, <2>3, StillWritesAt
<1>2. ASSUME NEW p \in Process, IpcMutexLock(p) PROVE (\A q \in Process : WritesAt(q))'
  <2>1. UNCHANGED reg_processes
    BY <1>2 DEF IpcMutexLock
  <2>2. \A q \in Process : reg_op'[q] = reg_op[q] \/ reg_op'[q].at \in {"none", "lock", "repair", "locked"}
    BY <1>2 DEF IpcMutexLock, Step, RegType, Call
  <2>3. \A q \in Process : reg_life[q] = "gone" => reg_life'[q] = "gone"
    BY <1>2 DEF IpcMutexLock, RegType
  <2>. QED
    BY <2>1, <2>2, <2>3, StillWritesAt
<1>3. ASSUME NEW p \in Process, Repair(p) PROVE (\A q \in Process : WritesAt(q))'
  <2>1. CASE ~HasDuplicate
    <3>1. \A q \in Process : reg_op'[q].at \notin {"write", "shorten", "repair_clear"}
      BY <1>3, <2>1 DEF Repair, Step, RegType, Holding, Call
    <3>. QED
      BY <3>1 DEF WritesAt, At
  <2>2. CASE HasDuplicate
    <3>1. PICK n \in Places : LenIs(n)
      BY DEF InFront
    <3>2. PICK j \in Valid : j < Max(Valid) /\ reg_processes[j] = reg_processes[Max(Valid)]
      BY <2>2 DEF HasDuplicate
    <3>3. n \in Place
      BY <3>1, <3>2 DEF Valid, LenIs, Place, Places, RegistryAssumption
    <3>4. Valid = 1 .. n /\ Max(Valid) = n
      BY <3>1, <3>3, LastValid
    <3>5. j \in Place /\ j < n /\ reg_processes'[j] = reg_processes'[n]
      BY <1>3, <3>2, <3>4 DEF Repair, Valid
    <3>6. LenIs(n)'
      BY <1>3, <3>1 DEF Repair, LenIs
    <3>7. \A q \in Process : reg_op'[q].at \notin {"write", "shorten"}
      BY <1>3, <2>2 DEF Repair, Step, RegType, Holding, Call
    <3>. QED
      BY <3>3, <3>5, <3>6, <3>7 DEF WritesAt, At
  <2>. QED
    BY <2>1, <2>2
<1>4. ASSUME NEW p \in Process, RepairClear(p) PROVE (\A q \in Process : WritesAt(q))'
  <2>1. \A q \in Process : reg_op'[q].at \notin {"write", "shorten", "repair_clear"}
    BY <1>4 DEF RepairClear, Step, lockVars, RegType, Holding, Call
  <2>. QED
    BY <2>1 DEF WritesAt, At
<1>5. ASSUME NEW p \in Process, Open(p) PROVE (\A q \in Process : WritesAt(q))'
  <2>1. \A q \in Process : reg_op'[q].at \notin {"write", "shorten", "repair_clear"}
    BY <1>5 DEF Open, At, Release, Begin, Snapshot, RegType, Holding, Call
  <2>. QED
    BY <2>1 DEF WritesAt, At
<1>6. ASSUME NEW p \in Process, AddFindsSlot(p) PROVE (\A q \in Process : WritesAt(q))'
  <2>. DEFINE holes == {i \in Place : reg_processes[i] = Free}
              dead == {i \in Place : reg_processes[i] # Free /\ reg_life[reg_processes[i]] = "gone"}
  <2>1. PICK i \in Place :
          /\ i = IF holes # {} THEN Min(holes) ELSE Min(dead)
          /\ reg_op' = [reg_op EXCEPT ![p].at = "write", ![p].i = i]
    BY <1>6 DEF AddFindsSlot
  <2>2. holes \in SUBSET Nat /\ dead \in SUBSET Nat
    BY DEF Place
  <2>3. reg_op'[p].i = i /\ reg_op'[p].do = "add"
    BY <1>6, <2>1 DEF AddFindsSlot, At, RegType, Call
  <2>4. \A q \in Process : q # p => reg_op'[q].at \in {"none", "lock"}
    BY <1>6, <2>1 DEF AddFindsSlot, At, RegType, Call, Holding
  <2>5. UNCHANGED <<reg_processes, reg_life>>
    BY <1>6 DEF AddFindsSlot
  <2>6. LenIs(i - 1)' \/ (reg_processes[i] # Free /\ reg_life[reg_processes[i]] = "gone")
    <3>1. CASE holes # {}
      <4>1. i \in holes /\ \A j \in holes : i <= j
        BY <2>1, <2>2, <3>1, MinIsLeast
      <4>2. PICK n \in Places : LenIs(n)
        BY DEF InFront
      <4>3. LenIs(i - 1)
        BY <4>1, <4>2 DEF LenIs, Place, Places, RegistryAssumption
      <4>. QED
        BY <2>5, <4>3 DEF LenIs
    <3>2. CASE holes = {}
      <4>1. dead # {}
        BY <1>6, <3>2 DEF AddFindsSlot
      <4>. QED
        BY <2>1, <2>2, <3>2, <4>1, MinIsLeast
    <3>. QED
      BY <3>1, <3>2
  <2>7. reg_op'[p].at = "write"
    BY <2>1 DEF RegType, Call
  <2>8. WritesAt(p)'
    BY <2>3, <2>5, <2>6, <2>7 DEF WritesAt, At, LenIs
  <2>. QED
    BY <2>4, <2>8 DEF WritesAt, At
<1>7. ASSUME NEW p \in Process, AddWrites(p) PROVE (\A q \in Process : WritesAt(q))'
  <2>1. \A q \in Process : reg_op'[q].at \notin {"write", "shorten", "repair_clear"}
    BY <1>7 DEF AddWrites, At, Release, Idle, RegType, Holding, Call
  <2>. QED
    BY <2>1 DEF WritesAt, At
<1>8. ASSUME NEW p \in Process, AddFails(p) PROVE (\A q \in Process : WritesAt(q))'
  <2>1. \A q \in Process : reg_op'[q].at \notin {"write", "shorten", "repair_clear"}
    BY <1>8 DEF AddFails, At, Release, Idle, RegType, Holding, Call
  <2>. QED
    BY <2>1 DEF WritesAt, At
<1>9. ASSUME NEW p \in Process, NEW id \in Process, CallRemove(p, id) PROVE (\A q \in Process : WritesAt(q))'
  <2>1. UNCHANGED reg_processes
    BY <1>9 DEF CallRemove
  <2>2. \A q \in Process : reg_op'[q] = reg_op[q] \/ reg_op'[q].at \in {"none", "lock", "repair", "locked"}
    BY <1>9 DEF CallRemove, Idle, Begin, lockVars, RegType, Call
  <2>3. \A q \in Process : reg_life[q] = "gone" => reg_life'[q] = "gone"
    BY <1>9 DEF CallRemove, RegType
  <2>. QED
    BY <2>1, <2>2, <2>3, StillWritesAt
<1>10. ASSUME NEW p \in Process, RemoveFinds(p) PROVE (\A q \in Process : WritesAt(q))'
  <2>1. UNCHANGED reg_processes
    BY <1>10 DEF RemoveFinds
  <2>2. \A q \in Process : q # p => reg_op'[q].at \in {"none", "lock"}
    BY <1>10 DEF RemoveFinds, At, RemoveDone, Release, Idle, lockVars, RegType, Call, Holding
  <2>3. CASE \A i \in Place : reg_processes[i] # reg_op[p].id
    <3>1. reg_op'[p].at = "none"
      BY <1>10, <2>3 DEF RemoveFinds, At, RemoveDone, Release, Idle, lockVars, RegType
    <3>. QED
      BY <2>2, <3>1 DEF WritesAt, At
  <2>4. ASSUME NEW i \in Place, reg_processes[i] = reg_op[p].id,
               reg_op' = [reg_op EXCEPT ![p].at = "write", ![p].i = i]
        PROVE  (\A q \in Process : WritesAt(q))'
    <3>1. reg_op'[p].do = "remove" /\ reg_op'[p].at = "write" /\ reg_op'[p].i = i /\ reg_op'[p].id = reg_op[p].id
      BY <1>10, <2>4 DEF RemoveFinds, At, RegType, Call
    <3>2. WritesAt(p)'
      BY <2>1, <2>4, <3>1 DEF WritesAt, At
    <3>. QED
      BY <2>2, <3>2 DEF WritesAt, At
  <2>. QED
    BY <1>10, <2>3, <2>4 DEF RemoveFinds
<1>11. ASSUME NEW p \in Process, RemoveWrites(p) PROVE (\A q \in Process : WritesAt(q))'
  <2>1. PICK i \in Place, m \in Place :
          /\ i = reg_op[p].i /\ m = Max(Valid) /\ LenIs(m) /\ reg_processes[i] = reg_op[p].id
    BY <1>11, LastPlace DEF RemoveWrites, WritesAt
  <2>2. reg_processes[i] \in Process
    BY <1>11, <2>1 DEF RemoveWrites, OpFits, At
  <2>3. \A q \in Process : q # p => reg_op'[q].at \in {"none", "lock"}
    BY <1>11 DEF RemoveWrites, At, RemoveDone, Release, Idle, Step, lockVars, RegType, Call, Holding
  <2>4. CASE m = i
    <3>1. reg_op'[p].at = "none"
      BY <1>11, <2>1, <2>4 DEF RemoveWrites, At, RemoveDone, Release, Idle, Step, lockVars, RegType
    <3>. QED
      BY <2>3, <3>1 DEF WritesAt, At
  <2>5. CASE m # i
    <3>1. reg_processes' = [reg_processes EXCEPT ![i] = reg_processes[m]] /\ reg_op'[p].at = "shorten"
      BY <1>11, <2>1, <2>5 DEF RemoveWrites, Step, RegType, Call
    <3>2. i < m /\ reg_processes[m] # Free
      BY <2>1, <2>2, <2>5 DEF LenIs, Place, RegistryAssumption, Free
    <3>3. LenIs(m)' /\ reg_processes'[i] = reg_processes'[m]
      BY <2>1, <2>2, <3>1, <3>2 DEF LenIs, Place, RegistryAssumption, Free, RegType, List
    <3>. QED
      BY <2>3, <3>1, <3>2, <3>3 DEF WritesAt, At
  <2>. QED
    BY <2>4, <2>5
<1>12. ASSUME NEW p \in Process, RemoveShortens(p) PROVE (\A q \in Process : WritesAt(q))'
  <2>1. \A q \in Process : reg_op'[q].at \notin {"write", "shorten", "repair_clear"}
    BY <1>12 DEF RemoveShortens, At, RemoveDone, Release, Idle, RegType, Holding, Call
  <2>. QED
    BY <2>1 DEF WritesAt, At
<1>13. ASSUME NEW p \in Process, CallGetAll(p) PROVE (\A q \in Process : WritesAt(q))'
  <2>1. UNCHANGED reg_processes
    BY <1>13 DEF CallGetAll
  <2>2. \A q \in Process : reg_op'[q] = reg_op[q] \/ reg_op'[q].at \in {"none", "lock", "repair", "locked"}
    BY <1>13 DEF CallGetAll, Idle, Begin, lockVars, RegType, Call
  <2>3. \A q \in Process : reg_life[q] = "gone" => reg_life'[q] = "gone"
    BY <1>13 DEF CallGetAll, RegType
  <2>. QED
    BY <2>1, <2>2, <2>3, StillWritesAt
<1>14. ASSUME NEW p \in Process, GetAllCopies(p) PROVE (\A q \in Process : WritesAt(q))'
  <2>1. \A q \in Process : reg_op'[q].at \notin {"write", "shorten", "repair_clear"}
    BY <1>14 DEF GetAllCopies, At, Release, Idle, Snapshot, RegType, Holding, Call
  <2>. QED
    BY <2>1 DEF WritesAt, At
<1>15. ASSUME NEW p \in Process, Kill(p) PROVE (\A q \in Process : WritesAt(q))'
  <2>1. UNCHANGED reg_processes
    BY <1>15 DEF Kill
  <2>2. \A q \in Process : reg_op'[q] = reg_op[q] \/ reg_op'[q].at \in {"none", "lock", "repair", "locked"}
    BY <1>15 DEF Kill, Idle, RegType, Call
  <2>3. \A q \in Process : reg_life[q] = "gone" => reg_life'[q] = "gone"
    BY <1>15 DEF Kill, RegType
  <2>. QED
    BY <2>1, <2>2, <2>3, StillWritesAt
<1>16. CASE UNCHANGED registryVars
  BY <1>16, StillWritesAt DEF registryVars
<1>. QED
  BY <1>1, <1>2, <1>3, <1>4, <1>5, <1>6, <1>7, <1>8, <1>9, <1>10, <1>11, <1>12, <1>13, <1>14, <1>15, <1>16 DEF RegistryNext, RegistryStep

(* A cached list is what the shared one was at its revision: raising the   *)
(* revision above every cache before the first write keeps it so.          *)
LEMMA RaisedAboveCaches ==
  ASSUME RegInv, reg_revision' = reg_revision + 1, UNCHANGED reg_cache
  PROVE  Cached'
<1>1. \A q \in Process : reg_cache[q].revision \in Nat /\ reg_cache[q].revision <= reg_revision /\ reg_revision \in Nat
  BY DEF RegInv, RegType, Cached
<1>2. \A q \in Process : reg_cache'[q].revision < reg_revision'
  BY <1>1
<1>. QED
  BY <1>1, <1>2 DEF Cached, CacheIsCurrent, RegInv

(* No cache of the current revision differs from the list. *)
LEMMA CachedStep ==
  RegistryAssumption /\ RegInv /\ [RegistryNext]_registryVars => Cached'
<1>. SUFFICES ASSUME RegistryAssumption, RegInv, [RegistryNext]_registryVars PROVE Cached'
  OBVIOUS
<1>. USE DEF RegInv, Cached, CacheIsCurrent
<1>1. ASSUME NEW p \in Process, StartProcess(p) PROVE Cached'
  <2>1. UNCHANGED <<reg_revision, reg_processes, reg_cache>>
    BY <1>1 DEF StartProcess
  <2>2. \A q \in Process : reg_op'[q].at \in Writing => reg_op[q].at \in Writing
    BY <1>1 DEF StartProcess, Begin, lockVars, RegType, Call, Writing
  <2>. QED
    BY <2>1, <2>2
<1>2. ASSUME NEW p \in Process, IpcMutexLock(p) PROVE Cached'
  <2>1. UNCHANGED <<reg_revision, reg_processes, reg_cache>>
    BY <1>2 DEF IpcMutexLock
  <2>2. \A q \in Process : reg_op'[q].at \in Writing => reg_op[q].at \in Writing
    BY <1>2 DEF IpcMutexLock, Step, RegType, Call, Writing
  <2>. QED
    BY <2>1, <2>2
<1>3. ASSUME NEW p \in Process, Repair(p) PROVE Cached'
  <2>1. UNCHANGED <<reg_processes, reg_cache>>
    BY <1>3 DEF Repair
  <2>2. CASE reg_revision' = reg_revision + 1
    BY <2>1, <2>2, RaisedAboveCaches
  <2>3. CASE reg_revision' # reg_revision + 1
    <3>1. reg_revision' = reg_revision /\ \A q \in Process : reg_op'[q].at \in Writing => reg_op[q].at \in Writing
      BY <1>3, <2>3 DEF Repair, Step, lockVars, RegType, Call, Writing
    <3>. QED
      BY <2>1, <3>1
  <2>. QED
    BY <2>2, <2>3
<1>4. ASSUME NEW p \in Process, RepairClear(p) PROVE Cached'
  <2>1. \A q \in Process : reg_cache[q].revision < reg_revision
    BY <1>4 DEF RepairClear, At, Writing
  <2>2. UNCHANGED <<reg_revision, reg_cache>>
    BY <1>4 DEF RepairClear
  <2>. QED
    BY <2>1, <2>2 DEF RegType
<1>5. ASSUME NEW p \in Process, Open(p) PROVE Cached'
  <2>1. NoTwice
    BY <1>5, HolderSeesNoTwice DEF Open, At, RegInv
  <2>2. /\ UNCHANGED <<reg_revision, reg_processes>>
        /\ reg_cache' = [reg_cache EXCEPT ![p] = Snapshot]
        /\ \A q \in Process : reg_op'[q].at \notin Writing
    BY <1>5 DEF Open, At, Release, Begin, Snapshot, RegType, Call, Writing, Holding
  <2>3. \A i, j \in Place : i # j /\ reg_processes[i] = reg_processes[j] => reg_processes[i] = Free
    BY <2>1 DEF NoTwice, Place, RegistryAssumption
  <2>4. reg_cache'[p].revision = reg_revision /\ reg_cache'[p].processes = reg_processes
    BY <2>2 DEF Snapshot, RegType
  <2>5. \A q \in Process : q # p => reg_cache'[q] = reg_cache[q]
    BY <2>2 DEF RegType
  <2>. QED
    BY <2>2, <2>3, <2>4, <2>5 DEF RegType
<1>6. ASSUME NEW p \in Process, AddFindsSlot(p) PROVE Cached'
  <2>1. reg_revision' = reg_revision + 1 /\ UNCHANGED <<reg_processes, reg_cache>>
    BY <1>6 DEF AddFindsSlot
  <2>. QED
    BY <2>1, RaisedAboveCaches
<1>7. ASSUME NEW p \in Process, AddWrites(p) PROVE Cached'
  <2>1. \A q \in Process : reg_cache[q].revision < reg_revision
    BY <1>7 DEF AddWrites, At, Writing
  <2>2. UNCHANGED <<reg_revision, reg_cache>>
    BY <1>7 DEF AddWrites
  <2>. QED
    BY <2>1, <2>2 DEF RegType
<1>8. ASSUME NEW p \in Process, AddFails(p) PROVE Cached'
  <2>1. UNCHANGED <<reg_revision, reg_processes, reg_cache>>
    BY <1>8 DEF AddFails
  <2>2. \A q \in Process : reg_op'[q].at \in Writing => reg_op[q].at \in Writing
    BY <1>8 DEF AddFails, At, Release, Idle, RegType, Call, Writing
  <2>. QED
    BY <2>1, <2>2
<1>9. ASSUME NEW p \in Process, NEW id \in Process, CallRemove(p, id) PROVE Cached'
  <2>1. UNCHANGED <<reg_revision, reg_processes, reg_cache>>
    BY <1>9 DEF CallRemove
  <2>2. \A q \in Process : reg_op'[q].at \in Writing => reg_op[q].at \in Writing
    BY <1>9 DEF CallRemove, Idle, Begin, lockVars, RegType, Call, Writing
  <2>. QED
    BY <2>1, <2>2
<1>10. ASSUME NEW p \in Process, RemoveFinds(p) PROVE Cached'
  <2>1. UNCHANGED <<reg_processes, reg_cache>>
    BY <1>10 DEF RemoveFinds
  <2>2. CASE reg_revision' = reg_revision + 1
    BY <2>1, <2>2, RaisedAboveCaches
  <2>3. CASE reg_revision' # reg_revision + 1
    <3>1. reg_revision' = reg_revision /\ \A q \in Process : reg_op'[q].at \in Writing => reg_op[q].at \in Writing
      BY <1>10, <2>3 DEF RemoveFinds, At, RemoveDone, Release, Idle, lockVars, RegType, Call, Writing
    <3>. QED
      BY <2>1, <3>1
  <2>. QED
    BY <2>2, <2>3
<1>11. ASSUME NEW p \in Process, RemoveWrites(p) PROVE Cached'
  <2>1. \A q \in Process : reg_cache[q].revision < reg_revision
    BY <1>11 DEF RemoveWrites, At, Writing
  <2>2. UNCHANGED <<reg_revision, reg_cache>>
    BY <1>11 DEF RemoveWrites
  <2>. QED
    BY <2>1, <2>2 DEF RegType
<1>12. ASSUME NEW p \in Process, RemoveShortens(p) PROVE Cached'
  <2>1. \A q \in Process : reg_cache[q].revision < reg_revision
    BY <1>12 DEF RemoveShortens, At, Writing
  <2>2. UNCHANGED <<reg_revision, reg_cache>>
    BY <1>12 DEF RemoveShortens
  <2>. QED
    BY <2>1, <2>2 DEF RegType
<1>13. ASSUME NEW p \in Process, CallGetAll(p) PROVE Cached'
  <2>1. UNCHANGED <<reg_revision, reg_processes, reg_cache>>
    BY <1>13 DEF CallGetAll
  <2>2. \A q \in Process : reg_op'[q].at \in Writing => reg_op[q].at \in Writing
    BY <1>13 DEF CallGetAll, Idle, Begin, lockVars, RegType, Call, Writing
  <2>. QED
    BY <2>1, <2>2
<1>14. ASSUME NEW p \in Process, GetAllCopies(p) PROVE Cached'
  <2>1. NoTwice
    BY <1>14, HolderSeesNoTwice DEF GetAllCopies, At, RegInv
  <2>2. /\ UNCHANGED <<reg_revision, reg_processes>>
        /\ reg_cache' = [reg_cache EXCEPT ![p] = Snapshot]
        /\ \A q \in Process : reg_op'[q].at \notin Writing
    BY <1>14 DEF GetAllCopies, At, Release, Idle, Snapshot, RegType, Call, Writing, Holding
  <2>3. \A i, j \in Place : i # j /\ reg_processes[i] = reg_processes[j] => reg_processes[i] = Free
    BY <2>1 DEF NoTwice, Place, RegistryAssumption
  <2>4. reg_cache'[p].revision = reg_revision /\ reg_cache'[p].processes = reg_processes
    BY <2>2 DEF Snapshot, RegType
  <2>5. \A q \in Process : q # p => reg_cache'[q] = reg_cache[q]
    BY <2>2 DEF RegType
  <2>. QED
    BY <2>2, <2>3, <2>4, <2>5 DEF RegType
<1>15. ASSUME NEW p \in Process, Kill(p) PROVE Cached'
  <2>1. UNCHANGED <<reg_revision, reg_processes, reg_cache>>
    BY <1>15 DEF Kill
  <2>2. \A q \in Process : reg_op'[q].at \in Writing => reg_op[q].at \in Writing
    BY <1>15 DEF Kill, Idle, RegType, Call, Writing
  <2>. QED
    BY <2>1, <2>2
<1>16. CASE UNCHANGED registryVars
  BY <1>16 DEF registryVars
<1>. QED
  BY <1>1, <1>2, <1>3, <1>4, <1>5, <1>6, <1>7, <1>8, <1>9, <1>10, <1>11, <1>12, <1>13, <1>14, <1>15, <1>16 DEF RegistryNext, RegistryStep

-----------------------------------------------------------------------------
(* RegInv is inductive: whatever process steps or is killed, and wherever. *)
THEOREM RegInvInductive == RegistryAssumption /\ RegInv /\ [RegistryNext]_registryVars => RegInv'
<1>. SUFFICES ASSUME RegistryAssumption, RegInv, [RegistryNext]_registryVars PROVE RegInv'
  OBVIOUS
<1>1. RegType' /\ Holding'
  BY RegTypeStep, HoldingStep
<1>2. (\A p \in Process : OpFits(p))'
  BY OpFitsStep
<1>3. InFront' /\ Twice'
  BY InFrontStep, TwiceStep
<1>4. (\A p \in Process : WritesAt(p))' /\ Cached'
  BY WritesAtStep, CachedStep
<1>. QED
  BY <1>1, <1>2, <1>3, <1>4 DEF RegInv

(* The invariant is enough: the list it describes has the properties that  *)
(* the readers of the registry count on.                                   *)
LEMMA RegInvSuffices == RegistryAssumption /\ RegInv => RegistryIsRepaired
<1>. SUFFICES ASSUME RegistryAssumption, RegInv PROVE RegistryIsRepaired
  OBVIOUS
<1>1. RegistryTypeOK
  BY DEF RegInv, RegType, Holding, RegistryTypeOK, List
<1>2. NoHoles
  BY DEF RegInv, InFront, LenIs, NoHoles, Place, Places, RegistryAssumption
<1>3. DuplicateIsRepaired
  <2>1. ASSUME NEW i \in Place, NEW j \in Place, i < j, reg_processes[i] = reg_processes[j], reg_processes[i] # Free
        PROVE  /\ j = Max(Valid)
               /\ \/ reg_abandoned
                  \/ \E p \in Process : reg_op[p].at \in {"shorten", "repair", "repair_clear"}
    <3>1. LenIs(j)
      BY <2>1 DEF RegInv, Twice
    <3>. QED
      BY <2>1, <3>1, LastValid DEF RegInv, Twice
  <2>. QED
    BY <2>1 DEF DuplicateIsRepaired, RegInv, Cached
<1>4. ListedIsListed /\ CacheIsCurrent
  BY DEF RegInv, InFront, Cached
<1>. QED
  BY <1>1, <1>2, <1>3, <1>4 DEF RegistryIsRepaired

(* The registry survives the death of any process between any two of its   *)
(* writes: no hole, no lasting duplicate, every running process listed,    *)
(* and no cache of the current revision that differs from the list.        *)
THEOREM RegistryAlwaysRepaired == RegistrySpec => []RegistryIsRepaired
<1>1. RegistryInit => RegInv
  BY RegistryAssumption, RegInitial
<1>2. RegInv /\ [RegistryNext]_registryVars => RegInv'
  BY RegistryAssumption, RegInvInductive
<1>3. RegInv => RegistryIsRepaired
  BY RegistryAssumption, RegInvSuffices
<1>. QED
  BY <1>1, <1>2, <1>3, PTL DEF RegistrySpec
=============================================================================
