---------------------------- MODULE LibraryProofs ---------------------------
(***************************************************************************)
(* Proofs about the parts of the library that keep one invariant each:     *)
(* nested transactions (SqlDatabase), shared ownership (SmartPointers),    *)
(* the byte store (ByteStore), HTTP headers (HttpHeaders), files used by   *)
(* several threads (Files), and the permissions database with the names    *)
(* of database files (PermissionsDb, DatabaseNames).                       *)
(***************************************************************************)
EXTENDS SqlDatabase, SmartPointers, ByteStore, HttpHeaders, Files, PermissionsDb, TLAPS,
        FiniteSetTheorems, SequenceTheorems, NaturalsInduction

-----------------------------------------------------------------------------
(* Transactions.  At most one connection writes; what is pending, what is  *)
(* on disk and what ended without effect have no write in common; and a    *)
(* connection between the lock and BEGIN is open and outside transactions. *)
Writes == 0 .. sd_writes - 1

SqlType ==
  /\ sd_open \in [Conn -> BOOLEAN]
  /\ sd_count \in [Conn -> Nat]
  /\ sd_rollback \in [Conn -> BOOLEAN]
  /\ sd_mutex \subseteq Conn /\ sd_locked \subseteq Conn /\ sd_writer \subseteq Conn
  /\ sd_writes \in Nat
  /\ sd_pending \subseteq Writes /\ sd_disk \subseteq Writes

OneWriter ==
  /\ \A c, d \in sd_writer : c = d
  /\ sd_writer = {} => sd_pending = {}
  /\ \A c \in sd_locked : sd_open[c] /\ sd_count[c] = 0

Apart ==
  /\ sd_pending \cap sd_disk = {}
  /\ \A e \in sd_ended : e.writes \subseteq Writes /\ (~e.ok => e.writes \cap sd_pending = {})

SqlInv == SqlType /\ OneWriter /\ Apart /\ LocksMatchCount /\ AllOrNothing

(* The parts of the invariant that speak of locks. *)
LocksInv ==
  /\ sd_open \in [Conn -> BOOLEAN]
  /\ sd_count \in [Conn -> Nat]
  /\ sd_rollback \in [Conn -> BOOLEAN]
  /\ sd_mutex \subseteq Conn /\ sd_locked \subseteq Conn /\ sd_writer \subseteq Conn
  /\ \A c, d \in sd_writer : c = d
  /\ \A c \in sd_locked : sd_open[c] /\ sd_count[c] = 0
  /\ LocksMatchCount

WritesInv ==
  /\ sd_writes \in Nat
  /\ sd_pending \subseteq Writes /\ sd_disk \subseteq Writes
  /\ sd_writer = {} => sd_pending = {}
  /\ Apart /\ AllOrNothing

LEMMA SqlParts == SqlInv <=> LocksInv /\ WritesInv
BY DEF SqlInv, SqlType, OneWriter, LocksInv, WritesInv

LEMMA SqlLocks ==
  ASSUME LocksInv, SqlNext
  PROVE  LocksInv'
<1> USE SqlAssumption
<1>1. PICK c \in Conn :
        \/ Open(c) \/ Close(c)
        \/ BeginNested(c) \/ BeginLocks(c) \/ BeginFails(c) \/ BeginSucceeds(c)
        \/ Execute(c) \/ DropAllObjects(c)
        \/ RollbackTransaction(c) \/ CommitTransaction(c)
  BY DEF SqlNext
<1>2. CASE Open(c)
  BY <1>2 DEF Open, LocksInv, LocksMatchCount
<1>3. CASE Close(c)
  BY <1>3 DEF Close, LocksInv, LocksMatchCount
<1>4. CASE BeginNested(c)
  BY <1>4 DEF BeginNested, LocksInv, LocksMatchCount
<1>5. CASE BeginLocks(c)
  BY <1>5 DEF BeginLocks, LocksInv, LocksMatchCount
<1>6. CASE BeginFails(c)
  BY <1>6 DEF BeginFails, LocksInv, LocksMatchCount
<1>7. CASE BeginSucceeds(c)
  BY <1>7 DEF BeginSucceeds, LocksInv, LocksMatchCount
<1>8. CASE Execute(c)
  BY <1>8 DEF Execute, LocksInv, LocksMatchCount
<1>9. CASE DropAllObjects(c)
  BY <1>9 DEF DropAllObjects, LocksInv, LocksMatchCount
<1>10. ASSUME NEW rollback \in BOOLEAN, EndTransaction(c, rollback)
       PROVE  LocksInv'
  <2>1. CASE EndOutermost(c, rollback)
    BY <2>1 DEF EndOutermost, LocksInv, LocksMatchCount
  <2>2. CASE EndNested(c, rollback)
    BY <2>2 DEF EndNested, LocksInv, LocksMatchCount
  <2> QED
    BY <1>10, <2>1, <2>2 DEF EndTransaction
<1>11. sd_rollback[c] \in BOOLEAN
  BY DEF LocksInv
<1> QED
  BY <1>1, <1>2, <1>3, <1>4, <1>5, <1>6, <1>7, <1>8, <1>9, <1>10, <1>11
     DEF RollbackTransaction, CommitTransaction

LEMMA SqlWrites ==
  ASSUME LocksInv, WritesInv, SqlNext
  PROVE  WritesInv'
<1> USE SqlAssumption
<1>1. PICK c \in Conn :
        \/ Open(c) \/ Close(c)
        \/ BeginNested(c) \/ BeginLocks(c) \/ BeginFails(c) \/ BeginSucceeds(c)
        \/ Execute(c) \/ DropAllObjects(c)
        \/ RollbackTransaction(c) \/ CommitTransaction(c)
  BY DEF SqlNext
<1>2. CASE UNCHANGED <<sd_writer, sd_pending, sd_disk, sd_writes, sd_ended>>
  BY <1>2 DEF WritesInv, Apart, AllOrNothing, Writes
<1>3. CASE Close(c)
  <2>1. sd_pending' \subseteq sd_pending /\ UNCHANGED <<sd_disk, sd_writes, sd_ended>>
    BY <1>3 DEF Close
  <2>2. sd_writer' = {} => sd_pending' = {}
    BY <1>3 DEF Close, WritesInv
  <2> QED
    BY <2>1, <2>2 DEF WritesInv, Apart, AllOrNothing, Writes
<1>4. CASE BeginSucceeds(c)
  BY <1>4 DEF BeginSucceeds, WritesInv, Apart, AllOrNothing, Writes
<1>5. CASE Execute(c) \/ DropAllObjects(c)
  <2>1. /\ sd_writes' = sd_writes + 1 /\ UNCHANGED <<sd_writer, sd_ended>>
        /\ \/ /\ c \in sd_writer /\ sd_pending' = sd_pending \cup {sd_writes} /\ UNCHANGED sd_disk
           \/ /\ sd_disk' = sd_disk \cup {sd_writes} /\ UNCHANGED sd_pending
    BY <1>5 DEF Execute, DropAllObjects
  <2>2. sd_writes \notin Writes /\ Writes' = Writes \cup {sd_writes} /\ sd_writes' \in Nat
    BY <2>1 DEF Writes, WritesInv
  <2>3. CASE c \in sd_writer /\ sd_pending' = sd_pending \cup {sd_writes} /\ UNCHANGED sd_disk
    BY <2>1, <2>2, <2>3 DEF WritesInv, Apart, AllOrNothing
  <2>4. CASE sd_disk' = sd_disk \cup {sd_writes} /\ UNCHANGED sd_pending
    BY <2>1, <2>2, <2>4 DEF WritesInv, Apart, AllOrNothing
  <2> QED
    BY <2>1, <2>3, <2>4
<1>6. ASSUME NEW rollback \in BOOLEAN, EndOutermost(c, rollback)
      PROVE  WritesInv'
  <2>1. /\ sd_pending' = {} /\ UNCHANGED sd_writes /\ Writes' = Writes
        /\ \/ /\ sd_disk' = sd_disk \cup sd_pending
              /\ sd_ended' = sd_ended \cup {[writes |-> sd_pending, ok |-> TRUE]}
           \/ /\ sd_ended' = sd_ended \cup {[writes |-> sd_pending, ok |-> FALSE]}
              /\ UNCHANGED sd_disk
    BY <1>6 DEF EndOutermost, MayCommit, Writes
  <2>2. CASE /\ sd_disk' = sd_disk \cup sd_pending
             /\ sd_ended' = sd_ended \cup {[writes |-> sd_pending, ok |-> TRUE]}
    BY <2>1, <2>2 DEF WritesInv, Apart, AllOrNothing
  <2>3. CASE /\ sd_ended' = sd_ended \cup {[writes |-> sd_pending, ok |-> FALSE]}
             /\ UNCHANGED sd_disk
    BY <2>1, <2>3 DEF WritesInv, Apart, AllOrNothing
  <2> QED
    BY <2>1, <2>2, <2>3
<1>7. sd_rollback[c] \in BOOLEAN
  BY DEF LocksInv
<1> QED
  BY <1>1, <1>2, <1>3, <1>4, <1>5, <1>6, <1>7
     DEF Open, BeginNested, BeginLocks, BeginFails, RollbackTransaction, CommitTransaction,
         EndTransaction, EndNested

(* Nested transactions on any number of connections, with any of them      *)
(* closed in between (common/sqlite_wrapper.cc, SQLDatabase): the count,   *)
(* SQLite's lock and the transaction mutex agree, and an outermost         *)
(* transaction takes effect as a whole or not at all.                      *)
THEOREM TransactionsAlwaysNest == SqlSpec => []TransactionsNest
<1>1. SqlInit => SqlInv
  BY SqlAssumption DEF SqlInit, SqlInv, SqlType, OneWriter, Apart, LocksMatchCount, AllOrNothing, Writes
<1>2. SqlInv /\ [SqlNext]_sqlVars => SqlInv'
  <2>1. SqlInv /\ SqlNext => SqlInv'
    <3>1. (SqlInv <=> LocksInv /\ WritesInv) /\ (SqlInv' <=> LocksInv' /\ WritesInv')
      <4>1. SqlInv' <=> LocksInv' /\ WritesInv'
        BY DEF SqlInv, SqlType, OneWriter, LocksInv, WritesInv
      <4> QED
        BY <4>1, SqlParts
    <3> QED
      BY <3>1, SqlLocks, SqlWrites
  <2>2. SqlInv /\ UNCHANGED sqlVars => SqlInv'
    BY DEF sqlVars, SqlInv, SqlType, OneWriter, Apart, LocksMatchCount, AllOrNothing, Writes
  <2> QED
    BY <2>1, <2>2
<1>3. SqlInv => TransactionsNest
  BY DEF SqlInv, TransactionsNest
<1> QED
  BY <1>1, <1>2, <1>3, PTL DEF SqlSpec

-----------------------------------------------------------------------------
(* linked_ptr.  The owners of an object form one circle: whoever follows   *)
(* next from any of them meets them all.  Stated without walking: a set of *)
(* owners of one object that next does not leave is the set of them all.   *)
OneCircle(value, next) ==
  \A T \in SUBSET Ptr : \A r \in T :
    /\ value[r] # NULL
    /\ \A q \in T : next[q] \in T /\ value[q] = value[r]
    => \A q \in Ptr : value[q] = value[r] => q \in T

Circles(value, next) ==
  /\ value \in [Ptr -> Object \cup {NULL}] /\ next \in [Ptr -> Ptr]
  /\ \A p \in Ptr : value[p] = NULL => next[p] = p
  /\ \A p \in Ptr : value[next[p]] = value[p]
  /\ \A p, q \in Ptr : next[p] = next[q] => p = q
  /\ OneCircle(value, next)

(* A pointer that is its own successor is the only owner. *)
LEMMA AloneIsOnly ==
  ASSUME NEW value, NEW next, Circles(value, next), NEW p \in Ptr, next[p] = p, value[p] # NULL
  PROVE  \A q \in Ptr \ {p} : value[q] # value[p]
<1>1. {p} \in SUBSET Ptr /\ p \in {p} /\ \A q \in {p} : next[q] \in {p} /\ value[q] = value[p]
  OBVIOUS
<1>2. \A q \in Ptr : value[q] = value[p] => q \in {p}
  BY <1>1 DEF Circles, OneCircle
<1> QED
  BY <1>2

(* The circle after p departed. *)
Without(next, p) ==
  [q \in Ptr |-> IF q = p THEN p ELSE IF next[q] = p THEN next[p] ELSE next[q]]

LEMMA CirclesDepart ==
  ASSUME NEW value, NEW next, Circles(value, next), NEW p \in Ptr
  PROVE  Circles([value EXCEPT ![p] = NULL], Without(next, p))
<1> DEFINE v == [value EXCEPT ![p] = NULL]
<1> DEFINE n == Without(next, p)
<1>1. /\ value \in [Ptr -> Object \cup {NULL}] /\ next \in [Ptr -> Ptr]
      /\ \A q \in Ptr : value[q] = NULL => next[q] = q
      /\ \A q \in Ptr : value[next[q]] = value[q]
      /\ \A q, r \in Ptr : next[q] = next[r] => q = r
  BY DEF Circles
<1>2. v \in [Ptr -> Object \cup {NULL}] /\ n \in [Ptr -> Ptr]
  BY <1>1 DEF Without
<1>3. v[p] = NULL /\ n[p] = p /\ \A q \in Ptr \ {p} : v[q] = value[q]
  BY <1>1 DEF Without
<1>4. \A q \in Ptr \ {p} : n[q] = IF next[q] = p THEN next[p] ELSE next[q]
  BY DEF Without
<1> HIDE DEF v, n
<1>5. \A q \in Ptr \ {p} : n[q] # p
  BY <1>1, <1>4
<1>6. \A q \in Ptr : v[q] = NULL => n[q] = q
  BY <1>1, <1>3, <1>4
<1>7. \A q \in Ptr : v[n[q]] = v[q]
  <2> TAKE q \in Ptr
  <2>1. CASE q = p
    BY <2>1, <1>3
  <2>2. CASE q # p
    <3>1. n[q] \in Ptr \ {p} /\ q \in Ptr \ {p}
      BY <2>2, <1>2, <1>5
    <3>2. value[n[q]] = value[q]
      BY <3>1, <1>1, <1>4
    <3> QED
      BY <3>1, <3>2, <1>3
  <2> QED
    BY <2>1, <2>2
<1>8. \A q, r \in Ptr : n[q] = n[r] => q = r
  <2> TAKE q, r \in Ptr
  <2> HAVE n[q] = n[r]
  <2>1. CASE q = p \/ r = p
    BY <2>1, <1>3, <1>5
  <2>2. CASE q # p /\ r # p
    BY <2>2, <1>1, <1>4
  <2> QED
    BY <2>1, <2>2
<1>9. OneCircle(v, n)
  <2>1. SUFFICES ASSUME NEW T \in SUBSET Ptr, NEW r \in T, v[r] # NULL,
                        \A q \in T : n[q] \in T /\ v[q] = v[r],
                        NEW q \in Ptr, v[q] = v[r]
                 PROVE  q \in T
    BY DEF OneCircle
  <2>2. p \notin T /\ q # p /\ r # p
    BY <2>1, <1>3
  <2>3. value[q] = value[r] /\ value[r] # NULL /\ \A t \in T : value[t] = value[r]
    BY <2>1, <2>2, <1>3
  <2>4. CASE \E t \in T : next[t] = p
    <3>1. PICK t \in T : next[t] = p
      BY <2>4
    <3>2. next[p] \in T
      BY <2>1, <2>2, <3>1, <1>4
    <3>3. value[p] = value[r]
      BY <2>3, <3>1, <1>1
    <3>4. \A u \in T : next[u] \in T \cup {p}
      BY <2>1, <2>2, <1>4
    <3>5. \A u \in T \cup {p} : next[u] \in T \cup {p} /\ value[u] = value[r]
      BY <2>3, <3>2, <3>3, <3>4
    <3>6. q \in T \cup {p}
      BY <2>3, <3>5 DEF Circles, OneCircle
    <3> QED
      BY <2>2, <3>6
  <2>5. CASE \A t \in T : next[t] # p
    <3>1. \A u \in T : next[u] \in T /\ value[u] = value[r]
      BY <2>1, <2>2, <2>3, <2>5, <1>4
    <3> QED
      BY <2>3, <3>1 DEF Circles, OneCircle
  <2> QED
    BY <2>4, <2>5
<1> QED
  BY <1>2, <1>6, <1>7, <1>8, <1>9 DEF Circles, v, n

(* A pointer alone takes an object nobody owns. *)
LEMMA CirclesTake ==
  ASSUME NEW value, NEW next, Circles(value, next), NEW p \in Ptr, value[p] = NULL,
         NEW o \in Object, \A q \in Ptr : value[q] # o
  PROVE  Circles([value EXCEPT ![p] = o], next)
<1> DEFINE v == [value EXCEPT ![p] = o]
<1>1. /\ value \in [Ptr -> Object \cup {NULL}] /\ next \in [Ptr -> Ptr] /\ next[p] = p
      /\ \A q \in Ptr : value[q] = NULL => next[q] = q
      /\ \A q \in Ptr : value[next[q]] = value[q]
      /\ \A q, r \in Ptr : next[q] = next[r] => q = r
  BY DEF Circles
<1>2. v \in [Ptr -> Object \cup {NULL}] /\ v[p] = o /\ \A q \in Ptr \ {p} : v[q] = value[q]
  BY <1>1
<1>3. o # NULL
  BY PointerAssumption DEF NULL
<1> HIDE DEF v
<1>4. \A q \in Ptr : v[q] = NULL => next[q] = q
  BY <1>1, <1>2
<1>5. \A q \in Ptr : v[next[q]] = v[q]
  BY <1>1, <1>2
<1>6. OneCircle(v, next)
  <2>1. SUFFICES ASSUME NEW T \in SUBSET Ptr, NEW r \in T, v[r] # NULL,
                        \A q \in T : next[q] \in T /\ v[q] = v[r],
                        NEW q \in Ptr, v[q] = v[r]
                 PROVE  q \in T
    BY DEF OneCircle
  <2>2. CASE r = p
    BY <2>1, <2>2, <1>2
  <2>3. CASE r # p
    <3>1. v[r] = value[r] /\ value[r] # o /\ r \in Ptr
      BY <2>3, <1>2
    <3>2. p \notin T /\ q # p
      BY <2>1, <3>1, <1>2
    <3>3. value[r] # NULL /\ value[q] = value[r] /\ \A u \in T : next[u] \in T /\ value[u] = value[r]
      BY <2>1, <3>1, <3>2, <1>2
    <3> QED
      BY <3>3 DEF Circles, OneCircle
  <2> QED
    BY <2>2, <2>3
<1> QED
  BY <1>1, <1>2, <1>4, <1>5, <1>6 DEF Circles, v

(* A pointer alone joins the circle of q. *)
LEMMA CirclesJoin ==
  ASSUME NEW value, NEW next, Circles(value, next), NEW p \in Ptr, value[p] = NULL,
         NEW q \in Ptr, value[q] # NULL
  PROVE  Circles([value EXCEPT ![p] = value[q]], Joined(next, p, q))
<1> DEFINE v == [value EXCEPT ![p] = value[q]]
<1> DEFINE n == Joined(next, p, q)
<1>1. /\ value \in [Ptr -> Object \cup {NULL}] /\ next \in [Ptr -> Ptr] /\ next[p] = p /\ p # q
      /\ \A r \in Ptr : value[r] = NULL => next[r] = r
      /\ \A r \in Ptr : value[next[r]] = value[r]
      /\ \A r, t \in Ptr : next[r] = next[t] => r = t
  BY DEF Circles
<1>2. /\ v \in [Ptr -> Object \cup {NULL}] /\ v[p] = value[q] /\ v[q] = value[q]
      /\ \A r \in Ptr \ {p} : v[r] = value[r]
  BY <1>1
<1>3. n \in [Ptr -> Ptr] /\ n[p] = q /\ \A r \in Ptr \ {p} : n[r] = IF next[r] = q THEN p ELSE next[r]
  BY <1>1 DEF Joined
<1> HIDE DEF v, n
<1>4. \A r \in Ptr \ {p} : next[r] # p
  BY <1>1
<1>5. \A r \in Ptr : v[r] = NULL => n[r] = r
  <2> TAKE r \in Ptr
  <2> HAVE v[r] = NULL
  <2>1. r # p /\ r # q /\ value[r] = NULL
    BY <1>2
  <2> QED
    BY <2>1, <1>1, <1>3
<1>6. \A r \in Ptr : v[n[r]] = v[r]
  <2> TAKE r \in Ptr
  <2>1. CASE r = p
    BY <2>1, <1>2, <1>3
  <2>2. CASE r # p /\ next[r] = q
    BY <2>2, <1>1, <1>2, <1>3
  <2>3. CASE r # p /\ next[r] # q
    BY <2>3, <1>1, <1>2, <1>3, <1>4
  <2> QED
    BY <2>1, <2>2, <2>3
<1>7. \A r, t \in Ptr : n[r] = n[t] => r = t
  <2> TAKE r, t \in Ptr
  <2> HAVE n[r] = n[t]
  <2>1. CASE r = p \/ t = p
    BY <2>1, <1>1, <1>3
  <2>2. CASE r # p /\ t # p
    BY <2>2, <1>1, <1>3, <1>4
  <2> QED
    BY <2>1, <2>2
<1>8. OneCircle(v, n)
  <2>1. SUFFICES ASSUME NEW T \in SUBSET Ptr, NEW r \in T, v[r] # NULL,
                        \A t \in T : n[t] \in T /\ v[t] = v[r],
                        NEW x \in Ptr, v[x] = v[r]
                 PROVE  x \in T
    BY DEF OneCircle
  <2>2. CASE p \in T
    <3> DEFINE U == T \ {p}
    <3>1. q \in U /\ v[r] = value[q]
      BY <2>1, <2>2, <1>1, <1>2, <1>3
    <3>2. \A t \in U : next[t] \in U /\ value[t] = value[q]
      <4> TAKE t \in U
      <4>1. t \in T /\ t # p /\ n[t] \in T /\ next[t] # p
        BY <2>1, <1>4
      <4>2. next[t] \in T
        BY <4>1, <3>1, <1>3
      <4> QED
        BY <2>1, <3>1, <4>1, <4>2, <1>2
    <3>3. \A y \in Ptr : value[y] = value[q] => y \in U
      BY <3>1, <3>2 DEF Circles, OneCircle
    <3> QED
      BY <2>1, <2>2, <3>1, <3>3, <1>2
  <2>3. CASE p \notin T
    <3>1. \A t \in T : next[t] # q /\ next[t] \in T /\ value[t] = value[r]
      BY <2>1, <2>3, <1>2, <1>3
    <3>2. value[r] # NULL
      BY <2>1, <2>3, <1>2
    <3>3. \A y \in Ptr : value[y] = value[r] => y \in T
      BY <3>1, <3>2 DEF Circles, OneCircle
    <3>4. q \notin T
      <4>1. SUFFICES ASSUME q \in T PROVE FALSE
        OBVIOUS
      <4> DEFINE U == T \ {q}
      <4>2. next[q] \in U /\ \A t \in U : next[t] \in U /\ value[t] = value[next[q]]
        BY <3>1, <4>1
      <4>3. value[next[q]] = value[q] /\ value[next[q]] # NULL
        BY <1>1
      <4>4. \A y \in Ptr : value[y] = value[next[q]] => y \in U
        BY <4>2, <4>3 DEF Circles, OneCircle
      <4> QED
        BY <4>3, <4>4
    <3>5. value[r] # value[q]
      BY <3>3, <3>4
    <3>6. x # p
      BY <2>1, <2>3, <3>5, <1>2
    <3> QED
      BY <2>1, <2>3, <3>3, <3>6, <1>2
  <2> QED
    BY <2>2, <2>3
<1> QED
  BY <1>2, <1>3, <1>5, <1>6, <1>7, <1>8 DEF Circles, v, n


(* What holds of the linked pointers: the owners of an object form its     *)
(* circle, owned objects live and living objects are owned.                *)
Linked(value, next, state) ==
  /\ Circles(value, next)
  /\ state \in [Object -> {"unused", "live", "deleted"}]
  /\ \A p \in Ptr : value[p] # NULL => state[value[p]] = "live"
  /\ \A o \in Object : state[o] = "live" => \E p \in Ptr : value[p] = o

LinkedInv == Linked(lp_value, lp_next, lp_state)

LEMMA DepartedIsWithout ==
  ASSUME LinkedInv, NEW p \in Ptr
  PROVE  [Departed(p) EXCEPT ![p] = p] = Without(lp_next, p)
<1>1. /\ lp_next \in [Ptr -> Ptr]
      /\ \A q, r \in Ptr : lp_next[q] = lp_next[r] => q = r
  BY DEF LinkedInv, Linked, Circles
<1>2. CASE lp_next[p] = p
  <2>1. \A q \in Ptr \ {p} : lp_next[q] # p
    BY <1>1, <1>2
  <2> QED
    BY <1>1, <1>2, <2>1 DEF Departed, Without
<1>3. CASE lp_next[p] # p
  BY <1>1, <1>3 DEF Departed, Without
<1> QED
  BY <1>2, <1>3

(* Departing from its circle, a pointer leaves the invariant behind it     *)
(* whether or not it was the last owner; no object becomes unused.         *)
LEMMA LinkedDepart ==
  ASSUME LinkedInv, NEW p \in Ptr
  PROVE  /\ Linked([lp_value EXCEPT ![p] = NULL], Without(lp_next, p), AfterDepart(p))
         /\ \A o \in Object : lp_state[o] = "unused" => AfterDepart(p)[o] = "unused"
<1> DEFINE v == [lp_value EXCEPT ![p] = NULL]
<1> DEFINE s == AfterDepart(p)
<1>1. /\ lp_value \in [Ptr -> Object \cup {NULL}] /\ lp_next \in [Ptr -> Ptr]
      /\ lp_state \in [Object -> {"unused", "live", "deleted"}]
      /\ \A q \in Ptr : lp_value[q] # NULL => lp_state[lp_value[q]] = "live"
      /\ \A o \in Object : lp_state[o] = "live" => \E q \in Ptr : lp_value[q] = o
      /\ \A q \in Ptr : lp_value[lp_next[q]] = lp_value[q]
  BY DEF LinkedInv, Linked, Circles
<1>2. Circles(v, Without(lp_next, p))
  BY CirclesDepart DEF LinkedInv, Linked
<1>3. v[p] = NULL /\ \A q \in Ptr \ {p} : v[q] = lp_value[q]
  BY <1>1
<1>4. NULL \notin Object
  BY PointerAssumption DEF NULL
<1> HIDE DEF v
<1>5. CASE lp_next[p] = p /\ lp_value[p] # NULL
  <2>1. lp_value[p] \in Object /\ s = [lp_state EXCEPT ![lp_value[p]] = "deleted"]
    BY <1>1, <1>5 DEF AfterDepart
  <2>2. \A q \in Ptr \ {p} : lp_value[q] # lp_value[p]
    BY <1>5, AloneIsOnly DEF LinkedInv, Linked
  <2> HIDE DEF s
  <2>3. s \in [Object -> {"unused", "live", "deleted"}]
    BY <1>1, <2>1
  <2>4. s[lp_value[p]] = "deleted" /\ \A o \in Object : o # lp_value[p] => s[o] = lp_state[o]
    BY <1>1, <2>1
  <2>5. \A q \in Ptr : v[q] # NULL => s[v[q]] = "live"
    BY <1>1, <1>3, <2>2, <2>4
  <2>6. \A o \in Object : s[o] = "live" => \E q \in Ptr : v[q] = o
    <3> TAKE o \in Object
    <3> HAVE s[o] = "live"
    <3>1. o # lp_value[p] /\ lp_state[o] = "live"
      BY <2>4
    <3>2. PICK q \in Ptr : lp_value[q] = o
      BY <3>1, <1>1
    <3> QED
      BY <3>1, <3>2, <1>3
  <2>7. \A o \in Object : lp_state[o] = "unused" => s[o] = "unused"
    BY <1>1, <1>5, <2>4
  <2> QED
    BY <1>2, <2>3, <2>5, <2>6, <2>7 DEF Linked, v, s
<1>6. CASE ~(lp_next[p] = p /\ lp_value[p] # NULL)
  <2>1. s = lp_state
    BY <1>6 DEF AfterDepart
  <2>2. \A o \in Object : s[o] = "live" => \E q \in Ptr : v[q] = o
    <3> TAKE o \in Object
    <3> HAVE s[o] = "live"
    <3>1. PICK q \in Ptr : lp_value[q] = o
      BY <2>1, <1>1
    <3>2. CASE q # p
      BY <3>1, <3>2, <1>3
    <3>3. CASE q = p
      <4>1. lp_next[p] \in Ptr \ {p}
        BY <3>1, <3>3, <1>1, <1>4, <1>6
      <4>2. v[lp_next[p]] = o
        BY <4>1, <3>1, <3>3, <1>1, <1>3
      <4> QED
        BY <4>1, <4>2
    <3> QED
      BY <3>2, <3>3
  <2>3. \A q \in Ptr : v[q] # NULL => s[v[q]] = "live"
    BY <2>1, <1>1, <1>3
  <2> QED
    BY <1>1, <1>2, <2>1, <2>2, <2>3 DEF Linked, v, s
<1> QED
  BY <1>5, <1>6

LEMMA ResetKeepsCircles ==
  ASSUME LinkedInv, NEW p \in Ptr, NEW o \in Object \cup {NULL}, ResetLinked(p, o)
  PROVE  LinkedInv'
<1> DEFINE v == [lp_value EXCEPT ![p] = NULL]
<1> DEFINE n == Without(lp_next, p)
<1> DEFINE s == AfterDepart(p)
<1>1. Linked(v, n, s) /\ \A x \in Object : lp_state[x] = "unused" => s[x] = "unused"
  BY LinkedDepart
<1>2. lp_next' = n
  BY DepartedIsWithout DEF ResetLinked
<1>3. lp_value \in [Ptr -> Object \cup {NULL}]
  BY DEF LinkedInv, Linked, Circles
<1>4. v[p] = NULL /\ lp_value' = [v EXCEPT ![p] = o]
  BY <1>3 DEF ResetLinked
<1>5. lp_state' = [x \in Object |-> IF x = o THEN "live" ELSE s[x]]
  BY DEF ResetLinked
<1>6. NULL \notin Object
  BY PointerAssumption DEF NULL
<1>7. o # NULL => lp_state[o] = "unused"
  BY DEF ResetLinked
<1> HIDE DEF v, n, s
<1>8. /\ v \in [Ptr -> Object \cup {NULL}] /\ s \in [Object -> {"unused", "live", "deleted"}]
      /\ Circles(v, n)
      /\ \A q \in Ptr : v[q] # NULL => s[v[q]] = "live"
      /\ \A x \in Object : s[x] = "live" => \E q \in Ptr : v[q] = x
  BY <1>1 DEF Linked, Circles
<1>9. CASE o = NULL
  <2>1. lp_value' = v /\ lp_state' = s
    BY <1>4, <1>5, <1>6, <1>8, <1>9
  <2> QED
    BY <1>1, <1>2, <2>1 DEF LinkedInv
<1>10. CASE o # NULL
  <2>1. o \in Object /\ s[o] = "unused"
    BY <1>1, <1>7, <1>10
  <2>2. \A q \in Ptr : v[q] # o
    BY <2>1, <1>8, <1>10
  <2>3. Circles(lp_value', lp_next')
    BY <1>2, <1>4, <1>8, <2>1, <2>2, CirclesTake
  <2>4. lp_value'[p] = o /\ \A q \in Ptr \ {p} : lp_value'[q] = v[q]
    BY <1>4, <1>8
  <2>5. lp_state' \in [Object -> {"unused", "live", "deleted"}] /\ lp_state'[o] = "live"
        /\ \A x \in Object \ {o} : lp_state'[x] = s[x]
    BY <1>5, <1>8, <2>1
  <2>6. \A q \in Ptr : lp_value'[q] # NULL => lp_state'[lp_value'[q]] = "live"
    <3> TAKE q \in Ptr
    <3>1. CASE q = p
      BY <3>1, <2>4, <2>5
    <3>2. CASE q # p
      BY <3>2, <1>8, <2>2, <2>4, <2>5
    <3> QED
      BY <3>1, <3>2
  <2>7. \A x \in Object : lp_state'[x] = "live" => \E q \in Ptr : lp_value'[q] = x
    <3> TAKE x \in Object
    <3> HAVE lp_state'[x] = "live"
    <3>1. CASE x = o
      BY <3>1, <2>4
    <3>2. CASE x # o
      <4>1. PICK q \in Ptr : v[q] = x
        BY <3>2, <1>8, <2>5
      <4>2. q # p
        BY <4>1, <1>4, <1>6
      <4> QED
        BY <4>1, <4>2, <2>4
    <3> QED
      BY <3>1, <3>2
  <2> QED
    BY <2>3, <2>5, <2>6, <2>7 DEF LinkedInv, Linked
<1> QED
  BY <1>9, <1>10

LEMMA AssignKeepsCircles ==
  ASSUME LinkedInv, NEW p \in Ptr, NEW q \in Ptr, AssignLinked(p, q)
  PROVE  LinkedInv'
<1> DEFINE v == [lp_value EXCEPT ![p] = NULL]
<1> DEFINE n == Without(lp_next, p)
<1> DEFINE s == AfterDepart(p)
<1>1. Linked(v, n, s)
  BY LinkedDepart
<1>2. p # q /\ lp_state' = s
      /\ lp_next' = IF lp_value[q] = NULL THEN n ELSE Joined(n, p, q)
  BY DepartedIsWithout DEF AssignLinked
<1>3. lp_value \in [Ptr -> Object \cup {NULL}]
  BY DEF LinkedInv, Linked, Circles
<1>4. v[p] = NULL /\ v[q] = lp_value[q] /\ lp_value' = [v EXCEPT ![p] = v[q]]
  BY <1>2, <1>3 DEF AssignLinked
<1> HIDE DEF v, n, s
<1>5. /\ v \in [Ptr -> Object \cup {NULL}] /\ s \in [Object -> {"unused", "live", "deleted"}]
      /\ Circles(v, n)
      /\ \A r \in Ptr : v[r] # NULL => s[v[r]] = "live"
      /\ \A x \in Object : s[x] = "live" => \E r \in Ptr : v[r] = x
  BY <1>1 DEF Linked, Circles
<1>6. CASE lp_value[q] = NULL
  <2>1. lp_value' = v
    BY <1>4, <1>5, <1>6
  <2> QED
    BY <1>1, <1>2, <1>6, <2>1 DEF LinkedInv
<1>7. CASE lp_value[q] # NULL
  <2>1. Circles(lp_value', lp_next')
    BY <1>2, <1>4, <1>5, <1>7, CirclesJoin
  <2>2. lp_value'[p] = v[q] /\ \A r \in Ptr \ {p} : lp_value'[r] = v[r]
    BY <1>4, <1>5
  <2>3. \A r \in Ptr : lp_value'[r] # NULL => s[lp_value'[r]] = "live"
    BY <1>5, <2>2
  <2>4. \A x \in Object : s[x] = "live" => \E r \in Ptr : lp_value'[r] = x
    <3> TAKE x \in Object
    <3> HAVE s[x] = "live"
    <3>1. PICK r \in Ptr : v[r] = x
      BY <1>5
    <3>2. r # p
      BY <3>1, <1>4, PointerAssumption DEF NULL
    <3> QED
      BY <3>1, <3>2, <2>2
  <2> QED
    BY <1>2, <1>5, <2>1, <2>3, <2>4 DEF LinkedInv, Linked
<1> QED
  BY <1>6, <1>7

LEMMA ReleaseKeepsCircles ==
  ASSUME LinkedInv, NEW p \in Ptr, ReleaseLinked(p)
  PROVE  LinkedInv'
<1>1. Linked([lp_value EXCEPT ![p] = NULL], Without(lp_next, p), AfterDepart(p))
  BY LinkedDepart
<1>2. /\ lp_next \in [Ptr -> Ptr]
      /\ \A q, r \in Ptr : lp_next[q] = lp_next[r] => q = r
  BY DEF LinkedInv, Linked, Circles
<1>3. lp_next[p] = p /\ lp_value[p] # NULL /\ lp_next' = lp_next
  BY DEF ReleaseLinked
<1>4. lp_next' = Without(lp_next, p)
  BY <1>2, <1>3 DEF Without
<1>5. lp_value' = [lp_value EXCEPT ![p] = NULL] /\ lp_state' = AfterDepart(p)
  BY <1>3 DEF ReleaseLinked, AfterDepart
<1> QED
  BY <1>1, <1>4, <1>5 DEF LinkedInv

LEMMA LinkedInvOwners == LinkedInv => CirclesAreOwners /\ NoLeak
<1> HAVE LinkedInv
<1>1. /\ Circles(lp_value, lp_next)
      /\ \A p \in Ptr : lp_value[p] # NULL => lp_state[lp_value[p]] = "live"
      /\ \A p \in Ptr : lp_value[p] = NULL => lp_next[p] = p
      /\ \A p \in Ptr : lp_value[lp_next[p]] = lp_value[p]
      /\ \A p, q \in Ptr : lp_next[p] = lp_next[q] => p = q
  BY DEF LinkedInv, Linked, Circles
<1>2. ASSUME NEW p \in Ptr, lp_next[p] = p, NEW q \in Ptr \ {p}, lp_value[q] = lp_value[p]
      PROVE  lp_value[p] = NULL
  BY <1>1, <1>2, AloneIsOnly
<1>3. CirclesAreOwners
  BY <1>1, <1>2 DEF CirclesAreOwners
<1>4. NoLeak
  BY DEF LinkedInv, Linked, NoLeak
<1> QED
  BY <1>3, <1>4


-----------------------------------------------------------------------------
(* scoped_refptr.  How many variables stand in f for the object o. *)
HowMany(f, o) == Cardinality({p \in Ptr : f[p] = o})

LEMMA HowManyType ==
  ASSUME NEW f, NEW o
  PROVE  /\ HowMany(f, o) \in Nat
         /\ HowMany(f, o) = 0 <=> \A p \in Ptr : f[p] # o
<1> DEFINE S == {p \in Ptr : f[p] = o}
<1>1. IsFiniteSet(S)
  BY PointerAssumption, FS_Subset
<1>2. Cardinality(S) \in Nat /\ (Cardinality(S) = 0 <=> S = {})
  BY <1>1, FS_CardinalityType, FS_EmptySet
<1> QED
  BY <1>2 DEF HowMany

(* g is f with p moved to v. *)
Moved(f, g, p, v) ==
  /\ g \in [Ptr -> Object \cup {NULL}]
  /\ g[p] = v /\ \A q \in Ptr \ {p} : g[q] = f[q]

LEMMA HowManyAfter ==
  ASSUME NEW f \in [Ptr -> Object \cup {NULL}], NEW p \in Ptr,
         NEW v \in Object \cup {NULL}, NEW o \in Object,
         NEW g, Moved(f, g, p, v)
  PROVE  HowMany(g, o) =
           HowMany(f, o) - (IF f[p] = o THEN 1 ELSE 0) + (IF v = o THEN 1 ELSE 0)
<1> DEFINE S == {q \in Ptr : f[q] = o}
<1> DEFINE T == {q \in Ptr : g[q] = o}
<1> DEFINE U == S \ {p}
<1>1. IsFiniteSet(S) /\ Cardinality(S) \in Nat
  BY PointerAssumption, FS_Subset, FS_CardinalityType
<1>2. IsFiniteSet(U) /\ Cardinality(U) = IF p \in S THEN Cardinality(S) - 1 ELSE Cardinality(S)
  BY <1>1, FS_RemoveElement
<1>3. Cardinality(U) \in Nat
  BY <1>2, FS_CardinalityType
<1>4. (p \in S <=> f[p] = o) /\ p \notin U
  OBVIOUS
<1>5. CASE v = o
  <2>1. T = U \cup {p}
    BY <1>5 DEF Moved
  <2>2. Cardinality(T) = Cardinality(U) + 1
    BY <1>2, <1>4, <2>1, FS_AddElement
  <2> HIDE DEF S, T, U
  <2>3. Cardinality(T) = Cardinality(S) - (IF f[p] = o THEN 1 ELSE 0) + (IF v = o THEN 1 ELSE 0)
    BY <1>1, <1>2, <1>3, <1>4, <1>5, <2>2
  <2> QED
    BY <2>3 DEF HowMany, S, T
<1>6. CASE v # o
  <2>1. T = U
    BY <1>6 DEF Moved
  <2> HIDE DEF S, T, U
  <2>2. Cardinality(T) = Cardinality(S) - (IF f[p] = o THEN 1 ELSE 0) + (IF v = o THEN 1 ELSE 0)
    BY <1>1, <1>2, <1>3, <1>4, <1>6, <2>1
  <2> QED
    BY <2>2 DEF HowMany, S, T
<1> QED
  BY <1>5, <1>6

(* The counts are right, a reset is in one phase at a time, and nobody     *)
(* deletes an object that was never referenced.                            *)
RefType ==
  /\ rp_ptr \in [Ptr -> Object \cup {NULL}]
  /\ rp_old \in [Ptr -> Object \cup {NULL}]
  /\ rp_dying \in [Ptr -> Object \cup {NULL}]
  /\ rp_count \in [Object -> Nat]
  /\ rp_state \in [Object -> {"unused", "live", "deleted"}]

Counted(o) ==
  /\ rp_count[o] = HowMany(rp_ptr, o) + HowMany(rp_old, o)
  /\ rp_count[o] > 0 => rp_state[o] = "live" /\ HowMany(rp_dying, o) = 0
  /\ rp_state[o] = "live" /\ rp_count[o] = 0 => HowMany(rp_dying, o) = 1
  /\ rp_state[o] # "live" => HowMany(rp_dying, o) = 0

RefInv ==
  /\ RefType
  /\ \A p \in Ptr : rp_old[p] # NULL => rp_dying[p] = NULL
  /\ \A o \in Object : Counted(o)

LEMMA RefInvCounts == RefInv => CountIsOwners
<1> SUFFICES ASSUME RefInv, NEW o \in Object
             PROVE  /\ rp_count[o] = HowMany(rp_ptr, o) + HowMany(rp_old, o)
                    /\ rp_count[o] > 0 => rp_state[o] = "live" /\ \A p \in Ptr : rp_dying[p] # o
                    /\ rp_state[o] = "live" /\ rp_count[o] = 0 => HowMany(rp_dying, o) = 1
                    /\ rp_state[o] = "deleted" => \A p \in Ptr : rp_dying[p] # o
  BY DEF CountIsOwners, HowMany
<1>1. Counted(o)
  BY DEF RefInv
<1>2. HowMany(rp_dying, o) = 0 <=> \A p \in Ptr : rp_dying[p] # o
  BY HowManyType
<1> QED
  BY <1>1, <1>2 DEF Counted

(* reset takes its object, new or held by another variable. *)
LEMMA ResetCounts ==
  ASSUME RefInv, NEW p \in Ptr, NEW o \in Object \cup {NULL}, MayReset(p, o), ResetRef(p, o)
  PROVE  RefInv'
<1>1. RefType /\ NULL \notin Object
  BY PointerAssumption DEF RefInv, NULL
<1>2. /\ rp_old[p] = NULL /\ rp_dying[p] = NULL /\ rp_dying' = rp_dying
      /\ rp_ptr' = [rp_ptr EXCEPT ![p] = o] /\ rp_old' = [rp_old EXCEPT ![p] = rp_ptr[p]]
      /\ rp_count' = IF o = NULL THEN rp_count ELSE [rp_count EXCEPT ![o] = @ + 1]
      /\ rp_state' = IF o = NULL THEN rp_state ELSE [rp_state EXCEPT ![o] = "live"]
  BY DEF ResetRef, Ready
<1>3. RefType'
  BY <1>1, <1>2 DEF RefType
<1>4. \A q \in Ptr : rp_old'[q] # NULL => rp_dying'[q] = NULL
  BY <1>1, <1>2 DEF RefInv, RefType
<1>5. ASSUME NEW x \in Object
      PROVE  Counted(x)'
  <2>1. Counted(x) /\ rp_count[x] \in Nat
    BY <1>1 DEF RefInv, RefType
  <2>2. /\ HowMany(rp_ptr', x) = HowMany(rp_ptr, x) - (IF rp_ptr[p] = x THEN 1 ELSE 0) + (IF o = x THEN 1 ELSE 0)
        /\ HowMany(rp_old', x) = HowMany(rp_old, x) - (IF rp_old[p] = x THEN 1 ELSE 0) + (IF rp_ptr[p] = x THEN 1 ELSE 0)
    <3>1. rp_ptr \in [Ptr -> Object \cup {NULL}] /\ rp_old \in [Ptr -> Object \cup {NULL}] /\ rp_ptr[p] \in Object \cup {NULL}
      BY <1>1 DEF RefType
    <3>2. Moved(rp_ptr, rp_ptr', p, o) /\ Moved(rp_old, rp_old', p, rp_ptr[p])
      BY <1>2, <3>1 DEF Moved
    <3>3. HowMany(rp_ptr', x) = HowMany(rp_ptr, x) - (IF rp_ptr[p] = x THEN 1 ELSE 0) + (IF o = x THEN 1 ELSE 0)
      BY <3>1, <3>2, HowManyAfter
    <3>4. HowMany(rp_old', x) = HowMany(rp_old, x) - (IF rp_old[p] = x THEN 1 ELSE 0) + (IF rp_ptr[p] = x THEN 1 ELSE 0)
      BY <3>1, <3>2, HowManyAfter
    <3> QED
      BY <3>3, <3>4
  <2>3. /\ HowMany(rp_ptr, x) \in Nat /\ HowMany(rp_old, x) \in Nat /\ HowMany(rp_dying, x) \in Nat
    BY HowManyType
  <2>4. rp_old[p] # x
    BY <1>1, <1>2
  <2>5. HowMany(rp_ptr', x) + HowMany(rp_old', x) = rp_count[x] + (IF o = x THEN 1 ELSE 0)
    BY <2>1, <2>2, <2>3, <2>4 DEF Counted
  <2>6. CASE x = o
    <3>1. rp_count'[x] = rp_count[x] + 1 /\ rp_state'[x] = "live"
      BY <1>1, <1>2, <2>6 DEF RefType
    <3>2. HowMany(rp_dying, x) = 0
      <4>1. CASE rp_state[o] = "unused"
        BY <4>1, <2>1, <2>6 DEF Counted
      <4>2. CASE \E q \in Ptr : rp_ptr[q] = o
        <5>1. HowMany(rp_ptr, x) # 0
          BY <4>2, <2>6, HowManyType
        <5> QED
          BY <5>1, <2>1, <2>3 DEF Counted
      <4> QED
        BY <4>1, <4>2, <1>1, <2>6 DEF MayReset
    <3> QED
      BY <1>2, <2>1, <2>5, <2>6, <3>1, <3>2 DEF Counted
  <2>7. CASE x # o
    <3>1. rp_count'[x] = rp_count[x] /\ rp_state'[x] = rp_state[x]
      BY <1>1, <1>2, <2>7 DEF RefType
    <3> QED
      BY <1>2, <2>1, <2>5, <2>7, <3>1 DEF Counted
  <2> QED
    BY <2>6, <2>7
<1> QED
  BY <1>3, <1>4, <1>5 DEF RefInv

(* Unref: the thread that takes the count to zero, and only it, deletes. *)
LEMMA UnrefCounts ==
  ASSUME RefInv, NEW p \in Ptr, UnrefOld(p)
  PROVE  RefInv'
<1> DEFINE o == rp_old[p]
<1>1. RefType /\ NULL \notin Object /\ o \in Object /\ rp_dying[p] = NULL
  BY PointerAssumption DEF RefInv, RefType, NULL, UnrefOld
<1>2. /\ rp_count' = [rp_count EXCEPT ![o] = @ - 1]
      /\ rp_dying' = [rp_dying EXCEPT ![p] = IF rp_count[o] = 1 THEN o ELSE NULL]
      /\ rp_old' = [rp_old EXCEPT ![p] = NULL]
      /\ rp_ptr' = rp_ptr /\ rp_state' = rp_state
  BY DEF UnrefOld
<1>3. Counted(o) /\ rp_count[o] \in Nat
  BY <1>1 DEF RefInv, RefType
<1>4. rp_count[o] > 0 /\ rp_state[o] = "live" /\ HowMany(rp_dying, o) = 0
  <2>1. HowMany(rp_old, o) # 0 /\ HowMany(rp_old, o) \in Nat /\ HowMany(rp_ptr, o) \in Nat
    BY HowManyType
  <2> QED
    BY <2>1, <1>3 DEF Counted
<1>5. RefType'
  <2>1. rp_count[o] - 1 \in Nat
    BY <1>3, <1>4
  <2> QED
    BY <1>1, <1>2, <2>1 DEF RefType
<1>6. \A q \in Ptr : rp_old'[q] # NULL => rp_dying'[q] = NULL
  BY <1>1, <1>2 DEF RefInv, RefType
<1>7. ASSUME NEW x \in Object
      PROVE  Counted(x)'
  <2> DEFINE d == IF rp_count[o] = 1 THEN o ELSE NULL
  <2>1. Counted(x) /\ rp_count[x] \in Nat
    BY <1>1 DEF RefInv, RefType
  <2>2. /\ HowMany(rp_old', x) = HowMany(rp_old, x) - (IF o = x THEN 1 ELSE 0) + (IF NULL = x THEN 1 ELSE 0)
        /\ HowMany(rp_dying', x) = HowMany(rp_dying, x) - (IF rp_dying[p] = x THEN 1 ELSE 0) + (IF d = x THEN 1 ELSE 0)
    <3>1. rp_old \in [Ptr -> Object \cup {NULL}] /\ NULL \in Object \cup {NULL}
      BY <1>1 DEF RefType
    <3>2. rp_dying \in [Ptr -> Object \cup {NULL}] /\ d \in Object \cup {NULL}
      BY <1>1 DEF RefType
    <3>3. Moved(rp_old, rp_old', p, NULL)
      BY <1>2, <3>1 DEF Moved
    <3>4. Moved(rp_dying, rp_dying', p, d)
      BY <1>2, <3>2 DEF Moved
    <3> HIDE DEF d, o
    <3>5. HowMany(rp_old', x) = HowMany(rp_old, x) - (IF rp_old[p] = x THEN 1 ELSE 0) + (IF NULL = x THEN 1 ELSE 0)
      BY <3>1, <3>3, HowManyAfter
    <3>6. HowMany(rp_dying', x) = HowMany(rp_dying, x) - (IF rp_dying[p] = x THEN 1 ELSE 0) + (IF d = x THEN 1 ELSE 0)
      BY <3>2, <3>4, HowManyAfter
    <3> QED
      BY <3>5, <3>6 DEF o
  <2>3. /\ HowMany(rp_ptr, x) \in Nat /\ HowMany(rp_old, x) \in Nat /\ HowMany(rp_dying, x) \in Nat
    BY HowManyType
  <2>4. NULL # x /\ rp_dying[p] # x
    BY <1>1
  <2>5. CASE x = o
    <3>1. rp_count'[x] = rp_count[x] - 1
      BY <1>1, <1>2, <2>5 DEF RefType
    <3>2. HowMany(rp_dying', x) = IF rp_count[o] = 1 THEN 1 ELSE 0
      BY <1>4, <2>2, <2>4, <2>5
    <3>3. rp_count'[x] = HowMany(rp_ptr', x) + HowMany(rp_old', x)
      BY <1>2, <2>1, <2>2, <2>3, <2>4, <2>5, <3>1 DEF Counted
    <3> QED
      BY <1>2, <1>3, <1>4, <2>5, <3>1, <3>2, <3>3 DEF Counted
  <2>6. CASE x # o
    <3>1. rp_count'[x] = rp_count[x]
      BY <1>1, <1>2, <2>6 DEF RefType
    <3>2. HowMany(rp_dying', x) = HowMany(rp_dying, x) /\ HowMany(rp_old', x) = HowMany(rp_old, x)
      BY <2>2, <2>3, <2>4, <2>6
    <3> QED
      BY <1>2, <2>1, <3>1, <3>2 DEF Counted
  <2> QED
    BY <2>5, <2>6
<1> QED
  BY <1>5, <1>6, <1>7 DEF RefInv

LEMMA DeleteCounts ==
  ASSUME RefInv, NEW p \in Ptr, DeleteThis(p)
  PROVE  RefInv'
<1> DEFINE o == rp_dying[p]
<1>1. RefType /\ NULL \notin Object /\ o \in Object
  BY PointerAssumption DEF RefInv, RefType, NULL, DeleteThis
<1>2. /\ rp_state' = [rp_state EXCEPT ![o] = "deleted"]
      /\ rp_dying' = [rp_dying EXCEPT ![p] = NULL]
      /\ rp_ptr' = rp_ptr /\ rp_count' = rp_count /\ rp_old' = rp_old
  BY DEF DeleteThis
<1>3. rp_count[o] = 0 /\ HowMany(rp_dying, o) = 1
  <2>1. Counted(o) /\ rp_count[o] \in Nat
    BY <1>1 DEF RefInv, RefType
  <2>2. HowMany(rp_dying, o) # 0
    BY HowManyType
  <2> QED
    BY <2>1, <2>2 DEF Counted
<1>4. RefType'
  BY <1>1, <1>2 DEF RefType
<1>5. \A q \in Ptr : rp_old'[q] # NULL => rp_dying'[q] = NULL
  BY <1>1, <1>2 DEF RefInv, RefType
<1>6. ASSUME NEW x \in Object
      PROVE  Counted(x)'
  <2>1. Counted(x)
    BY DEF RefInv
  <2>2. HowMany(rp_dying', x) = HowMany(rp_dying, x) - (IF o = x THEN 1 ELSE 0) + (IF NULL = x THEN 1 ELSE 0)
    <3>1. rp_dying \in [Ptr -> Object \cup {NULL}] /\ NULL \in Object \cup {NULL}
      BY <1>1 DEF RefType
    <3>2. Moved(rp_dying, rp_dying', p, NULL)
      BY <1>2, <3>1 DEF Moved
    <3> QED
      BY <3>1, <3>2, HowManyAfter
  <2>3. NULL # x /\ HowMany(rp_dying, x) \in Nat
    BY <1>1, HowManyType
  <2>4. CASE x = o
    <3>1. rp_state'[x] = "deleted" /\ HowMany(rp_dying', x) = 0
      BY <1>1, <1>2, <1>3, <2>2, <2>3, <2>4 DEF RefType
    <3> QED
      BY <1>2, <1>3, <2>1, <2>4, <3>1 DEF Counted
  <2>5. CASE x # o
    <3>1. rp_state'[x] = rp_state[x] /\ HowMany(rp_dying', x) = HowMany(rp_dying, x)
      BY <1>1, <1>2, <2>2, <2>3, <2>5 DEF RefType
    <3> QED
      BY <1>2, <2>1, <3>1 DEF Counted
  <2> QED
    BY <2>4, <2>5
<1> QED
  BY <1>4, <1>5, <1>6 DEF RefInv

-----------------------------------------------------------------------------
LEMMA OwnersInit == PointersInit => LinkedInv /\ RefInv
<1> SUFFICES ASSUME PointersInit PROVE LinkedInv /\ RefInv
  OBVIOUS
<1>1. NULL \notin Object
  BY PointerAssumption DEF NULL
<1>2. Circles(lp_value, lp_next)
  BY DEF PointersInit, Circles, OneCircle
<1>3. LinkedInv
  BY <1>2 DEF PointersInit, LinkedInv, Linked
<1>4. RefType /\ \A p \in Ptr : rp_old[p] # NULL => rp_dying[p] = NULL
  BY DEF PointersInit, RefType
<1>5. ASSUME NEW o \in Object
      PROVE  Counted(o)
  <2>1. \A p \in Ptr : rp_ptr[p] # o /\ rp_old[p] # o /\ rp_dying[p] # o
    BY <1>1 DEF PointersInit
  <2>2. HowMany(rp_ptr, o) = 0 /\ HowMany(rp_old, o) = 0 /\ HowMany(rp_dying, o) = 0
    BY <2>1, HowManyType
  <2>3. rp_count[o] = 0 /\ rp_state[o] = "unused"
    BY DEF PointersInit
  <2> QED
    BY <2>2, <2>3 DEF Counted
<1> QED
  BY <1>3, <1>4, <1>5 DEF RefInv

LEMMA OwnersStep ==
  LinkedInv /\ RefInv /\ [LinkedNext \/ RefNext]_pointerVars => LinkedInv' /\ RefInv'
<1> SUFFICES ASSUME LinkedInv, RefInv, [LinkedNext \/ RefNext]_pointerVars
             PROVE  LinkedInv' /\ RefInv'
  OBVIOUS
<1>1. ASSUME UNCHANGED linkedVars PROVE LinkedInv'
  BY <1>1 DEF linkedVars, LinkedInv
<1>2. ASSUME UNCHANGED refVars PROVE RefInv'
  BY <1>2 DEF refVars, RefInv, RefType, Counted, HowMany
<1>3. CASE LinkedNext
  <2>1. PICK p \in Ptr : \/ \E o \in Object \cup {NULL} : ResetLinked(p, o)
                         \/ \E q \in Ptr : AssignLinked(p, q)
                         \/ ReleaseLinked(p)
    BY <1>3 DEF LinkedNext
  <2>2. LinkedInv'
    BY <2>1, ResetKeepsCircles, AssignKeepsCircles, ReleaseKeepsCircles
  <2>3. UNCHANGED refVars
    BY <2>1 DEF ResetLinked, AssignLinked, ReleaseLinked
  <2> QED
    BY <2>2, <2>3, <1>2
<1>4. CASE RefNext
  <2>1. PICK p \in Ptr : \/ \E o \in Object \cup {NULL} : MayReset(p, o) /\ ResetRef(p, o)
                         \/ UnrefOld(p) \/ DeleteThis(p)
    BY <1>4 DEF RefNext
  <2>2. RefInv'
    BY <2>1, ResetCounts, UnrefCounts, DeleteCounts
  <2>3. UNCHANGED linkedVars
    BY <2>1 DEF ResetRef, UnrefOld, DeleteThis
  <2> QED
    BY <2>2, <2>3, <1>1
<1>5. CASE UNCHANGED pointerVars
  BY <1>5, <1>1, <1>2 DEF pointerVars
<1> QED
  BY <1>3, <1>4, <1>5

(* Whatever variables and objects there are and however threads interleave *)
(* their resets, an object shared through linked_ptr lives exactly while   *)
(* its circle has a member, and a reference count is the number of owners: *)
(* the thread that takes it to zero deletes, once.                         *)
THEOREM LastOwnerAlwaysDeletes == PointersSpec => []LastOwnerDeletes
<1>1. LinkedInv /\ RefInv => LastOwnerDeletes
  BY LinkedInvOwners, RefInvCounts DEF LastOwnerDeletes
<1> QED
  BY <1>1, OwnersInit, OwnersStep, PTL DEF PointersSpec
-----------------------------------------------------------------------------
(* The byte store.  What was accepted is the data without the room of a    *)
(* pending asynchronous addition, or all of the file, whose position is at *)
(* its end unless the last operation was a read.  No accepted byte looks   *)
(* like unwritten room.                                                    *)
Byte == Nat \ {Unwritten}

InMemory ==
  /\ bs_file = <<>>
  /\ Len(bs_data) = Len(bs_added) + bs_async
  /\ \A i \in 1 .. Len(bs_data) :
       bs_data[i] = IF i <= Len(bs_added) THEN bs_added[i] ELSE Unwritten

FileAt(bytes, p) == <<[bytes |-> bytes, pos |-> p]>>

OnFile ==
  \E p \in 0 .. Len(bs_added) :
    bs_file = FileAt(bs_added, p) /\ (~bs_reading => p = Len(bs_added))

Kept ==
  /\ bs_added \in Seq(Byte) /\ bs_data \in Seq(Nat)
  /\ bs_offered \in Nat /\ bs_async \in Nat
  /\ bs_length = Len(bs_added)
  /\ bs_blobs \subseteq 0 .. bs_length
  /\ InMemory \/ OnFile

StoreInv == ~bs_lost => Kept

(* What a call leaves behind that does not pend: more of what was accepted, *)
(* and bytes whose address was handed out where they were.                  *)
Grown(s, t) == Len(s) <= Len(t) /\ \A i \in 1 .. Len(s) : t[i] = s[i]

Settled == SubSeq(bs_data, 1, Len(bs_data) - (IF IsUsingData THEN bs_async ELSE 0))

(* What holds of every step that does not lose the file it needs. *)
StoreMoves ==
  /\ Kept'
  /\ Grown(bs_added, bs_added')
  /\ bs_preserve => IsPrefix(Settled, bs_data')

-----------------------------------------------------------------------------
LEMMA ChunkIsBytes ==
  ASSUME NEW n \in Nat, bs_offered \in Nat
  PROVE  Chunk(n) \in Seq(Byte) /\ Len(Chunk(n)) = n
<1>1. \A i \in 1 .. n : bs_offered + i \in Byte
  BY DEF Byte, Unwritten
<1>2. Chunk(n) \in Seq(Byte)
  BY <1>1, IsASeq DEF Chunk
<1>3. DOMAIN Chunk(n) = 1 .. n
  BY DEF Chunk
<1> QED
  BY <1>2, <1>3, LenProperties

LEMMA WriteAtEnd ==
  ASSUME NEW s \in Seq(Nat), NEW b \in Seq(Nat)
  PROVE  /\ Written([bytes |-> s, pos |-> Len(s)], b) = [bytes |-> s \o b, pos |-> Len(s \o b)]
         /\ AfterShortWrite([bytes |-> s, pos |-> Len(s)], b) = [bytes |-> s, pos |-> Len(s)]
<1> DEFINE f == [bytes |-> s, pos |-> Len(s)]
           tail == SubSeq(s, Len(s) + Len(b) + 1, Len(s))
<1>1. SubSeq(s, 1, Len(s)) = s
  BY SubSeqFull
<1>2. Len(s) \in Nat /\ Len(b) \in Nat
  BY LenProperties
<1>3. tail = <<>>
  BY <1>2, SubSeqEmpty
<1>4. s \o b \in Seq(Nat) /\ Len(s \o b) = Len(s) + Len(b) /\ s \o b \o <<>> = s \o b
  BY ConcatProperties, ConcatEmptySeq
<1>5. Written(f, b) = [bytes |-> s \o b, pos |-> Len(s \o b)]
  BY <1>1, <1>3, <1>4 DEF Written
<1>6. SubSeq(s \o b, 1, Len(s)) = s
  BY SubSeqOfConcat1, <1>1, <1>2
<1>7. AfterShortWrite(f, b) = f
  <2>1. Written(f, b).bytes = s \o b /\ f.pos = Len(s)
    <3>1. \A x, y : [bytes |-> x, pos |-> y].bytes = x /\ [bytes |-> x, pos |-> y].pos = y
      OBVIOUS
    <3>2. f.pos = Len(s)
      BY <3>1
    <3> HIDE DEF f
    <3> QED
      BY <1>5, <3>1, <3>2, Zenon
  <2>2. SubSeq(Written(f, b).bytes, 1, f.pos) = s
    BY <2>1, <1>6
  <2>3. \A g, w : w = SubSeq(Written(g, b).bytes, 1, g.pos) => AfterShortWrite(g, b) = [bytes |-> w, pos |-> Len(w)]
    BY DEF AfterShortWrite
  <2> QED
    BY <2>2, <2>3
<1> QED
  BY <1>5, <1>7

LEMMA PrefixOf ==
  ASSUME NEW s \in Seq(Nat), NEW t \in Seq(Nat), NEW k \in 0 .. Len(s), k <= Len(t),
         \A i \in 1 .. k : t[i] = s[i]
  PROVE  SubSeq(s, 1, k) = SubSeq(t, 1, k) /\ IsPrefix(SubSeq(s, 1, k), t)
<1> DEFINE a == SubSeq(s, 1, k)
           b == SubSeq(t, 1, k)
<1>0. Len(s) \in Nat /\ Len(t) \in Nat /\ k \in Nat
  BY LenProperties
<1>1. a \in Seq(Nat) /\ Len(a) = k /\ \A i \in 1 .. k : a[i] = s[i]
  BY <1>0, SubSeqProperties
<1>2. b \in Seq(Nat) /\ Len(b) = k /\ \A i \in 1 .. k : b[i] = t[i]
  BY <1>0, SubSeqProperties
<1>3. a = b
  <2> HIDE DEF a, b
  <2>1. \A i \in 1 .. Len(a) : a[i] = b[i]
    BY <1>1, <1>2
  <2> QED
    BY <1>1, <1>2, <2>1, SeqEqual
<1>4. SubSeq(a, 1, Len(a)) = a
  BY <1>1, SubSeqFull
<1> QED
  BY <1>0, <1>1, <1>3, <1>4 DEF IsPrefix


-----------------------------------------------------------------------------
LEMMA KeptPlaces ==
  ASSUME Kept
  PROVE  /\ IsUsingData => InMemory /\ bs_file = <<>>
         /\ IsUsingFile => OnFile
         /\ Content \in Seq(Nat) /\ Len(bs_added) <= Len(Content)
         /\ \A i \in 1 .. Len(bs_added) : Content[i] = bs_added[i]
         /\ Len(Content) = bs_length + (IF IsUsingData THEN bs_async ELSE 0)
<1>0. bs_added \in Seq(Nat) /\ Len(bs_added) \in Nat
  BY SeqMonotonic, LenProperties DEF Kept, Byte
<1>1. CASE InMemory
  <2>1. IsUsingData /\ Content = bs_data
    BY <1>1 DEF InMemory, IsUsingData, IsUsingFile, Content
  <2> QED
    BY <1>0, <1>1, <2>1 DEF InMemory, Kept, IsUsingData
<1>2. CASE OnFile
  <2>1. PICK p \in 0 .. Len(bs_added) : bs_file = FileAt(bs_added, p)
    BY <1>2 DEF OnFile
  <2>2. bs_file # <<>> /\ bs_file[1].bytes = bs_added
    BY <2>1 DEF FileAt
  <2>3. IsUsingFile /\ ~IsUsingData /\ Content = bs_added
    BY <2>2 DEF IsUsingFile, IsUsingData, Content
  <2> QED
    BY <1>0, <1>2, <2>3 DEF Kept
<1> QED
  BY <1>1, <1>2 DEF Kept

(* The file that is written to has all that was accepted, and its position *)
(* is behind it.                                                           *)
LEMMA AppendsBehind ==
  ASSUME Kept, IsUsingData => bs_async = 0
  PROVE  FileToAppend = [bytes |-> bs_added, pos |-> Len(bs_added)]
<1>0. bs_added \in Seq(Nat) /\ bs_data \in Seq(Nat) /\ Len(bs_added) \in Nat
  BY SeqMonotonic, LenProperties DEF Kept, Byte
<1>1. CASE IsUsingData
  <2>1. InMemory
    BY <1>1, KeptPlaces
  <2>2. Len(bs_data) = Len(bs_added) /\ \A i \in 1 .. Len(bs_data) : bs_data[i] = bs_added[i]
    BY <1>0, <1>1, <2>1 DEF InMemory
  <2>3. bs_data = bs_added
    BY <1>0, <2>2, SeqEqual
  <2> QED
    BY <1>1, <2>3 DEF FileToAppend, IsUsingData
<1>2. CASE IsUsingFile
  <2>1. PICK p \in 0 .. Len(bs_added) : bs_file = FileAt(bs_added, p) /\ (~bs_reading => p = Len(bs_added))
    BY <1>2, KeptPlaces DEF OnFile
  <2>2. bs_file[1] = [bytes |-> bs_added, pos |-> p]
    BY <2>1 DEF FileAt
  <2>3. [bs_file[1] EXCEPT !.pos = Len(bs_file[1].bytes)] = [bytes |-> bs_added, pos |-> Len(bs_added)]
    BY <2>2
  <2> QED
    BY <1>2, <2>1, <2>2, <2>3 DEF FileToAppend
<1> QED
  BY <1>1, <1>2 DEF IsUsingData

(* What AddDataToFile does to the store: nothing, or what was accepted is *)
(* all in the file and its data, if they are preserved, are still there.  *)
FileKeeps(bytes) ==
  \/ /\ IsUsingData
     /\ UNCHANGED <<bs_data, bs_file, bs_reading, bs_length, bs_added>>
  \/ /\ bs_data' = DataAfterMove
     /\ bs_added' \in {bs_added, bs_added \o bytes}
     /\ bs_length' = Len(bs_added')
     /\ \E p \in 0 .. Len(bs_added') :
          bs_file' = FileAt(bs_added', p) /\ (~bs_reading' => p = Len(bs_added'))

LEMMA ToFileKeeps ==
  ASSUME Kept, IsUsingData => bs_async = 0,
         NEW bytes \in Seq(Byte), AddDataToFile(bytes)
  PROVE  FileKeeps(bytes)
<1>0. bs_added \in Seq(Nat) /\ bytes \in Seq(Nat) /\ Len(bs_added) \in Nat /\ bs_length = Len(bs_added)
  BY SeqMonotonic, LenProperties DEF Kept, Byte
<1> DEFINE f == [bytes |-> bs_added, pos |-> Len(bs_added)]
<1>1. FileToAppend = f /\ <<f>> = FileAt(bs_added, Len(bs_added))
  BY AppendsBehind DEF FileAt
<1>2. CASE NoFile
  BY <1>2 DEF NoFile, FileKeeps
<1>3. CASE /\ bs_data' = DataAfterMove /\ bytes = <<>>
           /\ bs_file' = IF IsUsingFile THEN bs_file ELSE <<FileToAppend>>
           /\ UNCHANGED <<bs_reading, bs_length, bs_added>>
  <2>1. \E p \in 0 .. Len(bs_added) : bs_file' = FileAt(bs_added, p) /\ (~bs_reading => p = Len(bs_added))
    BY <1>0, <1>1, <1>3, KeptPlaces DEF OnFile
  <2> QED
    BY <1>0, <1>3, <2>1 DEF FileKeeps
<1>4. CASE /\ bs_data' = DataAfterMove /\ bs_reading' = FALSE
           /\ bs_file' = <<Written(FileToAppend, bytes)>>
           /\ bs_length' = bs_length + Len(bytes)
           /\ bs_added' = bs_added \o bytes
  <2>1. Len(bs_added \o bytes) = Len(bs_added) + Len(bytes) /\ Len(bytes) \in Nat
    BY <1>0, ConcatProperties, LenProperties
  <2>2. bs_file' = FileAt(bs_added', Len(bs_added'))
    BY <1>0, <1>1, <1>4, WriteAtEnd DEF FileAt
  <2>3. bs_length' = Len(bs_added') /\ Len(bs_added') \in 0 .. Len(bs_added')
    BY <1>0, <1>4, <2>1
  <2> QED
    BY <1>4, <2>2, <2>3 DEF FileKeeps
<1>5. CASE /\ bs_data' = DataAfterMove /\ bs_reading' = FALSE
           /\ \E k \in 0 .. Len(bytes) - 1 :
                bs_file' = <<AfterShortWrite(FileToAppend, SubSeq(bytes, 1, k))>>
           /\ UNCHANGED <<bs_length, bs_added>>
  <2>1. PICK k \in 0 .. Len(bytes) - 1 : bs_file' = <<AfterShortWrite(FileToAppend, SubSeq(bytes, 1, k))>>
    BY <1>5
  <2>2. SubSeq(bytes, 1, k) \in Seq(Nat)
    BY <1>0, SubSeqProperties, LenProperties
  <2>3. bs_file' = FileAt(bs_added, Len(bs_added))
    BY <1>0, <1>1, <2>1, <2>2, WriteAtEnd DEF FileAt
  <2> QED
    BY <1>0, <1>5, <2>3 DEF FileKeeps
<1> QED
  BY <1>2, <1>3, <1>4, <1>5 DEF AddDataToFile


-----------------------------------------------------------------------------
(* A call that goes to the file. *)
LEMMA FileAdvances ==
  ASSUME Kept, IsUsingData => bs_async = 0,
         NEW bytes \in Seq(Byte), FileKeeps(bytes),
         bs_file' # <<>> \/ bs_async' = 0,
         bs_offered' \in Nat, bs_async' \in Nat, bs_blobs' = bs_blobs
  PROVE  StoreMoves
<1>0. /\ bs_added \in Seq(Nat) /\ bs_added \in Seq(Byte) /\ bs_data \in Seq(Nat)
      /\ Len(bs_added) \in Nat /\ Len(bs_data) \in Nat /\ Len(bytes) \in Nat
      /\ bs_length = Len(bs_added) /\ bs_blobs \subseteq 0 .. Len(bs_added)
  BY SeqMonotonic, LenProperties DEF Kept, Byte
<1>1. bs_added \o bytes \in Seq(Byte) /\ Grown(bs_added, bs_added \o bytes) /\ Grown(bs_added, bs_added)
      /\ Len(bs_added \o bytes) \in Nat
  BY <1>0, ConcatProperties DEF Grown
<1>2. Settled = bs_data
  BY <1>0, SubSeqFull DEF Settled
<1>3. IsPrefix(bs_data, bs_data)
  BY <1>0 DEF IsPrefix
<1>4. CASE /\ IsUsingData
           /\ UNCHANGED <<bs_data, bs_file, bs_reading, bs_length, bs_added>>
  <2>1. InMemory /\ bs_async = 0 /\ bs_async' = 0
    BY <1>4, KeptPlaces
  <2>2. InMemory'
    BY <1>4, <2>1 DEF InMemory
  <2>3. Kept'
    BY <1>0, <1>4, <2>2 DEF Kept
  <2> QED
    BY <1>1, <1>2, <1>3, <1>4, <2>3 DEF StoreMoves
<1>5. CASE /\ bs_data' = DataAfterMove
           /\ bs_added' \in {bs_added, bs_added \o bytes}
           /\ bs_length' = Len(bs_added')
           /\ \E p \in 0 .. Len(bs_added') :
                bs_file' = FileAt(bs_added', p) /\ (~bs_reading' => p = Len(bs_added'))
  <2>1. bs_data' \in Seq(Nat) /\ (bs_preserve => bs_data' = bs_data)
    BY <1>0, <1>5, EmptySeq DEF DataAfterMove
  <2>2. OnFile'
    BY <1>5 DEF OnFile
  <2>3. bs_added' \in Seq(Byte) /\ Grown(bs_added, bs_added') /\ Len(bs_added') \in Nat
    BY <1>0, <1>1, <1>5
  <2>4. bs_blobs' \subseteq 0 .. bs_length'
    <3>1. Len(bs_added) <= Len(bs_added')
      BY <2>3 DEF Grown
    <3> QED
      BY <1>0, <1>5, <2>3, <3>1
  <2>5. Kept'
    BY <1>5, <2>1, <2>2, <2>3, <2>4 DEF Kept
  <2> QED
    BY <1>2, <1>3, <2>1, <2>3, <2>5 DEF StoreMoves
<1> QED
  BY <1>4, <1>5 DEF FileKeeps

(* A call that fills the data: c is accepted, and r is the room made for *)
(* an asynchronous addition.                                             *)
LEMMA DataAdvances ==
  ASSUME Kept, IsUsingData, bs_file' = bs_file,
         NEW c \in Seq(Byte),
         bs_data' \in Seq(Nat), bs_async' \in Nat,
         bs_added' = bs_added \o c,
         bs_length' = bs_length + Len(c),
         Len(bs_data') = Len(bs_added) + Len(c) + bs_async',
         \A i \in 1 .. Len(bs_data') :
           bs_data'[i] = IF i <= Len(bs_added) THEN bs_added[i]
                         ELSE IF i <= Len(bs_added) + Len(c) THEN c[i - Len(bs_added)]
                         ELSE Unwritten,
         bs_offered' \in Nat, bs_blobs' = bs_blobs
  PROVE  StoreMoves
<1>0. /\ bs_added \in Seq(Nat) /\ bs_added \in Seq(Byte) /\ bs_data \in Seq(Nat)
      /\ Len(bs_added) \in Nat /\ Len(bs_data) \in Nat /\ Len(c) \in Nat
      /\ bs_length = Len(bs_added) /\ bs_blobs \subseteq 0 .. Len(bs_added) /\ bs_async \in Nat
  BY SeqMonotonic, LenProperties DEF Kept, Byte
<1>1. /\ bs_added \o c \in Seq(Byte)
      /\ Len(bs_added \o c) = Len(bs_added) + Len(c)
      /\ \A i \in 1 .. Len(bs_added) + Len(c) :
           (bs_added \o c)[i] = IF i <= Len(bs_added) THEN bs_added[i] ELSE c[i - Len(bs_added)]
  BY <1>0, ConcatProperties
<1>2. InMemory
  BY KeptPlaces
<1>3. InMemory'
  <2>1. bs_file' = <<>>
    BY <1>2 DEF InMemory
  <2>2. Len(bs_data') = Len(bs_added') + bs_async'
    BY <1>1
  <2>3. ASSUME NEW i \in 1 .. Len(bs_data')
        PROVE  bs_data'[i] = IF i <= Len(bs_added') THEN bs_added'[i] ELSE Unwritten
    BY <1>0, <1>1, <2>3
  <2> QED
    BY <2>1, <2>2, <2>3 DEF InMemory
<1>4. Kept'
  BY <1>0, <1>1, <1>3 DEF Kept
<1>5. Grown(bs_added, bs_added')
  BY <1>0, <1>1 DEF Grown
<1>6. IsPrefix(Settled, bs_data')
  <2>1. Len(bs_data) - bs_async = Len(bs_added) /\ Len(bs_added) \in 0 .. Len(bs_data) /\ Len(bs_added) <= Len(bs_data')
    BY <1>0, <1>2 DEF InMemory
  <2>0. Len(bs_data') \in Nat
    BY LenProperties
  <2>2. \A i \in 1 .. Len(bs_added) : bs_data[i] = bs_added[i] /\ bs_data'[i] = bs_added[i]
    <3> SUFFICES ASSUME NEW i \in 1 .. Len(bs_added)
                 PROVE  bs_data[i] = bs_added[i] /\ bs_data'[i] = bs_added[i]
      OBVIOUS
    <3>1. i \in 1 .. Len(bs_data) /\ i \in 1 .. Len(bs_data') /\ i <= Len(bs_added)
      <4>1. \A a, b \in Nat : a <= b /\ i \in 1 .. a => i \in 1 .. b /\ i <= a
        OBVIOUS
      <4>2. Len(bs_added) <= Len(bs_data) /\ Len(bs_added) <= Len(bs_data')
        BY ONLY <1>0, <2>1
      <4> QED
        BY ONLY <1>0, <2>0, <4>1, <4>2, i \in 1 .. Len(bs_added)
    <3> QED
      BY <1>2, <3>1 DEF InMemory
  <2>3. IsPrefix(SubSeq(bs_data, 1, Len(bs_added)), bs_data')
    <3>1. PICK t \in Seq(Nat), k \in 0 .. Len(bs_data) : t = bs_data' /\ k = Len(bs_added)
      BY <2>1
    <3>2. k <= Len(t) /\ \A i \in 1 .. k : t[i] = bs_data[i]
      BY <2>1, <2>2, <3>1
    <3>3. IsPrefix(SubSeq(bs_data, 1, k), t)
      BY <1>0, <3>2, PrefixOf
    <3> QED
      BY <3>1, <3>3
  <2> QED
    BY <2>1, <2>3 DEF Settled
<1> QED
  BY <1>4, <1>5, <1>6 DEF StoreMoves

(* A call that adds nothing. *)
LEMMA QuietAdvances ==
  ASSUME Kept, UNCHANGED <<bs_data, bs_async, bs_length, bs_offered, bs_added>>,
         bs_blobs' \subseteq 0 .. bs_length,
         (InMemory \/ OnFile)'
  PROVE  StoreMoves
<1>0. bs_data \in Seq(Nat) /\ Len(bs_data) \in Nat /\ Len(bs_added) \in Nat /\ bs_added \in Seq(Nat) /\ bs_async \in Nat
  BY SeqMonotonic, LenProperties DEF Kept, Byte
<1>1. Kept'
  BY DEF Kept
<1>2. Grown(bs_added, bs_added')
  BY <1>0 DEF Grown
<1>3. IsPrefix(Settled, bs_data')
  <2> DEFINE k == Len(bs_data) - (IF IsUsingData THEN bs_async ELSE 0)
  <2>1. k \in 0 .. Len(bs_data)
    <3>1. IsUsingData => Len(bs_data) = Len(bs_added) + bs_async
      BY KeptPlaces DEF InMemory
    <3> QED
      BY <1>0, <3>1
  <2>2. k <= Len(bs_data)
    BY <1>0, <2>1
  <2> HIDE DEF k
  <2>3. IsPrefix(SubSeq(bs_data, 1, k), bs_data)
    BY <1>0, <2>1, <2>2, PrefixOf
  <2> QED
    BY <2>3 DEF Settled, k
<1> QED
  BY <1>1, <1>2, <1>3 DEF StoreMoves


-----------------------------------------------------------------------------
LEMMA AppendAdvances ==
  ASSUME Kept, IsUsingData, bs_async = 0, NEW n \in Nat,
         bs_data' = bs_data \o Chunk(n),
         bs_length' = bs_length + n,
         bs_added' = bs_added \o Chunk(n),
         bs_offered' = bs_offered + n,
         UNCHANGED <<bs_file, bs_async, bs_blobs>>
  PROVE  StoreMoves
<1>0. /\ bs_added \in Seq(Nat) /\ bs_data \in Seq(Nat)
      /\ Len(bs_added) \in Nat /\ Len(bs_data) \in Nat /\ bs_offered \in Nat
  BY SeqMonotonic, LenProperties DEF Kept, Byte
<1>1. Chunk(n) \in Seq(Byte) /\ Chunk(n) \in Seq(Nat) /\ Len(Chunk(n)) = n
  BY <1>0, ChunkIsBytes, SeqMonotonic DEF Byte
<1>2. /\ Len(bs_data) = Len(bs_added)
      /\ \A i \in 1 .. Len(bs_added) : bs_data[i] = bs_added[i]
  BY <1>0, KeptPlaces DEF InMemory
<1>3. PICK c \in Seq(Byte) : c = Chunk(n) /\ Len(c) = n /\ c \in Seq(Nat)
  BY <1>1
<1>4. /\ bs_data \o c \in Seq(Nat)
      /\ Len(bs_data \o c) = Len(bs_data) + n
      /\ \A i \in 1 .. Len(bs_data) + n :
           (bs_data \o c)[i] = IF i <= Len(bs_data) THEN bs_data[i] ELSE c[i - Len(bs_data)]
  BY <1>0, <1>3, ConcatProperties
<1>5. /\ bs_data' \in Seq(Nat) /\ bs_async' = 0 /\ bs_offered' \in Nat
      /\ Len(bs_data') = Len(bs_added) + Len(c) + bs_async'
  BY <1>0, <1>2, <1>3, <1>4
<1>6. \A i \in 1 .. Len(bs_data') :
        bs_data'[i] = IF i <= Len(bs_added) THEN bs_added[i]
                      ELSE IF i <= Len(bs_added) + Len(c) THEN c[i - Len(bs_added)]
                      ELSE Unwritten
  BY <1>0, <1>2, <1>3, <1>4
<1>7. bs_added' = bs_added \o c /\ bs_length' = bs_length + Len(c) /\ bs_async' \in Nat
  BY <1>3, <1>5
<1> QED
  BY <1>3, <1>5, <1>6, <1>7, DataAdvances

LEMMA AddDataAdvances ==
  ASSUME Kept, NEW n \in Nat, AddData(n)
  PROVE  StoreMoves
<1>0. bs_offered \in Nat /\ bs_async = 0 /\ bs_offered' = bs_offered + n /\ bs_offered + n \in Nat
  BY DEF Kept, AddData, MayAdd
<1>1. CASE Fits(n)
  BY <1>0, <1>1, AppendAdvances DEF AddData, Fits
<1>2. CASE ~Fits(n)
  <2>1. AddDataToFile(Chunk(n)) /\ Chunk(n) \in Seq(Byte)
    BY <1>0, <1>2, ChunkIsBytes DEF AddData
  <2>2. FileKeeps(Chunk(n))
    BY <1>0, <2>1, ToFileKeeps
  <2> QED
    BY <1>0, <2>1, <2>2, FileAdvances DEF AddData
<1> QED
  BY <1>1, <1>2 DEF AddData

LEMMA AddDirectAdvances ==
  ASSUME Kept, NEW n \in Nat, NEW k \in Nat, AddDataDirect(n, k)
  PROVE  StoreMoves
<1>0. bs_offered \in Nat /\ bs_async = 0 /\ bs_offered' = bs_offered + k /\ bs_offered + k \in Nat
  BY DEF Kept, AddDataDirect, MayAdd
<1>1. CASE Fits(n)
  BY <1>0, <1>1, AppendAdvances DEF AddDataDirect, Fits
<1>2. CASE ~Fits(n)
  <2>1. AddDataToFile(Chunk(k)) /\ Chunk(k) \in Seq(Byte)
    BY <1>0, <1>2, ChunkIsBytes DEF AddDataDirect
  <2>2. FileKeeps(Chunk(k))
    BY <1>0, <2>1, ToFileKeeps
  <2> QED
    BY <1>0, <2>1, <2>2, FileAdvances DEF AddDataDirect
<1> QED
  BY <1>1, <1>2 DEF AddDataDirect

(* The one step that may lose the file it needs changes nothing then. *)
LEMMA AddAsyncAdvances ==
  ASSUME Kept, NEW n \in Nat, AddDataDirectAsync(n)
  PROVE  \/ StoreMoves
         \/ bs_lost' /\ UNCHANGED <<bs_data, bs_file>>
<1>0. /\ bs_offered \in Nat /\ bs_async = 0 /\ bs_offered' = bs_offered /\ bs_async' = n
      /\ bs_added \in Seq(Nat) /\ bs_data \in Seq(Nat) /\ Len(bs_added) \in Nat /\ Len(bs_data) \in Nat
      /\ bs_blobs' = bs_blobs
  BY SeqMonotonic, LenProperties DEF Kept, AddDataDirectAsync, MayAdd, Byte
<1>1. CASE Fits(n)
  <2> DEFINE r == [i \in 1 .. n |-> Unwritten]
  <2>1. r \in Seq(Nat) /\ Len(r) = n /\ \A i \in 1 .. n : r[i] = Unwritten
    <3>1. r \in Seq(Nat)
      BY IsASeq DEF Unwritten
    <3>2. DOMAIN r = 1 .. n
      OBVIOUS
    <3> QED
      BY <3>1, <3>2, LenProperties
  <2> HIDE DEF r
  <2>2. /\ bs_data \o r \in Seq(Nat)
        /\ Len(bs_data \o r) = Len(bs_data) + n
        /\ \A i \in 1 .. Len(bs_data) + n :
             (bs_data \o r)[i] = IF i <= Len(bs_data) THEN bs_data[i] ELSE r[i - Len(bs_data)]
    BY <1>0, <2>1, ConcatProperties
  <2>3. /\ bs_data' = bs_data \o r
        /\ UNCHANGED <<bs_file, bs_reading, bs_length, bs_added, bs_lost>> /\ IsUsingData
    BY <1>1 DEF AddDataDirectAsync, Fits, r
  <2>4. /\ Len(bs_data) = Len(bs_added)
        /\ \A i \in 1 .. Len(bs_added) : bs_data[i] = bs_added[i]
    <3>1. InMemory
      BY <2>3, KeptPlaces
    <3>2. Len(bs_data) = Len(bs_added)
      BY <1>0, <3>1 DEF InMemory
    <3>3. \A i \in 1 .. Len(bs_added) : i \in 1 .. Len(bs_data) /\ i <= Len(bs_added)
      BY <1>0, <3>2
    <3> QED
      BY <3>1, <3>2, <3>3 DEF InMemory
  <2>5. PICK c \in Seq(Byte) : c = <<>> /\ Len(c) = 0 /\ bs_added \o c = bs_added
    BY <1>0, EmptySeq, ConcatEmptySeq
  <2>6. /\ bs_data' \in Seq(Nat) /\ bs_async' \in Nat /\ bs_offered' \in Nat
        /\ Len(bs_data') = Len(bs_added) + Len(c) + bs_async'
        /\ bs_added' = bs_added \o c /\ bs_length' = bs_length + Len(c)
    <3>1. bs_length = Len(bs_added)
      BY DEF Kept
    <3> QED
      BY <1>0, <2>2, <2>3, <2>4, <2>5, <3>1
  <2>7. \A i \in 1 .. Len(bs_data') :
          bs_data'[i] = IF i <= Len(bs_added) THEN bs_added[i]
                        ELSE IF i <= Len(bs_added) + Len(c) THEN c[i - Len(bs_added)]
                        ELSE Unwritten
    <3>1. \A i \in 1 .. Len(bs_data) + n : ~(i <= Len(bs_data)) => i - Len(bs_data) \in 1 .. n
      BY <1>0
    <3>2. \A i \in 1 .. Len(bs_data) + n :
            (bs_data \o r)[i] = IF i <= Len(bs_added) THEN bs_added[i] ELSE Unwritten
      BY <1>0, <2>1, <2>2, <2>4, <3>1
    <3> QED
      BY <1>0, <2>2, <2>3, <2>5, <3>2
  <2>8. StoreMoves
    BY <1>0, <2>3, <2>5, <2>6, <2>7, DataAdvances
  <2> QED
    BY <2>3, <2>8
<1>2. CASE ~Fits(n)
  <2>1. AddDataToFile(<<>>) /\ bs_lost' = (bs_lost \/ bs_file' = <<>>)
    BY <1>2 DEF AddDataDirectAsync
  <2>2. <<>> \in Seq(Byte)
    BY EmptySeq
  <2>3. FileKeeps(<<>>)
    BY <1>0, <2>1, <2>2, ToFileKeeps
  <2>4. CASE bs_file' # <<>>
    BY <1>0, <2>2, <2>3, <2>4, FileAdvances
  <2>5. CASE bs_file' = <<>>
    <3>1. bs_lost'
      BY <2>1, <2>5
    <3>2. \A b, p : FileAt(b, p) # <<>>
      BY DEF FileAt
    <3>3. UNCHANGED <<bs_data, bs_file>>
      BY <2>3, <2>5, <3>2 DEF FileKeeps
    <3> QED
      BY <3>1, <3>3
  <2> QED
    BY <2>4, <2>5
<1> QED
  BY <1>1, <1>2


LEMMA FinishAsyncAdvances ==
  ASSUME Kept, NEW n \in Nat, AddDataDirectFinishAsync(n)
  PROVE  StoreMoves
<1>0. /\ bs_offered \in Nat /\ bs_offered' = bs_offered + n /\ bs_offered' \in Nat
      /\ bs_async \in Nat /\ bs_async' = 0 /\ bs_async' \in Nat /\ n <= bs_async
      /\ bs_added \in Seq(Byte) /\ bs_data \in Seq(Nat) /\ Len(bs_added) \in Nat /\ Len(bs_data) \in Nat
      /\ bs_blobs' = bs_blobs
  BY LenProperties DEF Kept, AddDataDirectFinishAsync
<1>1. Chunk(n) \in Seq(Byte) /\ Len(Chunk(n)) = n /\ \A i \in 1 .. n : Chunk(n)[i] = bs_offered + i
  BY <1>0, ChunkIsBytes DEF Chunk
<1>2. CASE IsUsingData
  <2> DEFINE size == Len(bs_data) - (bs_async - n)
             room == Len(bs_data) - bs_async
             filled == [i \in 1 .. size |-> IF bs_data[i] = Unwritten THEN bs_offered + i - room ELSE bs_data[i]]
  <2>1. /\ bs_data' = filled
        /\ bs_length' = bs_length + n
        /\ bs_added' = bs_added \o Chunk(n)
        /\ bs_file' = bs_file
    BY <1>2 DEF AddDataDirectFinishAsync
  <2>2. /\ Len(bs_data) = Len(bs_added) + bs_async
        /\ \A i \in 1 .. Len(bs_data) : bs_data[i] = IF i <= Len(bs_added) THEN bs_added[i] ELSE Unwritten
    BY <1>2, KeptPlaces DEF InMemory
  <2>3. size = Len(bs_added) + n /\ room = Len(bs_added) /\ size \in Nat /\ size <= Len(bs_data)
    BY <1>0, <2>2
  <2>4. PICK c \in Seq(Byte) : c = Chunk(n) /\ Len(c) = n
    BY <1>1
  <2>5. PICK k \in Nat : k = size /\ k = Len(bs_added) + n
    BY <2>3
  <2>6. filled = [i \in 1 .. k |-> IF bs_data[i] = Unwritten THEN bs_offered + i - Len(bs_added) ELSE bs_data[i]]
    BY <2>3, <2>5
  <2> HIDE DEF size, room, filled
  <2>7. ASSUME NEW i \in 1 .. k
        PROVE  /\ filled[i] = IF i <= Len(bs_added) THEN bs_added[i] ELSE c[i - Len(bs_added)]
               /\ filled[i] \in Nat
    <3>1. i \in 1 .. Len(bs_data)
      BY <1>0, <2>3, <2>5
    <3>2. filled[i] = IF bs_data[i] = Unwritten THEN bs_offered + i - Len(bs_added) ELSE bs_data[i]
      BY <2>6
    <3>3. CASE i <= Len(bs_added)
      <4>1. bs_added[i] \in Byte /\ bs_data[i] = bs_added[i]
        BY <1>0, <2>2, <3>1, <3>3, ElementOfSeq
      <4> QED
        BY <3>2, <3>3, <4>1 DEF Byte
    <3>4. CASE ~(i <= Len(bs_added))
      <4>1. bs_data[i] = Unwritten
        BY <2>2, <3>1, <3>4
      <4>2. i - Len(bs_added) \in 1 .. n
        BY <1>0, <2>5, <3>4
      <4>3. c[i - Len(bs_added)] = bs_offered + (i - Len(bs_added))
        BY <1>1, <2>4, <4>2
      <4>4. bs_offered + i - Len(bs_added) = bs_offered + (i - Len(bs_added)) /\ bs_offered + (i - Len(bs_added)) \in Nat
        BY <1>0, <4>2
      <4> QED
        BY <3>2, <3>4, <4>1, <4>3, <4>4
    <3> QED
      BY <3>3, <3>4
  <2>8. filled \in Seq(Nat) /\ Len(filled) = k
    <3>1. filled \in [1 .. k -> Nat] /\ DOMAIN filled = 1 .. k
      BY <2>6, <2>7
    <3>2. filled \in Seq(Nat)
      BY <3>1
    <3> QED
      BY <3>1, <3>2, LenProperties
  <2>9. /\ bs_data' \in Seq(Nat)
        /\ Len(bs_data') = Len(bs_added) + Len(c) + bs_async'
        /\ bs_added' = bs_added \o c /\ bs_length' = bs_length + Len(c)
    BY <1>0, <2>1, <2>4, <2>5, <2>8
  <2>10. \A i \in 1 .. Len(bs_data') :
           bs_data'[i] = IF i <= Len(bs_added) THEN bs_added[i]
                         ELSE IF i <= Len(bs_added) + Len(c) THEN c[i - Len(bs_added)]
                         ELSE Unwritten
    <3>1. \A i \in 1 .. k : i <= Len(bs_added) + Len(c)
      BY <2>4, <2>5
    <3> QED
      BY <2>1, <2>7, <2>8, <3>1
  <2> QED
    BY <1>0, <1>2, <2>1, <2>9, <2>10, DataAdvances
<1>3. CASE ~IsUsingData
  <2>1. AddDataToFile(Chunk(n))
    BY <1>3 DEF AddDataDirectFinishAsync
  <2>2. FileKeeps(Chunk(n))
    BY <1>1, <1>3, <2>1, ToFileKeeps
  <2> QED
    BY <1>0, <1>1, <1>3, <2>2, FileAdvances
<1> QED
  BY <1>2, <1>3

LEMMA ReserveAdvances ==
  ASSUME Kept, NEW n \in Nat, Reserve(n)
  PROVE  StoreMoves
<1>1. AddDataToFile(<<>>) /\ bs_async = 0 /\ bs_async' = 0 /\ bs_offered' = bs_offered /\ bs_blobs' = bs_blobs
  BY DEF Reserve
<1>2. <<>> \in Seq(Byte) /\ bs_offered \in Nat
  BY EmptySeq DEF Kept
<1>3. FileKeeps(<<>>)
  BY <1>1, <1>2, ToFileKeeps
<1> QED
  BY <1>1, <1>2, <1>3, FileAdvances

LEMMA ReadAdvances ==
  ASSUME Kept, NEW o \in Nat, NEW n \in Nat, Read(o, n)
  PROVE  StoreMoves
<1>1. UNCHANGED <<bs_data, bs_async, bs_length, bs_offered, bs_added>> /\ bs_blobs' \subseteq 0 .. bs_length
  BY DEF Read, Kept
<1>0. Len(bs_added) \in Nat
  BY LenProperties DEF Kept
<1>2. CASE IsUsingFile
  <2>1. PICK p \in 0 .. Len(bs_added) : bs_file = FileAt(bs_added, p)
    BY <1>2, KeptPlaces DEF OnFile
  <2>2. bs_file[1] = [bytes |-> bs_added, pos |-> p]
    BY <2>1 DEF FileAt
  <2> DEFINE q == IF o + n < Len(bs_added) THEN o + n ELSE Len(bs_added)
  <2>3. q \in 0 .. Len(bs_added)
    BY <1>0
  <2>4. bs_reading' = TRUE /\ bs_file' = <<[bs_file[1] EXCEPT !.pos = q]>>
    BY <1>2, <2>2 DEF Read
  <2> HIDE DEF q
  <2>5. bs_file' = FileAt(bs_added, q)
    BY <2>2, <2>4 DEF FileAt
  <2>6. OnFile'
    BY <1>1, <2>3, <2>4, <2>5 DEF OnFile
  <2> QED
    BY <1>1, <2>6, QuietAdvances
<1>3. CASE ~IsUsingFile
  <2>1. UNCHANGED <<bs_reading, bs_file>> /\ InMemory
    BY <1>3, KeptPlaces DEF Read, IsUsingData
  <2>2. InMemory'
    BY <1>1, <2>1 DEF InMemory
  <2> QED
    BY <1>1, <2>2, QuietAdvances
<1> QED
  BY <1>2, <1>3

LEMMA OthersAdvance ==
  ASSUME Kept, CreateBlob \/ Finalize \/ GetDataElement \/ UNCHANGED byteVars
  PROVE  StoreMoves
<1>1. UNCHANGED <<bs_data, bs_file, bs_reading, bs_async, bs_length, bs_offered, bs_added>>
  BY DEF CreateBlob, Finalize, GetDataElement, byteVars
<1>2. bs_blobs' \subseteq 0 .. bs_length
  <2>1. bs_length \in Nat /\ bs_blobs \subseteq 0 .. bs_length
    BY LenProperties DEF Kept
  <2>2. bs_blobs' \in {bs_blobs, bs_blobs \cup {bs_length}}
    BY DEF CreateBlob, Finalize, GetDataElement, byteVars
  <2> QED
    BY <2>1, <2>2
<1>3. (InMemory \/ OnFile)'
  BY <1>1 DEF Kept, InMemory, OnFile
<1> QED
  BY <1>1, <1>2, <1>3, QuietAdvances

LEMMA StoreAdvances ==
  ASSUME Kept, ByteStoreNext \/ UNCHANGED byteVars
  PROVE  StoreMoves \/ (bs_lost' /\ UNCHANGED <<bs_data, bs_file>>)
<1>0. \A n \in 0 .. kMaxBufferSize : n \in Nat /\ \A k \in 0 .. n : k \in Nat
  BY ByteStoreAssumption
<1>1. \A n \in 1 .. kMaxBufferSize : n \in Nat
  BY ByteStoreAssumption
<1>2. CASE \E n \in 1 .. kMaxBufferSize : AddData(n) \/ AddDataDirectAsync(n)
  BY <1>1, <1>2, AddDataAdvances, AddAsyncAdvances
<1>3. CASE \E n \in 1 .. kMaxBufferSize : \E k \in 0 .. n : AddDataDirect(n, k)
  <2>1. PICK n \in 1 .. kMaxBufferSize : \E k \in 0 .. n : AddDataDirect(n, k)
    BY <1>3
  <2>2. PICK k \in 0 .. n : AddDataDirect(n, k)
    BY <2>1
  <2>3. n \in Nat /\ k \in Nat
    BY <1>1
  <2> QED
    BY <2>2, <2>3, AddDirectAdvances
<1>4. CASE \E n \in 0 .. kMaxBufferSize : AddDataDirectFinishAsync(n)
  BY <1>0, <1>4, FinishAsyncAdvances
<1>5. CASE CreateBlob \/ Finalize \/ GetDataElement \/ UNCHANGED byteVars
  BY <1>5, OthersAdvance
<1>6. CASE \E o \in 0 .. 1 : Read(o, 1)
  BY <1>6, ReadAdvances
<1>7. CASE Reserve(kMaxBufferSize + 1)
  BY <1>7, ReserveAdvances, ByteStoreAssumption
<1> QED
  BY <1>2, <1>3, <1>4, <1>5, <1>6, <1>7 DEF ByteStoreNext

LEMMA LostStays ==
  ASSUME bs_lost, ByteStoreNext \/ UNCHANGED byteVars
  PROVE  bs_lost'
BY DEF ByteStoreNext, AddData, AddDataDirectAsync, AddDataDirect, AddDataDirectFinishAsync, CreateBlob,
       Finalize, GetDataElement, Read, Reserve, byteVars

LEMMA StoreStep ==
  ASSUME StoreInv, ByteStoreNext \/ UNCHANGED byteVars
  PROVE  StoreInv' /\ NothingLostOrMixed' /\ SnapshotsStay /\ PreservedStays
<1>1. CASE bs_lost
  BY <1>1, LostStays DEF StoreInv, NothingLostOrMixed, SnapshotsStay, PreservedStays
<1>2. CASE ~bs_lost
  <2>0. Kept
    BY <1>2 DEF StoreInv
  <2>1. /\ Content \in Seq(Nat) /\ Len(bs_added) <= Len(Content) /\ Len(bs_added) \in Nat
        /\ \A i \in 1 .. Len(bs_added) : Content[i] = bs_added[i]
        /\ bs_blobs \subseteq 0 .. Len(bs_added) /\ bs_data \in Seq(Nat) /\ Len(bs_data) \in Nat
        /\ Len(Content) \in Nat /\ bs_async \in Nat
    BY <2>0, KeptPlaces, LenProperties DEF Kept
  <2>2. CASE StoreMoves
    <3>0. Kept'
      BY <2>2 DEF StoreMoves
    <3>1. (/\ Content \in Seq(Nat) /\ Len(bs_added) <= Len(Content)
           /\ \A i \in 1 .. Len(bs_added) : Content[i] = bs_added[i]
           /\ Len(Content) = bs_length + (IF IsUsingData THEN bs_async ELSE 0))'
      BY <3>0, KeptPlaces, PTL
    <3>2. bs_added' \in Seq(Nat) /\ bs_length' = Len(bs_added') /\ Len(bs_added') \in Nat /\ Len(Content') \in Nat
      BY <3>0, <3>1, SeqMonotonic, LenProperties DEF Kept, Byte
    <3>3. PICK a \in Seq(Nat), c \in Seq(Nat) : a = bs_added' /\ c = Content'
      BY <3>1, <3>2
    <3>4. SubSeq(c, 1, Len(a)) = a
      <4>1. Len(a) \in 0 .. Len(a) /\ Len(a) <= Len(c) /\ \A i \in 1 .. Len(a) : c[i] = a[i]
        BY <3>1, <3>2, <3>3
      <4>2. SubSeq(a, 1, Len(a)) = SubSeq(c, 1, Len(a))
        BY <4>1, PrefixOf
      <4> QED
        BY <4>2, SubSeqFull
    <3>5. NothingLostOrMixed'
      BY <3>1, <3>2, <3>3, <3>4 DEF NothingLostOrMixed
    <3>6. ASSUME NEW n \in bs_blobs
          PROVE  SubSeq(c, 1, n) = SubSeq(Content, 1, n)
      <4>1. n \in 0 .. Len(Content) /\ n <= Len(bs_added) /\ Len(bs_added) <= Len(a) /\ n <= Len(c)
        <5>1. n \in 0 .. Len(bs_added)
          BY <2>1
        <5>2. Len(bs_added) <= Len(a) /\ Len(a) <= Len(c)
          BY <2>2, <3>1, <3>3 DEF StoreMoves, Grown
        <5>3. Len(a) \in Nat /\ Len(c) \in Nat
          BY <3>3, LenProperties
        <5>4. \A x, y, z, v \in Nat : n \in 0 .. x /\ x <= y /\ y <= z /\ x <= v => n \in 0 .. v /\ n <= x /\ n <= z
          OBVIOUS
        <5> QED
          BY <2>1, <5>1, <5>2, <5>3, <5>4
      <4>2. ASSUME NEW i \in 1 .. n PROVE c[i] = Content[i]
        <5>1. i \in 1 .. Len(bs_added) /\ i \in 1 .. Len(a)
          <6>1. \A x, y \in Nat : n <= x /\ x <= y /\ n \in Nat => i \in 1 .. x /\ i \in 1 .. y
            OBVIOUS
          <6>2. n \in Nat /\ Len(a) \in Nat
            BY <4>1, <3>3, LenProperties
          <6> QED
            BY <2>1, <4>1, <6>1, <6>2
        <5>2. a[i] = bs_added[i]
          BY <2>2, <3>3, <5>1 DEF StoreMoves, Grown
        <5>3. c[i] = a[i]
          BY <3>1, <3>3, <5>1
        <5> QED
          BY <2>1, <5>1, <5>2, <5>3
      <4> QED
        BY <2>1, <4>1, <4>2, PrefixOf
    <3>7. SnapshotsStay
      BY <3>3, <3>6 DEF SnapshotsStay
    <3>8. PreservedStays
      BY <2>2 DEF StoreMoves, PreservedStays, Settled
    <3> QED
      BY <3>0, <3>5, <3>7, <3>8 DEF StoreInv
  <2>3. CASE bs_lost' /\ UNCHANGED <<bs_data, bs_file>>
    <3>1. Content' = Content
      BY <2>3 DEF Content, IsUsingFile
    <3>2. IsPrefix(Settled, bs_data)
      <4> DEFINE k == Len(bs_data) - (IF IsUsingData THEN bs_async ELSE 0)
      <4>1. k \in 0 .. Len(bs_data) /\ k <= Len(bs_data)
        <5>1. IsUsingData => Len(bs_data) = Len(bs_added) + bs_async
          BY <2>0, KeptPlaces DEF InMemory
        <5> QED
          BY <2>1, <5>1
      <4> HIDE DEF k
      <4>2. IsPrefix(SubSeq(bs_data, 1, k), bs_data)
        BY <2>1, <4>1, PrefixOf
      <4> QED
        BY <4>2 DEF Settled, k
    <3> QED
      BY <2>3, <3>1, <3>2 DEF StoreInv, NothingLostOrMixed, SnapshotsStay, PreservedStays, Settled
  <2> QED
    BY <2>0, <2>2, <2>3, StoreAdvances
<1> QED
  BY <1>1, <1>2

(* The bytes of a ByteStore, for every size of the buffer and any number   *)
(* of bytes: through short writes, files that cannot be made, the move to  *)
(* a file and asynchronous additions, what was accepted stays in order, no *)
(* blob changes and no byte that was handed out moves.                     *)
THEOREM BytesAlwaysStay == ByteStoreSpec => BytesStay
<1>1. ByteStoreInit => StoreInv
  <2> SUFFICES ASSUME ByteStoreInit PROVE Kept
    BY DEF StoreInv
  <2>1. bs_added = <<>> /\ bs_data = <<>> /\ bs_file = <<>> /\ Len(<<>>) = 0
        /\ <<>> \in Seq(Byte) /\ <<>> \in Seq(Nat)
    BY EmptySeq DEF ByteStoreInit
  <2>2. InMemory
    BY <2>1 DEF InMemory, ByteStoreInit
  <2> QED
    BY <2>1, <2>2 DEF Kept, ByteStoreInit
<1>2. StoreInv /\ [ByteStoreNext]_byteVars => StoreInv'
  BY StoreStep
<1>3. StoreInv /\ [ByteStoreNext]_byteVars =>
        [/\ NothingLostOrMixed'
         /\ SnapshotsStay
         /\ PreservedStays]_byteVars
  BY StoreStep
<1> QED
  BY <1>1, <1>2, <1>3, PTL DEF ByteStoreSpec, BytesStay

-----------------------------------------------------------------------------
(* HTTP headers.  The recursions that Sent and ClearHeader are defined by   *)
(* have solutions.                                                          *)
SentStep(before, lines, name, i) == Heard(before, lines[i], name)

SentUpTo(f, lines, name, n) == f = [i \in 0 .. n |-> IF i = 0 THEN Nothing ELSE SentStep(f[i - 1], lines, name, i)]

LEMMA SentExtends ==
  ASSUME NEW lines, NEW name, NEW n \in Nat, NEW f, SentUpTo(f, lines, name, n)
  PROVE  \E g : SentUpTo(g, lines, name, n + 1)
<1> DEFINE g == [i \in 0 .. n + 1 |-> IF i <= n THEN f[i] ELSE SentStep(f[n], lines, name, n + 1)]
<1>1. \A i \in 0 .. n : f[i] = IF i = 0 THEN Nothing ELSE SentStep(f[i - 1], lines, name, i)
  BY DEF SentUpTo
<1>2. (\A i \in 0 .. n : g[i] = f[i]) /\ g[n + 1] = SentStep(f[n], lines, name, n + 1)
  OBVIOUS
<1>3. ASSUME NEW i \in 0 .. n + 1
      PROVE  g[i] = IF i = 0 THEN Nothing ELSE SentStep(g[i - 1], lines, name, i)
  <2> HIDE DEF g
  <2>1. CASE i = n + 1
    <3>1. i # 0 /\ i - 1 = n /\ n \in 0 .. n
      BY <2>1
    <3> QED
      BY <1>2, <2>1, <3>1
  <2>2. CASE i # n + 1
    <3>1. i \in 0 .. n /\ (i # 0 => i - 1 \in 0 .. n)
      BY <2>2
    <3> QED
      BY <1>1, <1>2, <3>1
  <2> QED
    BY <2>1, <2>2
<1> DEFINE h == [i \in 0 .. n + 1 |-> IF i = 0 THEN Nothing ELSE SentStep(g[i - 1], lines, name, i)]
<1>4. g = h
  <2>1. DOMAIN g = 0 .. n + 1 /\ DOMAIN h = 0 .. n + 1
    OBVIOUS
  <2>2. \A i \in 0 .. n + 1 : g[i] = h[i]
    BY <1>3
  <2>3. g = [i \in 0 .. n + 1 |-> g[i]]
    OBVIOUS
  <2> QED
    BY <2>2, <2>3
<1>5. SentUpTo(g, lines, name, n + 1)
  BY <1>4 DEF SentUpTo
<1> QED
  BY <1>5

LEMMA SentExists ==
  ASSUME NEW lines, NEW name, NEW n \in Nat
  PROVE  \E f : SentUpTo(f, lines, name, n)
<1> DEFINE Wrong == {i \in Nat : ~ \E f : SentUpTo(f, lines, name, i)}
<1>1. SUFFICES ASSUME Wrong # {} PROVE FALSE
  OBVIOUS
<1> DEFINE R == OpToRel(<, Nat)
<1>2. PICK k \in Wrong : \A j \in Wrong : <<j, k>> \notin R
  BY <1>1, NatLessThanWellFounded, WFMin
<1>3. k \in Nat /\ ~ \E f : SentUpTo(f, lines, name, k)
  OBVIOUS
<1>4. k # 0
  <2> DEFINE f == [i \in 0 .. 0 |-> Nothing]
  <2>1. SentUpTo(f, lines, name, 0)
    <3>1. f = [i \in 0 .. 0 |-> IF i = 0 THEN Nothing ELSE SentStep(f[i - 1], lines, name, i)]
      OBVIOUS
    <3> QED
      BY <3>1 DEF SentUpTo
  <2> QED
    BY <1>3, <2>1
<1>5. k - 1 \in Nat /\ (k - 1) + 1 = k
  BY <1>3, <1>4
<1>6. \E f : SentUpTo(f, lines, name, k - 1)
  <2>1. <<k - 1, k>> \in R
    BY <1>3, <1>5 DEF OpToRel
  <2>2. k - 1 \notin Wrong
    BY <1>2, <2>1
  <2> QED
    BY <1>5, <2>2
<1>7. \E f : SentUpTo(f, lines, name, (k - 1) + 1)
  BY <1>5, <1>6, SentExtends
<1> QED
  BY <1>3, <1>5, <1>7

LEMMA SentSolves ==
  ASSUME NEW S, NEW lines \in Seq(S), NEW name
  PROVE  \E u : SentUpTo(u, lines, name, Len(lines)) /\ Sent(lines, name) = u[Len(lines)]
<1> DEFINE n == Len(lines)
           u == CHOOSE f : SentUpTo(f, lines, name, n)
<1>1. SentUpTo(u, lines, name, n)
  BY SentExists
<1>2. Sent(lines, name) = u[n]
  BY DEF Sent, SentUpTo, SentStep
<1> HIDE DEF u
<1> QED
  BY <1>1, <1>2

(* Solutions agree as far as the lines do. *)
LEMMA SentAgrees ==
  ASSUME NEW f, NEW g, NEW k, NEW l, NEW name, NEW n \in Nat, NEW m \in Nat, n <= m,
         SentUpTo(f, k, name, n), SentUpTo(g, l, name, m), \A i \in 1 .. n : k[i] = l[i]
  PROVE  f[n] = g[n]
<1>1. /\ \A i \in 0 .. n : f[i] = IF i = 0 THEN Nothing ELSE SentStep(f[i - 1], k, name, i)
      /\ \A i \in 0 .. m : g[i] = IF i = 0 THEN Nothing ELSE SentStep(g[i - 1], l, name, i)
  BY DEF SentUpTo
<1> DEFINE Wrong == {i \in 0 .. n : f[i] # g[i]}
<1>2. SUFFICES ASSUME Wrong # {} PROVE FALSE
  OBVIOUS
<1> DEFINE R == OpToRel(<, Nat)
<1>3. PICK p \in Wrong : \A j \in Wrong : <<j, p>> \notin R
  <2>1. Wrong \subseteq Nat
    OBVIOUS
  <2> QED
    BY <1>2, <2>1, NatLessThanWellFounded, WFMin
<1>4. p \in 0 .. n /\ f[p] # g[p] /\ p \in 0 .. m
  OBVIOUS
<1>5. p # 0
  BY <1>1, <1>4
<1>6. p - 1 \in 0 .. n /\ p - 1 \in Nat /\ p \in Nat /\ p \in 1 .. n /\ p - 1 < p
  BY <1>4, <1>5
<1>7. <<p - 1, p>> \in R
  BY <1>6 DEF OpToRel
<1>8. f[p - 1] = g[p - 1]
  BY <1>3, <1>6, <1>7
<1>9. f[p] = SentStep(f[p - 1], k, name, p) /\ g[p] = SentStep(g[p - 1], l, name, p) /\ k[p] = l[p]
  BY <1>1, <1>4, <1>5, <1>6
<1> QED
  BY <1>4, <1>8, <1>9 DEF SentStep

LEMMA SentEmpty ==
  ASSUME NEW name
  PROVE  Sent(<<>>, name) = Nothing
<1>1. PICK u : SentUpTo(u, <<>>, name, Len(<<>>)) /\ Sent(<<>>, name) = u[Len(<<>>)]
  <2>1. <<>> \in Seq({})
    BY EmptySeq
  <2> QED
    BY <2>1, SentSolves
<1>2. Len(<<>>) = 0 /\ 0 \in 0 .. 0
  BY EmptySeq
<1> QED
  BY <1>1, <1>2 DEF SentUpTo

LEMMA SentAppend ==
  ASSUME NEW S, NEW lines \in Seq(S), NEW x \in S, NEW name
  PROVE  Sent(Append(lines, x), name) = Heard(Sent(lines, name), x, name)
<1> DEFINE n == Len(lines)
           more == Append(lines, x)
<1>1. /\ n \in Nat /\ more \in Seq(S) /\ Len(more) = n + 1 /\ more[n + 1] = x
      /\ \A i \in 1 .. n : lines[i] = more[i]
  BY AppendProperties
<1>2. PICK u : SentUpTo(u, lines, name, n) /\ Sent(lines, name) = u[n]
  BY SentSolves
<1> HIDE DEF more
<1>3. PICK v : SentUpTo(v, more, name, Len(more)) /\ Sent(more, name) = v[Len(more)]
  BY <1>1, SentSolves
<1> HIDE DEF n
<1>4. n <= n + 1 /\ n + 1 \in Nat /\ n + 1 \in 0 .. n + 1 /\ n + 1 # 0 /\ (n + 1) - 1 = n
  BY <1>1
<1>5. SentUpTo(v, more, name, n + 1) /\ Sent(more, name) = v[n + 1]
  BY <1>1, <1>3
<1>6. u[n] = v[n]
  BY <1>1, <1>2, <1>4, <1>5, SentAgrees
<1>7. v[n + 1] = SentStep(v[(n + 1) - 1], more, name, n + 1)
  BY <1>4, <1>5 DEF SentUpTo
<1>8. v[n + 1] = Heard(v[n], x, name)
  BY <1>1, <1>4, <1>7 DEF SentStep
<1> QED
  BY <1>2, <1>5, <1>6, <1>8 DEF more

ClearStep(before, list, name, i) ==
  IF SameName(list[i].name, name) THEN before ELSE Append(before, list[i])

ClearUpTo(f, list, name, n) == f = [i \in 0 .. n |-> IF i = 0 THEN <<>> ELSE ClearStep(f[i - 1], list, name, i)]

LEMMA ClearExtends ==
  ASSUME NEW list, NEW name, NEW n \in Nat, NEW f, ClearUpTo(f, list, name, n)
  PROVE  \E g : ClearUpTo(g, list, name, n + 1)
<1> DEFINE g == [i \in 0 .. n + 1 |-> IF i <= n THEN f[i] ELSE ClearStep(f[n], list, name, n + 1)]
<1>1. \A i \in 0 .. n : f[i] = IF i = 0 THEN <<>> ELSE ClearStep(f[i - 1], list, name, i)
  BY DEF ClearUpTo
<1>2. (\A i \in 0 .. n : g[i] = f[i]) /\ g[n + 1] = ClearStep(f[n], list, name, n + 1)
  OBVIOUS
<1>3. ASSUME NEW i \in 0 .. n + 1
      PROVE  g[i] = IF i = 0 THEN <<>> ELSE ClearStep(g[i - 1], list, name, i)
  <2> HIDE DEF g
  <2>1. CASE i = n + 1
    <3>1. i # 0 /\ i - 1 = n /\ n \in 0 .. n
      BY <2>1
    <3> QED
      BY <1>2, <2>1, <3>1
  <2>2. CASE i # n + 1
    <3>1. i \in 0 .. n /\ (i # 0 => i - 1 \in 0 .. n)
      BY <2>2
    <3> QED
      BY <1>1, <1>2, <3>1
  <2> QED
    BY <2>1, <2>2
<1> DEFINE h == [i \in 0 .. n + 1 |-> IF i = 0 THEN <<>> ELSE ClearStep(g[i - 1], list, name, i)]
<1>4. g = h
  <2>1. DOMAIN g = 0 .. n + 1 /\ DOMAIN h = 0 .. n + 1
    OBVIOUS
  <2>2. \A i \in 0 .. n + 1 : g[i] = h[i]
    BY <1>3
  <2>3. g = [i \in 0 .. n + 1 |-> g[i]]
    OBVIOUS
  <2> QED
    BY <2>2, <2>3
<1>5. ClearUpTo(g, list, name, n + 1)
  BY <1>4 DEF ClearUpTo
<1> QED
  BY <1>5

LEMMA ClearExists ==
  ASSUME NEW list, NEW name, NEW n \in Nat
  PROVE  \E f : ClearUpTo(f, list, name, n)
<1> DEFINE Wrong == {i \in Nat : ~ \E f : ClearUpTo(f, list, name, i)}
<1>1. SUFFICES ASSUME Wrong # {} PROVE FALSE
  OBVIOUS
<1> DEFINE R == OpToRel(<, Nat)
<1>2. PICK k \in Wrong : \A j \in Wrong : <<j, k>> \notin R
  BY <1>1, NatLessThanWellFounded, WFMin
<1>3. k \in Nat /\ ~ \E f : ClearUpTo(f, list, name, k)
  OBVIOUS
<1>4. k # 0
  <2> DEFINE f == [i \in 0 .. 0 |-> <<>>]
  <2>1. ClearUpTo(f, list, name, 0)
    <3>1. f = [i \in 0 .. 0 |-> IF i = 0 THEN <<>> ELSE ClearStep(f[i - 1], list, name, i)]
      OBVIOUS
    <3> QED
      BY <3>1 DEF ClearUpTo
  <2> QED
    BY <1>3, <2>1
<1>5. k - 1 \in Nat /\ (k - 1) + 1 = k
  BY <1>3, <1>4
<1>6. \E f : ClearUpTo(f, list, name, k - 1)
  <2>1. <<k - 1, k>> \in R
    BY <1>3, <1>5 DEF OpToRel
  <2>2. k - 1 \notin Wrong
    BY <1>2, <2>1
  <2> QED
    BY <1>5, <2>2
<1>7. \E f : ClearUpTo(f, list, name, (k - 1) + 1)
  BY <1>5, <1>6, ClearExtends
<1> QED
  BY <1>3, <1>5, <1>7

(* What ClearHeader leaves of a list: entries of it, each at most once. *)
EntriesOf(s, list, i, S) ==
  /\ s \in Seq(S)
  /\ \E at \in [1 .. Len(s) -> 1 .. i] :
       /\ \A k, l \in 1 .. Len(s) : at[k] = at[l] => k = l
       /\ \A k \in 1 .. Len(s) : s[k] = list[at[k]]

LEMMA EntriesMore ==
  ASSUME NEW S, NEW list \in Seq(S), NEW i \in Nat, i < Len(list), NEW s, EntriesOf(s, list, i, S)
  PROVE  EntriesOf(s, list, i + 1, S) /\ EntriesOf(Append(s, list[i + 1]), list, i + 1, S)
<1> DEFINE n == Len(s)
           m == list[i + 1]
           t == Append(s, m)
<1>1. s \in Seq(S) /\ n \in Nat /\ i + 1 \in 1 .. Len(list) /\ m \in S
  BY DEF EntriesOf
<1>2. PICK at \in [1 .. n -> 1 .. i] :
        /\ \A k, l \in 1 .. n : at[k] = at[l] => k = l
        /\ \A k \in 1 .. n : s[k] = list[at[k]]
  BY DEF EntriesOf
<1>3. at \in [1 .. n -> 1 .. i + 1] /\ \A k \in 1 .. n : at[k] \in 1 .. i
  BY <1>2
<1>4. EntriesOf(s, list, i + 1, S)
  BY <1>1, <1>2, <1>3 DEF EntriesOf
<1>5. t \in Seq(S) /\ Len(t) = n + 1 /\ t[n + 1] = m /\ \A k \in 1 .. n : t[k] = s[k]
  BY <1>1, AppendProperties
<1> DEFINE up == [k \in 1 .. n + 1 |-> IF k <= n THEN at[k] ELSE i + 1]
<1>6. /\ up \in [1 .. n + 1 -> 1 .. i + 1] /\ up[n + 1] = i + 1
      /\ \A k \in 1 .. n : up[k] = at[k]
  BY <1>1, <1>3
<1>7. \A k, l \in 1 .. n + 1 : up[k] = up[l] => k = l
  <2> TAKE k, l \in 1 .. n + 1
  <2>1. (k \in 1 .. n \/ k = n + 1) /\ (l \in 1 .. n \/ l = n + 1)
    BY <1>1
  <2> HIDE DEF up
  <2>2. CASE k \in 1 .. n /\ l \in 1 .. n
    BY <1>2, <1>6, <2>2
  <2>3. CASE k = n + 1 /\ l \in 1 .. n
    <3>1. up[k] = i + 1 /\ up[l] \in 1 .. i
      BY <1>3, <1>6, <2>3
    <3> QED
      BY <3>1
  <2>4. CASE l = n + 1 /\ k \in 1 .. n
    <3>1. up[l] = i + 1 /\ up[k] \in 1 .. i
      BY <1>3, <1>6, <2>4
    <3> QED
      BY <3>1
  <2> QED
    BY <2>1, <2>2, <2>3, <2>4
<1> HIDE DEF up, t
<1>8. \A k \in 1 .. n + 1 : t[k] = list[up[k]]
  <2> TAKE k \in 1 .. n + 1
  <2>1. CASE k = n + 1
    BY <1>5, <1>6, <2>1
  <2>2. CASE k # n + 1
    <3>1. k \in 1 .. n
      BY <1>1, <2>2
    <3> QED
      BY <1>2, <1>5, <1>6, <3>1
  <2> QED
    BY <2>1, <2>2
<1>9. EntriesOf(t, list, i + 1, S)
  BY <1>5, <1>6, <1>7, <1>8 DEF EntriesOf
<1> QED
  BY <1>4, <1>9 DEF t

LEMMA ClearLeaves ==
  ASSUME NEW S, NEW list \in Seq(S), NEW name
  PROVE  EntriesOf(ClearHeader(list, name), list, Len(list), S)
<1> DEFINE n == Len(list)
           u == CHOOSE f : ClearUpTo(f, list, name, n)
<1>1. n \in Nat
  OBVIOUS
<1>2. ClearUpTo(u, list, name, n)
  BY <1>1, ClearExists
<1>3. ClearHeader(list, name) = u[n]
  BY DEF ClearHeader, ClearUpTo, ClearStep
<1> HIDE DEF u
<1>4. \A i \in 0 .. n : u[i] = IF i = 0 THEN <<>> ELSE ClearStep(u[i - 1], list, name, i)
  BY <1>2 DEF ClearUpTo
<1> HIDE DEF n
<1>5. \A i \in 0 .. n : EntriesOf(u[i], list, i, S)
  <2> DEFINE Wrong == {i \in 0 .. n : ~EntriesOf(u[i], list, i, S)}
  <2>1. SUFFICES ASSUME Wrong # {} PROVE FALSE
    OBVIOUS
  <2> DEFINE R == OpToRel(<, Nat)
  <2>2. Wrong \subseteq Nat
    BY <1>1
  <2>3. PICK k \in Wrong : \A j \in Wrong : <<j, k>> \notin R
    BY <2>1, <2>2, NatLessThanWellFounded, WFMin
  <2>4. k \in 0 .. n /\ ~EntriesOf(u[k], list, k, S)
    OBVIOUS
  <2>5. k # 0
    <3>1. SUFFICES ASSUME k = 0 PROVE FALSE
      OBVIOUS
    <3>2. u[0] = <<>>
      BY <1>1, <1>4
    <3>3. <<>> \in Seq(S) /\ Len(<<>>) = 0 /\ 1 .. 0 = {}
      BY EmptySeq
    <3>4. [x \in 1 .. 0 |-> x] \in [1 .. 0 -> 1 .. 0]
      OBVIOUS
    <3>5. EntriesOf(<<>>, list, 0, S)
      BY <3>3, <3>4 DEF EntriesOf
    <3> QED
      BY <2>4, <3>1, <3>2, <3>5
  <2>6. k - 1 \in 0 .. n /\ k - 1 \in Nat /\ (k - 1) + 1 = k /\ k - 1 < n
    BY <1>1, <2>4, <2>5
  <2>7. EntriesOf(u[k - 1], list, k - 1, S)
    <3>1. <<k - 1, k>> \in R
      BY <2>4, <2>6 DEF OpToRel
    <3>2. k - 1 \notin Wrong
      BY <2>3, <3>1
    <3> QED
      BY <2>6, <3>2
  <2>8. EntriesOf(u[k - 1], list, k, S) /\ EntriesOf(Append(u[k - 1], list[k]), list, k, S)
    <3>1. \A i \in Nat : i < Len(list) => \A s : EntriesOf(s, list, i, S) =>
            EntriesOf(s, list, i + 1, S) /\ EntriesOf(Append(s, list[i + 1]), list, i + 1, S)
      BY EntriesMore
    <3>2. k - 1 < Len(list)
      BY <2>6 DEF n
    <3>3. EntriesOf(u[k - 1], list, (k - 1) + 1, S) /\ EntriesOf(Append(u[k - 1], list[(k - 1) + 1]), list, (k - 1) + 1, S)
      BY <2>6, <2>7, <3>1, <3>2
    <3> QED
      BY <2>6, <3>3
  <2>9. u[k] = ClearStep(u[k - 1], list, name, k)
    BY <1>4, <2>4, <2>5
  <2> QED
    BY <2>4, <2>8, <2>9 DEF ClearStep
<1> QED
  BY <1>1, <1>3, <1>5 DEF n

-----------------------------------------------------------------------------
(* The lines.  Which name the last header line has, and whether that name  *)
(* was there before it.                                                    *)
Single == {"host", "a"}

IsHeader(line, name) == line.kind = "header" /\ line.name[1] = name

SentBefore(lines, name) == \E j \in 1 .. Len(lines) : IsHeader(lines[j], name)

LastHeader(lines, k) ==
  /\ k \in 1 .. Len(lines) /\ lines[k].kind = "header"
  /\ \A j \in k + 1 .. Len(lines) : lines[j].kind # "header"

Fresh(lines, k) == \A j \in 1 .. k - 1 : ~IsHeader(lines[j], lines[k].name[1])

NoHeader(lines) == \A j \in 1 .. Len(lines) : lines[j].kind # "header"

LEMMA LinesAppend ==
  ASSUME NEW lines \in Seq(Line), NEW x \in Line
  PROVE  /\ Append(lines, x) \in Seq(Line)
         /\ Len(lines) \in Nat /\ Len(Append(lines, x)) = Len(lines) + 1
         /\ Append(lines, x)[Len(lines) + 1] = x
         /\ \A i \in 1 .. Len(lines) : Append(lines, x)[i] = lines[i]
         /\ \A i \in 1 .. Len(lines) : lines[i] \in Line
BY AppendProperties

LEMMA SentBeforeAppend ==
  ASSUME NEW lines \in Seq(Line), NEW x \in Line, NEW name
  PROVE  SentBefore(Append(lines, x), name) <=> SentBefore(lines, name) \/ IsHeader(x, name)
<1> DEFINE n == Len(lines)
           more == Append(lines, x)
<1>1. /\ n \in Nat /\ Len(more) = n + 1 /\ more[n + 1] = x /\ \A i \in 1 .. n : more[i] = lines[i]
  BY LinesAppend
<1>2. \A i : i \in 1 .. n + 1 <=> i \in 1 .. n \/ i = n + 1
  BY <1>1
<1> HIDE DEF n, more
<1>3. SentBefore(more, name) <=> \E j \in 1 .. n + 1 : IsHeader(more[j], name)
  BY <1>1 DEF SentBefore
<1>4. SentBefore(lines, name) <=> \E j \in 1 .. n : IsHeader(lines[j], name)
  BY DEF SentBefore, n
<1>5. (\E j \in 1 .. n + 1 : IsHeader(more[j], name)) <=>
      (\E j \in 1 .. n : IsHeader(lines[j], name)) \/ IsHeader(x, name)
  BY <1>1, <1>2
<1> QED
  BY <1>3, <1>4, <1>5 DEF more

(* A header line is the last one, and fresh if its name is new. *)
LEMMA HeaderIsLast ==
  ASSUME NEW lines \in Seq(Line), NEW x \in Line, x.kind = "header", NEW k, LastHeader(Append(lines, x), k)
  PROVE  /\ k = Len(lines) + 1 /\ Append(lines, x)[k] = x
         /\ Fresh(Append(lines, x), k) <=> ~SentBefore(lines, x.name[1])
<1> DEFINE n == Len(lines)
           more == Append(lines, x)
<1>1. /\ n \in Nat /\ Len(more) = n + 1 /\ more[n + 1] = x /\ \A i \in 1 .. n : more[i] = lines[i]
  BY LinesAppend
<1> HIDE DEF more
<1>2. k \in 1 .. n + 1 /\ \A j \in k + 1 .. n + 1 : more[j].kind # "header"
  BY <1>1 DEF LastHeader, more
<1>3. k = n + 1
  <2>1. SUFFICES ASSUME k # n + 1 PROVE FALSE
    OBVIOUS
  <2>2. n + 1 \in k + 1 .. n + 1
    BY <1>1, <1>2, <2>1
  <2> QED
    BY <1>1, <1>2, <2>2
<1>4. k - 1 = n
  BY <1>1, <1>3
<1>5. Fresh(more, k) <=> \A j \in 1 .. n : ~IsHeader(lines[j], x.name[1])
  BY <1>1, <1>3, <1>4 DEF Fresh
<1>6. SentBefore(lines, x.name[1]) <=> \E j \in 1 .. n : IsHeader(lines[j], x.name[1])
  BY DEF SentBefore
<1> QED
  BY <1>1, <1>3, <1>5, <1>6 DEF more

(* Another line changes neither. *)
LEMMA LastHeaderStays ==
  ASSUME NEW lines \in Seq(Line), NEW x \in Line, x.kind # "header"
  PROVE  /\ \A k : LastHeader(Append(lines, x), k) <=> LastHeader(lines, k)
         /\ \A k : LastHeader(lines, k) =>
              /\ Append(lines, x)[k] = lines[k]
              /\ Fresh(Append(lines, x), k) <=> Fresh(lines, k)
         /\ NoHeader(Append(lines, x)) <=> NoHeader(lines)
<1> DEFINE n == Len(lines)
           more == Append(lines, x)
<1>1. /\ n \in Nat /\ Len(more) = n + 1 /\ more[n + 1] = x /\ \A i \in 1 .. n : more[i] = lines[i]
  BY LinesAppend
<1> HIDE DEF more, n
<1>2. /\ NoHeader(more) <=> \A j \in 1 .. n + 1 : more[j].kind # "header"
      /\ NoHeader(lines) <=> \A j \in 1 .. n : lines[j].kind # "header"
  BY <1>1 DEF NoHeader, n
<1>3. \A j : j \in 1 .. n + 1 <=> j \in 1 .. n \/ j = n + 1
  BY <1>1
<1>4. NoHeader(more) <=> NoHeader(lines)
  BY <1>1, <1>2, <1>3
<1>5. ASSUME NEW k
      PROVE  LastHeader(more, k) <=> LastHeader(lines, k)
  <2>1. LastHeader(more, k) <=>
          k \in 1 .. n + 1 /\ more[k].kind = "header" /\ \A j \in k + 1 .. n + 1 : more[j].kind # "header"
    BY <1>1 DEF LastHeader
  <2>2. LastHeader(lines, k) <=>
          k \in 1 .. n /\ lines[k].kind = "header" /\ \A j \in k + 1 .. n : lines[j].kind # "header"
    BY DEF LastHeader, n
  <2>3. CASE k \in 1 .. n
    <3>1. \A j : j \in k + 1 .. n + 1 <=> j \in k + 1 .. n \/ j = n + 1
      BY <1>1, <2>3
    <3>2. \A j \in k + 1 .. n : j \in 1 .. n
      BY <1>1, <2>3
    <3>3. (\A j \in k + 1 .. n + 1 : more[j].kind # "header") <=> (\A j \in k + 1 .. n : lines[j].kind # "header")
      BY <1>1, <3>1, <3>2
    <3> QED
      BY <1>1, <1>3, <2>1, <2>2, <2>3, <3>3
  <2>4. CASE k \notin 1 .. n
    BY <1>1, <1>3, <2>1, <2>2, <2>4
  <2> QED
    BY <2>3, <2>4
<1>6. ASSUME NEW k, LastHeader(lines, k)
      PROVE  more[k] = lines[k] /\ (Fresh(more, k) <=> Fresh(lines, k))
  <2>1. k \in 1 .. n
    BY <1>6 DEF LastHeader, n
  <2>2. more[k] = lines[k] /\ \A j \in 1 .. k - 1 : j \in 1 .. n
    BY <1>1, <2>1
  <2>3. \A j \in 1 .. k - 1 : more[j] = lines[j]
    BY <1>1, <2>2
  <2> QED
    BY <2>2, <2>3 DEF Fresh
<1> QED
  BY <1>4, <1>5, <1>6 DEF more

(* The lines the property leaves out stay left out, and a continuation of  *)
(* a name that was there already makes them so.                            *)
LEMMA MergedAppend ==
  ASSUME NEW lines \in Seq(Line), NEW x \in Line
  PROVE  /\ ContinuesMerged(lines) => ContinuesMerged(Append(lines, x))
         /\ \A k : x.kind = "continuation" /\ LastHeader(lines, k) /\ ~Fresh(lines, k) =>
              ContinuesMerged(Append(lines, x))
<1> DEFINE n == Len(lines)
           more == Append(lines, x)
           Merged(l, i) == \E k \in 1 .. i - 1 :
              /\ l[k].kind = "header"
              /\ \A j \in k + 1 .. i - 1 : l[j].kind # "header"
              /\ \E j \in 1 .. k - 1 : l[j].kind = "header" /\ l[j].name[1] = l[k].name[1]
<1>1. /\ n \in Nat /\ Len(more) = n + 1 /\ more[n + 1] = x /\ \A i \in 1 .. n : more[i] = lines[i]
  BY LinesAppend
<1> HIDE DEF n, more
<1>2. /\ ContinuesMerged(lines) <=> \E i \in 2 .. n : lines[i].kind = "continuation" /\ Merged(lines, i)
      /\ ContinuesMerged(more) <=> \E i \in 2 .. n + 1 : more[i].kind = "continuation" /\ Merged(more, i)
  BY <1>1 DEF ContinuesMerged, n
<1>3. ASSUME NEW i \in 2 .. n + 1, NEW k \in 1 .. i - 1,
             lines[k].kind = "header", \A j \in k + 1 .. i - 1 : lines[j].kind # "header",
             NEW q \in 1 .. k - 1, lines[q].kind = "header", lines[q].name[1] = lines[k].name[1]
      PROVE  Merged(more, i)
  <2>1. k \in 1 .. n /\ q \in 1 .. n /\ \A j \in k + 1 .. i - 1 : j \in 1 .. n
    BY <1>1
  <2>2. more[k] = lines[k] /\ more[q] = lines[q] /\ \A j \in k + 1 .. i - 1 : more[j] = lines[j]
    BY <1>1, <2>1
  <2> QED
    BY <1>3, <2>2
<1>4. ASSUME ContinuesMerged(lines) PROVE ContinuesMerged(more)
  <2>1. PICK i \in 2 .. n : lines[i].kind = "continuation" /\ Merged(lines, i)
    BY <1>2, <1>4
  <2>2. i \in 2 .. n + 1 /\ i \in 1 .. n
    BY <1>1
  <2>3. Merged(more, i)
    <3>1. PICK k \in 1 .. i - 1 :
            /\ lines[k].kind = "header" /\ \A j \in k + 1 .. i - 1 : lines[j].kind # "header"
            /\ \E q \in 1 .. k - 1 : lines[q].kind = "header" /\ lines[q].name[1] = lines[k].name[1]
      BY <2>1
    <3>2. PICK q \in 1 .. k - 1 : lines[q].kind = "header" /\ lines[q].name[1] = lines[k].name[1]
      BY <3>1
    <3> HIDE DEF Merged
    <3> QED
      BY <1>3, <2>2, <3>1, <3>2, Zenon
  <2>4. more[i].kind = "continuation"
    BY <1>1, <2>1, <2>2
  <2> QED
    BY <1>2, <2>2, <2>3, <2>4
<1>5. ASSUME x.kind = "continuation", NEW k, LastHeader(lines, k), ~Fresh(lines, k)
      PROVE  ContinuesMerged(more)
  <2>1. k \in 1 .. n /\ lines[k].kind = "header" /\ \A j \in k + 1 .. n : lines[j].kind # "header"
    BY <1>5 DEF LastHeader, n
  <2>2. PICK q \in 1 .. k - 1 : lines[q].kind = "header" /\ lines[q].name[1] = lines[k].name[1]
    BY <1>5 DEF Fresh, IsHeader
  <2>3. n + 1 \in 2 .. n + 1 /\ (n + 1) - 1 = n
    BY <1>1, <2>1
  <2>4. k \in 1 .. (n + 1) - 1 /\ \A j \in k + 1 .. (n + 1) - 1 : lines[j].kind # "header"
    BY <2>1, <2>3
  <2> HIDE DEF Merged
  <2>5. Merged(more, n + 1)
    BY <1>3, <2>1, <2>2, <2>3, <2>4, Zenon
  <2> QED
    BY <1>1, <1>2, <1>5, <2>3, <2>5
<1> QED
  BY <1>4, <1>5 DEF more

-----------------------------------------------------------------------------
(* The list.  A value that was parsed has no "NULL" in it, so it is never  *)
(* taken for an erased one.                                                *)
HeaderLists(W) == Seq([name : HeaderName, value : Seq(W)])

Word == {"v", "w", "c", "\n", "_", ",", " "}
AnyWord == Word \cup {"NULL", "x"}

Has(list, name) == \E i \in 1 .. Len(list) : list[i].name[1] = name

OneOf(list) ==
  \A i, j \in 1 .. Len(list) :
    i # j => list[i].name[1] # list[j].name[1] \/ list[i].name[1] \in MultiLine

LEMMA OneOfIs ==
  ASSUME NEW W, hh_list \in HeaderLists(W)
  PROVE  OneEntryPerName <=> OneOf(hh_list)
<1>1. DOMAIN hh_list = 1 .. Len(hh_list)
  BY DEF HeaderLists
<1> QED
  BY <1>1 DEF OneEntryPerName, OneOf

LEMMA NamesAre == \A name \in HeaderName : name[1] \in Single \/ name[1] \in MultiLine
BY DEF HeaderName, Single, MultiLine

LEMMA SmallSequences ==
  ASSUME NEW S
  PROVE  /\ <<>> \in Seq(S)
         /\ \A x \in S : <<x>> \in Seq(S)
         /\ \A x, y \in S : <<x, y>> \in Seq(S)
OBVIOUS

LEMMA EachIn ==
  ASSUME NEW S, NEW v \in Seq(S), NEW f, f = [i \in DOMAIN v |-> f[i]], \A i \in DOMAIN v : f[i] \in S
  PROVE  f \in Seq(S)
<1>1. Len(v) \in Nat /\ DOMAIN v = 1 .. Len(v)
  OBVIOUS
<1>2. ASSUME NEW n \in Nat, NEW g \in [1 .. n -> S] PROVE g \in Seq(S)
  OBVIOUS
<1>3. f \in [1 .. Len(v) -> S]
  BY <1>1
<1> QED
  BY <1>1, <1>2, <1>3

LEMMA ElementsIn ==
  ASSUME NEW S, NEW v \in Seq(S)
  PROVE  \A i \in DOMAIN v : v[i] \in S
OBVIOUS

LEMMA Sanitizes ==
  ASSUME NEW W, "_" \in W, NEW v \in Seq(W)
  PROVE  Sanitized(v) \in Seq(W)
<1>1. \A i \in DOMAIN v : v[i] \in W
  BY ElementsIn, Zenon
<1>2. \A i \in DOMAIN v : Sanitized(v)[i] \in W
  BY <1>1, Zenon DEF Sanitized
<1>3. Sanitized(v) = [i \in DOMAIN v |-> Sanitized(v)[i]]
  BY Zenon DEF Sanitized
<1> QED
  BY <1>2, <1>3, EachIn, Zenon

LEMMA ValuesAre ==
  /\ \A v \in HeaderValue : Sanitized(v) \in Seq(Word)
  /\ \A v \in {<<"x">>, Erased} : Sanitized(v) \in Seq(AnyWord)
  /\ "_" \in Word /\ <<",">> \in Seq(Word) /\ <<" ">> \in Seq(Word) /\ <<>> \in Seq(Word)
  /\ <<",">> \in Seq(AnyWord) /\ Erased \notin Seq(Word) /\ Seq(Word) \subseteq Seq(AnyWord)
<1>1. "_" \in Word /\ "v" \in Word /\ "w" \in Word /\ "\n" \in Word /\ "," \in Word /\ " " \in Word
  BY DEF Word
<1>2. \A v \in HeaderValue : v \in Seq(Word)
  BY <1>1, SmallSequences, Zenon DEF HeaderValue
<1>3. \A v \in {<<"x">>, Erased} : v \in Seq(AnyWord)
  <2>1. "x" \in AnyWord /\ "NULL" \in AnyWord
    BY DEF AnyWord
  <2> QED
    BY <2>1, SmallSequences, Zenon DEF Erased
<1>4. Erased \notin Seq(Word)
  <2>1. SUFFICES ASSUME Erased \in Seq(Word) PROVE FALSE
    OBVIOUS
  <2>2. Len(Erased) = 1 /\ Erased[1] = "NULL"
    BY DEF Erased
  <2>3. Erased[1] \in Word
    BY <2>1, <2>2
  <2>4. "NULL" \notin Word
    BY DEF Word
  <2> QED
    BY <2>2, <2>3, <2>4
<1>5. Seq(Word) \subseteq Seq(AnyWord)
  <2>1. Word \subseteq AnyWord
    BY DEF AnyWord
  <2>2. ASSUME NEW A, NEW B, A \subseteq B PROVE Seq(A) \subseteq Seq(B)
    BY <2>2
  <2> QED
    BY <2>1, <2>2
<1>6. "_" \in AnyWord /\ "," \in AnyWord /\ "x" \in AnyWord /\ "NULL" \in AnyWord
  BY DEF AnyWord, Word
<1>7. <<",">> \in Seq(Word) /\ <<" ">> \in Seq(Word) /\ <<>> \in Seq(Word) /\ <<",">> \in Seq(AnyWord)
  BY <1>1, <1>6, SmallSequences, Zenon
<1>8. \A v \in HeaderValue : Sanitized(v) \in Seq(Word)
  BY <1>1, <1>2, Sanitizes, Zenon
<1>9. \A v \in {<<"x">>, Erased} : Sanitized(v) \in Seq(AnyWord)
  BY <1>3, <1>6, Sanitizes, Zenon
<1> QED
  BY <1>1, <1>4, <1>5, <1>7, <1>8, <1>9

LEMMA GetHeaderIs ==
  ASSUME NEW S, NEW list \in Seq(S), NEW name
  PROVE  \/ GetHeader(list, name) = 0 /\ ~Has(list, name[1])
         \/ /\ GetHeader(list, name) \in 1 .. Len(list)
            /\ list[GetHeader(list, name)].name[1] = name[1]
<1> DEFINE hits == {i \in DOMAIN list : SameName(list[i].name, name)}
<1>1. Len(list) \in Nat /\ DOMAIN list = 1 .. Len(list)
  OBVIOUS
<1>2. GetHeader(list, name) = IF hits = {} THEN 0 ELSE CHOOSE i \in hits : \A j \in hits : i <= j
  BY DEF GetHeader
<1>3. \A i : i \in hits <=> i \in 1 .. Len(list) /\ list[i].name[1] = name[1]
  BY <1>1 DEF SameName
<1> HIDE DEF hits
<1>4. CASE hits = {}
  BY <1>2, <1>3, <1>4 DEF Has
<1>5. CASE hits # {}
  <2>1. hits \subseteq Nat
    BY <1>1, <1>3
  <2> DEFINE R == OpToRel(<, Nat)
  <2>2. PICK k \in hits : \A j \in hits : <<j, k>> \notin R
    BY <1>5, <2>1, NatLessThanWellFounded, WFMin
  <2>3. \A j \in hits : j \in Nat /\ ~(j < k) /\ k \in Nat
    BY <2>1, <2>2 DEF OpToRel
  <2>4. \A j \in hits : k <= j
    BY <2>3
  <2>5. GetHeader(list, name) \in hits
    BY <1>2, <1>5, <2>4
  <2> QED
    BY <1>3, <2>5
<1> QED
  BY <1>4, <1>5

(* What the changes of a list do to its entries. *)
Added(list, next, name, value) ==
  /\ Len(next) = Len(list) + 1
  /\ next[Len(list) + 1].name = name /\ next[Len(list) + 1].value = value
  /\ \A j \in 1 .. Len(list) : next[j] = list[j]

Changed(list, next, i, name, value) ==
  /\ Len(next) = Len(list)
  /\ i \in 1 .. Len(list) /\ next[i].name[1] = name /\ list[i].name[1] = name /\ next[i].value = value
  /\ \A j \in 1 .. Len(list) : j # i => next[j] = list[j]

LEMMA AddNewHeaderIs ==
  ASSUME NEW W, NEW list \in HeaderLists(W), NEW name \in HeaderName, NEW value \in Seq(W)
  PROVE  /\ AddNewHeader(list, name, value) \in HeaderLists(W)
         /\ Added(list, AddNewHeader(list, name, value), name, value)
<1> DEFINE e == [name |-> name, value |-> value]
           E == [name : HeaderName, value : Seq(W)]
<1>1. e \in E /\ list \in Seq(E)
  BY DEF HeaderLists
<1> HIDE DEF E
<1>2. /\ Append(list, e) \in Seq(E) /\ Len(Append(list, e)) = Len(list) + 1
      /\ Append(list, e)[Len(list) + 1] = e /\ \A j \in 1 .. Len(list) : Append(list, e)[j] = list[j]
  BY <1>1, AppendProperties
<1> QED
  BY <1>2 DEF AddNewHeader, HeaderLists, Added, E

LEMMA ExceptIs ==
  ASSUME NEW W, NEW list \in HeaderLists(W), NEW i \in 1 .. Len(list), NEW name \in HeaderName, NEW value \in Seq(W),
         name[1] = list[i].name[1]
  PROVE  /\ [list EXCEPT ![i] = [name |-> name, value |-> value]] \in HeaderLists(W)
         /\ Changed(list, [list EXCEPT ![i] = [name |-> name, value |-> value]], i, list[i].name[1], value)
<1> DEFINE e == [name |-> name, value |-> value]
           E == [name : HeaderName, value : Seq(W)]
<1>1. e \in E /\ list \in Seq(E) /\ e.name = name /\ e.value = value
  BY DEF HeaderLists
<1> HIDE DEF E, e
<1>2. /\ [list EXCEPT ![i] = e] \in Seq(E) /\ Len([list EXCEPT ![i] = e]) = Len(list)
      /\ [list EXCEPT ![i] = e][i] = e /\ \A j \in 1 .. Len(list) : j # i => [list EXCEPT ![i] = e][j] = list[j]
  BY <1>1
<1> QED
  BY <1>1, <1>2 DEF HeaderLists, Changed, E, e

LEMMA AppendValueIs ==
  ASSUME NEW W, NEW list \in HeaderLists(W), NEW i \in 1 .. Len(list), NEW separator \in Seq(W), NEW value \in Seq(W)
  PROVE  /\ AppendValueToHeader(list, i, separator, value) \in HeaderLists(W)
         /\ Changed(list, AppendValueToHeader(list, i, separator, value), i, list[i].name[1],
                    list[i].value \o separator \o value)
<1> DEFINE v == list[i].value \o separator \o value
           n == list[i].name
           e == [list[i] EXCEPT !.value = v]
           E == [name : HeaderName, value : Seq(W)]
<1>1. list \in Seq(E) /\ list[i] \in E
  <2>1. list \in Seq(E)
    BY DEF HeaderLists
  <2> HIDE DEF E
  <2> QED
    BY <2>1
<1>2. n \in HeaderName /\ list[i].value \in Seq(W)
  BY <1>1
<1>3. ASSUME NEW S, NEW a \in Seq(S), NEW b \in Seq(S) PROVE a \o b \in Seq(S)
  BY ConcatProperties
<1>4. v \in Seq(W)
  BY <1>2, <1>3
<1>5. AppendValueToHeader(list, i, separator, value) = [list EXCEPT ![i] = [list[i] EXCEPT !.value = v]]
  BY DEF AppendValueToHeader
<1> HIDE DEF v
<1>6. e = [name |-> n, value |-> v]
  <2>1. ASSUME NEW A, NEW B, NEW r \in [name : A, value : B], NEW w
        PROVE  [r EXCEPT !.value = w] = [name |-> r.name, value |-> w]
    OBVIOUS
  <2> QED
    BY <1>1, <2>1
<1>7. AppendValueToHeader(list, i, separator, value) = [list EXCEPT ![i] = [name |-> n, value |-> v]]
  BY <1>5, <1>6
<1> HIDE DEF n
<1>8. /\ [list EXCEPT ![i] = [name |-> n, value |-> v]] \in HeaderLists(W)
      /\ Changed(list, [list EXCEPT ![i] = [name |-> n, value |-> v]], i, list[i].name[1], v)
  BY <1>2, <1>4, ExceptIs DEF n
<1> QED
  BY <1>7, <1>8 DEF v

LEMMA AddedKeepsOne ==
  ASSUME NEW W, NEW list \in HeaderLists(W), NEW next \in HeaderLists(W), NEW name, NEW value, Added(list, next, name, value),
         OneOf(list), name[1] \in MultiLine \/ ~Has(list, name[1])
  PROVE  OneOf(next)
<1>1. Len(list) \in Nat
  BY DEF HeaderLists
<1> SUFFICES ASSUME NEW i \in 1 .. Len(next), NEW j \in 1 .. Len(next), i # j,
                    next[i].name[1] = next[j].name[1], next[i].name[1] \notin MultiLine
             PROVE  FALSE
  BY DEF OneOf
<1> DEFINE n == Len(list)
<1>2. (i \in 1 .. n \/ i = n + 1) /\ (j \in 1 .. n \/ j = n + 1)
  BY <1>1 DEF Added
<1> HIDE DEF n
<1>3. CASE i \in 1 .. n /\ j \in 1 .. n
  BY <1>3 DEF OneOf, Added, n
<1>4. CASE i = n + 1 /\ j \in 1 .. n
  BY <1>4 DEF Has, Added, n
<1>5. CASE i \in 1 .. n /\ j = n + 1
  BY <1>5 DEF Has, Added, n
<1> QED
  BY <1>2, <1>3, <1>4, <1>5

LEMMA ChangedKeepsOne ==
  ASSUME NEW list, NEW next, NEW i, NEW name, NEW value, Changed(list, next, i, name, value), OneOf(list)
  PROVE  OneOf(next)
<1>1. \A j \in 1 .. Len(list) : next[j].name[1] = list[j].name[1]
  BY DEF Changed
<1>2. Len(next) = Len(list)
  BY DEF Changed
<1> QED
  BY <1>1, <1>2 DEF OneOf

LEMMA ClearKeepsOne ==
  ASSUME NEW W, NEW list \in HeaderLists(W), OneOf(list), NEW name
  PROVE  ClearHeader(list, name) \in HeaderLists(W) /\ OneOf(ClearHeader(list, name))
<1> DEFINE E == [name : HeaderName, value : Seq(W)]
           s == ClearHeader(list, name)
<1>1. list \in Seq(E)
  BY DEF HeaderLists
<1> HIDE DEF E
<1>2. EntriesOf(s, list, Len(list), E)
  BY <1>1, ClearLeaves
<1> HIDE DEF s
<1>3. s \in Seq(E)
  BY <1>2 DEF EntriesOf
<1>4. PICK at \in [1 .. Len(s) -> 1 .. Len(list)] :
       /\ \A k, l \in 1 .. Len(s) : at[k] = at[l] => k = l
       /\ \A k \in 1 .. Len(s) : s[k] = list[at[k]]
  BY <1>2 DEF EntriesOf
<1>5. ASSUME NEW i \in 1 .. Len(s), NEW j \in 1 .. Len(s), i # j
      PROVE  s[i].name[1] # s[j].name[1] \/ s[i].name[1] \in MultiLine
  <2>1. at[i] \in 1 .. Len(list) /\ at[j] \in 1 .. Len(list) /\ at[i] # at[j]
    BY <1>4, <1>5
  <2> QED
    BY <1>4, <2>1 DEF OneOf
<1> QED
  BY <1>3, <1>5 DEF OneOf, s, HeaderLists, E

-----------------------------------------------------------------------------
(* A header line, with list as the list before it. *)
LEMMA FromHeader ==
  ASSUME NEW list \in HeaderLists(Word), NEW x \in Line, x.kind = "header", OneOf(list)
  PROVE  LET next == SetHeaderFromLine(list, x)
             n == x.name[1]
             v == Sanitized(x.value)
         IN  /\ next \in HeaderLists(Word) /\ OneOf(next) /\ v \in Seq(Word)
             /\ n \in Single \/ n \in MultiLine
             /\ \/ (n \in MultiLine \/ ~Has(list, n)) /\ Added(list, next, x.name, v)
                \/ n = "host" /\ Has(list, n) /\ next = list
                \/ /\ n \in Single \ {"host"} /\ Has(list, n)
                   /\ \E i \in 1 .. Len(list) : Changed(list, next, i, n, list[i].value \o <<",">> \o v)
<1> DEFINE next == SetHeaderFromLine(list, x)
           n == x.name[1]
           v == Sanitized(x.value)
           how == IF n = "host" THEN "NO_OVERWRITE" ELSE "APPEND"
           i == GetHeader(list, x.name)
<1>1. x.name \in HeaderName /\ x.value \in HeaderValue
  BY DEF Line
<1>2. v \in Seq(Word)
  BY <1>1, ValuesAre
<1>3. n \in Single \/ n \in MultiLine
  BY <1>1, NamesAre
<1>4. next = SetHeader(list, x.name, x.value, how)
  BY DEF SetHeaderFromLine
<1>5. \/ i = 0 /\ ~Has(list, n)
      \/ i \in 1 .. Len(list) /\ list[i].name[1] = n
  BY GetHeaderIs DEF HeaderLists
<1>6. Len(list) \in Nat
  BY DEF HeaderLists
<1>7. "host" \notin MultiLine
  BY DEF MultiLine
<1>8. next = IF n \in MultiLine /\ how = "APPEND" THEN AddNewHeader(list, x.name, v)
             ELSE IF n \in MultiLine /\ how = "OVERWRITE" THEN AddNewHeader(ClearHeader(list, x.name), x.name, v)
             ELSE IF i = 0 THEN AddNewHeader(list, x.name, v)
             ELSE CASE how = "NO_OVERWRITE" -> list
                    [] how = "OVERWRITE" -> [list EXCEPT ![i] = [name |-> x.name, value |-> v]]
                    [] how = "APPEND" -> Appends(list, i, x.name, v)
  BY <1>4 DEF SetHeader
<1> HIDE DEF next, i, v, n
<1>9. CASE n \in MultiLine \/ i = 0
  <2>1. next = AddNewHeader(list, x.name, v)
    BY <1>7, <1>8, <1>9
  <2>2. next \in HeaderLists(Word) /\ Added(list, next, x.name, v)
    BY <1>1, <1>2, <2>1, AddNewHeaderIs
  <2>3. n \in MultiLine \/ ~Has(list, n)
    BY <1>5, <1>6, <1>9
  <2>4. OneOf(next)
    BY <2>2, <2>3, AddedKeepsOne DEF n
  <2> QED
    BY <1>2, <1>3, <2>2, <2>3, <2>4 DEF next, n, v
<1>10. CASE n \notin MultiLine /\ i # 0 /\ n = "host"
  <2>1. next = list
    BY <1>8, <1>10
  <2>2. Has(list, n)
    BY <1>5, <1>10 DEF Has
  <2> QED
    BY <1>2, <1>3, <1>10, <2>1, <2>2 DEF next, n, v
<1>11. CASE n \notin MultiLine /\ i # 0 /\ n # "host"
  <2>1. next = Appends(list, i, x.name, v)
    BY <1>8, <1>11
  <2>2. i \in 1 .. Len(list) /\ list[i].name[1] = n
    BY <1>5, <1>11
  <2>3. list[i] \in [name : HeaderName, value : Seq(Word)]
    <3>1. ASSUME NEW S, NEW l \in Seq(S), NEW k \in 1 .. Len(l) PROVE l[k] \in S
      OBVIOUS
    <3> QED
      BY <2>2, <3>1 DEF HeaderLists
  <2>4. list[i].value # Erased /\ v # Erased
    BY <1>2, <2>3, ValuesAre
  <2> DEFINE renamed == [list EXCEPT ![i].name = x.name]
  <2>5. next = AppendValueToHeader(renamed, i, <<",">>, v)
    BY <2>1, <2>4 DEF Appends
  <2>6. renamed = [list EXCEPT ![i] = [name |-> x.name, value |-> list[i].value]]
    <3>1. [list[i] EXCEPT !.name = x.name] = [name |-> x.name, value |-> list[i].value]
      BY <2>3
    <3>2. renamed = [list EXCEPT ![i] = [list[i] EXCEPT !.name = x.name]]
      OBVIOUS
    <3> QED
      BY <3>1, <3>2
  <2>7. renamed \in HeaderLists(Word) /\ Changed(list, renamed, i, list[i].name[1], list[i].value)
    BY <1>1, <2>2, <2>3, <2>6, ExceptIs DEF n
  <2> HIDE DEF renamed
  <2>8. i \in 1 .. Len(renamed) /\ renamed[i].value = list[i].value /\ renamed[i].name[1] = n
    BY <2>2, <2>7 DEF Changed
  <2>9. <<",">> \in Seq(Word)
    BY ValuesAre
  <2>10. next \in HeaderLists(Word) /\ Changed(renamed, next, i, renamed[i].name[1], renamed[i].value \o <<",">> \o v)
    BY <1>2, <2>5, <2>7, <2>8, <2>9, AppendValueIs
  <2>11. OneOf(renamed)
    BY <2>7, ChangedKeepsOne
  <2> DEFINE w == list[i].value \o <<",">> \o v
  <2>12. Changed(renamed, next, i, n, w)
    BY <2>8, <2>10
  <2> HIDE DEF w
  <2>13. OneOf(next)
    BY <2>11, <2>12, ChangedKeepsOne
  <2>14. Changed(list, next, i, n, w)
    BY <2>2, <2>7, <2>12 DEF Changed
  <2>15. Has(list, n) /\ n \in Single \ {"host"}
    BY <1>3, <1>11, <2>2 DEF Has
  <2> QED
    BY <1>2, <1>3, <2>2, <2>10, <2>13, <2>14, <2>15 DEF next, n, v, w
<1> QED
  BY <1>9, <1>10, <1>11

(* A continuation of a list with entries goes to the last of them. *)
Separator(before, value) == IF before # <<>> /\ value # <<>> THEN <<" ">> ELSE <<>>

LEMMA FromContinuation ==
  ASSUME NEW list \in HeaderLists(Word), NEW x \in Line, x.kind = "continuation", list # <<>>, OneOf(list)
  PROVE  LET next == SetHeaderFromLine(list, x)
             n == Len(list)
         IN  /\ next \in HeaderLists(Word) /\ OneOf(next) /\ x.value \in Seq(Word)
             /\ n \in 1 .. n
             /\ Changed(list, next, n, list[n].name[1],
                        list[n].value \o Separator(list[n].value, x.value) \o x.value)
<1> DEFINE next == SetHeaderFromLine(list, x)
           n == Len(list)
           s == Separator(list[n].value, x.value)
<1>1. n \in Nat /\ n >= 1 /\ n \in 1 .. n
  <2>1. ASSUME NEW S, NEW l \in Seq(S), l # <<>> PROVE Len(l) \in Nat /\ Len(l) >= 1
    BY <2>1, EmptySeq
  <2>2. n \in Nat /\ n >= 1
    BY <2>1 DEF HeaderLists
  <2> QED
    BY <2>2
<1>2. x.value \in Seq(Word)
  <2>1. x.value \in {<<>>, <<"c">>}
    BY DEF Line
  <2>2. "c" \in Word
    BY DEF Word
  <2> QED
    BY <2>1, <2>2, SmallSequences, Zenon
<1>3. s \in Seq(Word)
  BY ValuesAre DEF Separator
<1>4. next = AppendValueToHeader(list, n, s, x.value)
  BY DEF SetHeaderFromLine, Separator
<1> HIDE DEF n, s, next
<1>5. /\ next \in HeaderLists(Word)
      /\ Changed(list, next, n, list[n].name[1], list[n].value \o s \o x.value)
  BY <1>1, <1>2, <1>3, <1>4, AppendValueIs DEF n
<1>6. OneOf(next)
  BY <1>5, ChangedKeepsOne
<1> QED
  BY <1>1, <1>2, <1>5, <1>6 DEF n, s, next

LEMMA FromOther ==
  ASSUME NEW list, NEW x \in Line, x.kind # "header", x.kind = "continuation" => list = <<>>
  PROVE  SetHeaderFromLine(list, x) = list
BY DEF SetHeaderFromLine

-----------------------------------------------------------------------------
(* The list and what the lines say of a single-valued name, s.  The last   *)
(* header line tells where a continuation goes: if its name is new, to the *)
(* last entry, which is that name's.                                       *)
SentState == [there : BOOLEAN, open : BOOLEAN, value : Seq(Word)]

Agrees(list, lines, name, s) ==
  /\ s \in SentState
  /\ s.there <=> SentBefore(lines, name)
  /\ s.there <=> Has(list, name)
  /\ ~ContinuesMerged(lines) => \A i \in 1 .. Len(list) : list[i].name[1] = name => list[i].value = s.value
  /\ NoHeader(lines) => ~s.open
  /\ \A k : LastHeader(lines, k) /\ Fresh(lines, k) => (s.open <=> lines[k].name[1] = name)

Tip(list, lines) ==
  /\ NoHeader(lines) \/ \E k : LastHeader(lines, k)
  /\ NoHeader(lines) => list = <<>>
  /\ \A k : LastHeader(lines, k) /\ Fresh(lines, k) =>
       list # <<>> /\ list[Len(list)].name[1] = lines[k].name[1]

LEMMA HeardIs ==
  ASSUME NEW s \in SentState, NEW x \in Line, NEW name
  PROVE  /\ Counts(s, x, name) =>
              /\ Heard(s, x, name).there /\ Heard(s, x, name).open
              /\ s.there => Heard(s, x, name).value = s.value \o <<",">> \o Sanitized(x.value)
              /\ ~s.there => Heard(s, x, name).value = Sanitized(x.value)
         /\ x.kind = "header" /\ ~Counts(s, x, name) =>
              /\ Heard(s, x, name).there = s.there /\ Heard(s, x, name).value = s.value
              /\ ~Heard(s, x, name).open
         /\ x.kind = "continuation" /\ s.open =>
              /\ Heard(s, x, name).there = s.there /\ Heard(s, x, name).open
              /\ Heard(s, x, name).value = s.value \o Separator(s.value, x.value) \o x.value
         /\ x.kind # "header" /\ ~(x.kind = "continuation" /\ s.open) => Heard(s, x, name) = s
         /\ Heard(s, x, name) \in SentState
<1> DEFINE h == Heard(s, x, name)
<1>1. s.there \in BOOLEAN /\ s.open \in BOOLEAN /\ s.value \in Seq(Word)
  BY DEF SentState
<1>2. ASSUME NEW a \in Seq(Word), NEW b \in Seq(Word) PROVE a \o b \in Seq(Word)
  BY <1>2, ConcatProperties
<1>3. <<",">> \in Seq(Word) /\ <<" ">> \in Seq(Word) /\ <<>> \in Seq(Word)
  BY ValuesAre
<1>4. Counts(s, x, name) => x.kind = "header"
  BY DEF Counts
<1>5. CASE Counts(s, x, name)
  <2>1. Sanitized(x.value) \in Seq(Word)
    BY <1>4, <1>5, ValuesAre DEF Line
  <2> DEFINE v == IF s.there THEN s.value \o <<",">> \o Sanitized(x.value) ELSE Sanitized(x.value)
  <2>2. h = [there |-> TRUE, open |-> TRUE, value |-> v]
    BY <1>4, <1>5, Zenon DEF Heard
  <2>3. s.value \o <<",">> \o Sanitized(x.value) \in Seq(Word)
    BY <1>1, <1>2, <1>3, <2>1
  <2>4. v \in Seq(Word)
    BY <2>1, <2>3
  <2>5. s.there => v = s.value \o <<",">> \o Sanitized(x.value)
    OBVIOUS
  <2>6. ~s.there => v = Sanitized(x.value)
    OBVIOUS
  <2> HIDE DEF v, h
  <2>7. h \in SentState
    BY <2>2, <2>4, Zenon DEF SentState
  <2>8. h.there /\ h.open /\ h.value = v
    BY <2>2, Zenon
  <2> QED
    BY <1>4, <1>5, <2>5, <2>6, <2>7, <2>8 DEF h
<1>6. CASE x.kind = "header" /\ ~Counts(s, x, name)
  <2>1. h = [s EXCEPT !.open = FALSE]
    BY <1>6 DEF Heard
  <2> QED
    BY <1>6, <2>1 DEF SentState
<1>7. CASE x.kind = "continuation" /\ s.open
  <2> DEFINE v == s.value \o Separator(s.value, x.value) \o x.value
  <2>1. ~Counts(s, x, name) /\ x.kind # "header"
    BY <1>4, <1>7
  <2>2. h = [s EXCEPT !.value = v]
    BY <1>7, <2>1 DEF Heard, Separator
  <2>3. x.value \in Seq(Word)
    <3>1. x.value \in {<<>>, <<"c">>}
      BY <1>7 DEF Line
    <3>2. "c" \in Word
      BY DEF Word
    <3> QED
      BY <3>1, <3>2, SmallSequences, Zenon
  <2>4. Separator(s.value, x.value) \in Seq(Word)
    BY <1>3 DEF Separator
  <2>5. v \in Seq(Word)
    BY <1>1, <1>2, <2>3, <2>4
  <2> HIDE DEF v
  <2>6. h \in SentState /\ h.there = s.there /\ h.open = s.open /\ h.value = v
    BY <2>2, <2>5 DEF SentState
  <2> QED
    BY <1>7, <2>1, <2>6 DEF v
<1>8. CASE x.kind # "header" /\ ~(x.kind = "continuation" /\ s.open)
  <2>1. h = s
    BY <1>4, <1>8 DEF Heard
  <2> QED
    BY <1>4, <1>8, <2>1
<1> QED
  BY <1>4, <1>5, <1>6, <1>7, <1>8

LEMMA HasAdded ==
  ASSUME NEW W, NEW list \in HeaderLists(W), NEW next, NEW name, NEW value, NEW n, Added(list, next, name, value)
  PROVE  /\ Has(next, n) <=> Has(list, n) \/ name[1] = n
         /\ Len(next) = Len(list) + 1 /\ Len(list) \in Nat
         /\ \A i \in 1 .. Len(next) : i = Len(next) \/ (i \in 1 .. Len(list) /\ next[i] = list[i])
<1> DEFINE m == Len(list)
<1>1. m \in Nat
  BY DEF HeaderLists
<1>2. \A i : i \in 1 .. m + 1 <=> i \in 1 .. m \/ i = m + 1
  BY <1>1
<1> HIDE DEF m
<1>3. Len(next) = m + 1 /\ next[m + 1].name = name /\ \A j \in 1 .. m : next[j] = list[j]
  BY DEF Added, m
<1>4. Has(next, n) <=> \E i \in 1 .. m + 1 : next[i].name[1] = n
  BY <1>3 DEF Has
<1>5. Has(list, n) <=> \E i \in 1 .. m : list[i].name[1] = n
  BY DEF Has, m
<1> QED
  BY <1>1, <1>2, <1>3, <1>4, <1>5 DEF m

LEMMA HasChanged ==
  ASSUME NEW list, NEW next, NEW i, NEW name, NEW value, NEW n, Changed(list, next, i, name, value)
  PROVE  (Has(next, n) <=> Has(list, n)) /\ \A j \in 1 .. Len(list) : next[j].name[1] = list[j].name[1]
<1>1. Len(next) = Len(list) /\ \A j \in 1 .. Len(list) : next[j].name[1] = list[j].name[1]
  BY DEF Changed
<1> QED
  BY <1>1 DEF Has

(* After a header line the list agrees with the lines as before. *)
LEMMA HeaderAgrees ==
  ASSUME NEW lines \in Seq(Line), NEW x \in Line, x.kind = "header",
         NEW list \in HeaderLists(Word), OneOf(list), NEW name \in Single, NEW s, Agrees(list, lines, name, s)
  PROVE  Agrees(SetHeaderFromLine(list, x), Append(lines, x), name, Heard(s, x, name))
<1> DEFINE next == SetHeaderFromLine(list, x)
           more == Append(lines, x)
           n == x.name[1]
           v == Sanitized(x.value)
           h == Heard(s, x, name)
<1>1. /\ s \in SentState /\ s.there \in BOOLEAN /\ s.open \in BOOLEAN
      /\ s.there <=> SentBefore(lines, name)
      /\ s.there <=> Has(list, name)
      /\ ~ContinuesMerged(lines) => \A i \in 1 .. Len(list) : list[i].name[1] = name => list[i].value = s.value
  BY DEF Agrees, SentState
<1>2. /\ next \in HeaderLists(Word) /\ OneOf(next) /\ (n \in Single \/ n \in MultiLine)
      /\ \/ (n \in MultiLine \/ ~Has(list, n)) /\ Added(list, next, x.name, v)
         \/ n = "host" /\ Has(list, n) /\ next = list
         \/ /\ n \in Single \ {"host"} /\ Has(list, n)
            /\ \E i \in 1 .. Len(list) : Changed(list, next, i, n, list[i].value \o <<",">> \o v)
  BY FromHeader
<1>3. name \notin MultiLine
  BY DEF Single, MultiLine
<1>4. SentBefore(more, name) <=> SentBefore(lines, name) \/ n = name
  BY SentBeforeAppend DEF IsHeader
<1>5. ContinuesMerged(lines) => ContinuesMerged(more)
  BY MergedAppend
<1>6. ~NoHeader(more)
  <2>1. Len(more) = Len(lines) + 1 /\ more[Len(lines) + 1] = x /\ Len(lines) \in Nat
    BY LinesAppend
  <2>2. Len(lines) + 1 \in 1 .. Len(more)
    BY <2>1
  <2> QED
    BY <2>1, <2>2 DEF NoHeader
<1>7. \A k : LastHeader(more, k) => more[k] = x /\ (Fresh(more, k) <=> ~SentBefore(lines, n))
  BY HeaderIsLast
<1>8. Counts(s, x, name) <=> n = name /\ (name # "host" \/ ~s.there)
  BY DEF Counts
<1>9. /\ Counts(s, x, name) =>
           /\ h.there /\ h.open
           /\ s.there => h.value = s.value \o <<",">> \o v
           /\ ~s.there => h.value = v
      /\ ~Counts(s, x, name) => h.there = s.there /\ h.value = s.value /\ ~h.open
      /\ h \in SentState
  <2>1. s \in SentState
    BY <1>1
  <2> QED
    BY <2>1, HeardIs
<1>10. h.there \in BOOLEAN /\ h.open \in BOOLEAN
  BY <1>9 DEF SentState
<1> HIDE DEF next, more, n, v, h
<1>11. h.there <=> SentBefore(more, name)
  BY <1>1, <1>4, <1>8, <1>9
<1>12. \A k : LastHeader(more, k) /\ Fresh(more, k) => (h.open <=> more[k].name[1] = name)
  BY <1>1, <1>7, <1>8, <1>9 DEF n
<1>13. CASE (n \in MultiLine \/ ~Has(list, n)) /\ Added(list, next, x.name, v)
  <2>1. /\ Has(next, name) <=> Has(list, name) \/ n = name
        /\ Len(next) = Len(list) + 1 /\ Len(list) \in Nat
        /\ \A i \in 1 .. Len(next) : i = Len(next) \/ (i \in 1 .. Len(list) /\ next[i] = list[i])
    <3>1. /\ Has(next, name) <=> Has(list, name) \/ x.name[1] = name
          /\ Len(next) = Len(list) + 1 /\ Len(list) \in Nat
          /\ \A i \in 1 .. Len(next) : i = Len(next) \/ (i \in 1 .. Len(list) /\ next[i] = list[i])
      BY <1>13, HasAdded
    <3> QED
      BY <3>1 DEF n
  <2>2. h.there <=> Has(next, name)
    BY <1>1, <1>4, <1>11, <2>1
  <2>3. next[Len(next)].name[1] = n /\ next[Len(next)].value = v
    BY <1>13, <2>1 DEF Added, n
  <2>4. ASSUME ~ContinuesMerged(more), NEW i \in 1 .. Len(next), next[i].name[1] = name
        PROVE  next[i].value = h.value
    <3>1. CASE n = name
      <4>1. ~s.there
        BY <1>1, <1>3, <1>13, <3>1
      <4>2. h.value = v
        BY <1>8, <1>9, <3>1, <4>1
      <4>3. i = Len(next)
        <5>1. SUFFICES ASSUME i \in 1 .. Len(list), next[i] = list[i] PROVE FALSE
          BY <2>1
        <5> QED
          BY <1>1, <2>4, <4>1, <5>1 DEF Has
      <4> QED
        BY <2>3, <4>2, <4>3
    <3>2. CASE n # name
      <4>1. i \in 1 .. Len(list) /\ next[i] = list[i]
        BY <2>1, <2>3, <2>4, <3>2
      <4>2. h.value = s.value
        BY <1>8, <1>9, <3>2
      <4> QED
        BY <1>1, <1>5, <2>4, <4>1, <4>2
    <3> QED
      BY <3>1, <3>2
  <2> QED
    BY <1>6, <1>9, <1>11, <1>12, <2>2, <2>4 DEF Agrees, next, more, h
<1>14. CASE n = "host" /\ Has(list, n) /\ next = list
  <2>1. ~Counts(s, x, name)
    BY <1>1, <1>8, <1>14
  <2>2. h.there = s.there /\ h.value = s.value
    BY <1>9, <2>1
  <2>3. h.there <=> Has(next, name)
    BY <1>1, <1>14, <2>2
  <2>4. ~ContinuesMerged(more) => \A i \in 1 .. Len(next) : next[i].name[1] = name => next[i].value = h.value
    BY <1>1, <1>5, <1>14, <2>2
  <2> QED
    BY <1>6, <1>9, <1>11, <1>12, <2>3, <2>4 DEF Agrees, next, more, h
<1>15. ASSUME n \in Single \ {"host"}, Has(list, n), NEW i \in 1 .. Len(list),
              Changed(list, next, i, n, list[i].value \o <<",">> \o v)
       PROVE  Agrees(next, more, name, h)
  <2> DEFINE w == list[i].value \o <<",">> \o v
  <2>1. Changed(list, next, i, n, w)
    BY <1>15
  <2> HIDE DEF w
  <2>2. (Has(next, name) <=> Has(list, name)) /\ \A j \in 1 .. Len(list) : next[j].name[1] = list[j].name[1]
    BY <2>1, HasChanged
  <2>3. h.there <=> Has(next, name)
    BY <1>1, <1>8, <1>9, <1>15, <2>2
  <2>4. /\ Len(next) = Len(list) /\ list[i].name[1] = n /\ next[i].value = w
        /\ \A j \in 1 .. Len(list) : j # i => next[j] = list[j]
    BY <2>1 DEF Changed
  <2>5. ASSUME ~ContinuesMerged(more), NEW j \in 1 .. Len(next), next[j].name[1] = name
        PROVE  next[j].value = h.value
    <3>1. j \in 1 .. Len(list) /\ list[j].name[1] = name
      BY <2>2, <2>4, <2>5
    <3>2. list[j].value = s.value
      BY <1>1, <1>5, <2>5, <3>1
    <3>3. CASE n = name
      <4>1. j = i
        BY <1>3, <2>4, <3>1, <3>3 DEF OneOf
      <4>2. h.value = s.value \o <<",">> \o v
        BY <1>1, <1>8, <1>9, <1>15, <3>3
      <4>3. w = s.value \o <<",">> \o v
        BY <3>2, <4>1 DEF w
      <4> QED
        BY <2>4, <4>1, <4>2, <4>3
    <3>4. CASE n # name
      <4>1. j # i
        BY <2>4, <3>1, <3>4
      <4>2. h.value = s.value
        BY <1>8, <1>9, <3>4
      <4> QED
        BY <2>4, <3>1, <3>2, <4>1, <4>2
    <3> QED
      BY <3>3, <3>4
  <2> QED
    BY <1>6, <1>9, <1>11, <1>12, <2>3, <2>5 DEF Agrees
<1> QED
  BY <1>2, <1>13, <1>14, <1>15 DEF next, more, h

LEMMA HeaderTip ==
  ASSUME NEW lines \in Seq(Line), NEW x \in Line, x.kind = "header",
         NEW list \in HeaderLists(Word), OneOf(list), \A name \in Single : Has(list, name) <=> SentBefore(lines, name)
  PROVE  Tip(SetHeaderFromLine(list, x), Append(lines, x))
<1> DEFINE next == SetHeaderFromLine(list, x)
           more == Append(lines, x)
           n == x.name[1]
           v == Sanitized(x.value)
<1>1. /\ n \in Single \/ n \in MultiLine
      /\ \/ (n \in MultiLine \/ ~Has(list, n)) /\ Added(list, next, x.name, v)
         \/ n = "host" /\ Has(list, n)
         \/ n \in Single \ {"host"} /\ Has(list, n)
  BY FromHeader
<1>2. /\ Len(more) = Len(lines) + 1 /\ more[Len(lines) + 1] = x /\ Len(lines) \in Nat
      /\ Len(lines) + 1 \in 1 .. Len(more) /\ (Len(lines) + 1) + 1 .. Len(more) = {}
  BY LinesAppend
<1>3. ~NoHeader(more)
  BY <1>2 DEF NoHeader
<1>4. LastHeader(more, Len(lines) + 1)
  BY <1>2 DEF LastHeader
<1>5. \A k : LastHeader(more, k) => more[k] = x /\ (Fresh(more, k) <=> ~SentBefore(lines, n))
  BY HeaderIsLast
<1>6. next \in HeaderLists(Word)
  BY FromHeader
<1> HIDE DEF next, more, n, v
<1>7. ASSUME NEW k, LastHeader(more, k), Fresh(more, k)
      PROVE  next # <<>> /\ next[Len(next)].name[1] = more[k].name[1]
  <2>1. more[k] = x /\ ~SentBefore(lines, n)
    BY <1>5, <1>7
  <2>2. Added(list, next, x.name, v)
    BY <1>1, <2>1 DEF Single
  <2>3. Len(next) = Len(list) + 1 /\ Len(list) \in Nat /\ next[Len(list) + 1].name = x.name
    BY <2>2, HasAdded DEF Added
  <2>4. next # <<>>
    BY <2>3, EmptySeq
  <2> QED
    BY <2>1, <2>3, <2>4
<1> QED
  BY <1>3, <1>4, <1>7 DEF Tip, next, more

(* After a continuation: it goes where the lines say it belongs, unless    *)
(* the last header line has a name that was there already.                 *)
LEMMA ContinuationAgrees ==
  ASSUME NEW lines \in Seq(Line), NEW x \in Line, x.kind = "continuation",
         NEW list \in HeaderLists(Word), OneOf(list), Tip(list, lines), list # <<>>,
         NEW name \in Single, NEW s, Agrees(list, lines, name, s)
  PROVE  Agrees(SetHeaderFromLine(list, x), Append(lines, x), name, Heard(s, x, name))
<1> DEFINE next == SetHeaderFromLine(list, x)
           more == Append(lines, x)
           h == Heard(s, x, name)
           last == Len(list)
           w == list[last].value \o Separator(list[last].value, x.value) \o x.value
<1>1. /\ s \in SentState /\ s.there \in BOOLEAN /\ s.open \in BOOLEAN
      /\ s.there <=> SentBefore(lines, name)
      /\ s.there <=> Has(list, name)
      /\ ~ContinuesMerged(lines) => \A i \in 1 .. Len(list) : list[i].name[1] = name => list[i].value = s.value
      /\ NoHeader(lines) => ~s.open
      /\ \A k : LastHeader(lines, k) /\ Fresh(lines, k) => (s.open <=> lines[k].name[1] = name)
  BY DEF Agrees, SentState
<1>2. next \in HeaderLists(Word) /\ OneOf(next) /\ last \in 1 .. last /\ Changed(list, next, last, list[last].name[1], w)
  BY FromContinuation
<1>3. /\ s.open => h.there = s.there /\ h.open /\ h.value = s.value \o Separator(s.value, x.value) \o x.value
      /\ ~s.open => h = s
      /\ h \in SentState
  <2>1. s \in SentState
    BY <1>1
  <2> QED
    BY <2>1, HeardIs
<1>4. SentBefore(more, name) <=> SentBefore(lines, name)
  BY SentBeforeAppend DEF IsHeader
<1>5. /\ \A k : LastHeader(more, k) <=> LastHeader(lines, k)
      /\ \A k : LastHeader(lines, k) => more[k] = lines[k] /\ (Fresh(more, k) <=> Fresh(lines, k))
      /\ NoHeader(more) <=> NoHeader(lines)
  BY LastHeaderStays
<1>6. /\ ContinuesMerged(lines) => ContinuesMerged(more)
      /\ \A k : LastHeader(lines, k) /\ ~Fresh(lines, k) => ContinuesMerged(more)
  BY MergedAppend
<1> HIDE DEF next, more, h, w, last
<1>7. (Has(next, name) <=> Has(list, name)) /\ \A j \in 1 .. Len(list) : next[j].name[1] = list[j].name[1]
  <2>1. PICK n : Changed(list, next, last, n, w)
    BY <1>2
  <2> QED
    BY <2>1, HasChanged
<1>8. h.there = s.there /\ h.open = s.open
  BY <1>1, <1>3
<1>9. ASSUME ~ContinuesMerged(more), NEW i \in 1 .. Len(next), next[i].name[1] = name
      PROVE  next[i].value = h.value
  <2>1. /\ Len(next) = Len(list) /\ next[last].value = w
        /\ \A j \in 1 .. Len(list) : j # last => next[j] = list[j]
    BY <1>2 DEF Changed
  <2>2. i \in 1 .. Len(list) /\ list[i].name[1] = name
    BY <1>7, <1>9, <2>1
  <2>3. list[i].value = s.value
    BY <1>1, <1>6, <1>9, <2>2
  <2>4. ~NoHeader(lines)
    BY DEF Tip
  <2>5. PICK k : LastHeader(lines, k)
    BY <2>4 DEF Tip
  <2>6. Fresh(lines, k)
    BY <1>6, <1>9, <2>5
  <2>7. list[last].name[1] = lines[k].name[1]
    BY <2>5, <2>6 DEF Tip, last
  <2>8. s.open <=> lines[k].name[1] = name
    BY <1>1, <2>5, <2>6
  <2>9. name \notin MultiLine
    BY DEF Single, MultiLine
  <2>10. CASE i = last
    <3>1. s.open
      BY <2>2, <2>7, <2>8, <2>10
    <3> QED
      BY <1>3, <2>1, <2>3, <2>10, <3>1 DEF w
  <2>11. CASE i # last
    <3>1. last \in 1 .. Len(list)
      BY <1>2 DEF last
    <3>2. list[last].name[1] # name
      BY <2>2, <2>9, <2>11, <3>1 DEF OneOf
    <3>3. h = s
      BY <1>3, <2>7, <2>8, <3>2
    <3> QED
      BY <2>1, <2>2, <2>3, <2>11, <3>3
  <2> QED
    BY <2>10, <2>11
<1>10. h.there <=> SentBefore(more, name)
  BY <1>1, <1>4, <1>8
<1>11. h.there <=> Has(next, name)
  BY <1>1, <1>7, <1>8
<1>12. NoHeader(more) => ~h.open
  BY <1>1, <1>5, <1>8
<1>13. \A k : LastHeader(more, k) /\ Fresh(more, k) => (h.open <=> more[k].name[1] = name)
  BY <1>1, <1>5, <1>8
<1> QED
  BY <1>3, <1>9, <1>10, <1>11, <1>12, <1>13 DEF Agrees, next, more, h

LEMMA ContinuationTip ==
  ASSUME NEW lines \in Seq(Line), NEW x \in Line, x.kind = "continuation",
         NEW list \in HeaderLists(Word), OneOf(list), Tip(list, lines), list # <<>>
  PROVE  Tip(SetHeaderFromLine(list, x), Append(lines, x))
<1> DEFINE next == SetHeaderFromLine(list, x)
           more == Append(lines, x)
           last == Len(list)
           w == list[last].value \o Separator(list[last].value, x.value) \o x.value
<1>1. last \in 1 .. last /\ Changed(list, next, last, list[last].name[1], w) /\ next \in HeaderLists(Word)
  BY FromContinuation
<1>2. /\ \A k : LastHeader(more, k) <=> LastHeader(lines, k)
      /\ \A k : LastHeader(lines, k) => more[k] = lines[k] /\ (Fresh(more, k) <=> Fresh(lines, k))
      /\ NoHeader(more) <=> NoHeader(lines)
  BY LastHeaderStays
<1> HIDE DEF next, more, w
<1>3. Len(next) = last /\ next[last].name[1] = list[last].name[1]
  BY <1>1 DEF Changed
<1>4. next # <<>>
  BY <1>1, <1>3, EmptySeq
<1> QED
  BY <1>2, <1>3, <1>4 DEF Tip, next, more

(* Any other line, and a continuation of nothing, changes nothing. *)
LEMMA OtherAgrees ==
  ASSUME NEW lines \in Seq(Line), NEW x \in Line, x.kind # "header",
         NEW list, Tip(list, lines), x.kind = "continuation" => list = <<>>,
         NEW name \in Single, NEW s, Agrees(list, lines, name, s)
  PROVE  Agrees(list, Append(lines, x), name, Heard(s, x, name)) /\ Tip(list, Append(lines, x))
<1> DEFINE more == Append(lines, x)
<1>1. s \in SentState
  BY DEF Agrees
<1>2. SentBefore(more, name) <=> SentBefore(lines, name)
  BY SentBeforeAppend DEF IsHeader
<1>3. /\ \A k : LastHeader(more, k) <=> LastHeader(lines, k)
      /\ \A k : LastHeader(lines, k) => more[k] = lines[k] /\ (Fresh(more, k) <=> Fresh(lines, k))
      /\ NoHeader(more) <=> NoHeader(lines)
  BY LastHeaderStays
<1>4. /\ ContinuesMerged(lines) => ContinuesMerged(more)
      /\ \A k : x.kind = "continuation" /\ LastHeader(lines, k) /\ ~Fresh(lines, k) => ContinuesMerged(more)
  BY MergedAppend
<1> HIDE DEF more
<1>5. Tip(list, more)
  BY <1>3 DEF Tip
<1>6. CASE x.kind = "continuation" /\ s.open
  <2>1. list = <<>>
    BY <1>6
  <2>2. Len(list) = 0 /\ 1 .. 0 = {}
    BY <2>1, EmptySeq
  <2> DEFINE h == Heard(s, x, name)
  <2>3. h \in SentState /\ h.there = s.there /\ h.open
    BY <1>1, <1>6, HeardIs
  <2> HIDE DEF h
  <2>4. ~Has(list, name)
    BY <2>2 DEF Has
  <2> QED
    BY <1>2, <1>3, <1>5, <1>6, <2>2, <2>3, <2>4 DEF Agrees, h, more
<1>7. CASE ~(x.kind = "continuation" /\ s.open)
  <2>1. Heard(s, x, name) = s
    BY <1>1, <1>7, HeardIs
  <2>2. Agrees(list, more, name, s)
    BY <1>2, <1>3, <1>4 DEF Agrees
  <2> QED
    BY <1>5, <2>1, <2>2 DEF more
<1> QED
  BY <1>6, <1>7

-----------------------------------------------------------------------------
(* Every document and every edit. *)
LEMMA SetHeaderKeeps ==
  ASSUME NEW list \in HeaderLists(AnyWord), OneOf(list), NEW name \in HeaderName, NEW raw \in {<<"x">>, Erased},
         NEW overwrite \in {"APPEND", "OVERWRITE", "NO_OVERWRITE"}
  PROVE  SetHeader(list, name, raw, overwrite) \in HeaderLists(AnyWord) /\ OneOf(SetHeader(list, name, raw, overwrite))
<1> DEFINE next == SetHeader(list, name, raw, overwrite)
           v == Sanitized(raw)
           i == GetHeader(list, name)
           n == name[1]
<1>1. v \in Seq(AnyWord)
  BY ValuesAre
<1>2. \/ i = 0 /\ ~Has(list, n)
      \/ i \in 1 .. Len(list) /\ list[i].name[1] = n
  BY GetHeaderIs DEF HeaderLists
<1>3. Len(list) \in Nat /\ (i # 0 => list[i] \in [name : HeaderName, value : Seq(AnyWord)])
  <2>1. ASSUME NEW S, NEW l \in Seq(S) PROVE Len(l) \in Nat /\ \A k \in 1 .. Len(l) : l[k] \in S
    OBVIOUS
  <2> HIDE DEF i
  <2> QED
    BY <1>2, <2>1 DEF HeaderLists
<1>4. \/ n \in MultiLine /\ next = AddNewHeader(list, name, v)
      \/ n \in MultiLine /\ next = AddNewHeader(ClearHeader(list, name), name, v)
      \/ i = 0 /\ next = AddNewHeader(list, name, v)
      \/ i # 0 /\ next = list
      \/ i # 0 /\ next = [list EXCEPT ![i] = [name |-> name, value |-> v]]
      \/ i # 0 /\ next = AppendValueToHeader([list EXCEPT ![i].name = name], i, <<",">>, v)
  <2>1. next = IF n \in MultiLine /\ overwrite = "APPEND" THEN AddNewHeader(list, name, v)
               ELSE IF n \in MultiLine /\ overwrite = "OVERWRITE" THEN AddNewHeader(ClearHeader(list, name), name, v)
               ELSE IF i = 0 THEN AddNewHeader(list, name, v)
               ELSE CASE overwrite = "NO_OVERWRITE" -> list
                      [] overwrite = "OVERWRITE" -> [list EXCEPT ![i] = [name |-> name, value |-> v]]
                      [] overwrite = "APPEND" -> Appends(list, i, name, v)
    BY DEF SetHeader
  <2> HIDE DEF next, v, i, n
  <2>2. \/ Appends(list, i, name, v) = list
        \/ Appends(list, i, name, v) = [list EXCEPT ![i] = [name |-> name, value |-> v]]
        \/ Appends(list, i, name, v) = AppendValueToHeader([list EXCEPT ![i].name = name], i, <<",">>, v)
    BY DEF Appends
  <2> QED
    BY <2>1, <2>2
<1> HIDE DEF next, v, i
<1>5. CASE next = AddNewHeader(list, name, v) /\ (n \in MultiLine \/ ~Has(list, n))
  <2>1. next \in HeaderLists(AnyWord) /\ Added(list, next, name, v)
    BY <1>1, <1>5, AddNewHeaderIs
  <2>2. OneOf(next)
    BY <1>5, <2>1, AddedKeepsOne
  <2> QED
    BY <2>1, <2>2 DEF next
<1>6. CASE n \in MultiLine /\ next = AddNewHeader(ClearHeader(list, name), name, v)
  <2> DEFINE rest == ClearHeader(list, name)
  <2>1. rest \in HeaderLists(AnyWord) /\ OneOf(rest)
    BY ClearKeepsOne
  <2> HIDE DEF rest
  <2>2. next \in HeaderLists(AnyWord) /\ Added(rest, next, name, v)
    BY <1>1, <1>6, <2>1, AddNewHeaderIs DEF rest
  <2>3. OneOf(next)
    BY <1>6, <2>1, <2>2, AddedKeepsOne
  <2> QED
    BY <2>2, <2>3 DEF next
<1>7. CASE i # 0 /\ next = list
  BY <1>7 DEF next
<1>8. CASE i # 0 /\ next = [list EXCEPT ![i] = [name |-> name, value |-> v]]
  <2>1. i \in 1 .. Len(list) /\ name[1] = list[i].name[1]
    BY <1>2, <1>8
  <2>2. next \in HeaderLists(AnyWord) /\ Changed(list, next, i, list[i].name[1], v)
    BY <1>1, <1>8, <2>1, ExceptIs
  <2>3. PICK m : Changed(list, next, i, m, v)
    BY <2>2
  <2>4. OneOf(next)
    BY <2>3, ChangedKeepsOne
  <2> QED
    BY <2>2, <2>4 DEF next
<1>9. CASE i # 0 /\ next = AppendValueToHeader([list EXCEPT ![i].name = name], i, <<",">>, v)
  <2> DEFINE renamed == [list EXCEPT ![i].name = name]
             old == list[i].value
  <2>1. i \in 1 .. Len(list) /\ name[1] = list[i].name[1] /\ old \in Seq(AnyWord)
    BY <1>2, <1>3, <1>9
  <2>2. renamed = [list EXCEPT ![i] = [name |-> name, value |-> old]]
    <3>1. [list[i] EXCEPT !.name = name] = [name |-> name, value |-> old]
      <4>1. list[i] \in [name : HeaderName, value : Seq(AnyWord)]
        BY <1>3, <1>9
      <4> QED
        BY <4>1
    <3>2. renamed = [list EXCEPT ![i] = [list[i] EXCEPT !.name = name]]
      OBVIOUS
    <3> QED
      BY <3>1, <3>2
  <2> HIDE DEF renamed, old
  <2>3. renamed \in HeaderLists(AnyWord) /\ Changed(list, renamed, i, list[i].name[1], old)
    BY <2>1, <2>2, ExceptIs
  <2>4. PICK m : Changed(list, renamed, i, m, old)
    BY <2>3
  <2>5. OneOf(renamed) /\ i \in 1 .. Len(renamed)
    BY <2>4, ChangedKeepsOne DEF Changed
  <2>6. <<",">> \in Seq(AnyWord)
    BY ValuesAre
  <2>7. /\ next \in HeaderLists(AnyWord)
        /\ Changed(renamed, next, i, renamed[i].name[1], renamed[i].value \o <<",">> \o v)
    BY <1>1, <1>9, <2>3, <2>5, <2>6, AppendValueIs DEF renamed
  <2>8. PICK m2, w : Changed(renamed, next, i, m2, w)
    BY <2>7
  <2>9. OneOf(next)
    BY <2>5, <2>8, ChangedKeepsOne
  <2> QED
    BY <2>7, <2>9 DEF next
<1>10. i = 0 => ~Has(list, n)
  BY <1>2, <1>3
<1> QED
  BY <1>4, <1>5, <1>6, <1>7, <1>8, <1>9, <1>10

ParseState == [num : Nat, result : {"parsing", "true", "false"}, body : {"none", "whole", "empty", "rest"}]

(* The list agrees with the lines while they are parsed and afterwards if  *)
(* any was counted; then the other parse counted it too.                   *)
Recording == hh_parse.num > 0 \/ hh_parse.result = "parsing"

HttpInv ==
  /\ hh_lines \in Seq(Line) /\ hh_edits \in Nat /\ hh_parse \in ParseState /\ hh_bare \in ParseState
  /\ hh_list \in HeaderLists(AnyWord) /\ OneOf(hh_list)
  /\ hh_edits > 0 => hh_parse.result # "parsing" /\ hh_bare.result # "parsing"
  /\ SameBody
  /\ Recording => hh_bare.result = hh_parse.result /\ (hh_parse.num > 0 => hh_bare.num > 0)
  /\ Recording /\ hh_edits = 0 =>
       /\ hh_list \in HeaderLists(Word) /\ Tip(hh_list, hh_lines)
       /\ \A name \in Single : Agrees(hh_list, hh_lines, name, Sent(hh_lines, name))

LEMMA EntriesGrow == HeaderLists(Word) \subseteq HeaderLists(AnyWord)
<1>1. Seq(Word) \subseteq Seq(AnyWord)
  BY ValuesAre
<1>2. [name : HeaderName, value : Seq(Word)] \subseteq [name : HeaderName, value : Seq(AnyWord)]
  BY <1>1
<1>3. ASSUME NEW A, NEW B, A \subseteq B PROVE Seq(A) \subseteq Seq(B)
  BY <1>3
<1> QED
  BY <1>2, <1>3 DEF HeaderLists

LEMMA HttpStarts == HttpInit => HttpInv
<1> SUFFICES ASSUME HttpInit PROVE HttpInv
  OBVIOUS
<1>1. /\ hh_list = <<>> /\ hh_lines = <<>> /\ hh_edits = 0 /\ hh_parse = hh_bare
      /\ hh_parse = [num |-> 0, result |-> "parsing", body |-> "none"]
  BY DEF HttpInit
<1>2. Len(<<>>) = 0 /\ 1 .. 0 = {} /\ \A S : <<>> \in Seq(S)
  BY EmptySeq
<1>3. hh_lines \in Seq(Line) /\ hh_list \in HeaderLists(AnyWord) /\ hh_list \in HeaderLists(Word)
  BY <1>1, <1>2 DEF HeaderLists
<1>4. NoHeader(hh_lines) /\ (\A k : ~LastHeader(hh_lines, k)) /\ ~ContinuesMerged(hh_lines)
  <2>1. 2 .. 0 = {}
    OBVIOUS
  <2> QED
    BY <1>1, <1>2, <2>1 DEF NoHeader, LastHeader, ContinuesMerged
<1>5. (\A name : ~Has(hh_list, name) /\ ~SentBefore(hh_lines, name)) /\ OneOf(hh_list)
  BY <1>1, <1>2 DEF Has, SentBefore, OneOf
<1>6. Tip(hh_list, hh_lines)
  BY <1>1, <1>4 DEF Tip
<1>7. Nothing \in SentState /\ ~Nothing.there /\ ~Nothing.open
  BY ValuesAre, Zenon DEF Nothing, SentState
<1>8. ASSUME NEW name \in Single PROVE Agrees(hh_list, hh_lines, name, Sent(hh_lines, name))
  <2>1. Sent(hh_lines, name) = Nothing
    BY <1>1, SentEmpty
  <2>2. Agrees(hh_list, hh_lines, name, Nothing)
    BY <1>1, <1>2, <1>4, <1>5, <1>7 DEF Agrees
  <2> QED
    BY <2>1, <2>2
<1>9. hh_parse \in ParseState /\ hh_bare \in ParseState /\ hh_parse.result = "parsing" /\ hh_parse.num = 0
  BY <1>1 DEF ParseState
<1>10. SameBody
  BY <1>1 DEF SameBody
<1> QED
  BY <1>1, <1>3, <1>5, <1>6, <1>8, <1>9, <1>10 DEF HttpInv, Recording

(* Both parses do the same with a line that AddResponseFirstline accepts,  *)
(* or is not given.                                                        *)
LEMMA ParsesAgree ==
  ASSUME NEW p, NEW x, x.kind # "odd_status"
  PROVE  ParseLine(p, x, TRUE) = ParseLine(p, x, FALSE)
<1>1. CASE LooksLikeStatus(x)
  <2>1. AddResponseFirstline(x)
    BY <1>1 DEF LooksLikeStatus, AddResponseFirstline
  <2>2. CountedStatus(p, x, TRUE) = CountedStatus(p, x, FALSE)
    BY <2>1 DEF CountedStatus
  <2> QED
    BY <2>2 DEF ParseLine
<1>2. CASE ~LooksLikeStatus(x)
  BY <1>2 DEF ParseLine
<1> QED
  BY <1>1, <1>2

(* One turn of either parse. *)
LEMMA ParseLineIs ==
  ASSUME NEW p \in ParseState, NEW x \in Line, NEW recording \in BOOLEAN
  PROVE  /\ ParseLine(p, x, recording) \in ParseState
         /\ p.num > 0 /\ x.kind \in {"no_crlf", "blank"} =>
              /\ ParseLine(p, x, recording).num = p.num
              /\ ParseLine(p, x, recording).result = IF x.kind = "blank" THEN "true" ELSE "false"
         /\ p.num > 0 /\ x.kind \notin {"no_crlf", "blank"} =>
              ParseLine(p, x, recording).num = p.num + 1 /\ ParseLine(p, x, recording).result = p.result
         /\ p.num = 0 /\ x.kind = "header" /\ ~HasLineFeed(x) =>
              ParseLine(p, x, recording).num = 1 /\ ParseLine(p, x, recording).result = p.result
         /\ p.num = 0 /\ x.kind \in {"status", "odd_status"} =>
              /\ ParseLine(p, x, recording).result = p.result
              /\ x.kind = "status" \/ ~recording => ParseLine(p, x, recording).num = 1
              /\ x.kind = "odd_status" /\ recording => ParseLine(p, x, recording).num = 0
         /\ /\ p.num = 0 /\ x.kind \notin {"status", "odd_status"} /\ ~(x.kind = "header" /\ ~HasLineFeed(x))
            => ParseLine(p, x, recording).num = 0 /\ ParseLine(p, x, recording).result # "parsing"
<1> DEFINE q == ParseLine(p, x, recording)
<1>1. p.num \in Nat /\ p.result \in {"parsing", "true", "false"} /\ p.body \in {"none", "whole", "empty", "rest"}
  BY DEF ParseState
<1>2. x.kind \in {"header", "continuation", "status", "odd_status", "no_colon", "blank", "no_crlf"}
  BY DEF Line
<1>3. HasLineFeed(x) => x.kind = "header"
  BY DEF HasLineFeed
<1>4. ASSUME NEW r \in {"true", "false"}, NEW b \in {"whole", "empty", "rest"}
      PROVE  Ends(p, r, b) \in ParseState /\ Ends(p, r, b).num = p.num /\ Ends(p, r, b).result = r
  BY <1>4 DEF Ends, ParseState
<1>5. [p EXCEPT !.num = @ + 1] \in ParseState /\ [p EXCEPT !.num = @ + 1].num = p.num + 1 /\ [p EXCEPT !.num = @ + 1].result = p.result
  BY <1>1 DEF ParseState
<1> DEFINE counted == [p EXCEPT !.num = @ + 1]
           status == CountedStatus(p, x, recording)
<1>6. status = IF recording /\ x.kind # "status" THEN p ELSE counted
  BY DEF CountedStatus, AddResponseFirstline
<1>7. q = CASE x.kind = "no_crlf" -> Ends(p, "false", IF p.num = 0 THEN "whole" ELSE "empty")
            [] p.num = 0 /\ HasLineFeed(x) -> Ends(p, "false", "whole")
            [] x.kind = "blank" -> Ends(p, "true", "rest")
            [] p.num = 0 /\ x.kind \in {"status", "odd_status"} -> status
            [] p.num = 0 /\ x.kind \in {"no_colon", "continuation"} -> Ends(p, "false", "whole")
            [] OTHER -> counted
  BY DEF ParseLine, LooksLikeStatus
<1> HIDE DEF q, counted, status
<1>8. counted \in ParseState /\ counted.num = p.num + 1 /\ counted.result = p.result
  BY <1>5 DEF counted
<1>9. CASE x.kind = "no_crlf"
  <2>1. \E b \in {"whole", "empty", "rest"} : q = Ends(p, "false", b)
    BY <1>3, <1>7, <1>9
  <2>2. q \in ParseState /\ q.num = p.num /\ q.result = "false"
    BY <1>4, <2>1
  <2> QED
    BY <1>1, <1>3, <1>9, <2>2 DEF q
<1>10. CASE p.num = 0 /\ HasLineFeed(x)
  <2>1. q = Ends(p, "false", "whole")
    BY <1>3, <1>7, <1>10
  <2>2. q \in ParseState /\ q.num = p.num /\ q.result = "false"
    BY <1>4, <2>1
  <2> QED
    BY <1>1, <1>3, <1>10, <2>2 DEF q
<1>11. CASE x.kind = "blank"
  <2>1. q = Ends(p, "true", "rest")
    BY <1>3, <1>7, <1>11
  <2>2. q \in ParseState /\ q.num = p.num /\ q.result = "true"
    BY <1>4, <2>1
  <2> QED
    BY <1>1, <1>3, <1>11, <2>2 DEF q
<1>12. CASE p.num = 0 /\ x.kind \in {"status", "odd_status"}
  <2>1. q = status
    BY <1>3, <1>7, <1>12
  <2>2. /\ q \in ParseState /\ q.result = p.result
        /\ recording /\ x.kind # "status" => q.num = p.num
        /\ ~(recording /\ x.kind # "status") => q.num = p.num + 1
    BY <1>6, <1>8, <2>1
  <2> QED
    BY <1>1, <1>3, <1>12, <2>2 DEF q
<1>13. CASE p.num = 0 /\ x.kind \in {"no_colon", "continuation"}
  <2>1. q = Ends(p, "false", "whole")
    BY <1>3, <1>7, <1>13
  <2>2. q \in ParseState /\ q.num = p.num /\ q.result = "false"
    BY <1>4, <2>1
  <2> QED
    BY <1>1, <1>3, <1>13, <2>2 DEF q
<1>14. CASE p.num > 0 /\ x.kind \notin {"no_crlf", "blank"}
  <2>1. q = counted
    BY <1>1, <1>3, <1>7, <1>14
  <2>2. q \in ParseState /\ q.num = p.num + 1 /\ q.result = p.result
    BY <1>8, <2>1
  <2> QED
    BY <1>1, <1>3, <1>14, <2>2 DEF q
<1>15. CASE p.num = 0 /\ x.kind = "header" /\ ~HasLineFeed(x)
  <2>1. q = counted
    BY <1>7, <1>15
  <2>2. q \in ParseState /\ q.num = p.num + 1 /\ q.result = p.result
    BY <1>8, <2>1
  <2> QED
    BY <1>1, <1>3, <1>15, <2>2 DEF q
<1>16. \/ x.kind \in {"no_crlf", "blank"}
       \/ p.num > 0 /\ x.kind \notin {"no_crlf", "blank"}
       \/ p.num = 0 /\ x.kind \in {"status", "odd_status", "no_colon", "continuation", "header"}
  BY <1>1, <1>2
<1> QED
  BY <1>9, <1>10, <1>11, <1>12, <1>13, <1>14, <1>15, <1>16

(* The list after a line that SetHeaderFromLine is given, or is not. *)
LEMMA LineAgrees ==
  ASSUME NEW lines \in Seq(Line), NEW x \in Line, NEW list \in HeaderLists(Word), OneOf(list), Tip(list, lines),
         \A name \in Single : Agrees(list, lines, name, Sent(lines, name)), NEW next,
         \/ next = SetHeaderFromLine(list, x)
         \/ x.kind \notin {"header", "continuation"} /\ next = list
  PROVE  /\ next \in HeaderLists(Word) /\ OneOf(next) /\ Tip(next, Append(lines, x))
         /\ \A name \in Single : Agrees(next, Append(lines, x), name, Sent(Append(lines, x), name))
<1>1. \A name : Sent(Append(lines, x), name) = Heard(Sent(lines, name), x, name)
  BY SentAppend
<1>2. CASE x.kind = "header"
  <2>1. next = SetHeaderFromLine(list, x)
    BY <1>2
  <2>2. \A name \in Single : Has(list, name) <=> SentBefore(lines, name)
    BY DEF Agrees
  <2>3. next \in HeaderLists(Word) /\ OneOf(next)
    BY <1>2, <2>1, FromHeader
  <2>4. Tip(next, Append(lines, x))
    BY <1>2, <2>1, <2>2, HeaderTip
  <2>5. ASSUME NEW name \in Single PROVE Agrees(next, Append(lines, x), name, Heard(Sent(lines, name), x, name))
    <3>1. PICK s : s = Sent(lines, name)
      OBVIOUS
    <3>2. Agrees(list, lines, name, s)
      BY <3>1
    <3>3. Agrees(next, Append(lines, x), name, Heard(s, x, name))
      BY <1>2, <2>1, <3>2, HeaderAgrees
    <3> QED
      BY <3>1, <3>3
  <2> QED
    BY <1>1, <2>3, <2>4, <2>5
<1>3. CASE x.kind = "continuation" /\ list # <<>>
  <2>1. next = SetHeaderFromLine(list, x)
    BY <1>3
  <2>2. next \in HeaderLists(Word) /\ OneOf(next)
    BY <1>3, <2>1, FromContinuation
  <2>3. Tip(next, Append(lines, x))
    BY <1>3, <2>1, ContinuationTip
  <2>4. ASSUME NEW name \in Single PROVE Agrees(next, Append(lines, x), name, Heard(Sent(lines, name), x, name))
    <3>1. PICK s : s = Sent(lines, name)
      OBVIOUS
    <3>2. Agrees(list, lines, name, s)
      BY <3>1
    <3>3. Agrees(next, Append(lines, x), name, Heard(s, x, name))
      BY <1>3, <2>1, <3>2, ContinuationAgrees
    <3> QED
      BY <3>1, <3>3
  <2> QED
    BY <1>1, <2>2, <2>3, <2>4
<1>4. CASE x.kind # "header" /\ (x.kind = "continuation" => list = <<>>)
  <2>1. next = list
    BY <1>4, FromOther
  <2>2. ASSUME NEW name \in Single
        PROVE  /\ Agrees(next, Append(lines, x), name, Heard(Sent(lines, name), x, name))
               /\ Tip(next, Append(lines, x))
    <3>1. PICK s : s = Sent(lines, name)
      OBVIOUS
    <3>2. Agrees(list, lines, name, s)
      BY <3>1
    <3>3. Agrees(list, Append(lines, x), name, Heard(s, x, name)) /\ Tip(list, Append(lines, x))
      BY <1>4, <3>2, OtherAgrees
    <3> QED
      BY <2>1, <3>1, <3>3
  <2>3. "a" \in Single
    BY DEF Single
  <2> QED
    BY <1>1, <2>1, <2>2, <2>3
<1> QED
  BY <1>2, <1>3, <1>4

LEMMA ReadLineKeeps ==
  ASSUME HttpInv, NEW x \in Line, ReadLine(x)
  PROVE  HttpInv'
<1>1. /\ hh_lines \in Seq(Line) /\ hh_edits \in Nat /\ hh_parse \in ParseState /\ hh_bare \in ParseState
      /\ hh_list \in HeaderLists(AnyWord) /\ OneOf(hh_list) /\ SameBody
  BY DEF HttpInv
<1>2. /\ hh_lines' = Append(hh_lines, x) /\ hh_edits' = hh_edits
      /\ hh_bare' = IF hh_bare.result = "parsing" THEN ParseLine(hh_bare, x, FALSE) ELSE hh_bare
      /\ hh_parse' = IF hh_parse.result = "parsing" THEN ParseLine(hh_parse, x, TRUE) ELSE hh_parse
      /\ hh_list' = IF hh_parse.result = "parsing" /\ IsHeaderLine(hh_parse, x)
                    THEN SetHeaderFromLine(hh_list, x) ELSE hh_list
  BY DEF ReadLine
<1>3. hh_edits = 0
  BY <1>1 DEF ReadLine, HttpInv
<1>4. hh_lines' \in Seq(Line) /\ Len(hh_lines) \in Nat /\ Len(hh_lines') = Len(hh_lines) + 1 /\ hh_lines'[Len(hh_lines) + 1] = x
      /\ \A i \in 1 .. Len(hh_lines) : hh_lines'[i] = hh_lines[i]
  BY <1>1, <1>2, LinesAppend
<1>5. TRUE \in BOOLEAN /\ FALSE \in BOOLEAN
  OBVIOUS
<1>6. hh_parse' \in ParseState /\ hh_bare' \in ParseState
  BY <1>1, <1>2, <1>5, ParseLineIs
<1>7. SameBody'
  <2> SUFFICES ASSUME \A i \in DOMAIN hh_lines' : hh_lines'[i].kind # "odd_status"
               PROVE  hh_parse' = hh_bare'
    BY DEF SameBody
  <2>1. DOMAIN hh_lines = 1 .. Len(hh_lines) /\ DOMAIN hh_lines' = 1 .. Len(hh_lines) + 1
    <3>1. ASSUME NEW S, NEW l \in Seq(S) PROVE DOMAIN l = 1 .. Len(l)
      OBVIOUS
    <3> QED
      BY <1>1, <1>4, <3>1
  <2>2. Len(hh_lines) + 1 \in DOMAIN hh_lines' /\ \A i \in DOMAIN hh_lines : i \in DOMAIN hh_lines'
    BY <1>4, <2>1
  <2>3. x.kind # "odd_status" /\ \A i \in DOMAIN hh_lines : hh_lines[i].kind # "odd_status"
    BY <1>4, <2>1, <2>2
  <2>4. hh_parse = hh_bare
    BY <1>1, <2>3 DEF SameBody
  <2>5. ParseLine(hh_parse, x, TRUE) = ParseLine(hh_parse, x, FALSE)
    BY <2>3, ParsesAgree
  <2> QED
    BY <1>2, <2>4, <2>5
<1>8. CASE hh_parse.result # "parsing"
  <2>1. hh_parse' = hh_parse /\ hh_list' = hh_list
    BY <1>2, <1>8
  <2>2. ~Recording
    <3>1. hh_bare.result = "parsing"
      BY <1>8 DEF ReadLine
    <3> QED
      BY <1>8, <3>1 DEF HttpInv
  <2>3. ~Recording'
    BY <2>1, <2>2 DEF Recording
  <2> QED
    BY <1>1, <1>2, <1>3, <1>4, <1>6, <1>7, <2>1, <2>3 DEF HttpInv
<1>9. CASE hh_parse.result = "parsing"
  <2>1. /\ Recording /\ hh_bare.result = "parsing" /\ (hh_parse.num > 0 => hh_bare.num > 0)
        /\ hh_list \in HeaderLists(Word) /\ Tip(hh_list, hh_lines)
        /\ \A name \in Single : Agrees(hh_list, hh_lines, name, Sent(hh_lines, name))
    BY <1>3, <1>9 DEF HttpInv, Recording
  <2>2. hh_parse' = ParseLine(hh_parse, x, TRUE) /\ hh_bare' = ParseLine(hh_bare, x, FALSE)
    BY <1>2, <1>9, <2>1
  <2>3. hh_parse.num \in Nat /\ hh_bare.num \in Nat
    BY <1>1 DEF ParseState
  <2>4. x.kind \in {"header", "continuation", "status", "odd_status", "no_colon", "blank", "no_crlf"}
    BY DEF Line
  <2> DEFINE first == x.kind \in {"status", "odd_status"} \/ (x.kind = "header" /\ ~HasLineFeed(x))
  <2>5. CASE hh_parse.num = 0 /\ ~first
    <3>1. hh_parse'.num = 0 /\ hh_parse'.result # "parsing"
      BY <1>1, <1>5, <2>2, <2>5, ParseLineIs
    <3>2. ~IsHeaderLine(hh_parse, x)
      BY <2>5 DEF IsHeaderLine
    <3>3. hh_list' = hh_list
      BY <1>2, <3>2
    <3>4. ~Recording'
      BY <3>1 DEF Recording
    <3> QED
      BY <1>1, <1>2, <1>3, <1>4, <1>6, <1>7, <3>3, <3>4 DEF HttpInv
  <2>6. CASE hh_parse.num > 0 \/ first
    <3>1. \/ hh_list' = SetHeaderFromLine(hh_list, x)
          \/ x.kind \notin {"header", "continuation"} /\ hh_list' = hh_list
      BY <1>2, <1>9, <2>3, <2>4, <2>6 DEF IsHeaderLine
    <3>2. PICK next : next = hh_list'
      OBVIOUS
    <3>3. /\ next \in HeaderLists(Word) /\ OneOf(next) /\ Tip(next, Append(hh_lines, x))
          /\ \A name \in Single : Agrees(next, Append(hh_lines, x), name, Sent(Append(hh_lines, x), name))
      BY <1>1, <2>1, <3>1, <3>2, LineAgrees
    <3>4. hh_list' \in HeaderLists(Word) /\ OneOf(hh_list)' /\ hh_list' \in HeaderLists(AnyWord)
      BY <3>2, <3>3, EntriesGrow DEF OneOf
    <3>5. Tip(hh_list, hh_lines)'
      BY <1>2, <3>2, <3>3
    <3>6. \A name \in Single : Agrees(hh_list, hh_lines, name, Sent(hh_lines, name))'
      BY <1>2, <3>2, <3>3
    <3>7. Recording' => hh_bare'.result = hh_parse'.result /\ (hh_parse'.num > 0 => hh_bare'.num > 0)
      <4>1. CASE hh_parse.num > 0
        <5>1. hh_bare.num > 0
          BY <2>1, <4>1
        <5>2. CASE x.kind \in {"no_crlf", "blank"}
          <6>1. hh_parse'.num = hh_parse.num /\ hh_parse'.result = IF x.kind = "blank" THEN "true" ELSE "false"
            BY <1>1, <1>5, <2>2, <4>1, <5>2, ParseLineIs
          <6>2. hh_bare'.num = hh_bare.num /\ hh_bare'.result = IF x.kind = "blank" THEN "true" ELSE "false"
            BY <1>1, <1>5, <2>2, <5>1, <5>2, ParseLineIs
          <6> QED
            BY <5>1, <6>1, <6>2
        <5>3. CASE x.kind \notin {"no_crlf", "blank"}
          <6>1. hh_parse'.num = hh_parse.num + 1 /\ hh_parse'.result = hh_parse.result
            BY <1>1, <1>5, <2>2, <4>1, <5>3, ParseLineIs
          <6>2. hh_bare'.num = hh_bare.num + 1 /\ hh_bare'.result = hh_bare.result
            BY <1>1, <1>5, <2>2, <5>1, <5>3, ParseLineIs
          <6> QED
            BY <1>9, <2>1, <2>3, <6>1, <6>2
        <5> QED
          BY <5>2, <5>3
      <4>2. CASE hh_parse.num = 0 /\ first
        <5>1. hh_parse'.result = hh_parse.result
          BY <1>1, <1>5, <2>2, <4>2, ParseLineIs
        <5>2. hh_bare'.result = hh_bare.result /\ hh_bare'.num > 0
          <6>1. x.kind \notin {"no_crlf", "blank"}
            BY <4>2
          <6>2. CASE hh_bare.num = 0
            <7> DEFINE q == ParseLine(hh_bare, x, FALSE)
            <7>1. /\ x.kind = "header" /\ ~HasLineFeed(x) => q.num = 1 /\ q.result = hh_bare.result
                  /\ x.kind \in {"status", "odd_status"} => q.num = 1 /\ q.result = hh_bare.result
              BY <1>1, <1>5, <6>2, ParseLineIs
            <7> HIDE DEF q
            <7>2. q.num = 1 /\ q.result = hh_bare.result
              BY <4>2, <7>1
            <7>3. hh_bare' = q
              BY <2>2 DEF q
            <7>4. hh_bare'.num = 1 /\ hh_bare'.result = hh_bare.result
              BY <7>2, <7>3
            <7> QED
              BY <7>4
          <6>3. CASE hh_bare.num > 0
            <7>1. hh_bare'.num = hh_bare.num + 1 /\ hh_bare'.result = hh_bare.result
              BY <1>1, <1>5, <2>2, <6>1, <6>3, ParseLineIs
            <7> QED
              BY <2>3, <7>1
          <6> QED
            BY <2>3, <6>2, <6>3
        <5> QED
          BY <1>9, <2>1, <5>1, <5>2
      <4> QED
        BY <2>3, <2>6, <4>1, <4>2
    <3> QED
      BY <1>2, <1>3, <1>4, <1>6, <1>7, <3>4, <3>5, <3>6, <3>7 DEF HttpInv
  <2> QED
    BY <2>3, <2>5, <2>6
<1> QED
  BY <1>8, <1>9

LEMMA EditKeeps ==
  ASSUME HttpInv, Edit
  PROVE  HttpInv'
<1>1. /\ hh_edits' = hh_edits + 1 /\ hh_edits \in Nat /\ UNCHANGED <<hh_parse, hh_bare, hh_lines>>
      /\ hh_parse.result # "parsing" /\ hh_bare.result # "parsing"
      /\ hh_list \in HeaderLists(AnyWord) /\ OneOf(hh_list)
  BY DEF Edit, HttpInv
<1>2. PICK next : next = hh_list'
  OBVIOUS
<1>3. next \in HeaderLists(AnyWord) /\ OneOf(next)
  <2>1. CASE \E name \in HeaderName : hh_list' = ClearHeader(hh_list, name)
    BY <1>1, <1>2, <2>1, ClearKeepsOne
  <2>2. CASE \E name \in HeaderName, value \in {<<"x">>, Erased}, overwrite \in {"APPEND", "OVERWRITE", "NO_OVERWRITE"} :
               hh_list' = SetHeader(hh_list, name, value, overwrite)
    BY <1>1, <1>2, <2>2, SetHeaderKeeps
  <2> QED
    BY <2>1, <2>2 DEF Edit
<1>4. hh_list' \in HeaderLists(AnyWord) /\ OneOf(hh_list)'
  BY <1>2, <1>3 DEF OneOf
<1>5. hh_edits' > 0 /\ hh_edits' \in Nat
  BY <1>1
<1>6. SameBody'
  BY <1>1 DEF HttpInv, SameBody
<1> QED
  BY <1>1, <1>4, <1>5, <1>6 DEF HttpInv, Recording

LEMMA HttpInvReads == HttpInv => HeadersReadAsSent
<1> SUFFICES ASSUME HttpInv PROVE HeadersReadAsSent
  OBVIOUS
<1>1. OneEntryPerName /\ SameBody
  <2>1. hh_list \in HeaderLists(AnyWord) /\ OneOf(hh_list) /\ SameBody
    BY DEF HttpInv
  <2> QED
    BY <2>1, OneOfIs
<1>2. ASSUME hh_edits = 0, hh_parse.num > 0, ~ContinuesMerged(hh_lines), NEW name \in {"host", "a"}
      PROVE  LET i == GetHeader(hh_list, <<name, 1>>)
                 sent == Sent(hh_lines, name)
             IN  IF sent.there THEN i # 0 /\ hh_list[i].value = sent.value ELSE i = 0
  <2> DEFINE i == GetHeader(hh_list, <<name, 1>>)
             sent == Sent(hh_lines, name)
  <2>1. Agrees(hh_list, hh_lines, name, sent) /\ hh_list \in HeaderLists(Word)
    BY <1>2 DEF HttpInv, Recording, Single
  <2>2. <<name, 1>>[1] = name
    OBVIOUS
  <2>3. \/ i = 0 /\ ~Has(hh_list, name)
        \/ i \in 1 .. Len(hh_list) /\ hh_list[i].name[1] = name
    BY <2>1, <2>2, GetHeaderIs DEF HeaderLists
  <2> HIDE DEF i, sent
  <2>4. /\ sent.there <=> Has(hh_list, name)
        /\ \A j \in 1 .. Len(hh_list) : hh_list[j].name[1] = name => hh_list[j].value = sent.value
    BY <1>2, <2>1 DEF Agrees
  <2>5. Len(hh_list) \in Nat
    BY <2>1 DEF HeaderLists
  <2>6. CASE sent.there
    BY <2>3, <2>4, <2>5, <2>6 DEF i, sent
  <2>7. CASE ~sent.there
    <3>1. i = 0
      BY <2>3, <2>4, <2>7 DEF Has
    <3> QED
      BY <2>7, <3>1 DEF i, sent
  <2> QED
    BY <2>6, <2>7
<1>3. ReadsAsSent
  BY <1>2 DEF ReadsAsSent
<1> QED
  BY <1>1, <1>3 DEF HeadersReadAsSent

(* In documents of any length and whatever edits follow, a name that is    *)
(* not multi-valued has one entry; the headers ParseHTTPHeaders recorded   *)
(* read as they were sent, unless a continuation follows a line that was   *)
(* merged into an earlier header; and the parse without a headers object   *)
(* finds the same body, unless a status line is refused.                   *)
THEOREM HeadersAlwaysReadAsSent == HttpSpec => []HeadersReadAsSent
<1>1. HttpInit => HttpInv
  BY HttpStarts
<1>2. HttpInv /\ [HttpNext]_httpVars => HttpInv'
  <2> SUFFICES ASSUME HttpInv, [HttpNext]_httpVars PROVE HttpInv'
    OBVIOUS
  <2>1. CASE \E line \in Line : ReadLine(line)
    BY <2>1, ReadLineKeeps
  <2>2. CASE Edit
    BY <2>2, EditKeeps
  <2>3. CASE UNCHANGED httpVars
    <3>1. /\ hh_list' = hh_list /\ hh_parse' = hh_parse /\ hh_bare' = hh_bare
          /\ hh_lines' = hh_lines /\ hh_edits' = hh_edits
      BY <2>3 DEF httpVars
    <3> QED
      BY <3>1 DEF HttpInv, Recording, SameBody, OneOf
  <2> QED
    BY <2>1, <2>2, <2>3 DEF HttpNext
<1>3. HttpInv => HeadersReadAsSent
  BY HttpInvReads
<1> QED
  BY <1>1, <1>2, <1>3, PTL DEF HttpSpec

-----------------------------------------------------------------------------
(* Files.  The paths: a temporary one, and a directory, one in it and a    *)
(* path in that.                                                           *)
DPath == <<"d">>
SPath == <<"d", "s">>
LeafPath == <<"d", "s", "f">>

LEMMA PathsAre ==
  /\ FPath = {TempPath, DPath, SPath, LeafPath}
  /\ Len(TempPath) = 1 /\ Len(DPath) = 1 /\ Len(SPath) = 2 /\ Len(LeafPath) = 3
  /\ TempPath # DPath /\ TempPath # SPath /\ TempPath # LeafPath
  /\ DPath # SPath /\ DPath # LeafPath /\ SPath # LeafPath
  /\ \A p \in FPath : p # <<>>
<1>1. Len(TempPath) = 1 /\ Len(DPath) = 1 /\ Len(SPath) = 2 /\ Len(LeafPath) = 3
  BY DEF TempPath, DPath, SPath, LeafPath
<1>2. TempPath[1] # DPath[1]
  BY DEF TempPath, DPath
<1>3. TempPath # DPath
  BY <1>2
<1>4. FPath = {TempPath, DPath, SPath, LeafPath}
  BY DEF FPath, DPath, SPath, LeafPath
<1>5. Len(<<>>) = 0
  BY EmptySeq
<1> QED
  BY <1>1, <1>3, <1>4, <1>5

LEMMA PrefixesAre ==
  /\ SubSeq(TempPath, 1, 1) = TempPath
  /\ SubSeq(DPath, 1, 1) = DPath
  /\ SubSeq(SPath, 1, 1) = DPath /\ SubSeq(SPath, 1, 2) = SPath
  /\ SubSeq(LeafPath, 1, 1) = DPath /\ SubSeq(LeafPath, 1, 2) = SPath /\ SubSeq(LeafPath, 1, 3) = LeafPath
  /\ Front(SPath) = DPath /\ Front(LeafPath) = SPath
<1>1. ASSUME NEW a, NEW b, NEW c
      PROVE  /\ SubSeq(<<a>>, 1, 1) = <<a>>
             /\ SubSeq(<<a, b>>, 1, 1) = <<a>> /\ SubSeq(<<a, b>>, 1, 2) = <<a, b>>
             /\ SubSeq(<<a, b, c>>, 1, 1) = <<a>> /\ SubSeq(<<a, b, c>>, 1, 2) = <<a, b>>
             /\ SubSeq(<<a, b, c>>, 1, 3) = <<a, b, c>>
  <2> DEFINE V == {a, b, c}
  <2>1. <<a>> \in Seq(V) /\ <<a, b>> \in Seq(V) /\ <<a, b, c>> \in Seq(V)
    OBVIOUS
  <2>2. Len(<<a>>) = 1 /\ Len(<<a, b>>) = 2 /\ Len(<<a, b, c>>) = 3
    OBVIOUS
  <2>3. ASSUME NEW W, NEW s \in Seq(W), NEW n \in 1 .. Len(s), NEW r \in Seq(W), Len(r) = n,
               \A i \in 1 .. n : r[i] = s[i]
        PROVE  SubSeq(s, 1, n) = r
    <3>1. SubSeq(s, 1, n) \in Seq(W) /\ Len(SubSeq(s, 1, n)) = n /\ \A i \in 1 .. n : SubSeq(s, 1, n)[i] = s[i]
      OBVIOUS
    <3> QED
      BY <2>3, <3>1, SeqEqual
  <2> HIDE DEF V
  <2>4. \A i \in 1 .. 1 : i = 1
    OBVIOUS
  <2>5. \A i \in 1 .. 2 : i = 1 \/ i = 2
    OBVIOUS
  <2>6. 1 \in 1 .. 1 /\ 1 \in 1 .. 2 /\ 2 \in 1 .. 2 /\ 1 \in 1 .. 3 /\ 2 \in 1 .. 3 /\ 3 \in 1 .. 3
    OBVIOUS
  <2>7. SubSeq(<<a>>, 1, 1) = <<a>>
    BY <2>1, <2>2, <2>3, <2>6
  <2>8. SubSeq(<<a, b>>, 1, 1) = <<a>>
    <3>1. \A i \in 1 .. 1 : <<a>>[i] = <<a, b>>[i]
      BY <2>4
    <3> QED
      BY <2>1, <2>2, <2>3, <2>6, <3>1
  <2>9. SubSeq(<<a, b>>, 1, 2) = <<a, b>>
    BY <2>1, <2>2, <2>3, <2>6
  <2>10. SubSeq(<<a, b, c>>, 1, 1) = <<a>>
    <3>1. \A i \in 1 .. 1 : <<a>>[i] = <<a, b, c>>[i]
      BY <2>4
    <3> QED
      BY <2>1, <2>2, <2>3, <2>6, <3>1
  <2>11. SubSeq(<<a, b, c>>, 1, 2) = <<a, b>>
    <3>1. \A i \in 1 .. 2 : <<a, b>>[i] = <<a, b, c>>[i]
      BY <2>5
    <3> QED
      BY <2>1, <2>2, <2>3, <2>6, <3>1
  <2>12. SubSeq(<<a, b, c>>, 1, 3) = <<a, b, c>>
    BY <2>1, <2>2, <2>3, <2>6
  <2> QED
    BY <2>7, <2>8, <2>9, <2>10, <2>11, <2>12
<1>2. Front(SPath) = SubSeq(SPath, 1, 1) /\ Front(LeafPath) = SubSeq(LeafPath, 1, 2)
  <2>1. Len(SPath) - 1 = 1 /\ Len(LeafPath) - 1 = 2
    BY PathsAre
  <2> QED
    BY <2>1 DEF Front
<1> QED
  BY <1>1, <1>2, Zenon DEF TempPath, DPath, SPath, LeafPath

LEMMA ChildrenAre ==
  /\ Children(TempPath) = {} /\ Children(DPath) = {SPath}
  /\ Children(SPath) = {LeafPath} /\ Children(LeafPath) = {}
<1>1. \A p : Children(p) = {q \in {TempPath, DPath, SPath, LeafPath} : Len(q) = Len(p) + 1 /\ SubSeq(q, 1, Len(p)) = p}
  BY PathsAre DEF Children
<1>2. 1 + 1 = 2 /\ 2 + 1 = 3 /\ 3 + 1 = 4
  OBVIOUS
<1>3. Children(TempPath) = {}
  BY <1>1, <1>2, PathsAre, PrefixesAre
<1>4. Children(DPath) = {SPath}
  BY <1>1, <1>2, PathsAre, PrefixesAre
<1>5. Children(SPath) = {LeafPath}
  BY <1>1, <1>2, PathsAre, PrefixesAre
<1>6. Children(LeafPath) = {}
  BY <1>1, <1>2, PathsAre
<1> QED
  BY <1>3, <1>4, <1>5, <1>6

LEMMA BelowIs ==
  /\ \A p \in FPath : IsPrefix(TempPath, p) => p = TempPath
  /\ \A p \in FPath : IsPrefix(DPath, p) => p # TempPath
BY PathsAre, PrefixesAre DEF IsPrefix

(* The tree: identities are given out once, and a path that names          *)
(* something has a directory above it.                                     *)
TreeInv ==
  /\ fl_made \in Nat /\ fl_tree \in [FPath -> 0 .. fl_made] /\ fl_dirs \subseteq 1 .. fl_made
  /\ fl_tree[SPath] # Absent => DirectoryExists(DPath)
  /\ fl_tree[LeafPath] # Absent => DirectoryExists(SPath)

(* What a step does to path q. *)
Stays(q) ==
  /\ fl_tree'[q] = fl_tree[q]
  /\ DirectoryExists(q)' <=> DirectoryExists(q)
  /\ Exists(q)' <=> Exists(q)

Makes(p, isDir) ==
  /\ \A q \in FPath \ {p} : Stays(q)
  /\ fl_tree[p] = Absent /\ ~DirectoryExists(p) /\ ~Exists(p)
  /\ fl_tree'[p] = fl_made + 1 /\ fl_tree'[p] # Absent
  /\ DirectoryExists(p)' <=> isDir
  /\ Exists(p)' <=> ~isDir

Removes(p) ==
  /\ \A q \in FPath \ {p} : Stays(q)
  /\ fl_tree'[p] = Absent /\ ~DirectoryExists(p)' /\ ~Exists(p)'
  /\ \A q \in Children(p) : fl_tree[q] = Absent

Leaves == \A q \in FPath : Stays(q)

LEMMA ThereIs ==
  ASSUME TreeInv, NEW p \in FPath
  PROVE  /\ DirectoryExists(p) => fl_tree[p] # Absent /\ ~Exists(p)
         /\ Exists(p) => fl_tree[p] # Absent
         /\ fl_tree[p] # Absent => DirectoryExists(p) \/ Exists(p)
BY DEF TreeInv, DirectoryExists, Exists, Absent

LEMMA ParentIs ==
  ASSUME NEW p \in FPath
  PROVE  /\ p \in {TempPath, DPath} => ParentThere(p)
         /\ p = SPath => (ParentThere(p) <=> DirectoryExists(DPath))
         /\ p = LeafPath => (ParentThere(p) <=> DirectoryExists(SPath))
<1>1. ~(1 > 1) /\ 2 > 1 /\ 3 > 1
  OBVIOUS
<1> QED
  BY <1>1, PathsAre, PrefixesAre DEF ParentThere

LEMMA MakeEffect ==
  ASSUME TreeInv, NEW t, NEW p \in FPath, NEW isDir \in BOOLEAN, NEW pc, MayCreate(p), MakePath(t, p, isDir, pc)
  PROVE  TreeInv' /\ Makes(p, isDir)
<1> DEFINE id == fl_made + 1
<1>1. /\ fl_made \in Nat /\ id \in Nat /\ fl_tree \in [FPath -> 0 .. fl_made] /\ fl_dirs \subseteq 1 .. fl_made
      /\ fl_made' = id /\ fl_tree' = [fl_tree EXCEPT ![p] = id]
      /\ fl_dirs' = IF isDir THEN fl_dirs \cup {id} ELSE fl_dirs
  BY DEF TreeInv, MakePath
<1>2. id # Absent /\ id \notin fl_dirs /\ \A q \in FPath : fl_tree[q] # id
  BY <1>1 DEF Absent
<1>3. fl_tree[p] = Absent /\ Absent \notin fl_dirs /\ Absent \notin fl_dirs'
  BY <1>1, <1>2 DEF MayCreate, Absent
<1>4. /\ fl_tree' \in [FPath -> 0 .. fl_made'] /\ fl_dirs' \subseteq 1 .. fl_made' /\ fl_made' \in Nat
  <2>1. 0 .. fl_made \subseteq 0 .. id /\ id \in 0 .. id /\ 1 .. fl_made \subseteq 1 .. id /\ id \in 1 .. id
    BY <1>1
  <2> QED
    BY <1>1, <2>1
<1> HIDE DEF id
<1>5. fl_tree'[p] = id /\ \A q \in FPath \ {p} : fl_tree'[q] = fl_tree[q]
  BY <1>1
<1>6. \A i : i # id => (i \in fl_dirs' <=> i \in fl_dirs)
  BY <1>1
<1>7. id \in fl_dirs' <=> isDir
  BY <1>1, <1>2
<1>8. Makes(p, isDir)
  BY <1>2, <1>3, <1>5, <1>6, <1>7 DEF Makes, Stays, DirectoryExists, Exists, id
<1>9. (p = SPath => DirectoryExists(DPath)) /\ (p = LeafPath => DirectoryExists(SPath))
  BY ParentIs DEF MayCreate
<1>10. /\ fl_tree'[SPath] # Absent => DirectoryExists(DPath)'
       /\ fl_tree'[LeafPath] # Absent => DirectoryExists(SPath)'
  <2>1. ASSUME NEW q \in FPath, DirectoryExists(q) PROVE DirectoryExists(q)'
    BY <1>8, <2>1 DEF Makes, Stays
  <2>2. ASSUME NEW q \in FPath, fl_tree'[q] # Absent PROVE q = p \/ fl_tree[q] # Absent
    BY <1>5, <2>2
  <2> QED
    BY <1>9, <2>1, <2>2, PathsAre DEF TreeInv
<1> QED
  BY <1>4, <1>8, <1>10 DEF TreeInv

LEMMA RemoveEffect ==
  ASSUME TreeInv, NEW t, NEW p \in FPath, NEW pc, RemovePath(t, p, pc), \A q \in Children(p) : fl_tree[q] = Absent
  PROVE  TreeInv' /\ Removes(p)
<1>1. /\ fl_made \in Nat /\ fl_tree \in [FPath -> 0 .. fl_made] /\ fl_dirs \subseteq 1 .. fl_made
      /\ fl_made' = fl_made /\ fl_tree' = [fl_tree EXCEPT ![p] = Absent] /\ fl_dirs' = fl_dirs
  BY DEF TreeInv, RemovePath
<1>2. Absent \in 0 .. fl_made /\ Absent \notin fl_dirs
  BY <1>1 DEF Absent
<1>3. fl_tree'[p] = Absent /\ \A q \in FPath \ {p} : fl_tree'[q] = fl_tree[q]
  BY <1>1
<1>4. Removes(p)
  BY <1>1, <1>2, <1>3 DEF Removes, Stays, DirectoryExists, Exists
<1>5. (p = DPath => fl_tree[SPath] = Absent) /\ (p = SPath => fl_tree[LeafPath] = Absent)
  BY ChildrenAre
<1>6. /\ fl_tree'[SPath] # Absent => DirectoryExists(DPath)'
      /\ fl_tree'[LeafPath] # Absent => DirectoryExists(SPath)'
  <2>1. ASSUME NEW q \in FPath \ {p}, DirectoryExists(q) PROVE DirectoryExists(q)'
    BY <1>4, <2>1 DEF Removes, Stays
  <2>2. ASSUME NEW q \in FPath, fl_tree'[q] # Absent PROVE q # p /\ fl_tree[q] # Absent
    BY <1>3, <2>2
  <2> QED
    BY <1>5, <2>1, <2>2, PathsAre DEF TreeInv
<1>7. fl_tree' \in [FPath -> 0 .. fl_made'] /\ fl_dirs' \subseteq 1 .. fl_made' /\ fl_made' \in Nat
  BY <1>1, <1>2
<1> QED
  BY <1>4, <1>6, <1>7 DEF TreeInv

LEMMA LeaveEffect ==
  ASSUME TreeInv, UNCHANGED <<fl_tree, fl_dirs, fl_made>>
  PROVE  TreeInv' /\ Leaves
<1>1. Leaves
  BY DEF Leaves, Stays, DirectoryExists, Exists
<1>2. \A q \in FPath : DirectoryExists(q)' <=> DirectoryExists(q)
  BY <1>1 DEF Leaves, Stays
<1> QED
  BY <1>1, <1>2, PathsAre DEF TreeInv

(* A file has nothing below it. *)
LEMMA FileIsLeaf ==
  ASSUME TreeInv, NEW p \in FPath, Exists(p)
  PROVE  \A q \in Children(p) : fl_tree[q] = Absent
<1>1. ~DirectoryExists(p)
  BY ThereIs
<1> QED
  BY <1>1, PathsAre, ChildrenAre DEF TreeInv

(* A path that is empty has nothing at all below it. *)
LEMMA NothingBelow ==
  ASSUME TreeInv, NEW p \in {TempPath, DPath}, \A q \in Children(p) : fl_tree[q] = Absent, NEW q \in FPath, IsPrefix(p, q)
  PROVE  q = p \/ fl_tree[q] = Absent
<1>1. p = DPath => fl_tree[SPath] = Absent /\ fl_tree[LeafPath] = Absent
  <2>1. ASSUME p = DPath PROVE fl_tree[SPath] = Absent
    BY <2>1, ChildrenAre
  <2>2. fl_tree[SPath] = Absent => ~DirectoryExists(SPath)
    BY PathsAre DEF TreeInv, DirectoryExists, Absent
  <2> QED
    BY <2>1, <2>2 DEF TreeInv
<1> QED
  BY <1>1, BelowIs, PathsAre

-----------------------------------------------------------------------------
(* One operation under way.                                                *)
FOp == {"none", "create", "delete", "open", "new", "temp", "close"}
FAt == {"returned", "mkdir", "look", "readdir", "delete", "mode", "fopen", "unlink", "reopen", "unname", "rename"}
FMode == {"", "READ", "READ_WRITE", "rb", "rb+", "w+", "NULL", "OPEN_ALWAYS", "OPEN_EXISTING", "CREATE_NEW",
          "CREATE_ALWAYS", "file", "named", "directory"}
AnyPath == FPath \cup {<<>>}
DFrame == [dir : FPath, rest : SUBSET (FPath \X BOOLEAN)]
FCall == [op : FOp, at : FAt, path : AnyPath, ok : BOOLEAN, lost : BOOLEAN, grown : BOOLEAN,
          k : Nat, stack : Seq(DFrame), mode : FMode, emptied : BOOLEAN,
          asked : ExistsMode \cup {""}, access : Access \cup {""}, made : BOOLEAN, bare : BOOLEAN]

(* A directory has one entry at most, so what is left of the directories   *)
(* above the one being emptied is empty.                                   *)
FewLeft(p, rest) == rest = {} \/ \E c \in Children(p), b \in BOOLEAN : rest = {<<c, b>>}

Chain(path, stack) ==
  /\ stack # <<>> /\ stack[1].dir = path
  /\ \A i \in 2 .. Len(stack) : stack[i].dir \in Children(stack[i - 1].dir)
  /\ \A i \in 1 .. Len(stack) - 1 : stack[i].rest = {}
  /\ FewLeft(stack[Len(stack)].dir, stack[Len(stack)].rest)

Created == {DPath, SPath, LeafPath}
DeletedPath == {TempPath, DPath}

ShapeInv(c) ==
  /\ c.at \in {"mkdir", "look"} => c.op = "create" /\ c.k \in 1 .. Len(c.path)
  /\ c.at \in {"readdir", "delete"} => c.op = "delete"
  /\ c.at = "readdir" => c.stack = <<>>
  /\ c.at = "delete" => Chain(c.path, c.stack)
  /\ c.at \in {"mode", "fopen"} => c.op = "open" /\ c.path = SPath
  /\ c.at \in {"unlink", "reopen", "unname", "rename"} => c.op = "temp"
  /\ c.op = "create" => c.path \in Created
  /\ c.op = "delete" => c.path \in DeletedPath

(* RecursivelyCreateDir, as long as nothing was removed. *)
CreateInv(c) ==
  c.op = "create" /\ ~c.lost =>
    /\ c.at \in {"mkdir", "look"} => \A j \in 1 .. c.k - 1 : DirectoryExists(SubSeq(c.path, 1, j))
    /\ c.at = "look" => fl_tree[SubSeq(c.path, 1, c.k)] # Absent
    /\ c.at = "returned" /\ c.ok => DirectoryExists(c.path)
    /\ c.at = "returned" /\ ~c.ok => \E j \in 1 .. Len(c.path) : Exists(SubSeq(c.path, 1, j))

(* DeleteRecursively, as long as nothing was made: if nothing was removed  *)
(* by others either, the directory being emptied has the entries left.     *)
DeleteInv(c) ==
  c.op = "delete" /\ ~c.grown =>
    /\ c.at = "returned" /\ c.ok => \A p \in FPath : IsPrefix(c.path, p) => fl_tree[p] = Absent
    /\ c.at = "returned" /\ ~c.ok => c.lost \/ ~DirectoryExists(c.path)
    /\ c.at = "readdir" /\ ~c.lost => DirectoryExists(c.path)
    /\ c.at = "delete" /\ ~c.lost =>
         /\ DirectoryExists(c.stack[Len(c.stack)].dir)
         /\ c.stack[Len(c.stack)].rest = Entries(c.stack[Len(c.stack)].dir)

OpenInv(c) ==
  /\ c.emptied => c.grown
  /\ c.at = "fopen" /\ c.mode = "w+" /\ ~c.grown => ~Exists(c.path)

(* Open: what its look at the path found still holds unless the path came  *)
(* or went, until it has its answer.                                       *)
LooksInv(c) ==
  /\ ~c.made
  /\ c.asked = "FAIL_IF_EXISTS" => ~Exists(SPath) \/ c.grown
  /\ c.asked = "FAIL_IF_NOT_EXISTS" => Exists(SPath) \/ c.lost
  /\ c.asked = "ALWAYS_OVERWRITE" => c.access # "READ"

FopenInv(c) ==
  /\ c.mode \in {"rb", "rb+", "w+"} /\ (c.mode = "rb" <=> c.access = "READ")
  /\ c.mode = "w+" /\ c.asked = "FAIL_IF_NOT_EXISTS" => c.lost
  /\ c.mode = "rb+" => Exists(SPath) \/ c.lost
  /\ c.mode = "rb+" /\ c.asked = "FAIL_IF_EXISTS" => c.grown

AnswerInv(c) ==
  c.op = "open" =>
    /\ c.path = SPath
    /\ c.at \in {"mode", "fopen"} => LooksInv(c)
    /\ c.at = "mode" => c.mode = c.access
    /\ c.at = "fopen" => FopenInv(c)
    /\ c.at = "returned" => OpenAnswers(c)

CallInv(c) == c \in FCall /\ ShapeInv(c) /\ CreateInv(c) /\ DeleteInv(c) /\ OpenInv(c) /\ AnswerInv(c)

(* The same call, seen after another thread made or removed a path. *)
Sees(c, d, lost, grown) ==
  /\ d \in FCall
  /\ d.op = c.op /\ d.at = c.at /\ d.path = c.path /\ d.ok = c.ok /\ d.k = c.k /\ d.stack = c.stack
  /\ d.mode = c.mode /\ d.emptied = c.emptied
  /\ d.asked = c.asked /\ d.access = c.access /\ d.made = c.made /\ d.bare = c.bare
  /\ d.lost <=> c.lost \/ lost
  /\ d.grown <=> c.grown \/ grown

LEMMA NoticedIs ==
  ASSUME fl_pc \in [FThread -> FCall], NEW t \in FThread, NEW pc, NEW lost \in BOOLEAN, NEW grown \in BOOLEAN
  PROVE  /\ Noticed(t, pc, lost, grown)[t] = pc
         /\ \A u \in FThread \ {t} : Sees(fl_pc[u], Noticed(t, pc, lost, grown)[u], lost, grown)
         /\ pc \in FCall => Noticed(t, pc, lost, grown) \in [FThread -> FCall]
<1> DEFINE new == Noticed(t, pc, lost, grown)
<1>1. new[t] = pc
  BY DEF Noticed
<1>2. ASSUME NEW u \in FThread \ {t}
      PROVE  Sees(fl_pc[u], new[u], lost, grown)
  <2>1. PICK c \in FCall : c = fl_pc[u]
    OBVIOUS
  <2>2. new[u] = [c EXCEPT !.lost = c.lost \/ lost, !.grown = c.grown \/ grown]
    BY <2>1 DEF Noticed
  <2>3. PICK l \in BOOLEAN : l <=> c.lost \/ lost
    OBVIOUS
  <2>4. PICK g \in BOOLEAN : g <=> c.grown \/ grown
    OBVIOUS
  <2>5. (c.lost \/ lost) = l /\ (c.grown \/ grown) = g
    BY <2>3, <2>4
  <2>6. new[u] = [c EXCEPT !.lost = l, !.grown = g]
    BY <2>2, <2>5
  <2>7. Sees(c, [c EXCEPT !.lost = l, !.grown = g], lost, grown)
    BY <2>3, <2>4 DEF Sees, FCall
  <2> QED
    BY <2>1, <2>6, <2>7
<1>3. ASSUME pc \in FCall PROVE new \in [FThread -> FCall]
  <2>1. \A u \in FThread : new[u] \in FCall
    BY <1>1, <1>2, <1>3 DEF Sees
  <2>2. new = [u \in FThread |-> new[u]]
    BY DEF Noticed
  <2> QED
    BY <2>1, <2>2
<1> QED
  BY <1>1, <1>2, <1>3

LEMMA PrefixIn ==
  ASSUME NEW p \in Created, NEW j \in 1 .. Len(p)
  PROVE  /\ SubSeq(p, 1, j) \in FPath /\ (j = Len(p) => SubSeq(p, 1, j) = p)
         /\ Len(p) \in Nat /\ p \in FPath
         /\ j = 1 => SubSeq(p, 1, j) = DPath
         /\ j = 2 => SubSeq(p, 1, j) = SPath
         /\ j = 3 => SubSeq(p, 1, j) = LeafPath
         /\ j \in {1, 2, 3}
<1>1. CASE p = DPath
  BY <1>1, PathsAre, PrefixesAre
<1>2. CASE p = SPath
  BY <1>2, PathsAre, PrefixesAre
<1>3. CASE p = LeafPath
  BY <1>3, PathsAre, PrefixesAre
<1> QED
  BY <1>1, <1>2, <1>3 DEF Created

LEMMA SeesShape ==
  ASSUME NEW c \in FCall, ShapeInv(c), NEW d, NEW lost, NEW grown, Sees(c, d, lost, grown)
  PROVE  ShapeInv(d)
BY DEF ShapeInv, Sees

LEMMA MakeStays ==
  ASSUME TreeInv, NEW p \in FPath, NEW isDir \in BOOLEAN, Makes(p, isDir),
         NEW c, CallInv(c), NEW d, Sees(c, d, FALSE, TRUE)
  PROVE  CallInv(d)'
<1>1. d \in FCall /\ ShapeInv(d) /\ d.grown
  BY SeesShape DEF CallInv, Sees
<1>2. \A q \in FPath : /\ DirectoryExists(q) => DirectoryExists(q)'
                       /\ Exists(q) => Exists(q)'
                       /\ fl_tree[q] # Absent => fl_tree'[q] # Absent
  BY DEF Makes, Stays
<1>3. CreateInv(d)'
  <2>1. SUFFICES ASSUME d.op = "create", ~d.lost PROVE CreateInv(d)'
    BY DEF CreateInv
  <2>2. /\ d.path \in Created
        /\ d.at \in {"mkdir", "look"} => d.k \in 1 .. Len(d.path) /\ \A j \in 1 .. d.k - 1 : DirectoryExists(SubSeq(d.path, 1, j))
        /\ d.at = "look" => fl_tree[SubSeq(d.path, 1, d.k)] # Absent
        /\ d.at = "returned" /\ d.ok => DirectoryExists(d.path)
        /\ d.at = "returned" /\ ~d.ok => \E j \in 1 .. Len(d.path) : Exists(SubSeq(d.path, 1, j))
    BY <1>1, <2>1 DEF CallInv, CreateInv, Sees, ShapeInv
  <2>3. \A j \in 1 .. Len(d.path) : SubSeq(d.path, 1, j) \in FPath
    BY <2>2, PrefixIn
  <2>4. d.path \in FPath /\ Len(d.path) \in Nat
    BY <2>2, PathsAre DEF Created
  <2>5. d.at \in {"mkdir", "look"} => \A j \in 1 .. d.k - 1 : DirectoryExists(SubSeq(d.path, 1, j))'
    <3>1. SUFFICES ASSUME d.at \in {"mkdir", "look"}, NEW j \in 1 .. d.k - 1 PROVE DirectoryExists(SubSeq(d.path, 1, j))'
      OBVIOUS
    <3>2. j \in 1 .. Len(d.path) /\ DirectoryExists(SubSeq(d.path, 1, j))
      BY <2>2, <2>4, <3>1
    <3> QED
      BY <1>2, <2>3, <3>2
  <2>6. d.at = "look" => fl_tree'[SubSeq(d.path, 1, d.k)] # Absent
    BY <1>2, <2>2, <2>3
  <2>7. d.at = "returned" /\ d.ok => DirectoryExists(d.path)'
    BY <1>2, <2>2, <2>4
  <2>8. d.at = "returned" /\ ~d.ok => \E j \in 1 .. Len(d.path) : Exists(SubSeq(d.path, 1, j))'
    BY <1>2, <2>2, <2>3
  <2> QED
    BY <2>5, <2>6, <2>7, <2>8 DEF CreateInv
<1>4. AnswerInv(d)'
  <2>1. SUFFICES ASSUME d.op = "open" PROVE AnswerInv(d)'
    BY DEF AnswerInv
  <2>2. AnswerInv(c) /\ c.op = "open" /\ SPath \in FPath
    BY <2>1, PathsAre DEF CallInv, Sees
  <2>3. (DirectoryExists(SPath) => DirectoryExists(SPath)') /\ (Exists(SPath) => Exists(SPath)')
    BY <1>2, <2>2
  <2>4. d.path = SPath /\ (d.at = "mode" => d.mode = d.access)
    BY <2>2 DEF AnswerInv, Sees
  <2>5. d.at \in {"mode", "fopen"} => LooksInv(d)'
    BY <1>1, <2>2, <2>3 DEF AnswerInv, LooksInv, Sees
  <2>6. d.at = "fopen" => FopenInv(d)'
    BY <1>1, <2>2, <2>3 DEF AnswerInv, FopenInv, Sees
  <2>7. d.at = "returned" => OpenAnswers(d)'
    BY <1>1, <2>2, <2>3, <2>4 DEF AnswerInv, OpenAnswers, Sees
  <2> QED
    BY <2>4, <2>5, <2>6, <2>7 DEF AnswerInv
<1> QED
  BY <1>1, <1>3, <1>4 DEF CallInv, DeleteInv, OpenInv

LEMMA RemoveStays ==
  ASSUME TreeInv, NEW p \in FPath, Removes(p), NEW c, CallInv(c), NEW d, Sees(c, d, TRUE, FALSE)
  PROVE  CallInv(d)'
<1>1. d \in FCall /\ ShapeInv(d) /\ d.lost
  BY SeesShape DEF CallInv, Sees
<1>2. \A q \in FPath : (fl_tree[q] = Absent => fl_tree'[q] = Absent) /\ (~Exists(q) => ~Exists(q)')
  BY DEF Removes, Stays
<1>3. DeleteInv(d)'
  <2>1. SUFFICES ASSUME d.op = "delete", ~d.grown, d.at = "returned", d.ok
                 PROVE  \A q \in FPath : IsPrefix(d.path, q) => fl_tree'[q] = Absent
    BY <1>1 DEF DeleteInv
  <2>2. \A q \in FPath : IsPrefix(d.path, q) => fl_tree[q] = Absent
    BY <2>1 DEF CallInv, DeleteInv, Sees
  <2> QED
    BY <1>2, <2>2
<1>4. OpenInv(d)'
  <2>1. d.emptied => d.grown
    BY DEF CallInv, OpenInv, Sees
  <2>2. SUFFICES ASSUME d.at = "fopen", d.mode = "w+", ~d.grown PROVE ~Exists(d.path)'
    BY <2>1 DEF OpenInv
  <2>3. ~Exists(d.path) /\ d.path = SPath
    BY <1>1, <2>2 DEF CallInv, OpenInv, Sees, ShapeInv
  <2>4. d.path \in FPath
    BY <2>3, PathsAre
  <2> QED
    BY <1>2, <2>3, <2>4
<1>5. CreateInv(d)'
  BY <1>1 DEF CreateInv
<1>6. AnswerInv(d)'
  <2>1. SUFFICES ASSUME d.op = "open" PROVE AnswerInv(d)'
    BY DEF AnswerInv
  <2>2. AnswerInv(c) /\ c.op = "open" /\ SPath \in FPath
    BY <2>1, PathsAre DEF CallInv, Sees
  <2>3. ~Exists(SPath) => ~Exists(SPath)'
    BY <1>2, <2>2
  <2>4. d.path = SPath /\ (d.at = "mode" => d.mode = d.access)
    BY <2>2 DEF AnswerInv, Sees
  <2>5. d.at \in {"mode", "fopen"} => LooksInv(d)'
    BY <1>1, <2>2, <2>3 DEF AnswerInv, LooksInv, Sees
  <2>6. d.at = "fopen" => FopenInv(d)'
    BY <1>1, <2>2, <2>3 DEF AnswerInv, FopenInv, Sees
  <2>7. d.at = "returned" => OpenAnswers(d)'
    BY <1>1, <2>2, <2>4 DEF AnswerInv, OpenAnswers, Sees
  <2> QED
    BY <2>4, <2>5, <2>6, <2>7 DEF AnswerInv
<1> QED
  BY <1>1, <1>3, <1>4, <1>5, <1>6 DEF CallInv

LEMMA EntriesStay ==
  ASSUME Leaves, NEW p
  PROVE  Entries(p)' = Entries(p)
<1>1. Children(p) \subseteq FPath
  BY DEF Children
<1>2. \A q \in FPath : fl_tree'[q] = fl_tree[q] /\ (DirectoryExists(q)' <=> DirectoryExists(q))
  BY DEF Leaves, Stays
<1>3. \A q \in FPath : DirectoryExists(q) \in BOOLEAN /\ DirectoryExists(q)' \in BOOLEAN
  BY DEF DirectoryExists
<1>4. \A q \in FPath : DirectoryExists(q)' = DirectoryExists(q)
  BY <1>2, <1>3
<1> QED
  BY <1>1, <1>2, <1>4 DEF Entries

LEMMA LeaveStays ==
  ASSUME Leaves, NEW c, CallInv(c)
  PROVE  CallInv(c)'
<1>1. \A q \in FPath : /\ fl_tree'[q] = fl_tree[q]
                       /\ DirectoryExists(q)' <=> DirectoryExists(q)
                       /\ Exists(q)' <=> Exists(q)
  BY DEF Leaves, Stays
<1>2. c \in FCall /\ ShapeInv(c) /\ CreateInv(c) /\ DeleteInv(c) /\ OpenInv(c) /\ AnswerInv(c)
  BY DEF CallInv
<1>3. CreateInv(c)'
  <2>1. SUFFICES ASSUME c.op = "create", ~c.lost PROVE CreateInv(c)'
    BY DEF CreateInv
  <2>2. c.path \in Created /\ (c.at \in {"mkdir", "look"} => c.k \in 1 .. Len(c.path))
    BY <1>2, <2>1 DEF ShapeInv
  <2>3. \A j \in 1 .. Len(c.path) : SubSeq(c.path, 1, j) \in FPath
    BY <2>2, PrefixIn
  <2>4. c.path \in FPath /\ Len(c.path) \in Nat
    BY <2>2, PathsAre DEF Created
  <2>5. c.at \in {"mkdir", "look"} => \A j \in 1 .. c.k - 1 : DirectoryExists(SubSeq(c.path, 1, j))'
    <3>1. SUFFICES ASSUME c.at \in {"mkdir", "look"}, NEW j \in 1 .. c.k - 1 PROVE DirectoryExists(SubSeq(c.path, 1, j))'
      OBVIOUS
    <3>2. j \in 1 .. Len(c.path)
      BY <2>2, <2>4, <3>1
    <3>3. DirectoryExists(SubSeq(c.path, 1, j))
      BY <1>2, <2>1, <3>1 DEF CreateInv
    <3> QED
      BY <1>1, <2>3, <3>2, <3>3
  <2>6. c.at = "look" => fl_tree'[SubSeq(c.path, 1, c.k)] # Absent
    BY <1>1, <1>2, <2>1, <2>2, <2>3 DEF CreateInv
  <2>7. c.at = "returned" /\ c.ok => DirectoryExists(c.path)'
    BY <1>1, <1>2, <2>1, <2>4 DEF CreateInv
  <2>8. c.at = "returned" /\ ~c.ok => \E j \in 1 .. Len(c.path) : Exists(SubSeq(c.path, 1, j))'
    BY <1>1, <1>2, <2>1, <2>3 DEF CreateInv
  <2> QED
    BY <2>5, <2>6, <2>7, <2>8 DEF CreateInv
<1>4. DeleteInv(c)'
  <2>1. SUFFICES ASSUME c.op = "delete", ~c.grown PROVE DeleteInv(c)'
    BY DEF DeleteInv
  <2>2. c.path \in FPath
    BY <1>2, <2>1, PathsAre DEF ShapeInv, DeletedPath
  <2>3. c.at = "returned" /\ c.ok => \A q \in FPath : IsPrefix(c.path, q) => fl_tree'[q] = Absent
    BY <1>1, <1>2, <2>1 DEF DeleteInv
  <2>4. c.at = "returned" /\ ~c.ok => c.lost \/ ~DirectoryExists(c.path)'
    BY <1>1, <1>2, <2>1, <2>2 DEF DeleteInv
  <2>5. c.at = "readdir" /\ ~c.lost => DirectoryExists(c.path)'
    BY <1>1, <1>2, <2>1, <2>2 DEF DeleteInv
  <2>6. c.at = "delete" /\ ~c.lost =>
          /\ DirectoryExists(c.stack[Len(c.stack)].dir)'
          /\ c.stack[Len(c.stack)].rest = Entries(c.stack[Len(c.stack)].dir)'
    <3>1. SUFFICES ASSUME c.at = "delete", ~c.lost
                   PROVE  /\ DirectoryExists(c.stack[Len(c.stack)].dir)'
                          /\ c.stack[Len(c.stack)].rest = Entries(c.stack[Len(c.stack)].dir)'
      OBVIOUS
    <3>2. PICK f : f = c.stack[Len(c.stack)]
      OBVIOUS
    <3>3. f \in DFrame
      <4>1. ASSUME NEW V, NEW s \in Seq(V), s # <<>> PROVE s[Len(s)] \in V
        BY <4>1, EmptySeq
      <4>2. c.stack \in Seq(DFrame) /\ c.stack # <<>>
        BY <1>2, <3>1 DEF FCall, ShapeInv, Chain
      <4> QED
        BY <3>2, <4>1, <4>2
    <3>4. f.dir \in FPath
      BY <3>3 DEF DFrame
    <3>5. DirectoryExists(f.dir) /\ f.rest = Entries(f.dir)
      BY <1>2, <2>1, <3>1, <3>2 DEF DeleteInv
    <3>6. DirectoryExists(f.dir)' /\ f.rest = Entries(f.dir)'
      BY <1>1, <3>4, <3>5, EntriesStay
    <3> QED
      BY <3>2, <3>6
  <2> QED
    BY <2>3, <2>4, <2>5, <2>6 DEF DeleteInv
<1>5. OpenInv(c)'
  <2>1. c.at = "fopen" => c.path \in FPath
    BY <1>2, PathsAre DEF ShapeInv
  <2> QED
    BY <1>1, <1>2, <2>1 DEF OpenInv
<1>6. AnswerInv(c)'
  <2>1. SPath \in FPath /\ DPath \in FPath
    BY PathsAre
  <2>2. /\ DirectoryExists(SPath)' <=> DirectoryExists(SPath)
        /\ Exists(SPath)' <=> Exists(SPath)
        /\ MayCreate(SPath)' <=> MayCreate(SPath)
    <3>1. MayCreate(SPath) <=> fl_tree[SPath] = Absent /\ DirectoryExists(DPath)
      BY <2>1, ParentIs DEF MayCreate
    <3>2. MayCreate(SPath)' <=> fl_tree'[SPath] = Absent /\ DirectoryExists(DPath)'
      <4>1. 2 > 1
        OBVIOUS
      <4> QED
        BY <2>1, <4>1, PathsAre, PrefixesAre DEF MayCreate, ParentThere
    <3> QED
      BY <1>1, <2>1, <3>1, <3>2
  <2> QED
    BY <1>2, <2>2 DEF AnswerInv, LooksInv, FopenInv, OpenAnswers, RefusedForCause
<1> QED
  BY <1>2, <1>3, <1>4, <1>5, <1>6 DEF CallInv

-----------------------------------------------------------------------------
(* All operations under way, and what a step of thread t does to the       *)
(* others.                                                                 *)
FileCallsInv == fl_pc \in [FThread -> FCall] /\ \A u \in FThread : CallInv(fl_pc[u])

OthersGoOn(t) ==
  \A u \in FThread \ {t} :
    fl_pc'[u].at = fl_pc[u].at /\ fl_pc'[u].op = fl_pc[u].op /\ fl_pc'[u].path = fl_pc[u].path

LEMMA MakeKeeps ==
  ASSUME TreeInv, FileCallsInv, NEW t \in FThread, NEW p \in FPath, NEW isDir \in BOOLEAN, NEW n,
         MayCreate(p), MakePath(t, p, isDir, n), CallInv(n)'
  PROVE  TreeInv' /\ FileCallsInv' /\ OthersGoOn(t) /\ fl_pc'[t] = n
<1>1. TreeInv' /\ Makes(p, isDir)
  BY MakeEffect
<1>2. n \in FCall
  BY DEF CallInv
<1>3. fl_pc' = Noticed(t, n, FALSE, TRUE)
  BY DEF MakePath
<1>4. /\ fl_pc'[t] = n /\ fl_pc' \in [FThread -> FCall]
      /\ \A u \in FThread \ {t} : Sees(fl_pc[u], fl_pc'[u], FALSE, TRUE)
  BY <1>2, <1>3, NoticedIs DEF FileCallsInv
<1>5. ASSUME NEW u \in FThread PROVE CallInv(fl_pc[u])'
  <2>1. PICK d : d = fl_pc'[u]
    OBVIOUS
  <2>2. CallInv(d)'
    <3>1. CASE u = t
      BY <1>4, <2>1, <3>1
    <3>2. CASE u # t
      <4>1. PICK c : c = fl_pc[u]
        OBVIOUS
      <4>2. CallInv(c) /\ Sees(c, d, FALSE, TRUE)
        BY <1>4, <2>1, <3>2, <4>1 DEF FileCallsInv
      <4> QED
        BY <1>1, <4>2, MakeStays
    <3> QED
      BY <3>1, <3>2
  <2> QED
    BY <2>1, <2>2
<1>6. OthersGoOn(t)
  BY <1>4 DEF OthersGoOn, Sees
<1> QED
  BY <1>1, <1>4, <1>5, <1>6 DEF FileCallsInv

LEMMA RemoveKeeps ==
  ASSUME TreeInv, FileCallsInv, NEW t \in FThread, NEW p \in FPath, NEW n, RemovePath(t, p, n),
         \A q \in Children(p) : fl_tree[q] = Absent, CallInv(n)'
  PROVE  TreeInv' /\ FileCallsInv' /\ OthersGoOn(t) /\ fl_pc'[t] = n
<1>1. TreeInv' /\ Removes(p)
  BY RemoveEffect
<1>2. n \in FCall
  BY DEF CallInv
<1>3. fl_pc' = Noticed(t, n, TRUE, FALSE)
  BY DEF RemovePath
<1>4. /\ fl_pc'[t] = n /\ fl_pc' \in [FThread -> FCall]
      /\ \A u \in FThread \ {t} : Sees(fl_pc[u], fl_pc'[u], TRUE, FALSE)
  BY <1>2, <1>3, NoticedIs DEF FileCallsInv
<1>5. ASSUME NEW u \in FThread PROVE CallInv(fl_pc[u])'
  <2>1. PICK d : d = fl_pc'[u]
    OBVIOUS
  <2>2. CallInv(d)'
    <3>1. CASE u = t
      BY <1>4, <2>1, <3>1
    <3>2. CASE u # t
      <4>1. PICK c : c = fl_pc[u]
        OBVIOUS
      <4>2. CallInv(c) /\ Sees(c, d, TRUE, FALSE)
        BY <1>4, <2>1, <3>2, <4>1 DEF FileCallsInv
      <4> QED
        BY <1>1, <4>2, RemoveStays
    <3> QED
      BY <3>1, <3>2
  <2> QED
    BY <2>1, <2>2
<1>6. OthersGoOn(t)
  BY <1>4 DEF OthersGoOn, Sees
<1> QED
  BY <1>1, <1>4, <1>5, <1>6 DEF FileCallsInv

LEMMA LeaveKeeps ==
  ASSUME TreeInv, FileCallsInv, NEW t \in FThread, NEW n, LeavePaths(t, n), CallInv(n)
  PROVE  TreeInv' /\ FileCallsInv' /\ OthersGoOn(t) /\ fl_pc'[t] = n /\ fl_tree' = fl_tree
<1>1. fl_pc' = [fl_pc EXCEPT ![t] = n] /\ UNCHANGED <<fl_tree, fl_dirs, fl_made>>
  BY DEF LeavePaths
<1>2. TreeInv' /\ Leaves
  BY <1>1, LeaveEffect
<1>3. n \in FCall /\ fl_pc \in [FThread -> FCall]
  BY DEF CallInv, FileCallsInv
<1>4. /\ fl_pc'[t] = n /\ fl_pc' \in [FThread -> FCall]
      /\ \A u \in FThread \ {t} : fl_pc'[u] = fl_pc[u]
  BY <1>1, <1>3
<1>5. ASSUME NEW u \in FThread PROVE CallInv(fl_pc[u])'
  <2>1. PICK d : d = fl_pc'[u]
    OBVIOUS
  <2>2. CallInv(d)
    BY <1>4, <2>1 DEF FileCallsInv
  <2>3. CallInv(d)'
    BY <1>2, <2>2, LeaveStays
  <2> QED
    BY <2>1, <2>3
<1>6. OthersGoOn(t)
  BY <1>4 DEF OthersGoOn
<1> QED
  BY <1>1, <1>2, <1>4, <1>5, <1>6 DEF FileCallsInv

LEMMA PlainCall ==
  ASSUME NEW n \in FCall, n.op \notin {"create", "delete", "open"},
         n.at \notin {"mkdir", "look", "readdir", "delete", "mode", "fopen"},
         n.at \in {"unlink", "reopen", "unname", "rename"} => n.op = "temp",
         n.emptied => n.grown
  PROVE  CallInv(n) /\ CallInv(n)'
<1>1. ShapeInv(n)
  BY DEF ShapeInv
<1>2. /\ CreateInv(n) /\ DeleteInv(n) /\ OpenInv(n) /\ AnswerInv(n)
      /\ CreateInv(n)' /\ DeleteInv(n)' /\ OpenInv(n)' /\ AnswerInv(n)'
  BY DEF CreateInv, DeleteInv, OpenInv, AnswerInv
<1> QED
  BY <1>1, <1>2 DEF CallInv

LEMMA OpenCall ==
  ASSUME NEW n \in FCall, n.op = "open", n.path = SPath, n.emptied => n.grown
  PROVE  /\ n.at = "mode" /\ n.mode = n.access /\ LooksInv(n) => CallInv(n)
         /\ n.at = "fopen" /\ (n.mode = "w+" => ~Exists(SPath) \/ n.grown) /\ LooksInv(n) /\ FopenInv(n) => CallInv(n)
         /\ n.at = "returned" /\ OpenAnswers(n) => CallInv(n)
         /\ n.at = "returned" /\ OpenAnswers(n)' => CallInv(n)'
<1>1. CreateInv(n) /\ DeleteInv(n) /\ CreateInv(n)' /\ DeleteInv(n)'
  BY DEF CreateInv, DeleteInv
<1>2. n.at \in {"mode", "fopen", "returned"} => ShapeInv(n)
  BY DEF ShapeInv
<1> QED
  BY <1>1, <1>2 DEF CallInv, OpenInv, AnswerInv

(* The records that operations begin, go on and end with. *)
LEMMA ReturnedIs ==
  /\ Returned \in FCall /\ Returned.at = "returned" /\ Returned.ok /\ ~Returned.lost /\ ~Returned.grown
  /\ ~Returned.emptied /\ ~Returned.made /\ Returned.stack = <<>>
<1>1. <<>> \in Seq(DFrame) /\ <<>> \in AnyPath
  BY EmptySeq DEF AnyPath
<1>2. 0 \in Nat
  OBVIOUS
<1>3. Returned \in FCall
  BY <1>1, <1>2, Zenon DEF Returned, FCall, FOp, FAt, FMode
<1>4. /\ Returned.at = "returned" /\ Returned.ok /\ ~Returned.lost /\ ~Returned.grown
      /\ ~Returned.emptied /\ ~Returned.made /\ Returned.stack = <<>>
  BY Zenon DEF Returned
<1> QED
  BY <1>3, <1>4

LEMMA OpIs ==
  ASSUME NEW op \in FOp, NEW p \in AnyPath, NEW at \in FAt
  PROVE  /\ Op(op, p, at) \in FCall
         /\ Op(op, p, at).op = op /\ Op(op, p, at).path = p /\ Op(op, p, at).at = at /\ Op(op, p, at).ok
         /\ ~Op(op, p, at).lost /\ ~Op(op, p, at).grown /\ ~Op(op, p, at).emptied /\ Op(op, p, at).stack = <<>>
         /\ ~Op(op, p, at).made
<1>1. ASSUME NEW r \in FCall
      PROVE  LET n == [r EXCEPT !.op = op, !.path = p, !.at = at]
             IN  /\ n \in FCall /\ n.op = op /\ n.path = p /\ n.at = at
                 /\ n.ok = r.ok /\ n.lost = r.lost /\ n.grown = r.grown /\ n.emptied = r.emptied /\ n.stack = r.stack
                 /\ n.made = r.made
  BY <1>1 DEF FCall
<1> QED
  BY <1>1, ReturnedIs DEF Op

(* A call of Open, as it begins. *)
LEMMA AsksIs ==
  ASSUME NEW p \in AnyPath, NEW at \in FAt, NEW a \in Access, NEW e \in ExistsMode, NEW n, n = Asks(p, at, a, e)
  PROVE  /\ n \in FCall /\ n.op = "open" /\ n.path = p /\ n.at = at /\ n.ok /\ n.asked = e /\ n.access = a
         /\ ~n.lost /\ ~n.grown /\ ~n.emptied /\ ~n.made
<1>1. PICK r : r = Op("open", p, at)
  OBVIOUS
<1>2. r \in FCall /\ r.op = "open" /\ r.path = p /\ r.at = at /\ r.ok /\ ~r.lost /\ ~r.grown /\ ~r.emptied /\ ~r.made
  <2>1. "open" \in FOp
    BY DEF FOp
  <2> QED
    BY <1>1, <2>1, OpIs
<1>3. n = [r EXCEPT !.asked = e, !.access = a]
  BY <1>1 DEF Asks
<1> QED
  BY <1>2, <1>3 DEF FCall

LEMMA FailsIs ==
  ASSUME NEW r \in FCall, NEW ok \in BOOLEAN
  PROVE  LET n == [r EXCEPT !.ok = ok]
         IN  /\ n \in FCall /\ n.op = r.op /\ n.path = r.path /\ n.at = r.at /\ n.ok = ok
             /\ n.lost = r.lost /\ n.grown = r.grown /\ n.emptied = r.emptied
BY DEF FCall

LEMMA ModeIs ==
  ASSUME NEW r \in FCall, NEW mode \in FMode
  PROVE  LET n == [r EXCEPT !.mode = mode]
         IN  /\ n \in FCall /\ n.op = r.op /\ n.path = r.path /\ n.at = r.at /\ n.ok = r.ok /\ n.mode = mode
             /\ n.lost = r.lost /\ n.grown = r.grown /\ n.emptied = r.emptied
BY DEF FCall

LEMMA ReturnIs ==
  ASSUME NEW t, NEW c \in FCall, c = fl_pc[t], NEW ok \in BOOLEAN
  PROVE  LET n == Return(t, ok)
         IN  /\ n \in FCall /\ n.op = c.op /\ n.path = c.path /\ n.at = "returned" /\ n.ok = ok /\ n.mode = c.mode
             /\ n.lost = c.lost /\ n.grown = c.grown /\ n.emptied = c.emptied
             /\ n.asked = c.asked /\ n.access = c.access /\ n.made = c.made
<1>1. <<>> \in Seq(DFrame)
  BY EmptySeq
<1>2. [c EXCEPT !.at = "returned", !.ok = ok, !.stack = <<>>] = Return(t, ok)
  BY DEF Return
<1>3. LET n == [c EXCEPT !.at = "returned", !.ok = ok, !.stack = <<>>]
      IN  /\ n \in FCall /\ n.op = c.op /\ n.path = c.path /\ n.at = "returned" /\ n.ok = ok /\ n.mode = c.mode
          /\ n.lost = c.lost /\ n.grown = c.grown /\ n.emptied = c.emptied
          /\ n.asked = c.asked /\ n.access = c.access /\ n.made = c.made
  BY <1>1 DEF FCall, FAt
<1> QED
  BY <1>2, <1>3

LEMMA GoesToIs ==
  ASSUME NEW t, NEW c \in FCall, c = fl_pc[t], NEW at \in FAt
  PROVE  LET n == GoesTo(t, at)
         IN  /\ n \in FCall /\ n.op = c.op /\ n.path = c.path /\ n.at = at /\ n.ok = c.ok /\ n.mode = c.mode /\ n.k = c.k
             /\ n.lost = c.lost /\ n.grown = c.grown /\ n.emptied = c.emptied /\ n.stack = c.stack
<1>1. GoesTo(t, at) = [c EXCEPT !.at = at]
  BY DEF GoesTo
<1>2. LET n == [c EXCEPT !.at = at]
      IN  /\ n \in FCall /\ n.op = c.op /\ n.path = c.path /\ n.at = at /\ n.ok = c.ok /\ n.mode = c.mode /\ n.k = c.k
          /\ n.lost = c.lost /\ n.grown = c.grown /\ n.emptied = c.emptied /\ n.stack = c.stack
  BY DEF FCall
<1> QED
  BY <1>1, <1>2


-----------------------------------------------------------------------------
(* The File objects, and who claims the temporary name: the File that has  *)
(* it, or the thread that made it and has not opened it yet.               *)
FObject == [path : AnyPath, auto_delete : BOOLEAN, id : Nat, mode : Access]

Claims(t) == fl_own[t].path = TempPath \/ fl_pc[t].at \in {"reopen", "unname"}

TempOf(t) ==
  /\ fl_own[t].path = TempPath => fl_tree[TempPath] = fl_own[t].id /\ fl_own[t].id # Absent
  /\ fl_pc[t].at \in {"reopen", "unname"} => fl_tree[TempPath] # Absent /\ fl_own[t].path # TempPath
  /\ fl_own[t].auto_delete => fl_own[t].path = TempPath
  /\ fl_pc[t].at = "unlink" => fl_own[t].path = TempPath
  /\ fl_pc[t].at \in {"readdir", "delete"} /\ fl_pc[t].path = TempPath => fl_own[t].path = TempPath

TempInv ==
  /\ fl_own \in [FThread -> FObject]
  /\ \A t \in FThread : TempOf(t)
  /\ \A t, u \in FThread : Claims(t) /\ Claims(u) => t = u

FilesInv == TreeInv /\ FileCallsInv /\ TempInv

LEMMA TempStep ==
  ASSUME TempInv, NEW t \in FThread, OthersGoOn(t), fl_own' \in [FThread -> FObject],
         \A u \in FThread \ {t} : fl_own'[u] = fl_own[u],
         fl_tree'[TempPath] = fl_tree[TempPath] \/ fl_tree[TempPath] = Absent \/ Claims(t),
         TempOf(t)', Claims(t)' => Claims(t) \/ fl_tree[TempPath] = Absent
  PROVE  TempInv'
<1>1. ASSUME NEW u \in FThread \ {t}
      PROVE  /\ TempOf(u)'
             /\ Claims(u)' => Claims(u)
             /\ Claims(u) => ~Claims(t) /\ fl_tree[TempPath] # Absent
  <2>1. fl_own'[u] = fl_own[u] /\ fl_pc'[u].at = fl_pc[u].at /\ fl_pc'[u].op = fl_pc[u].op /\ fl_pc'[u].path = fl_pc[u].path
    BY DEF OthersGoOn
  <2>2. Claims(u) => ~Claims(t)
    BY DEF TempInv
  <2>3. TempOf(u)
    BY DEF TempInv
  <2>4. Claims(u) => fl_tree[TempPath] # Absent
    BY <2>3 DEF TempOf, Claims
  <2>5. Claims(u) => fl_tree'[TempPath] = fl_tree[TempPath]
    BY <2>2, <2>4
  <2>6. TempOf(u)'
    BY <2>1, <2>3, <2>5 DEF TempOf, Claims
  <2>7. Claims(u)' => Claims(u)
    BY <2>1 DEF Claims
  <2> QED
    BY <2>2, <2>4, <2>6, <2>7
<1>2. \A u \in FThread : TempOf(u)'
  BY <1>1
<1>3. ASSUME NEW u \in FThread, NEW v \in FThread, Claims(u)', Claims(v)' PROVE u = v
  <2>1. CASE u # t /\ v # t
    BY <1>1, <1>3, <2>1 DEF TempInv
  <2>2. CASE u = t \/ v = t
    BY <1>1, <1>3, <2>2
  <2> QED
    BY <2>1, <2>2
<1> QED
  BY <1>2, <1>3 DEF TempInv

(* A step that leaves the File objects and the temporary name alone. *)
LEMMA TempLeft ==
  ASSUME TempInv, NEW t \in FThread, OthersGoOn(t), UNCHANGED fl_own, fl_tree'[TempPath] = fl_tree[TempPath],
         fl_pc'[t].at \notin {"reopen", "unname", "unlink"},
         fl_pc'[t].at \in {"readdir", "delete"} /\ fl_pc'[t].path = TempPath => fl_own[t].path = TempPath
  PROVE  TempInv'
<1>1. TempOf(t)
  BY DEF TempInv
<1>2. TempOf(t)'
  BY <1>1 DEF TempOf
<1>3. Claims(t)' => Claims(t)
  BY DEF Claims
<1>4. fl_own' \in [FThread -> FObject]
  BY DEF TempInv
<1> QED
  BY <1>2, <1>3, <1>4, TempStep

-----------------------------------------------------------------------------
(* RecursivelyCreateDir. *)
LEMMA CallIs ==
  ASSUME FileCallsInv, NEW t \in FThread
  PROVE  fl_pc[t] \in FCall /\ CallInv(fl_pc[t])
BY DEF FileCallsInv

LEMMA CreateCall ==
  ASSUME NEW n \in FCall, n.op = "create", n.path \in Created, n.at \in {"mkdir", "look", "returned"},
         n.at \in {"mkdir", "look"} => n.k \in 1 .. Len(n.path), n.emptied => n.grown
  PROVE  (CreateInv(n) => CallInv(n)) /\ (CreateInv(n)' => CallInv(n)')
<1>1. ShapeInv(n)
  BY DEF ShapeInv
<1>2. DeleteInv(n) /\ OpenInv(n) /\ AnswerInv(n) /\ DeleteInv(n)' /\ OpenInv(n)' /\ AnswerInv(n)'
  BY DEF DeleteInv, OpenInv, AnswerInv
<1> QED
  BY <1>1, <1>2 DEF CallInv

LEMMA AdvanceIs ==
  ASSUME NEW t, NEW c \in FCall, c = fl_pc[t], c.op = "create", c.path \in Created, c.k \in 1 .. Len(c.path)
  PROVE  LET n == Advance(t)
         IN  /\ n \in FCall /\ n.op = "create" /\ n.path = c.path
             /\ n.lost = c.lost /\ n.grown = c.grown /\ n.emptied = c.emptied
             /\ c.k = Len(c.path) => n.at = "returned" /\ n.ok
             /\ c.k # Len(c.path) => n.at = "mkdir" /\ n.k = c.k + 1
<1>1. CASE c.k = Len(c.path)
  <2>1. Advance(t) = Return(t, TRUE)
    BY <1>1 DEF Advance
  <2>2. PICK n : n = Return(t, TRUE)
    OBVIOUS
  <2>3. /\ n \in FCall /\ n.op = c.op /\ n.path = c.path /\ n.at = "returned" /\ n.ok = TRUE
        /\ n.lost = c.lost /\ n.grown = c.grown /\ n.emptied = c.emptied
    BY <2>2, ReturnIs
  <2> QED
    BY <1>1, <2>1, <2>2, <2>3
<1>2. CASE c.k # Len(c.path)
  <2>1. Advance(t) = [c EXCEPT !.at = "mkdir", !.k = c.k + 1]
    BY <1>2 DEF Advance
  <2>2. c.k + 1 \in Nat
    OBVIOUS
  <2>3. LET n == [c EXCEPT !.at = "mkdir", !.k = c.k + 1]
        IN  /\ n \in FCall /\ n.op = c.op /\ n.path = c.path
            /\ n.lost = c.lost /\ n.grown = c.grown /\ n.emptied = c.emptied
            /\ n.at = "mkdir" /\ n.k = c.k + 1
    BY <2>2 DEF FCall, FAt
  <2> QED
    BY <1>2, <2>1, <2>3
<1> QED
  BY <1>1, <1>2

LEMMA AdvanceKeeps ==
  ASSUME NEW t, NEW c \in FCall, c = fl_pc[t], c.op = "create", c.path \in Created, c.k \in 1 .. Len(c.path),
         c.emptied => c.grown, NEW n, n = Advance(t)
  PROVE  /\ (~c.lost => \A j \in 1 .. c.k : DirectoryExists(SubSeq(c.path, 1, j))) => CallInv(n)
         /\ (~c.lost => \A j \in 1 .. c.k : DirectoryExists(SubSeq(c.path, 1, j))') => CallInv(n)'
<1>1. /\ n \in FCall /\ n.op = "create" /\ n.path = c.path
      /\ n.lost = c.lost /\ n.grown = c.grown /\ n.emptied = c.emptied
      /\ c.k = Len(c.path) => n.at = "returned" /\ n.ok
      /\ c.k # Len(c.path) => n.at = "mkdir" /\ n.k = c.k + 1
  BY AdvanceIs
<1>2. Len(c.path) \in Nat /\ SubSeq(c.path, 1, Len(c.path)) = c.path
  <2>1. Len(c.path) \in Nat /\ Len(c.path) \in 1 .. Len(c.path)
    BY PathsAre DEF Created
  <2> QED
    BY <2>1, PrefixIn
<1>3. c.k # Len(c.path) => n.k \in 1 .. Len(n.path) /\ n.k - 1 = c.k
  BY <1>1, <1>2
<1>4. n.at \in {"mkdir", "look", "returned"} /\ (n.at \in {"mkdir", "look"} => n.k \in 1 .. Len(n.path))
  BY <1>1, <1>3
<1>5. c.k \in 1 .. c.k
  OBVIOUS
<1>6. (~c.lost => \A j \in 1 .. c.k : DirectoryExists(SubSeq(c.path, 1, j))) => CreateInv(n)
  BY <1>1, <1>2, <1>3, <1>5 DEF CreateInv
<1>7. (~c.lost => \A j \in 1 .. c.k : DirectoryExists(SubSeq(c.path, 1, j))') => CreateInv(n)'
  BY <1>1, <1>2, <1>3, <1>5 DEF CreateInv
<1> QED
  BY <1>1, <1>4, <1>6, <1>7, CreateCall

LEMMA CreateFails ==
  ASSUME NEW t, NEW c \in FCall, c = fl_pc[t], c.op = "create", c.path \in Created, c.emptied => c.grown,
         ~c.lost => \E j \in 1 .. Len(c.path) : Exists(SubSeq(c.path, 1, j)), NEW n, n = Return(t, FALSE)
  PROVE  CallInv(n)
<1>1. /\ n \in FCall /\ n.op = c.op /\ n.path = c.path /\ n.at = "returned" /\ ~n.ok
      /\ n.lost = c.lost /\ n.grown = c.grown /\ n.emptied = c.emptied
  BY ReturnIs
<1>2. CreateInv(n)
  BY <1>1 DEF CreateInv
<1> QED
  BY <1>1, <1>2, CreateCall

(* The directory above the one to make is there, if nothing was removed. *)
LEMMA AboveIsThere ==
  ASSUME NEW c \in FCall, c.path \in Created, c.k \in 1 .. Len(c.path),
         \A j \in 1 .. c.k - 1 : DirectoryExists(SubSeq(c.path, 1, j))
  PROVE  ParentThere(SubSeq(c.path, 1, c.k))
<1>1. c.k \in {1, 2, 3} /\ SubSeq(c.path, 1, c.k) \in FPath
  BY PrefixIn
<1>2. CASE c.k = 1
  BY <1>1, <1>2, PrefixIn, ParentIs
<1>3. CASE c.k = 2
  <2>1. 1 \in 1 .. c.k - 1 /\ 1 \in 1 .. Len(c.path)
    BY <1>3, PathsAre DEF Created
  <2>2. DirectoryExists(DPath)
    BY <2>1, PrefixIn
  <2> QED
    BY <1>1, <1>3, <2>2, PrefixIn, ParentIs
<1>4. CASE c.k = 3
  <2>1. 2 \in 1 .. c.k - 1 /\ 2 \in 1 .. Len(c.path)
    BY <1>4, PathsAre DEF Created
  <2>2. DirectoryExists(SPath)
    BY <2>1, PrefixIn
  <2> QED
    BY <1>1, <1>4, <2>2, PrefixIn, ParentIs
<1> QED
  BY <1>1, <1>2, <1>3, <1>4

LEMMA RecursivelyCreateDirKeeps ==
  ASSUME FilesInv, NEW t \in FThread, NEW p \in FPath \ {TempPath}, RecursivelyCreateDir(t, p)
  PROVE  FilesInv'
<1>1. p \in Created /\ p \in AnyPath /\ Len(p) \in Nat /\ 1 \in 1 .. Len(p)
  BY PathsAre DEF Created, AnyPath
<1>2. PICK n : /\ n = IF fl_build # "wince" /\ DirectoryExists(p) THEN Op("create", p, "returned")
                      ELSE [Op("create", p, "mkdir") EXCEPT !.k = 1]
               /\ LeavePaths(t, n) /\ UNCHANGED fl_own
  BY DEF RecursivelyCreateDir, Begin
<1>3. CallInv(n) /\ n.at \in {"returned", "mkdir"} /\ n.op = "create"
  <2>1. CASE fl_build # "wince" /\ DirectoryExists(p)
    <3>1. n = Op("create", p, "returned")
      BY <1>2, <2>1
    <3>2. n \in FCall /\ n.op = "create" /\ n.path = p /\ n.at = "returned" /\ n.ok /\ ~n.emptied
      BY <1>1, <3>1, OpIs DEF FOp, FAt
    <3>3. CreateInv(n)
      BY <2>1, <3>2 DEF CreateInv
    <3> QED
      BY <1>1, <3>2, <3>3, CreateCall
  <2>2. CASE ~(fl_build # "wince" /\ DirectoryExists(p))
    <3>1. PICK r : r = Op("create", p, "mkdir")
      OBVIOUS
    <3>2. r \in FCall /\ r.op = "create" /\ r.path = p /\ r.at = "mkdir" /\ ~r.emptied
      BY <1>1, <3>1, OpIs DEF FOp, FAt
    <3>3. n = [r EXCEPT !.k = 1]
      BY <1>2, <2>2, <3>1
    <3>4. n \in FCall /\ n.op = "create" /\ n.path = p /\ n.at = "mkdir" /\ ~n.emptied /\ n.k = 1
      BY <3>2, <3>3 DEF FCall
    <3>5. \A j \in 1 .. n.k - 1 : FALSE
      BY <3>4
    <3>6. CreateInv(n)
      BY <3>4, <3>5 DEF CreateInv
    <3> QED
      BY <1>1, <3>4, <3>6, CreateCall
  <2> QED
    BY <2>1, <2>2
<1>4. TreeInv' /\ FileCallsInv' /\ OthersGoOn(t) /\ fl_pc'[t] = n /\ fl_tree' = fl_tree
  BY <1>2, <1>3, LeaveKeeps DEF FilesInv
<1>5. TempInv'
  BY <1>2, <1>3, <1>4, TempLeft DEF FilesInv
<1> QED
  BY <1>4, <1>5 DEF FilesInv

(* The steps of RecursivelyCreateDir: it makes a directory, or leaves the  *)
(* paths alone.                                                            *)
LEMMA CreateMakes ==
  ASSUME FilesInv, NEW t \in FThread, NEW c \in FCall, c = fl_pc[t], CallInv(c), c.at = "mkdir",
         NEW p, p = SubSeq(c.path, 1, c.k), MayCreate(p), MakePath(t, p, TRUE, Advance(t)), UNCHANGED fl_own
  PROVE  FilesInv'
<1>1. /\ c.op = "create" /\ c.path \in Created /\ c.k \in 1 .. Len(c.path) /\ (c.emptied => c.grown)
      /\ ~c.lost => \A j \in 1 .. c.k - 1 : DirectoryExists(SubSeq(c.path, 1, j))
  BY DEF CallInv, ShapeInv, CreateInv, OpenInv
<1>2. PICK n : n = Advance(t)
  OBVIOUS
<1>3. p \in FPath /\ p # TempPath
  <2>1. p \in {DPath, SPath, LeafPath}
    BY <1>1, PrefixIn
  <2> QED
    BY <2>1, PathsAre
<1>4. MakePath(t, p, TRUE, n)
  BY <1>2
<1>5. Makes(p, TRUE)
  BY <1>3, <1>4, MakeEffect DEF FilesInv
<1>6. ~c.lost => \A j \in 1 .. c.k : DirectoryExists(SubSeq(c.path, 1, j))'
  <2>1. SUFFICES ASSUME ~c.lost, NEW j \in 1 .. c.k PROVE DirectoryExists(SubSeq(c.path, 1, j))'
    OBVIOUS
  <2>2. j = c.k \/ j \in 1 .. c.k - 1
    BY <1>1
  <2>3. CASE j = c.k
    BY <1>5, <2>3 DEF Makes
  <2>4. CASE j \in 1 .. c.k - 1
    <3>1. j \in 1 .. Len(c.path)
      BY <1>1, <2>4, PathsAre DEF Created
    <3>2. SubSeq(c.path, 1, j) \in FPath /\ DirectoryExists(SubSeq(c.path, 1, j))
      BY <1>1, <2>1, <2>4, <3>1, PrefixIn
    <3> QED
      BY <1>5, <3>2 DEF Makes, Stays
  <2> QED
    BY <2>2, <2>3, <2>4
<1>7. CallInv(n)'
  BY <1>1, <1>2, <1>6, AdvanceKeeps
<1>8. n.op = "create" /\ n.at \in {"returned", "mkdir"}
  BY <1>1, <1>2, AdvanceIs
<1>9. TreeInv' /\ FileCallsInv' /\ OthersGoOn(t) /\ fl_pc'[t] = n
  BY <1>3, <1>4, <1>7, MakeKeeps DEF FilesInv
<1>10. fl_tree'[TempPath] = fl_tree[TempPath]
  BY <1>3, <1>5, PathsAre DEF Makes, Stays
<1>11. TempInv'
  BY <1>8, <1>9, <1>10, TempLeft DEF FilesInv
<1> QED
  BY <1>9, <1>11 DEF FilesInv

(* A step that leaves the paths and the File objects alone. *)
LEMMA CallGoesOn ==
  ASSUME FilesInv, NEW t \in FThread, NEW n, LeavePaths(t, n), UNCHANGED fl_own, CallInv(n),
         n.at \notin {"reopen", "unname", "unlink"},
         n.at \in {"readdir", "delete"} /\ n.path = TempPath => fl_own[t].path = TempPath
  PROVE  FilesInv'
<1>1. TreeInv' /\ FileCallsInv' /\ OthersGoOn(t) /\ fl_pc'[t] = n /\ fl_tree' = fl_tree
  BY LeaveKeeps DEF FilesInv
<1>2. TempInv'
  BY <1>1, TempLeft DEF FilesInv
<1> QED
  BY <1>1, <1>2 DEF FilesInv

LEMMA CreateAdvances ==
  ASSUME FilesInv, NEW t \in FThread, NEW c \in FCall, c = fl_pc[t], CallInv(c), c.at \in {"mkdir", "look"},
         DirectoryExists(SubSeq(c.path, 1, c.k)), LeavePaths(t, Advance(t)), UNCHANGED fl_own
  PROVE  FilesInv'
<1>1. /\ c.op = "create" /\ c.path \in Created /\ c.k \in 1 .. Len(c.path) /\ (c.emptied => c.grown)
      /\ ~c.lost => \A j \in 1 .. c.k - 1 : DirectoryExists(SubSeq(c.path, 1, j))
  BY DEF CallInv, ShapeInv, CreateInv, OpenInv
<1>2. PICK n : n = Advance(t)
  OBVIOUS
<1>3. \A j \in 1 .. c.k : j = c.k \/ j \in 1 .. c.k - 1
  BY <1>1
<1>4. CallInv(n)
  BY <1>1, <1>2, <1>3, AdvanceKeeps
<1>5. n.at \in {"returned", "mkdir"}
  BY <1>1, <1>2, AdvanceIs
<1> QED
  BY <1>2, <1>4, <1>5, CallGoesOn

LEMMA CreateGivesUp ==
  ASSUME FilesInv, NEW t \in FThread, NEW c \in FCall, c = fl_pc[t], CallInv(c), c.at \in {"mkdir", "look"},
         \/ Exists(SubSeq(c.path, 1, c.k))
         \/ c.at = "look" /\ ~DirectoryExists(SubSeq(c.path, 1, c.k))
         \/ ~ParentThere(SubSeq(c.path, 1, c.k)),
         LeavePaths(t, Return(t, FALSE)), UNCHANGED fl_own
  PROVE  FilesInv'
<1>1. /\ c.op = "create" /\ c.path \in Created /\ c.k \in 1 .. Len(c.path) /\ (c.emptied => c.grown)
      /\ ~c.lost => \A j \in 1 .. c.k - 1 : DirectoryExists(SubSeq(c.path, 1, j))
      /\ ~c.lost /\ c.at = "look" => fl_tree[SubSeq(c.path, 1, c.k)] # Absent
  BY DEF CallInv, ShapeInv, CreateInv, OpenInv
<1>2. PICK n : n = Return(t, FALSE)
  OBVIOUS
<1>3. SubSeq(c.path, 1, c.k) \in FPath
  BY <1>1, PrefixIn
<1>4. ~c.lost => Exists(SubSeq(c.path, 1, c.k))
  BY <1>1, <1>3, AboveIsThere, ThereIs DEF FilesInv
<1>5. CallInv(n)
  BY <1>1, <1>2, <1>4, CreateFails
<1>6. n.at = "returned"
  BY <1>2, ReturnIs
<1> QED
  BY <1>2, <1>5, <1>6, CallGoesOn

LEMMA CreateLooks ==
  ASSUME FilesInv, NEW t \in FThread, NEW c \in FCall, c = fl_pc[t], CallInv(c), c.at = "mkdir",
         fl_tree[SubSeq(c.path, 1, c.k)] # Absent, LeavePaths(t, GoesTo(t, "look")), UNCHANGED fl_own
  PROVE  FilesInv'
<1>1. /\ c.op = "create" /\ c.path \in Created /\ c.k \in 1 .. Len(c.path) /\ (c.emptied => c.grown)
      /\ ~c.lost => \A j \in 1 .. c.k - 1 : DirectoryExists(SubSeq(c.path, 1, j))
  BY DEF CallInv, ShapeInv, CreateInv, OpenInv
<1>2. PICK n : n = GoesTo(t, "look")
  OBVIOUS
<1>3. "look" \in FAt
  BY DEF FAt
<1>4. /\ n \in FCall /\ n.op = c.op /\ n.path = c.path /\ n.at = "look" /\ n.k = c.k
      /\ n.lost = c.lost /\ n.grown = c.grown /\ n.emptied = c.emptied
  BY <1>2, <1>3, GoesToIs
<1>5. CreateInv(n)
  BY <1>1, <1>4 DEF CreateInv
<1>6. CallInv(n)
  BY <1>1, <1>4, <1>5, CreateCall
<1> QED
  BY <1>2, <1>4, <1>6, CallGoesOn

LEMMA MakeDirectoryKeeps ==
  ASSUME FilesInv, NEW t \in FThread, MakeDirectory(t) \/ MakeDirectoryCE(t) \/ LookAtDirectory(t)
  PROVE  FilesInv'
<1>1. PICK c \in FCall : c = fl_pc[t] /\ CallInv(c)
  BY CallIs DEF FilesInv
<1>2. PICK p : p = SubSeq(c.path, 1, c.k)
  OBVIOUS
<1>3. UNCHANGED fl_own /\ c.at \in {"mkdir", "look"}
  BY <1>1 DEF MakeDirectory, MakeDirectoryCE, LookAtDirectory, At
<1>4. \/ c.at = "mkdir" /\ MayCreate(p) /\ MakePath(t, p, TRUE, Advance(t))
      \/ c.at = "mkdir" /\ fl_tree[p] # Absent /\ LeavePaths(t, GoesTo(t, "look"))
      \/ ~ParentThere(p) /\ LeavePaths(t, Return(t, FALSE))
      \/ DirectoryExists(p) /\ LeavePaths(t, Advance(t))
      \/ Exists(p) /\ LeavePaths(t, Return(t, FALSE))
      \/ c.at = "look" /\ ~DirectoryExists(p) /\ LeavePaths(t, Return(t, FALSE))
  <2>1. CASE MakeDirectory(t)
    BY <1>1, <1>2, <2>1 DEF MakeDirectory, At, AlreadyExists
  <2>2. CASE MakeDirectoryCE(t)
    BY <1>1, <1>2, <2>2 DEF MakeDirectoryCE, At
  <2>3. CASE LookAtDirectory(t)
    BY <1>1, <1>2, <2>3 DEF LookAtDirectory, At
  <2> QED
    BY <2>1, <2>2, <2>3
<1> QED
  BY <1>1, <1>2, <1>3, <1>4, CreateMakes, CreateLooks, CreateGivesUp, CreateAdvances

-----------------------------------------------------------------------------
(* Opening files. *)
LEMMA CallMakes ==
  ASSUME FilesInv, NEW t \in FThread, NEW p \in FPath \ {TempPath}, NEW isDir \in BOOLEAN, NEW n, CallInv(n)', MayCreate(p),
         MakePath(t, p, isDir, n)
  PROVE  TreeInv' /\ FileCallsInv' /\ OthersGoOn(t) /\ fl_pc'[t] = n /\ fl_tree'[TempPath] = fl_tree[TempPath]
<1>1. TreeInv' /\ FileCallsInv' /\ OthersGoOn(t) /\ fl_pc'[t] = n
  BY MakeKeeps DEF FilesInv
<1>2. Makes(p, isDir)
  BY MakeEffect DEF FilesInv
<1>3. fl_tree'[TempPath] = fl_tree[TempPath]
  BY <1>2, PathsAre DEF Makes, Stays
<1> QED
  BY <1>1, <1>3

(* The thread gets a File that has not the temporary name, or loses its    *)
(* File, and with it the claim.                                            *)
LEMMA OwnKeeps ==
  ASSUME TempInv, NEW t \in FThread, OthersGoOn(t), NEW f \in FObject, fl_own' = [fl_own EXCEPT ![t] = f],
         f.path # TempPath, ~f.auto_delete, fl_pc'[t].at = "returned",
         fl_tree'[TempPath] = fl_tree[TempPath] \/ Claims(t)
  PROVE  TempInv'
<1>1. fl_own' \in [FThread -> FObject] /\ fl_own'[t] = f /\ \A u \in FThread \ {t} : fl_own'[u] = fl_own[u]
  BY DEF TempInv
<1>2. TempOf(t)' /\ ~Claims(t)'
  BY <1>1 DEF TempOf, Claims
<1> QED
  BY <1>1, <1>2, TempStep

LEMMA ObjectIs ==
  ASSUME NEW p \in AnyPath, NEW auto \in BOOLEAN, NEW id \in Nat, NEW mode \in Access
  PROVE  LET f == [path |-> p, auto_delete |-> auto, id |-> id, mode |-> mode]
         IN  f \in FObject /\ f.path = p /\ f.auto_delete = auto /\ f.id = id
BY DEF FObject

LEMMA NoFileIs ==
  NoFileObject \in FObject /\ NoFileObject.path # TempPath /\ ~NoFileObject.auto_delete
<1>1. <<>> \in AnyPath /\ Absent \in Nat /\ "READ" \in Access /\ <<>> # TempPath
  BY PathsAre DEF AnyPath, Absent, Access
<1>2. FALSE \in BOOLEAN
  OBVIOUS
<1> QED
  BY <1>1, <1>2, ObjectIs DEF NoFileObject

LEMMA NothingMoves ==
  ASSUME FilesInv, UNCHANGED <<fl_tree, fl_dirs, fl_made, fl_pc, fl_own>>
  PROVE  FilesInv'
<1>1. TreeInv' /\ Leaves
  BY LeaveEffect DEF FilesInv
<1>2. ASSUME NEW u \in FThread PROVE CallInv(fl_pc[u])'
  <2>1. PICK c : c = fl_pc[u] /\ CallInv(c)
    BY DEF FilesInv, FileCallsInv
  <2>2. CallInv(c)'
    BY <1>1, <2>1, LeaveStays
  <2> QED
    BY <2>1, <2>2
<1>3. FileCallsInv'
  BY <1>2 DEF FilesInv, FileCallsInv
<1>4. TempInv'
  BY DEF FilesInv, TempInv, TempOf, Claims
<1> QED
  BY <1>1, <1>3, <1>4 DEF FilesInv

(* A record an operation other than creating or deleting begins with. *)
Plain(n, op, p, at) == n \in FCall /\ n.op = op /\ n.path = p /\ n.at = at /\ ~n.emptied

LEMMA PlainIs ==
  ASSUME NEW op \in FOp, NEW p \in AnyPath, NEW at \in FAt
  PROVE  Plain(Op(op, p, at), op, p, at)
BY OpIs DEF Plain

LEMMA PlainMode ==
  ASSUME NEW op, NEW p, NEW at, NEW r, Plain(r, op, p, at), NEW mode \in FMode
  PROVE  Plain([r EXCEPT !.mode = mode], op, p, at)
<1>1. r \in FCall
  BY DEF Plain
<1> QED
  BY <1>1, ModeIs DEF Plain

LEMMA PlainFails ==
  ASSUME NEW op, NEW p, NEW at, NEW r, Plain(r, op, p, at)
  PROVE  Plain([r EXCEPT !.ok = FALSE], op, p, at)
<1>1. r \in FCall /\ FALSE \in BOOLEAN
  BY DEF Plain
<1>2. PICK n : n = [r EXCEPT !.ok = FALSE]
  OBVIOUS
<1>3. n \in FCall /\ n.op = r.op /\ n.path = r.path /\ n.at = r.at /\ n.emptied = r.emptied
  BY <1>1, <1>2, FailsIs
<1>4. Plain(n, op, p, at)
  BY <1>3 DEF Plain
<1> QED
  BY <1>2, <1>4

LEMMA PlainKeeps ==
  ASSUME NEW op \in {"new", "temp", "close"}, NEW p \in AnyPath,
         NEW at \in {"returned", "unlink", "reopen", "unname"},
         at \in {"unlink", "reopen", "unname"} => op = "temp",
         NEW n, Plain(n, op, p, at)
  PROVE  n.at = at /\ n.path = p /\ CallInv(n) /\ CallInv(n)'
<1>1. n \in FCall /\ n.op = op /\ n.path = p /\ n.at = at /\ ~n.emptied
  BY DEF Plain
<1> QED
  BY <1>1, PlainCall

LEMMA PlainReturned ==
  ASSUME NEW op \in {"new", "temp", "close"}, NEW p \in AnyPath, NEW n, Plain(n, op, p, "returned")
  PROVE  n.at = "returned" /\ n.path = p /\ CallInv(n) /\ CallInv(n)'
<1>1. n \in FCall /\ n.op = op /\ n.path = p /\ n.at = "returned" /\ ~n.emptied
  BY DEF Plain
<1> QED
  BY <1>1, PlainCall

LEMMA OpenWords ==
  /\ "open" \in FOp /\ "new" \in FOp /\ "temp" \in FOp /\ "close" \in FOp
  /\ "returned" \in FAt /\ "mode" \in FAt /\ "unlink" \in FAt /\ "reopen" \in FAt /\ "unname" \in FAt
BY DEF FOp, FAt

LEMMA CreateNewFileKeeps ==
  ASSUME FilesInv, NEW t \in FThread, NEW p \in FPath \ {TempPath}, CreateNewFile(t, p)
  PROVE  FilesInv'
<1>1. p \in AnyPath /\ "" \in FMode
  BY DEF AnyPath, FMode
<1>2. UNCHANGED fl_own
  BY DEF CreateNewFile
<1>3. CASE MayCreate(p)
  <2>1. PICK n : n = Op("new", p, "returned")
    OBVIOUS
  <2>2. MakePath(t, p, FALSE, n)
    BY <1>3, <2>1 DEF CreateNewFile
  <2>3. n.at = "returned" /\ CallInv(n)'
    <3>1. Plain(n, "new", p, "returned")
      BY <1>1, <2>1, PlainIs, OpenWords
    <3> QED
      BY <1>1, <3>1, PlainReturned
  <2>4. TreeInv' /\ FileCallsInv' /\ OthersGoOn(t) /\ fl_pc'[t] = n /\ fl_tree'[TempPath] = fl_tree[TempPath]
    BY <1>3, <2>2, <2>3, CallMakes
  <2>5. TempInv'
    BY <1>2, <2>3, <2>4, TempLeft DEF FilesInv
  <2> QED
    BY <2>4, <2>5 DEF FilesInv
<1>4. CASE ~MayCreate(p)
  <2>1. PICK n : n = [Op("new", p, "returned") EXCEPT !.ok = FALSE]
    OBVIOUS
  <2>2. LeavePaths(t, n)
    BY <1>4, <2>1 DEF CreateNewFile
  <2>3. n.at = "returned" /\ CallInv(n)
    <3>1. PICK r : r = Op("new", p, "returned")
      OBVIOUS
    <3>2. Plain(r, "new", p, "returned")
      BY <1>1, <3>1, PlainIs, OpenWords
    <3>3. Plain(n, "new", p, "returned")
      BY <2>1, <3>1, <3>2, PlainFails
    <3> QED
      BY <1>1, <3>3, PlainReturned
  <2> QED
    BY <1>2, <2>2, <2>3, CallGoesOn
<1> QED
  BY <1>3, <1>4

LEMMA OpenPosixKeeps ==
  ASSUME FilesInv, NEW t \in FThread, NEW a \in Access, NEW e \in ExistsMode, OpenPosix(t, SPath, a, e)
  PROVE  FilesInv'
<1>1. SPath \in AnyPath /\ a \in FMode /\ "returned" \in FAt /\ "mode" \in FAt
  BY PathsAre DEF AnyPath, FMode, Access, FAt
<1>2. PICK n : /\ n = IF OpenRefuses(SPath, a, e) THEN [Asks(SPath, "returned", a, e) EXCEPT !.ok = FALSE]
                      ELSE [Asks(SPath, "mode", a, e) EXCEPT !.mode = a]
               /\ LeavePaths(t, n) /\ UNCHANGED fl_own
  BY DEF OpenPosix, Begin
<1>3. n.at \in {"returned", "mode"} /\ CallInv(n)
  <2>1. CASE OpenRefuses(SPath, a, e)
    <3>1. PICK r : r = Asks(SPath, "returned", a, e)
      OBVIOUS
    <3>2. r \in FCall /\ r.op = "open" /\ r.path = SPath /\ r.at = "returned" /\ r.asked = e /\ r.access = a /\ ~r.emptied
      BY <1>1, <3>1, AsksIs
    <3>3. /\ n \in FCall /\ n.op = "open" /\ n.path = SPath /\ n.at = "returned" /\ n.asked = e /\ n.access = a
          /\ ~n.emptied /\ ~n.ok
      <4>1. n = [r EXCEPT !.ok = FALSE]
        BY <1>2, <2>1, <3>1
      <4> QED
        BY <3>2, <4>1 DEF FCall
    <3>4. RefusedForCause(n)
      BY <2>1, <3>3 DEF OpenRefuses, RefusedForCause, MayCreate, Exists
    <3> QED
      BY <3>3, <3>4, OpenCall DEF OpenAnswers
  <2>2. CASE ~OpenRefuses(SPath, a, e)
    <3>1. /\ n \in FCall /\ n.op = "open" /\ n.path = SPath /\ n.at = "mode" /\ n.asked = e /\ n.access = a
          /\ ~n.emptied /\ ~n.made /\ n.mode = a
      <4>1. PICK r : r = Asks(SPath, "mode", a, e)
        OBVIOUS
      <4>2. /\ r \in FCall /\ r.op = "open" /\ r.path = SPath /\ r.at = "mode" /\ r.asked = e /\ r.access = a
            /\ ~r.emptied /\ ~r.made
        BY <1>1, <4>1, AsksIs
      <4>3. n = [r EXCEPT !.mode = a]
        BY <1>2, <2>2, <4>1
      <4>4. a \in FMode
        BY <1>1
      <4> QED
        BY <4>2, <4>3, <4>4 DEF FCall
    <3>2. LooksInv(n)
      BY <2>2, <3>1 DEF LooksInv, OpenRefuses
    <3> QED
      BY <3>1, <3>2, OpenCall
  <2> QED
    BY <2>1, <2>2
<1> QED
  BY <1>2, <1>3, CallGoesOn

LEMMA OpenChoosesKeeps ==
  ASSUME FilesInv, NEW t \in FThread, OpenChooses(t)
  PROVE  FilesInv'
<1>1. PICK c \in FCall : c = fl_pc[t] /\ CallInv(c)
  BY CallIs DEF FilesInv
<1>2. PICK m : m = ModeFrom(t)
  OBVIOUS
<1>3. PICK n : n = [c EXCEPT !.mode = m, !.at = "fopen"]
  OBVIOUS
<1>4. c.at = "mode" /\ LeavePaths(t, n) /\ UNCHANGED fl_own
  BY <1>1, <1>2, <1>3 DEF OpenChooses, At
<1>5. c.op = "open" /\ c.path = SPath /\ (c.emptied => c.grown) /\ LooksInv(c) /\ c.mode = c.access
  BY <1>1, <1>4 DEF CallInv, ShapeInv, OpenInv, AnswerInv
<1>6. /\ m \in {"rb", "rb+", "w+"} /\ (m = "rb" <=> c.access = "READ")
      /\ (m = "w+" => ~Exists(SPath)) /\ (m = "rb+" => Exists(SPath))
  BY <1>1, <1>2, <1>5 DEF ModeFrom
<1>7. "fopen" \in FAt /\ m \in FMode
  BY <1>6 DEF FAt, FMode
<1>8. /\ n \in FCall /\ n.op = c.op /\ n.path = c.path /\ n.at = "fopen" /\ n.mode = m
      /\ n.grown = c.grown /\ n.lost = c.lost /\ n.emptied = c.emptied
      /\ n.asked = c.asked /\ n.access = c.access /\ n.made = c.made
  BY <1>3, <1>7 DEF FCall
<1>9. LooksInv(n) /\ FopenInv(n)
  BY <1>5, <1>6, <1>8 DEF LooksInv, FopenInv
<1>10. CallInv(n)
  BY <1>5, <1>6, <1>8, <1>9, OpenCall
<1> QED
  BY <1>4, <1>8, <1>10, CallGoesOn

(* What an open file is named and identified by. *)
LEMMA FileMade ==
  ASSUME FilesInv
  PROVE  fl_made + 1 \in Nat /\ \A p \in FPath : fl_tree[p] \in Nat
BY DEF FilesInv, TreeInv

LEMMA OpenMakes ==
  ASSUME FilesInv, NEW t \in FThread, NEW n, n.at = "returned", CallInv(n)', MayCreate(SPath),
         MakePath(t, SPath, FALSE, n), NEW mode \in Access, HasFile(t, SPath, FALSE, fl_made + 1, mode)
  PROVE  FilesInv'
<1>1. SPath \in FPath \ {TempPath} /\ SPath \in AnyPath
  BY PathsAre DEF AnyPath
<1>2. TreeInv' /\ FileCallsInv' /\ OthersGoOn(t) /\ fl_pc'[t] = n /\ fl_tree'[TempPath] = fl_tree[TempPath]
  BY <1>1, CallMakes
<1>3. PICK f : f = [path |-> SPath, auto_delete |-> FALSE, id |-> fl_made + 1, mode |-> mode]
  OBVIOUS
<1>4. f \in FObject /\ f.path # TempPath /\ ~f.auto_delete
  BY <1>1, <1>3, FileMade, ObjectIs
<1>5. fl_own' = [fl_own EXCEPT ![t] = f]
  BY <1>3 DEF HasFile
<1>6. TempInv'
  BY <1>2, <1>4, <1>5, OwnKeeps DEF FilesInv
<1> QED
  BY <1>2, <1>6 DEF FilesInv

LEMMA OpenFinds ==
  ASSUME FilesInv, NEW t \in FThread, NEW n, n.at = "returned", CallInv(n), LeavePaths(t, n),
         NEW mode \in Access, HasFile(t, SPath, FALSE, fl_tree[SPath], mode)
  PROVE  FilesInv'
<1>1. SPath \in FPath \ {TempPath} /\ SPath \in AnyPath
  BY PathsAre DEF AnyPath
<1>2. TreeInv' /\ FileCallsInv' /\ OthersGoOn(t) /\ fl_pc'[t] = n /\ fl_tree' = fl_tree
  BY LeaveKeeps DEF FilesInv
<1>3. PICK f : f = [path |-> SPath, auto_delete |-> FALSE, id |-> fl_tree[SPath], mode |-> mode]
  OBVIOUS
<1>4. f \in FObject /\ f.path # TempPath /\ ~f.auto_delete
  BY <1>1, <1>3, FileMade, ObjectIs
<1>5. fl_own' = [fl_own EXCEPT ![t] = f]
  BY <1>3 DEF HasFile
<1>6. TempInv'
  BY <1>2, <1>4, <1>5, OwnKeeps DEF FilesInv
<1> QED
  BY <1>2, <1>6 DEF FilesInv

LEMMA OpenFopenKeeps ==
  ASSUME FilesInv, NEW t \in FThread, OpenFopen(t)
  PROVE  FilesInv'
<1>1. PICK c \in FCall : c = fl_pc[t] /\ CallInv(c)
  BY CallIs DEF FilesInv
<1>2. c.at = "fopen"
  BY <1>1 DEF OpenFopen, At
<1>3. /\ c.op = "open" /\ c.path = SPath /\ (c.emptied => c.grown) /\ (c.mode = "w+" /\ Exists(SPath) => c.grown)
      /\ LooksInv(c) /\ FopenInv(c)
  BY <1>1, <1>2 DEF CallInv, ShapeInv, OpenInv, AnswerInv
<1>4. PICK y : y = Return(t, TRUE)
  OBVIOUS
<1>5. PICK z : z = Return(t, FALSE)
  OBVIOUS
<1>6. ASSUME NEW r, r \in {y, z}
      PROVE  /\ r \in FCall /\ r.op = "open" /\ r.path = SPath /\ r.at = "returned" /\ r.mode = c.mode
             /\ r.grown = c.grown /\ r.lost = c.lost /\ r.emptied = c.emptied
             /\ r.asked = c.asked /\ r.access = c.access /\ ~r.made /\ (r.ok <=> r = y)
  <2>1. y.ok = TRUE /\ z.ok = FALSE
    BY <1>1, <1>4, <1>5, ReturnIs
  <2>2. ~c.made
    BY <1>3 DEF LooksInv
  <2>3. ASSUME NEW b \in BOOLEAN, NEW n, n = Return(t, b)
        PROVE  /\ n \in FCall /\ n.op = "open" /\ n.path = SPath /\ n.at = "returned" /\ n.mode = c.mode
               /\ n.grown = c.grown /\ n.lost = c.lost /\ n.emptied = c.emptied
               /\ n.asked = c.asked /\ n.access = c.access /\ ~n.made
    BY <1>1, <1>3, <2>2, <2>3, ReturnIs
  <2>4. CASE r = y
    BY <1>4, <2>1, <2>3, <2>4
  <2>5. CASE r = z
    BY <1>5, <2>1, <2>3, <2>5
  <2> QED
    BY <1>6, <2>4, <2>5
<1>7. "READ" \in Access /\ "READ_WRITE" \in Access
  BY DEF Access
<1>8. ASSUME NEW n, n \in FCall, n.op = "open", n.path = SPath, n.at = "returned", n.mode = c.mode,
             n.grown = c.grown, n.lost = c.lost, n.asked = c.asked, n.access = c.access, n.ok,
             n.emptied => n.grown, ~n.made,
             c.mode = "w+" => Exists(SPath), c.mode # "w+" => Exists(SPath) \/ (c.mode = "rb" /\ DirectoryExists(SPath))
      PROVE  CallInv(n)
  <2>1. OpenAnswers(n)
    BY <1>3, <1>8 DEF OpenAnswers, LooksInv, FopenInv
  <2> QED
    BY <1>8, <2>1, OpenCall
<1>9. CASE /\ c.mode = "w+" /\ MayCreate(SPath)
           /\ MakePath(t, SPath, FALSE, [y EXCEPT !.made = TRUE, !.bare = TRUE])
           /\ HasFile(t, SPath, FALSE, fl_made + 1, "READ_WRITE")
  <2>1. PICK n : n = [y EXCEPT !.made = TRUE, !.bare = TRUE]
    OBVIOUS
  <2>2. /\ n \in FCall /\ n.op = "open" /\ n.path = SPath /\ n.at = "returned" /\ n.mode = "w+" /\ n.lost = c.lost
        /\ n.grown = c.grown /\ n.emptied = c.emptied /\ n.asked = c.asked /\ n.access = c.access /\ n.ok /\ n.made /\ n.bare
    <3>1. /\ y \in FCall /\ y.op = "open" /\ y.path = SPath /\ y.at = "returned" /\ y.mode = "w+" /\ y.lost = c.lost
          /\ y.grown = c.grown /\ y.emptied = c.emptied /\ y.asked = c.asked /\ y.access = c.access /\ y.ok
      BY <1>6, <1>9
    <3> QED
      BY <2>1, <3>1 DEF FCall
  <2>3. OpenAnswers(n)'
    BY <1>3, <1>9, <2>2 DEF OpenAnswers, LooksInv, FopenInv
  <2>4. CallInv(n)'
    BY <1>3, <2>2, <2>3, OpenCall
  <2> QED
    BY <1>7, <1>9, <2>1, <2>2, <2>4, OpenMakes
<1>10. CASE /\ c.mode = "w+" /\ Exists(SPath)
            /\ LeavePaths(t, [y EXCEPT !.emptied = fl_tree[SPath] \in fl_full, !.bare = TRUE])
            /\ HasFile(t, SPath, FALSE, fl_tree[SPath], "READ_WRITE")
  <2>1. PICK b \in BOOLEAN : b = (fl_tree[SPath] \in fl_full)
    <3>1. PICK b \in BOOLEAN : b <=> fl_tree[SPath] \in fl_full
      OBVIOUS
    <3>2. b = (fl_tree[SPath] \in fl_full)
      BY <3>1
    <3> QED
      BY <3>2
  <2>2. PICK n : n = [y EXCEPT !.emptied = b, !.bare = TRUE]
    OBVIOUS
  <2>3. LeavePaths(t, n)
    BY <1>10, <2>1, <2>2
  <2>4. /\ y \in FCall /\ y.op = "open" /\ y.path = SPath /\ y.at = "returned" /\ y.mode = c.mode /\ y.lost = c.lost
        /\ y.grown = c.grown /\ y.asked = c.asked /\ y.access = c.access /\ y.ok /\ ~y.made
    BY <1>6
  <2>5. /\ n \in FCall /\ n.op = "open" /\ n.path = SPath /\ n.at = "returned" /\ n.mode = c.mode /\ n.lost = c.lost
        /\ n.grown = c.grown /\ n.asked = c.asked /\ n.access = c.access /\ n.ok /\ ~n.made
    BY <2>2, <2>4 DEF FCall
  <2>6. CallInv(n)
    BY <1>3, <1>8, <1>10, <2>5
  <2> QED
    BY <1>7, <1>10, <2>3, <2>5, <2>6, OpenFinds
<1>11. CASE /\ c.mode # "w+" /\ (Exists(SPath) \/ (c.mode = "rb" /\ DirectoryExists(SPath)))
            /\ LeavePaths(t, [y EXCEPT !.bare = fl_tree[SPath] \notin fl_full])
            /\ HasFile(t, SPath, FALSE, fl_tree[SPath], IF c.mode = "rb" THEN "READ" ELSE "READ_WRITE")
  <2>1. PICK b \in BOOLEAN : b = (fl_tree[SPath] \notin fl_full)
    <3>1. PICK b \in BOOLEAN : b <=> fl_tree[SPath] \notin fl_full
      OBVIOUS
    <3>2. b = (fl_tree[SPath] \notin fl_full)
      BY <3>1
    <3> QED
      BY <3>2
  <2>2. PICK n : n = [y EXCEPT !.bare = b]
    OBVIOUS
  <2>3. LeavePaths(t, n)
    BY <1>11, <2>1, <2>2
  <2>4. /\ y \in FCall /\ y.op = "open" /\ y.path = SPath /\ y.at = "returned" /\ y.mode = c.mode /\ y.lost = c.lost
        /\ y.grown = c.grown /\ y.asked = c.asked /\ y.access = c.access /\ y.ok /\ ~y.made /\ y.emptied = c.emptied
    BY <1>6
  <2>5. /\ n \in FCall /\ n.op = "open" /\ n.path = SPath /\ n.at = "returned" /\ n.mode = c.mode /\ n.lost = c.lost
        /\ n.grown = c.grown /\ n.asked = c.asked /\ n.access = c.access /\ n.ok /\ ~n.made /\ n.emptied = c.emptied
    BY <2>2, <2>4 DEF FCall
  <2>6. CallInv(n)
    BY <1>3, <1>8, <1>11, <2>5
  <2> QED
    BY <1>7, <1>11, <2>3, <2>5, <2>6, OpenFinds
<1>12. CASE /\ IF c.mode = "w+" THEN ~MayCreate(SPath) /\ ~Exists(SPath)
               ELSE ~Exists(SPath) /\ ~(c.mode = "rb" /\ DirectoryExists(SPath))
            /\ LeavePaths(t, z) /\ UNCHANGED fl_own
  <2>1. /\ z \in FCall /\ z.op = "open" /\ z.path = SPath /\ z.at = "returned" /\ z.mode = c.mode /\ z.lost = c.lost
        /\ z.grown = c.grown /\ z.asked = c.asked /\ z.access = c.access /\ z.emptied = c.emptied /\ (z.ok <=> z = y)
    BY <1>6
  <2>2. ~z.ok
    BY <1>1, <1>5, ReturnIs
  <2>3. ~z.lost /\ ~z.grown => RefusedForCause(z)
    BY <1>3, <1>12, <2>1 DEF RefusedForCause, LooksInv, FopenInv
  <2>4. CallInv(z)
    BY <1>3, <2>1, <2>2, <2>3, OpenCall DEF OpenAnswers
  <2> QED
    BY <1>12, <2>1, <2>4, CallGoesOn
<1> QED
  BY <1>1, <1>3, <1>4, <1>5, <1>9, <1>10, <1>11, <1>12 DEF OpenFopen

(* A call of Open that returns at once, and what it carries. *)
AskOfReturned(p, a, e, mode, m) == m = [Asks(p, "returned", a, e) EXCEPT !.mode = mode]

AnswersAsked(p, a, e, mode, m) ==
  /\ m \in FCall /\ m.op = "open" /\ m.path = p /\ m.at = "returned" /\ m.mode = mode
  /\ m.asked = e /\ m.access = a /\ m.ok /\ ~m.emptied /\ ~m.made

(* What a call of Open that returns at once carries is what it was asked    *)
(* for, and that it was granted (file_wince.cc, File::Open).                *)
LEMMA AsksReturned ==
  ASSUME NEW p \in AnyPath, NEW a \in Access, NEW e \in ExistsMode, NEW mode \in FMode,
         NEW m, AskOfReturned(p, a, e, mode, m)
  PROVE  AnswersAsked(p, a, e, mode, m)
<1>1. "returned" \in FAt
  BY DEF FAt
<1>2. m = [Asks(p, "returned", a, e) EXCEPT !.mode = mode]
  BY DEF AskOfReturned
<1>3. PICK at \in FAt : at = "returned"
  BY <1>1
<1>4. PICK n : n = Asks(p, at, a, e)
  OBVIOUS
<1>5. /\ n \in FCall /\ n.op = "open" /\ n.path = p /\ n.at = at /\ n.ok /\ n.asked = e /\ n.access = a
      /\ ~n.lost /\ ~n.grown /\ ~n.emptied /\ ~n.made
  BY <1>4, AsksIs
<1>6. m = [n EXCEPT !.mode = mode]
  BY <1>2, <1>3, <1>4
<1>7. /\ m \in FCall /\ m.op = "open" /\ m.path = p /\ m.at = at /\ m.ok /\ m.asked = e /\ m.access = a
      /\ ~m.emptied /\ ~m.made /\ m.mode = mode
  BY <1>5, <1>6 DEF FCall
<1> QED
  BY <1>3, <1>7 DEF AnswersAsked

LEMMA OpenWin32Keeps ==
  ASSUME FilesInv, NEW t \in FThread, NEW a \in Access, NEW e \in ExistsMode, OpenWin32(t, SPath, a, e)
  PROVE  FilesInv'
<1>1. SPath \in AnyPath /\ "returned" \in FAt
  BY PathsAre DEF AnyPath, FAt
<1>2. PICK how : how = Disposition(a, e)
  OBVIOUS
<1>3. how \in FMode /\ how \notin {"rb", "rb+", "w+"}
  BY <1>2 DEF Disposition, Access, ExistsMode, FMode
<1>4. PICK pc : pc = [Asks(SPath, "returned", a, e) EXCEPT !.mode = how]
  OBVIOUS
<1>5. /\ pc \in FCall /\ pc.op = "open" /\ pc.path = SPath /\ pc.at = "returned" /\ pc.mode = how
      /\ pc.asked = e /\ pc.access = a /\ pc.ok /\ ~pc.emptied /\ ~pc.made
  <2>1. how \in FMode
    BY <1>3
  <2>2. AskOfReturned(SPath, a, e, how, pc)
    BY <1>4 DEF AskOfReturned
  <2>3. AnswersAsked(SPath, a, e, how, pc)
    BY <1>1, <2>1, <2>2, AsksReturned
  <2> QED
    BY <2>3 DEF AnswersAsked
<1>6. CASE /\ how \in {"OPEN_ALWAYS", "CREATE_NEW", "CREATE_ALWAYS"} /\ MayCreate(SPath)
           /\ MakePath(t, SPath, FALSE, [pc EXCEPT !.made = TRUE, !.bare = TRUE])
           /\ HasFile(t, SPath, FALSE, fl_made + 1, a)
  <2>1. PICK n : n = [pc EXCEPT !.made = TRUE, !.bare = TRUE]
    OBVIOUS
  <2>2. /\ n \in FCall /\ n.op = "open" /\ n.path = SPath /\ n.at = "returned" /\ n.mode = how
        /\ n.asked = e /\ n.access = a /\ n.ok /\ ~n.emptied /\ n.made /\ n.bare
    BY <1>5, <2>1 DEF FCall
  <2>3. OpenAnswers(n)'
    BY <1>2, <1>6, <2>2 DEF OpenAnswers, Disposition, Access, ExistsMode
  <2> QED
    BY <1>6, <2>1, <2>2, <2>3, OpenCall, OpenMakes
<1>7. CASE /\ how \in {"OPEN_ALWAYS", "OPEN_EXISTING", "CREATE_ALWAYS"} /\ Exists(SPath)
           /\ LeavePaths(t, [pc EXCEPT !.bare = how = "CREATE_ALWAYS" \/ fl_tree[SPath] \notin fl_full])
           /\ HasFile(t, SPath, FALSE, fl_tree[SPath], a)
  <2>1. PICK b \in BOOLEAN : b <=> how = "CREATE_ALWAYS" \/ fl_tree[SPath] \notin fl_full
    OBVIOUS
  <2>2. b = (how = "CREATE_ALWAYS" \/ fl_tree[SPath] \notin fl_full)
    BY <2>1
  <2>3. PICK n : n = [pc EXCEPT !.bare = b]
    OBVIOUS
  <2>4. LeavePaths(t, n)
    BY <1>7, <2>2, <2>3
  <2>5. /\ n \in FCall /\ n.op = "open" /\ n.path = SPath /\ n.at = "returned" /\ n.mode = how
        /\ n.asked = e /\ n.access = a /\ n.ok /\ ~n.emptied /\ ~n.made /\ n.bare = b
    BY <1>5, <2>3 DEF FCall
  <2>6. OpenAnswers(n)
    BY <1>2, <1>7, <2>1, <2>5 DEF OpenAnswers, Disposition, Access, ExistsMode
  <2> QED
    BY <1>7, <2>4, <2>5, <2>6, OpenCall, OpenFinds
<1>8. CASE /\ \/ how = "NULL"
              \/ ~MayCreate(SPath) /\ ~Exists(SPath)
              \/ how = "CREATE_NEW" /\ ~MayCreate(SPath)
              \/ how = "OPEN_EXISTING" /\ ~Exists(SPath)
           /\ LeavePaths(t, [pc EXCEPT !.ok = FALSE]) /\ UNCHANGED fl_own
  <2>1. PICK n : n = [pc EXCEPT !.ok = FALSE]
    OBVIOUS
  <2>2. /\ n \in FCall /\ n.op = "open" /\ n.path = SPath /\ n.at = "returned"
        /\ n.asked = e /\ n.access = a /\ ~n.ok /\ ~n.emptied
    BY <1>5, <2>1 DEF FCall
  <2>3. RefusedForCause(n)
    BY <1>2, <1>8, <2>2 DEF RefusedForCause, Disposition, Access, ExistsMode
  <2>4. CallInv(n)
    BY <2>2, <2>3, OpenCall DEF OpenAnswers
  <2> QED
    BY <1>8, <2>1, <2>2, <2>4, CallGoesOn
<1> QED
  BY <1>2, <1>4, <1>6, <1>7, <1>8 DEF OpenWin32

-----------------------------------------------------------------------------
(* Temporary files and directories. *)
LEMMA TempIs ==
  ASSUME FilesInv, NEW t \in FThread
  PROVE  TempOf(t) /\ fl_own[t] \in FObject
BY DEF FilesInv, TempInv

LEMMA ThingMade ==
  ASSUME FilesInv, NEW t \in FThread, NEW isDir \in BOOLEAN, NEW n, CallInv(n)',
         MayCreate(TempPath), MakePath(t, TempPath, isDir, n)
  PROVE  /\ TreeInv' /\ FileCallsInv' /\ OthersGoOn(t) /\ fl_pc'[t] = n
         /\ fl_tree[TempPath] = Absent /\ fl_tree'[TempPath] = fl_made + 1 /\ fl_made + 1 # Absent
<1>1. TempPath \in FPath
  BY PathsAre
<1>2. TreeInv' /\ FileCallsInv' /\ OthersGoOn(t) /\ fl_pc'[t] = n
  BY <1>1, MakeKeeps DEF FilesInv
<1>3. Makes(TempPath, isDir)
  BY <1>1, MakeEffect DEF FilesInv
<1> QED
  BY <1>2, <1>3 DEF Makes

LEMMA TempMade ==
  ASSUME FilesInv, NEW t \in FThread, NEW isDir \in BOOLEAN, NEW auto \in BOOLEAN, NEW n, CallInv(n)',
         n.at \in {"returned", "unlink"}, MayCreate(TempPath), MakePath(t, TempPath, isDir, n),
         NEW mode \in Access, HasFile(t, TempPath, auto, fl_made + 1, mode)
  PROVE  FilesInv'
<1>1. /\ TreeInv' /\ FileCallsInv' /\ OthersGoOn(t) /\ fl_pc'[t] = n
      /\ fl_tree[TempPath] = Absent /\ fl_tree'[TempPath] = fl_made + 1 /\ fl_made + 1 # Absent
  BY ThingMade
<1>2. PICK f : f = [path |-> TempPath, auto_delete |-> auto, id |-> fl_made + 1, mode |-> mode]
  OBVIOUS
<1>3. TempPath \in AnyPath
  BY PathsAre DEF AnyPath
<1>4. f \in FObject /\ f.path = TempPath /\ f.id = fl_made + 1
  BY <1>2, <1>3, FileMade, ObjectIs
<1>5. fl_own' = [fl_own EXCEPT ![t] = f] /\ fl_own \in [FThread -> FObject]
  BY <1>2 DEF HasFile, FilesInv, TempInv
<1>6. fl_own' \in [FThread -> FObject] /\ fl_own'[t] = f /\ \A u \in FThread \ {t} : fl_own'[u] = fl_own[u]
  BY <1>4, <1>5
<1>7. TempOf(t)'
  BY <1>1, <1>4, <1>6 DEF TempOf
<1>8. TempInv'
  BY <1>1, <1>6, <1>7, TempStep DEF FilesInv
<1> QED
  BY <1>1, <1>8 DEF FilesInv

LEMMA CreateNewTempPosixKeeps ==
  ASSUME FilesInv, NEW t \in FThread, NEW kind \in Temporary, CreateNewTempPosix(t, kind)
  PROVE  FilesInv'
<1>1. PICK d \in BOOLEAN : d = (kind = "directory")
  <2>1. CASE kind = "directory"
    BY <2>1
  <2>2. CASE kind # "directory"
    BY <2>2
  <2> QED
    BY <2>1, <2>2
<1>2. PICK a \in BOOLEAN : a = (kind # "directory")
  <2>1. CASE kind = "directory"
    BY <2>1
  <2>2. CASE kind # "directory"
    BY <2>2
  <2> QED
    BY <2>1, <2>2
<1>3. PICK at \in {"unlink", "returned"} : at = IF kind = "file" THEN "unlink" ELSE "returned"
  OBVIOUS
<1>4. PICK n : n = [Op("temp", TempPath, at) EXCEPT !.mode = kind]
  OBVIOUS
<1>5. MayCreate(TempPath) /\ MakePath(t, TempPath, d, n) /\ HasFile(t, TempPath, a, fl_made + 1, "READ_WRITE")
  BY <1>1, <1>2, <1>3, <1>4 DEF CreateNewTempPosix
<1>6. TempPath \in AnyPath /\ kind \in FMode
  BY PathsAre DEF AnyPath, Temporary, FMode
<1>7. PICK r : r = Op("temp", TempPath, at)
  OBVIOUS
<1>8. Plain(r, "temp", TempPath, at)
  BY <1>3, <1>6, <1>7, PlainIs, OpenWords
<1>9. Plain(n, "temp", TempPath, at)
  BY <1>4, <1>6, <1>7, <1>8, PlainMode
<1>10. n.at = at /\ CallInv(n)'
  BY <1>3, <1>6, <1>9, PlainKeeps
<1>11. "READ_WRITE" \in Access
  BY DEF Access
<1> QED
  BY <1>3, <1>5, <1>10, <1>11, TempMade

LEMMA CreateNewTempFileNameKeeps ==
  ASSUME FilesInv, NEW t \in FThread, NEW kind \in Temporary, CreateNewTempFileName(t, kind)
  PROVE  FilesInv'
<1>1. PICK at \in {"unname", "reopen"} : at = IF kind = "directory" THEN "unname" ELSE "reopen"
  OBVIOUS
<1>2. PICK n : n = [Op("temp", TempPath, at) EXCEPT !.mode = kind]
  OBVIOUS
<1>3. /\ MayCreate(TempPath) /\ MakePath(t, TempPath, FALSE, n) /\ UNCHANGED fl_own
      /\ fl_own[t] = NoFileObject
  BY <1>1, <1>2 DEF CreateNewTempFileName, MakesTemp
<1>4. TempPath \in AnyPath /\ kind \in FMode
  BY PathsAre DEF AnyPath, Temporary, FMode
<1>5. PICK r : r = Op("temp", TempPath, at)
  OBVIOUS
<1>6. Plain(r, "temp", TempPath, at)
  BY <1>1, <1>4, <1>5, PlainIs, OpenWords
<1>7. Plain(n, "temp", TempPath, at)
  BY <1>2, <1>4, <1>5, <1>6, PlainMode
<1>8. n.at = at /\ CallInv(n)'
  BY <1>1, <1>4, <1>7, PlainKeeps
<1>9. /\ TreeInv' /\ FileCallsInv' /\ OthersGoOn(t) /\ fl_pc'[t] = n
      /\ fl_tree[TempPath] = Absent /\ fl_tree'[TempPath] = fl_made + 1 /\ fl_made + 1 # Absent
  BY <1>3, <1>8, ThingMade
<1>10. fl_own'[t].path # TempPath /\ ~fl_own'[t].auto_delete
  BY <1>3, NoFileIs
<1>11. TempOf(t)'
  BY <1>1, <1>8, <1>9, <1>10 DEF TempOf
<1>12. TempInv'
  BY <1>3, <1>9, <1>11, TempStep DEF FilesInv, TempInv
<1> QED
  BY <1>9, <1>12 DEF FilesInv

(* The result of a temporary file's step. *)
LEMMA TempReturns ==
  ASSUME FilesInv, NEW t \in FThread, fl_pc[t].at \in {"unlink", "reopen", "unname", "rename"}, NEW ok \in BOOLEAN,
         NEW n, n = Return(t, ok)
  PROVE  n.at = "returned" /\ CallInv(n) /\ CallInv(n)'
<1>1. PICK c \in FCall : c = fl_pc[t] /\ CallInv(c)
  BY CallIs DEF FilesInv
<1>2. c.op = "temp" /\ (c.emptied => c.grown)
  BY <1>1 DEF CallInv, ShapeInv, OpenInv
<1>3. n \in FCall /\ n.op = c.op /\ n.at = "returned" /\ n.grown = c.grown /\ n.emptied = c.emptied
  BY <1>1, ReturnIs
<1> QED
  BY <1>2, <1>3, PlainCall

LEMMA TempGoes ==
  ASSUME FilesInv, NEW t \in FThread, NEW n, RemovePath(t, TempPath, n), CallInv(n)'
  PROVE  TreeInv' /\ FileCallsInv' /\ OthersGoOn(t) /\ fl_pc'[t] = n
<1>1. TempPath \in FPath /\ \A q \in Children(TempPath) : fl_tree[q] = Absent
  BY PathsAre, ChildrenAre
<1> QED
  BY <1>1, RemoveKeeps DEF FilesInv

LEMMA UnlinkKeeps ==
  ASSUME FilesInv, NEW t \in FThread, Unlink(t)
  PROVE  FilesInv'
<1>1. fl_pc[t].at = "unlink"
  BY DEF Unlink, At
<1>2. fl_own[t].path = TempPath /\ fl_own[t] \in FObject /\ Claims(t)
  BY <1>1, TempIs DEF TempOf, Claims
<1>3. CASE Exists(TempPath)
  <2>1. PICK n : n = Return(t, TRUE)
    OBVIOUS
  <2>2. RemovePath(t, TempPath, n) /\ fl_own' = [fl_own EXCEPT ![t] = Unnamed(fl_own[t])]
    BY <1>3, <2>1 DEF Unlink
  <2>3. n.at = "returned" /\ CallInv(n)'
    BY <1>1, <2>1, TempReturns
  <2>4. TreeInv' /\ FileCallsInv' /\ OthersGoOn(t) /\ fl_pc'[t] = n
    BY <2>2, <2>3, TempGoes
  <2>5. <<>> \in AnyPath /\ <<>> # TempPath
    BY PathsAre DEF AnyPath
  <2>6. PICK f : f = Unnamed(fl_own[t])
    OBVIOUS
  <2>7. f \in FObject /\ f.path = <<>> /\ ~f.auto_delete
    BY <1>2, <2>5, <2>6 DEF Unnamed, FObject
  <2>8. TempInv'
    BY <1>2, <2>2, <2>3, <2>4, <2>5, <2>6, <2>7, OwnKeeps DEF FilesInv
  <2> QED
    BY <2>4, <2>8 DEF FilesInv
<1>4. CASE ~Exists(TempPath)
  <2>1. PICK n : n = Return(t, FALSE)
    OBVIOUS
  <2>2. LeavePaths(t, n) /\ fl_own' = [fl_own EXCEPT ![t] = NoFileObject]
    BY <1>4, <2>1 DEF Unlink
  <2>3. n.at = "returned" /\ CallInv(n)
    BY <1>1, <2>1, TempReturns
  <2>4. TreeInv' /\ FileCallsInv' /\ OthersGoOn(t) /\ fl_pc'[t] = n /\ fl_tree' = fl_tree
    BY <2>2, <2>3, LeaveKeeps DEF FilesInv
  <2>5. TempInv'
    BY <2>2, <2>3, <2>4, NoFileIs, OwnKeeps DEF FilesInv
  <2> QED
    BY <2>4, <2>5 DEF FilesInv
<1> QED
  BY <1>3, <1>4

LEMMA ReopenTempKeeps ==
  ASSUME FilesInv, NEW t \in FThread, ReopenTemp(t)
  PROVE  FilesInv'
<1>1. fl_pc[t].at = "reopen" /\ Claims(t)
  BY DEF ReopenTemp, At, Claims
<1>2. CASE Exists(TempPath)
  <2>1. PICK n : n = Return(t, TRUE)
    OBVIOUS
  <2>2. LeavePaths(t, n) /\ HasFile(t, TempPath, TRUE, fl_tree[TempPath], "READ_WRITE")
    BY <1>2, <2>1 DEF ReopenTemp
  <2>3. n.at = "returned" /\ CallInv(n)
    BY <1>1, <2>1, TempReturns
  <2>4. TreeInv' /\ FileCallsInv' /\ OthersGoOn(t) /\ fl_pc'[t] = n /\ fl_tree' = fl_tree
    BY <2>2, <2>3, LeaveKeeps DEF FilesInv
  <2>5. PICK f : f = [path |-> TempPath, auto_delete |-> TRUE, id |-> fl_tree[TempPath], mode |-> "READ_WRITE"]
    OBVIOUS
  <2>6. TempPath \in AnyPath /\ TempPath \in FPath /\ "READ_WRITE" \in Access
    BY PathsAre DEF AnyPath, Access
  <2>7. f \in FObject /\ f.path = TempPath /\ f.id = fl_tree[TempPath]
    BY <2>5, <2>6, FileMade, ObjectIs
  <2>8. fl_own' = [fl_own EXCEPT ![t] = f] /\ fl_own \in [FThread -> FObject]
    BY <2>2, <2>5 DEF HasFile, FilesInv, TempInv
  <2>9. fl_own' \in [FThread -> FObject] /\ fl_own'[t] = f /\ \A u \in FThread \ {t} : fl_own'[u] = fl_own[u]
    BY <2>7, <2>8
  <2>10. fl_tree[TempPath] # Absent
    BY <1>2 DEF Exists
  <2>11. TempOf(t)'
    BY <2>3, <2>4, <2>7, <2>9, <2>10 DEF TempOf
  <2>12. TempInv'
    BY <1>1, <2>4, <2>9, <2>11, TempStep DEF FilesInv
  <2> QED
    BY <2>4, <2>12 DEF FilesInv
<1>3. CASE ~Exists(TempPath)
  <2>1. PICK n : n = Return(t, FALSE)
    OBVIOUS
  <2>2. LeavePaths(t, n) /\ UNCHANGED fl_own
    BY <1>3, <2>1 DEF ReopenTemp
  <2>3. n.at = "returned" /\ CallInv(n)
    BY <1>1, <2>1, TempReturns
  <2> QED
    BY <2>2, <2>3, CallGoesOn
<1> QED
  BY <1>2, <1>3

LEMMA UnnameTempKeeps ==
  ASSUME FilesInv, NEW t \in FThread, UnnameTemp(t)
  PROVE  FilesInv'
<1>1. fl_pc[t].at = "unname" /\ Claims(t) /\ UNCHANGED fl_own
  BY DEF UnnameTemp, At, Claims
<1>2. CASE Exists(TempPath)
  <2>1. PICK n : n = GoesTo(t, "rename")
    OBVIOUS
  <2>2. RemovePath(t, TempPath, n)
    BY <1>2, <2>1 DEF UnnameTemp
  <2>3. PICK c \in FCall : c = fl_pc[t] /\ CallInv(c)
    BY CallIs DEF FilesInv
  <2>4. c.op = "temp" /\ (c.emptied => c.grown)
    BY <1>1, <2>3 DEF CallInv, ShapeInv, OpenInv
  <2>5. "rename" \in FAt
    BY DEF FAt
  <2>6. n \in FCall /\ n.op = "temp" /\ n.at = "rename" /\ n.grown = c.grown /\ n.emptied = c.emptied
    BY <2>1, <2>3, <2>4, <2>5, GoesToIs
  <2>7. CallInv(n)'
    BY <2>4, <2>6, PlainCall
  <2>8. TreeInv' /\ FileCallsInv' /\ OthersGoOn(t) /\ fl_pc'[t] = n
    BY <2>2, <2>7, TempGoes
  <2>9. TempOf(t)' /\ ~Claims(t)'
    BY <1>1, <2>6, <2>8, TempIs DEF TempOf, Claims
  <2>10. TempInv'
    BY <1>1, <2>8, <2>9, TempStep DEF FilesInv, TempInv
  <2> QED
    BY <2>8, <2>10 DEF FilesInv
<1>3. CASE ~Exists(TempPath)
  <2>1. PICK n : n = Return(t, FALSE)
    OBVIOUS
  <2>2. LeavePaths(t, n)
    BY <1>3, <2>1 DEF UnnameTemp
  <2>3. n.at = "returned" /\ CallInv(n)
    BY <1>1, <2>1, TempReturns
  <2> QED
    BY <1>1, <2>2, <2>3, CallGoesOn
<1> QED
  BY <1>2, <1>3

LEMMA TempDirectoryKeeps ==
  ASSUME FilesInv, NEW t \in FThread, TempDirectory(t)
  PROVE  FilesInv'
<1>1. fl_pc[t].at = "rename"
  BY DEF TempDirectory, At
<1>2. CASE MayCreate(TempPath)
  <2>1. PICK n : n = Return(t, TRUE)
    OBVIOUS
  <2>2. MakePath(t, TempPath, TRUE, n) /\ HasFile(t, TempPath, FALSE, fl_made + 1, "READ")
    BY <1>2, <2>1 DEF TempDirectory
  <2>3. n.at = "returned" /\ CallInv(n)'
    BY <1>1, <2>1, TempReturns
  <2>4. "READ" \in Access
    BY DEF Access
  <2> QED
    BY <1>2, <2>2, <2>3, <2>4, TempMade
<1>3. CASE ~MayCreate(TempPath)
  <2>1. PICK n : n = Return(t, FALSE)
    OBVIOUS
  <2>2. LeavePaths(t, n) /\ UNCHANGED fl_own
    BY <1>3, <2>1 DEF TempDirectory, TempDirectoryTaken
  <2>3. n.at = "returned" /\ CallInv(n)
    BY <1>1, <2>1, TempReturns
  <2> QED
    BY <2>2, <2>3, CallGoesOn
<1> QED
  BY <1>2, <1>3

LEMMA DestroyFileKeeps ==
  ASSUME FilesInv, NEW t \in FThread, DestroyFile(t)
  PROVE  FilesInv'
<1>1. PICK n : n = Op("close", <<>>, "returned")
  OBVIOUS
<1>2. <<>> \in AnyPath
  BY DEF AnyPath
<1>3. Plain(n, "close", <<>>, "returned")
  BY <1>1, <1>2, PlainIs, OpenWords
<1>4. n.at = "returned" /\ CallInv(n) /\ CallInv(n)'
  BY <1>2, <1>3, PlainReturned
<1>5. fl_own' = [fl_own EXCEPT ![t] = NoFileObject]
  BY DEF DestroyFile
<1>6. CASE fl_own[t].auto_delete /\ Exists(fl_own[t].path)
  <2>1. fl_own[t].path = TempPath /\ Claims(t)
    BY <1>6, TempIs DEF TempOf, Claims
  <2>2. RemovePath(t, TempPath, n)
    BY <1>1, <1>6, <2>1 DEF DestroyFile
  <2>3. TreeInv' /\ FileCallsInv' /\ OthersGoOn(t) /\ fl_pc'[t] = n
    BY <1>4, <2>2, TempGoes
  <2>4. TempInv'
    BY <1>4, <1>5, <2>1, <2>3, NoFileIs, OwnKeeps DEF FilesInv
  <2> QED
    BY <2>3, <2>4 DEF FilesInv
<1>7. CASE ~(fl_own[t].auto_delete /\ Exists(fl_own[t].path))
  <2>1. LeavePaths(t, n)
    BY <1>1, <1>7 DEF DestroyFile
  <2>2. TreeInv' /\ FileCallsInv' /\ OthersGoOn(t) /\ fl_pc'[t] = n /\ fl_tree' = fl_tree
    BY <1>4, <2>1, LeaveKeeps DEF FilesInv
  <2>3. TempInv'
    BY <1>4, <1>5, <2>2, NoFileIs, OwnKeeps DEF FilesInv
  <2> QED
    BY <2>2, <2>3 DEF FilesInv
<1> QED
  BY <1>6, <1>7

-----------------------------------------------------------------------------
(* DeleteRecursively: the directories it is in. *)
LEMMA EntriesAre ==
  ASSUME NEW p \in FPath
  PROVE  Entries(p) \in SUBSET (FPath \X BOOLEAN) /\ FewLeft(p, Entries(p))
<1>1. Children(p) \subseteq FPath
  BY DEF Children
<1>2. \A q \in FPath : DirectoryExists(q) \in BOOLEAN
  BY DEF DirectoryExists
<1>3. Entries(p) \in SUBSET (FPath \X BOOLEAN)
  BY <1>1, <1>2 DEF Entries
<1>4. Children(p) = {} \/ \E x \in FPath : Children(p) = {x}
  BY PathsAre, ChildrenAre
<1>5. CASE Children(p) = {}
  <2>1. Entries(p) = {}
    BY <1>5 DEF Entries
  <2> QED
    BY <1>3, <2>1 DEF FewLeft
<1>6. ASSUME NEW x \in FPath, Children(p) = {x} PROVE FewLeft(p, Entries(p))
  <2>1. CASE fl_tree[x] = Absent
    <3>1. Entries(p) = {}
      BY <1>6, <2>1 DEF Entries
    <3> QED
      BY <3>1 DEF FewLeft
  <2>2. CASE fl_tree[x] # Absent
    <3>1. PICK b \in BOOLEAN : b = DirectoryExists(x)
      BY <1>2
    <3>2. {c \in Children(p) : fl_tree[c] # Absent} = {x}
      BY <1>6, <2>2
    <3>3. Entries(p) = {<<x, b>>}
      BY <3>1, <3>2 DEF Entries
    <3> QED
      BY <1>6, <3>3 DEF FewLeft
  <2> QED
    BY <2>1, <2>2
<1> QED
  BY <1>3, <1>4, <1>5, <1>6

LEMMA EntryIs ==
  ASSUME NEW p \in FPath, NEW c, NEW b \in BOOLEAN, <<c, b>> \in Entries(p)
  PROVE  fl_tree[c] # Absent /\ (b <=> DirectoryExists(c)) /\ c \in Children(p)
<1>1. PICK q \in {x \in Children(p) : fl_tree[x] # Absent} : <<c, b>> = <<q, DirectoryExists(q)>>
  BY DEF Entries
<1>2. c = q /\ b = DirectoryExists(q)
  BY <1>1
<1> QED
  BY <1>1, <1>2

LEMMA NoEntries ==
  ASSUME NEW p
  PROVE  /\ Entries(p) = {} <=> \A q \in Children(p) : fl_tree[q] = Absent
         /\ Entries(p)' = {} <=> \A q \in Children(p) : fl_tree'[q] = Absent
<1>1. Entries(p) = {} <=> \A q \in Children(p) : fl_tree[q] = Absent
  BY DEF Entries
<1>2. Entries(p)' = {} <=> \A q \in Children(p) : fl_tree'[q] = Absent
  BY DEF Entries
<1> QED
  BY <1>1, <1>2

LEMMA ChildIs ==
  ASSUME NEW p \in FPath, NEW q \in Children(p)
  PROVE  q \in FPath /\ q # p /\ q # TempPath /\ p # TempPath /\ Children(p) = {q}
BY PathsAre, ChildrenAre

LEMMA StackIs ==
  ASSUME NEW s \in Seq(DFrame), s # <<>>
  PROVE  /\ Len(s) \in Nat /\ Len(s) >= 1 /\ Last(s) = s[Len(s)] /\ Len(s) \in 1 .. Len(s) /\ 1 \in 1 .. Len(s)
         /\ \A i \in 1 .. Len(s) : s[i] \in DFrame /\ s[i].dir \in FPath
<1>1. Len(s) \in Nat /\ Len(s) >= 1
  BY EmptySeq
<1>2. \A i \in 1 .. Len(s) : s[i] \in DFrame
  OBVIOUS
<1>3. \A f \in DFrame : f.dir \in FPath
  BY DEF DFrame
<1>4. Last(s) = s[Len(s)]
  BY DEF Last
<1> QED
  BY <1>1, <1>2, <1>3, <1>4

LEMMA ChainRest ==
  ASSUME NEW s \in Seq(DFrame), NEW path, Chain(path, s), NEW r, r = [s EXCEPT ![Len(s)].rest = {}]
  PROVE  /\ r \in Seq(DFrame) /\ Len(r) = Len(s) /\ Chain(path, r) /\ r # <<>>
         /\ r[Len(s)].dir = s[Len(s)].dir /\ r[Len(s)].rest = {}
<1>1. s # <<>>
  BY DEF Chain
<1>2. PICK n : n = Len(s)
  OBVIOUS
<1>3. /\ n \in Nat /\ n >= 1 /\ n \in 1 .. n /\ 1 \in 1 .. n /\ \A i \in 1 .. n : s[i] \in DFrame
  BY <1>1, <1>2, StackIs
<1>4. PICK f : f = [s[n] EXCEPT !.rest = {}]
  OBVIOUS
<1>5. s[n] \in DFrame
  BY <1>3
<1>6. f \in DFrame /\ f.dir = s[n].dir /\ f.rest = {}
  BY <1>4, <1>5 DEF DFrame
<1>7. r = [s EXCEPT ![n] = f]
  BY <1>2, <1>4
<1>8. r \in Seq(DFrame) /\ Len(r) = n /\ r[n] = f /\ \A i \in 1 .. n : i # n => r[i] = s[i]
  <2>1. n \in 1 .. Len(s) /\ f \in DFrame
    BY <1>2, <1>3, <1>6
  <2>2. PICK w : w = [s EXCEPT ![n] = f]
    OBVIOUS
  <2>3. w \in Seq(DFrame) /\ Len(w) = Len(s) /\ \A j \in 1 .. Len(s) : w[j] = IF j = n THEN f ELSE s[j]
    BY <2>1, <2>2, ExceptSeq
  <2>4. r = w
    BY <1>7, <2>2
  <2> QED
    BY <1>2, <2>1, <2>3, <2>4
<1>9. \A i \in 1 .. n : r[i].dir = s[i].dir
  BY <1>6, <1>8
<1>10. \A i \in 2 .. n : i \in 1 .. n /\ i - 1 \in 1 .. n
  BY <1>3
<1>11. \A i \in 1 .. n - 1 : i \in 1 .. n /\ i # n
  BY <1>3
<1>12. Chain(path, r)
  <2>1. r # <<>>
    BY <1>3, <1>8, EmptySeq
  <2>2. r[1].dir = path
    BY <1>3, <1>9 DEF Chain
  <2>3. \A i \in 2 .. n : r[i].dir \in Children(r[i - 1].dir)
    BY <1>2, <1>9, <1>10 DEF Chain
  <2>4. \A i \in 1 .. n - 1 : r[i].rest = {}
    BY <1>2, <1>8, <1>11 DEF Chain
  <2> QED
    BY <1>6, <1>8, <2>1, <2>2, <2>3, <2>4 DEF Chain, FewLeft
<1> QED
  BY <1>2, <1>6, <1>8, <1>12 DEF Chain

LEMMA ChainPush ==
  ASSUME NEW s \in Seq(DFrame), NEW path, Chain(path, s), s[Len(s)].rest = {},
         NEW f \in DFrame, f.dir \in Children(s[Len(s)].dir), FewLeft(f.dir, f.rest), NEW r, r = Append(s, f)
  PROVE  r \in Seq(DFrame) /\ Chain(path, r) /\ r[Len(r)] = f
<1>1. s # <<>>
  BY DEF Chain
<1>2. PICK n : n = Len(s)
  OBVIOUS
<1>3. n \in Nat /\ n >= 1 /\ 1 \in 1 .. n
  BY <1>1, <1>2, StackIs
<1>4. r \in Seq(DFrame) /\ Len(r) = n + 1 /\ r[n + 1] = f /\ \A i \in 1 .. n : r[i] = s[i]
  BY <1>2, <1>3
<1>5. Chain(path, r)
  <2>1. r # <<>>
    BY <1>3, <1>4, EmptySeq
  <2>2. r[1].dir = path
    BY <1>3, <1>4 DEF Chain
  <2>3. ASSUME NEW i \in 2 .. Len(r) PROVE r[i].dir \in Children(r[i - 1].dir)
    <3>1. CASE i = n + 1
      <4>1. i - 1 = n /\ n \in 1 .. n
        BY <1>3, <3>1
      <4> QED
        BY <1>2, <1>4, <3>1, <4>1
    <3>2. CASE i # n + 1
      <4>1. i \in 2 .. n /\ i \in 1 .. n /\ i - 1 \in 1 .. n
        BY <1>3, <1>4, <3>2
      <4> QED
        BY <1>2, <1>4, <4>1 DEF Chain
    <3> QED
      BY <3>1, <3>2
  <2>4. ASSUME NEW i \in 1 .. Len(r) - 1 PROVE r[i].rest = {}
    <3>1. i \in 1 .. n /\ r[i] = s[i]
      BY <1>3, <1>4
    <3>2. CASE i = n
      BY <1>2, <3>1, <3>2
    <3>3. CASE i # n
      <4>1. i \in 1 .. n - 1
        BY <1>3, <3>1, <3>3
      <4> QED
        BY <1>2, <3>1, <4>1 DEF Chain
    <3> QED
      BY <3>2, <3>3
  <2>5. FewLeft(r[Len(r)].dir, r[Len(r)].rest)
    BY <1>4
  <2> QED
    BY <2>1, <2>2, <2>3, <2>4, <2>5 DEF Chain
<1> QED
  BY <1>4, <1>5

LEMMA ChainPop ==
  ASSUME NEW s \in Seq(DFrame), NEW path, Chain(path, s), Len(s) # 1, NEW r, r = Front(s)
  PROVE  /\ r \in Seq(DFrame) /\ Chain(path, r) /\ r # <<>> /\ r[Len(r)].rest = {}
         /\ s[Len(s)].dir \in Children(r[Len(r)].dir)
<1>1. s # <<>>
  BY DEF Chain
<1>2. PICK n : n = Len(s)
  OBVIOUS
<1>3. n \in Nat /\ n >= 2 /\ n - 1 \in Nat /\ n - 1 >= 1 /\ n - 1 \in 1 .. n - 1 /\ 1 \in 1 .. n - 1 /\ n \in 2 .. n
  <2>1. n \in Nat /\ n >= 1 /\ n # 1
    BY <1>1, <1>2, StackIs
  <2> QED
    BY <2>1
<1>4. r = SubSeq(s, 1, n - 1)
  BY <1>2 DEF Front
<1>5. r \in Seq(DFrame) /\ Len(r) = n - 1 /\ \A i \in 1 .. n - 1 : r[i] = s[i]
  BY <1>2, <1>3, <1>4
<1>6. r # <<>>
  BY <1>3, <1>5, EmptySeq
<1>7. r[1].dir = path
  BY <1>3, <1>5 DEF Chain
<1>8. \A i \in 2 .. n - 1 : r[i].dir \in Children(r[i - 1].dir)
  <2>1. \A i \in 2 .. n - 1 : i \in 1 .. n - 1 /\ i - 1 \in 1 .. n - 1 /\ i \in 2 .. n
    BY <1>3
  <2> QED
    BY <1>2, <1>5, <2>1 DEF Chain
<1>9. \A i \in 1 .. n - 1 : r[i].rest = {}
  BY <1>2, <1>5 DEF Chain
<1>10. \A i \in 1 .. n - 1 - 1 : i \in 1 .. n - 1
  BY <1>3
<1>11. Chain(path, r)
  BY <1>3, <1>5, <1>6, <1>7, <1>8, <1>9, <1>10 DEF Chain, FewLeft
<1>12. s[n].dir \in Children(s[n - 1].dir)
  BY <1>2, <1>3 DEF Chain
<1> QED
  BY <1>2, <1>3, <1>5, <1>6, <1>9, <1>11, <1>12

-----------------------------------------------------------------------------
(* DeleteRecursively: its steps. *)
LEMMA DeleteCall ==
  ASSUME NEW n \in FCall, n.op = "delete", n.path \in DeletedPath, n.at \in {"readdir", "delete", "returned"},
         n.at = "readdir" => n.stack = <<>>, n.at = "delete" => Chain(n.path, n.stack), n.emptied => n.grown
  PROVE  (DeleteInv(n) => CallInv(n)) /\ (DeleteInv(n)' => CallInv(n)')
<1>1. ShapeInv(n)
  BY DEF ShapeInv
<1>2. CreateInv(n) /\ OpenInv(n) /\ AnswerInv(n) /\ CreateInv(n)' /\ OpenInv(n)' /\ AnswerInv(n)'
  BY DEF CreateInv, OpenInv, AnswerInv
<1> QED
  BY <1>1, <1>2 DEF CallInv

LEMMA DeleteRecursivelyKeeps ==
  ASSUME FilesInv, NEW t \in FThread, NEW p \in DeletedPath, DeleteRecursively(t, p)
  PROVE  FilesInv'
<1>1. p \in FPath /\ p \in AnyPath
  BY PathsAre DEF DeletedPath, AnyPath
<1>2. p = TempPath => fl_own[t].path = TempPath
  BY DEF DeleteRecursively
<1>3. "delete" \in FOp /\ "readdir" \in FAt /\ "returned" \in FAt
  BY DEF FOp, FAt
<1>4. UNCHANGED fl_own
  BY DEF DeleteRecursively, Begin
<1>5. CASE DirectoryExists(p)
  <2>1. PICK n : n = Op("delete", p, "readdir")
    OBVIOUS
  <2>2. LeavePaths(t, n)
    BY <1>5, <2>1 DEF DeleteRecursively, Begin
  <2>3. n \in FCall /\ n.op = "delete" /\ n.path = p /\ n.at = "readdir" /\ ~n.emptied /\ n.stack = <<>>
    BY <1>1, <1>3, <2>1, OpIs
  <2>4. DeleteInv(n)
    BY <1>5, <2>3 DEF DeleteInv
  <2>5. CallInv(n)
    BY <2>3, <2>4, DeleteCall
  <2> QED
    BY <1>2, <1>4, <2>2, <2>3, <2>5, CallGoesOn
<1>6. CASE ~DirectoryExists(p)
  <2>1. PICK r : r = Op("delete", p, "returned")
    OBVIOUS
  <2>2. PICK n : n = [r EXCEPT !.ok = FALSE]
    OBVIOUS
  <2>3. LeavePaths(t, n)
    BY <1>6, <2>1, <2>2 DEF DeleteRecursively, Begin
  <2>4. r \in FCall /\ r.op = "delete" /\ r.path = p /\ r.at = "returned" /\ ~r.emptied
    BY <1>1, <1>3, <2>1, OpIs
  <2>5. n \in FCall /\ n.op = "delete" /\ n.path = p /\ n.at = "returned" /\ ~n.emptied /\ ~n.ok
    BY <2>2, <2>4 DEF FCall
  <2>6. DeleteInv(n)
    BY <1>6, <2>5 DEF DeleteInv
  <2>7. CallInv(n)
    BY <2>5, <2>6, DeleteCall
  <2> QED
    BY <1>4, <2>3, <2>5, <2>7, CallGoesOn
<1> QED
  BY <1>5, <1>6

(* What is known of a call that deletes. *)
LEMMA DeletesIs ==
  ASSUME FilesInv, NEW t \in FThread, fl_pc[t].at \in {"readdir", "delete"}
  PROVE  \E c \in FCall :
           /\ c = fl_pc[t] /\ c.op = "delete" /\ c.path \in DeletedPath /\ (c.emptied => c.grown) /\ DeleteInv(c)
           /\ c.path = TempPath => fl_own[t].path = TempPath
           /\ c.at = "readdir" => c.stack = <<>>
           /\ c.at = "delete" => Chain(c.path, c.stack) /\ c.stack # <<>>
           /\ c.stack \in Seq(DFrame)
<1>1. PICK c \in FCall : c = fl_pc[t] /\ CallInv(c)
  BY CallIs DEF FilesInv
<1>2. c.op = "delete" /\ c.path \in DeletedPath /\ (c.emptied => c.grown) /\ DeleteInv(c)
  BY <1>1 DEF CallInv, ShapeInv, OpenInv
<1>3. c.path = TempPath => fl_own[t].path = TempPath
  BY <1>1, TempIs DEF TempOf
<1>4. (c.at = "readdir" => c.stack = <<>>) /\ (c.at = "delete" => Chain(c.path, c.stack) /\ c.stack # <<>>)
  BY <1>1 DEF CallInv, ShapeInv, Chain
<1>5. c.stack \in Seq(DFrame)
  BY DEF FCall
<1> QED
  BY <1>1, <1>2, <1>3, <1>4, <1>5

(* It gives up, which it may if somebody removed a path, or the directory  *)
(* is not there.                                                           *)
LEMMA DeleteFails ==
  ASSUME FilesInv, NEW t \in FThread, NEW c \in FCall, c = fl_pc[t], c.op = "delete", c.path \in DeletedPath,
         c.emptied => c.grown, ~c.grown => c.lost \/ ~DirectoryExists(c.path), NEW n, n = Return(t, FALSE)
  PROVE  n.at = "returned" /\ n.path = c.path /\ CallInv(n)
<1>1. /\ n \in FCall /\ n.op = c.op /\ n.path = c.path /\ n.at = "returned" /\ n.ok = FALSE
      /\ n.lost = c.lost /\ n.grown = c.grown /\ n.emptied = c.emptied
  BY ReturnIs
<1>2. DeleteInv(n)
  BY <1>1 DEF DeleteInv
<1> QED
  BY <1>1, <1>2, DeleteCall

LEMMA ReadDirKeeps ==
  ASSUME FilesInv, NEW t \in FThread, ReadDir(t)
  PROVE  FilesInv'
<1>1. fl_pc[t].at = "readdir" /\ UNCHANGED fl_own
  BY DEF ReadDir, At
<1>2. PICK c \in FCall :
           /\ c = fl_pc[t] /\ c.op = "delete" /\ c.path \in DeletedPath /\ (c.emptied => c.grown) /\ DeleteInv(c)
           /\ c.path = TempPath => fl_own[t].path = TempPath
           /\ c.at = "readdir" => c.stack = <<>>
           /\ c.at = "delete" => Chain(c.path, c.stack) /\ c.stack # <<>>
           /\ c.stack \in Seq(DFrame)
  BY <1>1, DeletesIs
<1>3. PICK p : p = c.path
  OBVIOUS
<1>4. p \in FPath
  BY <1>2, <1>3, PathsAre DEF DeletedPath
<1>5. CASE DirectoryExists(p)
  <2>1. PICK es : es = Entries(p)
    OBVIOUS
  <2>2. PICK f : f = [dir |-> p, rest |-> es]
    OBVIOUS
  <2>3. f \in DFrame /\ f.dir = p /\ f.rest = es
    BY <1>4, <2>1, <2>2, EntriesAre DEF DFrame
  <2>4. PICK s : s = Append(<<>>, f)
    OBVIOUS
  <2>5. s \in Seq(DFrame) /\ Len(s) = 1 /\ s[1] = f
    <3>1. <<>> \in Seq(DFrame) /\ Len(<<>>) = 0
      BY EmptySeq
    <3> QED
      BY <2>3, <2>4, <3>1
  <2>6. PICK n : n = [c EXCEPT !.at = "delete", !.stack = s]
    OBVIOUS
  <2>7. LeavePaths(t, n)
    BY <1>1, <1>2, <1>3, <1>5, <2>1, <2>2, <2>4, <2>6 DEF ReadDir, Entered
  <2>8. "delete" \in FAt
    BY DEF FAt
  <2>9. /\ n \in FCall /\ n.op = "delete" /\ n.path = p /\ n.at = "delete" /\ n.stack = s
        /\ n.grown = c.grown /\ n.emptied = c.emptied
    BY <1>2, <1>3, <2>5, <2>6, <2>8 DEF FCall
  <2>10. Chain(p, s)
    <3>1. s # <<>>
      BY <2>5, EmptySeq
    <3>2. \A i \in 2 .. Len(s) : FALSE
      BY <2>5
    <3>3. \A i \in 1 .. Len(s) - 1 : FALSE
      BY <2>5
    <3>4. FewLeft(p, es)
      BY <1>4, <2>1, EntriesAre
    <3> QED
      BY <2>3, <2>5, <3>1, <3>2, <3>3, <3>4 DEF Chain
  <2>11. DeleteInv(n)
    BY <1>5, <2>1, <2>3, <2>5, <2>9 DEF DeleteInv
  <2>12. CallInv(n)
    BY <1>2, <1>3, <2>9, <2>10, <2>11, DeleteCall
  <2> QED
    BY <1>1, <1>2, <1>3, <2>7, <2>9, <2>12, CallGoesOn
<1>6. CASE ~DirectoryExists(p)
  <2>1. PICK n : n = Return(t, FALSE)
    OBVIOUS
  <2>2. LeavePaths(t, n)
    BY <1>2, <1>3, <1>6, <2>1 DEF ReadDir
  <2>3. n.at = "returned" /\ CallInv(n)
    BY <1>2, <1>3, <1>6, <2>1, DeleteFails
  <2> QED
    BY <1>1, <2>2, <2>3, CallGoesOn
<1> QED
  BY <1>5, <1>6

(* Deleting an entry: a directory is entered, a file removed. *)
LEMMA DeleteStepKeeps ==
  ASSUME FilesInv, NEW t \in FThread, DeleteStep(t)
  PROVE  FilesInv'
<1>1. fl_pc[t].at = "delete" /\ UNCHANGED fl_own
  BY DEF DeleteStep, At
<1>2. PICK c \in FCall :
           /\ c = fl_pc[t] /\ c.op = "delete" /\ c.path \in DeletedPath /\ (c.emptied => c.grown) /\ DeleteInv(c)
           /\ c.path = TempPath => fl_own[t].path = TempPath
           /\ c.at = "readdir" => c.stack = <<>>
           /\ c.at = "delete" => Chain(c.path, c.stack) /\ c.stack # <<>>
           /\ c.stack \in Seq(DFrame)
  BY <1>1, DeletesIs
<1>3. PICK s : s = c.stack
  OBVIOUS
<1>4. s \in Seq(DFrame) /\ s # <<>> /\ Chain(c.path, s)
  BY <1>1, <1>2, <1>3
<1>5. PICK f : f = s[Len(s)]
  OBVIOUS
<1>6. f \in DFrame /\ f.dir \in FPath /\ Last(s) = f
  BY <1>4, <1>5, StackIs
<1>7. PICK e \in f.rest : DeleteEntry(t, e)
  BY <1>2, <1>3, <1>6 DEF DeleteStep, DirFrame
<1>8. PICK q \in Children(f.dir), b \in BOOLEAN : f.rest = {<<q, b>>}
  BY <1>4, <1>5, <1>7 DEF Chain, FewLeft
<1>9. e = <<q, b>> /\ e[1] = q /\ e[2] = b /\ f.rest \ {e} = {}
  BY <1>7, <1>8
<1>10. q \in FPath /\ q # f.dir /\ q # TempPath /\ Children(f.dir) = {q}
  BY <1>6, <1>8, ChildIs
<1>11. ~c.grown /\ ~c.lost => DirectoryExists(f.dir) /\ f.rest = Entries(f.dir)
  BY <1>1, <1>2, <1>3, <1>5 DEF DeleteInv
<1>12. ~c.grown /\ ~c.lost => fl_tree[q] # Absent /\ (b <=> DirectoryExists(q))
  <2>1. ~c.grown /\ ~c.lost => <<q, b>> \in Entries(f.dir)
    BY <1>8, <1>11
  <2> QED
    BY <1>6, <2>1, EntryIs
<1>13. PICK r : r = [s EXCEPT ![Len(s)].rest = {}]
  OBVIOUS
<1>14. /\ r \in Seq(DFrame) /\ Len(r) = Len(s) /\ Chain(c.path, r) /\ r # <<>>
       /\ r[Len(r)].dir = f.dir /\ r[Len(r)].rest = {}
  <2>1. PICK path : path = c.path
    OBVIOUS
  <2>2. Chain(path, s)
    BY <1>4, <2>1
  <2>3. /\ r \in Seq(DFrame) /\ Len(r) = Len(s) /\ Chain(path, r) /\ r # <<>>
        /\ r[Len(s)].dir = s[Len(s)].dir /\ r[Len(s)].rest = {}
    BY <1>4, <1>13, <2>2, ChainRest, Zenon
  <2> QED
    BY <1>5, <2>1, <2>3, Zenon
<1>15. PICK m : m = [c EXCEPT !.stack = r]
  OBVIOUS
<1>16. /\ m \in FCall /\ m.op = c.op /\ m.path = c.path /\ m.at = c.at /\ m.ok = c.ok /\ m.stack = r /\ m.lost = c.lost
       /\ m.grown = c.grown /\ m.emptied = c.emptied
  BY <1>14, <1>15 DEF FCall
<1>17. m = Rest(t, f.rest \ {e})
  <2>1. m = [c EXCEPT !.stack = [c.stack EXCEPT ![Len(c.stack)].rest = {}]]
    BY <1>3, <1>13, <1>15
  <2>2. Rest(t, {}) = [c EXCEPT !.stack = [c.stack EXCEPT ![Len(c.stack)].rest = {}]]
    BY <1>2 DEF Rest
  <2> QED
    BY <1>9, <2>1, <2>2
<1>18. DirFrame(t) = f
  BY <1>2, <1>3, <1>6 DEF DirFrame
<1>19. PICK z : z = Return(t, FALSE)
  OBVIOUS
<1>20. PICK n : n = [m EXCEPT !.stack = Append(m.stack, [dir |-> q, rest |-> Entries(q)])]
  OBVIOUS
<1>21. \/ b /\ DirectoryExists(q) /\ LeavePaths(t, n)
       \/ b /\ ~DirectoryExists(q) /\ LeavePaths(t, z)
       \/ ~b /\ Exists(q) /\ RemovePath(t, q, m)
       \/ ~b /\ ~Exists(q) /\ LeavePaths(t, z)
  <2>1. PICK x : x = Rest(t, DirFrame(t).rest \ {e})
    OBVIOUS
  <2>2. x = m
    BY <1>17, <1>18, <2>1
  <2>3. IF b
        THEN LeavePaths(t, IF DirectoryExists(q) THEN [x EXCEPT !.stack = Append(x.stack, [dir |-> q, rest |-> Entries(q)])]
                           ELSE z)
        ELSE IF Exists(q) THEN RemovePath(t, q, x) ELSE LeavePaths(t, z)
    BY <1>7, <1>9, <1>19, <2>1 DEF DeleteEntry
  <2> QED
    BY <1>20, <2>2, <2>3
<1>22. CASE b /\ DirectoryExists(q) /\ LeavePaths(t, n)
  <2>1. PICK es : es = Entries(q)
    OBVIOUS
  <2>2. PICK g : g = [dir |-> q, rest |-> es]
    OBVIOUS
  <2>3. g \in DFrame /\ g.dir = q /\ g.rest = es /\ FewLeft(q, es)
    BY <1>10, <2>1, <2>2, EntriesAre DEF DFrame
  <2>4. PICK w : w = Append(r, g)
    OBVIOUS
  <2>5. w \in Seq(DFrame) /\ Chain(c.path, w) /\ w[Len(w)] = g
    <3>1. PICK path : path = c.path
      OBVIOUS
    <3>2. Chain(path, r) /\ g.dir \in Children(r[Len(r)].dir) /\ FewLeft(g.dir, g.rest)
      BY <1>8, <1>14, <2>3, <3>1
    <3>3. r \in Seq(DFrame) /\ r[Len(r)].rest = {} /\ g \in DFrame
      BY <1>14, <2>3
    <3>4. w \in Seq(DFrame) /\ Chain(path, w) /\ w[Len(w)] = g
      BY <2>4, <3>2, <3>3, ChainPush
    <3> QED
      BY <3>1, <3>4
  <2>6. n = [m EXCEPT !.stack = w]
    BY <1>16, <1>20, <2>1, <2>2, <2>4
  <2>8. /\ n \in FCall /\ n.op = "delete" /\ n.path = c.path /\ n.at = "delete" /\ n.stack = w
        /\ n.grown = c.grown /\ n.emptied = c.emptied
    BY <1>1, <1>2, <1>16, <2>5, <2>6 DEF FCall
  <2>9. DeleteInv(n)
    BY <1>22, <2>1, <2>3, <2>5, <2>8 DEF DeleteInv
  <2>10. CallInv(n)
    BY <1>2, <2>5, <2>8, <2>9, DeleteCall
  <2> QED
    BY <1>1, <1>2, <1>22, <2>8, <2>10, CallGoesOn
<1>23. CASE LeavePaths(t, z) /\ ((b /\ ~DirectoryExists(q)) \/ (~b /\ ~Exists(q)))
  <2>1. ~c.grown => c.lost
    BY <1>10, <1>12, <1>23, ThereIs DEF FilesInv
  <2>2. z.at = "returned" /\ CallInv(z)
    BY <1>2, <1>19, <2>1, DeleteFails
  <2> QED
    BY <1>1, <1>23, <2>2, CallGoesOn
<1>24. CASE ~b /\ Exists(q) /\ RemovePath(t, q, m)
  <2>1. \A x \in Children(q) : fl_tree[x] = Absent
    BY <1>10, <1>24, FileIsLeaf DEF FilesInv
  <2>2. Removes(q)
    BY <1>10, <1>24, <2>1, RemoveEffect DEF FilesInv
  <2>3. Entries(f.dir)' = {}
    BY <1>10, <2>2, NoEntries DEF Removes
  <2>4. DirectoryExists(f.dir) => DirectoryExists(f.dir)'
    BY <1>6, <1>10, <2>2 DEF Removes, Stays
  <2>5. DeleteInv(m)'
    <3>1. PICK d, x : d = r[Len(r)].dir /\ x = r[Len(r)].rest
      OBVIOUS
    <3>2. d = f.dir /\ x = {}
      BY <1>14, <3>1
    <3>3. ~m.grown /\ ~m.lost => DirectoryExists(d)' /\ x = Entries(d)'
      BY <1>11, <1>16, <2>3, <2>4, <3>2
    <3> QED
      BY <1>1, <1>2, <1>16, <3>1, <3>3 DEF DeleteInv
  <2>6. CallInv(m)'
    BY <1>1, <1>2, <1>14, <1>16, <2>5, DeleteCall
  <2>7. TreeInv' /\ FileCallsInv' /\ OthersGoOn(t) /\ fl_pc'[t] = m
    BY <1>10, <1>24, <2>1, <2>6, RemoveKeeps DEF FilesInv
  <2>8. fl_tree'[TempPath] = fl_tree[TempPath]
    BY <1>10, <2>2, PathsAre DEF Removes, Stays
  <2>9. TempInv'
    BY <1>1, <1>2, <1>16, <2>7, <2>8, TempLeft DEF FilesInv
  <2> QED
    BY <2>7, <2>9 DEF FilesInv
<1> QED
  BY <1>21, <1>22, <1>23, <1>24

(* The directory itself: the temporary one, which is the caller's, or one  *)
(* of the others.                                                          *)
LEMMA OwnAfterDelete ==
  ASSUME FilesInv, NEW t \in FThread, OthersGoOn(t), NEW path, NEW n, fl_pc'[t] = n, n.path = path,
         n.at \in {"returned", "delete"}, path = TempPath => n.at = "returned" /\ fl_own[t].path = TempPath,
         path # TempPath => fl_tree'[TempPath] = fl_tree[TempPath],
         fl_own' = IF path = TempPath /\ n.at = "returned" THEN [fl_own EXCEPT ![t] = NoFileObject] ELSE fl_own
  PROVE  TempInv'
<1>1. CASE path = TempPath
  <2>1. fl_own' = [fl_own EXCEPT ![t] = NoFileObject] /\ n.at = "returned" /\ Claims(t)
    BY <1>1 DEF Claims
  <2> QED
    BY <2>1, NoFileIs, OwnKeeps DEF FilesInv
<1>2. CASE path # TempPath
  <2>1. UNCHANGED fl_own
    BY <1>2
  <2> QED
    BY <1>2, <2>1, TempLeft DEF FilesInv
<1> QED
  BY <1>1, <1>2

LEMMA RemoveDirectoryKeeps ==
  ASSUME FilesInv, NEW t \in FThread, RemoveDirectory(t)
  PROVE  FilesInv'
<1>1. fl_pc[t].at = "delete" /\ DirFrame(t).rest = {}
  BY DEF RemoveDirectory, At
<1>2. PICK c \in FCall :
           /\ c = fl_pc[t] /\ c.op = "delete" /\ c.path \in DeletedPath /\ (c.emptied => c.grown) /\ DeleteInv(c)
           /\ c.path = TempPath => fl_own[t].path = TempPath
           /\ c.at = "readdir" => c.stack = <<>>
           /\ c.at = "delete" => Chain(c.path, c.stack) /\ c.stack # <<>>
           /\ c.stack \in Seq(DFrame)
  BY <1>1, DeletesIs
<1>3. PICK s : s = c.stack
  OBVIOUS
<1>4. PICK path : path = c.path
  OBVIOUS
<1>5. s \in Seq(DFrame) /\ s # <<>> /\ Chain(path, s)
  BY <1>1, <1>2, <1>3, <1>4
<1>6. PICK f : f = s[Len(s)]
  OBVIOUS
<1>7. /\ f \in DFrame /\ f.dir \in FPath /\ Last(s) = f /\ Len(s) \in Nat /\ Len(s) >= 1
      /\ \A i \in 1 .. Len(s) : s[i].dir \in FPath
  BY <1>5, <1>6, StackIs
<1>8. DirFrame(t) = f
  BY <1>2, <1>3, <1>7 DEF DirFrame
<1>9. PICK p : p = f.dir
  OBVIOUS
<1>10. f.rest = {} /\ p \in FPath /\ c.at = "delete"
  BY <1>1, <1>2, <1>7, <1>8, <1>9
<1>11. ~c.grown /\ ~c.lost => DirectoryExists(p) /\ Entries(p) = {}
  BY <1>1, <1>2, <1>3, <1>6, <1>9, <1>10 DEF DeleteInv
<1>12. /\ Len(s) = 1 => p = path
       /\ Len(s) # 1 => p # TempPath /\ path # TempPath
  <2>1. Len(s) = 1 => p = path
    BY <1>5, <1>6, <1>9 DEF Chain
  <2>2. CASE Len(s) # 1
    <3>1. Len(s) \in 2 .. Len(s) /\ 2 \in 2 .. Len(s) /\ Len(s) - 1 \in 1 .. Len(s) /\ 1 \in 1 .. Len(s) /\ 2 - 1 = 1
      <4>1. PICK n : n = Len(s)
        OBVIOUS
      <4>2. n \in Nat /\ n >= 1 /\ n # 1
        BY <1>7, <2>2, <4>1
      <4>3. n \in 2 .. n /\ 2 \in 2 .. n /\ n - 1 \in 1 .. n /\ 1 \in 1 .. n
        BY <4>2
      <4> QED
        BY <4>1, <4>3
    <3>2. s[Len(s)].dir \in Children(s[Len(s) - 1].dir) /\ s[2].dir \in Children(s[1].dir) /\ s[1].dir = path
      BY <1>5, <3>1 DEF Chain
    <3>3. s[Len(s)].dir # TempPath
      BY <1>7, <3>1, <3>2, ChildIs
    <3>4. path # TempPath
      BY <1>7, <3>1, <3>2, ChildIs
    <3> QED
      BY <1>6, <1>9, <2>2, <3>3, <3>4
  <2> QED
    BY <2>1, <2>2
<1>13. UNCHANGED fl_full /\ fl_own' = IF path = TempPath /\ fl_pc'[t].at = "returned" THEN [fl_own EXCEPT ![t] = NoFileObject] ELSE fl_own
  BY <1>2, <1>4 DEF RemoveDirectory, At
<1>14. CASE DirectoryExists(p) /\ Entries(p) = {} /\ Len(s) = 1
  <2>1. PICK n : n = Return(t, TRUE)
    OBVIOUS
  <2>2. RemovePath(t, p, n)
    BY <1>2, <1>3, <1>8, <1>9, <1>14, <2>1 DEF RemoveDirectory
  <2>3. /\ n \in FCall /\ n.op = c.op /\ n.path = c.path /\ n.at = "returned" /\ n.ok = TRUE
        /\ n.lost = c.lost /\ n.grown = c.grown /\ n.emptied = c.emptied
    BY <1>2, <2>1, ReturnIs
  <2>4. p = path /\ p \in DeletedPath /\ \A q \in Children(p) : fl_tree[q] = Absent
    BY <1>2, <1>4, <1>12, <1>14, NoEntries
  <2>5. Removes(p)
    BY <1>10, <2>2, <2>4, RemoveEffect DEF FilesInv
  <2>6. \A q \in FPath : IsPrefix(p, q) => fl_tree'[q] = Absent
    <3>1. \A q \in FPath : IsPrefix(p, q) => q = p \/ fl_tree[q] = Absent
      BY <2>4, NothingBelow DEF FilesInv, DeletedPath
    <3> QED
      BY <2>5, <3>1 DEF Removes, Stays
  <2>7. DeleteInv(n)'
    BY <1>4, <2>3, <2>4, <2>6 DEF DeleteInv
  <2>8. CallInv(n)'
    BY <1>2, <2>3, <2>7, DeleteCall
  <2>9. TreeInv' /\ FileCallsInv' /\ OthersGoOn(t) /\ fl_pc'[t] = n
    BY <1>10, <2>2, <2>4, <2>8, RemoveKeeps DEF FilesInv
  <2>10. path # TempPath => fl_tree'[TempPath] = fl_tree[TempPath]
    BY <2>4, <2>5, PathsAre DEF Removes, Stays
  <2>11. TempInv'
    BY <1>2, <1>4, <1>13, <2>3, <2>9, <2>10, OwnAfterDelete
  <2> QED
    BY <2>9, <2>11 DEF FilesInv
<1>15. CASE DirectoryExists(p) /\ Entries(p) = {} /\ Len(s) # 1
  <2>1. PICK r : r = Front(s)
    OBVIOUS
  <2>2. PICK n : n = [c EXCEPT !.stack = r]
    OBVIOUS
  <2>3. RemovePath(t, p, n)
    BY <1>2, <1>3, <1>8, <1>9, <1>15, <2>1, <2>2 DEF RemoveDirectory
  <2>4. /\ r \in Seq(DFrame) /\ Chain(path, r) /\ r # <<>> /\ r[Len(r)].rest = {}
        /\ s[Len(s)].dir \in Children(r[Len(r)].dir)
    BY <1>5, <1>15, <2>1, ChainPop
  <2>5. /\ n \in FCall /\ n.op = "delete" /\ n.path = path /\ n.at = "delete" /\ n.stack = r
        /\ n.lost = c.lost /\ n.grown = c.grown /\ n.emptied = c.emptied
    BY <1>2, <1>4, <1>10, <2>2, <2>4 DEF FCall
  <2>6. PICK g : g = r[Len(r)]
    OBVIOUS
  <2>7. g.dir \in FPath /\ p \in Children(g.dir) /\ g.rest = {}
    BY <1>6, <1>9, <2>4, <2>6, StackIs
  <2>8. p # g.dir /\ Children(g.dir) = {p}
    BY <2>7, ChildIs
  <2>9. \A q \in Children(p) : fl_tree[q] = Absent
    BY <1>15, NoEntries
  <2>10. Removes(p)
    BY <1>10, <2>3, <2>9, RemoveEffect DEF FilesInv
  <2>11. DirectoryExists(g.dir)
    <3>1. fl_tree[p] # Absent
      BY <1>10, <1>15, ThereIs DEF FilesInv
    <3> QED
      BY <2>7, <3>1, PathsAre, ChildrenAre DEF FilesInv, TreeInv
  <2>12. DirectoryExists(g.dir)' /\ Entries(g.dir)' = {}
    BY <2>7, <2>8, <2>10, <2>11, NoEntries DEF Removes, Stays
  <2>13. DeleteInv(n)'
    <3>1. PICK d, x : d = r[Len(r)].dir /\ x = r[Len(r)].rest
      OBVIOUS
    <3>2. d = g.dir /\ x = {}
      BY <2>6, <2>7, <3>1
    <3>3. DirectoryExists(d)' /\ x = Entries(d)'
      BY <2>12, <3>2
    <3> QED
      BY <2>5, <3>1, <3>3 DEF DeleteInv
  <2>14. CallInv(n)'
    BY <1>2, <1>4, <2>4, <2>5, <2>13, DeleteCall
  <2>15. TreeInv' /\ FileCallsInv' /\ OthersGoOn(t) /\ fl_pc'[t] = n
    BY <1>10, <2>3, <2>9, <2>14, RemoveKeeps DEF FilesInv
  <2>16. fl_tree'[TempPath] = fl_tree[TempPath]
    BY <1>12, <1>15, <2>10, PathsAre DEF Removes, Stays
  <2>17. TempInv'
    BY <1>12, <1>13, <1>15, <2>5, <2>15, <2>16, OwnAfterDelete
  <2> QED
    BY <2>15, <2>17 DEF FilesInv
<1>16. CASE ~(DirectoryExists(p) /\ Entries(p) = {})
  <2>1. PICK n : n = Return(t, FALSE)
    OBVIOUS
  <2>2. LeavePaths(t, n)
    BY <1>8, <1>9, <1>16, <2>1 DEF RemoveDirectory
  <2>3. ~c.grown => c.lost
    BY <1>11, <1>16
  <2>4. n.at = "returned" /\ n.path = c.path /\ CallInv(n)
    BY <1>2, <2>1, <2>3, DeleteFails
  <2>5. TreeInv' /\ FileCallsInv' /\ OthersGoOn(t) /\ fl_pc'[t] = n /\ fl_tree' = fl_tree
    BY <2>2, <2>4, LeaveKeeps DEF FilesInv
  <2>6. TempInv'
    BY <1>2, <1>4, <1>13, <2>4, <2>5, OwnAfterDelete
  <2> QED
    BY <2>5, <2>6 DEF FilesInv
<1> QED
  BY <1>14, <1>15, <1>16

-----------------------------------------------------------------------------
LEMMA FilesStart == FilesInit => FilesInv
<1> SUFFICES ASSUME FilesInit PROVE FilesInv
  OBVIOUS
<1>1. \A p \in FPath : fl_tree[p] = Absent
  BY DEF FilesInit
<1>2. TreeInv
  <2>1. fl_made \in Nat /\ fl_tree \in [FPath -> 0 .. fl_made] /\ fl_dirs \subseteq 1 .. fl_made
    BY DEF FilesInit, Absent
  <2> QED
    BY <1>1, <2>1, PathsAre DEF TreeInv
<1>3. PICK r : r = Returned
  OBVIOUS
<1>4. r \in FCall /\ r.at = "returned" /\ ~r.emptied /\ r.op = "none"
  <2>1. Returned.op = "none"
    BY Zenon DEF Returned
  <2> QED
    BY <1>3, <2>1, ReturnedIs
<1>5. CallInv(r)
  BY <1>4, PlainCall
<1>6. \A t \in FThread : fl_pc[t] = r /\ fl_own[t] = NoFileObject
  BY <1>3 DEF FilesInit
<1>7. FileCallsInv
  <2>1. fl_pc = [t \in FThread |-> r]
    BY <1>3 DEF FilesInit
  <2> QED
    BY <1>4, <1>5, <1>6, <2>1 DEF FileCallsInv
<1>8. TempInv
  <2>1. fl_own = [t \in FThread |-> NoFileObject]
    BY DEF FilesInit
  <2>2. fl_own \in [FThread -> FObject]
    BY <2>1, NoFileIs
  <2>3. ASSUME NEW t \in FThread PROVE TempOf(t) /\ ~Claims(t)
    BY <1>4, <1>6, NoFileIs DEF TempOf, Claims
  <2> QED
    BY <2>2, <2>3 DEF TempInv
<1> QED
  BY <1>2, <1>7, <1>8 DEF FilesInv

LEMMA FilesKeep == FilesInv /\ [FilesNext]_fileVars => FilesInv'
<1> SUFFICES ASSUME FilesInv, FilesNext PROVE FilesInv'
  BY NothingMoves DEF fileVars
<1>1. <<"d", "s">> = SPath /\ {TempPath, <<"d">>} = DeletedPath
  BY DEF SPath, DeletedPath, DPath
<1>2. CASE ChooseFileBuild
  BY <1>2, NothingMoves DEF ChooseFileBuild
<1>3. ASSUME NEW t \in FThread, NEW p \in FPath \ {TempPath}, RecursivelyCreateDir(t, p) \/ CreateNewFile(t, p)
      PROVE  FilesInv'
  BY <1>3, RecursivelyCreateDirKeeps, CreateNewFileKeeps
<1>4. ASSUME NEW t \in FThread, NEW p \in {TempPath, <<"d">>}, DeleteRecursively(t, p) PROVE FilesInv'
  BY <1>1, <1>4, DeleteRecursivelyKeeps
<1>5. ASSUME NEW t \in FThread, NEW p \in {<<"d", "s">>}, NEW a \in Access, NEW e \in ExistsMode,
             OpenPosix(t, p, a, e) \/ OpenWin32(t, p, a, e)
      PROVE  FilesInv'
  BY <1>1, <1>5, OpenPosixKeeps, OpenWin32Keeps
<1>6. ASSUME NEW t \in FThread, NEW k \in Temporary, CreateNewTempPosix(t, k) \/ CreateNewTempFileName(t, k)
      PROVE  FilesInv'
  BY <1>6, CreateNewTempPosixKeeps, CreateNewTempFileNameKeeps
<1>7. ASSUME NEW t \in FThread, MakeDirectory(t) \/ LookAtDirectory(t) \/ MakeDirectoryCE(t) PROVE FilesInv'
  BY <1>7, MakeDirectoryKeeps
<1>8. ASSUME NEW t \in FThread, ReadDir(t) \/ DeleteStep(t) \/ RemoveDirectory(t) PROVE FilesInv'
  BY <1>8, ReadDirKeeps, DeleteStepKeeps, RemoveDirectoryKeeps
<1>9. ASSUME NEW t \in FThread, OpenChooses(t) \/ OpenFopen(t) \/ WriteFile(t) PROVE FilesInv'
  BY <1>9, OpenChoosesKeeps, OpenFopenKeeps, NothingMoves DEF WriteFile
<1>10. ASSUME NEW t \in FThread, Unlink(t) \/ ReopenTemp(t) \/ UnnameTemp(t) \/ TempDirectory(t) \/ DestroyFile(t)
       PROVE  FilesInv'
  BY <1>10, UnlinkKeeps, ReopenTempKeeps, UnnameTempKeeps, TempDirectoryKeeps, DestroyFileKeeps
<1> QED
  BY <1>2, <1>3, <1>4, <1>5, <1>6, <1>7, <1>8, <1>9, <1>10 DEF FilesNext

LEMMA FilesInvIsSound == FilesInv => FilesAreSound
<1> SUFFICES ASSUME FilesInv PROVE FilesAreSound
  OBVIOUS
<1>1. \A t \in FThread : CreateInv(fl_pc[t]) /\ DeleteInv(fl_pc[t]) /\ OpenInv(fl_pc[t]) /\ AnswerInv(fl_pc[t]) /\ TempOf(t)
  BY DEF FilesInv, FileCallsInv, CallInv, TempInv
<1>2. CreateDirIsSound
  BY <1>1 DEF CreateDirIsSound, CreateInv, Did, At
<1>3. DeleteIsSound
  BY <1>1 DEF DeleteIsSound, DeleteInv, Did, At
<1>4. OpenKeepsData
  BY <1>1 DEF OpenKeepsData, OpenInv
<1>5. TempIsOwn
  BY <1>1 DEF TempIsOwn, TempOf
<1>6. OpenIsSound
  BY <1>1 DEF OpenIsSound, AnswerInv, Did, At
<1> QED
  BY <1>2, <1>3, <1>4, <1>5, <1>6 DEF FilesAreSound

(* class File in file_posix.cc, file_win32.cc and file_wince.cc, for any   *)
(* number of threads and operations: RecursivelyCreateDir and              *)
(* DeleteRecursively report what they achieved whatever the other threads  *)
(* do between their system calls; an open answers as its modes ask, with   *)
(* the exceptions OpenAnswers states for POSIX, is refused for a cause,    *)
(* and empties unasked only a file that appeared while it was being        *)
(* opened; and the temporary name is the holder's own.                     *)
THEOREM FilesAreAlwaysSound == FilesSpec => []FilesAreSound
<1>1. FilesInit => FilesInv
  BY FilesStart
<1>2. FilesInv /\ [FilesNext]_fileVars => FilesInv'
  BY FilesKeep
<1>3. FilesInv => FilesAreSound
  BY FilesInvIsSound
<1> QED
  BY <1>1, <1>2, <1>3, PTL DEF FilesSpec

-----------------------------------------------------------------------------
(* Names of database files.  The name of a version tells both: a file name *)
(* is never that of another version, nor of another database.              *)
LEMMA BasenameIs ==
  ASSUME NEW n \in DName, NEW v \in Nat
  PROVE  LET b == Basename(n, v)
         IN  /\ Len(n) \in Nat
             /\ Len(b) = Len(n) + (IF v = 0 THEN 1 ELSE 4)
             /\ \A i \in 1 .. Len(n) : b[i] = n[i]
             /\ b[Len(b)] = IF v = 0 THEN "#database" ELSE "]"
             /\ v # 0 => b[Len(b) - 1] = v
<1>1. Len(n) \in Nat /\ n = [i \in 1 .. Len(n) |-> n[i]]
  BY NamesAssumption
<1> DEFINE S == {n[i] : i \in 1 .. Len(n)} \cup {"#database", "[", "]", v}
<1> DEFINE s == <<"#database">>
<1> DEFINE t == <<"#database", "[", v, "]">>
<1>2. n \in Seq(S)
  BY <1>1
<1>3. s \in Seq(S) /\ t \in Seq(S)
  OBVIOUS
<1>4. Len(s) = 1 /\ Len(t) = 4 /\ s[1] = "#database" /\ t[3] = v /\ t[4] = "]"
  OBVIOUS
<1>5. Basename(n, v) = IF v = 0 THEN n \o s ELSE n \o t
  BY DEF Basename
<1> HIDE DEF S, s, t
<1>6. /\ Len(n \o s) = Len(n) + Len(s) /\ Len(n \o t) = Len(n) + Len(t)
      /\ \A i \in 1 .. Len(n) + Len(s) : (n \o s)[i] = IF i <= Len(n) THEN n[i] ELSE s[i - Len(n)]
      /\ \A i \in 1 .. Len(n) + Len(t) : (n \o t)[i] = IF i <= Len(n) THEN n[i] ELSE t[i - Len(n)]
  BY <1>2, <1>3, ConcatProperties
<1>7. CASE v = 0
  <2>1. Len(n) + 1 \in 1 .. Len(n) + Len(s) /\ ~(Len(n) + 1 <= Len(n)) /\ Len(n) + 1 - Len(n) = 1
    BY <1>1, <1>4
  <2>2. (n \o s)[Len(n) + 1] = "#database"
    BY <1>4, <1>6, <2>1
  <2>3. QED
    BY <1>1, <1>4, <1>5, <1>6, <1>7, <2>2
<1>8. CASE v # 0
  <2>1. /\ Len(n) + 4 \in 1 .. Len(n) + Len(t) /\ ~(Len(n) + 4 <= Len(n)) /\ Len(n) + 4 - Len(n) = 4
        /\ Len(n) + 3 \in 1 .. Len(n) + Len(t) /\ ~(Len(n) + 3 <= Len(n)) /\ Len(n) + 3 - Len(n) = 3
    BY <1>1, <1>4
  <2>2. (n \o t)[Len(n) + 4] = "]" /\ (n \o t)[Len(n) + 3] = v
    BY <1>4, <1>6, <2>1
  <2>3. Len(n) + 4 - 1 = Len(n) + 3
    BY <1>1
  <2>4. QED
    BY <1>1, <1>4, <1>5, <1>6, <1>8, <2>2, <2>3
<1>9. QED
  BY <1>7, <1>8

LEMMA BasenamesDiffer ==
  ASSUME NEW n \in DName, NEW m \in DName, NEW v \in Nat, NEW w \in Nat, Basename(n, v) = Basename(m, w)
  PROVE  n = m /\ v = w
<1> DEFINE b == Basename(n, v)
<1> DEFINE c == Basename(m, w)
<1>1. /\ Len(n) \in Nat /\ Len(b) = Len(n) + (IF v = 0 THEN 1 ELSE 4)
      /\ \A i \in 1 .. Len(n) : b[i] = n[i]
      /\ b[Len(b)] = IF v = 0 THEN "#database" ELSE "]"
      /\ v # 0 => b[Len(b) - 1] = v
  BY BasenameIs
<1>2. /\ Len(m) \in Nat /\ Len(c) = Len(m) + (IF w = 0 THEN 1 ELSE 4)
      /\ \A i \in 1 .. Len(m) : c[i] = m[i]
      /\ c[Len(c)] = IF w = 0 THEN "#database" ELSE "]"
      /\ w # 0 => c[Len(c) - 1] = w
  BY BasenameIs
<1>3. b = c
  OBVIOUS
<1> HIDE DEF b, c
<1>4. v = 0 <=> w = 0
  BY <1>1, <1>2, <1>3
<1>5. v = w
  BY <1>1, <1>2, <1>3, <1>4
<1>6. Len(n) = Len(m)
  BY <1>1, <1>2, <1>3, <1>4
<1>7. \A i \in 1 .. Len(n) : n[i] = m[i]
  BY <1>1, <1>2, <1>3, <1>6
<1>8. n = [i \in 1 .. Len(n) |-> n[i]] /\ m = [i \in 1 .. Len(m) |-> m[i]]
  BY NamesAssumption
<1>9. n = m
  BY <1>6, <1>7, <1>8
<1>10. QED
  BY <1>5, <1>9

(* The rows: one for each version of a database, at most one of them live. *)
BaseName == {Basename(n, v) : n \in DName, v \in Nat}
NameRow == [origin : DOrigin, name : DName, version : Nat, base : BaseName, deleted : BOOLEAN]

RowsInv(rows) ==
  /\ rows \subseteq NameRow
  /\ \A r \in rows : r.base = Basename(r.name, r.version)
  /\ \E k \in Nat : \A r \in rows : r.version <= k
  /\ \A r, q \in rows : r.origin = q.origin /\ r.name = q.name /\ r.version = q.version => r = q
  /\ \A r, q \in rows : r.origin = q.origin /\ r.name = q.name /\ ~r.deleted /\ ~q.deleted => r = q

LEMMA OneRowPerFile ==
  ASSUME NEW rows, RowsInv(rows), NEW r \in rows, NEW q \in rows, r.origin = q.origin, r.base = q.base
  PROVE  r = q
<1>1. r \in NameRow /\ q \in NameRow /\ r.base = Basename(r.name, r.version) /\ q.base = Basename(q.name, q.version)
  BY DEF RowsInv
<1>2. r.name \in DName /\ q.name \in DName /\ r.version \in Nat /\ q.version \in Nat
  BY <1>1 DEF NameRow
<1>3. Basename(r.name, r.version) = Basename(q.name, q.version)
  BY <1>1
<1>4. r.name = q.name /\ r.version = q.version
  BY <1>2, <1>3, BasenamesDiffer
<1>5. QED
  BY <1>4 DEF RowsInv

(* What a thread works on.  A file it was told of has a row, one it is to  *)
(* remove has a row that is deleted, and one it uses is there or deleted.  *)
NameStep == {"idle", "looked", "named", "open", "select", "remove"}
NameWork == [at : NameStep, origin : DOrigin \cup {0}, name : DName \cup {<<>>},
             base : BaseName \cup {<<>>}, left : SUBSET BaseName]

WorkOk(w, rows, files) ==
  /\ w.at = "looked" => w.origin \in DOrigin /\ w.name \in DName
  /\ w.at \in {"named", "open"} => \E r \in rows : r.origin = w.origin /\ r.base = w.base
  /\ w.at = "remove" => \A b \in w.left : \E r \in rows : r.origin = w.origin /\ r.base = b /\ r.deleted
  /\ w.at = "open" => \/ <<w.origin, w.base>> \in files
                      \/ \A r \in rows : r.origin = w.origin /\ r.base = w.base => r.deleted

NamesInv ==
  /\ RowsInv(dn_rows)
  /\ NeverRefused
  /\ dn_thread \in [DThread -> NameWork]
  /\ \A t \in DThread : WorkOk(dn_thread[t], dn_rows, dn_files)

(* A step of thread t that disturbs no other. *)
LEMMA NamesMove ==
  ASSUME NamesInv, NEW t \in DThread, NEW next \in NameWork, Goes(t, next),
         RowsInv(dn_rows'), dn_refused' = FALSE,
         WorkOk(next, dn_rows', dn_files'),
         \A w \in NameWork : WorkOk(w, dn_rows, dn_files) => WorkOk(w, dn_rows', dn_files')
  PROVE  NamesInv'
<1>1. dn_thread' = [dn_thread EXCEPT ![t] = next]
  BY DEF Goes
<1>2. dn_thread' \in [DThread -> NameWork] /\ dn_thread'[t] = next
  BY <1>1 DEF NamesInv
<1>3. ASSUME NEW u \in DThread PROVE WorkOk(dn_thread'[u], dn_rows', dn_files')
  <2>1. CASE u = t
    BY <1>2, <2>1
  <2>2. CASE u # t
    <3>1. dn_thread'[u] = dn_thread[u] /\ dn_thread[u] \in NameWork /\ WorkOk(dn_thread[u], dn_rows, dn_files)
      BY <1>1, <2>2 DEF NamesInv
    <3>2. QED
      BY <3>1
  <2>3. QED
    BY <2>1, <2>2
<1>4. QED
  BY <1>2, <1>3 DEF NamesInv, NeverRefused

LEMMA NamesStay ==
  ASSUME NamesInv, NEW t \in DThread, NEW next \in NameWork, Goes(t, next),
         UNCHANGED <<dn_rows, dn_files, dn_refused>>, WorkOk(next, dn_rows, dn_files)
  PROVE  NamesInv'
<1>1. RowsInv(dn_rows') /\ dn_refused' = FALSE
  BY DEF NamesInv, NeverRefused
<1>2. \A w : WorkOk(w, dn_rows', dn_files') <=> WorkOk(w, dn_rows, dn_files)
  OBVIOUS
<1>3. QED
  BY <1>1, <1>2, NamesMove

LEMMA IdleIs == Idle \in NameWork /\ Idle.at = "idle" /\ \A rows, files : WorkOk(Idle, rows, files)
BY DEF Idle, NameWork, NameStep, WorkOk

(* Rows that are marked as deleted. *)
LEMMA MarkedRows ==
  ASSUME NEW sub \in SUBSET dn_rows, RowsInv(dn_rows)
  PROVE  /\ RowsInv(Deleted(sub))
         /\ \A files : \A w \in NameWork : WorkOk(w, dn_rows, files) => WorkOk(w, Deleted(sub), files)
         /\ \A r \in sub : \E q \in Deleted(sub) : q.origin = r.origin /\ q.base = r.base /\ q.deleted
<1> DEFINE mark(r) == IF r \in sub THEN [r EXCEPT !.deleted = TRUE] ELSE r
<1>1. Deleted(sub) = {mark(r) : r \in dn_rows}
  BY DEF Deleted
<1>2. \A r \in dn_rows :
        /\ mark(r) \in NameRow /\ mark(r).origin = r.origin /\ mark(r).name = r.name
        /\ mark(r).version = r.version /\ mark(r).base = r.base
        /\ (mark(r).deleted <=> r.deleted \/ r \in sub)
  BY DEF RowsInv, NameRow
<1> HIDE DEF mark
<1>3. RowsInv(Deleted(sub))
  <2>1. Deleted(sub) \subseteq NameRow /\ \A r \in Deleted(sub) : r.base = Basename(r.name, r.version)
    BY <1>1, <1>2 DEF RowsInv
  <2>2. \E k \in Nat : \A r \in Deleted(sub) : r.version <= k
    BY <1>1, <1>2 DEF RowsInv
  <2>3. \A r, q \in Deleted(sub) : r.origin = q.origin /\ r.name = q.name /\ r.version = q.version => r = q
    BY <1>1, <1>2 DEF RowsInv
  <2>4. \A r, q \in Deleted(sub) : r.origin = q.origin /\ r.name = q.name /\ ~r.deleted /\ ~q.deleted => r = q
    BY <1>1, <1>2 DEF RowsInv
  <2>5. QED
    BY <2>1, <2>2, <2>3, <2>4 DEF RowsInv
<1>4. ASSUME NEW w \in NameWork, NEW files, WorkOk(w, dn_rows, files) PROVE WorkOk(w, Deleted(sub), files)
  BY <1>1, <1>2, <1>4 DEF WorkOk
<1>5. \A r \in sub : \E q \in Deleted(sub) : q.origin = r.origin /\ q.base = r.base /\ q.deleted
  <2>1. SUFFICES ASSUME NEW r \in sub PROVE \E q \in Deleted(sub) : q.origin = r.origin /\ q.base = r.base /\ q.deleted
    OBVIOUS
  <2>2. r \in dn_rows /\ mark(r) \in Deleted(sub)
    BY <1>1
  <2>3. QED
    BY <1>2, <2>2
<1>6. QED
  BY <1>3, <1>4, <1>5

(* The next version is new. *)
LEMMA NextVersionIsNew ==
  ASSUME RowsInv(dn_rows), NEW o, NEW n
  PROVE  /\ NextVersionHelper(o, n) \in Nat
         /\ \A r \in dn_rows : r.origin = o /\ r.name = n => r.version < NextVersionHelper(o, n)
<1> DEFINE versions == {r.version : r \in {q \in dn_rows : q.origin = o /\ q.name = n}}
<1>1. versions \subseteq Nat
  BY DEF RowsInv, NameRow
<1>2. PICK k \in Nat : \A v \in versions : v <= k
  BY DEF RowsInv
<1>3. NextVersionHelper(o, n) = IF versions = {} THEN 0 ELSE Max(versions) + 1
  BY DEF NextVersionHelper
<1>4. \A r \in dn_rows : r.origin = o /\ r.name = n => r.version \in versions
  OBVIOUS
<1> HIDE DEF versions
<1>5. ASSUME versions # {} PROVE Max(versions) \in versions /\ \A v \in versions : v <= Max(versions)
  <2> DEFINE above == {m \in Nat : \A v \in versions : v <= m}
  <2> DEFINE R == OpToRel(<, Nat)
  <2>1. above \subseteq Nat /\ above # {}
    BY <1>2
  <2>2. PICK m \in above : \A j \in above : <<j, m>> \notin R
    BY <2>1, NatLessThanWellFounded, WFMin
  <2>3. m \in Nat /\ (\A v \in versions : v <= m)
    OBVIOUS
  <2>4. \A j \in Nat : j < m => ~ \A v \in versions : v <= j
    <3>1. SUFFICES ASSUME NEW j \in Nat, j < m, \A v \in versions : v <= j PROVE FALSE
      OBVIOUS
    <3>2. j \in above
      BY <3>1
    <3>3. QED
      BY <2>2, <2>3, <3>1, <3>2 DEF OpToRel
  <2>5. m \in versions
    <3>1. SUFFICES ASSUME m \notin versions PROVE FALSE
      OBVIOUS
    <3>2. PICK v \in versions : TRUE
      BY <1>5
    <3>3. m - 1 \in Nat /\ m - 1 < m
      BY <1>1, <2>3, <3>1, <3>2
    <3>4. \A x \in versions : x <= m - 1
      BY <1>1, <2>3, <3>1
    <3>5. QED
      BY <2>4, <3>3, <3>4
  <2> HIDE DEF above, R
  <2>6. \A y \in versions : m >= y
    BY <1>1, <2>3
  <2>7. /\ Max(versions) \in versions
        /\ \A y \in versions : Max(versions) >= y
    BY <2>5, <2>6 DEF Max
  <2>8. QED
    BY <1>1, <2>7
<1>6. CASE versions = {}
  BY <1>3, <1>4, <1>6
<1>7. CASE versions # {}
  <2> DEFINE top == Max(versions)
  <2>1. top \in Nat /\ (\A v \in versions : v \in Nat /\ v <= top) /\ NextVersionHelper(o, n) = top + 1
    BY <1>1, <1>3, <1>5, <1>7
  <2> HIDE DEF top
  <2>2. QED
    BY <1>4, <2>1
<1>8. QED
  BY <1>6, <1>7

LEMMA InsertKeeps ==
  ASSUME NamesInv, NEW t \in DThread, dn_thread[t].at = "looked",
         NEW o, o = dn_thread[t].origin, NEW n, n = dn_thread[t].name,
         BasenameHelper(o, n) = {}, InsertHelper(t, o, n, NextVersionHelper(o, n)), UNCHANGED dn_files
  PROVE  NamesInv'
<1> DEFINE v == NextVersionHelper(o, n)
<1> DEFINE row == [origin |-> o, name |-> n, version |-> v, base |-> Basename(n, v), deleted |-> FALSE]
<1> DEFINE next == [dn_thread[t] EXCEPT !.at = "named", !.base = row.base]
<1>1. RowsInv(dn_rows) /\ dn_thread[t] \in NameWork /\ WorkOk(dn_thread[t], dn_rows, dn_files)
  BY DEF NamesInv
<1>2. o \in DOrigin /\ n \in DName
  BY <1>1 DEF WorkOk
<1>3. v \in Nat /\ \A r \in dn_rows : r.origin = o /\ r.name = n => r.version < v
  BY <1>1, NextVersionIsNew
<1>4. \A r \in dn_rows : r.origin = o /\ r.name = n => r.deleted
  BY DEF BasenameHelper
<1>5. ~ \E r \in dn_rows : r.origin = o /\ (r.base = row.base \/ (r.name = n /\ r.version = v))
  <2>1. SUFFICES ASSUME NEW r \in dn_rows, r.origin = o, r.base = Basename(n, v) \/ (r.name = n /\ r.version = v)
                 PROVE  FALSE
    OBVIOUS
  <2>2. r \in NameRow /\ r.base = Basename(r.name, r.version)
    BY <1>1 DEF RowsInv
  <2>3. r.name \in DName /\ r.version \in Nat
    BY <2>2 DEF NameRow
  <2>4. r.name = n /\ r.version = v
    BY <1>2, <1>3, <2>1, <2>2, <2>3, BasenamesDiffer
  <2>5. QED
    BY <1>3, <2>1, <2>3, <2>4
<1>6. dn_rows' = dn_rows \cup {row} /\ Goes(t, next) /\ dn_refused' = dn_refused
  BY <1>5 DEF InsertHelper
<1>7. row \in NameRow /\ row.base \in BaseName
  BY <1>2, <1>3 DEF NameRow, BaseName
<1>8. /\ row.origin = o /\ row.name = n /\ row.version = v /\ row.base = Basename(n, v) /\ ~row.deleted
  OBVIOUS
<1>9. next \in NameWork /\ next.at = "named" /\ next.origin = o /\ next.base = row.base
  BY <1>1, <1>7 DEF NameWork, NameStep
<1> HIDE DEF row, next, v
<1>10. RowsInv(dn_rows')
  <2>1. dn_rows' \subseteq NameRow /\ \A r \in dn_rows' : r.base = Basename(r.name, r.version)
    BY <1>1, <1>6, <1>7, <1>8 DEF RowsInv
  <2>2. \E k \in Nat : \A r \in dn_rows' : r.version <= k
    <3>1. PICK k \in Nat : \A r \in dn_rows : r.version <= k
      BY <1>1 DEF RowsInv
    <3>2. \A r \in dn_rows : r.version \in Nat
      BY <1>1 DEF RowsInv, NameRow
    <3>3. k + v \in Nat /\ \A r \in dn_rows' : r.version <= k + v
      BY <1>3, <1>6, <1>8, <3>1, <3>2
    <3>4. QED
      BY <3>3
  <2>3. \A r, q \in dn_rows' : r.origin = q.origin /\ r.name = q.name /\ r.version = q.version => r = q
    BY <1>1, <1>5, <1>6, <1>8 DEF RowsInv
  <2>4. \A r, q \in dn_rows' : r.origin = q.origin /\ r.name = q.name /\ ~r.deleted /\ ~q.deleted => r = q
    BY <1>1, <1>4, <1>6, <1>8 DEF RowsInv
  <2>5. QED
    BY <2>1, <2>2, <2>3, <2>4 DEF RowsInv
<1>11. WorkOk(next, dn_rows', dn_files')
  BY <1>6, <1>8, <1>9 DEF WorkOk
<1>12. ASSUME NEW w \in NameWork, WorkOk(w, dn_rows, dn_files) PROVE WorkOk(w, dn_rows', dn_files')
  <2>1. w.at = "open" => ~(row.origin = w.origin /\ row.base = w.base)
    BY <1>5, <1>8, <1>12 DEF WorkOk
  <2>2. QED
    BY <1>6, <1>12, <2>1 DEF WorkOk
<1>13. dn_refused' = FALSE
  BY <1>6 DEF NamesInv, NeverRefused
<1>14. QED
  BY <1>6, <1>9, <1>10, <1>11, <1>12, <1>13, NamesMove

(* A thread is given the file of a live row. *)
LEMMA LookKeeps ==
  ASSUME NamesInv, NEW t \in DThread, NEW o \in DOrigin, NEW n \in DName,
         UNCHANGED <<dn_rows, dn_files, dn_refused>>
  PROVE  /\ \A r \in BasenameHelper(o, n) :
              Goes(t, [Idle EXCEPT !.at = "named", !.origin = o, !.name = n, !.base = r.base]) => NamesInv'
         /\ Goes(t, Idle) => NamesInv'
         /\ Goes(t, [Idle EXCEPT !.at = "looked", !.origin = o, !.name = n]) => NamesInv'
<1>1. ASSUME NEW r \in BasenameHelper(o, n),
             Goes(t, [Idle EXCEPT !.at = "named", !.origin = o, !.name = n, !.base = r.base])
      PROVE  NamesInv'
  <2> DEFINE next == [Idle EXCEPT !.at = "named", !.origin = o, !.name = n, !.base = r.base]
  <2>1. r \in dn_rows /\ r.origin = o /\ r \in NameRow
    BY DEF BasenameHelper, NamesInv, RowsInv
  <2>2. r.base \in BaseName
    BY <2>1 DEF NameRow
  <2>3. next \in NameWork /\ next.at = "named" /\ next.origin = o /\ next.base = r.base
    BY <2>2, IdleIs DEF NameWork, NameStep
  <2>4. WorkOk(next, dn_rows, dn_files)
    BY <2>1, <2>3 DEF WorkOk
  <2> HIDE DEF next
  <2>5. QED
    BY <1>1, <2>3, <2>4, NamesStay DEF next
<1>2. ASSUME Goes(t, Idle) PROVE NamesInv'
  BY <1>2, IdleIs, NamesStay
<1>3. ASSUME Goes(t, [Idle EXCEPT !.at = "looked", !.origin = o, !.name = n]) PROVE NamesInv'
  <2> DEFINE next == [Idle EXCEPT !.at = "looked", !.origin = o, !.name = n]
  <2>1. next \in NameWork /\ next.at = "looked" /\ next.origin = o /\ next.name = n
    BY IdleIs DEF NameWork, NameStep
  <2>2. WorkOk(next, dn_rows, dn_files)
    BY <2>1 DEF WorkOk
  <2> HIDE DEF next
  <2>3. QED
    BY <1>3, <2>1, <2>2, NamesStay DEF next
<1>4. QED
  BY <1>1, <1>2, <1>3

LEMMA BasenameKeeps ==
  ASSUME NamesInv, NEW t \in DThread
  PROVE  /\ \A o \in DOrigin, n \in DName : LookForBasename(t, o, n) => NamesInv'
         /\ AddBasename(t) => NamesInv'
<1>1. ASSUME NEW o \in DOrigin, NEW n \in DName, LookForBasename(t, o, n) PROVE NamesInv'
  <2>1. UNCHANGED <<dn_rows, dn_files, dn_refused>>
    BY <1>1 DEF LookForBasename, Resolve
  <2>2. \/ \E r \in BasenameHelper(o, n) :
             Goes(t, [Idle EXCEPT !.at = "named", !.origin = o, !.name = n, !.base = r.base])
        \/ Goes(t, Idle)
        \/ Goes(t, [Idle EXCEPT !.at = "looked", !.origin = o, !.name = n])
    BY <1>1 DEF LookForBasename, Resolve
  <2>3. QED
    BY <2>1, <2>2, LookKeeps
<1>2. ASSUME AddBasename(t) PROVE NamesInv'
  <2> DEFINE o == dn_thread[t].origin
  <2> DEFINE n == dn_thread[t].name
  <2>1. dn_thread[t].at = "looked" /\ UNCHANGED dn_files
    BY <1>2 DEF AddBasename
  <2>2. o \in DOrigin /\ n \in DName
    BY <2>1 DEF NamesInv, WorkOk
  <2>3. \/ /\ UNCHANGED <<dn_rows, dn_refused>>
           /\ \/ \E r \in BasenameHelper(o, n) :
                   Goes(t, [Idle EXCEPT !.at = "named", !.origin = o, !.name = n, !.base = r.base])
              \/ Goes(t, Idle)
        \/ BasenameHelper(o, n) = {} /\ InsertHelper(t, o, n, NextVersionHelper(o, n))
    BY <1>2 DEF AddBasename, Resolve
  <2> HIDE DEF o, n
  <2>4. CASE UNCHANGED <<dn_rows, dn_refused>> /\
             (\/ \E r \in BasenameHelper(o, n) :
                   Goes(t, [Idle EXCEPT !.at = "named", !.origin = o, !.name = n, !.base = r.base])
              \/ Goes(t, Idle))
    BY <2>1, <2>2, <2>4, LookKeeps
  <2>5. CASE BasenameHelper(o, n) = {} /\ InsertHelper(t, o, n, NextVersionHelper(o, n))
    BY <2>1, <2>5, InsertKeeps DEF o, n
  <2>6. QED
    BY <2>3, <2>4, <2>5
<1>3. QED
  BY <1>1, <1>2

LEMMA OpenKeeps ==
  ASSUME NamesInv, NEW t \in DThread
  PROVE  /\ OpenDatabase(t) => NamesInv'
         /\ CloseDatabase(t) => NamesInv'
<1>1. ASSUME OpenDatabase(t) PROVE NamesInv'
  <2> DEFINE w == dn_thread[t]
  <2> DEFINE next == [w EXCEPT !.at = "open"]
  <2>1. /\ w.at = "named" /\ dn_files' = dn_files \cup {<<w.origin, w.base>>} /\ Goes(t, next)
        /\ UNCHANGED <<dn_rows, dn_refused>>
    BY <1>1 DEF OpenDatabase
  <2>2. w \in NameWork /\ WorkOk(w, dn_rows, dn_files) /\ RowsInv(dn_rows') /\ dn_refused' = FALSE
    BY <2>1 DEF NamesInv, NeverRefused
  <2>3. next \in NameWork /\ next.at = "open" /\ next.origin = w.origin /\ next.base = w.base
    BY <2>2 DEF NameWork, NameStep
  <2>4. WorkOk(next, dn_rows', dn_files')
    BY <2>1, <2>2, <2>3 DEF WorkOk
  <2>5. \A x \in NameWork : WorkOk(x, dn_rows, dn_files) => WorkOk(x, dn_rows', dn_files')
    BY <2>1 DEF WorkOk
  <2> HIDE DEF next, w
  <2>6. QED
    BY <2>1, <2>2, <2>3, <2>4, <2>5, NamesMove
<1>2. ASSUME CloseDatabase(t) PROVE NamesInv'
  BY <1>2, IdleIs, NamesStay DEF CloseDatabase
<1>3. QED
  BY <1>1, <1>2

LEMMA DeletesKeep ==
  ASSUME NamesInv, NEW t \in DThread
  PROVE  /\ MarkDatabaseCorrupt(t) => NamesInv'
         /\ DeleteDatabase(t) => NamesInv'
         /\ \A o \in DOrigin : MarkForOrigin(t, o) => NamesInv'
<1>1. RowsInv(dn_rows) /\ dn_refused = FALSE
  BY DEF NamesInv, NeverRefused
<1>2. ASSUME NEW sub \in SUBSET dn_rows, dn_rows' = Deleted(sub), UNCHANGED <<dn_files, dn_refused>>,
             NEW next \in NameWork, Goes(t, next), WorkOk(next, dn_rows', dn_files')
      PROVE  NamesInv'
  <2>1. RowsInv(dn_rows') /\ dn_refused' = FALSE
    BY <1>1, <1>2, MarkedRows
  <2>2. \A w \in NameWork : WorkOk(w, dn_rows, dn_files) => WorkOk(w, dn_rows', dn_files')
    BY <1>1, <1>2, MarkedRows
  <2>3. QED
    BY <1>2, <2>1, <2>2, NamesMove
<1>3. ASSUME MarkDatabaseCorrupt(t) PROVE NamesInv'
  <2> DEFINE sub == {r \in dn_rows : r.origin = dn_thread[t].origin /\ r.name = dn_thread[t].name
                                       /\ r.base = dn_thread[t].base}
  <2>1. dn_rows' = Deleted(sub) /\ UNCHANGED <<dn_files, dn_refused>> /\ Goes(t, Idle)
    BY <1>3 DEF MarkDatabaseCorrupt
  <2>2. sub \in SUBSET dn_rows
    OBVIOUS
  <2> HIDE DEF sub
  <2>3. QED
    BY <1>2, <2>1, <2>2, IdleIs
<1>4. ASSUME DeleteDatabase(t) PROVE NamesInv'
  <2>1. PICK r \in dn_rows :
          /\ dn_rows' = Deleted({q \in dn_rows : q.origin = r.origin /\ q.base = r.base})
          /\ Goes(t, [Idle EXCEPT !.at = "remove", !.origin = r.origin, !.left = {r.base}])
    BY <1>4 DEF DeleteDatabase
  <2> DEFINE sub == {q \in dn_rows : q.origin = r.origin /\ q.base = r.base}
  <2> DEFINE next == [Idle EXCEPT !.at = "remove", !.origin = r.origin, !.left = {r.base}]
  <2>2. UNCHANGED <<dn_files, dn_refused>> /\ r \in NameRow
    BY <1>1, <1>4 DEF DeleteDatabase, RowsInv
  <2>3. r.origin \in DOrigin /\ r.base \in BaseName
    BY <2>2 DEF NameRow
  <2>4. next \in NameWork /\ next.at = "remove" /\ next.origin = r.origin /\ next.left = {r.base}
    BY <2>3, IdleIs DEF NameWork, NameStep
  <2>5. sub \in SUBSET dn_rows /\ r \in sub
    OBVIOUS
  <2>6. dn_rows' = Deleted(sub) /\ Goes(t, next)
    BY <2>1
  <2> HIDE DEF sub, next
  <2>7. \E q \in dn_rows' : q.origin = r.origin /\ q.base = r.base /\ q.deleted
    BY <1>1, <2>5, <2>6, MarkedRows
  <2>8. WorkOk(next, dn_rows', dn_files')
    BY <2>4, <2>7 DEF WorkOk
  <2>9. QED
    BY <1>2, <2>2, <2>4, <2>5, <2>6, <2>8
<1>5. ASSUME NEW o \in DOrigin, MarkForOrigin(t, o) PROVE NamesInv'
  <2> DEFINE sub == {r \in dn_rows : r.origin = o}
  <2> DEFINE next == [Idle EXCEPT !.at = "select", !.origin = o]
  <2>1. next \in NameWork /\ next.at = "select"
    BY IdleIs DEF NameWork, NameStep
  <2>2. \A rows, files : WorkOk(next, rows, files)
    BY <2>1 DEF WorkOk
  <2>3. (dn_rows' = Deleted(sub) \/ UNCHANGED dn_rows) /\ Goes(t, next) /\ UNCHANGED <<dn_files, dn_refused>>
    BY <1>5 DEF MarkForOrigin
  <2>4. sub \in SUBSET dn_rows
    OBVIOUS
  <2> HIDE DEF sub, next
  <2>5. QED
    BY <1>2, <2>1, <2>2, <2>3, <2>4, NamesStay
<1>6. QED
  BY <1>3, <1>4, <1>5

(* Only files whose row is deleted are removed. *)
LEMMA RemovesKeep ==
  ASSUME NamesInv, NEW t \in DThread
  PROVE  /\ SelectForOrigin(t) => NamesInv'
         /\ RemoveFile(t) => NamesInv'
<1> DEFINE w == dn_thread[t]
<1>1. RowsInv(dn_rows) /\ dn_refused = FALSE /\ w \in NameWork /\ WorkOk(w, dn_rows, dn_files)
  BY DEF NamesInv, NeverRefused
<1>2. ASSUME SelectForOrigin(t) PROVE NamesInv'
  <2> DEFINE left == {r.base : r \in {q \in dn_rows : q.origin = w.origin /\ q.deleted}}
  <2> DEFINE next == [w EXCEPT !.at = "remove", !.left = left]
  <2>1. Goes(t, next) /\ UNCHANGED <<dn_rows, dn_files, dn_refused>>
    BY <1>2 DEF SelectForOrigin
  <2>2. left \subseteq BaseName
    BY <1>1 DEF RowsInv, NameRow
  <2>3. \A b \in left : \E r \in dn_rows : r.origin = w.origin /\ r.base = b /\ r.deleted
    OBVIOUS
  <2> HIDE DEF left
  <2>4. next \in NameWork /\ next.at = "remove" /\ next.origin = w.origin /\ next.left = left
    BY <1>1, <2>2 DEF NameWork, NameStep
  <2>5. WorkOk(next, dn_rows, dn_files)
    BY <2>3, <2>4 DEF WorkOk
  <2> HIDE DEF next, w
  <2>6. QED
    BY <2>1, <2>4, <2>5, NamesStay
<1>3. ASSUME RemoveFile(t) PROVE NamesInv'
  <2>1. w.at = "remove" /\ UNCHANGED <<dn_rows, dn_refused>>
    BY <1>3 DEF RemoveFile
  <2>2. CASE Goes(t, Idle) /\ UNCHANGED dn_files
    BY <2>1, <2>2, IdleIs, NamesStay
  <2>3. ASSUME NEW b \in w.left, Goes(t, [w EXCEPT !.left = @ \ {b}]),
               dn_files' = dn_files \ {<<w.origin, b>>} \/ UNCHANGED dn_files
        PROVE  NamesInv'
    <3> DEFINE next == [w EXCEPT !.left = @ \ {b}]
    <3>1. next \in NameWork /\ next.at = "remove" /\ next.origin = w.origin /\ next.left = w.left \ {b}
      BY <1>1, <2>1 DEF NameWork
    <3>2. PICK r \in dn_rows : r.origin = w.origin /\ r.base = b /\ r.deleted
      BY <1>1, <2>1, <2>3 DEF WorkOk
    <3>3. WorkOk(next, dn_rows', dn_files')
      BY <1>1, <2>1, <3>1 DEF WorkOk
    <3>4. \A q \in dn_rows : q.origin = w.origin /\ q.base = b => q.deleted
      BY <1>1, <3>2, OneRowPerFile
    <3>5. ASSUME NEW x \in NameWork, WorkOk(x, dn_rows, dn_files) PROVE WorkOk(x, dn_rows', dn_files')
      <4>1. CASE <<x.origin, x.base>> = <<w.origin, b>>
        <5>1. x.origin = w.origin /\ x.base = b
          BY <4>1
        <5>2. QED
          BY <2>1, <3>4, <3>5, <5>1 DEF WorkOk
      <4>2. CASE <<x.origin, x.base>> # <<w.origin, b>>
        BY <2>1, <2>3, <3>5, <4>2 DEF WorkOk
      <4>3. QED
        BY <4>1, <4>2
    <3>6. Goes(t, next) /\ RowsInv(dn_rows') /\ dn_refused' = FALSE
      BY <1>1, <2>1, <2>3
    <3> HIDE DEF next, w
    <3>7. QED
      BY <3>1, <3>3, <3>5, <3>6, NamesMove
  <2>4. QED
    BY <1>3, <2>2, <2>3 DEF RemoveFile
<1>4. QED
  BY <1>2, <1>3

LEMMA NamesKeep == NamesInv /\ [NamesNext]_namesVars => NamesInv'
<1> SUFFICES ASSUME NamesInv, [NamesNext]_namesVars PROVE NamesInv'
  OBVIOUS
<1>1. CASE UNCHANGED namesVars
  BY <1>1 DEF namesVars, NamesInv, NeverRefused
<1>2. CASE NamesNext
  BY <1>2, BasenameKeeps, OpenKeeps, DeletesKeep, RemovesKeep DEF NamesNext
<1>3. QED
  BY <1>1, <1>2

LEMMA NamesStart == NamesInit => NamesInv
<1> SUFFICES ASSUME NamesInit PROVE NamesInv
  OBVIOUS
<1>1. RowsInv(dn_rows)
  BY DEF NamesInit, RowsInv
<1>2. dn_thread \in [DThread -> NameWork] /\ \A t \in DThread : dn_thread[t] = Idle
  BY IdleIs DEF NamesInit
<1>3. QED
  BY <1>1, <1>2, IdleIs DEF NamesInit, NamesInv, NeverRefused

LEMMA NamesInvSound == NamesInv => OneLiveBasename /\ NeverRefused /\ LiveFileStays
BY DEF NamesInv, RowsInv, OneLiveBasename, LiveFileStays, WorkOk

-----------------------------------------------------------------------------
(* The upgrade.  Every row has a name, which no rebuilding of the table    *)
(* touches; a step of the upgrade takes away no table but that of the      *)
(* icons.                                                                  *)
ColumnLists == {<<>>, Columns3, Columns4, Columns5, Columns6}
DbText == {"VersionInfo", "Access", "ScourAccess", "Shortcut", "ShortcutIcon", "DatabaseNames", "Database2s",
           "LocationAccess", "ShortcutID", "Origin", "Name", "AppUrl", "IcoUrl", "Msg", "Allow", "Icon16x16Url",
           "Icon32x32Url", "Icon48x48Url", "Icon128x128Url", "", "1"}
NamedRow == {r \in UNION {[D -> DbText] : D \in SUBSET DbText} : "Name" \in DOMAIN r}
DiskFile == [version : Nat, tables : SUBSET DbText, columns : ColumnLists, rows : SUBSET NamedRow]

HasName(rows) == \E r \in rows : r["Name"] = "Name"

(* A list of columns and what fills them: the third is the name. *)
Selects(columns, select) ==
  /\ DOMAIN columns = 1 .. Len(columns) /\ Range(columns) \subseteq DbText /\ "Name" \in Range(columns)
  /\ \A i \in 1 .. Len(columns) : select[i] \in DbText /\ (columns[i] = "Name" => select[i] = "Name")

Select5 == <<"ShortcutID", "Origin", "Name", "AppUrl", "Msg", "1">>
Select6 == <<"ShortcutID", "Origin", "Name", "", "", "", "", "AppUrl", "Msg", "Allow">>

LEMMA SelectsAre ==
  Selects(Columns4, Columns4) /\ Selects(Columns5, Select5) /\ Selects(Columns6, Select6)
<1>1. Selects(Columns4, Columns4)
  <2>1. Len(Columns4) = 5 /\ DOMAIN Columns4 = 1 .. 5 /\ 1 .. 5 = {1, 2, 3, 4, 5}
    BY DEF Columns4
  <2>2. /\ Columns4[1] = "ShortcutID" /\ Columns4[2] = "Origin" /\ Columns4[3] = "Name"
        /\ Columns4[4] = "AppUrl" /\ Columns4[5] = "Msg"
    BY DEF Columns4
  <2>3. Range(Columns4) = {Columns4[1], Columns4[2], Columns4[3], Columns4[4], Columns4[5]}
    BY <2>1 DEF Range
  <2>4. Range(Columns4) \subseteq DbText /\ "Name" \in Range(Columns4)
    BY <2>2, <2>3 DEF DbText
  <2>5. \A i \in 1 .. 5 : Columns4[i] \in DbText /\ (Columns4[i] = "Name" => Columns4[i] = "Name")
    BY <2>1, <2>2 DEF DbText
  <2>6. QED
    BY <2>1, <2>4, <2>5 DEF Selects
<1>2. Selects(Columns5, Select5)
  <2>1. Len(Columns5) = 6 /\ DOMAIN Columns5 = 1 .. 6 /\ 1 .. 6 = {1, 2, 3, 4, 5, 6}
    BY DEF Columns5
  <2>2. /\ Columns5[1] = "ShortcutID" /\ Columns5[2] = "Origin" /\ Columns5[3] = "Name"
        /\ Columns5[4] = "AppUrl" /\ Columns5[5] = "Msg" /\ Columns5[6] = "Allow"
    BY DEF Columns5
  <2>3. /\ Select5[1] = "ShortcutID" /\ Select5[2] = "Origin" /\ Select5[3] = "Name"
        /\ Select5[4] = "AppUrl" /\ Select5[5] = "Msg" /\ Select5[6] = "1"
    BY DEF Select5
  <2>4. Range(Columns5) = {Columns5[1], Columns5[2], Columns5[3], Columns5[4], Columns5[5], Columns5[6]}
    BY <2>1 DEF Range
  <2>5. Range(Columns5) \subseteq DbText /\ "Name" \in Range(Columns5)
    BY <2>2, <2>4 DEF DbText
  <2>6. \A i \in 1 .. 6 : Select5[i] \in DbText /\ (Columns5[i] = "Name" => Select5[i] = "Name")
    BY <2>1, <2>2, <2>3 DEF DbText
  <2>7. QED
    BY <2>1, <2>5, <2>6 DEF Selects
<1>3. Selects(Columns6, Select6)
  <2>1. Len(Columns6) = 10 /\ DOMAIN Columns6 = 1 .. 10 /\ 1 .. 10 = {1, 2, 3, 4, 5, 6, 7, 8, 9, 10}
    BY DEF Columns6
  <2>2. /\ Columns6[1] = "ShortcutID" /\ Columns6[2] = "Origin" /\ Columns6[3] = "Name"
        /\ Columns6[4] = "AppUrl" /\ Columns6[5] = "Msg" /\ Columns6[6] = "Icon16x16Url"
        /\ Columns6[7] = "Icon32x32Url" /\ Columns6[8] = "Icon48x48Url"
        /\ Columns6[9] = "Icon128x128Url" /\ Columns6[10] = "Allow"
    BY DEF Columns6
  <2>3. /\ Select6[1] = "ShortcutID" /\ Select6[2] = "Origin" /\ Select6[3] = "Name"
        /\ Select6[4] = "" /\ Select6[5] = "" /\ Select6[6] = "" /\ Select6[7] = ""
        /\ Select6[8] = "AppUrl" /\ Select6[9] = "Msg" /\ Select6[10] = "Allow"
    BY DEF Select6
  <2>4. Range(Columns6) = {Columns6[1], Columns6[2], Columns6[3], Columns6[4], Columns6[5], Columns6[6], Columns6[7], Columns6[8], Columns6[9], Columns6[10]}
    BY <2>1 DEF Range
  <2>5. Range(Columns6) \subseteq DbText /\ "Name" \in Range(Columns6)
    BY <2>2, <2>4 DEF DbText
  <2>6. \A i \in 1 .. 10 : Select6[i] \in DbText /\ (Columns6[i] = "Name" => Select6[i] = "Name")
    BY <2>1, <2>2, <2>3 DEF DbText
  <2>7. QED
    BY <2>1, <2>5, <2>6 DEF Selects
<1>4. QED
  BY <1>1, <1>2, <1>3

LEMMA InsertSelectIs ==
  ASSUME NEW columns, NEW select, Selects(columns, select), NEW row \in NamedRow
  PROVE  /\ InsertSelect(columns, select, row) \in NamedRow
         /\ InsertSelect(columns, select, row)["Name"] = row["Name"]
<1> DEFINE at(c) == CHOOSE i \in 1 .. Len(columns) : columns[i] = c
<1> DEFINE new == InsertSelect(columns, select, row)
<1>1. \A c \in Range(columns) : at(c) \in 1 .. Len(columns) /\ columns[at(c)] = c /\ select[at(c)] \in DbText
  <2> SUFFICES ASSUME NEW c \in Range(columns)
               PROVE  at(c) \in 1 .. Len(columns) /\ columns[at(c)] = c /\ select[at(c)] \in DbText
    OBVIOUS
  <2>1. \E i \in 1 .. Len(columns) : columns[i] = c
    BY DEF Selects, Range
  <2>2. at(c) \in 1 .. Len(columns) /\ columns[at(c)] = c
    BY <2>1
  <2> HIDE DEF at
  <2>3. QED
    BY <2>2 DEF Selects
<1>2. PICK D \in SUBSET DbText : row \in [D -> DbText] /\ "Name" \in D
  BY DEF NamedRow
<1>3. new = [c \in Range(columns) |-> IF select[at(c)] \in DOMAIN row THEN row[select[at(c)]] ELSE select[at(c)]]
  BY DEF InsertSelect
<1>4. select[at("Name")] = "Name"
  BY <1>1 DEF Selects
<1> HIDE DEF at
<1>5. new \in [Range(columns) -> DbText]
  BY <1>1, <1>2, <1>3
<1>6. new["Name"] = row["Name"]
  BY <1>2, <1>3, <1>4 DEF Selects
<1> HIDE DEF new
<1>7. new \in NamedRow
  BY <1>5 DEF NamedRow, Selects
<1>8. QED
  BY <1>6, <1>7 DEF new

LEMMA RebuiltIs ==
  ASSUME NEW columns \in ColumnLists, NEW select, Selects(columns, select), NEW d \in DiskFile
  PROVE  LET e == Rebuilt(d, columns, select)
         IN  /\ e \in DiskFile /\ e.columns = columns /\ e.tables = d.tables
             /\ HasName(d.rows) => HasName(e.rows)
<1> DEFINE rows == {InsertSelect(columns, select, r) : r \in d.rows}
<1>1. d.rows \subseteq NamedRow
  BY DEF DiskFile
<1>2. rows \subseteq NamedRow
  BY <1>1, InsertSelectIs
<1>3. HasName(d.rows) => HasName(rows)
  BY <1>1, InsertSelectIs DEF HasName
<1>4. Rebuilt(d, columns, select) = [d EXCEPT !.columns = columns, !.rows = rows]
  BY DEF Rebuilt
<1> HIDE DEF rows
<1>5. QED
  BY <1>2, <1>3, <1>4 DEF DiskFile

(* One case of the switch. *)
StepIs(v, d, e) ==
  /\ e \in DiskFile
  /\ d.tables \ {"ShortcutIcon"} \subseteq e.tables
  /\ HasName(d.rows) => HasName(e.rows)
  /\ v = 3 => "Shortcut" \in e.tables
  /\ v = 6 => e.columns = Columns6
  /\ v \in {2, 7, 8, 9} => e.columns = d.columns
  /\ v = 7 => "DatabaseNames" \in e.tables
  /\ v = 8 => "Database2s" \in e.tables
  /\ v = 9 => "LocationAccess" \in e.tables

LEMMA UpgradeToIs ==
  ASSUME NEW d \in DiskFile, NEW v \in 2 .. 9
  PROVE  StepIs(v, d, UpgradeTo(v, d))
<1> USE DEF StepIs
<1>1. /\ d.tables \subseteq DbText /\ d.rows \subseteq NamedRow
      /\ Columns3 \in ColumnLists /\ Columns4 \in ColumnLists /\ Columns5 \in ColumnLists /\ Columns6 \in ColumnLists
  BY DEF DiskFile, ColumnLists
<1>2. CASE v = 2
  BY <1>2 DEF UpgradeTo
<1>3. CASE v = 3
  <2>1. UpgradeTo(v, d) = [d EXCEPT !.tables = @ \cup {"Shortcut"}, !.columns = Columns3]
    BY <1>3 DEF UpgradeTo, UpgradeToVersion3
  <2>2. d.tables \cup {"Shortcut"} \in SUBSET DbText
    BY <1>1 DEF DbText
  <2> DEFINE e == UpgradeTo(v, d)
  <2>3. e \in DiskFile
    BY <1>1, <2>1, <2>2 DEF DiskFile
  <2>4. e.tables = d.tables \cup {"Shortcut"} /\ e.columns = Columns3 /\ e.rows = d.rows
    BY <2>1 DEF DiskFile
  <2> HIDE DEF e
  <2>5. StepIs(v, d, e)
    BY <1>3, <2>3, <2>4
  <2>6. QED
    BY <2>5 DEF e
<1>4. CASE v = 4
  <2> DEFINE e == Rebuilt(d, Columns4, Columns4)
  <2>1. UpgradeTo(v, d) = [e EXCEPT !.tables = @ \cup {"ShortcutIcon"}]
    BY <1>4 DEF UpgradeTo, UpgradeFromVersion3ToVersion4
  <2>2. e \in DiskFile /\ e.tables = d.tables /\ (HasName(d.rows) => HasName(e.rows))
    BY <1>1, RebuiltIs, SelectsAre
  <2>3. e.tables \cup {"ShortcutIcon"} \in SUBSET DbText
    BY <1>1, <2>2 DEF DbText
  <2> HIDE DEF e
  <2>4. QED
    BY <1>1, <1>4, <2>1, <2>2, <2>3 DEF DiskFile
<1>5. CASE v = 5
  <2> DEFINE e == Rebuilt(d, Columns5, Select5)
  <2>1. UpgradeTo(v, d) = e
    BY <1>5 DEF UpgradeTo, UpgradeFromVersion4ToVersion5, Select5
  <2>2. e \in DiskFile /\ e.tables = d.tables /\ (HasName(d.rows) => HasName(e.rows))
    BY <1>1, RebuiltIs, SelectsAre
  <2> HIDE DEF e
  <2>3. QED
    BY <1>5, <2>1, <2>2
<1>6. CASE v = 6
  <2> DEFINE e == Rebuilt(d, Columns6, Select6)
  <2>1. UpgradeTo(v, d) = [e EXCEPT !.tables = @ \ {"ShortcutIcon"}]
    BY <1>6 DEF UpgradeTo, UpgradeFromVersion5ToVersion6, Select6
  <2>2. e \in DiskFile /\ e.tables = d.tables /\ e.columns = Columns6 /\ (HasName(d.rows) => HasName(e.rows))
    BY <1>1, RebuiltIs, SelectsAre
  <2> HIDE DEF e
  <2>3. QED
    BY <1>1, <1>6, <2>1, <2>2 DEF DiskFile
<1>7. CASE v \in {7, 8, 9}
  <2> DEFINE name == IF v = 7 THEN "DatabaseNames" ELSE IF v = 8 THEN "Database2s" ELSE "LocationAccess"
  <2>1. UpgradeTo(v, d) = [d EXCEPT !.tables = @ \cup {name}]
    BY <1>7 DEF UpgradeTo, UpgradeToVersion7, UpgradeToVersion8, UpgradeToVersion9
  <2>2. d.tables \cup {name} \in SUBSET DbText
    BY <1>1, <1>7 DEF DbText
  <2>3. /\ v = 7 => name = "DatabaseNames"
        /\ v = 8 => name = "Database2s"
        /\ v = 9 => name = "LocationAccess"
    BY <1>7
  <2> HIDE DEF name
  <2>4. QED
    BY <1>1, <1>7, <2>1, <2>2, <2>3 DEF DiskFile
<1>8. v \in {2, 3, 4, 5, 6, 7, 8, 9}
  OBVIOUS
<1>9. QED
  BY <1>2, <1>3, <1>4, <1>5, <1>6, <1>7, <1>8

LEMMA FallThroughIs ==
  ASSUME NEW d \in DiskFile, NEW v \in 2 .. 9, NEW from \in 1 .. 8
  PROVE  LET e == FallThrough(v, from, d)
         IN  /\ from < v => StepIs(v, d, e)
             /\ from >= v => e = d
BY UpgradeToIs DEF FallThrough

CurrentTables == {"VersionInfo", "Access", "Shortcut", "DatabaseNames", "Database2s", "LocationAccess"}

LEMMA TablesAreThere ==
  /\ TablesOf(9) = CurrentTables
  /\ \A v \in Nat \ {0} :
       /\ TablesOf(v) \subseteq DbText /\ "VersionInfo" \in TablesOf(v)
       /\ v = 1 => "ScourAccess" \in TablesOf(v)
       /\ v >= 2 => "Access" \in TablesOf(v)
       /\ v >= 3 => "Shortcut" \in TablesOf(v)
       /\ v >= 7 => "DatabaseNames" \in TablesOf(v)
       /\ v >= 8 => "Database2s" \in TablesOf(v)
       /\ v >= 9 => "LocationAccess" \in TablesOf(v)
<1>1. TablesOf(9) = CurrentTables
  BY DEF TablesOf, CurrentTables
<1>2. ASSUME NEW v \in Nat \ {0} PROVE TablesOf(v) \subseteq DbText
  BY DEF TablesOf, DbText
<1>3. ASSUME NEW v \in Nat \ {0}
      PROVE  "VersionInfo" \in TablesOf(v) /\ (v = 1 => "ScourAccess" \in TablesOf(v))
  BY DEF TablesOf
<1>4. ASSUME NEW v \in Nat \ {0}
      PROVE  (v >= 2 => "Access" \in TablesOf(v)) /\ (v >= 3 => "Shortcut" \in TablesOf(v))
  BY DEF TablesOf
<1>5. ASSUME NEW v \in Nat \ {0}
      PROVE  /\ v >= 7 => "DatabaseNames" \in TablesOf(v)
             /\ v >= 8 => "Database2s" \in TablesOf(v)
             /\ v >= 9 => "LocationAccess" \in TablesOf(v)
  BY DEF TablesOf
<1>6. QED
  BY <1>1, <1>2, <1>3, <1>4, <1>5

LEMMA ColumnsAre ==
  /\ \A v \in Nat : ColumnsOf(v) \in ColumnLists
  /\ \A v \in Nat : v >= 6 => ColumnsOf(v) = Columns6
BY DEF ColumnsOf, ColumnLists

(* From wherever Init starts, though another thread may have upgraded      *)
(* since the version was read.                                             *)
LEMMA UpgradeReachesCurrent ==
  ASSUME NEW d \in DiskFile, NEW from \in 1 .. 8, d.version \in from .. 9,
         TablesOf(d.version) \subseteq d.tables, d.columns = ColumnsOf(d.version),
         from = 1 => "ScourAccess" \notin d.tables
  PROVE  LET e == UpgradeDatabase(d, from)
         IN  /\ e \in DiskFile /\ e.version = 9
             /\ CurrentTables \subseteq e.tables /\ e.columns = Columns6
             /\ HasName(d.rows) => HasName(e.rows)
<1> DEFINE d2 == FallThrough(2, from, d)
<1> DEFINE d3 == FallThrough(3, from, d2)
<1> DEFINE d4 == FallThrough(4, from, d3)
<1> DEFINE d5 == FallThrough(5, from, d4)
<1> DEFINE d6 == FallThrough(6, from, d5)
<1> DEFINE d7 == FallThrough(7, from, d6)
<1> DEFINE d8 == FallThrough(8, from, d7)
<1> DEFINE d9 == FallThrough(9, from, d8)
<1>1. UpgradeDatabase(d, from) = [d9 EXCEPT !.version = 9]
  BY DEF UpgradeDatabase, kCurrentVersion
<1>2. (from < 2 => StepIs(2, d, d2)) /\ (from >= 2 => d2 = d) /\ d2 \in DiskFile
  BY FallThroughIs DEF StepIs
<1> HIDE DEF d2
<1>3. (from < 3 => StepIs(3, d2, d3)) /\ (from >= 3 => d3 = d2) /\ d3 \in DiskFile
  BY <1>2, FallThroughIs DEF StepIs
<1> HIDE DEF d3
<1>4. (from < 4 => StepIs(4, d3, d4)) /\ (from >= 4 => d4 = d3) /\ d4 \in DiskFile
  BY <1>3, FallThroughIs DEF StepIs
<1> HIDE DEF d4
<1>5. (from < 5 => StepIs(5, d4, d5)) /\ (from >= 5 => d5 = d4) /\ d5 \in DiskFile
  BY <1>4, FallThroughIs DEF StepIs
<1> HIDE DEF d5
<1>6. (from < 6 => StepIs(6, d5, d6)) /\ (from >= 6 => d6 = d5) /\ d6 \in DiskFile
  BY <1>5, FallThroughIs DEF StepIs
<1> HIDE DEF d6
<1>7. (from < 7 => StepIs(7, d6, d7)) /\ (from >= 7 => d7 = d6) /\ d7 \in DiskFile
  BY <1>6, FallThroughIs DEF StepIs
<1> HIDE DEF d7
<1>8. (from < 8 => StepIs(8, d7, d8)) /\ (from >= 8 => d8 = d7) /\ d8 \in DiskFile
  BY <1>7, FallThroughIs DEF StepIs
<1> HIDE DEF d8
<1>9. StepIs(9, d8, d9) /\ d9 \in DiskFile
  BY <1>8, FallThroughIs DEF StepIs
<1> HIDE DEF d9
<1>10. d.version \in Nat \ {0} /\ d.version >= from
  OBVIOUS
<1>11. d.version >= 2
  <2>1. d.version = 1 => from = 1 /\ "ScourAccess" \in d.tables
    BY <1>10, TablesAreThere
  <2>2. QED
    BY <1>10, <2>1
<1>12. /\ "VersionInfo" \in d.tables /\ "Access" \in d.tables
       /\ d.version >= 3 => "Shortcut" \in d.tables
       /\ d.version >= 7 => "DatabaseNames" \in d.tables
       /\ d.version >= 8 => "Database2s" \in d.tables
  BY <1>10, <1>11, TablesAreThere
<1> DEFINE Goes3(e, f) == e.tables \ {"ShortcutIcon"} \subseteq f.tables /\ (HasName(e.rows) => HasName(f.rows))
<1>13. Goes3(d, d2) /\ Goes3(d2, d3) /\ Goes3(d3, d4) /\ Goes3(d4, d5) /\ Goes3(d5, d6)
  BY <1>2, <1>3, <1>4, <1>5, <1>6 DEF StepIs
<1>14. Goes3(d6, d7) /\ Goes3(d7, d8) /\ Goes3(d8, d9)
  BY <1>7, <1>8, <1>9 DEF StepIs
<1>15. HasName(d.rows) => HasName(d9.rows)
  BY <1>13, <1>14
<1>16. "VersionInfo" \in d9.tables /\ "Access" \in d9.tables
  BY <1>12, <1>13, <1>14
<1>17. "Shortcut" \in d3.tables
  BY <1>2, <1>3, <1>10, <1>12, <1>13 DEF StepIs
<1>18. "DatabaseNames" \in d7.tables
  <2>1. from >= 7 => "DatabaseNames" \in d.tables
    BY <1>10, <1>12
  <2>2. QED
    BY <1>7, <1>13, <1>14, <2>1 DEF StepIs
<1>19. "Database2s" \in d8.tables
  <2>1. from >= 8 => "Database2s" \in d.tables
    BY <1>10, <1>12
  <2>2. QED
    BY <1>8, <1>13, <1>14, <2>1 DEF StepIs
<1>20. CurrentTables \subseteq d9.tables
  <2>1. "LocationAccess" \in d9.tables
    BY <1>9 DEF StepIs
  <2>2. "Shortcut" \in d9.tables
    BY <1>13, <1>14, <1>17
  <2>3. "DatabaseNames" \in d9.tables /\ "Database2s" \in d9.tables
    BY <1>14, <1>18, <1>19
  <2>4. QED
    BY <1>16, <2>1, <2>2, <2>3 DEF CurrentTables
<1>21. d9.columns = Columns6
  <2>1. d6.columns = Columns6
    <3>1. CASE from < 6
      BY <1>6, <3>1 DEF StepIs
    <3>2. CASE from >= 6
      <4>1. d6 = d
        BY <1>2, <1>3, <1>4, <1>5, <1>6, <3>2
      <4>2. d.columns = Columns6
        BY <1>10, <3>2, ColumnsAre
      <4>3. QED
        BY <4>1, <4>2
    <3>3. QED
      BY <3>1, <3>2
  <2>2. d7.columns = d6.columns /\ d8.columns = d7.columns /\ d9.columns = d8.columns
    BY <1>7, <1>8, <1>9 DEF StepIs
  <2>3. QED
    BY <2>1, <2>2
<1>22. QED
  BY <1>1, <1>9, <1>15, <1>20, <1>21 DEF DiskFile

(* The file and what each thread in Init has read of it: a version from    *)
(* which there is an upgrade is not newer than that of the file.           *)
InitRecord == [at : {"start", "looked", "ready", "failed", "refused"}, version : Nat, read : BOOLEAN]

DiskInv(d, saved) ==
  /\ d \in DiskFile
  /\ d.version = 0 => saved = {}
  /\ d.version # 0 => TablesOf(d.version) \subseteq d.tables /\ d.columns = ColumnsOf(d.version)
  /\ saved \subseteq {"Name"}
  /\ saved # {} => HasName(d.rows)

ReadOk(i, d) ==
  /\ i.version # 0 => d.version # 0
  /\ i.version \in 1 .. 8 => d.version \in i.version .. 9
  /\ i.version = 9 => d.version = 9
  /\ i.at = "ready" => d.version = 9

UpgradeInv ==
  /\ DiskInv(pd_disk, pd_saved)
  /\ pd_init \in [DThread -> InitRecord]
  /\ \A t \in DThread : ReadOk(pd_init[t], pd_disk)
  /\ DropsOnlyEmpty

LEMMA CurrentIsSound ==
  ASSUME UpgradeInv
  PROVE  SchemaIsCurrent /\ ShortcutsRemain
<1>1. ASSUME NEW t \in DThread, pd_init[t].at = "ready"
      PROVE  /\ pd_disk.version = 9 /\ CurrentTables \subseteq pd_disk.tables /\ pd_disk.columns = Columns6
             /\ \A s \in pd_saved : \E r \in pd_disk.rows : r["Name"] = s
  <2>1. pd_disk.version = 9
    BY <1>1 DEF UpgradeInv, ReadOk
  <2>2. QED
    BY <2>1, TablesAreThere, ColumnsAre DEF UpgradeInv, DiskInv, HasName
<1>2. QED
  BY <1>1, TablesAreThere DEF SchemaIsCurrent, ShortcutsRemain, kCurrentVersion

LEMMA RowOfIs ==
  ASSUME NEW v \in Nat, v >= 3
  PROVE  RowOf(ColumnsOf(v)) \in NamedRow /\ RowOf(ColumnsOf(v))["Name"] = "Name"
<1>1. ColumnsOf(v) \in {Columns3, Columns4, Columns5, Columns6}
  BY DEF ColumnsOf
<1>2. Range(Columns4) \subseteq DbText /\ "Name" \in Range(Columns4)
  BY SelectsAre DEF Selects
<1>3. Range(Columns5) \subseteq DbText /\ "Name" \in Range(Columns5)
  BY SelectsAre DEF Selects
<1>4. Range(Columns6) \subseteq DbText /\ "Name" \in Range(Columns6)
  BY SelectsAre DEF Selects
<1>5. Range(Columns3) \subseteq DbText /\ "Name" \in Range(Columns3)
  <2>1. Len(Columns3) = 5 /\ DOMAIN Columns3 = 1 .. 5 /\ 1 .. 5 = {1, 2, 3, 4, 5}
    BY DEF Columns3
  <2>2. /\ Columns3[1] = "Origin" /\ Columns3[2] = "Name" /\ Columns3[3] = "AppUrl"
        /\ Columns3[4] = "IcoUrl" /\ Columns3[5] = "Msg"
    BY DEF Columns3
  <2>3. Range(Columns3) = {Columns3[1], Columns3[2], Columns3[3], Columns3[4], Columns3[5]}
    BY <2>1 DEF Range
  <2>4. QED
    BY <2>2, <2>3 DEF DbText
<1> DEFINE names == Range(ColumnsOf(v))
<1>6. names \subseteq DbText /\ "Name" \in names
  BY <1>1, <1>2, <1>3, <1>4, <1>5
<1>7. RowOf(ColumnsOf(v)) = [c \in names |-> c]
  BY DEF RowOf
<1> HIDE DEF names
<1>8. [c \in names |-> c] \in [names -> DbText] /\ [c \in names |-> c]["Name"] = "Name"
  BY <1>6
<1>9. QED
  BY <1>6, <1>7, <1>8 DEF NamedRow

LEMMA OldBuildKeeps ==
  ASSUME UpgradeInv, NEW v \in OldVersion, OldBuild(v)
  PROVE  UpgradeInv'
<1> DEFINE d == [version |-> v, tables |-> TablesOf(v), columns |-> ColumnsOf(v),
                 rows |-> IF v < 3 THEN {} ELSE {RowOf(ColumnsOf(v))}]
<1>1. v \in Nat \ {0}
  BY PermissionsAssumption
<1>2. /\ pd_disk' = d /\ pd_saved' = (IF v < 3 THEN {} ELSE {"Name"})
      /\ \A t \in DThread : pd_init[t] = NotStarted
      /\ UNCHANGED <<pd_init, pd_drops>>
  BY DEF OldBuild
<1>3. /\ d.version = v /\ d.tables = TablesOf(v) /\ d.columns = ColumnsOf(v)
      /\ d.rows = IF v < 3 THEN {} ELSE {RowOf(ColumnsOf(v))}
  OBVIOUS
<1>4. d.rows \subseteq NamedRow /\ (v >= 3 => HasName(d.rows))
  BY <1>1, <1>3, RowOfIs DEF HasName
<1>5. d \in DiskFile
  BY <1>1, <1>4, TablesAreThere, ColumnsAre DEF DiskFile
<1> HIDE DEF d
<1>6. DiskInv(pd_disk', pd_saved')
  BY <1>1, <1>2, <1>3, <1>4, <1>5 DEF DiskInv
<1>7. \A t \in DThread : ReadOk(pd_init'[t], pd_disk')
  BY <1>1, <1>2 DEF ReadOk, NotStarted
<1>8. QED
  BY <1>2, <1>6, <1>7 DEF UpgradeInv, DropsOnlyEmpty

(* Reading the version. *)
LEMMA ReadIs ==
  ASSUME UpgradeInv, NEW t \in DThread, NEW seen \in ReadVersion(t)
  PROVE  /\ seen \in InitRecord /\ seen.at = pd_init[t].at
         /\ ReadOk([seen EXCEPT !.at = "looked"], pd_disk)
         /\ pd_init[t].at # "ready" => ReadOk(seen, pd_disk)
         /\ seen.read /\ seen.version = 0 => pd_disk.version = 0
<1>1. pd_init[t] \in InitRecord /\ ReadOk(pd_init[t], pd_disk) /\ pd_disk.version \in Nat
  BY DEF UpgradeInv, DiskInv, DiskFile
<1> DEFINE i == pd_init[t]
<1> DEFINE v == IF pd_disk.version = 0 THEN i.version ELSE pd_disk.version
<1>2. seen = [i EXCEPT !.version = v, !.read = TRUE] \/ seen = [i EXCEPT !.read = FALSE]
  BY DEF ReadVersion
<1>3. v \in Nat
  BY <1>1 DEF InitRecord
<1>4. CASE seen = [i EXCEPT !.version = v, !.read = TRUE]
  <2>1. seen \in InitRecord /\ seen.at = i.at /\ seen.version = v /\ seen.read
    BY <1>1, <1>3, <1>4 DEF InitRecord
  <2>2. QED
    BY <1>1, <2>1 DEF ReadOk, InitRecord
<1>5. CASE seen = [i EXCEPT !.read = FALSE]
  <2>1. seen \in InitRecord /\ seen.at = i.at /\ seen.version = i.version /\ ~seen.read
    BY <1>1, <1>5 DEF InitRecord
  <2>2. QED
    BY <1>1, <2>1 DEF ReadOk, InitRecord
<1>6. QED
  BY <1>2, <1>4, <1>5

LEMMA LooksKeep ==
  ASSUME UpgradeInv, NEW t \in DThread
  PROVE  /\ InitLooks(t) => UpgradeInv'
         /\ InitFails(t) => UpgradeInv'
         /\ InitRefuses(t) => UpgradeInv'
<1>1. ASSUME NEW i \in InitRecord, ReadOk(i, pd_disk), pd_init' = [pd_init EXCEPT ![t] = i],
             UNCHANGED <<pd_disk, pd_saved, pd_drops>>
      PROVE  UpgradeInv'
  BY <1>1 DEF UpgradeInv, DropsOnlyEmpty
<1>2. ASSUME InitLooks(t) PROVE UpgradeInv'
  <2>1. PICK seen \in ReadVersion(t) :
          pd_init' = [pd_init EXCEPT ![t] = [seen EXCEPT !.at = IF seen.version = kCurrentVersion THEN "ready" ELSE "looked"]]
    BY <1>2 DEF InitLooks
  <2> DEFINE i == [seen EXCEPT !.at = IF seen.version = kCurrentVersion THEN "ready" ELSE "looked"]
  <2>2. seen \in InitRecord /\ ReadOk([seen EXCEPT !.at = "looked"], pd_disk)
    BY ReadIs
  <2>3. i \in InitRecord /\ i.version = seen.version /\ i.at = IF seen.version = 9 THEN "ready" ELSE "looked"
    BY <2>2 DEF InitRecord, kCurrentVersion
  <2>4. ReadOk(i, pd_disk)
    BY <2>2, <2>3 DEF ReadOk, InitRecord
  <2>5. UNCHANGED <<pd_disk, pd_saved, pd_drops>>
    BY <1>2 DEF InitLooks
  <2> HIDE DEF i
  <2>6. QED
    BY <1>1, <2>1, <2>3, <2>4, <2>5 DEF i
<1>3. ASSUME InitFails(t) PROVE UpgradeInv'
  <2> DEFINE i == [pd_init[t] EXCEPT !.at = "failed"]
  <2>1. pd_init[t] \in InitRecord /\ ReadOk(pd_init[t], pd_disk)
    BY DEF UpgradeInv
  <2>2. i \in InitRecord /\ ReadOk(i, pd_disk)
    BY <2>1 DEF InitRecord, ReadOk
  <2>3. pd_init' = [pd_init EXCEPT ![t] = i] /\ UNCHANGED <<pd_disk, pd_saved, pd_drops>>
    BY <1>3 DEF InitFails
  <2> HIDE DEF i
  <2>4. QED
    BY <1>1, <2>2, <2>3
<1>4. ASSUME InitRefuses(t) PROVE UpgradeInv'
  <2>1. PICK seen \in ReadVersion(t) : pd_init' = [pd_init EXCEPT ![t] = [seen EXCEPT !.at = "refused"]]
    BY <1>4 DEF InitRefuses
  <2> DEFINE i == [seen EXCEPT !.at = "refused"]
  <2>2. seen \in InitRecord /\ ReadOk([seen EXCEPT !.at = "looked"], pd_disk)
    BY ReadIs
  <2>3. i \in InitRecord /\ i.version = seen.version /\ i.at = "refused"
    BY <2>2 DEF InitRecord
  <2>4. ReadOk(i, pd_disk)
    BY <2>2, <2>3 DEF ReadOk, InitRecord
  <2>5. UNCHANGED <<pd_disk, pd_saved, pd_drops>>
    BY <1>4 DEF InitRefuses
  <2> HIDE DEF i
  <2>6. QED
    BY <1>1, <2>1, <2>3, <2>4, <2>5 DEF i
<1>5. QED
  BY <1>2, <1>3, <1>4

(* A file of the current version suits whoever could read the former one. *)
LEMMA BecomesCurrent ==
  ASSUME UpgradeInv, NEW t \in DThread, NEW i \in InitRecord, i.at = "ready", i.version = 9,
         pd_init' = [pd_init EXCEPT ![t] = i],
         DiskInv(pd_disk', pd_saved'), pd_disk'.version = 9, DropsOnlyEmpty'
  PROVE  UpgradeInv'
<1>1. pd_init' \in [DThread -> InitRecord]
  BY DEF UpgradeInv
<1>2. ASSUME NEW u \in DThread PROVE ReadOk(pd_init'[u], pd_disk')
  <2>1. pd_init'[u] = IF u = t THEN i ELSE pd_init[u]
    BY DEF UpgradeInv
  <2>2. i.version \in Nat /\ pd_init[u].version \in Nat /\ ReadOk(pd_init[u], pd_disk)
    BY DEF UpgradeInv, InitRecord
  <2>3. QED
    BY <2>1, <2>2 DEF ReadOk
<1>3. QED
  BY <1>1, <1>2 DEF UpgradeInv

LEMMA UpgradesKeep ==
  ASSUME UpgradeInv, NEW t \in DThread, InitUpgrades(t)
  PROVE  UpgradeInv'
<1>1. pd_init[t].at = "looked"
  BY DEF InitUpgrades
<1>2. PICK seen \in ReadVersion(t) : InitTransaction(t, seen)
  BY DEF InitUpgrades
<1>3. /\ seen \in InitRecord /\ ReadOk(seen, pd_disk)
      /\ seen.read /\ seen.version = 0 => pd_disk.version = 0
  BY <1>1, ReadIs
<1>4. DiskInv(pd_disk, pd_saved) /\ pd_drops \subseteq {0}
  BY DEF UpgradeInv, DropsOnlyEmpty
<1> DEFINE i == [seen EXCEPT !.at = "ready", !.version = kCurrentVersion]
<1>5. i \in InitRecord /\ i.at = "ready" /\ i.version = 9
  BY <1>3 DEF InitRecord, kCurrentVersion
<1>6. CASE /\ seen.version = kCurrentVersion
           /\ pd_init' = [pd_init EXCEPT ![t] = [seen EXCEPT !.at = "ready"]]
           /\ UNCHANGED <<pd_disk, pd_saved, pd_drops>>
  <2> DEFINE j == [seen EXCEPT !.at = "ready"]
  <2>1. j \in InitRecord /\ j.at = "ready" /\ j.version = 9
    BY <1>3, <1>6 DEF InitRecord, kCurrentVersion
  <2>2. pd_disk'.version = 9 /\ DropsOnlyEmpty' /\ DiskInv(pd_disk', pd_saved')
    BY <1>3, <1>4, <1>6 DEF ReadOk, kCurrentVersion, DropsOnlyEmpty
  <2>3. pd_init' = [pd_init EXCEPT ![t] = j]
    BY <1>6
  <2> HIDE DEF j
  <2>4. QED
    BY <2>1, <2>2, <2>3, BecomesCurrent
<1>7. CASE /\ seen.version = 0 /\ pd_disk' = CreateDatabase
           /\ IF seen.read THEN pd_drops' = pd_drops \cup {pd_disk.version} /\ UNCHANGED pd_saved
              ELSE pd_saved' = {} /\ UNCHANGED pd_drops
           /\ pd_init' = [pd_init EXCEPT ![t] = [seen EXCEPT !.at = "ready", !.version = kCurrentVersion]]
  <2>1. pd_saved' = {} /\ DropsOnlyEmpty'
    BY <1>3, <1>4, <1>7 DEF DiskInv, DropsOnlyEmpty
  <2>2. /\ pd_disk'.version = 9 /\ pd_disk'.tables = TablesOf(9) /\ pd_disk'.columns = Columns6
        /\ pd_disk' \in DiskFile
    <3>1. TablesOf(9) \subseteq DbText /\ Columns6 \in ColumnLists
      BY TablesAreThere DEF ColumnLists
    <3>2. QED
      BY <1>7, <3>1 DEF CreateDatabase, kCurrentVersion, DiskFile
  <2>3. DiskInv(pd_disk', pd_saved')
    BY <2>1, <2>2, ColumnsAre DEF DiskInv
  <2>4. pd_init' = [pd_init EXCEPT ![t] = i]
    BY <1>7
  <2> HIDE DEF i
  <2>5. QED
    BY <1>5, <2>1, <2>2, <2>3, <2>4, BecomesCurrent
<1>8. CASE /\ seen.version \in 1 .. kCurrentVersion - 1
           /\ seen.version = 1 => UpgradeToVersion2Works(pd_disk)
           /\ pd_disk' = UpgradeDatabase(pd_disk, seen.version)
           /\ pd_init' = [pd_init EXCEPT ![t] = [seen EXCEPT !.at = "ready", !.version = kCurrentVersion]]
           /\ UNCHANGED <<pd_saved, pd_drops>>
  <2> DEFINE from == seen.version
  <2>1. from \in 1 .. 8
    BY <1>8 DEF kCurrentVersion
  <2>2. pd_disk.version \in from .. 9 /\ pd_disk.version # 0
    BY <1>3, <2>1 DEF ReadOk
  <2>3. /\ pd_disk \in DiskFile /\ TablesOf(pd_disk.version) \subseteq pd_disk.tables
        /\ pd_disk.columns = ColumnsOf(pd_disk.version)
        /\ from = 1 => "ScourAccess" \notin pd_disk.tables
    BY <1>4, <1>8, <2>2 DEF DiskInv, UpgradeToVersion2Works
  <2> HIDE DEF from
  <2>4. /\ pd_disk' \in DiskFile /\ pd_disk'.version = 9
        /\ CurrentTables \subseteq pd_disk'.tables /\ pd_disk'.columns = Columns6
        /\ HasName(pd_disk.rows) => HasName(pd_disk'.rows)
    BY <1>8, <2>1, <2>2, <2>3, UpgradeReachesCurrent DEF from
  <2>5. DiskInv(pd_disk', pd_saved')
    BY <1>4, <1>8, <2>4, TablesAreThere, ColumnsAre DEF DiskInv
  <2>6. DropsOnlyEmpty' /\ pd_init' = [pd_init EXCEPT ![t] = i]
    BY <1>4, <1>8 DEF DropsOnlyEmpty
  <2> HIDE DEF i
  <2>7. QED
    BY <1>5, <2>4, <2>5, <2>6, BecomesCurrent
<1>9. QED
  BY <1>2, <1>6, <1>7, <1>8 DEF InitTransaction

LEMMA ShortcutsKeep ==
  ASSUME UpgradeInv, NEW t \in DThread, SetShortcut(t) \/ DeleteShortcut(t)
  PROVE  UpgradeInv'
<1>1. pd_disk.version = 9 /\ pd_disk \in DiskFile /\ DiskInv(pd_disk, pd_saved)
  BY DEF UpgradeInv, ReadOk, DiskInv, SetShortcut, DeleteShortcut
<1>2. RowOf(Columns6) \in NamedRow /\ RowOf(Columns6)["Name"] = "Name"
  BY RowOfIs, ColumnsAre
<1>3. PICK rows \in SUBSET NamedRow :
        /\ pd_disk' = [pd_disk EXCEPT !.rows = rows] /\ pd_saved' \subseteq {"Name"}
        /\ pd_saved' # {} => HasName(rows)
  <2>1. CASE SetShortcut(t)
    <3> DEFINE rows == {r \in pd_disk.rows : r["Name"] # "Name"} \cup {RowOf(Columns6)}
    <3>1. rows \in SUBSET NamedRow /\ HasName(rows)
      BY <1>1, <1>2 DEF DiskFile, HasName
    <3>2. pd_disk' = [pd_disk EXCEPT !.rows = rows] /\ pd_saved' = {"Name"}
      BY <2>1 DEF SetShortcut
    <3>3. QED
      BY <3>1, <3>2
  <2>2. CASE DeleteShortcut(t)
    <3>1. pd_disk' = [pd_disk EXCEPT !.rows = {}] /\ pd_saved' = {}
      BY <2>2 DEF DeleteShortcut
    <3>2. QED
      BY <3>1
  <2>3. QED
    BY <2>1, <2>2
<1>4. /\ pd_disk' \in DiskFile /\ pd_disk'.version = 9 /\ pd_disk'.rows = rows
      /\ pd_disk'.tables = pd_disk.tables /\ pd_disk'.columns = pd_disk.columns
  BY <1>1, <1>3 DEF DiskFile
<1>5. DiskInv(pd_disk', pd_saved')
  BY <1>1, <1>3, <1>4 DEF DiskInv
<1>6. UNCHANGED <<pd_init, pd_drops>>
  BY DEF SetShortcut, DeleteShortcut
<1>7. \A u \in DThread : ReadOk(pd_init'[u], pd_disk')
  BY <1>1, <1>4, <1>6 DEF UpgradeInv, ReadOk
<1>8. QED
  BY <1>5, <1>6, <1>7 DEF UpgradeInv, DropsOnlyEmpty

LEMMA UpgradeKeeps == UpgradeInv /\ [UpgradeNext]_upgradeVars => UpgradeInv'
<1> SUFFICES ASSUME UpgradeInv, [UpgradeNext]_upgradeVars PROVE UpgradeInv'
  OBVIOUS
<1>1. CASE UNCHANGED upgradeVars
  BY <1>1 DEF upgradeVars, UpgradeInv, DropsOnlyEmpty
<1>2. CASE UpgradeNext
  BY <1>2, OldBuildKeeps, LooksKeep, UpgradesKeep, ShortcutsKeep DEF UpgradeNext
<1>3. QED
  BY <1>1, <1>2

-----------------------------------------------------------------------------
(* The sorted list.  Of a finite set of numbers with a key, each element   *)
(* has as its place the number of those not behind it.                     *)
Precedes(key, o, p) == key[o] < key[p] \/ (key[o] = key[p] /\ o <= p)
UpTo(S, key, o) == {p \in S : Precedes(key, p, o)}

Places(S, key) == [i \in 1 .. Cardinality(S) |-> CHOOSE o \in S : Cardinality(UpTo(S, key, o)) = i]

LEMMA IntervalsDiffer ==
  ASSUME NEW m \in Nat, NEW k \in Nat, 1 .. m = 1 .. k
  PROVE  m = k
<1>1. ASSUME m < k PROVE FALSE
  <2>1. k \in 1 .. k
    BY <1>1
  <2>2. k \in 1 .. m
    BY <2>1
  <2>3. QED
    BY <1>1, <2>2
<1>2. ASSUME k < m PROVE FALSE
  <2>1. m \in 1 .. m
    BY <1>2
  <2>2. m \in 1 .. k
    BY <2>1
  <2>3. QED
    BY <1>2, <2>2
<1>3. QED
  BY <1>1, <1>2

LEMMA PlacesAre ==
  ASSUME NEW S \in SUBSET Nat, IsFiniteSet(S), NEW key \in [S -> Nat], NEW list, list = Places(S, key)
  PROVE  /\ \A i \in 1 .. Cardinality(S) : list[i] \in S /\ Cardinality(UpTo(S, key, list[i])) = i
         /\ \A o \in S : \E i \in 1 .. Cardinality(S) : list[i] = o
         /\ \A i, j \in 1 .. Cardinality(S) : key[list[j]] < key[list[i]] => j < i
<1> DEFINE n == Cardinality(S)
<1> DEFINE rank == [o \in S |-> Cardinality(UpTo(S, key, o))]
<1>1. n \in Nat
  BY FS_CardinalityType
<1>2. \A o \in S : /\ IsFiniteSet(UpTo(S, key, o)) /\ UpTo(S, key, o) \in SUBSET S /\ o \in UpTo(S, key, o)
                   /\ rank[o] \in Nat /\ rank[o] <= n
  <2>1. SUFFICES ASSUME NEW o \in S
                 PROVE  /\ IsFiniteSet(UpTo(S, key, o)) /\ UpTo(S, key, o) \in SUBSET S /\ o \in UpTo(S, key, o)
                        /\ rank[o] \in Nat /\ rank[o] <= n
    OBVIOUS
  <2>2. UpTo(S, key, o) \in SUBSET S /\ o \in UpTo(S, key, o)
    BY DEF UpTo, Precedes
  <2>3. IsFiniteSet(UpTo(S, key, o)) /\ Cardinality(UpTo(S, key, o)) <= n
    BY <2>2, FS_Subset
  <2>4. Cardinality(UpTo(S, key, o)) \in Nat
    BY <2>3, FS_CardinalityType
  <2>5. QED
    BY <2>2, <2>3, <2>4
<1>3. \A o \in S : rank[o] \in 1 .. n
  <2>1. SUFFICES ASSUME NEW o \in S PROVE rank[o] # 0
    BY <1>1, <1>2
  <2>2. QED
    BY <1>2, FS_EmptySet
<1>4. \A o, p \in S : Precedes(key, o, p) /\ o # p => rank[o] < rank[p]
  <2>1. SUFFICES ASSUME NEW o \in S, NEW p \in S, Precedes(key, o, p), o # p PROVE rank[o] < rank[p]
    OBVIOUS
  <2>2. key[o] \in Nat /\ key[p] \in Nat /\ o \in Nat /\ p \in Nat
    OBVIOUS
  <2>3. UpTo(S, key, o) \in SUBSET (UpTo(S, key, p) \ {p})
    <3>1. ASSUME NEW q \in UpTo(S, key, o) PROVE q \in UpTo(S, key, p) /\ q # p
      <4>1. q \in S /\ Precedes(key, q, o) /\ key[q] \in Nat /\ q \in Nat
        BY DEF UpTo
      <4>2. QED
        BY <2>1, <2>2, <4>1 DEF UpTo, Precedes
    <3>2. QED
      BY <3>1
  <2>4. /\ IsFiniteSet(UpTo(S, key, p) \ {p})
        /\ Cardinality(UpTo(S, key, p) \ {p}) = Cardinality(UpTo(S, key, p)) - 1
    BY <1>2, FS_RemoveElement
  <2>5. Cardinality(UpTo(S, key, o)) <= Cardinality(UpTo(S, key, p) \ {p})
    BY <2>3, <2>4, FS_Subset
  <2>6. rank[o] = Cardinality(UpTo(S, key, o)) /\ rank[p] = Cardinality(UpTo(S, key, p))
    OBVIOUS
  <2> HIDE DEF rank
  <2>7. rank[o] \in Nat /\ rank[p] \in Nat
    BY <1>2
  <2>8. QED
    BY <2>4, <2>5, <2>6, <2>7
<1>5. \A o, p \in S : o # p => rank[o] # rank[p]
  <2>1. \A o, p \in S : Precedes(key, o, p) \/ Precedes(key, p, o)
    BY DEF Precedes
  <2> HIDE DEF rank
  <2>2. \A o \in S : rank[o] \in Nat
    BY <1>2
  <2>3. QED
    BY <1>4, <2>1, <2>2
<1>6. rank \in Injection(S, 1 .. n)
  BY <1>3, <1>5 DEF Injection, IsInjective
<1>7. IsFiniteSet(1 .. n) /\ Cardinality(1 .. n) = n
  BY <1>1, FS_Interval
<1>8. rank \in Surjection(S, 1 .. n)
  BY <1>6, <1>7, FS_Injection
<1>9. \A i \in 1 .. n : \E o \in S : Cardinality(UpTo(S, key, o)) = i
  BY <1>8 DEF Surjection
<1>10. \A i \in 1 .. n : list[i] \in S /\ Cardinality(UpTo(S, key, list[i])) = i
  BY <1>9 DEF Places
<1>11. \A i \in 1 .. n : list[i] \in S /\ rank[list[i]] = i
  BY <1>10
<1> HIDE DEF rank, n
<1>12. \A o \in S : \E i \in 1 .. n : list[i] = o
  <2>1. SUFFICES ASSUME NEW o \in S PROVE list[rank[o]] = o
    BY <1>3
  <2>2. rank[o] \in 1 .. n
    BY <1>3
  <2>3. list[rank[o]] \in S /\ rank[list[rank[o]]] = rank[o]
    BY <1>11, <2>2
  <2>4. QED
    BY <1>5, <2>3
<1>13. \A i, j \in 1 .. n : key[list[j]] < key[list[i]] => j < i
  <2>1. SUFFICES ASSUME NEW i \in 1 .. n, NEW j \in 1 .. n, key[list[j]] < key[list[i]] PROVE j < i
    OBVIOUS
  <2>2. Precedes(key, list[j], list[i]) /\ list[j] # list[i]
    <3>1. list[i] \in S /\ list[j] \in S
      BY <1>11
    <3>2. key[list[i]] \in Nat /\ key[list[j]] \in Nat
      BY <3>1
    <3>3. QED
      BY <2>1, <3>2 DEF Precedes
  <2>3. rank[list[j]] < rank[list[i]]
    BY <1>4, <1>11, <2>2
  <2>4. QED
    BY <1>11, <2>3
<1>14. QED
  BY <1>10, <1>12, <1>13 DEF n

AccessInv ==
  /\ pd_access \in [PermissionType -> [DOrigin -> {NotSet, Allowed, Denied}]]
  /\ pd_sets \in Nat

LEMMA ListIsSorted == AccessInv => AllowedComeFirst
<1> SUFFICES ASSUME AccessInv PROVE AllowedComeFirst
  OBVIOUS
<1> DEFINE S == PermissionRows(pd_access)
<1> DEFINE list == GetPermissionsSorted(pd_access)
<1> DEFINE set == {o \in DOrigin : \E ty \in PermissionType : pd_access[ty][o] # NotSet}
<1> DEFINE allowed == {o \in DOrigin : \E ty \in PermissionType : pd_access[ty][o] = Allowed}
<1> DEFINE key == [o \in S |-> SortKey(pd_access, o)]
<1>1. S = set
  BY DEF PermissionRows, PermissionType
<1>2. S \in SUBSET DOrigin /\ S \in SUBSET Nat /\ IsFiniteSet(S)
  BY <1>1, PermissionsAssumption, FS_Subset
<1>3. \A o \in DOrigin : SortKey(pd_access, o) = IF o \in allowed THEN 0 ELSE 1
  <2>1. SUFFICES ASSUME NEW o \in DOrigin PROVE SortKey(pd_access, o) = IF o \in allowed THEN 0 ELSE 1
    OBVIOUS
  <2>2. /\ pd_access["local"][o] \in {NotSet, Allowed, Denied} /\ pd_access["location"][o] \in {NotSet, Allowed, Denied}
        /\ o \in allowed <=> pd_access["local"][o] = Allowed \/ pd_access["location"][o] = Allowed
    BY DEF AccessInv, PermissionType
  <2> HIDE DEF allowed
  <2>3. QED
    BY <2>2 DEF SortKey, NotSet, Allowed, Denied
<1>4. key \in [S -> Nat]
  BY <1>2, <1>3
<1>5. list = Places(S, key)
  <2>1. ASSUME NEW o \in S
        PROVE  UpTo(S, key, o) =
                 {p \in S : \/ SortKey(pd_access, p) < SortKey(pd_access, o)
                            \/ (SortKey(pd_access, p) = SortKey(pd_access, o) /\ p <= o)}
    BY DEF UpTo, Precedes
  <2>2. list = [i \in 1 .. Cardinality(S) |->
                  CHOOSE o \in S : Cardinality({p \in S : \/ SortKey(pd_access, p) < SortKey(pd_access, o)
                            \/ (SortKey(pd_access, p) = SortKey(pd_access, o) /\ p <= o)}) = i]
    BY DEF GetPermissionsSorted
  <2>3. \A i \in 1 .. Cardinality(S) :
          (CHOOSE o \in S : Cardinality(UpTo(S, key, o)) = i) =
          (CHOOSE o \in S : Cardinality({p \in S : \/ SortKey(pd_access, p) < SortKey(pd_access, o)
                            \/ (SortKey(pd_access, p) = SortKey(pd_access, o) /\ p <= o)}) = i)
    <3> HIDE DEF S, key
    <3>1. QED
      BY <2>1
  <2>4. QED
    BY <2>2, <2>3 DEF Places
<1>6. Cardinality(S) \in Nat
  BY <1>2, FS_CardinalityType
<1>7. Len(list) = Cardinality(S) /\ DOMAIN list = 1 .. Cardinality(S)
  <2>1. list = [i \in 1 .. Cardinality(S) |-> CHOOSE o \in S : Cardinality(UpTo(S, key, o)) = i]
    BY <1>5 DEF Places
  <2> DEFINE n == Cardinality(S)
  <2>2. list \in Seq({list[i] : i \in 1 .. n})
    <3> HIDE DEF list, n
    <3>1. n \in Nat /\ list = [i \in 1 .. n |-> list[i]]
      BY <1>6, <2>1 DEF n
    <3>2. QED
      BY <3>1
  <2> HIDE DEF list
  <2>3. Len(list) \in Nat /\ DOMAIN list = 1 .. Len(list)
    BY <2>2, LenProperties
  <2>4. n \in Nat /\ DOMAIN list = 1 .. n
    BY <1>6, <2>1
  <2> HIDE DEF n
  <2>5. n = Len(list)
    BY <2>3, <2>4, IntervalsDiffer
  <2>6. QED
    BY <2>4, <2>5 DEF n
<1> HIDE DEF S, list, key
<1>8. /\ \A i \in 1 .. Cardinality(S) : list[i] \in S /\ Cardinality(UpTo(S, key, list[i])) = i
      /\ \A o \in S : \E i \in 1 .. Cardinality(S) : list[i] = o
      /\ \A i, j \in 1 .. Cardinality(S) : key[list[j]] < key[list[i]] => j < i
  BY <1>2, <1>4, <1>5, PlacesAre
<1>9. Range(list) = set /\ Len(list) = Cardinality(set)
  <2>1. Range(list) = S
    BY <1>7, <1>8 DEF Range
  <2>2. QED
    BY <1>1, <1>7, <2>1
<1>10. \A i, j \in DOMAIN list : list[i] \notin allowed /\ list[j] \in allowed => j < i
  <2>1. \A o \in S : key[o] = IF o \in allowed THEN 0 ELSE 1
    BY <1>2, <1>3 DEF key
  <2> HIDE DEF allowed
  <2>2. QED
    BY <1>7, <1>8, <2>1
<1>11. QED
  BY <1>9, <1>10 DEF AllowedComeFirst, list

-----------------------------------------------------------------------------
(* Permissions, and all of the database. *)
DbInv == NamesInv /\ UpgradeInv /\ AccessInv

LEMMA AccessKeeps ==
  ASSUME DbInv, NEW t \in DThread
  PROVE  /\ \A o \in DOrigin, ty \in PermissionType, v \in {NotSet, Allowed, Denied} :
              SetPermission(t, o, ty, v) => DbInv' /\ DenialStands
         /\ \A w, h \in DOrigin : EnableGearsForWorker(w, h) => DbInv' /\ DenialStands
         /\ (SelectForOrigin(t) \/ RemoveFile(t)) /\ UNCHANGED <<upgradeVars, accessVars>> => DbInv' /\ DenialStands
<1>1. ASSUME UNCHANGED upgradeVars PROVE UpgradeInv'
  BY <1>1, UpgradeKeeps DEF DbInv
<1>2. ASSUME UNCHANGED namesVars PROVE NamesInv'
  BY <1>2, NamesKeep DEF DbInv
<1>3. ASSUME NEW o \in DOrigin, NEW ty \in PermissionType, NEW v \in {NotSet, Allowed, Denied}, SetPermission(t, o, ty, v)
      PROVE  DbInv' /\ DenialStands
  <2>1. NamesInv'
    <3>1. MarkForOrigin(t, o) \/ UNCHANGED namesVars
      BY <1>3 DEF SetPermission
    <3>2. QED
      BY <1>2, <3>1, DeletesKeep DEF DbInv
  <2>2. AccessInv'
    BY <1>3 DEF SetPermission, DbInv, AccessInv
  <2>3. UNCHANGED upgradeVars
    BY <1>3 DEF SetPermission
  <2>4. DenialStands
    <3>1. pd_sets' # pd_sets
      BY <1>3 DEF SetPermission, DbInv, AccessInv
    <3>2. QED
      BY <3>1 DEF DenialStands
  <2>5. QED
    BY <1>1, <2>1, <2>2, <2>3, <2>4 DEF DbInv
<1>4. ASSUME NEW w \in DOrigin, NEW h \in DOrigin, EnableGearsForWorker(w, h) PROVE DbInv' /\ DenialStands
  <2> DEFINE types == {ty \in PermissionType : pd_access[ty][h] = Allowed}
  <2>1. /\ \A ty \in types : pd_access[ty][w] # Denied
        /\ pd_access' = [ty \in PermissionType |->
             IF ty \in types THEN [pd_access[ty] EXCEPT ![w] = Allowed] ELSE pd_access[ty]]
        /\ UNCHANGED <<upgradeVars, namesVars, pd_sets>>
    BY <1>4 DEF EnableGearsForWorker, TryAllow
  <2>2. types \subseteq PermissionType
    OBVIOUS
  <2> HIDE DEF types
  <2>3. AccessInv'
    BY <2>1, <2>2 DEF DbInv, AccessInv
  <2>4. DenialStands
    BY <2>1, <2>2 DEF DenialStands, DbInv, AccessInv
  <2>5. QED
    BY <1>1, <1>2, <2>1, <2>3, <2>4 DEF DbInv
<1>5. ASSUME SelectForOrigin(t) \/ RemoveFile(t), UNCHANGED <<upgradeVars, accessVars>> PROVE DbInv' /\ DenialStands
  <2>1. NamesInv'
    BY <1>5, RemovesKeep DEF DbInv
  <2>2. AccessInv' /\ DenialStands
    BY <1>5 DEF DbInv, AccessInv, DenialStands, accessVars
  <2>3. QED
    BY <1>1, <1>5, <2>1, <2>2 DEF DbInv
<1>6. QED
  BY <1>3, <1>4, <1>5

LEMMA DbStep == DbInv /\ [PermissionsNext]_permissionsVars => DbInv' /\ DenialStands
<1> SUFFICES ASSUME DbInv, [PermissionsNext]_permissionsVars PROVE DbInv' /\ DenialStands
  OBVIOUS
<1>1. CASE UNCHANGED accessVars /\ [UpgradeNext]_upgradeVars /\ [NamesNext]_namesVars
  <2>1. AccessInv' /\ DenialStands
    BY <1>1 DEF DbInv, AccessInv, DenialStands, accessVars
  <2>2. QED
    BY <1>1, <2>1, UpgradeKeeps, NamesKeep DEF DbInv
<1>2. CASE AccessNext
  BY <1>2, AccessKeeps DEF AccessNext
<1>3. UpgradeNext => UNCHANGED <<accessVars, namesVars>>
  BY DEF UpgradeNext, OldBuild, InitLooks, InitFails, InitRefuses, InitUpgrades, SetShortcut, DeleteShortcut
<1>4. QED
  BY <1>1, <1>2, <1>3 DEF PermissionsNext, permissionsVars

(* For any threads, origins and names and from every old version: file     *)
(* names stay unique and usable, whoever's Init succeeded works on the     *)
(* current schema with the saved shortcuts (nobody's does from version 1,  *)
(* which UpgradeToVersion2 refuses), only an empty database is dropped by  *)
(* who could read it, the list of permissions is complete and sorted, and  *)
(* a denial stands until the user sets the permission again.               *)
THEOREM PermissionsDbIsAlwaysSound == PermissionsSpec => PermissionsDbIsSound
<1>1. PermissionsInit => DbInv
  <2>1. SUFFICES ASSUME PermissionsInit PROVE DbInv
    OBVIOUS
  <2>2. NamesInv
    BY <2>1, NamesStart DEF PermissionsInit
  <2>3. AccessInv
    BY <2>1 DEF PermissionsInit, AccessInv
  <2>4. DiskInv(pd_disk, pd_saved)
    BY <2>1 DEF PermissionsInit, DiskInv, EmptyDisk, DiskFile, ColumnLists
  <2>5. UpgradeInv
    BY <2>1, <2>4 DEF PermissionsInit, UpgradeInv, ReadOk, NotStarted, InitRecord, EmptyDisk, DropsOnlyEmpty
  <2>6. QED
    BY <2>2, <2>3, <2>5 DEF DbInv
<1>2. DbInv => DatabaseIsSound
  BY NamesInvSound, CurrentIsSound, ListIsSorted DEF DbInv, DatabaseIsSound, UpgradeInv
<1>3. DbInv /\ [PermissionsNext]_permissionsVars => [DatabaseIsSound' /\ DenialStands]_permissionsVars
  <2>1. DbInv' => DatabaseIsSound'
    BY <1>2, PTL
  <2>2. QED
    BY <2>1, DbStep
<1>4. QED
  BY <1>1, <1>3, DbStep, PTL DEF PermissionsSpec, PermissionsDbIsSound
=============================================================================
