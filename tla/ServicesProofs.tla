--------------------------- MODULE ServicesProofs ---------------------------
(***************************************************************************)
(* Proofs about the services of a thread: its local values (ThreadLocals), *)
(* the message queues of the other platforms (PlatformQueue), its timed    *)
(* calls (TimedCalls), the Win32 condition variable, thread start and      *)
(* Await (Win32Sync), functors run on another thread (AsyncRouter), the    *)
(* observers of messages (MessageService) and the lock-free list           *)
(* (AtomicList).  No two of them share a variable: each part has an        *)
(* inductive invariant of its own.                                         *)
(***************************************************************************)
EXTENDS ThreadLocals, PlatformQueue, TimedCalls, Win32Sync, AsyncRouter, MessageService,
        AtomicList, SequenceTheorems, FiniteSetTheorems, NaturalsInduction,
        WellFoundedInduction, TLAPS
-----------------------------------------------------------------------------
(* ThreadLocals.  Alloc: the numbers taken from the counter are distinct,  *)
(* those returned and those still inside of Alloc together.                *)
SlotsInv ==
  /\ next_slot \in Nat
  /\ alloc \in [Thread -> Nat \cup {-1}]
  /\ granted \in Seq(Slot)
  /\ \A t \in Thread : alloc[t] < next_slot
  /\ \A t, u \in Thread : alloc[t] = alloc[u] /\ alloc[t] # -1 => t = u
  /\ \A i \in DOMAIN granted : granted[i] < next_slot
  /\ \A i \in DOMAIN granted, t \in Thread : granted[i] # alloc[t]
  /\ \A i, j \in DOMAIN granted : granted[i] = granted[j] => i = j

(* The values a thread holds are in slots of its array, in the array that  *)
(* DestroyEntries was given, and in calls of SetValue that wait for the    *)
(* destructor of the value they replace.                                   *)
Where == {"slot", "final", "frame"}

Final(t) == frames[t] # << >> /\ frames[t][1].op = "final"

HeldAt(t, w, k) ==
  IF w = "slot" THEN (IF k \in Slot THEN GetValue(t, k) ELSE None)
  ELSE IF w = "final" THEN (IF Final(t) /\ k \in Slot THEN frames[t][1].array[k] ELSE None)
  ELSE IF k \in DOMAIN frames[t] /\ frames[t][k].op = "destroy" THEN frames[t][k].then ELSE None

(* The value there is the one whose destructor is running. *)
DyingAt(t, w, k) ==
  \/ w = "slot" /\ k \in Slot /\ ~Mine(t, k)
  \/ w = "final" /\ Final(t) /\ frames[t][1].busy /\ frames[t][1].key = k

Held == [t \in Thread |-> [w \in Where |-> [k \in Nat |-> HeldAt(t, w, k)]]]
Dying == [t \in Thread |-> [w \in Where |-> [k \in Nat |-> IF DyingAt(t, w, k) THEN 1 ELSE 0]]]

(* A value is held in one place by its owner and has been destroyed as     *)
(* often as that place says; one that is held nowhere was destroyed.       *)
Kept(held, dying, last, destroyed) ==
  /\ \A t \in Thread, w \in Where, k \in Nat : held[t][w][k] # None =>
       /\ held[t][w][k] \in 1 .. last /\ owner[held[t][w][k]] = t
       /\ destroyed[held[t][w][k]] = dying[t][w][k]
  /\ \A t \in Thread, w, x \in Where, k, j \in Nat :
       held[t][w][k] # None /\ held[t][w][k] = held[t][x][j] => w = x /\ k = j
  /\ \A v \in Value :
       /\ destroyed[v] \in {0, 1}
       /\ v > last => destroyed[v] = 0
       /\ v <= last /\ destructor[v] /\ destroyed[v] = 0 =>
            \E w \in Where, k \in Nat : held[owner[v]][w][k] = v

(* The stack of a thread: the loop of DestroyEntries is at its bottom, and *)
(* destructors above it are called from the one it is waiting for.         *)
StackInv(t) ==
  /\ \A i \in DOMAIN frames[t] :
       frames[t][i].op = "final" =>
         /\ i = 1 /\ life[t] = "exiting"
         /\ Len(frames[t]) > 1 => frames[t][i].busy
         /\ frames[t][i].busy => frames[t][i].key < MaxSlots
         /\ \A k \in Slot : k < frames[t][i].key => frames[t][i].array[k] = None
  /\ \A i, j \in DOMAIN frames[t] :
       frames[t][i].op = "destroy" /\ frames[t][j].op = "destroy" /\ i # j =>
         frames[t][i].key # frames[t][j].key
  /\ life[t] = "gone" => frames[t] = << >> /\ (tls[t] = Null \/ round[t] = MaxRounds)

LocalsInv ==
  /\ LocalsTypeOK /\ frames \in [Thread -> Seq(Frame)]
  /\ SlotsInv
  /\ \A t \in Thread : StackInv(t)
  /\ Kept(Held, Dying, made, runs)

-----------------------------------------------------------------------------
(* What the operations do to the values, without the arrays and stacks     *)
(* they are kept in.  A value may be dropped from its place if it has no   *)
(* destructor or has been destroyed.                                       *)
Droppable(held, destroyed, t, w, k) ==
  held[t][w][k] # None => ~destructor[held[t][w][k]] \/ destroyed[held[t][w][k]] = 1

(* The place <<t, w, k>> gets the value v and no other place changes. *)
Placed(old, new, t, w, k, v) ==
  \A u \in Thread, x \in Where, j \in Nat :
    new[u][x][j] = IF u = t /\ x = w /\ j = k THEN v ELSE old[u][x][j]

(* A place is emptied. *)
LEMMA KeptDrop ==
  ASSUME NEW held, NEW dying, NEW last \in Nat, NEW destroyed, NEW h, NEW d,
         Kept(held, dying, last, destroyed), owner \in [Value -> Thread],
         NEW t \in Thread, NEW w \in Where, NEW k \in Nat, NEW n,
         Droppable(held, destroyed, t, w, k),
         Placed(held, h, t, w, k, None), Placed(dying, d, t, w, k, n)
  PROVE  Kept(h, d, last, destroyed)
<1>1. ASSUME NEW u \in Thread, NEW x \in Where, NEW j \in Nat, h[u][x][j] # None
      PROVE  h[u][x][j] = held[u][x][j] /\ d[u][x][j] = dying[u][x][j]
  BY <1>1 DEF Placed
<1>2. ASSUME NEW v \in Value, v <= last, destructor[v], destroyed[v] = 0
      PROVE  \E x \in Where, j \in Nat : h[owner[v]][x][j] = v
  <2>1. PICK x \in Where, j \in Nat : held[owner[v]][x][j] = v
    BY <1>2 DEF Kept
  <2>2. v # None /\ owner[v] \in Thread
    BY DEF Value, None
  <2>3. ~(owner[v] = t /\ x = w /\ j = k)
    BY <1>2, <2>1, <2>2 DEF Droppable
  <2> QED
    BY <2>1, <2>2, <2>3 DEF Placed
<1>3. \A u \in Thread, x \in Where, j \in Nat : h[u][x][j] # None =>
        /\ h[u][x][j] \in 1 .. last /\ owner[h[u][x][j]] = u
        /\ destroyed[h[u][x][j]] = d[u][x][j]
  BY <1>1 DEF Kept
<1>4. \A u \in Thread, x, y \in Where, i, j \in Nat :
        h[u][x][i] # None /\ h[u][x][i] = h[u][y][j] => x = y /\ i = j
  <2> TAKE u \in Thread, x, y \in Where, i, j \in Nat
  <2> HAVE h[u][x][i] # None /\ h[u][x][i] = h[u][y][j]
  <2>1. held[u][x][i] = h[u][x][i] /\ held[u][y][j] = h[u][y][j]
    BY <1>1
  <2> QED
    BY <2>1 DEF Kept
<1> QED
  BY <1>2, <1>3, <1>4 DEF Kept

(* A new value is stored where nothing is lost. *)
LEMMA KeptPut ==
  ASSUME NEW held, NEW dying, NEW last \in Nat, NEW destroyed, NEW h,
         Kept(held, dying, last, destroyed), owner \in [Value -> Thread],
         NEW t \in Thread, NEW w \in Where, NEW k \in Nat,
         Droppable(held, destroyed, t, w, k),
         last + 1 \in Value, owner[last + 1] = t, dying[t][w][k] = 0,
         Placed(held, h, t, w, k, last + 1)
  PROVE  Kept(h, dying, last + 1, destroyed)
<1>0. last + 1 # None /\ destroyed[last + 1] = 0 /\ None \notin Value
  BY DEF Value, None, Kept
<1>1. h[t][w][k] = last + 1
  BY DEF Placed
<1>2. ASSUME NEW u \in Thread, NEW x \in Where, NEW j \in Nat, ~(u = t /\ x = w /\ j = k)
      PROVE  h[u][x][j] = held[u][x][j]
  BY <1>2 DEF Placed
<1>3. \A u \in Thread, x \in Where, j \in Nat : held[u][x][j] # None => held[u][x][j] \in 1 .. last
  BY DEF Kept
<1>8. \A u \in Thread, x, y \in Where, i, j \in Nat :
        held[u][x][i] # None /\ held[u][x][i] = held[u][y][j] => x = y /\ i = j
  BY DEF Kept
<1>4. \A u \in Thread, x \in Where, j \in Nat : h[u][x][j] # None =>
        /\ h[u][x][j] \in 1 .. last + 1 /\ owner[h[u][x][j]] = u
        /\ destroyed[h[u][x][j]] = dying[u][x][j]
  <2> TAKE u \in Thread, x \in Where, j \in Nat
  <2>1. CASE u = t /\ x = w /\ j = k
    BY <2>1, <1>0, <1>1
  <2>2. CASE ~(u = t /\ x = w /\ j = k)
    <3>1. h[u][x][j] = held[u][x][j]
      BY <2>2, <1>2
    <3> QED
      BY <3>1, <1>3 DEF Kept
  <2> QED
    BY <2>1, <2>2
<1>5. \A u \in Thread, x, y \in Where, i, j \in Nat :
        h[u][x][i] # None /\ h[u][x][i] = h[u][y][j] => x = y /\ i = j
  <2> TAKE u \in Thread, x, y \in Where, i, j \in Nat
  <2> HAVE h[u][x][i] # None /\ h[u][x][i] = h[u][y][j]
  <2>1. \A z \in Where, a \in Nat : held[u][z][a] # last + 1
    BY <1>0, <1>3
  <2>2. CASE u = t /\ ((x = w /\ i = k) \/ (y = w /\ j = k))
    BY <2>1, <2>2, <1>1, <1>2
  <2>3. CASE ~(u = t /\ ((x = w /\ i = k) \/ (y = w /\ j = k)))
    <3>1. h[u][x][i] = held[u][x][i] /\ h[u][y][j] = held[u][y][j]
      BY <2>3, <1>2
    <3>2. held[u][x][i] # None /\ held[u][x][i] = held[u][y][j]
      BY <3>1
    <3>3. held[u][x][i] # None /\ held[u][x][i] = held[u][y][j] => x = y /\ i = j
      BY <1>8
    <3> QED
      BY <3>2, <3>3
  <2> QED
    BY <2>2, <2>3
<1>6. ASSUME NEW v \in Value, v <= last + 1, destructor[v], destroyed[v] = 0
      PROVE  \E x \in Where, j \in Nat : h[owner[v]][x][j] = v
  <2>1. CASE v = last + 1
    BY <2>1, <1>1
  <2>2. CASE v # last + 1
    <3>1. v <= last
      BY <1>6, <2>2 DEF Value
    <3>2. PICK x \in Where, j \in Nat : held[owner[v]][x][j] = v
      BY <1>6, <3>1 DEF Kept
    <3>3. ~(owner[v] = t /\ x = w /\ j = k)
      BY <1>6, <3>2, <1>0 DEF Droppable
    <3> QED
      BY <3>2, <3>3, <1>2
  <2> QED
    BY <2>1, <2>2
<1>7. \A v \in Value : destroyed[v] \in {0, 1} /\ (v > last + 1 => destroyed[v] = 0)
  BY DEF Kept, Value
<1> QED
  BY <1>4, <1>5, <1>6, <1>7 DEF Kept

(* The destructor of a value is called. *)
LEMMA KeptBegin ==
  ASSUME NEW held, NEW dying, NEW last \in Nat, NEW destroyed \in [Value -> Nat], NEW d,
         Kept(held, dying, last, destroyed), owner \in [Value -> Thread], last <= MaxValues,
         NEW t \in Thread, NEW w \in Where, NEW k \in Nat,
         held[t][w][k] # None, dying[t][w][k] = 0,
         Placed(dying, d, t, w, k, 1)
  PROVE  Kept(held, d, last, [destroyed EXCEPT ![held[t][w][k]] = @ + 1])
<1> DEFINE v == held[t][w][k]
<1> DEFINE r == [destroyed EXCEPT ![v] = @ + 1]
<1>1. v \in 1 .. last /\ owner[v] = t /\ destroyed[v] = 0 /\ v \in Value
  BY RoundAssumption DEF Kept, Value
<1>2. r[v] = 1 /\ \A x \in Value : x # v => r[x] = destroyed[x]
  BY <1>1
<1> HIDE DEF r
<1>3. \A u \in Thread, x \in Where, j \in Nat : held[u][x][j] # None =>
        /\ held[u][x][j] \in 1 .. last /\ owner[held[u][x][j]] = u
        /\ r[held[u][x][j]] = d[u][x][j]
  <2> TAKE u \in Thread, x \in Where, j \in Nat
  <2> HAVE held[u][x][j] # None
  <2>1. held[u][x][j] \in 1 .. last /\ owner[held[u][x][j]] = u /\ held[u][x][j] \in Value
    BY RoundAssumption DEF Kept, Value
  <2>2. CASE u = t /\ x = w /\ j = k
    BY <2>1, <2>2, <1>2 DEF Placed
  <2>3. CASE ~(u = t /\ x = w /\ j = k)
    <3>1. held[u][x][j] # v
      BY <2>1, <2>3, <1>1 DEF Kept
    <3>2. d[u][x][j] = dying[u][x][j] /\ destroyed[held[u][x][j]] = dying[u][x][j]
      BY <2>3 DEF Placed, Kept
    <3> QED
      BY <2>1, <3>1, <3>2, <1>2
  <2> QED
    BY <2>2, <2>3
<1>4. \A x \in Value : r[x] \in {0, 1} /\ (x > last => r[x] = 0)
  BY <1>1, <1>2 DEF Kept, Value
<1>5. ASSUME NEW x \in Value, x <= last, destructor[x], r[x] = 0
      PROVE  \E y \in Where, j \in Nat : held[owner[x]][y][j] = x
  BY <1>2, <1>5 DEF Kept
<1>6. \A u \in Thread, x, y \in Where, i, j \in Nat :
        held[u][x][i] # None /\ held[u][x][i] = held[u][y][j] => x = y /\ i = j
  BY DEF Kept
<1> QED
  BY <1>3, <1>4, <1>5, <1>6 DEF Kept, r

(* Values move from one kind of place to another: those at <<t, w, k>>     *)
(* for k in a set K to <<t, x, f[k]>>.                                     *)
AreMoved(held, dying, h, d, destroyed, t, w, x, K, f) ==
  /\ w \in Where /\ x \in Where /\ w # x /\ K \in SUBSET Nat /\ f \in [K -> Nat]
  /\ \A i, j \in K : f[i] = f[j] => i = j
  /\ \A k \in K : /\ dying[t][w][k] = 0 /\ h[t][w][k] = None
                  /\ h[t][x][f[k]] = held[t][w][k] /\ d[t][x][f[k]] = 0
                  /\ Droppable(held, destroyed, t, x, f[k])
  /\ \A u \in Thread, y \in Where, j \in Nat :
       /\ ~(u = t /\ y = w /\ j \in K)
       /\ ~(u = t /\ y = x /\ \E k \in K : j = f[k])
       => h[u][y][j] = held[u][y][j] /\ (h[u][y][j] # None => d[u][y][j] = dying[u][y][j])

LEMMA KeptMove ==
  ASSUME NEW held, NEW dying, NEW last \in Nat, NEW destroyed, NEW h, NEW d,
         Kept(held, dying, last, destroyed), owner \in [Value -> Thread],
         NEW t \in Thread, NEW w, NEW x, NEW K, NEW f,
         AreMoved(held, dying, h, d, destroyed, t, w, x, K, f)
  PROVE  Kept(h, d, last, destroyed)
<1> USE DEF AreMoved
<1>1. ASSUME NEW u \in Thread, NEW y \in Where, NEW j \in Nat, h[u][y][j] # None
      PROVE  \E z \in Where, i \in Nat :
               /\ h[u][y][j] = held[u][z][i] /\ d[u][y][j] = dying[u][z][i]
               /\ \/ z = y /\ i = j /\ ~(u = t /\ z = w /\ i \in K)
                  \/ u = t /\ z = w /\ y = x /\ i \in K /\ j = f[i]
  <2>1. ~(u = t /\ y = w /\ j \in K)
    BY <1>1
  <2>2. CASE u = t /\ y = x /\ \E k \in K : j = f[k]
    BY <2>2
  <2>3. CASE ~(u = t /\ y = x /\ \E k \in K : j = f[k])
    BY <1>1, <2>1, <2>3
  <2> QED
    BY <2>2, <2>3
<1>2. \A u \in Thread, y \in Where, j \in Nat : h[u][y][j] # None =>
        /\ h[u][y][j] \in 1 .. last /\ owner[h[u][y][j]] = u
        /\ destroyed[h[u][y][j]] = d[u][y][j]
  <2> TAKE u \in Thread, y \in Where, j \in Nat
  <2> HAVE h[u][y][j] # None
  <2>1. PICK z \in Where, i \in Nat : h[u][y][j] = held[u][z][i] /\ d[u][y][j] = dying[u][z][i]
    BY <1>1
  <2> HIDE DEF AreMoved
  <2>2. \A k \in Thread, a \in Where, n \in Nat : held[k][a][n] # None =>
          /\ held[k][a][n] \in 1 .. last /\ owner[held[k][a][n]] = k
          /\ destroyed[held[k][a][n]] = dying[k][a][n]
    BY DEF Kept
  <2>3. /\ held[u][z][i] \in 1 .. last /\ owner[held[u][z][i]] = u
        /\ destroyed[held[u][z][i]] = dying[u][z][i]
    BY <2>1, <2>2
  <2> QED
    BY <2>1, <2>3
<1>5. \A u \in Thread, a, b \in Where, m, n \in Nat :
        held[u][a][m] # None /\ held[u][a][m] = held[u][b][n] => a = b /\ m = n
  BY DEF Kept
<1>3. \A u \in Thread, y, z \in Where, i, j \in Nat :
        h[u][y][i] # None /\ h[u][y][i] = h[u][z][j] => y = z /\ i = j
  <2> TAKE u \in Thread, y, z \in Where, i, j \in Nat
  <2> HAVE h[u][y][i] # None /\ h[u][y][i] = h[u][z][j]
  <2>1. PICK a \in Where, m \in Nat :
          /\ h[u][y][i] = held[u][a][m]
          /\ \/ a = y /\ m = i /\ ~(u = t /\ a = w /\ m \in K)
             \/ u = t /\ a = w /\ y = x /\ m \in K /\ i = f[m]
    BY <1>1
  <2>2. PICK b \in Where, n \in Nat :
          /\ h[u][z][j] = held[u][b][n]
          /\ \/ b = z /\ n = j /\ ~(u = t /\ b = w /\ n \in K)
             \/ u = t /\ b = w /\ z = x /\ n \in K /\ j = f[n]
    BY <1>1
  <2>3. a = b /\ m = n
    <3>1. held[u][a][m] # None /\ held[u][a][m] = held[u][b][n]
      BY <2>1, <2>2
    <3>2. held[u][a][m] # None /\ held[u][a][m] = held[u][b][n] => a = b /\ m = n
      BY <1>5
    <3> QED
      BY <3>1, <3>2
  <2> QED
    BY <2>1, <2>2, <2>3
<1>4. ASSUME NEW v \in Value, v <= last, destructor[v], destroyed[v] = 0
      PROVE  \E y \in Where, j \in Nat : h[owner[v]][y][j] = v
  <2>1. PICK y \in Where, j \in Nat : held[owner[v]][y][j] = v
    BY <1>4 DEF Kept
  <2>2. v # None /\ owner[v] \in Thread
    BY DEF Value, None
  <2>3. CASE owner[v] = t /\ y = w /\ j \in K
    BY <2>1, <2>3
  <2>4. CASE ~(owner[v] = t /\ y = w /\ j \in K)
    <3>1. ~(owner[v] = t /\ y = x /\ \E k \in K : j = f[k])
      BY <1>4, <2>1, <2>2 DEF Droppable
    <3> QED
      BY <2>1, <2>2, <2>4, <3>1
  <2> QED
    BY <2>3, <2>4
<1> QED
  BY <1>2, <1>3, <1>4 DEF Kept

-----------------------------------------------------------------------------
(* Frames and stacks. *)
LEMMA FrameType ==
  ASSUME NEW f \in Frame
  PROVE  \/ f.op = "destroy" /\ f.key \in Slot /\ f.then \in Value \cup {None}
         \/ f.op = "final" /\ f.key \in 0 .. MaxSlots /\ f.array \in Array /\ f.busy \in BOOLEAN
BY DEF Frame

LEMMA FrameDestroy ==
  ASSUME NEW k \in Slot, NEW v \in Value \cup {None}
  PROVE  LET f == [op |-> "destroy", key |-> k, then |-> v]
         IN  f \in Frame /\ f.op = "destroy" /\ f.key = k /\ f.then = v
BY DEF Frame

LEMMA FrameFinal ==
  ASSUME NEW a \in Array
  PROVE  LET f == [op |-> "final", key |-> 0, array |-> a, busy |-> FALSE]
         IN  f \in Frame /\ f.op = "final" /\ f.key = 0 /\ f.array = a /\ ~f.busy
BY SlotAssumption DEF Frame

(* DestroyEntries goes on to the next entry. *)
LEMMA FrameNext ==
  ASSUME NEW f \in Frame, f.op = "final", f.key < MaxSlots
  PROVE  /\ LET g == [f EXCEPT !.array[f.key] = None, !.key = @ + 1, !.busy = FALSE]
            IN  /\ g \in Frame /\ g.op = "final" /\ g.key = f.key + 1 /\ ~g.busy
                /\ g.array = [f.array EXCEPT ![f.key] = None]
         /\ LET g == [f EXCEPT !.array[f.key] = None, !.key = @ + 1]
            IN  /\ g \in Frame /\ g.op = "final" /\ g.key = f.key + 1 /\ g.busy = f.busy
                /\ g.array = [f.array EXCEPT ![f.key] = None]
         /\ LET g == [f EXCEPT !.busy = TRUE]
            IN  /\ g \in Frame /\ g.op = "final" /\ g.key = f.key /\ g.busy
                /\ g.array = f.array
<1>1. f \in [op : {"final"}, key : 0 .. MaxSlots, array : Array, busy : BOOLEAN]
  BY DEF Frame
<1>2. f.key \in Slot /\ f.key + 1 \in 0 .. MaxSlots /\ f.array \in Array
  BY <1>1, SlotAssumption DEF Slot
<1>3. [f.array EXCEPT ![f.key] = None] \in Array
  BY <1>2 DEF Array
<1> QED
  BY <1>1, <1>2, <1>3 DEF Frame

LEMMA StackFacts ==
  ASSUME NEW s \in Seq(Frame), s # << >>
  PROVE  /\ Len(s) \in Nat \ {0} /\ Last(s) = s[Len(s)] /\ Last(s) \in Frame
         /\ Front(s) \in Seq(Frame) /\ Len(Front(s)) = Len(s) - 1
         /\ \A i \in 1 .. Len(s) - 1 : Front(s)[i] = s[i]
<1>1. Len(s) \in Nat \ {0} /\ Last(s) = s[Len(s)] /\ s[Len(s)] \in Frame
  BY DEF Last
<1> DEFINE n == Len(s) - 1
<1>2. n \in Nat /\ n <= Len(s)
  BY <1>1
<1> HIDE DEF n
<1>3. SubSeq(s, 1, n) \in Seq(Frame) /\ Len(SubSeq(s, 1, n)) = n
  BY <1>2
<1>4. \A i \in 1 .. n : SubSeq(s, 1, n)[i] = s[i]
  BY <1>2
<1> QED
  BY <1>1, <1>3, <1>4 DEF Front, n

LEMMA StackOne ==
  ASSUME NEW s \in Seq(Frame), Len(s) = 1, NEW f \in Frame
  PROVE  Append(Front(s), f) = <<f>> /\ Front(s) = << >>
<1>1. Front(s) \in Seq(Frame) /\ Len(Front(s)) = 0
  BY StackFacts
<1>2. Front(s) = << >>
  BY <1>1
<1> QED
  BY <1>2

LEMMA ArrayFacts ==
  ASSUME LocalsInv, NEW t \in Thread
  PROVE  /\ tls[t] # Null => tls[t] \in Array
         /\ \A a \in Array : a # Null
         /\ \A k \in Slot : GetValue(t, k) \in Value \cup {None}
<1>1. tls[t] \in Array \cup {Null}
  BY DEF LocalsInv, LocalsTypeOK
<1>2. 0 \in Slot
  BY SlotAssumption DEF Slot
<1>3. \A a \in Array : a # Null
  BY <1>2 DEF Array, Null
<1> QED
  BY <1>1, <1>3 DEF Array, GetValue

(* What a Store leaves in the slots of its thread. *)
LEMMA StoreFacts ==
  ASSUME LocalsInv, NEW t \in Thread, NEW k \in Slot, NEW v \in Value \cup {None}, Store(t, k, v)
  PROVE  /\ tls' \in [Thread -> Array \cup {Null}] /\ tls'[t] # Null
         /\ \A j \in Slot : tls'[t][j] = IF j = k THEN v ELSE GetValue(t, j)
         /\ \A u \in Thread \ {t} : tls'[u] = tls[u]
<1> DEFINE entries == IF tls[t] = Null THEN [s \in Slot |-> None] ELSE tls[t]
<1>1. entries \in Array /\ \A j \in Slot : entries[j] = GetValue(t, j)
  BY ArrayFacts DEF Array, GetValue
<1>2. tls' = [tls EXCEPT ![t] = [entries EXCEPT ![k] = v]] /\ tls \in [Thread -> Array \cup {Null}]
  BY DEF Store, LocalsInv, LocalsTypeOK
<1> HIDE DEF entries
<1>3. [entries EXCEPT ![k] = v] \in Array
  BY <1>1 DEF Array
<1>4. tls'[t] = [entries EXCEPT ![k] = v] /\ tls' \in [Thread -> Array \cup {Null}]
  BY <1>2, <1>3
<1>5. \A j \in Slot : tls'[t][j] = IF j = k THEN v ELSE entries[j]
  BY <1>1, <1>4 DEF Array
<1> QED
  BY <1>1, <1>2, <1>3, <1>4, <1>5, ArrayFacts

(* Held and Dying, place by place. *)
LEMMA HeldIs ==
  \A t \in Thread, w \in Where, k \in Nat :
    Held[t][w][k] = HeldAt(t, w, k) /\ Dying[t][w][k] = IF DyingAt(t, w, k) THEN 1 ELSE 0
BY DEF Held, Dying

LEMMA HeldIsNext ==
  \A t \in Thread, w \in Where, k \in Nat :
    Held'[t][w][k] = HeldAt(t, w, k)' /\ Dying'[t][w][k] = IF DyingAt(t, w, k)' THEN 1 ELSE 0
BY DEF Held, Dying

LEMMA OthersHeld ==
  ASSUME NEW u \in Thread, tls'[u] = tls[u], frames'[u] = frames[u]
  PROVE  \A w \in Where, k \in Nat : Held'[u][w][k] = Held[u][w][k] /\ Dying'[u][w][k] = Dying[u][w][k]
BY HeldIs, HeldIsNext DEF HeldAt, DyingAt, Final, GetValue, Mine

LEMMA StackOther ==
  ASSUME NEW u \in Thread, StackInv(u),
         frames'[u] = frames[u], life'[u] = life[u], tls'[u] = tls[u], round'[u] = round[u]
  PROVE  StackInv(u)'
BY DEF StackInv

(* Nothing is called and nothing returns. *)
LEMMA KeptSame ==
  ASSUME LocalsInv, UNCHANGED <<tls, frames, runs, ownerVars>>
  PROVE  Kept(Held', Dying', made', runs')
<1>1. Held' = Held /\ Dying' = Dying
  BY DEF Held, Dying, HeldAt, DyingAt, Final, GetValue, Mine
<1>2. made' = made /\ runs' = runs /\ owner' = owner /\ destructor' = destructor
  BY DEF ownerVars
<1> QED
  BY <1>1, <1>2 DEF LocalsInv, Kept

-----------------------------------------------------------------------------
(* A value is stored in, or removed from, a slot that no frame waits for. *)
LEMMA HeldStore ==
  ASSUME LocalsInv, NEW t \in Thread, NEW k \in Slot, NEW v \in Value \cup {None},
         Store(t, k, v), UNCHANGED frames
  PROVE  Placed(Held, Held', t, "slot", k, v) /\ Placed(Dying, Dying', t, "slot", k, Dying[t]["slot"][k])
<1>1. \A u \in Thread \ {t} : tls'[u] = tls[u]
  BY StoreFacts
<1>2. /\ tls'[t] # Null
      /\ \A j \in Slot : tls'[t][j] = IF j = k THEN v ELSE GetValue(t, j)
  BY StoreFacts
<1>3. ASSUME NEW u \in Thread \ {t}, NEW x \in Where, NEW j \in Nat
      PROVE  Held'[u][x][j] = Held[u][x][j] /\ Dying'[u][x][j] = Dying[u][x][j]
  BY <1>1, OthersHeld
<1>4. ASSUME NEW x \in Where, NEW j \in Nat
      PROVE  /\ Held'[t][x][j] = IF x = "slot" /\ j = k THEN v ELSE Held[t][x][j]
             /\ Dying'[t][x][j] = Dying[t][x][j]
  <2>1. HeldAt(t, x, j)' = IF x = "slot" /\ j = k THEN v ELSE HeldAt(t, x, j)
    BY <1>2 DEF HeldAt, GetValue, Final, Where
  <2>2. DyingAt(t, x, j)' = DyingAt(t, x, j)
    BY DEF DyingAt, Final, Mine
  <2> QED
    BY <2>1, <2>2, HeldIs, HeldIsNext
<1> QED
  BY <1>3, <1>4 DEF Placed

(* A call waits for the destructor of the value in slot k. *)
LEMMA HeldPush ==
  ASSUME LocalsInv, NEW t \in Thread, NEW k \in Slot, NEW v \in Value \cup {None},
         frames' = [frames EXCEPT ![t] = Append(@, [op |-> "destroy", key |-> k, then |-> v])],
         UNCHANGED tls
  PROVE  /\ Placed(Held, Held', t, "frame", Len(frames[t]) + 1, v)
         /\ Placed(Dying, Dying', t, "slot", k, 1)
<1> DEFINE f == [op |-> "destroy", key |-> k, then |-> v]
<1> DEFINE n == Len(frames[t])
<1>1. f \in Frame /\ f.op = "destroy" /\ f.key = k /\ f.then = v
  BY FrameDestroy
<1>2. frames \in [Thread -> Seq(Frame)] /\ frames[t] \in Seq(Frame) /\ n \in Nat
  BY DEF LocalsInv
<1>3. frames'[t] = Append(frames[t], f) /\ \A u \in Thread \ {t} : frames'[u] = frames[u]
  BY <1>2
<1> HIDE DEF f
<1>4. /\ Len(frames'[t]) = n + 1 /\ DOMAIN frames'[t] = 1 .. n + 1 /\ DOMAIN frames[t] = 1 .. n
      /\ frames'[t][n + 1] = f /\ \A i \in 1 .. n : frames'[t][i] = frames[t][i]
  BY <1>1, <1>2, <1>3
<1>5. Final(t)' = Final(t) /\ (Final(t) => frames'[t][1] = frames[t][1])
  <2>1. CASE n = 0
    BY <2>1, <1>1, <1>2, <1>4 DEF Final
  <2>2. CASE n # 0
    <3>1. 1 \in 1 .. n /\ frames[t] # << >> /\ frames'[t] # << >>
      BY <2>2, <1>2, <1>4
    <3> QED
      BY <3>1, <1>4 DEF Final
  <2> QED
    BY <2>1, <2>2
<1>6. ASSUME NEW u \in Thread \ {t}, NEW x \in Where, NEW j \in Nat
      PROVE  Held'[u][x][j] = Held[u][x][j] /\ Dying'[u][x][j] = Dying[u][x][j]
  BY <1>3, OthersHeld
<1>7. ASSUME NEW x \in Where, NEW j \in Nat
      PROVE  /\ Held'[t][x][j] = IF x = "frame" /\ j = n + 1 THEN v ELSE Held[t][x][j]
             /\ Dying'[t][x][j] = IF x = "slot" /\ j = k THEN 1 ELSE Dying[t][x][j]
  <2>1. HeldAt(t, x, j)' = IF x = "frame" /\ j = n + 1 THEN v ELSE HeldAt(t, x, j)
    <3>1. CASE x = "slot"
      BY <3>1 DEF HeldAt, GetValue
    <3>2. CASE x = "final"
      BY <3>2, <1>5 DEF HeldAt
    <3>3. CASE x = "frame"
      <4>1. CASE j = n + 1
        BY <3>3, <4>1, <1>1, <1>2, <1>4 DEF HeldAt
      <4>2. CASE j # n + 1
        <5>1. j \in 1 .. n <=> j \in 1 .. n + 1
          BY <4>2, <1>2
        <5> QED
          BY <3>3, <4>2, <5>1, <1>4 DEF HeldAt
      <4> QED
        BY <4>1, <4>2
    <3> QED
      BY <3>1, <3>2, <3>3 DEF Where
  <2>2. DyingAt(t, x, j)' <=> (x = "slot" /\ j = k) \/ DyingAt(t, x, j)
    <3>1. Mine(t, j)' <=> Mine(t, j) /\ j # k
      BY <1>1, <1>2, <1>4 DEF Mine
    <3> QED
      BY <3>1, <1>5 DEF DyingAt, Where
  <2> QED
    BY <2>1, <2>2, HeldIs, HeldIsNext
<1> QED
  BY <1>6, <1>7 DEF Placed

(* The stack stays well formed when client code calls SetValue or          *)
(* DestroyValue for a slot that no frame waits for.                        *)
LEMMA StackPush ==
  ASSUME LocalsInv, NEW t \in Thread, NEW k \in Slot, NEW v \in Value \cup {None},
         InClientCode(t), Mine(t, k),
         frames' = [frames EXCEPT ![t] = Append(@, [op |-> "destroy", key |-> k, then |-> v])],
         UNCHANGED <<tls, life, round>>
  PROVE  frames' \in [Thread -> Seq(Frame)] /\ \A u \in Thread : StackInv(u)'
<1> DEFINE f == [op |-> "destroy", key |-> k, then |-> v]
<1> DEFINE n == Len(frames[t])
<1>1. f \in Frame /\ f.op = "destroy" /\ f.key = k /\ f.then = v
  BY FrameDestroy
<1>2. frames \in [Thread -> Seq(Frame)] /\ frames[t] \in Seq(Frame) /\ n \in Nat /\ \A u \in Thread : StackInv(u)
  BY DEF LocalsInv
<1>3. frames'[t] = Append(frames[t], f) /\ \A u \in Thread \ {t} : frames'[u] = frames[u]
  BY <1>2
<1>4. frames' \in [Thread -> Seq(Frame)]
  BY <1>1, <1>2
<1> HIDE DEF f
<1>5. /\ Len(frames'[t]) = n + 1 /\ DOMAIN frames'[t] = 1 .. n + 1 /\ DOMAIN frames[t] = 1 .. n
      /\ frames'[t][n + 1] = f /\ \A i \in 1 .. n : frames'[t][i] = frames[t][i]
  BY <1>1, <1>2, <1>3
<1>6. ASSUME NEW i \in 1 .. n + 1, frames'[t][i].op = "final"
      PROVE  i \in 1 .. n /\ i = 1 /\ frames'[t][i] = frames[t][i] /\ frames[t][i].op = "final" /\ frames[t][i].busy
  <2>1. i # n + 1 /\ i \in 1 .. n
    BY <1>6, <1>1, <1>2, <1>5
  <2>2. frames'[t][i] = frames[t][i] /\ i = 1 /\ (n > 1 => frames[t][i].busy)
    BY <1>2, <1>5, <1>6, <2>1 DEF StackInv
  <2>3. CASE n = 1
    <3>1. Last(frames[t]) = frames[t][1] /\ frames[t] # << >>
      BY <2>3, <1>2 DEF Last
    <3> QED
      BY <1>6, <2>1, <2>2, <3>1 DEF InClientCode, InLoop
  <2>4. CASE n > 1
    BY <1>6, <2>1, <2>2, <2>4
  <2>5. n = 1 \/ n > 1
    <3>1. n \in Nat /\ i \in 1 .. n
      BY <1>2, <2>1
    <3> HIDE DEF n
    <3> QED
      BY <3>1
  <2> QED
    BY <2>3, <2>4, <2>5
<1>7. ASSUME NEW i \in 1 .. n + 1, NEW j \in 1 .. n + 1, i # j,
             frames'[t][i].op = "destroy", frames'[t][j].op = "destroy"
      PROVE  frames'[t][i].key # frames'[t][j].key
  <2>1. \A m \in 1 .. n : frames[t][m].op = "destroy" => frames[t][m].key # k
    BY <1>5 DEF Mine
  <2>2. CASE i = n + 1
    <3>1. j \in 1 .. n
      BY <1>2, <1>7, <2>2
    <3> QED
      BY <1>1, <1>5, <1>7, <2>1, <2>2, <3>1
  <2>3. CASE j = n + 1
    <3>1. i \in 1 .. n
      BY <1>2, <1>7, <2>3
    <3> QED
      BY <1>1, <1>5, <1>7, <2>1, <2>3, <3>1
  <2>4. CASE i # n + 1 /\ j # n + 1
    <3>1. i \in 1 .. n /\ j \in 1 .. n
      BY <1>2, <2>4
    <3> QED
      BY <1>2, <1>5, <1>7, <3>1 DEF StackInv
  <2> QED
    BY <2>2, <2>3, <2>4
<1>8. life[t] # "gone"
  <2>1. CASE frames[t] = << >>
    BY <2>1 DEF InClientCode
  <2>2. CASE frames[t] # << >>
    BY <1>2, <2>2 DEF StackInv
  <2> QED
    BY <2>1, <2>2
<1>9. StackInv(t)'
  <2>1. \A i \in 1 .. n + 1 : frames'[t][i].op = "final" =>
          /\ i = 1 /\ life[t] = "exiting"
          /\ Len(frames'[t]) > 1 => frames'[t][i].busy
          /\ frames'[t][i].busy => frames'[t][i].key < MaxSlots
          /\ \A j \in Slot : j < frames'[t][i].key => frames'[t][i].array[j] = None
    <3> TAKE i \in 1 .. n + 1
    <3> HAVE frames'[t][i].op = "final"
    <3>1. i \in 1 .. n /\ i = 1 /\ frames'[t][i] = frames[t][i] /\ frames[t][i].op = "final" /\ frames[t][i].busy
      BY <1>6
    <3>2. /\ life[t] = "exiting" /\ frames[t][i].key < MaxSlots
          /\ \A j \in Slot : j < frames[t][i].key => frames[t][i].array[j] = None
      BY <1>2, <1>5, <3>1 DEF StackInv
    <3> QED
      BY <3>1, <3>2
  <2> QED
    BY <1>5, <1>7, <1>8, <2>1 DEF StackInv
<1> QED
  BY <1>2, <1>3, <1>4, <1>9, StackOther

-----------------------------------------------------------------------------
(* The calls that client code makes. *)
LEMMA SlotPlace ==
  ASSUME LocalsInv, NEW t \in Thread, NEW k \in Slot
  PROVE  /\ k \in Nat /\ "slot" \in Where
         /\ Held[t]["slot"][k] = GetValue(t, k)
         /\ Mine(t, k) => Dying[t]["slot"][k] = 0
<1>1. k \in Nat /\ "slot" \in Where
  BY SlotAssumption DEF Slot, Where
<1> QED
  BY <1>1, HeldIs DEF HeldAt, DyingAt

LEMMA FramePlace ==
  ASSUME LocalsInv, NEW t \in Thread
  PROVE  /\ Len(frames[t]) + 1 \in Nat /\ "frame" \in Where
         /\ Held[t]["frame"][Len(frames[t]) + 1] = None
         /\ \A j \in Nat : Dying[t]["frame"][j] = 0 /\ Dying'[t]["frame"][j] = 0
<1>1. frames[t] \in Seq(Frame)
  BY DEF LocalsInv
<1>2. Len(frames[t]) + 1 \in Nat /\ "frame" \in Where /\ Len(frames[t]) + 1 \notin DOMAIN frames[t]
  BY <1>1 DEF Where
<1>3. HeldAt(t, "frame", Len(frames[t]) + 1) = None
  BY <1>2 DEF HeldAt
<1>4. \A j \in Nat : ~DyingAt(t, "frame", j) /\ ~DyingAt(t, "frame", j)'
  BY DEF DyingAt
<1> QED
  BY <1>2, <1>3, <1>4, HeldIs, HeldIsNext

(* The destructor of the value in slot k is called. *)
LEMMA CallsDestructor ==
  ASSUME LocalsInv, NEW t \in Thread, NEW k \in Slot, NEW v \in Value \cup {None},
         Mine(t, k), HasDestructor(GetValue(t, k)), CallDestructor(GetValue(t, k)),
         frames' = [frames EXCEPT ![t] = Append(@, [op |-> "destroy", key |-> k, then |-> v])],
         UNCHANGED tls
  PROVE  Kept(Held, Dying', made, runs') /\ runs' \in [Value -> Nat]
<1>1. Held[t]["slot"][k] = GetValue(t, k) /\ Dying[t]["slot"][k] = 0 /\ k \in Nat /\ "slot" \in Where
  BY SlotPlace
<1>2. GetValue(t, k) # None /\ GetValue(t, k) \in Value
  BY ArrayFacts DEF HasDestructor
<1>3. /\ runs \in [Value -> Nat] /\ owner \in [Value -> Thread] /\ made \in Nat /\ made <= MaxValues
      /\ Kept(Held, Dying, made, runs)
  BY RoundAssumption DEF LocalsInv, LocalsTypeOK
<1>4. runs' = [runs EXCEPT ![Held[t]["slot"][k]] = @ + 1]
  BY <1>1 DEF CallDestructor
<1>5. Placed(Dying, Dying', t, "slot", k, 1)
  BY HeldPush
<1>6. Kept(Held, Dying', made, runs')
  BY <1>1, <1>2, <1>3, <1>4, <1>5, KeptBegin
<1> QED
  BY <1>2, <1>3, <1>6 DEF CallDestructor

(* A Store leaves the stacks alone. *)
LEMMA StackStore ==
  ASSUME NEW t \in Thread, \A u \in Thread : StackInv(u), UNCHANGED <<frames, life, round>>,
         life[t] # "gone", \A u \in Thread \ {t} : tls'[u] = tls[u]
  PROVE  \A u \in Thread : StackInv(u)'
<1> TAKE u \in Thread
<1>1. CASE u # t
  BY <1>1, StackOther
<1>2. CASE u = t
  BY <1>2 DEF StackInv
<1> QED
  BY <1>1, <1>2

LEMMA SlotsSame == ASSUME SlotsInv, UNCHANGED allocVars PROVE SlotsInv'
BY DEF SlotsInv, allocVars

LEMMA KeptNext ==
  ASSUME UNCHANGED <<owner, destructor>>, Kept(Held', Dying', made', runs')
  PROVE  Kept(Held, Dying, made, runs)'
BY DEF Kept

LEMMA SetValueKeeps ==
  ASSUME LocalsInv, NEW t \in Thread, NEW k \in Slot, SetValue(t, k)
  PROVE  LocalsInv'
<1>1. /\ made \in 0 .. MaxValues /\ owner \in [Value -> Thread] /\ runs \in [Value -> Nat]
      /\ destructor \in [Value -> BOOLEAN] /\ frames \in [Thread -> Seq(Frame)]
      /\ Kept(Held, Dying, made, runs) /\ \A u \in Thread : StackInv(u)
  BY DEF LocalsInv, LocalsTypeOK
<1>2. /\ InClientCode(t) /\ Mine(t, k) /\ made + 1 \in Value /\ owner[made + 1] = t /\ made' = made + 1
      /\ UNCHANGED <<life, round, owner, destructor, allocVars>>
  BY <1>1, RoundAssumption DEF SetValue, Value
<1>3. made' \in 0 .. MaxValues /\ made \in Nat
  BY <1>1, <1>2, RoundAssumption DEF Value
<1>4. CASE HasDestructor(GetValue(t, k))
  <2>1. /\ CallDestructor(GetValue(t, k)) /\ UNCHANGED tls
        /\ frames' = [frames EXCEPT ![t] = Append(@, [op |-> "destroy", key |-> k, then |-> made + 1])]
    BY <1>4 DEF SetValue
  <2>2. Kept(Held, Dying', made, runs') /\ runs' \in [Value -> Nat]
    BY <1>2, <1>4, <2>1, CallsDestructor
  <2>3. Placed(Held, Held', t, "frame", Len(frames[t]) + 1, made + 1)
    BY <1>2, <2>1, HeldPush
  <2>4. Kept(Held', Dying', made + 1, runs')
    <3>1. Droppable(Held, runs', t, "frame", Len(frames[t]) + 1)
      BY FramePlace DEF Droppable
    <3> QED
      BY <1>1, <1>2, <1>3, <2>2, <2>3, <3>1, FramePlace, KeptPut
  <2>5. frames' \in [Thread -> Seq(Frame)] /\ \A u \in Thread : StackInv(u)'
    BY <1>2, <2>1, StackPush
  <2>6. LocalsTypeOK'
    BY <1>2, <1>3, <2>1, <2>2, <2>5 DEF LocalsInv, LocalsTypeOK, allocVars
  <2>7. SlotsInv'
    BY <1>2, SlotsSame DEF LocalsInv
  <2> QED
    BY <1>2, <2>4, <2>5, <2>6, <2>7 DEF LocalsInv, Kept
<1>5. CASE ~HasDestructor(GetValue(t, k))
  <2>1. Store(t, k, made + 1) /\ UNCHANGED <<frames, runs>>
    BY <1>5 DEF SetValue
  <2>2. Placed(Held, Held', t, "slot", k, made + 1)
    BY <1>2, <2>1, HeldStore
  <2>3. Dying' = Dying
    BY <2>1 DEF Dying, DyingAt, Final, Mine
  <2>4. Kept(Held', Dying', made + 1, runs')
    <3>1. Droppable(Held, runs, t, "slot", k)
      BY <1>5, SlotPlace DEF Droppable, HasDestructor
    <3>2. k \in Nat /\ "slot" \in Where /\ Dying[t]["slot"][k] = 0
      BY <1>2, SlotPlace
    <3> QED
      BY <1>1, <1>2, <1>3, <2>1, <2>2, <2>3, <3>1, <3>2, KeptPut
  <2>5. /\ tls' \in [Thread -> Array \cup {Null}]
        /\ \A u \in Thread \ {t} : tls'[u] = tls[u]
    BY <1>2, <2>1, StoreFacts
  <2>6. LocalsTypeOK'
    BY <1>2, <1>3, <2>1, <2>5 DEF LocalsInv, LocalsTypeOK, allocVars
  <2>7. life[t] # "gone"
    BY <1>1, <1>2 DEF InClientCode, StackInv
  <2>8. \A u \in Thread : StackInv(u)'
    BY <1>1, <1>2, <2>1, <2>5, <2>7, StackStore
  <2> QED
    BY <1>1, <1>2, <2>1, <2>4, <2>6, <2>8, SlotsSame DEF LocalsInv, Kept
<1> QED
  BY <1>4, <1>5

LEMMA DestroyValueKeeps ==
  ASSUME LocalsInv, NEW t \in Thread, NEW k \in Slot, DestroyValue(t, k)
  PROVE  LocalsInv'
<1>1. /\ made \in Nat /\ owner \in [Value -> Thread] /\ runs \in [Value -> Nat]
      /\ frames \in [Thread -> Seq(Frame)]
      /\ Kept(Held, Dying, made, runs) /\ \A u \in Thread : StackInv(u)
  BY RoundAssumption DEF LocalsInv, LocalsTypeOK
<1>2. /\ InClientCode(t) /\ Mine(t, k) /\ None \in Value \cup {None}
      /\ UNCHANGED <<life, round, made, owner, destructor, allocVars>>
  BY DEF DestroyValue, ownerVars
<1>3. k \in Nat /\ "slot" \in Where
  BY SlotPlace
<1>4. CASE HasDestructor(GetValue(t, k))
  <2>1. /\ CallDestructor(GetValue(t, k)) /\ UNCHANGED tls
        /\ frames' = [frames EXCEPT ![t] = Append(@, [op |-> "destroy", key |-> k, then |-> None])]
    BY <1>4 DEF DestroyValue
  <2>2. Kept(Held, Dying', made, runs') /\ runs' \in [Value -> Nat]
    BY <1>2, <1>4, <2>1, CallsDestructor
  <2>3. Placed(Held, Held', t, "frame", Len(frames[t]) + 1, None)
    BY <1>2, <2>1, HeldPush
  <2>4. Kept(Held', Dying', made, runs')
    <3>1. Droppable(Held, runs', t, "frame", Len(frames[t]) + 1)
      BY FramePlace DEF Droppable
    <3>2. Placed(Dying', Dying', t, "frame", Len(frames[t]) + 1, 0)
      BY FramePlace DEF Placed
    <3> QED
      BY <1>1, <2>2, <2>3, <3>1, <3>2, FramePlace, KeptDrop
  <2>5. frames' \in [Thread -> Seq(Frame)] /\ \A u \in Thread : StackInv(u)'
    BY <1>2, <2>1, StackPush
  <2>6. LocalsTypeOK'
    BY <1>2, <2>1, <2>2, <2>5 DEF LocalsInv, LocalsTypeOK, allocVars
  <2>7. SlotsInv'
    BY <1>2, SlotsSame DEF LocalsInv
  <2>8. Kept(Held, Dying, made, runs)'
    BY <1>2, <2>4, KeptNext
  <2> QED
    BY <2>5, <2>6, <2>7, <2>8 DEF LocalsInv
<1>5. CASE ~HasDestructor(GetValue(t, k))
  <2>1. Store(t, k, None) /\ UNCHANGED <<frames, runs>>
    BY <1>5 DEF DestroyValue
  <2>2. Placed(Held, Held', t, "slot", k, None) /\ Placed(Dying, Dying', t, "slot", k, Dying[t]["slot"][k])
    BY <1>2, <2>1, HeldStore
  <2>3. Droppable(Held, runs, t, "slot", k)
    BY <1>5, SlotPlace DEF Droppable, HasDestructor
  <2>4. Kept(Held', Dying', made, runs)
    BY <1>1, <1>3, <2>2, <2>3, KeptDrop
  <2>5. /\ tls' \in [Thread -> Array \cup {Null}]
        /\ \A u \in Thread \ {t} : tls'[u] = tls[u]
    BY <1>2, <2>1, StoreFacts
  <2>6. LocalsTypeOK'
    BY <1>2, <2>1, <2>5 DEF LocalsInv, LocalsTypeOK, allocVars
  <2>7. life[t] # "gone"
    BY <1>1, <1>2 DEF InClientCode, StackInv
  <2>8. \A u \in Thread : StackInv(u)'
    BY <1>1, <1>2, <2>1, <2>5, <2>7, StackStore
  <2> QED
    BY <1>1, <1>2, <2>1, <2>4, <2>6, <2>8, SlotsSame DEF LocalsInv, Kept
<1> QED
  BY <1>4, <1>5

-----------------------------------------------------------------------------
(* DestroyEntries is in its loop or waits for a destructor that has called *)
(* nothing: its frame is the only one.                                     *)
LEMMA OneFinal ==
  ASSUME LocalsInv, NEW t \in Thread, frames[t] # << >>, Last(frames[t]).op = "final"
  PROVE  /\ Len(frames[t]) = 1 /\ Last(frames[t]) = frames[t][1] /\ frames[t][1] \in Frame
         /\ DOMAIN frames[t] = {1} /\ frames[t][1].op = "final" /\ life[t] = "exiting"
         /\ frames[t][1].busy => frames[t][1].key < MaxSlots
         /\ \A k \in Slot : k < frames[t][1].key => frames[t][1].array[k] = None
<1>1. frames[t] \in Seq(Frame) /\ StackInv(t)
  BY DEF LocalsInv
<1> DEFINE n == Len(frames[t])
<1>2. n \in Nat \ {0} /\ Last(frames[t]) = frames[t][n] /\ frames[t][n] \in Frame
  BY <1>1, StackFacts
<1>3. DOMAIN frames[t] = 1 .. n
  BY <1>1
<1> HIDE DEF n
<1>4. n \in DOMAIN frames[t]
  BY <1>2, <1>3
<1>5. n = 1 /\ life[t] = "exiting"
  BY <1>1, <1>2, <1>4 DEF StackInv
<1>6. frames[t][1].op = "final" /\ 1 \in DOMAIN frames[t]
  BY <1>2, <1>4, <1>5
<1>7. /\ frames[t][1].busy => frames[t][1].key < MaxSlots
      /\ \A k \in Slot : k < frames[t][1].key => frames[t][1].array[k] = None
  BY <1>1, <1>6 DEF StackInv
<1>8. DOMAIN frames[t] = {1}
  BY <1>3, <1>5
<1> QED
  BY <1>2, <1>5, <1>6, <1>7, <1>8 DEF n

(* The loop of DestroyEntries replaces its frame, the only one. *)
FinalReplaced(t, g) ==
  /\ frames' \in [Thread -> Seq(Frame)] /\ frames'[t] = <<g>> /\ "final" \in Where
  /\ \A u \in Thread \ {t} : frames'[u] = frames[u]
  /\ \A j \in Nat :
       /\ Held[t]["final"][j] = IF j \in Slot THEN frames[t][1].array[j] ELSE None
       /\ Dying[t]["final"][j] = IF frames[t][1].busy /\ frames[t][1].key = j THEN 1 ELSE 0
       /\ Held'[t]["final"][j] = IF j \in Slot THEN g.array[j] ELSE None
       /\ Dying'[t]["final"][j] = IF g.busy /\ g.key = j THEN 1 ELSE 0
  /\ \A u \in Thread, x \in Where, j \in Nat : ~(u = t /\ x = "final") =>
       Held'[u][x][j] = Held[u][x][j] /\ Dying'[u][x][j] = Dying[u][x][j]

LEMMA HeldFinal ==
  ASSUME LocalsInv, NEW t \in Thread, frames[t] # << >>, Last(frames[t]).op = "final",
         NEW g \in Frame, g.op = "final",
         frames' = [frames EXCEPT ![t] = Append(Front(@), g)], UNCHANGED tls
  PROVE  FinalReplaced(t, g)
<1>1. frames \in [Thread -> Seq(Frame)] /\ frames[t] \in Seq(Frame)
  BY DEF LocalsInv
<1>3. Len(frames[t]) = 1
  BY OneFinal
<1>2. Append(Front(frames[t]), g) = <<g>> /\ <<g>> \in Seq(Frame)
  BY <1>1, <1>3, StackOne
<1>4. frames'[t] = <<g>> /\ \A u \in Thread \ {t} : frames'[u] = frames[u]
  BY <1>1, <1>2
<1>5. frames' \in [Thread -> Seq(Frame)]
  BY <1>1, <1>2
<1>6. frames[t][1] \in Frame /\ frames[t][1].op = "final" /\ Last(frames[t]) = frames[t][1] /\ DOMAIN frames[t] = {1}
  BY OneFinal
<1>7. frames'[t][1] = g /\ DOMAIN frames'[t] = {1} /\ frames'[t] # << >>
  BY <1>4
<1>8. Final(t) /\ Final(t)' /\ "final" \in Where
  BY <1>6, <1>7 DEF Final, Where
<1>9. ASSUME NEW j \in Nat
      PROVE  /\ Held[t]["final"][j] = IF j \in Slot THEN frames[t][1].array[j] ELSE None
             /\ Dying[t]["final"][j] = IF frames[t][1].busy /\ frames[t][1].key = j THEN 1 ELSE 0
             /\ Held'[t]["final"][j] = IF j \in Slot THEN g.array[j] ELSE None
             /\ Dying'[t]["final"][j] = IF g.busy /\ g.key = j THEN 1 ELSE 0
  <2>1. /\ HeldAt(t, "final", j) = IF j \in Slot THEN frames[t][1].array[j] ELSE None
        /\ HeldAt(t, "final", j)' = IF j \in Slot THEN g.array[j] ELSE None
    BY <1>7, <1>8 DEF HeldAt
  <2>2. /\ DyingAt(t, "final", j) <=> frames[t][1].busy /\ frames[t][1].key = j
        /\ DyingAt(t, "final", j)' <=> g.busy /\ g.key = j
    BY <1>7, <1>8 DEF DyingAt
  <2> QED
    BY <2>1, <2>2, <1>8, HeldIs, HeldIsNext
<1>10. ASSUME NEW u \in Thread, NEW x \in Where, NEW j \in Nat, ~(u = t /\ x = "final")
       PROVE  Held'[u][x][j] = Held[u][x][j] /\ Dying'[u][x][j] = Dying[u][x][j]
  <2>1. CASE u # t
    BY <2>1, <1>4, OthersHeld
  <2>2. CASE u = t
    <3>1. HeldAt(t, x, j)' = HeldAt(t, x, j)
      <4>1. CASE x = "slot"
        BY <4>1 DEF HeldAt, GetValue
      <4>2. CASE x = "frame"
        BY <4>2, <1>6, <1>7 DEF HeldAt
      <4> QED
        BY <4>1, <4>2, <2>2, <1>10 DEF Where
    <3>2. ~DyingAt(t, x, j)' /\ ~DyingAt(t, x, j)
      <4>1. Mine(t, j) /\ Mine(t, j)'
        BY <1>6, <1>7 DEF Mine
      <4> QED
        BY <4>1, <2>2, <1>10 DEF DyingAt
    <3> QED
      BY <2>2, <3>1, <3>2, HeldIs, HeldIsNext
  <2> QED
    BY <2>1, <2>2
<1> QED
  BY <1>4, <1>5, <1>8, <1>9, <1>10 DEF FinalReplaced

(* The stack of one frame that is left. *)
LEMMA StackFinal ==
  ASSUME LocalsInv, NEW t \in Thread, NEW g, frames'[t] = <<g>>, g.op = "final", life'[t] = "exiting",
         g.busy => g.key < MaxSlots, \A k \in Slot : k < g.key => g.array[k] = None
  PROVE  StackInv(t)'
<1>1. DOMAIN frames'[t] = {1} /\ frames'[t][1] = g /\ Len(frames'[t]) = 1
  OBVIOUS
<1> QED
  BY <1>1 DEF StackInv

(* A destructor returns to DestroyEntries. *)
LEMMA ReturnsToLoop ==
  ASSUME LocalsInv, NEW t \in Thread, DestructorReturns(t), Last(frames[t]).op = "final"
  PROVE  LocalsInv'
<1> DEFINE f == frames[t][1]
<1> DEFINE g == [f EXCEPT !.array[f.key] = None, !.key = @ + 1, !.busy = FALSE]
<1>1. frames[t] # << >>
  BY DEF DestructorReturns
<1>3. Len(frames[t]) = 1 /\ Last(frames[t]) = f
  BY <1>1, OneFinal
<1>2. f.busy
  BY <1>1, <1>3 DEF DestructorReturns, InLoop
<1>4. /\ f \in Frame /\ f.op = "final" /\ f.busy /\ f.key < MaxSlots /\ life[t] = "exiting"
      /\ \A k \in Slot : k < f.key => f.array[k] = None
  BY <1>1, <1>2, OneFinal
<1>5. f.key \in Slot /\ f.array \in Array
  BY <1>4, FrameType, SlotAssumption DEF Slot
<1>6. /\ frames' = [frames EXCEPT ![t] = Append(Front(@), g)]
      /\ UNCHANGED <<tls, life, round, runs, made, owner, destructor, allocVars>>
  BY <1>3, <1>4 DEF DestructorReturns, ownerVars
<1>7. g \in Frame /\ g.op = "final" /\ g.key = f.key + 1 /\ ~g.busy /\ g.array = [f.array EXCEPT ![f.key] = None]
  BY <1>4, FrameNext
<1>8. \A k \in Slot : g.array[k] = IF k = f.key THEN None ELSE f.array[k]
  BY <1>5, <1>7 DEF Array
<1> HIDE DEF g
<1>9. /\ frames' \in [Thread -> Seq(Frame)] /\ frames'[t] = <<g>> /\ "final" \in Where
      /\ \A u \in Thread \ {t} : frames'[u] = frames[u]
      /\ \A j \in Nat :
           /\ Held[t]["final"][j] = IF j \in Slot THEN f.array[j] ELSE None
           /\ Dying[t]["final"][j] = IF f.busy /\ f.key = j THEN 1 ELSE 0
           /\ Held'[t]["final"][j] = IF j \in Slot THEN g.array[j] ELSE None
           /\ Dying'[t]["final"][j] = IF g.busy /\ g.key = j THEN 1 ELSE 0
      /\ \A u \in Thread, x \in Where, j \in Nat : ~(u = t /\ x = "final") =>
           Held'[u][x][j] = Held[u][x][j] /\ Dying'[u][x][j] = Dying[u][x][j]
  <2>1. FinalReplaced(t, g)
    BY <1>1, <1>6, <1>7, HeldFinal
  <2> QED
    BY <2>1 DEF FinalReplaced
<1>10. f.key \in Nat
  BY <1>5, SlotAssumption DEF Slot
<1>11. Placed(Held, Held', t, "final", f.key, None) /\ Placed(Dying, Dying', t, "final", f.key, 0)
  <2>1. ASSUME NEW u \in Thread, NEW x \in Where, NEW j \in Nat
        PROVE  /\ Held'[u][x][j] = IF u = t /\ x = "final" /\ j = f.key THEN None ELSE Held[u][x][j]
               /\ Dying'[u][x][j] = IF u = t /\ x = "final" /\ j = f.key THEN 0 ELSE Dying[u][x][j]
    <3>1. CASE u = t /\ x = "final"
      <4>1. Held'[u][x][j] = IF j = f.key THEN None ELSE Held[u][x][j]
        BY <3>1, <1>5, <1>8, <1>9
      <4>2. Dying'[u][x][j] = IF j = f.key THEN 0 ELSE Dying[u][x][j]
        BY <3>1, <1>4, <1>7, <1>9
      <4> QED
        BY <3>1, <4>1, <4>2
    <3>2. CASE ~(u = t /\ x = "final")
      BY <3>2, <1>9
    <3> QED
      BY <3>1, <3>2
  <2> QED
    BY <2>1 DEF Placed
<1>12. Droppable(Held, runs, t, "final", f.key)
  BY <1>4, <1>9, <1>10 DEF Droppable, LocalsInv, Kept
<1>13. Kept(Held', Dying', made, runs)
  <2>1. made \in Nat /\ owner \in [Value -> Thread] /\ Kept(Held, Dying, made, runs)
    BY RoundAssumption DEF LocalsInv, LocalsTypeOK
  <2> QED
    BY <2>1, <1>9, <1>10, <1>11, <1>12, KeptDrop
<1>14. \A u \in Thread : StackInv(u)'
  <2>1. \A k \in Slot : k < g.key => g.array[k] = None
    BY <1>4, <1>5, <1>7, <1>8, SlotAssumption DEF Slot
  <2>2. StackInv(t)'
    BY <1>4, <1>6, <1>7, <1>9, <2>1, StackFinal
  <2>3. \A u \in Thread \ {t} : StackInv(u)'
    BY <1>6, <1>9, StackOther DEF LocalsInv
  <2> QED
    BY <2>2, <2>3
<1>15. LocalsTypeOK'
  BY <1>6, <1>9 DEF LocalsInv, LocalsTypeOK, allocVars
<1> QED
  BY <1>6, <1>9, <1>13, <1>14, <1>15, SlotsSame DEF LocalsInv, Kept

(* One turn of the loop. *)
LEMMA DestroyEntryKeeps ==
  ASSUME LocalsInv, NEW t \in Thread, DestroyEntry(t)
  PROVE  LocalsInv'
<1> DEFINE f == frames[t][1]
<1>1. frames[t] # << >> /\ Last(frames[t]).op = "final" /\ ~Last(frames[t]).busy
  BY DEF DestroyEntry, InLoop
<1>3. Len(frames[t]) = 1 /\ Last(frames[t]) = f
  BY <1>1, OneFinal
<1>4. /\ f \in Frame /\ f.op = "final" /\ ~f.busy /\ f.key < MaxSlots /\ life[t] = "exiting"
      /\ \A k \in Slot : k < f.key => f.array[k] = None
  BY <1>1, <1>3, OneFinal DEF DestroyEntry
<1>5. f.key \in Slot /\ f.key \in Nat /\ f.array \in Array
  BY <1>4, FrameType, SlotAssumption DEF Slot
<1>6. UNCHANGED <<tls, life, round, made, owner, destructor, allocVars>>
  BY DEF DestroyEntry, ownerVars
<1>7. /\ made \in Nat /\ made <= MaxValues /\ owner \in [Value -> Thread] /\ runs \in [Value -> Nat]
      /\ Kept(Held, Dying, made, runs)
  BY RoundAssumption DEF LocalsInv, LocalsTypeOK
<1>8. CASE HasDestructor(f.array[f.key])
  <2> DEFINE g == [f EXCEPT !.busy = TRUE]
  <2>1. /\ frames' = [frames EXCEPT ![t] = Append(Front(@), g)]
        /\ runs' = [runs EXCEPT ![f.array[f.key]] = @ + 1]
    BY <1>3, <1>8 DEF DestroyEntry, CallDestructor
  <2>2. g \in Frame /\ g.op = "final" /\ g.key = f.key /\ g.busy /\ g.array = f.array
    BY <1>4, FrameNext
  <2> HIDE DEF g
  <2>3. /\ frames' \in [Thread -> Seq(Frame)] /\ frames'[t] = <<g>> /\ "final" \in Where
        /\ \A u \in Thread \ {t} : frames'[u] = frames[u]
        /\ \A j \in Nat :
             /\ Held[t]["final"][j] = IF j \in Slot THEN f.array[j] ELSE None
             /\ Dying[t]["final"][j] = IF f.busy /\ f.key = j THEN 1 ELSE 0
             /\ Held'[t]["final"][j] = IF j \in Slot THEN g.array[j] ELSE None
             /\ Dying'[t]["final"][j] = IF g.busy /\ g.key = j THEN 1 ELSE 0
        /\ \A u \in Thread, x \in Where, j \in Nat : ~(u = t /\ x = "final") =>
             Held'[u][x][j] = Held[u][x][j] /\ Dying'[u][x][j] = Dying[u][x][j]
    <3>1. FinalReplaced(t, g)
      BY <1>1, <1>6, <2>1, <2>2, HeldFinal
    <3> QED
      BY <3>1 DEF FinalReplaced
  <2>4. Held[t]["final"][f.key] = f.array[f.key] /\ f.array[f.key] # None /\ Dying[t]["final"][f.key] = 0
    BY <1>4, <1>5, <1>8, <2>3 DEF HasDestructor
  <2>5. Placed(Dying, Dying', t, "final", f.key, 1)
    <3>1. ASSUME NEW u \in Thread, NEW x \in Where, NEW j \in Nat
          PROVE  Dying'[u][x][j] = IF u = t /\ x = "final" /\ j = f.key THEN 1 ELSE Dying[u][x][j]
      <4>1. CASE u = t /\ x = "final"
        <5>1. /\ Dying[t]["final"][j] = IF f.busy /\ f.key = j THEN 1 ELSE 0
              /\ Dying'[t]["final"][j] = IF g.busy /\ g.key = j THEN 1 ELSE 0
          BY <2>3
        <5>2. ~f.busy /\ g.busy /\ g.key = f.key
          BY <1>4, <2>2
        <5> HIDE DEF f
        <5> QED
          BY <4>1, <5>1, <5>2
      <4>2. CASE ~(u = t /\ x = "final")
        BY <4>2, <2>3
      <4> QED
        BY <4>1, <4>2
    <3> QED
      BY <3>1 DEF Placed
  <2>6. \A u \in Thread, x \in Where, j \in Nat : Held'[u][x][j] = Held[u][x][j]
    BY <2>2, <2>3
  <2>7. Kept(Held, Dying', made, runs')
    <3>1. runs' = [runs EXCEPT ![Held[t]["final"][f.key]] = @ + 1]
      BY <2>1, <2>4
    <3> QED
      BY <1>5, <1>7, <2>3, <2>4, <2>5, <3>1, KeptBegin
  <2>8. Kept(Held', Dying', made, runs')
    <3>1. \A v \in Value : owner[v] \in Thread
      BY <1>7
    <3> QED
      BY <2>6, <2>7, <3>1 DEF Kept
  <2>9. \A u \in Thread : StackInv(u)'
    <3>1. StackInv(t)'
      BY <1>4, <1>6, <2>2, <2>3, StackFinal
    <3>2. \A u \in Thread \ {t} : StackInv(u)'
      BY <1>6, <2>3, StackOther DEF LocalsInv
    <3> QED
      BY <3>1, <3>2
  <2>10. LocalsTypeOK'
    <3>1. f.array[f.key] \in Value
      BY <1>5, <2>4 DEF Array
    <3>2. runs' \in [Value -> Nat]
      BY <1>7, <2>1, <3>1
    <3> QED
      BY <1>6, <2>3, <3>2 DEF LocalsInv, LocalsTypeOK, allocVars
  <2> QED
    BY <1>6, <2>3, <2>8, <2>9, <2>10, SlotsSame DEF LocalsInv, Kept
<1>9. CASE ~HasDestructor(f.array[f.key])
  <2> DEFINE g == [f EXCEPT !.array[f.key] = None, !.key = @ + 1]
  <2>1. frames' = [frames EXCEPT ![t] = Append(Front(@), g)] /\ runs' = runs
    BY <1>3, <1>9 DEF DestroyEntry
  <2>2. g \in Frame /\ g.op = "final" /\ g.key = f.key + 1 /\ ~g.busy /\ g.array = [f.array EXCEPT ![f.key] = None]
    BY <1>4, FrameNext
  <2>3. \A k \in Slot : g.array[k] = IF k = f.key THEN None ELSE f.array[k]
    BY <1>5, <2>2 DEF Array
  <2> HIDE DEF g
  <2>4. /\ frames' \in [Thread -> Seq(Frame)] /\ frames'[t] = <<g>> /\ "final" \in Where
        /\ \A u \in Thread \ {t} : frames'[u] = frames[u]
        /\ \A j \in Nat :
             /\ Held[t]["final"][j] = IF j \in Slot THEN f.array[j] ELSE None
             /\ Dying[t]["final"][j] = IF f.busy /\ f.key = j THEN 1 ELSE 0
             /\ Held'[t]["final"][j] = IF j \in Slot THEN g.array[j] ELSE None
             /\ Dying'[t]["final"][j] = IF g.busy /\ g.key = j THEN 1 ELSE 0
        /\ \A u \in Thread, x \in Where, j \in Nat : ~(u = t /\ x = "final") =>
             Held'[u][x][j] = Held[u][x][j] /\ Dying'[u][x][j] = Dying[u][x][j]
    <3>1. FinalReplaced(t, g)
      BY <1>1, <1>6, <2>1, <2>2, HeldFinal
    <3> QED
      BY <3>1 DEF FinalReplaced
  <2>5. Placed(Held, Held', t, "final", f.key, None) /\ Placed(Dying, Dying', t, "final", f.key, 0)
    <3>1. ASSUME NEW u \in Thread, NEW x \in Where, NEW j \in Nat
          PROVE  /\ Held'[u][x][j] = IF u = t /\ x = "final" /\ j = f.key THEN None ELSE Held[u][x][j]
                 /\ Dying'[u][x][j] = IF u = t /\ x = "final" /\ j = f.key THEN 0 ELSE Dying[u][x][j]
      <4>1. CASE u = t /\ x = "final"
        <5>1. /\ Held[t]["final"][j] = IF j \in Slot THEN f.array[j] ELSE None
              /\ Dying[t]["final"][j] = IF f.busy /\ f.key = j THEN 1 ELSE 0
              /\ Held'[t]["final"][j] = IF j \in Slot THEN g.array[j] ELSE None
              /\ Dying'[t]["final"][j] = IF g.busy /\ g.key = j THEN 1 ELSE 0
          BY <2>4
        <5>2. ~f.busy /\ ~g.busy
          BY <1>4, <2>2
        <5>3. j \in Slot => g.array[j] = IF j = f.key THEN None ELSE f.array[j]
          BY <2>3
        <5> HIDE DEF f
        <5> QED
          BY <4>1, <5>1, <5>2, <5>3
      <4>2. CASE ~(u = t /\ x = "final")
        BY <4>2, <2>4
      <4> QED
        BY <4>1, <4>2
    <3> QED
      BY <3>1 DEF Placed
  <2>6. Droppable(Held, runs, t, "final", f.key)
    BY <1>5, <1>9, <2>4 DEF Droppable, HasDestructor
  <2>7. Kept(Held', Dying', made, runs)
    BY <1>5, <1>7, <2>4, <2>5, <2>6, KeptDrop
  <2>8. \A u \in Thread : StackInv(u)'
    <3>1. \A k \in Slot : k < g.key => g.array[k] = None
      BY <1>4, <1>5, <2>2, <2>3, SlotAssumption DEF Slot
    <3>2. StackInv(t)'
      BY <1>4, <1>6, <2>2, <2>4, <3>1, StackFinal
    <3>3. \A u \in Thread \ {t} : StackInv(u)'
      BY <1>6, <2>4, StackOther DEF LocalsInv
    <3> QED
      BY <3>2, <3>3
  <2>9. LocalsTypeOK'
    BY <1>6, <2>1, <2>4 DEF LocalsInv, LocalsTypeOK, allocVars
  <2> QED
    BY <1>6, <2>1, <2>4, <2>7, <2>8, <2>9, SlotsSame DEF LocalsInv, Kept
<1> QED
  BY <1>8, <1>9

-----------------------------------------------------------------------------
(* A destructor returns to DestroyValue or SetValue: the value that waited *)
(* in the frame moves to the slot of the one destroyed.                    *)
LEMMA ReturnsToCall ==
  ASSUME LocalsInv, NEW t \in Thread, DestructorReturns(t), Last(frames[t]).op = "destroy"
  PROVE  LocalsInv'
<1> DEFINE s == frames[t]
<1> DEFINE n == Len(s)
<1> DEFINE key == s[n].key
<1> DEFINE v == s[n].then
<1>1. s # << >> /\ s \in Seq(Frame) /\ StackInv(t) /\ frames \in [Thread -> Seq(Frame)]
  BY DEF LocalsInv, DestructorReturns
<1>2. /\ n \in Nat \ {0} /\ Last(s) = s[n] /\ s[n] \in Frame /\ DOMAIN s = 1 .. n /\ n \in 1 .. n
      /\ Front(s) \in Seq(Frame) /\ Len(Front(s)) = n - 1 /\ DOMAIN Front(s) = 1 .. n - 1
      /\ \A i \in 1 .. n - 1 : Front(s)[i] = s[i]
  BY <1>1, StackFacts
<1>3. s[n].op = "destroy" /\ key \in Slot /\ v \in Value \cup {None}
  BY <1>2, FrameType
<1>4. /\ Store(t, key, v) /\ frames' = [frames EXCEPT ![t] = Front(@)]
      /\ UNCHANGED <<life, round, runs, made, owner, destructor, allocVars>>
  BY <1>2, <1>3 DEF DestructorReturns, ownerVars
<1>5. /\ frames' \in [Thread -> Seq(Frame)] /\ frames'[t] = Front(s)
      /\ \A u \in Thread \ {t} : frames'[u] = frames[u]
  BY <1>1, <1>2, <1>4
<1>6. /\ tls' \in [Thread -> Array \cup {Null}] /\ tls'[t] # Null
      /\ \A j \in Slot : tls'[t][j] = IF j = key THEN v ELSE GetValue(t, j)
      /\ \A u \in Thread \ {t} : tls'[u] = tls[u]
  BY <1>3, <1>4, StoreFacts
<1>7. \A i, j \in 1 .. n : s[i].op = "destroy" /\ s[j].op = "destroy" /\ i # j => s[i].key # s[j].key
  BY <1>1, <1>2 DEF StackInv
<1>8. /\ DOMAIN frames'[t] = 1 .. n - 1 /\ Len(frames'[t]) = n - 1
      /\ \A i \in 1 .. n - 1 : frames'[t][i] = s[i] /\ i \in 1 .. n /\ i # n
      /\ \A i \in 1 .. n : i # n => i \in 1 .. n - 1
  BY <1>2, <1>5
<1>9. Final(t)' = Final(t) /\ (Final(t) => frames'[t][1] = s[1])
  <2>1. CASE n = 1
    <3>1. frames'[t] = << >>
      BY <2>1, <1>2, <1>5
    <3> QED
      BY <2>1, <3>1, <1>3 DEF Final
  <2>2. CASE n # 1
    <3>1. 1 \in 1 .. n - 1 /\ n - 1 # 0
      <4>1. n \in Nat \ {0}
        BY <1>2
      <4> HIDE DEF n
      <4> QED
        BY <2>2, <4>1
    <3>2. frames'[t] # << >>
      BY <3>1, <1>8
    <3> QED
      BY <3>1, <3>2, <1>1, <1>8 DEF Final
  <2> QED
    BY <2>1, <2>2
<1>10. ASSUME NEW j \in Nat, j = key
       PROVE  Mine(t, j)' /\ ~Mine(t, j)
  <2>1. ~Mine(t, j)
    BY <1>2, <1>3, <1>10 DEF Mine
  <2>2. ASSUME NEW i \in 1 .. n - 1, s[i].op = "destroy"
        PROVE  s[i].key # key
    BY <2>2, <1>2, <1>3, <1>7, <1>8
  <2>3. \A i \in DOMAIN frames'[t] : frames'[t][i].op = "destroy" => frames'[t][i].key # j
    BY <2>2, <1>8, <1>10
  <2>4. Mine(t, j)'
    BY <2>3 DEF Mine
  <2> QED
    BY <2>1, <2>4
<1>11. ASSUME NEW j \in Nat, j # key
       PROVE  Mine(t, j)' = Mine(t, j)
  BY <1>2, <1>3, <1>8, <1>11 DEF Mine
<1> HIDE DEF s, n, key, v
<1>12. ASSUME NEW x \in Where, NEW j \in Nat
       PROVE  /\ HeldAt(t, x, j)' = IF x = "slot" /\ j = key THEN v ELSE IF x = "frame" /\ j = n THEN None ELSE HeldAt(t, x, j)
              /\ DyingAt(t, x, j)' <=> ~(x = "slot" /\ j = key) /\ DyingAt(t, x, j)
  <2>1. CASE x = "slot"
    <3>1. HeldAt(t, x, j)' = IF j = key THEN v ELSE HeldAt(t, x, j)
      BY <2>1, <1>3, <1>6 DEF HeldAt, GetValue
    <3>2. CASE j = key
      <4>1. ~DyingAt(t, x, j)'
        BY <2>1, <3>2, <1>10 DEF DyingAt
      <4> QED
        BY <2>1, <3>1, <3>2, <4>1
    <3>3. CASE j # key
      <4>1. DyingAt(t, x, j)' <=> DyingAt(t, x, j)
        BY <2>1, <3>3, <1>11 DEF DyingAt
      <4> QED
        BY <2>1, <3>1, <3>3, <4>1
    <3> QED
      BY <3>2, <3>3
  <2>2. CASE x = "final"
    BY <2>2, <1>9 DEF HeldAt, DyingAt, s
  <2>3. CASE x = "frame"
    <3>1. CASE j = n
      <4>1. n \notin 1 .. n - 1
        BY <1>2
      <4> QED
        BY <2>3, <3>1, <4>1, <1>8 DEF HeldAt, DyingAt
    <3>2. CASE j # n
      BY <2>3, <3>2, <1>2, <1>8 DEF HeldAt, DyingAt, s
    <3> QED
      BY <3>1, <3>2
  <2> QED
    BY <2>1, <2>2, <2>3 DEF Where
<1>13. key \in Nat /\ n \in Nat /\ "slot" \in Where /\ "frame" \in Where
  BY <1>2, <1>3, SlotAssumption DEF Slot, Where
<1>14. /\ Held[t]["frame"][n] = v /\ Dying[t]["frame"][n] = 0
       /\ Held'[t]["frame"][n] = None /\ Held'[t]["slot"][key] = v /\ Dying'[t]["slot"][key] = 0
       /\ Dying[t]["slot"][key] = 1
  <2>1. HeldAt(t, "frame", n) = v /\ ~DyingAt(t, "frame", n)
    BY <1>2, <1>3 DEF HeldAt, DyingAt, s, n, v
  <2>2. ~Mine(t, key)
    BY <1>10, <1>13
  <2>3. DyingAt(t, "slot", key)
    BY <2>2, <1>3 DEF DyingAt
  <2> QED
    BY <2>1, <2>3, <1>12, <1>13, HeldIs, HeldIsNext
<1>15. ASSUME NEW u \in Thread, NEW x \in Where, NEW j \in Nat,
              ~(u = t /\ x = "frame" /\ j = n), ~(u = t /\ x = "slot" /\ j = key)
       PROVE  Held'[u][x][j] = Held[u][x][j] /\ Dying'[u][x][j] = Dying[u][x][j]
  <2>1. CASE u # t
    BY <2>1, <1>5, <1>6, OthersHeld
  <2>2. CASE u = t
    BY <2>2, <1>12, <1>15, HeldIs, HeldIsNext
  <2> QED
    BY <2>1, <2>2
<1>16. made \in Nat /\ owner \in [Value -> Thread] /\ Kept(Held, Dying, made, runs)
  BY RoundAssumption DEF LocalsInv, LocalsTypeOK
<1>17. Kept(Held', Dying', made, runs)
  <2> DEFINE f == [i \in {n} |-> key]
  <2>1. {n} \in SUBSET Nat /\ f \in [{n} -> Nat] /\ \A i, j \in {n} : f[i] = f[j] => i = j
    BY <1>13
  <2>2. f[n] = key /\ \A j : (\E k \in {n} : j = f[k]) <=> j = key
    OBVIOUS
  <2> HIDE DEF f
  <2>3. Droppable(Held, runs, t, "slot", key)
    BY <1>13, <1>14, <1>16 DEF Droppable, Kept
  <2>4. \A k \in {n} : /\ Dying[t]["frame"][k] = 0 /\ Held'[t]["frame"][k] = None
                       /\ Held'[t]["slot"][f[k]] = Held[t]["frame"][k] /\ Dying'[t]["slot"][f[k]] = 0
                       /\ Droppable(Held, runs, t, "slot", f[k])
    BY <1>14, <2>2, <2>3
  <2>5. \A u \in Thread, y \in Where, j \in Nat :
          /\ ~(u = t /\ y = "frame" /\ j \in {n})
          /\ ~(u = t /\ y = "slot" /\ \E k \in {n} : j = f[k])
          => Held'[u][y][j] = Held[u][y][j] /\ (Held'[u][y][j] # None => Dying'[u][y][j] = Dying[u][y][j])
    BY <1>15, <2>2
  <2>6. "frame" # "slot"
    OBVIOUS
  <2> QED
    <3>1. AreMoved(Held, Dying, Held', Dying', runs, t, "frame", "slot", {n}, f)
      BY <1>13, <2>1, <2>4, <2>5, <2>6 DEF AreMoved
    <3> QED
      BY <1>16, <3>1, KeptMove
<1>18. StackInv(t)'
  <2>1. life[t] # "gone"
    BY <1>1 DEF StackInv, s
  <2>2. \A i \in 1 .. n - 1 : frames'[t][i].op = "final" =>
          /\ i = 1 /\ life[t] = "exiting" /\ frames'[t][i].busy
          /\ frames'[t][i].busy => frames'[t][i].key < MaxSlots
          /\ \A k \in Slot : k < frames'[t][i].key => frames'[t][i].array[k] = None
    <3> TAKE i \in 1 .. n - 1
    <3> HAVE frames'[t][i].op = "final"
    <3>1. frames'[t][i] = s[i] /\ i \in 1 .. n
      BY <1>8
    <3>2. n > 1
      BY <1>2
    <3>3. /\ i = 1 /\ life[t] = "exiting" /\ (n > 1 => s[i].busy)
          /\ s[i].busy => s[i].key < MaxSlots
          /\ \A k \in Slot : k < s[i].key => s[i].array[k] = None
      BY <1>1, <1>2, <3>1 DEF StackInv, s, n
    <3> QED
      BY <3>1, <3>2, <3>3
  <2>3. \A i, j \in 1 .. n - 1 : frames'[t][i].op = "destroy" /\ frames'[t][j].op = "destroy" /\ i # j =>
          frames'[t][i].key # frames'[t][j].key
    BY <1>7, <1>8
  <2> QED
    BY <1>4, <1>8, <2>1, <2>2, <2>3 DEF StackInv
<1>19. \A u \in Thread \ {t} : StackInv(u)'
  BY <1>4, <1>5, <1>6, StackOther DEF LocalsInv
<1>20. LocalsTypeOK'
  BY <1>4, <1>5, <1>6 DEF LocalsInv, LocalsTypeOK, allocVars
<1> QED
  BY <1>4, <1>5, <1>17, <1>18, <1>19, <1>20, SlotsSame DEF LocalsInv, Kept

(* The array becomes the one that DestroyEntries walks. *)
LEMMA FinalizeKeyKeeps ==
  ASSUME LocalsInv, NEW t \in Thread, FinalizeKey(t)
  PROVE  LocalsInv'
<1> DEFINE g == [op |-> "final", key |-> 0, array |-> tls[t], busy |-> FALSE]
<1>1. /\ frames[t] = << >> /\ tls[t] # Null /\ life[t] = "exiting" /\ round[t] < MaxRounds
      /\ frames' = [frames EXCEPT ![t] = <<g>>] /\ tls' = [tls EXCEPT ![t] = Null]
      /\ round' = [round EXCEPT ![t] = @ + 1]
      /\ UNCHANGED <<life, runs, made, owner, destructor, allocVars>>
  BY DEF FinalizeKey, ownerVars
<1>2. g \in Frame /\ g.op = "final" /\ g.key = 0 /\ g.array = tls[t] /\ ~g.busy
  BY <1>1, ArrayFacts, FrameFinal
<1> HIDE DEF g
<1>3. frames \in [Thread -> Seq(Frame)] /\ tls \in [Thread -> Array \cup {Null}] /\ round \in [Thread -> 0 .. MaxRounds]
  BY DEF LocalsInv, LocalsTypeOK
<1>4. /\ frames' \in [Thread -> Seq(Frame)] /\ frames'[t] = <<g>> /\ \A u \in Thread \ {t} : frames'[u] = frames[u]
  BY <1>1, <1>2, <1>3
<1>5. /\ tls' \in [Thread -> Array \cup {Null}] /\ tls'[t] = Null /\ \A u \in Thread \ {t} : tls'[u] = tls[u]
  BY <1>1, <1>3
<1>6. /\ round' \in [Thread -> 0 .. MaxRounds] /\ \A u \in Thread \ {t} : round'[u] = round[u]
  BY <1>1, <1>3, RoundAssumption
<1>7. DOMAIN frames[t] = {} /\ DOMAIN frames'[t] = {1} /\ frames'[t][1] = g /\ frames'[t] # << >>
  BY <1>1, <1>4
<1>8. ~Final(t) /\ Final(t)'
  BY <1>1, <1>2, <1>7 DEF Final
<1>9. \A j \in Nat : Mine(t, j) /\ Mine(t, j)'
  BY <1>2, <1>7 DEF Mine
<1>10. ASSUME NEW x \in Where, NEW j \in Nat
       PROVE  /\ ~DyingAt(t, x, j) /\ ~DyingAt(t, x, j)'
              /\ HeldAt(t, x, j)' = IF x = "final" THEN HeldAt(t, "slot", j) ELSE None
              /\ x # "slot" => HeldAt(t, x, j) = None
  <2>1. ~DyingAt(t, x, j) /\ ~DyingAt(t, x, j)'
    BY <1>2, <1>7, <1>8, <1>9 DEF DyingAt
  <2>2. CASE x = "slot"
    BY <2>1, <2>2, <1>5 DEF HeldAt, GetValue
  <2>3. CASE x = "final"
    BY <2>1, <2>3, <1>1, <1>2, <1>7, <1>8 DEF HeldAt, GetValue
  <2>4. CASE x = "frame"
    BY <2>1, <2>4, <1>2, <1>7 DEF HeldAt
  <2> QED
    BY <2>2, <2>3, <2>4 DEF Where
<1>11. "slot" \in Where /\ "final" \in Where /\ "frame" \in Where /\ "slot" # "final"
  BY DEF Where
<1>12. ASSUME NEW j \in Nat
       PROVE  /\ Dying[t]["slot"][j] = 0 /\ Held'[t]["slot"][j] = None
              /\ Held'[t]["final"][j] = Held[t]["slot"][j] /\ Dying'[t]["final"][j] = 0
              /\ Held[t]["final"][j] = None
              /\ Held[t]["frame"][j] = None /\ Held'[t]["frame"][j] = None
  BY <1>10, <1>11, HeldIs, HeldIsNext
<1>13. made \in Nat /\ owner \in [Value -> Thread] /\ Kept(Held, Dying, made, runs)
  BY RoundAssumption DEF LocalsInv, LocalsTypeOK
<1>14. Kept(Held', Dying', made, runs)
  <2> DEFINE f == [i \in Nat |-> i]
  <2>1. f \in [Nat -> Nat] /\ \A i \in Nat : f[i] = i
    OBVIOUS
  <2> HIDE DEF f
  <2>2. \A k \in Nat : /\ Dying[t]["slot"][k] = 0 /\ Held'[t]["slot"][k] = None
                       /\ Held'[t]["final"][f[k]] = Held[t]["slot"][k] /\ Dying'[t]["final"][f[k]] = 0
                       /\ Droppable(Held, runs, t, "final", f[k])
    BY <1>12, <2>1 DEF Droppable
  <2>3. ASSUME NEW u \in Thread, NEW y \in Where, NEW j \in Nat,
               ~(u = t /\ y = "slot" /\ j \in Nat), ~(u = t /\ y = "final" /\ \E k \in Nat : j = f[k])
        PROVE  Held'[u][y][j] = Held[u][y][j] /\ (Held'[u][y][j] # None => Dying'[u][y][j] = Dying[u][y][j])
    <3>1. CASE u # t
      BY <3>1, <1>4, <1>5, OthersHeld
    <3>2. CASE u = t
      <4>1. y = "frame"
        BY <2>1, <2>3, <3>2 DEF Where
      <4> QED
        BY <3>2, <4>1, <1>12
    <3> QED
      BY <3>1, <3>2
  <2>4. Nat \in SUBSET Nat /\ \A i, j \in Nat : f[i] = f[j] => i = j
    BY <2>1
  <2> QED
    <3>1. AreMoved(Held, Dying, Held', Dying', runs, t, "slot", "final", Nat, f)
      BY <1>11, <2>1, <2>2, <2>3, <2>4 DEF AreMoved
    <3> QED
      BY <1>13, <3>1, KeptMove
<1>15. StackInv(t)'
  <2>1. \A k \in Slot : ~(k < g.key)
    BY <1>2, SlotAssumption DEF Slot
  <2> QED
    BY <1>1, <1>2, <1>4, <2>1, StackFinal
<1>16. \A u \in Thread \ {t} : StackInv(u)'
  BY <1>1, <1>4, <1>5, <1>6, StackOther DEF LocalsInv
<1>17. LocalsTypeOK'
  BY <1>1, <1>4, <1>5, <1>6 DEF LocalsInv, LocalsTypeOK, allocVars
<1> QED
  BY <1>1, <1>4, <1>14, <1>15, <1>16, <1>17, SlotsSame DEF LocalsInv, Kept

(* All entries were visited: the array that is deleted is empty. *)
LEMMA DeleteEntriesKeeps ==
  ASSUME LocalsInv, NEW t \in Thread, DeleteEntries(t)
  PROVE  LocalsInv'
<1> DEFINE f == frames[t][1]
<1>1. /\ frames[t] # << >> /\ Last(frames[t]).op = "final" /\ ~Last(frames[t]).busy
      /\ Last(frames[t]).key = MaxSlots /\ frames' = [frames EXCEPT ![t] = Front(@)]
      /\ UNCHANGED <<tls, life, round, runs, made, owner, destructor, allocVars>>
  BY DEF DeleteEntries, InLoop, ownerVars
<1>2. /\ Len(frames[t]) = 1 /\ Last(frames[t]) = f /\ f \in Frame /\ f.op = "final" /\ DOMAIN frames[t] = {1}
      /\ life[t] = "exiting" /\ \A k \in Slot : k < f.key => f.array[k] = None
  BY <1>1, OneFinal
<1>3. \A k \in Slot : f.array[k] = None
  BY <1>1, <1>2, SlotAssumption DEF Slot
<1>4. frames \in [Thread -> Seq(Frame)] /\ frames[t] \in Seq(Frame)
  BY DEF LocalsInv
<1>5. Front(frames[t]) = << >> /\ << >> \in Seq(Frame)
  BY <1>2, <1>4, StackOne
<1>6. frames' \in [Thread -> Seq(Frame)] /\ frames'[t] = << >> /\ \A u \in Thread \ {t} : frames'[u] = frames[u]
  BY <1>1, <1>4, <1>5
<1>7. DOMAIN frames'[t] = {}
  BY <1>6
<1>8. ASSUME NEW x \in Where, NEW j \in Nat
      PROVE  HeldAt(t, x, j)' = HeldAt(t, x, j) /\ ~DyingAt(t, x, j) /\ ~DyingAt(t, x, j)'
  <2>1. ~Final(t)' /\ Final(t) /\ Mine(t, j) /\ Mine(t, j)'
    BY <1>1, <1>2, <1>6, <1>7 DEF Final, Mine
  <2>2. ~DyingAt(t, x, j) /\ ~DyingAt(t, x, j)'
    BY <1>1, <1>2, <2>1 DEF DyingAt
  <2>3. CASE x = "slot"
    BY <2>2, <2>3, <1>1 DEF HeldAt, GetValue
  <2>4. CASE x = "final"
    BY <2>1, <2>2, <2>4, <1>3 DEF HeldAt
  <2>5. CASE x = "frame"
    BY <2>2, <2>5, <1>2, <1>7 DEF HeldAt
  <2> QED
    BY <2>2, <2>3, <2>4, <2>5 DEF Where
<1>9. \A u \in Thread, x \in Where, j \in Nat : Held'[u][x][j] = Held[u][x][j] /\ Dying'[u][x][j] = Dying[u][x][j]
  <2> TAKE u \in Thread, x \in Where, j \in Nat
  <2>1. CASE u # t
    BY <2>1, <1>1, <1>6, OthersHeld
  <2>2. CASE u = t
    BY <2>2, <1>8, HeldIs, HeldIsNext
  <2> QED
    BY <2>1, <2>2
<1>10. Kept(Held', Dying', made, runs)
  <2>1. \A v \in Value : owner[v] \in Thread
    BY DEF LocalsInv, LocalsTypeOK
  <2>2. Kept(Held, Dying, made, runs)
    BY DEF LocalsInv
  <2> QED
    BY <1>9, <2>1, <2>2 DEF Kept
<1>11. StackInv(t)'
  BY <1>1, <1>2, <1>6, <1>7 DEF StackInv
<1>12. \A u \in Thread \ {t} : StackInv(u)'
  BY <1>1, <1>6, StackOther DEF LocalsInv
<1>13. LocalsTypeOK'
  BY <1>1, <1>6 DEF LocalsInv, LocalsTypeOK, allocVars
<1> QED
  BY <1>1, <1>6, <1>10, <1>11, <1>12, <1>13, SlotsSame DEF LocalsInv, Kept

-----------------------------------------------------------------------------
LEMMA LocalsInitInv == LocalsInit => LocalsInv
<1> SUFFICES ASSUME LocalsInit PROVE LocalsInv
  OBVIOUS
<1>1. SlotsInv
  BY DEF LocalsInit, SlotsInv
<1>2. LocalsTypeOK /\ frames \in [Thread -> Seq(Frame)]
  BY RoundAssumption DEF LocalsInit, LocalsTypeOK
<1>3. \A t \in Thread : StackInv(t)
  BY DEF LocalsInit, StackInv
<1>4. \A t \in Thread, w \in Where, k \in Nat : Held[t][w][k] = None
  <2>1. \A t \in Thread, w \in Where, k \in Nat : HeldAt(t, w, k) = None
    BY DEF LocalsInit, HeldAt, GetValue, Final
  <2> QED
    BY <2>1, HeldIs
<1>5. Kept(Held, Dying, made, runs)
  BY <1>4 DEF LocalsInit, Kept, Value
<1> QED
  BY <1>1, <1>2, <1>3, <1>5 DEF LocalsInv

(* Alloc: whatever other threads take between the increment and the second *)
(* read, a number is taken once.                                           *)
LEMMA AllocKeeps ==
  ASSUME SlotsInv, NEW t \in Thread, AllocIncrement(t) \/ AllocReturn(t)
  PROVE  SlotsInv'
<1>1. /\ next_slot \in Nat /\ alloc \in [Thread -> Nat \cup {-1}] /\ granted \in Seq(Slot)
      /\ \A u \in Thread : alloc[u] < next_slot
      /\ \A u, w \in Thread : alloc[u] = alloc[w] /\ alloc[u] # -1 => u = w
      /\ \A i \in DOMAIN granted : granted[i] < next_slot
      /\ \A i \in DOMAIN granted, u \in Thread : granted[i] # alloc[u]
      /\ \A i, j \in DOMAIN granted : granted[i] = granted[j] => i = j
      /\ \A i \in DOMAIN granted : granted[i] \in Nat
  BY SlotAssumption DEF SlotsInv, Slot
<1>2. CASE AllocIncrement(t)
  <2>1. alloc' = [alloc EXCEPT ![t] = next_slot] /\ next_slot' = next_slot + 1 /\ granted' = granted
    BY <1>2 DEF AllocIncrement
  <2>2. alloc'[t] = next_slot /\ \A u \in Thread \ {t} : alloc'[u] = alloc[u]
    BY <1>1, <2>1
  <2>3. next_slot' \in Nat /\ alloc' \in [Thread -> Nat \cup {-1}] /\ granted' \in Seq(Slot)
    BY <1>1, <2>1
  <2>4. \A u \in Thread : alloc'[u] < next_slot'
    BY <1>1, <2>1, <2>2
  <2>5. \A u, w \in Thread : alloc'[u] = alloc'[w] /\ alloc'[u] # -1 => u = w
    BY <1>1, <2>2
  <2>6. /\ \A i \in DOMAIN granted' : granted'[i] < next_slot'
        /\ \A i \in DOMAIN granted', u \in Thread : granted'[i] # alloc'[u]
        /\ \A i, j \in DOMAIN granted' : granted'[i] = granted'[j] => i = j
    BY <1>1, <2>1, <2>2
  <2> QED
    BY <2>3, <2>4, <2>5, <2>6 DEF SlotsInv
<1>3. CASE AllocReturn(t)
  <2>1. /\ alloc' = [alloc EXCEPT ![t] = -1] /\ next_slot' = next_slot /\ alloc[t] # -1
        /\ granted' = granted \/ (next_slot < MaxSlots /\ granted' = Append(granted, alloc[t]))
    BY <1>3 DEF AllocReturn
  <2>2. alloc'[t] = -1 /\ \A u \in Thread \ {t} : alloc'[u] = alloc[u]
    BY <1>1, <2>1
  <2>3. next_slot' \in Nat /\ alloc' \in [Thread -> Nat \cup {-1}]
    BY <1>1, <2>1
  <2>4. \A u \in Thread : alloc'[u] < next_slot'
    BY <1>1, <2>1, <2>2
  <2>5. \A u, w \in Thread : alloc'[u] = alloc'[w] /\ alloc'[u] # -1 => u = w
    BY <1>1, <2>2
  <2>6. CASE granted' = granted
    <3>1. /\ \A i \in DOMAIN granted' : granted'[i] < next_slot'
          /\ \A i \in DOMAIN granted', u \in Thread : granted'[i] # alloc'[u]
          /\ \A i, j \in DOMAIN granted' : granted'[i] = granted'[j] => i = j
      BY <1>1, <2>1, <2>2, <2>6
    <3> QED
      BY <1>1, <2>3, <2>4, <2>5, <2>6, <3>1 DEF SlotsInv
  <2>7. CASE next_slot < MaxSlots /\ granted' = Append(granted, alloc[t])
    <3> DEFINE n == Len(granted)
    <3>1. alloc[t] \in Nat /\ alloc[t] < next_slot
      BY <1>1, <2>1
    <3>2. alloc[t] \in Slot
      BY <1>1, <2>7, <3>1, SlotAssumption DEF Slot
    <3>3. /\ granted' \in Seq(Slot) /\ DOMAIN granted' = 1 .. n + 1 /\ DOMAIN granted = 1 .. n /\ n \in Nat
          /\ granted'[n + 1] = alloc[t] /\ \A i \in 1 .. n : granted'[i] = granted[i]
      BY <1>1, <2>7, <3>2
    <3> HIDE DEF n
    <3>4. \A i \in 1 .. n + 1 : i \in 1 .. n \/ i = n + 1
      BY <3>3
    <3>5. \A i \in DOMAIN granted' : granted'[i] < next_slot'
      BY <1>1, <2>1, <3>1, <3>3, <3>4
    <3>6. \A i \in DOMAIN granted', u \in Thread : granted'[i] # alloc'[u]
      <4> TAKE i \in DOMAIN granted', u \in Thread
      <4>1. CASE i \in 1 .. n /\ u # t
        BY <4>1, <1>1, <2>2, <3>3
      <4>2. CASE i = n + 1 /\ u # t
        BY <4>2, <1>1, <2>1, <2>2, <3>3
      <4>3. CASE u = t
        <5>1. granted'[i] \in Nat
          BY <1>1, <3>1, <3>3, <3>4
        <5> QED
          BY <4>3, <5>1, <2>2
      <4> QED
        BY <4>1, <4>2, <4>3, <3>3, <3>4
    <3>7. \A i, j \in DOMAIN granted' : granted'[i] = granted'[j] => i = j
      <4>1. \A i \in 1 .. n : granted[i] # alloc[t]
        BY <1>1, <3>3
      <4> QED
        BY <4>1, <1>1, <3>3, <3>4
    <3> QED
      BY <2>3, <2>4, <2>5, <3>3, <3>5, <3>6, <3>7 DEF SlotsInv
  <2> QED
    BY <2>1, <2>6, <2>7
<1> QED
  BY <1>2, <1>3

(* A thread's life goes on, or Alloc does. *)
LEMMA LifeKeeps ==
  ASSUME LocalsInv, NEW t \in Thread,
         AllocIncrement(t) \/ AllocReturn(t) \/ ThreadExit(t) \/ ThreadGone(t)
  PROVE  LocalsInv'
<1>1. UNCHANGED <<tls, frames, round, runs, ownerVars>>
  BY DEF AllocIncrement, AllocReturn, ThreadExit, ThreadGone
<1>2. Kept(Held', Dying', made', runs')
  BY <1>1, KeptSame
<1>3. SlotsInv'
  <2>1. CASE AllocIncrement(t) \/ AllocReturn(t)
    BY <2>1, AllocKeeps DEF LocalsInv
  <2>2. CASE ThreadExit(t) \/ ThreadGone(t)
    BY <2>2, SlotsSame DEF LocalsInv, ThreadExit, ThreadGone
  <2> QED
    BY <2>1, <2>2
<1>4. life \in [Thread -> {"running", "exiting", "gone"}] /\ \A u \in Thread : StackInv(u)
  BY DEF LocalsInv, LocalsTypeOK
<1>5. \/ life' = life
      \/ life' = [life EXCEPT ![t] = "exiting"] /\ frames[t] = << >>
      \/ /\ life' = [life EXCEPT ![t] = "gone"] /\ frames[t] = << >>
         /\ tls[t] = Null \/ round[t] = MaxRounds
  BY DEF AllocIncrement, AllocReturn, ThreadExit, ThreadGone
<1>6. life' \in [Thread -> {"running", "exiting", "gone"}] /\ \A u \in Thread \ {t} : life'[u] = life[u]
  BY <1>4, <1>5
<1>7. LocalsTypeOK'
  <2>1. /\ next_slot' \in Nat /\ alloc' \in [Thread -> Nat \cup {-1}] /\ granted' \in Seq(Slot)
    BY <1>3 DEF SlotsInv
  <2> QED
    BY <1>1, <1>6, <2>1 DEF LocalsInv, LocalsTypeOK, ownerVars
<1>8. \A u \in Thread : StackInv(u)'
  <2> TAKE u \in Thread
  <2>1. CASE u # t \/ life' = life
    <3>1. life'[u] = life[u]
      BY <2>1, <1>6
    <3> QED
      BY <3>1, <1>1, <1>4, StackOther
  <2>2. CASE u = t /\ life' # life
    <3>1. frames[t] = << >> /\ (life'[t] = "gone" => tls[t] = Null \/ round[t] = MaxRounds)
      BY <2>2, <1>4, <1>5
    <3>2. frames'[t] = << >> /\ DOMAIN frames'[t] = {}
      BY <3>1, <1>1
    <3> QED
      BY <2>2, <3>1, <3>2, <1>1 DEF StackInv
  <2> QED
    BY <2>1, <2>2
<1> QED
  BY <1>1, <1>2, <1>3, <1>7, <1>8 DEF LocalsInv, Kept, ownerVars

LEMMA LocalsStep == LocalsInv /\ [LocalsNext]_localsVars => LocalsInv'
<1> SUFFICES ASSUME LocalsInv, [LocalsNext]_localsVars PROVE LocalsInv'
  OBVIOUS
<1>1. ASSUME NEW t \in Thread, DestructorReturns(t) PROVE LocalsInv'
  <2>1. Last(frames[t]).op \in {"destroy", "final"}
    BY <1>1 DEF DestructorReturns
  <2> QED
    BY <1>1, <2>1, ReturnsToCall, ReturnsToLoop
<1>2. ASSUME UNCHANGED localsVars PROVE LocalsInv'
  <2>1. UNCHANGED <<tls, frames, runs, ownerVars, allocVars, life, round>>
    BY <1>2 DEF localsVars, ownerVars, allocVars
  <2>2. Kept(Held', Dying', made', runs')
    BY <2>1, KeptSame
  <2>3. \A u \in Thread : StackInv(u)'
    BY <2>1, StackOther DEF LocalsInv
  <2>4. LocalsTypeOK'
    BY <2>1 DEF LocalsInv, LocalsTypeOK, ownerVars, allocVars
  <2> QED
    BY <2>1, <2>2, <2>3, <2>4, SlotsSame DEF LocalsInv, Kept, ownerVars
<1> QED
  BY <1>1, <1>2, SetValueKeeps, DestroyValueKeeps, DestroyEntryKeeps, FinalizeKeyKeeps,
     DeleteEntriesKeeps, LifeKeeps DEF LocalsNext

LEMMA LocalsInvImplies == LocalsInv => EveryValueOnce
<1> SUFFICES ASSUME LocalsInv PROVE EveryValueOnce
  OBVIOUS
<1>1. Kept(Held, Dying, made, runs) /\ LocalsTypeOK
  BY DEF LocalsInv
<1>2. SlotsAreUnique
  BY DEF LocalsInv, SlotsInv, SlotsAreUnique, IsInjective
<1>3. DestroyedOnce
  BY <1>1 DEF Kept, DestroyedOnce
<1>4. NoStaleValue
  <2> SUFFICES ASSUME NEW t \in Thread, NEW k \in Slot, Mine(t, k), GetValue(t, k) # None
               PROVE  runs[GetValue(t, k)] = 0
    BY DEF NoStaleValue
  <2>1. k \in Nat /\ "slot" \in Where /\ Held[t]["slot"][k] = GetValue(t, k) /\ Dying[t]["slot"][k] = 0
    BY SlotPlace
  <2> QED
    BY <1>1, <2>1 DEF Kept
<1>5. GoneLeavesNothing
  <2> SUFFICES ASSUME NEW v \in 1 .. made, destructor[v], life[owner[v]] = "gone", round[owner[v]] < MaxRounds
               PROVE  runs[v] = 1
    BY DEF GoneLeavesNothing
  <2> DEFINE t == owner[v]
  <2>1. v \in Value /\ v <= made /\ t \in Thread /\ v # None
    BY <1>1, RoundAssumption DEF LocalsTypeOK, Value, None
  <2>2. frames[t] = << >> /\ tls[t] = Null
    <3>1. StackInv(t) /\ round[t] \in 0 .. MaxRounds
      BY <1>1, <2>1 DEF LocalsInv, LocalsTypeOK
    <3> QED
      BY <3>1, RoundAssumption DEF StackInv
  <2>3. \A w \in Where, k \in Nat : Held[t][w][k] = None
    <3>1. \A w \in Where, k \in Nat : HeldAt(t, w, k) = None
      BY <2>2 DEF HeldAt, GetValue, Final
    <3> QED
      BY <2>1, <3>1, HeldIs
  <2>4. runs[v] # 0
    BY <1>1, <2>1, <2>3 DEF Kept
  <2> QED
    BY <1>1, <2>1, <2>4 DEF Kept
<1> QED
  BY <1>1, <1>2, <1>3, <1>4, <1>5 DEF EveryValueOnce

(* Whatever destructors store and destroy while their callers wait for     *)
(* them, and however often pthreads calls FinalizeKey: a slot is granted   *)
(* once, a value is destroyed at most once, nothing reads it afterwards,   *)
(* and a thread that is gone has destroyed them all unless the rounds ran  *)
(* out (thread_locals.cc).                                                 *)
THEOREM EveryValueDestroyedOnce == LocalsSpec => []EveryValueOnce
<1> QED
  BY LocalsInitInv, LocalsStep, LocalsInvImplies, PTL DEF LocalsSpec
-----------------------------------------------------------------------------
(* The queues of the other platforms (PlatformQueue).  How a step moves    *)
(* messages between the batches and the events is described by facts about *)
(* sequences of sequences; the rest of the invariant ties wake-ups to what *)
(* they are for.                                                           *)
Queues == Seq(Seq(Nat))

LEMMA InElements ==
  ASSUME NEW q \in Queues, NEW x
  PROVE  x \in Elements(q) <=> \E b \in 1 .. Len(q) : \E i \in 1 .. Len(q[b]) : q[b][i] = x
<1>1. DOMAIN q = 1 .. Len(q) /\ \A b \in 1 .. Len(q) : DOMAIN q[b] = 1 .. Len(q[b])
  BY DEF Queues
<1> QED
  BY <1>1 DEF Elements, ToSet

LEMMA InOrderPointwise ==
  ASSUME NEW q \in Queues
  PROVE  Increasing(q) <=>
           \A b, c \in 1 .. Len(q) : \A i \in 1 .. Len(q[b]), j \in 1 .. Len(q[c]) :
             b < c \/ (b = c /\ i < j) => q[b][i] < q[c][j]
<1>1. DOMAIN q = 1 .. Len(q) /\ \A b \in 1 .. Len(q) : DOMAIN q[b] = 1 .. Len(q[b])
  BY DEF Queues
<1> QED
  BY <1>1 DEF Increasing

LEMMA QueuesAppend ==
  ASSUME NEW q \in Queues, NEW e \in Seq(Nat)
  PROVE  /\ Append(q, e) \in Queues /\ Len(Append(q, e)) = Len(q) + 1 /\ Len(q) \in Nat
         /\ \A b \in 1 .. Len(q) : Append(q, e)[b] = q[b] /\ q[b] \in Seq(Nat)
         /\ Append(q, e)[Len(q) + 1] = e
  BY AppendProperties DEF Queues

(* Post1: a message newer than all others joins the events. *)
LEMMA PostOrder ==
  ASSUME NEW q \in Queues, NEW e \in Seq(Nat), NEW x \in Nat,
         Increasing(Append(q, e)), \A y \in Elements(Append(q, e)) : y < x
  PROVE  /\ Increasing(Append(q, Append(e, x)))
         /\ Elements(Append(q, Append(e, x))) = Elements(Append(q, e)) \cup {x}
<1> DEFINE w == Append(q, e)
<1> DEFINE f == Append(e, x)
<1> DEFINE v == Append(q, f)
<1> DEFINE n == Len(q)
<1>1. /\ f \in Seq(Nat) /\ Len(f) = Len(e) + 1 /\ f[Len(e) + 1] = x /\ Len(e) \in Nat
      /\ \A i \in 1 .. Len(e) : f[i] = e[i] /\ e[i] \in Nat
  OBVIOUS
<1>2. /\ w \in Queues /\ Len(w) = n + 1 /\ n \in Nat /\ w[n + 1] = e
      /\ \A b \in 1 .. n : w[b] = q[b] /\ q[b] \in Seq(Nat)
  BY QueuesAppend
<1> HIDE DEF f
<1>3. /\ v \in Queues /\ Len(v) = n + 1 /\ v[n + 1] = f
      /\ \A b \in 1 .. n : v[b] = q[b]
  BY <1>1, QueuesAppend
<1> HIDE DEF v, w, n
<1>4. \A b \in 1 .. n + 1 : \A i \in 1 .. Len(v[b]) :
        \/ i \in 1 .. Len(w[b]) /\ v[b][i] = w[b][i]
        \/ b = n + 1 /\ i = Len(e) + 1 /\ v[b][i] = x
  <2> TAKE b \in 1 .. n + 1
  <2> TAKE i \in 1 .. Len(v[b])
  <2>1. CASE b = n + 1
    BY <1>1, <1>2, <1>3, <2>1
  <2>2. CASE b # n + 1
    BY <1>2, <1>3, <2>2
  <2> QED
    BY <2>1, <2>2
<1>5. \A b \in 1 .. n + 1 : \A i \in 1 .. Len(w[b]) : i \in 1 .. Len(v[b]) /\ v[b][i] = w[b][i]
  <2> TAKE b \in 1 .. n + 1
  <2> TAKE i \in 1 .. Len(w[b])
  <2>1. CASE b = n + 1
    BY <1>1, <1>2, <1>3, <2>1
  <2>2. CASE b # n + 1
    BY <1>2, <1>3, <2>2
  <2> QED
    BY <2>1, <2>2
<1>6. n + 1 \in 1 .. n + 1 /\ Len(e) + 1 \in 1 .. Len(v[n + 1]) /\ v[n + 1][Len(e) + 1] = x
  BY <1>1, <1>2, <1>3
<1>7. Elements(v) = Elements(w) \cup {x}
  <2>1. ASSUME NEW y \in Elements(v) PROVE y \in Elements(w) \cup {x}
    <3>1. PICK b \in 1 .. n + 1 : \E i \in 1 .. Len(v[b]) : v[b][i] = y
      BY <1>3, <2>1, InElements
    <3>2. PICK i \in 1 .. Len(v[b]) : v[b][i] = y
      BY <3>1
    <3>3. y = x \/ (i \in 1 .. Len(w[b]) /\ w[b][i] = y)
      BY <1>4, <3>2
    <3> QED
      BY <1>2, <3>3, InElements
  <2>2. x \in Elements(v)
    BY <1>3, <1>6, InElements
  <2>3. ASSUME NEW y \in Elements(w) PROVE y \in Elements(v)
    <3>1. PICK b \in 1 .. n + 1 : \E i \in 1 .. Len(w[b]) : w[b][i] = y
      BY <1>2, <2>3, InElements
    <3>2. PICK i \in 1 .. Len(w[b]) : w[b][i] = y
      BY <3>1
    <3>3. i \in 1 .. Len(v[b]) /\ v[b][i] = y
      BY <1>5, <3>2
    <3> QED
      BY <1>3, <3>3, InElements
  <2> QED
    BY <2>1, <2>2, <2>3
<1>8. Increasing(v)
  <2>1. SUFFICES ASSUME NEW b \in 1 .. n + 1, NEW c \in 1 .. n + 1,
                        NEW i \in 1 .. Len(v[b]), NEW j \in 1 .. Len(v[c]),
                        b < c \/ (b = c /\ i < j)
                 PROVE  v[b][i] < v[c][j]
    BY <1>3, InOrderPointwise
  <2>2. CASE c = n + 1 /\ j = Len(e) + 1
    <3>1. i \in 1 .. Len(w[b]) /\ v[b][i] = w[b][i]
      BY <1>1, <1>2, <1>4, <2>1, <2>2
    <3>2. v[b][i] \in Elements(w)
      BY <1>2, <3>1, InElements
    <3> QED
      BY <1>6, <2>2, <3>2 DEF w
  <2>3. CASE ~(c = n + 1 /\ j = Len(e) + 1)
    <3>1. j \in 1 .. Len(w[c]) /\ v[c][j] = w[c][j]
      BY <1>4, <2>3
    <3>2. i \in 1 .. Len(w[b]) /\ v[b][i] = w[b][i]
      <4>1. CASE b = n + 1 /\ i = Len(e) + 1
        BY <1>1, <1>2, <1>3, <2>1, <2>3, <4>1
      <4>2. CASE ~(b = n + 1 /\ i = Len(e) + 1)
        BY <1>4, <4>2
      <4> QED
        BY <4>1, <4>2
    <3> QED
      BY <1>2, <2>1, <3>1, <3>2, InOrderPointwise DEF w
  <2> QED
    BY <2>2, <2>3
<1> QED
  BY <1>7, <1>8 DEF v, w, f

(* OnThreadMessage for a window or a port: all events become a batch. *)
LEMMA TakeAllOrder ==
  ASSUME NEW w \in Queues, Increasing(w)
  PROVE  Increasing(Append(w, <<>>)) /\ Elements(Append(w, <<>>)) = Elements(w)
<1> DEFINE v == Append(w, <<>>)
<1> DEFINE n == Len(w)
<1>1. /\ v \in Queues /\ Len(v) = n + 1 /\ n \in Nat /\ v[n + 1] = <<>>
      /\ \A b \in 1 .. n : v[b] = w[b]
  <2>1. <<>> \in Seq(Nat)
    OBVIOUS
  <2> QED
    BY <2>1, QueuesAppend
<1> HIDE DEF v, n
<1>2. \A b \in 1 .. n + 1 : \A i \in 1 .. Len(v[b]) : b \in 1 .. n /\ v[b] = w[b]
  BY <1>1
<1>3. Increasing(v)
  BY <1>1, <1>2, InOrderPointwise DEF n
<1>4. ASSUME NEW x PROVE x \in Elements(v) <=> x \in Elements(w)
  <2>1. ASSUME x \in Elements(v) PROVE x \in Elements(w)
    BY <1>1, <1>2, <2>1, InElements DEF n
  <2>2. ASSUME x \in Elements(w) PROVE x \in Elements(v)
    <3>1. PICK b \in 1 .. n : \E i \in 1 .. Len(w[b]) : w[b][i] = x
      BY <2>2, InElements DEF n
    <3>2. b \in 1 .. n + 1 /\ v[b] = w[b]
      BY <1>1
    <3> QED
      BY <1>1, <3>1, <3>2, InElements
  <2> QED
    BY <2>1, <2>2
<1> QED
  BY <1>3, <1>4 DEF v

(* OnThreadMessage of Firefox: the first event becomes a batch. *)
LEMMA TakeOneOrder ==
  ASSUME NEW q \in Queues, NEW e \in Seq(Nat), e # <<>>, Increasing(Append(q, e))
  PROVE  LET v == Append(Append(q, <<Head(e)>>), Tail(e))
         IN  Increasing(v) /\ Elements(v) = Elements(Append(q, e))
<1> DEFINE w == Append(q, e)
<1> DEFINE h == <<Head(e)>>
<1> DEFINE t == Tail(e)
<1> DEFINE v == Append(Append(q, h), t)
<1> DEFINE n == Len(q)
<1>1. /\ h \in Seq(Nat) /\ Len(h) = 1 /\ h[1] = e[1] /\ Len(e) \in Nat \ {0}
      /\ t \in Seq(Nat) /\ Len(t) = Len(e) - 1 /\ \A i \in 1 .. Len(t) : t[i] = e[i + 1]
  BY HeadTailProperties
<1>2. /\ w \in Queues /\ Len(w) = n + 1 /\ n \in Nat /\ w[n + 1] = e
      /\ \A b \in 1 .. n : w[b] = q[b] /\ q[b] \in Seq(Nat)
  BY QueuesAppend
<1> HIDE DEF h, t
<1>3. /\ v \in Queues /\ Len(v) = n + 2 /\ v[n + 2] = t /\ v[n + 1] = h
      /\ \A b \in 1 .. n : v[b] = q[b]
  <2> DEFINE u == Append(q, h)
  <2>1. /\ u \in Queues /\ Len(u) = n + 1 /\ u[n + 1] = h
        /\ \A b \in 1 .. n : u[b] = q[b]
    BY <1>1, QueuesAppend
  <2> HIDE DEF u
  <2>2. /\ Append(u, t) \in Queues /\ Len(Append(u, t)) = n + 2 /\ Append(u, t)[n + 2] = t
        /\ \A b \in 1 .. n + 1 : Append(u, t)[b] = u[b]
    <3>1. /\ Append(u, t) \in Queues /\ Len(Append(u, t)) = Len(u) + 1 /\ Append(u, t)[Len(u) + 1] = t
          /\ \A b \in 1 .. Len(u) : Append(u, t)[b] = u[b]
      BY <1>1, <2>1, QueuesAppend
    <3>2. Len(u) = n + 1 /\ Len(u) + 1 = n + 2
      BY <1>2, <2>1
    <3> QED
      BY <3>1, <3>2
  <2>3. n + 1 \in 1 .. n + 1 /\ \A b \in 1 .. n : b \in 1 .. n + 1
    BY <1>2
  <2> QED
    BY <2>1, <2>2, <2>3 DEF u
<1> HIDE DEF v, n
<1>8. Increasing(w)
  OBVIOUS
<1> HIDE DEF w
<1> DEFINE Bat(b) == IF b <= n THEN b ELSE n + 1
<1> DEFINE Pos(b, i) == IF b = n + 2 THEN i + 1 ELSE i
<1>4. ASSUME NEW b \in 1 .. n + 2, NEW i \in 1 .. Len(v[b])
      PROVE  /\ Bat(b) \in 1 .. n + 1 /\ Pos(b, i) \in 1 .. Len(w[Bat(b)])
             /\ v[b][i] = w[Bat(b)][Pos(b, i)]
  <2>1. CASE b <= n
    BY <1>2, <1>3, <2>1
  <2>2. CASE b = n + 1
    BY <1>1, <1>2, <1>3, <2>2
  <2>3. CASE b = n + 2
    <3>1. v[b] = t /\ Bat(b) = n + 1 /\ Pos(b, i) = i + 1 /\ w[n + 1] = e
      BY <1>2, <1>3, <2>3
    <3>2. n + 1 \in 1 .. n + 1 /\ i + 1 \in 1 .. Len(e) /\ t[i] = e[i + 1]
      BY <1>1, <1>2, <3>1
    <3> HIDE DEF Bat, Pos
    <3> QED
      BY <3>1, <3>2
  <2> QED
    BY <1>2, <2>1, <2>2, <2>3
<1>5. Increasing(v)
  <2>1. SUFFICES ASSUME NEW b \in 1 .. n + 2, NEW c \in 1 .. n + 2,
                        NEW i \in 1 .. Len(v[b]), NEW j \in 1 .. Len(v[c]),
                        b < c \/ (b = c /\ i < j)
                 PROVE  v[b][i] < v[c][j]
    BY <1>3, InOrderPointwise
  <2>2. /\ Bat(b) \in 1 .. n + 1 /\ Pos(b, i) \in 1 .. Len(w[Bat(b)])
        /\ v[b][i] = w[Bat(b)][Pos(b, i)]
    BY <1>4
  <2>3. /\ Bat(c) \in 1 .. n + 1 /\ Pos(c, j) \in 1 .. Len(w[Bat(c)])
        /\ v[c][j] = w[Bat(c)][Pos(c, j)]
    BY <1>4
  <2>4. b = n + 1 => i = 1
    <3>1. ASSUME b = n + 1 PROVE i = 1
      <4>1. Len(v[b]) = 1
        BY <1>1, <1>3, <3>1
      <4> QED
        BY <4>1
    <3> QED
      BY <3>1
  <2>5. Bat(b) < Bat(c) \/ (Bat(b) = Bat(c) /\ Pos(b, i) < Pos(c, j))
    BY <1>2, <2>1, <2>4
  <2>6. \A d, k \in 1 .. n + 1 : \A l \in 1 .. Len(w[d]), m \in 1 .. Len(w[k]) :
          d < k \/ (d = k /\ l < m) => w[d][l] < w[k][m]
    BY <1>2, <1>8, InOrderPointwise
  <2> HIDE DEF Bat, Pos
  <2> QED
    BY <2>2, <2>3, <2>5, <2>6
<1>6. ASSUME NEW x PROVE x \in Elements(v) <=> x \in Elements(w)
  <2>1. ASSUME x \in Elements(v) PROVE x \in Elements(w)
    <3>1. PICK b \in 1 .. n + 2 : \E i \in 1 .. Len(v[b]) : v[b][i] = x
      BY <1>3, <2>1, InElements
    <3>2. PICK i \in 1 .. Len(v[b]) : v[b][i] = x
      BY <3>1
    <3>3. /\ Bat(b) \in 1 .. n + 1 /\ Pos(b, i) \in 1 .. Len(w[Bat(b)])
          /\ x = w[Bat(b)][Pos(b, i)]
      BY <1>4, <3>2
    <3> HIDE DEF Bat, Pos
    <3> QED
      BY <1>2, <3>3, InElements
  <2>2. ASSUME x \in Elements(w) PROVE x \in Elements(v)
    <3>1. PICK b \in 1 .. n + 1 : \E i \in 1 .. Len(w[b]) : w[b][i] = x
      BY <1>2, <2>2, InElements
    <3>2. PICK i \in 1 .. Len(w[b]) : w[b][i] = x
      BY <3>1
    <3>3. \E c \in 1 .. n + 2 : \E j \in 1 .. Len(v[c]) : v[c][j] = x
      <4>1. CASE b # n + 1
        <5>1. b \in 1 .. n + 2 /\ v[b] = w[b]
          BY <1>2, <1>3, <4>1
        <5> QED
          BY <3>2, <5>1
      <4>2. CASE b = n + 1 /\ i = 1
        <5>1. n + 1 \in 1 .. n + 2 /\ 1 \in 1 .. Len(v[n + 1]) /\ v[n + 1][1] = x
          <6>1. n + 1 \in 1 .. n + 2 /\ v[n + 1] = h /\ w[b] = e
            BY <1>2, <1>3, <4>2
          <6>2. 1 \in 1 .. Len(h) /\ h[1] = e[1]
            BY <1>1
          <6>3. e[1] = x
            BY <3>2, <4>2, <6>1
          <6> QED
            BY <6>1, <6>2, <6>3
        <5> QED
          BY <5>1
      <4>3. CASE b = n + 1 /\ i # 1
        <5>1. n + 2 \in 1 .. n + 2 /\ i - 1 \in 1 .. Len(v[n + 2]) /\ v[n + 2][i - 1] = x
          <6>1. n + 2 \in 1 .. n + 2 /\ v[n + 2] = t /\ w[b] = e
            BY <1>2, <1>3, <4>3
          <6>2. i - 1 \in 1 .. Len(t) /\ (i - 1) + 1 = i
            BY <1>1, <3>2, <4>3, <6>1
          <6>3. t[i - 1] = e[(i - 1) + 1]
            BY <1>1, <6>2
          <6> QED
            BY <3>2, <6>1, <6>2, <6>3
        <5> QED
          BY <5>1
      <4> QED
        BY <4>1, <4>2, <4>3
    <3> QED
      BY <1>3, <3>3, InElements
  <2> QED
    BY <2>1, <2>2
<1> QED
  BY <1>5, <1>6 DEF v, w, h, t

(* DispatchNext, the pointwise view: v is w without the element at <<m, 1>>, *)
(* either because batch m has gone or because it has lost its first.        *)
LEMMA DropOne ==
  ASSUME NEW q \in Queues, NEW e \in Seq(Nat), Len(q) # 0, Len(q[Len(q)]) # 0,
         Increasing(Append(q, e)),
         NEW r \in Queues,
         \/ /\ Len(q[Len(q)]) = 1 /\ Len(r) = Len(q) - 1
            /\ \A b \in 1 .. Len(r) : r[b] = q[b]
         \/ /\ Len(q[Len(q)]) # 1 /\ Len(r) = Len(q)
            /\ \A b \in 1 .. Len(q) - 1 : r[b] = q[b]
            /\ r[Len(q)] = Tail(q[Len(q)])
  PROVE  /\ Increasing(Append(r, e))
         /\ Elements(Append(q, e)) = Elements(Append(r, e)) \cup {Head(q[Len(q)])}
         /\ Head(q[Len(q)]) \notin Elements(Append(r, e))
<1> DEFINE w == Append(q, e)
<1> DEFINE v == Append(r, e)
<1> DEFINE n == Len(q)
<1> DEFINE h == Head(q[Len(q)])
<1> DEFINE p == Len(r)
<1>1. /\ n \in Nat /\ p \in Nat /\ n >= 1
      /\ q[n] \in Seq(Nat) /\ Len(q[n]) \in Nat /\ Len(q[n]) >= 1 /\ h = q[n][1]
  BY DEF Queues
<1>2. /\ w \in Queues /\ Len(w) = n + 1 /\ w[n + 1] = e
      /\ \A b \in 1 .. n : w[b] = q[b]
  BY QueuesAppend
<1>3. /\ v \in Queues /\ Len(v) = p + 1 /\ v[p + 1] = e
      /\ \A b \in 1 .. p : v[b] = r[b]
  BY QueuesAppend
<1>4. \A b, c \in 1 .. n + 1 : \A i \in 1 .. Len(w[b]), j \in 1 .. Len(w[c]) :
        b < c \/ (b = c /\ i < j) => w[b][i] < w[c][j]
  BY <1>2, InOrderPointwise
<1>5. \A b \in 1 .. n + 1 : \A i \in 1 .. Len(w[b]) : w[b][i] \in Nat
  <2> TAKE b \in 1 .. n + 1
  <2>1. w[b] \in Seq(Nat)
    <3>1. w \in Seq(Seq(Nat)) /\ b \in 1 .. Len(w)
      BY <1>2 DEF Queues
    <3> HIDE DEF w, n
    <3> QED
      BY <3>1
  <2> HIDE DEF w, n
  <2> QED
    BY <2>1
<1>6. \/ /\ Len(q[n]) = 1 /\ p = n - 1
         /\ \A b \in 1 .. p : r[b] = q[b]
      \/ /\ Len(q[n]) # 1 /\ p = n
         /\ \A b \in 1 .. n - 1 : r[b] = q[b]
         /\ r[n] = Tail(q[n])
  OBVIOUS
<1>7. Len(q[n]) # 1 => /\ Len(Tail(q[n])) = Len(q[n]) - 1
                       /\ \A i \in 1 .. Len(q[n]) - 1 : Tail(q[n])[i] = q[n][i + 1]
  BY <1>1, HeadTailProperties
<1> HIDE DEF w, v, n, h, p
<1> DEFINE Bat(b) == IF b = p + 1 THEN n + 1 ELSE b
<1> DEFINE Pos(b, i) == IF b = n /\ b # p + 1 THEN i + 1 ELSE i
<1>8. ASSUME NEW b \in 1 .. p + 1, NEW i \in 1 .. Len(v[b])
      PROVE  /\ Bat(b) \in 1 .. n + 1 /\ Pos(b, i) \in 1 .. Len(w[Bat(b)])
             /\ v[b][i] = w[Bat(b)][Pos(b, i)]
             /\ ~(Bat(b) = n /\ Pos(b, i) = 1)
  <2>1. CASE b = p + 1
    <3>1. Bat(b) = n + 1 /\ Pos(b, i) = i /\ v[b] = e /\ w[n + 1] = e
      BY <1>2, <1>3, <2>1
    <3>2. n + 1 \in 1 .. n + 1 /\ n + 1 # n
      BY <1>1
    <3> HIDE DEF Bat, Pos
    <3> QED
      BY <3>1, <3>2
  <2>2. CASE b # p + 1 /\ b # n
    <3>1. b \in 1 .. p /\ b \in 1 .. n - 1 /\ b \in 1 .. n + 1 /\ b \in 1 .. n
      BY <1>1, <1>6, <2>2
    <3>2. Bat(b) = b /\ Pos(b, i) = i /\ v[b] = r[b] /\ r[b] = q[b] /\ w[b] = q[b]
      BY <1>2, <1>3, <1>6, <2>2, <3>1
    <3> HIDE DEF Bat, Pos
    <3> QED
      BY <2>2, <3>1, <3>2
  <2>3. CASE b # p + 1 /\ b = n
    <3>1. p = n /\ Len(q[n]) # 1 /\ r[n] = Tail(q[n])
      BY <1>1, <1>6, <2>3
    <3>2. Bat(b) = n /\ Pos(b, i) = i + 1 /\ v[b] = Tail(q[n]) /\ w[n] = q[n] /\ n \in 1 .. n + 1
      <4>1. n \in 1 .. n /\ n \in 1 .. p /\ n \in 1 .. n + 1
        BY <1>1, <3>1
      <4>2. v[n] = r[n] /\ w[n] = q[n]
        BY <1>2, <1>3, <4>1
      <4> QED
        BY <2>3, <3>1, <4>1, <4>2
    <3>3. i \in 1 .. Len(q[n]) - 1 /\ i + 1 \in 1 .. Len(q[n]) /\ i + 1 # 1
      BY <1>1, <1>7, <3>1, <3>2
    <3>4. Tail(q[n])[i] = q[n][i + 1]
      BY <1>7, <3>1, <3>3
    <3> HIDE DEF Bat, Pos
    <3> QED
      BY <3>2, <3>3, <3>4
  <2> QED
    BY <2>1, <2>2, <2>3
<1>9. Increasing(v)
  <2>1. SUFFICES ASSUME NEW b \in 1 .. p + 1, NEW c \in 1 .. p + 1,
                        NEW i \in 1 .. Len(v[b]), NEW j \in 1 .. Len(v[c]),
                        b < c \/ (b = c /\ i < j)
                 PROVE  v[b][i] < v[c][j]
    BY <1>3, InOrderPointwise
  <2>2. /\ Bat(b) \in 1 .. n + 1 /\ Pos(b, i) \in 1 .. Len(w[Bat(b)])
        /\ v[b][i] = w[Bat(b)][Pos(b, i)]
    BY <1>8
  <2>3. /\ Bat(c) \in 1 .. n + 1 /\ Pos(c, j) \in 1 .. Len(w[Bat(c)])
        /\ v[c][j] = w[Bat(c)][Pos(c, j)]
    BY <1>8
  <2>4. Bat(b) < Bat(c) \/ (Bat(b) = Bat(c) /\ Pos(b, i) < Pos(c, j))
    <3>1. p = n \/ p = n - 1
      BY <1>6
    <3>2. b = c => i \in Int /\ j \in Int
      OBVIOUS
    <3> QED
      BY <1>1, <2>1, <3>1, <3>2
  <2> HIDE DEF Bat, Pos
  <2> QED
    BY <1>4, <2>2, <2>3, <2>4
<1>10. n \in 1 .. n + 1 /\ 1 \in 1 .. Len(w[n]) /\ w[n][1] = h /\ h \in Nat
  <2>1. n \in 1 .. n /\ n \in 1 .. n + 1
    BY <1>1
  <2>2. w[n] = q[n]
    BY <1>2, <2>1
  <2>3. 1 \in 1 .. Len(w[n]) /\ w[n][1] = h
    BY <1>1, <2>2
  <2> QED
    BY <1>5, <2>1, <2>3
<1>11. h \notin Elements(v)
  <2>1. SUFFICES ASSUME h \in Elements(v) PROVE FALSE
    OBVIOUS
  <2>2. PICK b \in 1 .. p + 1 : \E i \in 1 .. Len(v[b]) : v[b][i] = h
    BY <1>3, <2>1, InElements
  <2>3. PICK i \in 1 .. Len(v[b]) : v[b][i] = h
    BY <2>2
  <2>4. /\ Bat(b) \in 1 .. n + 1 /\ Pos(b, i) \in 1 .. Len(w[Bat(b)])
        /\ h = w[Bat(b)][Pos(b, i)] /\ ~(Bat(b) = n /\ Pos(b, i) = 1)
    BY <1>8, <2>3
  <2>5. Bat(b) < n \/ n < Bat(b) \/ (Bat(b) = n /\ 1 < Pos(b, i))
    <3> HIDE DEF Bat, Pos
    <3> QED
      BY <1>1, <2>4
  <2> HIDE DEF Bat, Pos
  <2>6. CASE Bat(b) < n
    <3>1. w[Bat(b)][Pos(b, i)] < w[n][1]
      BY <1>4, <1>10, <2>4, <2>6
    <3> QED
      BY <1>10, <2>4, <3>1
  <2>7. CASE n < Bat(b) \/ (Bat(b) = n /\ 1 < Pos(b, i))
    <3>1. w[n][1] < w[Bat(b)][Pos(b, i)]
      BY <1>4, <1>10, <2>4, <2>7
    <3> QED
      BY <1>10, <2>4, <3>1
  <2> QED
    BY <2>5, <2>6, <2>7
<1>12. ASSUME NEW x PROVE x \in Elements(w) <=> x \in Elements(v) \cup {h}
  <2>1. ASSUME x \in Elements(v) PROVE x \in Elements(w)
    <3>1. PICK b \in 1 .. p + 1 : \E i \in 1 .. Len(v[b]) : v[b][i] = x
      BY <1>3, <2>1, InElements
    <3>2. PICK i \in 1 .. Len(v[b]) : v[b][i] = x
      BY <3>1
    <3>3. /\ Bat(b) \in 1 .. n + 1 /\ Pos(b, i) \in 1 .. Len(w[Bat(b)])
          /\ x = w[Bat(b)][Pos(b, i)]
      BY <1>8, <3>2
    <3> HIDE DEF Bat, Pos
    <3> QED
      BY <1>2, <3>3, InElements
  <2>2. h \in Elements(w)
    BY <1>2, <1>10, InElements
  <2>3. ASSUME x \in Elements(w), x # h PROVE x \in Elements(v)
    <3>1. PICK b \in 1 .. n + 1 : \E i \in 1 .. Len(w[b]) : w[b][i] = x
      BY <1>2, <2>3, InElements
    <3>2. PICK i \in 1 .. Len(w[b]) : w[b][i] = x
      BY <3>1
    <3>3. \E c \in 1 .. p + 1 : \E j \in 1 .. Len(v[c]) : v[c][j] = x
      <4>1. CASE b = n + 1
        <5>1. p + 1 \in 1 .. p + 1 /\ v[p + 1] = w[b]
          BY <1>1, <1>2, <1>3, <4>1
        <5> QED
          BY <3>2, <5>1
      <4>2. CASE b # n + 1 /\ b # n
        <5>1. b \in 1 .. p /\ b \in 1 .. n - 1 /\ b \in 1 .. n /\ b \in 1 .. p + 1
          BY <1>1, <1>6, <4>2
        <5>2. v[b] = w[b]
          BY <1>2, <1>3, <1>6, <5>1
        <5> QED
          BY <3>2, <5>1, <5>2
      <4>3. CASE b = n
        <5>1. w[b] = q[n] /\ i \in 1 .. Len(q[n]) /\ q[n][i] = x
          <6>1. n \in 1 .. n
            BY <1>1
          <6>2. w[n] = q[n]
            BY <1>2, <6>1
          <6> QED
            BY <3>2, <4>3, <6>2
        <5>2. i # 1
          BY <1>1, <2>3, <5>1
        <5>3. p = n /\ Len(q[n]) # 1 /\ r[n] = Tail(q[n])
          BY <1>1, <1>6, <5>1, <5>2
        <5>4. n \in 1 .. p /\ n \in 1 .. p + 1 /\ v[n] = Tail(q[n])
          BY <1>1, <1>3, <5>3
        <5>5. i - 1 \in 1 .. Len(q[n]) - 1 /\ (i - 1) + 1 = i
          <6> DEFINE l == Len(q[n])
          <6>1. l \in Nat /\ i \in 1 .. l
            BY <1>1, <5>1
          <6> HIDE DEF l
          <6>2. i - 1 \in 1 .. l - 1 /\ (i - 1) + 1 = i
            BY <5>2, <6>1
          <6> QED
            BY <6>2 DEF l
        <5>6. Tail(q[n])[i - 1] = x /\ i - 1 \in 1 .. Len(Tail(q[n]))
          BY <1>7, <5>1, <5>3, <5>5
        <5> QED
          BY <5>4, <5>6
      <4> QED
        BY <4>1, <4>2, <4>3
    <3> QED
      BY <1>3, <3>3, InElements
  <2> QED
    BY <2>1, <2>2, <2>3
<1> QED
  BY <1>9, <1>11, <1>12 DEF v, w, h

-----------------------------------------------------------------------------
PlatformType ==
  /\ pq_events \in Seq(Nat) /\ pq_batches \in Queues /\ pq_handled \in Seq(Nat)
  /\ pq_wakeups \in Nat /\ pq_sent \in Nat
  /\ pq_accepted \subseteq 1 .. pq_sent /\ pq_refused \subseteq pq_accepted

(* Nothing is there before the queue is mapped, nor a batch once it is not *)
(* mapped any more.                                                        *)
PlatformLife ==
  /\ pq_life = "new" => pq_kind = "none"
  /\ pq_life = "window" => pq_kind = "window"
  /\ pq_life \in {"new", "window"} =>
       pq_events = <<>> /\ pq_wakeups = 0 /\ pq_batches = <<>> /\ pq_accepted = {} /\ pq_handled = <<>>
       /\ pq_refused = {} /\ pq_dropped = {}
  /\ pq_life \in {"mapped", "revoked", "unmapped", "gone"} => pq_kind \in {"window", "port", "ff2", "ff3"}
  /\ pq_life \in {"revoked", "unmapped", "gone"} => pq_batches = <<>>
  /\ pq_life = "revoked" => pq_kind = "ff2"
  /\ pq_life \in {"new", "window", "mapped", "revoked", "unmapped", "gone"}

(* How many wake-ups are under way for the events there are. *)
WakeupsInv ==
  /\ pq_kind = "window" =>
       pq_wakeups = IF pq_events = <<>> \/ Head(pq_events) \in pq_refused THEN 0 ELSE 1
  /\ pq_kind \in {"ff2", "ff3"} => pq_wakeups = Len(pq_events)
  /\ pq_kind = "port" => (pq_events # <<>> => pq_wakeups > 0)
  /\ pq_kind = "none" => pq_events = <<>>

NoEmptyBatch == \A b \in 1 .. Len(pq_batches) : Len(pq_batches[b]) # 0

PlatformInv ==
  /\ PlatformType
  /\ PlatformLife
  /\ WakeupsInv
  /\ NoEmptyBatch
  /\ BatchesInOrder
  /\ DropsAtTheEnd

LEMMA PlatformInit0 == PlatformInit => PlatformInv
<1> SUFFICES ASSUME PlatformInit PROVE PlatformInv
  OBVIOUS
<1> USE DEF PlatformInit
<1>1. pq_events \in Seq(Nat) /\ pq_batches \in Queues /\ pq_handled \in Seq(Nat) /\ Len(pq_batches) = 0
  BY DEF Queues
<1>2. Waiting \in Queues /\ Len(Waiting) = 1 /\ Waiting[1] = <<>>
  <2>1. /\ Waiting \in Queues /\ Len(Waiting) = Len(pq_batches) + 1
        /\ Waiting[Len(pq_batches) + 1] = pq_events
    BY <1>1, QueuesAppend DEF Waiting
  <2> QED
    BY <1>1, <2>1
<1>3. Increasing(Waiting)
  BY <1>2, InOrderPointwise
<1>4. Elements(Waiting) = {}
  <2>1. ASSUME NEW x \in Elements(Waiting) PROVE FALSE
    BY <1>2, <2>1, InElements
  <2> QED
    BY <2>1
<1>5. ToSet(pq_handled) = {}
  BY DEF ToSet
<1> QED
  BY <1>1, <1>3, <1>4, <1>5
     DEF PlatformInv, PlatformType, PlatformLife, WakeupsInv, NoEmptyBatch, BatchesInOrder,
         DropsAtTheEnd

LEMMA PlatformCreate ==
  ASSUME PlatformInv, CreateQueue
  PROVE  PlatformInv'
<1>1. UNCHANGED <<pq_events, pq_wakeups, pq_batches, pq_sent, pq_accepted, pq_refused, pq_dropped, pq_handled>> /\ pq_life = "new"
  BY DEF CreateQueue, pqHistory
<1>2. /\ pq_kind' \in {"window", "port", "ff2", "ff3"}
      /\ pq_life' = IF pq_kind' = "window" THEN "window" ELSE "mapped"
  BY DEF CreateQueue
<1>3. PlatformType' /\ NoEmptyBatch' /\ PlatformLife'
  BY <1>1, <1>2 DEF PlatformInv, PlatformType, NoEmptyBatch, PlatformLife
<1>4. WakeupsInv'
  <2>1. pq_events = <<>> /\ pq_wakeups = 0
    BY <1>1 DEF PlatformInv, PlatformLife
  <2> QED
    BY <1>1, <1>2, <2>1 DEF WakeupsInv
<1>5. BatchesInOrder'
  BY <1>1 DEF PlatformInv, BatchesInOrder, Waiting
<1>6. DropsAtTheEnd'
  BY <1>1 DEF PlatformInv, PlatformLife, DropsAtTheEnd
<1> QED
  BY <1>3, <1>4, <1>5, <1>6 DEF PlatformInv

LEMMA PlatformSend ==
  ASSUME PlatformInv, SendOther
  PROVE  PlatformInv'
<1> DEFINE x == pq_sent + 1
<1>1. /\ UNCHANGED <<pq_kind, pq_life, pq_batches, pq_handled>> /\ pq_sent' = x /\ pq_sent \in Nat
      /\ x \in Nat
  BY DEF SendOther, PlatformInv, PlatformType
<1>2. /\ pq_events \in Seq(Nat) /\ pq_batches \in Queues /\ pq_wakeups \in Nat
      /\ pq_accepted \subseteq 1 .. pq_sent /\ pq_refused \subseteq pq_accepted
      /\ 1 .. pq_sent \subseteq 1 .. x /\ x \in 1 .. x /\ \A y \in pq_accepted : y < x /\ y # x
  BY <1>1 DEF PlatformInv, PlatformType
<1>3. /\ Increasing(Waiting)
      /\ pq_accepted = Elements(Waiting) \cup ToSet(pq_handled) \cup pq_dropped
      /\ Elements(Waiting) \cap ToSet(pq_handled) = {}
      /\ pq_dropped \cap (Elements(Waiting) \cup ToSet(pq_handled)) = {}
      /\ \A i, j \in DOMAIN pq_handled : i # j => pq_handled[i] # pq_handled[j]
  BY DEF PlatformInv, BatchesInOrder
<1>4. InMap => pq_kind \in {"window", "port", "ff2", "ff3"}
  BY DEF InMap, PlatformInv, PlatformLife
<1>5. ASSUME InMap PROVE PlatformLife' /\ NoEmptyBatch'
  BY <1>1, <1>5 DEF InMap, PlatformInv, PlatformLife, NoEmptyBatch
<1> HIDE DEF x
<1>6. ASSUME pq_events' = Append(pq_events, x), pq_accepted' = pq_accepted \cup {x}, UNCHANGED pq_dropped
      PROVE  BatchesInOrder'
  <2>1. Increasing(Waiting') /\ Elements(Waiting') = Elements(Waiting) \cup {x}
    <3>1. Waiting' = Append(pq_batches, Append(pq_events, x))
      BY <1>1, <1>6 DEF Waiting
    <3>2. \A y \in Elements(Append(pq_batches, pq_events)) : y < x
      BY <1>2, <1>3 DEF Waiting
    <3> QED
      BY <1>1, <1>2, <1>3, <3>1, <3>2, PostOrder DEF Waiting
  <2>2. x \notin ToSet(pq_handled) /\ x \notin pq_dropped
    BY <1>2, <1>3
  <2>3. /\ Elements(Waiting') \cap ToSet(pq_handled') = {}
        /\ pq_dropped' \cap (Elements(Waiting') \cup ToSet(pq_handled')) = {}
    BY <1>1, <1>3, <1>6, <2>1, <2>2
  <2>4. pq_accepted' = Elements(Waiting') \cup ToSet(pq_handled') \cup pq_dropped'
    BY <1>1, <1>3, <1>6, <2>1
  <2> QED
    BY <1>1, <1>3, <2>1, <2>3, <2>4 DEF BatchesInOrder
<1>7. CASE Post1
  <2>1. /\ InMap /\ pq_events' = Append(pq_events, x) /\ UNCHANGED <<pq_refused, pq_dropped>>
        /\ pq_wakeups' = WakeupsAfter /\ pq_accepted' = pq_accepted \cup {x}
    BY <1>7 DEF Post1, x
  <2>2. pq_kind \in {"window", "port", "ff2", "ff3"}
    BY <1>4, <2>1
  <2>3. /\ pq_events' \in Seq(Nat) /\ pq_events' # <<>> /\ Len(pq_events') = Len(pq_events) + 1
        /\ Len(pq_events) \in Nat
        /\ Head(pq_events') = IF pq_events = <<>> THEN x ELSE Head(pq_events)
    BY <1>1, <1>2, <2>1
  <2>4. PlatformType'
    <3>1. pq_wakeups' \in Nat
      BY <1>2, <2>1, <2>2 DEF WakeupsAfter
    <3>2. pq_accepted' \subseteq 1 .. pq_sent' /\ pq_refused' \subseteq pq_accepted'
      BY <1>1, <1>2, <2>1
    <3> QED
      BY <1>1, <2>3, <3>1, <3>2 DEF PlatformInv, PlatformType
  <2>5. WakeupsInv'
    <3>1. CASE pq_kind = "window"
      <4>1. x \notin pq_refused
        BY <1>2
      <4> QED
        BY <1>1, <1>2, <2>1, <2>3, <3>1, <4>1 DEF PlatformInv, WakeupsInv, WakeupsAfter
    <3>2. CASE pq_kind = "port"
      <4>1. pq_wakeups' > 0
        BY <1>2, <2>1, <3>2, PortAssumption DEF WakeupsAfter
      <4> QED
        BY <1>1, <3>2, <4>1 DEF WakeupsInv
    <3>3. CASE pq_kind \in {"ff2", "ff3"}
      BY <1>1, <1>2, <2>1, <2>3, <3>3 DEF PlatformInv, WakeupsInv, WakeupsAfter
    <3> QED
      BY <2>2, <3>1, <3>2, <3>3
  <2>6. DropsAtTheEnd'
    BY <1>1, <2>1 DEF PlatformInv, DropsAtTheEnd
  <2> QED
    BY <1>5, <1>6, <2>1, <2>4, <2>5, <2>6 DEF PlatformInv
<1>8. CASE PostRefused
  <2>1. /\ InMap /\ pq_accepted' = pq_accepted \cup {x} /\ pq_refused' = pq_refused \cup {x}
        /\ UNCHANGED pq_wakeups
    BY <1>8 DEF PostRefused, x
  <2>2. pq_accepted' \subseteq 1 .. pq_sent' /\ pq_refused' \subseteq pq_accepted'
    BY <1>1, <1>2, <2>1
  <2>3. CASE pq_kind = "window" /\ pq_events = <<>> /\ pq_events' = Append(pq_events, x) /\ UNCHANGED pq_dropped
    <3>1. pq_events' \in Seq(Nat) /\ pq_events' # <<>> /\ Head(pq_events') = x
      BY <1>1, <1>2, <2>3
    <3>2. PlatformType'
      BY <1>1, <1>2, <2>1, <2>2, <3>1 DEF PlatformInv, PlatformType
    <3>3. WakeupsInv'
      BY <1>1, <2>1, <2>3, <3>1 DEF PlatformInv, WakeupsInv
    <3>4. DropsAtTheEnd'
      BY <1>1, <2>3 DEF PlatformInv, DropsAtTheEnd
    <3> QED
      BY <1>5, <1>6, <2>1, <2>3, <3>2, <3>3, <3>4 DEF PlatformInv
  <2>4. CASE pq_kind = "ff3" /\ pq_dropped' = pq_dropped \cup {x} /\ UNCHANGED pq_events
    <3>1. PlatformType'
      BY <1>1, <1>2, <2>1, <2>2, <2>4 DEF PlatformInv, PlatformType
    <3>2. WakeupsInv'
      BY <1>1, <2>1, <2>4 DEF PlatformInv, WakeupsInv
    <3>3. Waiting' = Waiting
      BY <1>1, <2>4 DEF Waiting
    <3>4. x \notin ToSet(pq_handled) /\ x \notin Elements(Waiting)
      BY <1>2, <1>3
    <3>5. BatchesInOrder'
      <4>1. pq_accepted' = Elements(Waiting') \cup ToSet(pq_handled') \cup pq_dropped'
        BY <1>1, <1>3, <2>1, <2>4, <3>3
      <4>2. pq_dropped' \cap (Elements(Waiting') \cup ToSet(pq_handled')) = {}
        BY <1>1, <1>3, <2>4, <3>3, <3>4
      <4> QED
        BY <1>1, <1>3, <3>3, <4>1, <4>2 DEF BatchesInOrder
    <3>6. DropsAtTheEnd'
      BY <1>1, <2>1, <2>4 DEF PlatformInv, DropsAtTheEnd
    <3> QED
      BY <1>5, <2>1, <3>1, <3>2, <3>5, <3>6 DEF PlatformInv
  <2> QED
    BY <1>8, <2>3, <2>4 DEF PostRefused, x
<1>9. CASE SendFails
  <2>1. UNCHANGED <<pq_events, pq_wakeups, pq_accepted, pq_refused, pq_dropped>>
    BY <1>9 DEF SendFails
  <2>2. PlatformType'
    BY <1>1, <1>2, <2>1 DEF PlatformInv, PlatformType
  <2> QED
    BY <1>1, <2>1, <2>2 DEF PlatformInv, PlatformLife, WakeupsInv, NoEmptyBatch, BatchesInOrder,
                            DropsAtTheEnd, Waiting
<1> QED
  BY <1>7, <1>8, <1>9 DEF SendOther

LEMMA PlatformTake ==
  ASSUME PlatformInv, OnThreadMessage
  PROVE  PlatformInv'
<1>1. /\ UNCHANGED <<pq_kind, pq_life, pq_sent, pq_accepted, pq_refused, pq_dropped, pq_handled>>
      /\ pq_life = "mapped" /\ pq_wakeups > 0 /\ pq_wakeups' = pq_wakeups - 1
  BY DEF OnThreadMessage, pqHistory
<1>2. /\ pq_events \in Seq(Nat) /\ pq_batches \in Queues /\ pq_wakeups \in Nat /\ Len(pq_batches) \in Nat
      /\ pq_kind \in {"window", "port", "ff2", "ff3"} /\ Len(pq_events) \in Nat
  BY <1>1 DEF PlatformInv, PlatformType, PlatformLife, Queues
<1>3. /\ Increasing(Waiting)
      /\ pq_accepted = Elements(Waiting) \cup ToSet(pq_handled) \cup pq_dropped
      /\ Elements(Waiting) \cap ToSet(pq_handled) = {}
      /\ pq_dropped \cap (Elements(Waiting) \cup ToSet(pq_handled)) = {}
      /\ \A i, j \in DOMAIN pq_handled : i # j => pq_handled[i] # pq_handled[j]
  BY <1>1 DEF PlatformInv, BatchesInOrder
<1>4. Waiting \in Queues
  BY <1>2, QueuesAppend DEF Waiting
<1>5. /\ pq_events' \in Seq(Nat) /\ pq_batches' \in Queues
      /\ NoEmptyBatch' /\ WakeupsInv'
      /\ Increasing(Waiting') /\ Elements(Waiting') = Elements(Waiting)
  <2>1. CASE /\ pq_kind \in {"ff2", "ff3"}
             /\ pq_batches' = Append(pq_batches, <<Head(pq_events)>>)
             /\ pq_events' = Tail(pq_events)
    <3>1. pq_wakeups = Len(pq_events) /\ pq_events # <<>>
      BY <1>1, <2>1 DEF PlatformInv, WakeupsInv
    <3>2. /\ <<Head(pq_events)>> \in Seq(Nat) /\ Len(<<Head(pq_events)>>) = 1
          /\ Tail(pq_events) \in Seq(Nat) /\ Len(Tail(pq_events)) = Len(pq_events) - 1
      BY <1>2, <3>1, HeadTailProperties
    <3>3. /\ pq_batches' \in Queues /\ Len(pq_batches') = Len(pq_batches) + 1
          /\ pq_batches'[Len(pq_batches) + 1] = <<Head(pq_events)>>
          /\ \A b \in 1 .. Len(pq_batches) : pq_batches'[b] = pq_batches[b]
      BY <1>2, <2>1, <3>2, QueuesAppend
    <3>4. NoEmptyBatch'
      <4>1. ASSUME NEW b \in 1 .. Len(pq_batches) + 1 PROVE Len(pq_batches'[b]) # 0
        <5>1. CASE b = Len(pq_batches) + 1
          <6>1. pq_batches'[b] = <<Head(pq_events)>>
            BY <3>3, <5>1
          <6> QED
            BY <3>2, <6>1
        <5>2. CASE b # Len(pq_batches) + 1
          <6>1. b \in 1 .. Len(pq_batches)
            BY <1>2, <5>2
          <6> QED
            BY <3>2, <3>3, <6>1 DEF NoEmptyBatch, PlatformInv
        <5> QED
          BY <5>1, <5>2
      <4> QED
        BY <3>2, <3>3, <4>1 DEF NoEmptyBatch
    <3>5. WakeupsInv'
      BY <1>1, <2>1, <3>1, <3>2 DEF WakeupsInv
    <3>6. Increasing(Waiting') /\ Elements(Waiting') = Elements(Waiting)
      BY <1>2, <1>3, <2>1, <3>1, TakeOneOrder DEF Waiting
    <3> QED
      BY <2>1, <3>2, <3>3, <3>4, <3>5, <3>6
  <2>2. CASE /\ pq_kind \in {"window", "port"}
             /\ pq_batches' = IF pq_events = <<>> THEN pq_batches ELSE Append(pq_batches, pq_events)
             /\ pq_events' = <<>>
    <3>1. pq_events' \in Seq(Nat)
      BY <2>2
    <3>2. WakeupsInv'
      BY <1>1, <1>2, <2>2 DEF WakeupsInv, PlatformInv
    <3>3. CASE pq_events = <<>>
      BY <1>2, <1>3, <2>2, <3>1, <3>2, <3>3 DEF Waiting, NoEmptyBatch, PlatformInv
    <3>4. CASE pq_events # <<>>
      <4>1. pq_batches' = Append(pq_batches, pq_events) /\ Len(pq_events) # 0 /\ pq_batches' = Waiting
        BY <1>2, <2>2, <3>4 DEF Waiting
      <4>2. /\ pq_batches' \in Queues /\ Len(pq_batches') = Len(pq_batches) + 1
            /\ pq_batches'[Len(pq_batches) + 1] = pq_events
            /\ \A b \in 1 .. Len(pq_batches) : pq_batches'[b] = pq_batches[b]
        <5>1. /\ Append(pq_batches, pq_events) \in Queues
              /\ Len(Append(pq_batches, pq_events)) = Len(pq_batches) + 1
              /\ Append(pq_batches, pq_events)[Len(pq_batches) + 1] = pq_events
              /\ \A b \in 1 .. Len(pq_batches) : Append(pq_batches, pq_events)[b] = pq_batches[b]
          BY <1>2, QueuesAppend
        <5> QED
          BY <4>1, <5>1
      <4>3. NoEmptyBatch'
        <5>1. ASSUME NEW b \in 1 .. Len(pq_batches) + 1 PROVE Len(pq_batches'[b]) # 0
          <6>1. CASE b = Len(pq_batches) + 1
            BY <4>1, <4>2, <6>1
          <6>2. CASE b # Len(pq_batches) + 1
            <7>1. b \in 1 .. Len(pq_batches)
              BY <1>2, <6>2
            <7> QED
              BY <4>1, <4>2, <7>1 DEF NoEmptyBatch, PlatformInv
          <6> QED
            BY <6>1, <6>2
        <5> QED
          BY <4>1, <4>2, <5>1 DEF NoEmptyBatch
      <4>4. Waiting' = Append(Waiting, <<>>)
        BY <2>2, <4>1 DEF Waiting
      <4>5. Increasing(Waiting') /\ Elements(Waiting') = Elements(Waiting)
        BY <1>3, <1>4, <4>4, TakeAllOrder
      <4> QED
        BY <3>1, <3>2, <4>2, <4>3, <4>5
    <3> QED
      BY <3>3, <3>4
  <2> QED
    BY <2>1, <2>2 DEF OnThreadMessage
<1>6. PlatformType'
  BY <1>1, <1>2, <1>5 DEF PlatformInv, PlatformType
<1>7. PlatformLife'
  BY <1>1, <1>2 DEF PlatformLife
<1>8. BatchesInOrder'
  BY <1>1, <1>3, <1>5 DEF BatchesInOrder
<1>9. DropsAtTheEnd'
  BY <1>1 DEF PlatformInv, DropsAtTheEnd
<1> QED
  BY <1>5, <1>6, <1>7, <1>8, <1>9 DEF PlatformInv

LEMMA PlatformDispatch ==
  ASSUME PlatformInv, DispatchNext
  PROVE  PlatformInv'
<1> DEFINE n == Len(pq_batches)
<1> DEFINE h == Head(pq_batches[n])
<1>1. /\ UNCHANGED <<pq_kind, pq_life, pq_events, pq_wakeups, pq_sent, pq_accepted, pq_refused, pq_dropped>>
      /\ pq_batches # <<>> /\ pq_handled' = Append(pq_handled, h)
      /\ pq_batches' = IF Len(pq_batches[n]) = 1 THEN Front(pq_batches)
                       ELSE [pq_batches EXCEPT ![n] = Tail(@)]
  BY DEF DispatchNext, Innermost, Last
<1>2. /\ pq_events \in Seq(Nat) /\ pq_batches \in Queues /\ pq_handled \in Seq(Nat)
      /\ n \in Nat /\ n # 0
  BY <1>1 DEF PlatformInv, PlatformType, Queues
<1>3. n \in 1 .. n /\ pq_batches[n] \in Seq(Nat) /\ Len(pq_batches[n]) # 0
  BY <1>2 DEF PlatformInv, NoEmptyBatch, Queues
<1>4. pq_life = "mapped"
  BY <1>1 DEF PlatformInv, PlatformLife
<1>5. /\ Increasing(Waiting)
      /\ pq_accepted = Elements(Waiting) \cup ToSet(pq_handled) \cup pq_dropped
      /\ Elements(Waiting) \cap ToSet(pq_handled) = {}
      /\ pq_dropped \cap (Elements(Waiting) \cup ToSet(pq_handled)) = {}
      /\ \A i, j \in DOMAIN pq_handled : i # j => pq_handled[i] # pq_handled[j]
  BY <1>4 DEF PlatformInv, BatchesInOrder
<1>6. /\ pq_batches' \in Queues
      /\ \/ /\ Len(pq_batches[n]) = 1 /\ Len(pq_batches') = n - 1
            /\ \A b \in 1 .. n - 1 : pq_batches'[b] = pq_batches[b]
         \/ /\ Len(pq_batches[n]) # 1 /\ Len(pq_batches') = n
            /\ \A b \in 1 .. n - 1 : pq_batches'[b] = pq_batches[b]
            /\ pq_batches'[n] = Tail(pq_batches[n])
  <2>1. CASE Len(pq_batches[n]) = 1
    <3>1. pq_batches' = SubSeq(pq_batches, 1, n - 1)
      BY <1>1, <2>1 DEF Front
    <3>2. /\ SubSeq(pq_batches, 1, n - 1) \in Seq(Seq(Nat))
          /\ Len(SubSeq(pq_batches, 1, n - 1)) = n - 1
          /\ \A b \in 1 .. n - 1 : SubSeq(pq_batches, 1, n - 1)[b] = pq_batches[b]
      <4> DEFINE q == pq_batches
      <4>1. q \in Seq(Seq(Nat)) /\ n = Len(q) /\ n \in Nat /\ n # 0
        BY <1>2 DEF Queues
      <4> HIDE DEF q, n
      <4>2. \A b \in 1 .. n - 1 : q[b] \in Seq(Nat)
        BY <4>1
      <4>3. /\ SubSeq(q, 1, n - 1) \in Seq(Seq(Nat))
            /\ Len(SubSeq(q, 1, n - 1)) = IF 1 <= n - 1 THEN (n - 1) - 1 + 1 ELSE 0
            /\ \A b \in 1 .. (n - 1) - 1 + 1 : SubSeq(q, 1, n - 1)[b] = q[1 + b - 1]
        <5>1. 1 \in Int /\ n - 1 \in Int
          BY <4>1
        <5> QED
          BY <4>2, <5>1, SubSeqProperties
      <4>4. (n - 1) - 1 + 1 = n - 1 /\ (1 > n - 1 => n - 1 = 0) /\ \A b \in 1 .. n - 1 : 1 + b - 1 = b
        BY <4>1
      <4> QED
        BY <4>3, <4>4 DEF q
    <3> QED
      BY <2>1, <3>1, <3>2 DEF Queues
  <2>2. CASE Len(pq_batches[n]) # 1
    <3>1. Tail(pq_batches[n]) \in Seq(Nat)
      BY <1>3, HeadTailProperties
    <3>2. pq_batches' = [pq_batches EXCEPT ![n] = Tail(pq_batches[n])] /\ pq_batches \in Seq(Seq(Nat))
      BY <1>1, <1>2, <2>2 DEF Queues
    <3> HIDE DEF n
    <3>3. /\ pq_batches' \in Seq(Seq(Nat)) /\ Len(pq_batches') = Len(pq_batches)
          /\ \A b \in 1 .. Len(pq_batches) : pq_batches'[b] = IF b = n THEN Tail(pq_batches[n]) ELSE pq_batches[b]
      <4>1. n \in 1 .. Len(pq_batches)
        BY <1>3 DEF n
      <4> QED
        BY <3>1, <3>2, <4>1, ExceptSeq
    <3>4. /\ Len(pq_batches') = n /\ pq_batches'[n] = Tail(pq_batches[n])
          /\ \A b \in 1 .. n - 1 : pq_batches'[b] = pq_batches[b]
      BY <1>2, <1>3, <3>3 DEF n
    <3> QED
      BY <2>2, <3>3, <3>4 DEF Queues
  <2> QED
    BY <2>1, <2>2
<1>7. /\ Increasing(Waiting') /\ h \notin Elements(Waiting')
      /\ Elements(Waiting) = Elements(Waiting') \cup {h}
  <2>1. Waiting' = Append(pq_batches', pq_events)
    BY <1>1 DEF Waiting
  <2> DEFINE r == pq_batches'
  <2>2. r \in Queues /\ \/ /\ Len(pq_batches[n]) = 1 /\ Len(r) = n - 1
                           /\ \A b \in 1 .. Len(r) : r[b] = pq_batches[b]
                        \/ /\ Len(pq_batches[n]) # 1 /\ Len(r) = n
                           /\ \A b \in 1 .. n - 1 : r[b] = pq_batches[b]
                           /\ r[n] = Tail(pq_batches[n])
    BY <1>6
  <2> HIDE DEF r
  <2>3. /\ Increasing(Append(r, pq_events))
        /\ Elements(Append(pq_batches, pq_events)) = Elements(Append(r, pq_events)) \cup {h}
        /\ h \notin Elements(Append(r, pq_events))
    BY <1>2, <1>3, <1>5, <2>2, DropOne DEF Waiting
  <2> QED
    BY <2>1, <2>3 DEF r, Waiting
<1>8. h \in Nat /\ h \notin ToSet(pq_handled)
  BY <1>3, <1>5, <1>7, HeadTailProperties
<1> HIDE DEF h
<1>9. /\ pq_handled' \in Seq(Nat) /\ Len(pq_handled') = Len(pq_handled) + 1 /\ Len(pq_handled) \in Nat
      /\ DOMAIN pq_handled = 1 .. Len(pq_handled) /\ DOMAIN pq_handled' = 1 .. Len(pq_handled) + 1
      /\ pq_handled'[Len(pq_handled) + 1] = h
      /\ \A i \in 1 .. Len(pq_handled) : pq_handled'[i] = pq_handled[i]
  BY <1>1, <1>2, <1>8
<1>10. ToSet(pq_handled') = ToSet(pq_handled) \cup {h}
  BY <1>9 DEF ToSet
<1>11. \A i, j \in DOMAIN pq_handled' : i # j => pq_handled'[i] # pq_handled'[j]
  <2> SUFFICES ASSUME NEW i \in 1 .. Len(pq_handled) + 1, NEW j \in 1 .. Len(pq_handled) + 1, i # j
               PROVE  pq_handled'[i] # pq_handled'[j]
    BY <1>9
  <2>1. \A k \in 1 .. Len(pq_handled) : pq_handled'[k] # h
    BY <1>8, <1>9 DEF ToSet
  <2>2. CASE i = Len(pq_handled) + 1
    BY <1>9, <2>1, <2>2
  <2>3. CASE j = Len(pq_handled) + 1
    BY <1>9, <2>1, <2>3
  <2>4. CASE i # Len(pq_handled) + 1 /\ j # Len(pq_handled) + 1
    BY <1>5, <1>9, <2>4
  <2> QED
    BY <2>2, <2>3, <2>4
<1>12. BatchesInOrder'
  <2>1. Elements(Waiting') \cap ToSet(pq_handled') = {}
    BY <1>5, <1>7, <1>10
  <2>2. pq_accepted' = Elements(Waiting') \cup ToSet(pq_handled') \cup pq_dropped'
    BY <1>1, <1>5, <1>7, <1>10
  <2>3. pq_dropped' \cap (Elements(Waiting') \cup ToSet(pq_handled')) = {}
    BY <1>1, <1>5, <1>7, <1>10
  <2> QED
    BY <1>7, <1>11, <2>1, <2>2, <2>3 DEF BatchesInOrder
<1>13. NoEmptyBatch'
  <2>1. ASSUME NEW b \in 1 .. n - 1 PROVE Len(pq_batches'[b]) # 0
    <3>1. b \in 1 .. n /\ pq_batches'[b] = pq_batches[b]
      BY <1>2, <1>6
    <3> QED
      BY <3>1 DEF NoEmptyBatch, PlatformInv
  <2>2. ASSUME Len(pq_batches[n]) # 1 PROVE Len(pq_batches'[n]) # 0
    <3>1. Len(Tail(pq_batches[n])) = Len(pq_batches[n]) - 1 /\ Len(pq_batches[n]) \in Nat
      BY <1>3, HeadTailProperties
    <3>2. pq_batches'[n] = Tail(pq_batches[n])
      BY <1>6, <2>2
    <3> HIDE DEF n
    <3> QED
      BY <1>3, <2>2, <3>1, <3>2
  <2>3. ASSUME NEW b \in 1 .. Len(pq_batches') PROVE Len(pq_batches'[b]) # 0
    <3>1. b \in 1 .. n - 1 \/ (b = n /\ Len(pq_batches[n]) # 1)
      <4> HIDE DEF n
      <4> QED
        BY <1>2, <1>6
    <3> QED
      BY <2>1, <2>2, <3>1
  <2> QED
    BY <2>3 DEF NoEmptyBatch
<1>14. PlatformType' /\ PlatformLife' /\ WakeupsInv' /\ DropsAtTheEnd'
  BY <1>1, <1>4, <1>6, <1>9 DEF PlatformInv, PlatformType, PlatformLife, WakeupsInv, DropsAtTheEnd
<1> QED
  BY <1>12, <1>13, <1>14 DEF PlatformInv

LEMMA PlatformUnmap ==
  ASSUME PlatformInv, MapQueue \/ UnmapQueue
  PROVE  PlatformInv'
<1>1. UNCHANGED <<pq_kind, pq_events, pq_wakeups, pq_batches, pq_sent, pq_accepted, pq_refused, pq_dropped, pq_handled>>
  BY DEF MapQueue, UnmapQueue, pqHistory
<1>2. PlatformLife' /\ DropsAtTheEnd'
  <2>1. CASE MapQueue
    BY <1>1, <2>1 DEF MapQueue, PlatformLife, DropsAtTheEnd, PlatformInv
  <2>2. CASE UnmapQueue
    BY <1>1, <2>2 DEF UnmapQueue, InMap, PlatformLife, DropsAtTheEnd, PlatformInv
  <2> QED
    BY <2>1, <2>2
<1> QED
  BY <1>1, <1>2 DEF PlatformInv, PlatformType, WakeupsInv, NoEmptyBatch, BatchesInOrder, Waiting

LEMMA PlatformEnds ==
  ASSUME PlatformInv, RevokeEvents \/ DeleteQueue \/ ErasePort
  PROVE  PlatformInv'
<1>1. /\ UNCHANGED <<pq_kind, pq_batches, pq_sent, pq_accepted, pq_refused, pq_handled>>
      /\ pq_batches = <<>> /\ pq_events' = <<>> /\ pq_wakeups' = 0
      /\ pq_dropped' = pq_dropped \cup ToSet(pq_events)
      /\ pq_life \in {"mapped", "unmapped"} /\ pq_life' \in {"revoked", "gone"}
      /\ pq_life' = "revoked" => pq_kind = "ff2"
  BY DEF RevokeEvents, DeleteQueue, ErasePort, DropEvents
<1>2. pq_kind \in {"window", "port", "ff2", "ff3"}
  BY <1>1 DEF PlatformInv, PlatformLife
<1>3. PlatformType' /\ PlatformLife' /\ NoEmptyBatch' /\ DropsAtTheEnd'
  BY <1>1, <1>2 DEF PlatformInv, PlatformType, PlatformLife, NoEmptyBatch, DropsAtTheEnd
<1>4. WakeupsInv'
  BY <1>1, <1>2 DEF WakeupsInv
<1>5. Waiting' \in Queues /\ Len(Waiting') = 1 /\ Waiting'[1] = <<>>
  <2>1. pq_batches' \in Queues /\ pq_events' \in Seq(Nat)
    BY <1>3 DEF PlatformType
  <2>2. /\ Waiting' \in Queues /\ Len(Waiting') = Len(pq_batches') + 1
        /\ Waiting'[Len(pq_batches') + 1] = pq_events'
    BY <2>1, QueuesAppend DEF Waiting
  <2>3. Len(pq_batches') = 0
    BY <1>1
  <2> QED
    BY <1>1, <2>2, <2>3
<1>6. Increasing(Waiting')
  BY <1>5, InOrderPointwise
<1>7. Elements(Waiting') = {}
  <2>1. ASSUME NEW y \in Elements(Waiting') PROVE FALSE
    BY <1>5, <2>1, InElements
  <2> QED
    BY <2>1
<1>8. Elements(Waiting) = ToSet(pq_events)
  <2>1. /\ Waiting \in Queues /\ Len(Waiting) = 1 /\ Waiting[1] = pq_events
    <3>1. pq_batches \in Queues /\ pq_events \in Seq(Nat) /\ Len(pq_batches) = 0
      BY <1>1 DEF PlatformInv, PlatformType
    <3>2. /\ Waiting \in Queues /\ Len(Waiting) = Len(pq_batches) + 1
          /\ Waiting[Len(pq_batches) + 1] = pq_events
      BY <3>1, QueuesAppend DEF Waiting
    <3> QED
      BY <3>1, <3>2
  <2>2. ASSUME NEW y PROVE y \in Elements(Waiting) <=> y \in ToSet(pq_events)
    <3>1. y \in Elements(Waiting) <=> \E b \in 1 .. Len(Waiting) : \E i \in 1 .. Len(Waiting[b]) : Waiting[b][i] = y
      BY <2>1, InElements
    <3>2. y \in ToSet(pq_events) <=> \E i \in 1 .. Len(pq_events) : pq_events[i] = y
      <4>1. pq_events \in Seq(Nat)
        BY DEF PlatformInv, PlatformType
      <4>2. DOMAIN pq_events = 1 .. Len(pq_events)
        BY <4>1
      <4> QED
        BY <4>2, Zenon DEF ToSet
    <3>3. 1 .. Len(Waiting) = {1}
      BY <2>1
    <3>4. y \in Elements(Waiting) <=> \E i \in 1 .. Len(Waiting[1]) : Waiting[1][i] = y
      BY <3>1, <3>3
    <3> QED
      BY <2>1, <3>2, <3>4
  <2> QED
    BY <2>2
<1>9. BatchesInOrder'
  <2>1. /\ pq_accepted = Elements(Waiting) \cup ToSet(pq_handled) \cup pq_dropped
        /\ Elements(Waiting) \cap ToSet(pq_handled) = {}
        /\ pq_dropped \cap (Elements(Waiting) \cup ToSet(pq_handled)) = {}
        /\ \A i, j \in DOMAIN pq_handled : i # j => pq_handled[i] # pq_handled[j]
    BY DEF PlatformInv, BatchesInOrder
  <2>2. /\ pq_accepted' = Elements(Waiting') \cup ToSet(pq_handled') \cup pq_dropped'
        /\ Elements(Waiting') \cap ToSet(pq_handled') = {}
        /\ pq_dropped' \cap (Elements(Waiting') \cup ToSet(pq_handled')) = {}
    BY <1>1, <1>7, <1>8, <2>1
  <2> QED
    BY <1>1, <1>6, <2>1, <2>2 DEF BatchesInOrder
<1> QED
  BY <1>3, <1>4, <1>9 DEF PlatformInv

LEMMA PlatformInductive == PlatformInv /\ [PlatformNext]_platformVars => PlatformInv'
<1> SUFFICES ASSUME PlatformInv, [PlatformNext]_platformVars
             PROVE  PlatformInv'
  OBVIOUS
<1>1. CASE UNCHANGED platformVars
  BY <1>1 DEF platformVars, pqHistory, PlatformInv, PlatformType, PlatformLife, WakeupsInv, NoEmptyBatch,
              BatchesInOrder, DropsAtTheEnd, Waiting
<1> QED
  BY <1>1, PlatformCreate, PlatformSend, PlatformTake, PlatformDispatch, PlatformUnmap, PlatformEnds
     DEF PlatformNext

(* On every platform, for any length of ports and depth of nested loops,   *)
(* messages that wait have a wake-up under way (message_queue_win32.cc     *)
(* posts one only for the first of a batch, a full Mach port takes none),  *)
(* unless the system refused the window's PostMessage; a window's wake-up  *)
(* finds messages; every message that Send accepted is handled once, older *)
(* ones before newer ones but for nested loops, or dropped: when its       *)
(* thread ends or, on Firefox 3, when Dispatch refuses its runnable.       *)
THEOREM EventsAlwaysArriveInOrder == PlatformSpec => []EventsArriveInOrder
<1>1. PlatformInv => EventsArriveInOrder
  <2> SUFFICES ASSUME PlatformInv PROVE EventsArriveInOrder
    OBVIOUS
  <2>1. /\ pq_kind \in {"none", "window", "port", "ff2", "ff3"}
        /\ pq_events \in Seq(Nat) /\ pq_wakeups \in Nat
    BY DEF PlatformInv, PlatformType, PlatformLife
  <2>2. pq_events # <<>> => Len(pq_events) > 0
    BY <2>1
  <2>3. EventsAreAnnounced
    BY <2>1, <2>2 DEF PlatformInv, WakeupsInv, EventsAreAnnounced
  <2>4. WakeupFindsEvents
    BY <2>1, <2>2 DEF PlatformInv, WakeupsInv, WakeupFindsEvents
  <2> QED
    BY <2>3, <2>4 DEF PlatformInv, EventsArriveInOrder
<1> QED
  BY <1>1, PlatformInit0, PlatformInductive, PTL DEF PlatformSpec

-----------------------------------------------------------------------------
(* Timed calls (TimedCalls).  The earliest of a finite set of deadlines    *)
(* exists: were there a prefix of an enumeration without one, there would  *)
(* be a shortest.                                                          *)
LEMMA EarliestIndex ==
  ASSUME NEW n \in Nat \ {0}, NEW f \in [1 .. n -> Int]
  PROVE  \E m \in 1 .. n : \A j \in 1 .. n : f[m] <= f[j]
<1> DEFINE Bad == {k \in 1 .. n : ~\E m \in 1 .. k : \A j \in 1 .. k : f[m] <= f[j]}
<1>1. SUFFICES ASSUME Bad # {} PROVE FALSE
  <2>1. n \in 1 .. n
    OBVIOUS
  <2> QED
    BY <1>1, <2>1
<1> DEFINE R == OpToRel(<, Nat)
<1>2. IsWellFoundedOn(R, Nat)
  BY NatLessThanWellFounded
<1>3. Bad \subseteq Nat
  OBVIOUS
<1>4. PICK k \in Bad : \A j \in Bad : <<j, k>> \notin R
  BY <1>1, <1>2, <1>3, WFMin
<1>5. k \in 1 .. n /\ ~\E m \in 1 .. k : \A j \in 1 .. k : f[m] <= f[j]
  OBVIOUS
<1>6. k # 1
  <2>1. SUFFICES ASSUME k = 1 PROVE FALSE
    OBVIOUS
  <2>2. 1 \in 1 .. k /\ \A j \in 1 .. k : j = 1
    BY <2>1
  <2>3. f[1] \in Int
    OBVIOUS
  <2>4. \A j \in 1 .. k : f[1] <= f[j]
    <3> TAKE j \in 1 .. k
    <3>1. f[j] = f[1]
      BY <2>2
    <3> QED
      BY <2>3, <3>1
  <2> QED
    BY <1>5, <2>2, <2>4
<1>7. k - 1 \in 1 .. n /\ k - 1 \in Nat /\ k \in Nat /\ k - 1 < k
  BY <1>5, <1>6
<1>8. <<k - 1, k>> \in R
  BY <1>7 DEF OpToRel
<1>9. k - 1 \notin Bad
  BY <1>4, <1>8
<1>10. PICK m \in 1 .. k - 1 : \A j \in 1 .. k - 1 : f[m] <= f[j]
  BY <1>7, <1>9
<1>11. /\ m \in 1 .. k /\ k \in 1 .. k /\ f[m] \in Int /\ f[k] \in Int
       /\ \A j \in 1 .. k : f[j] \in Int /\ (j \in 1 .. k - 1 \/ j = k)
  BY <1>5, <1>7
<1>12. CASE f[m] <= f[k]
  BY <1>5, <1>10, <1>11, <1>12
<1>13. CASE f[k] < f[m]
  <2>1. \A j \in 1 .. k : f[k] <= f[j]
    BY <1>10, <1>11, <1>13
  <2> QED
    BY <1>5, <1>11, <2>1
<1> QED
  BY <1>11, <1>12, <1>13

LEMMA EarliestDeadline ==
  ASSUME NEW q \in SUBSET Timer, q # {}, NEW d \in [Timer -> Int]
  PROVE  LET D == {d[t] : t \in q}
         IN  Min(D) \in D /\ Min(D) \in Int /\ \A y \in D : Min(D) <= y
<1> DEFINE n == Cardinality(q)
<1>1. IsFiniteSet(q)
  BY TimerAssumption, FS_Subset
<1>2. n \in Nat /\ ExistsBijection(1 .. n, q)
  BY <1>1, FS_CardinalityType
<1>3. n # 0
  BY <1>1, FS_EmptySet
<1> HIDE DEF n
<1>4. PICK g \in Bijection(1 .. n, q) : TRUE
  BY <1>2 DEF ExistsBijection
<1>5. g \in [1 .. n -> q] /\ \A t \in q : \E i \in 1 .. n : g[i] = t
  BY <1>4 DEF Bijection, Surjection, Injection
<1> DEFINE f == [i \in 1 .. n |-> d[g[i]]]
<1>6. f \in [1 .. n -> Int]
  BY <1>5
<1>7. PICK m \in 1 .. n : \A j \in 1 .. n : f[m] <= f[j]
  <2> HIDE DEF f
  <2> QED
    BY <1>2, <1>3, <1>6, EarliestIndex
<1> DEFINE D == {d[t] : t \in q}
<1>8. f[m] \in D /\ \A y \in D : f[m] <= y
  <2>1. f[m] = d[g[m]] /\ g[m] \in q
    BY <1>5
  <2>2. ASSUME NEW t \in q PROVE f[m] <= d[t]
    <3>1. PICK i \in 1 .. n : g[i] = t
      BY <1>5
    <3> QED
      BY <1>7, <3>1
  <2> HIDE DEF f
  <2> QED
    BY <2>1, <2>2
<1>9. D \subseteq Int
  OBVIOUS
<1> HIDE DEF D, f
<1>10. Min(D) \in D /\ \A y \in D : Min(D) <= y
  BY <1>8 DEF Min
<1> QED
  BY <1>9, <1>10 DEF D

LEMMA TwoNumbers ==
  ASSUME NEW a \in Int, NEW b \in Int
  PROVE  /\ Max({a, b}) = IF a >= b THEN a ELSE b
         /\ Min({a, b}) = IF a <= b THEN a ELSE b
<1>1. /\ Max({a, b}) \in {a, b} /\ \A y \in {a, b} : Max({a, b}) >= y
  <2>1. \E x \in {a, b} : \A y \in {a, b} : x >= y
    OBVIOUS
  <2> QED
    BY <2>1 DEF Max
<1>2. /\ Min({a, b}) \in {a, b} /\ \A y \in {a, b} : Min({a, b}) <= y
  <2>1. \E x \in {a, b} : \A y \in {a, b} : x <= y
    OBVIOUS
  <2> QED
    BY <2>1 DEF Min
<1> QED
  BY <1>1, <1>2

(* RearmTimer leaves an OS timer that fires no later than the earliest     *)
(* deadline, or one clamp from now, and on Win32 no other.                 *)
Covered(timers, q, d, time) ==
  q # {} => \E i \in DOMAIN timers : timers[i] <= Max({time + MinTimeout, Min({d[t] : t \in q})})

LEMMA Rearmed ==
  ASSUME NEW q \in SUBSET Timer, NEW d \in [Timer -> Int], RearmTimer(q, d),
         os \in Seq(Int), now \in Nat, OneOsTimer
  PROVE  /\ os' \in Seq(Int) /\ Covered(os', q, d, now)
         /\ Platform = "win32" => Len(os') <= 1
<1>1. CancelOs \in Seq(Int) /\ (Platform = "win32" => CancelOs = <<>>)
  BY DEF CancelOs
<1>2. CASE q = {}
  BY <1>1, <1>2 DEF RearmTimer, Covered
<1>3. CASE q # {}
  <2> DEFINE e == Min({d[t] : t \in q})
  <2>1. e \in Int
    BY <1>3, EarliestDeadline
  <2> HIDE DEF e
  <2> DEFINE timeout == Max({e - now, 0})
  <2>2. timeout \in Int /\ timeout = IF e - now >= 0 THEN e - now ELSE 0
    BY <2>1, TwoNumbers
  <2> HIDE DEF timeout
  <2> DEFINE least == Min({timeout, MaxTimeout})
  <2>3. least \in Int /\ least = IF timeout <= MaxTimeout THEN timeout ELSE MaxTimeout
    <3>1. MaxTimeout \in Int
      BY TimeAssumption
    <3> QED
      BY <2>2, <3>1, TwoNumbers
  <2> HIDE DEF least
  <2> DEFINE wait == Max({least, MinTimeout})
  <2>4. wait \in Int /\ wait = IF least >= MinTimeout THEN least ELSE MinTimeout
    <3>1. MinTimeout \in Int
      BY TimeAssumption
    <3> QED
      BY <2>3, <3>1, TwoNumbers
  <2> HIDE DEF wait
  <2>5. os' = Append(CancelOs, now + wait)
    BY <1>3 DEF RearmTimer, SetNextFire, wait, least, timeout, e
  <2>6. now + wait \in Int /\ os' \in Seq(Int) /\ Len(os') = Len(CancelOs) + 1
        /\ os'[Len(CancelOs) + 1] = now + wait /\ Len(CancelOs) + 1 \in DOMAIN os'
    <3>1. now + wait \in Int
      BY <2>4
    <3> QED
      BY <1>1, <2>5, <3>1, AppendProperties
  <2>7. now + wait <= Max({now + MinTimeout, e})
    <3>1. now + MinTimeout \in Int
      BY TimeAssumption
    <3>2. Max({now + MinTimeout, e}) = IF now + MinTimeout >= e THEN now + MinTimeout ELSE e
      BY <2>1, <3>1, TwoNumbers
    <3> QED
      BY <2>1, <2>2, <2>3, <2>4, <3>2, TimeAssumption
  <2>8. Covered(os', q, d, now)
    BY <2>6, <2>7 DEF Covered, e
  <2>9. Platform = "win32" => Len(os') <= 1
    BY <1>1, <2>6
  <2> QED
    BY <2>6, <2>8, <2>9
<1> QED
  BY <1>2, <1>3

-----------------------------------------------------------------------------
(* The copy of the queue that Callback walks: in order of deadlines,       *)
(* without repetition, and what is still alive in it is still pending.     *)
(* Everything that was due and has not been called back is in it.          *)
RestInv ==
  /\ ~running => rest = <<>>
  /\ \A i, j \in 1 .. Len(rest) :
       i < j => rest[i] # rest[j] /\ deadline[rest[i]] <= deadline[rest[j]]
  /\ \A i \in 1 .. Len(rest) :
       object[rest[i]] # "none" /\ (object[rest[i]] = "live" => rest[i] \in queue)
  /\ \A t \in due : deadline[t] <= start /\ \E i \in 1 .. Len(rest) : rest[i] = t

TimedInv ==
  /\ TimedTypeOK
  /\ running \in BOOLEAN /\ in_user \in BOOLEAN /\ start \in Int
  /\ ~running => Covered(os, queue, deadline, now)
  /\ OneShotFiresOnce
  /\ OneOsTimer
  /\ RestInv
  /\ \A t \in Timer : object[t] = "none" => fires[t] = 0

LEMMA TimedInit0 == TimedInit => TimedInv
<1> SUFFICES ASSUME TimedInit PROVE TimedInv
  OBVIOUS
<1> USE DEF TimedInit
<1>1. TimedTypeOK
  BY TimeAssumption DEF TimedTypeOK
<1>2. OneShotFiresOnce /\ OneOsTimer
  BY DEF OneShotFiresOnce, OneOsTimer
<1>3. RestInv /\ Covered(os, queue, deadline, now)
  BY DEF RestInv, Covered
<1>4. running \in BOOLEAN /\ in_user \in BOOLEAN /\ start \in Int
  <2>1. running \in BOOLEAN
    OBVIOUS
  <2>2. in_user \in BOOLEAN
    OBVIOUS
  <2>3. start \in Int
    OBVIOUS
  <2> QED
    BY <2>1, <2>2, <2>3
<1>5. \A t \in Timer : fires[t] = 0
  OBVIOUS
<1> QED
  BY <1>1, <1>2, <1>3, <1>4, <1>5 DEF TimedInv

LEMMA TypesAre ==
  ASSUME TimedInv
  PROVE  /\ now \in Nat /\ now <= MaxTime /\ deadline \in [Timer -> Int] /\ queue \in SUBSET Timer
         /\ os \in Seq(Int) /\ rest \in Seq(Timer) /\ Len(rest) \in Nat
         /\ fires \in [Timer -> Nat] /\ delay \in [Timer -> Int]
         /\ repeat \in [Timer -> BOOLEAN] /\ OneOsTimer
         /\ \A t \in queue : object[t] = "live"
         /\ \A i \in 1 .. Len(rest) : rest[i] \in Timer
<1>1. delay \in [Timer -> Int]
  <2>1. Delay \cup {0} \subseteq Int /\ delay \in [Timer -> Delay \cup {0}]
    BY TimeAssumption DEF TimedInv, TimedTypeOK
  <2> QED
    BY <2>1
<1> QED
  BY <1>1, TimeAssumption DEF TimedInv, TimedTypeOK

LEMMA TimedTick ==
  ASSUME TimedInv, Tick
  PROVE  TimedInv'
<1>1. /\ UNCHANGED <<object, deadline, delay, repeat, queue, os, in_user, fires, callbackVars>>
      /\ now' = now + 1 /\ now < MaxTime
  BY DEF Tick
<1>2. TimedTypeOK'
  BY <1>1, TimeAssumption DEF TimedInv, TimedTypeOK, callbackVars
<1>3. ASSUME ~running PROVE Covered(os, queue, deadline, now + 1)
  <2> SUFFICES ASSUME queue # {}
               PROVE  \E i \in DOMAIN os : os[i] <= Max({(now + 1) + MinTimeout, Min({deadline[t] : t \in queue})})
    BY DEF Covered
  <2> DEFINE e == Min({deadline[t] : t \in queue})
  <2>1. e \in Int
    BY TypesAre, EarliestDeadline
  <2>2. PICK i \in DOMAIN os : os[i] <= Max({now + MinTimeout, e})
    BY <1>3 DEF Covered, TimedInv
  <2> HIDE DEF e
  <2>3. now + MinTimeout \in Int /\ (now + 1) + MinTimeout \in Int /\ os[i] \in Int
    BY TypesAre, TimeAssumption
  <2>4. /\ Max({now + MinTimeout, e}) = IF now + MinTimeout >= e THEN now + MinTimeout ELSE e
        /\ Max({(now + 1) + MinTimeout, e}) = IF (now + 1) + MinTimeout >= e THEN (now + 1) + MinTimeout ELSE e
    BY <2>1, <2>3, TwoNumbers
  <2>5. os[i] <= Max({(now + 1) + MinTimeout, e})
    <3>1. now \in Nat /\ MinTimeout \in Nat
      BY TypesAre, TimeAssumption
    <3> QED
      BY <2>1, <2>2, <2>3, <2>4, <3>1
  <2> QED
    BY <2>5 DEF e
<1> QED
  BY <1>1, <1>2, <1>3 DEF TimedInv, callbackVars, OneShotFiresOnce, OneOsTimer, RestInv

LEMMA TimedCreate ==
  ASSUME TimedInv, NEW t \in Timer, NEW dl \in Delay, NEW rep \in BOOLEAN, Create(t, dl, rep)
  PROVE  TimedInv'
<1>1. /\ UNCHANGED <<now, in_user, fires, running, rest, start, due>> /\ object[t] = "none"
      /\ object' = [object EXCEPT ![t] = "live"] /\ delay' = [delay EXCEPT ![t] = dl]
      /\ repeat' = [repeat EXCEPT ![t] = rep] /\ deadline' = [deadline EXCEPT ![t] = now + dl]
      /\ queue' = queue \cup {t} /\ RearmTimer(queue', deadline')
  BY DEF Create, callbackVars
<1>2. now + dl \in Int
  BY TypesAre, TimeAssumption
<1>3. queue' \in SUBSET Timer /\ deadline' \in [Timer -> Int]
  BY <1>1, <1>2, TypesAre
<1>4. os' \in Seq(Int) /\ Covered(os', queue', deadline', now) /\ OneOsTimer'
  BY <1>1, <1>3, TypesAre, Rearmed DEF OneOsTimer
<1>5. TimedTypeOK'
  <2>1. object' \in [Timer -> {"none", "live", "dead"}] /\ \A u \in queue' : object'[u] = "live"
    BY <1>1 DEF TimedInv, TimedTypeOK
  <2> QED
    BY <1>1, <1>3, <1>4, <2>1 DEF TimedInv, TimedTypeOK
<1>6. OneShotFiresOnce'
  <2> SUFFICES ASSUME NEW u \in Timer, ~repeat'[u]
               PROVE  fires[u] + (IF u \in queue' THEN 1 ELSE 0) <= 1
    BY <1>1 DEF OneShotFiresOnce
  <2>1. CASE u = t
    BY <1>1, <2>1 DEF TimedInv
  <2>2. CASE u # t
    <3>1. repeat'[u] = repeat[u] /\ (u \in queue' <=> u \in queue)
      BY <1>1, <2>2, TypesAre
    <3> QED
      BY <3>1 DEF TimedInv, OneShotFiresOnce
  <2> QED
    BY <2>1, <2>2
<1>7. RestInv'
  <2>1. \A i \in 1 .. Len(rest) : rest[i] \in Timer /\ rest[i] # t
    BY <1>1, TypesAre DEF TimedInv, RestInv
  <2>2. \A u \in Timer : u # t => deadline'[u] = deadline[u] /\ object'[u] = object[u]
    BY <1>1 DEF TimedInv, TimedTypeOK
  <2>3. \A i \in 1 .. Len(rest) : deadline'[rest[i]] = deadline[rest[i]] /\ object'[rest[i]] = object[rest[i]]
    BY <2>1, <2>2
  <2>4. \A u \in due : deadline'[u] <= start' /\ \E i \in 1 .. Len(rest) : rest[i] = u
    BY <1>1, <2>3 DEF TimedInv, RestInv
  <2> QED
    BY <1>1, <2>3, <2>4 DEF TimedInv, RestInv
<1>8. \A u \in Timer : object'[u] = "none" => fires'[u] = 0
  BY <1>1 DEF TimedInv, TimedTypeOK
<1>9. running' \in BOOLEAN /\ in_user' \in BOOLEAN /\ start' \in Int
  BY <1>1 DEF TimedInv
<1> QED
  BY <1>1, <1>4, <1>5, <1>6, <1>7, <1>8, <1>9 DEF TimedInv

LEMMA TimedDestroy ==
  ASSUME TimedInv, NEW t \in Timer, Destroy(t)
  PROVE  TimedInv'
<1>1. /\ UNCHANGED <<now, deadline, delay, repeat, in_user, fires, running, rest, start>>
      /\ object' = [object EXCEPT ![t] = "dead"] /\ queue' = queue \ {t} /\ due' = due \ {t}
      /\ RearmTimer(queue', deadline)
  BY DEF Destroy
<1>2. os' \in Seq(Int) /\ Covered(os', queue', deadline, now) /\ OneOsTimer'
  <2>1. queue' \in SUBSET Timer
    BY <1>1, TypesAre
  <2> QED
    BY <1>1, <2>1, TypesAre, Rearmed DEF OneOsTimer
<1>3. \A u \in Timer : object'[u] = IF u = t THEN "dead" ELSE object[u]
  BY <1>1 DEF TimedInv, TimedTypeOK
<1>4. TimedTypeOK'
  <2>1. object' \in [Timer -> {"none", "live", "dead"}]
    BY <1>1 DEF TimedInv, TimedTypeOK
  <2>2. queue' \subseteq {u \in Timer : object'[u] = "live"}
    BY <1>1, <1>3, TypesAre
  <2> QED
    BY <1>1, <1>2, <2>1, <2>2 DEF TimedInv, TimedTypeOK
<1>5. OneShotFiresOnce'
  <2> SUFFICES ASSUME NEW u \in Timer, ~repeat[u]
               PROVE  fires[u] + (IF u \in queue' THEN 1 ELSE 0) <= 1
    BY <1>1 DEF OneShotFiresOnce
  <2>1. fires[u] \in Nat /\ fires[u] + (IF u \in queue THEN 1 ELSE 0) <= 1
    BY TypesAre DEF TimedInv, OneShotFiresOnce
  <2> QED
    BY <1>1, <2>1
<1>6. RestInv'
  <2>1. \A i \in 1 .. Len(rest) :
          object'[rest[i]] # "none" /\ (object'[rest[i]] = "live" => rest[i] \in queue')
    BY <1>1, <1>3, TypesAre DEF TimedInv, RestInv
  <2> QED
    BY <1>1, <2>1 DEF TimedInv, RestInv
<1>7. \A u \in Timer : object'[u] = "none" => fires'[u] = 0
  BY <1>1, <1>3 DEF TimedInv
<1> QED
  BY <1>1, <1>2, <1>4, <1>5, <1>6, <1>7 DEF TimedInv

LEMMA TimedOnTimer ==
  ASSUME TimedInv, NEW i \in DOMAIN os, OnTimer(i)
  PROVE  TimedInv'
<1>1. /\ UNCHANGED <<now, object, deadline, delay, repeat, queue, in_user, fires>>
      /\ os' = RemoveAt(os, i) /\ running' = TRUE /\ rest' \in Sorted(queue, deadline)
      /\ start' = now /\ due' = {t \in queue : deadline[t] <= now} /\ ~running
  BY DEF OnTimer
<1>2. os' \in Seq(Int) /\ OneOsTimer'
  <2> DEFINE a == SubSeq(os, 1, i - 1)
  <2> DEFINE b == SubSeq(os, i + 1, Len(os))
  <2>1. i \in 1 .. Len(os) /\ Len(os) \in Nat /\ os \in Seq(Int)
    BY TypesAre
  <2>2. a \in Seq(Int) /\ Len(a) = i - 1
    <3>1. \A k \in 1 .. i - 1 : os[k] \in Int
      BY <2>1
    <3>2. 1 \in Int /\ i - 1 \in Int
      BY <2>1
    <3>3. SubSeq(os, 1, i - 1) \in Seq(Int) /\ Len(SubSeq(os, 1, i - 1)) = IF 1 <= i - 1 THEN (i - 1) - 1 + 1 ELSE 0
      BY <3>1, <3>2, SubSeqProperties
    <3>4. i - 1 = IF 1 <= i - 1 THEN (i - 1) - 1 + 1 ELSE 0
      BY <2>1
    <3> QED
      BY <3>3, <3>4
  <2>3. b \in Seq(Int) /\ Len(b) = Len(os) - i
    <3>1. \A k \in i + 1 .. Len(os) : os[k] \in Int
      BY <2>1
    <3>2. Len(os) \in Int /\ i + 1 \in Int
      BY <2>1
    <3>3. SubSeq(os, i + 1, Len(os)) \in Seq(Int) /\ Len(SubSeq(os, i + 1, Len(os))) = IF i + 1 <= Len(os) THEN Len(os) - (i + 1) + 1 ELSE 0
      BY <3>1, <3>2, SubSeqProperties
    <3>4. Len(os) - i = IF i + 1 <= Len(os) THEN Len(os) - (i + 1) + 1 ELSE 0
      BY <2>1
    <3> QED
      BY <3>3, <3>4
  <2>4. os' = a \o b
    BY <1>1 DEF RemoveAt
  <2> HIDE DEF a, b
  <2>5. os' \in Seq(Int) /\ Len(os') = Len(a) + Len(b)
    BY <2>2, <2>3, <2>4, ConcatProperties
  <2>6. Len(os') <= Len(os)
    BY <2>1, <2>2, <2>3, <2>5
  <2> QED
    BY <2>1, <2>5, <2>6 DEF TimedInv, OneOsTimer
<1>3. /\ rest' \in Seq(Timer) /\ ToSet(rest') = queue /\ DOMAIN rest' = 1 .. Len(rest')
      /\ \A k \in 1 .. Len(rest') : rest'[k] \in queue
      /\ \A k, j \in 1 .. Len(rest') : k < j => Before(deadline, rest'[k], rest'[j])
  <2> DEFINE n == Cardinality(queue)
  <2>1. IsFiniteSet(queue)
    BY TypesAre, TimerAssumption, FS_Subset
  <2>2. n \in Nat
    BY <2>1, FS_CardinalityType
  <2>3. /\ rest' \in [1 .. n -> queue] /\ ToSet(rest') = queue
        /\ \A k, j \in DOMAIN rest' : k < j => Before(deadline, rest'[k], rest'[j])
    BY <1>1 DEF Sorted
  <2> HIDE DEF n
  <2>4. rest' \in Seq(queue) /\ DOMAIN rest' = 1 .. Len(rest')
    BY <2>2, <2>3
  <2>5. rest' \in Seq(Timer)
    BY <2>4, TypesAre, SeqMonotonic
  <2> QED
    BY <2>3, <2>4, <2>5
<1>4. RestInv'
  <2>1. ASSUME NEW k \in 1 .. Len(rest'), NEW j \in 1 .. Len(rest'), k < j
        PROVE  rest'[k] # rest'[j] /\ deadline'[rest'[k]] <= deadline'[rest'[j]]
    <3>1. /\ rest'[k] \in Nat /\ rest'[j] \in Nat
          /\ deadline[rest'[k]] \in Int /\ deadline[rest'[j]] \in Int
          /\ Before(deadline, rest'[k], rest'[j])
      BY <1>3, <2>1, TypesAre, TimerAssumption
    <3> QED
      BY <1>1, <3>1 DEF Before
  <2>2. \A k \in 1 .. Len(rest') : rest'[k] \in queue /\ object[rest'[k]] = "live"
    BY <1>3, TypesAre
  <2>3. \A t \in due' : deadline[t] <= now /\ \E k \in 1 .. Len(rest') : rest'[k] = t
    BY <1>1, <1>3 DEF ToSet
  <2> QED
    BY <1>1, <2>1, <2>2, <2>3 DEF RestInv
<1>5. TimedTypeOK'
  <2>1. due' \subseteq Timer
    BY <1>1, TypesAre
  <2> QED
    BY <1>1, <1>2, <1>3, <2>1 DEF TimedInv, TimedTypeOK
<1>6. start' \in Int /\ running'
  BY <1>1, TypesAre
<1> QED
  BY <1>1, <1>2, <1>4, <1>5, <1>6 DEF TimedInv, OneShotFiresOnce

LEMMA TimedFire ==
  ASSUME TimedInv, Fire
  PROVE  TimedInv'
<1> DEFINE t == Head(rest)
<1>1. /\ running /\ rest # <<>> /\ object[t] = "live"
      /\ \/ /\ repeat[t]
            /\ deadline' = [deadline EXCEPT ![t] = now + delay[t]]
            /\ queue' = queue \cup {t}
            /\ RearmTimer(queue', deadline')
         \/ /\ ~repeat[t]
            /\ queue' = queue \ {t}
            /\ UNCHANGED <<deadline, os>>
      /\ fires' = [fires EXCEPT ![t] = @ + 1] /\ due' = due \ {t} /\ rest' = Tail(rest)
      /\ in_user' = TRUE /\ UNCHANGED <<now, object, delay, repeat, running, start>>
  BY DEF Fire, NextIsDue
<1>2. /\ t = rest[1] /\ t \in Timer /\ 1 \in 1 .. Len(rest)
      /\ rest' \in Seq(Timer) /\ Len(rest') = Len(rest) - 1 /\ Len(rest) \in Nat
      /\ \A i \in 1 .. Len(rest') : i + 1 \in 1 .. Len(rest) /\ rest'[i] = rest[i + 1]
  <2>1. rest \in Seq(Timer) /\ Len(rest) \in Nat /\ Len(rest) # 0
    BY <1>1, TypesAre
  <2>2. /\ Head(rest) \in Timer /\ Tail(rest) \in Seq(Timer) /\ Len(Tail(rest)) = Len(rest) - 1
        /\ \A i \in 1 .. Len(Tail(rest)) : Tail(rest)[i] = rest[i + 1]
    BY <1>1, <2>1, HeadTailProperties
  <2> QED
    BY <1>1, <2>1, <2>2
<1>3. t \in queue
  BY <1>1, <1>2 DEF TimedInv, RestInv
<1> HIDE DEF t
<1>4. /\ deadline' \in [Timer -> Int] /\ queue' \in SUBSET Timer
      /\ \A u \in Timer : u # t => deadline'[u] = deadline[u] /\ (u \in queue' <=> u \in queue)
      /\ os' \in Seq(Int) /\ OneOsTimer'
  <2>1. CASE repeat[t]
    <3>1. now + delay[t] \in Int
      BY <1>2, TypesAre
    <3>2. /\ deadline' = [deadline EXCEPT ![t] = now + delay[t]]
          /\ queue' = queue \cup {t} /\ RearmTimer(queue', deadline')
      BY <1>1, <2>1
    <3>3. deadline' \in [Timer -> Int] /\ queue' \in SUBSET Timer
      BY <1>2, <3>1, <3>2, TypesAre
    <3>4. \A u \in Timer : u # t => deadline'[u] = deadline[u] /\ (u \in queue' <=> u \in queue)
      BY <3>2, TypesAre
    <3>5. os' \in Seq(Int) /\ OneOsTimer'
      BY <3>2, <3>3, TypesAre, Rearmed DEF OneOsTimer
    <3> QED
      BY <3>3, <3>4, <3>5
  <2>2. CASE ~repeat[t]
    BY <1>1, <2>2, TypesAre DEF OneOsTimer
  <2> QED
    BY <2>1, <2>2
<1>5. \A i \in 1 .. Len(rest') : rest'[i] \in Timer /\ rest'[i] # t
  <2> TAKE i \in 1 .. Len(rest')
  <2>1. i + 1 \in 1 .. Len(rest) /\ 1 < i + 1 /\ rest'[i] = rest[i + 1]
    BY <1>2
  <2>2. rest[1] # rest[i + 1]
    BY <1>2, <2>1 DEF TimedInv, RestInv
  <2> QED
    BY <1>2, <2>1, <2>2, TypesAre
<1>6. RestInv'
  <2>1. ASSUME NEW i \in 1 .. Len(rest'), NEW j \in 1 .. Len(rest'), i < j
        PROVE  rest'[i] # rest'[j] /\ deadline'[rest'[i]] <= deadline'[rest'[j]]
    <3>1. i + 1 \in 1 .. Len(rest) /\ j + 1 \in 1 .. Len(rest) /\ i + 1 < j + 1
      BY <1>2, <2>1
    <3>2. rest[i + 1] # rest[j + 1] /\ deadline[rest[i + 1]] <= deadline[rest[j + 1]]
      BY <3>1 DEF TimedInv, RestInv
    <3> QED
      BY <1>2, <1>4, <1>5, <3>2
  <2>2. ASSUME NEW i \in 1 .. Len(rest')
        PROVE  object'[rest'[i]] # "none" /\ (object'[rest'[i]] = "live" => rest'[i] \in queue')
    <3>1. object[rest[i + 1]] # "none" /\ (object[rest[i + 1]] = "live" => rest[i + 1] \in queue)
      BY <1>2 DEF TimedInv, RestInv
    <3> QED
      BY <1>1, <1>2, <1>4, <1>5, <3>1
  <2>3. ASSUME NEW u \in due'
        PROVE  deadline'[u] <= start' /\ \E i \in 1 .. Len(rest') : rest'[i] = u
    <3>1. u \in due /\ u # t /\ u \in Timer
      BY <1>1 DEF TimedInv, TimedTypeOK
    <3>2. PICK i \in 1 .. Len(rest) : rest[i] = u
      BY <3>1 DEF TimedInv, RestInv
    <3>3. i # 1
      BY <1>2, <3>1, <3>2
    <3>4. i - 1 \in 1 .. Len(rest') /\ (i - 1) + 1 = i
      BY <1>2, <3>3
    <3>5. rest'[i - 1] = u
      BY <1>2, <3>2, <3>4
    <3>6. deadline'[u] <= start'
      BY <1>1, <1>4, <3>1 DEF TimedInv, RestInv
    <3> QED
      BY <3>4, <3>5, <3>6
  <2> QED
    BY <1>1, <2>1, <2>2, <2>3 DEF RestInv
<1>7. fires' \in [Timer -> Nat] /\ \A u \in Timer : fires'[u] = IF u = t THEN fires[u] + 1 ELSE fires[u]
  BY <1>1, <1>2, TypesAre
<1>8. OneShotFiresOnce'
  <2> SUFFICES ASSUME NEW u \in Timer, ~repeat[u]
               PROVE  fires'[u] + (IF u \in queue' THEN 1 ELSE 0) <= 1
    BY <1>1 DEF OneShotFiresOnce
  <2>1. fires[u] \in Nat /\ fires[u] + (IF u \in queue THEN 1 ELSE 0) <= 1
    BY TypesAre DEF TimedInv, OneShotFiresOnce
  <2>2. CASE u = t
    <3>1. u \notin queue' /\ u \in queue
      BY <1>1, <1>3, <2>2
    <3> QED
      BY <1>7, <2>1, <2>2, <3>1
  <2>3. CASE u # t
    BY <1>4, <1>7, <2>1, <2>3
  <2> QED
    BY <2>2, <2>3
<1>9. TimedTypeOK'
  <2>1. queue' \subseteq {u \in Timer : object'[u] = "live"}
    BY <1>1, <1>4, TypesAre
  <2>2. running' /\ due' \subseteq Timer
    BY <1>1 DEF TimedInv, TimedTypeOK
  <2> QED
    BY <1>1, <1>2, <1>4, <1>7, <2>1, <2>2 DEF TimedInv, TimedTypeOK
<1>10. \A u \in Timer : object'[u] = "none" => fires'[u] = 0
  BY <1>1, <1>7 DEF TimedInv
<1>11. running' \in BOOLEAN /\ in_user' \in BOOLEAN /\ start' \in Int /\ running'
  BY <1>1 DEF TimedInv
<1> QED
  BY <1>4, <1>6, <1>8, <1>9, <1>10, <1>11 DEF TimedInv

LEMMA TimedReturns ==
  ASSUME TimedInv, UserReturns \/ CallbackEnd
  PROVE  TimedInv' /\ (CallbackEnd => due = {})
<1>1. CASE UserReturns
  <2>1. UNCHANGED <<now, object, deadline, delay, repeat, queue, os, fires, running, rest, start, due>> /\ in_user' = FALSE
        /\ in_user
    BY <1>1 DEF UserReturns, callbackVars
  <2>2. ~CallbackEnd
    BY <2>1 DEF CallbackEnd
  <2>3. TimedTypeOK'
    BY <2>1 DEF TimedInv, TimedTypeOK
  <2>4. in_user' \in BOOLEAN /\ running' \in BOOLEAN /\ start' \in Int
    BY <2>1 DEF TimedInv
  <2>5. RestInv' /\ OneOsTimer' /\ OneShotFiresOnce'
    BY <2>1 DEF TimedInv, OneShotFiresOnce, OneOsTimer, RestInv
  <2>6. ~running' => Covered(os', queue', deadline', now')
    BY <2>1 DEF TimedInv
  <2>7. \A t \in Timer : object'[t] = "none" => fires'[t] = 0
    BY <2>1 DEF TimedInv
  <2> QED
    BY <2>2, <2>3, <2>4, <2>5, <2>6, <2>7 DEF TimedInv
<1>2. CASE CallbackEnd
  <2>1. /\ ~NextIsDue /\ running' = FALSE /\ rest' = <<>> /\ RearmTimer(queue, deadline)
        /\ UNCHANGED <<now, object, deadline, delay, repeat, queue, in_user, fires, start, due>>
        /\ ~in_user
    BY <1>2 DEF CallbackEnd
  <2>2. os' \in Seq(Int) /\ Covered(os', queue, deadline, now) /\ OneOsTimer'
    BY <2>1, TypesAre, Rearmed DEF OneOsTimer
  <2>3. due = {}
    <3> SUFFICES ASSUME NEW u \in due PROVE FALSE
      OBVIOUS
    <3>1. PICK i \in 1 .. Len(rest) : rest[i] = u
      BY DEF TimedInv, RestInv
    <3>2. deadline[u] <= start
      BY DEF TimedInv, RestInv
    <3>3. rest # <<>> /\ Head(rest) = rest[1] /\ 1 \in 1 .. Len(rest) /\ i >= 1
      BY TypesAre
    <3>4. deadline[rest[1]] \in Int /\ deadline[u] \in Int /\ start \in Int
      BY <3>1, <3>3, TypesAre DEF TimedInv
    <3>5. deadline[rest[1]] <= deadline[u]
      <4>1. CASE i = 1
        BY <3>1, <3>4, <4>1
      <4>2. CASE i # 1
        <5>1. 1 < i
          BY <3>3, <4>2, TypesAre
        <5> QED
          BY <3>1, <3>3, <5>1 DEF TimedInv, RestInv
      <4> QED
        BY <4>1, <4>2
    <3>6. deadline[rest[1]] <= start
      BY <3>2, <3>4, <3>5
    <3> QED
      BY <2>1, <3>3, <3>6 DEF NextIsDue
  <2>4. RestInv'
    BY <2>1, <2>3 DEF RestInv
  <2>5. TimedTypeOK'
    <3>1. rest' \in Seq(Timer)
      BY <2>1
    <3> QED
      BY <2>1, <2>2, <3>1 DEF TimedInv, TimedTypeOK
  <2>6. running' \in BOOLEAN
    BY <2>1
  <2> QED
    BY <2>1, <2>2, <2>3, <2>4, <2>5, <2>6 DEF TimedInv, OneShotFiresOnce
<1> QED
  BY <1>1, <1>2

LEMMA TimedInductive == TimedInv /\ [TimedNext]_timedVars => TimedInv'
<1> SUFFICES ASSUME TimedInv, [TimedNext]_timedVars
             PROVE  TimedInv'
  OBVIOUS
<1>1. CASE UNCHANGED timedVars
  BY <1>1 DEF timedVars, TimedInv, TimedTypeOK, OneShotFiresOnce, OneOsTimer, RestInv
<1> QED
  BY <1>1, TimedTick, TimedCreate, TimedDestroy, TimedOnTimer, TimedFire, TimedReturns
     DEF TimedNext

(* For any set of calls, delays, clamps and both platforms: back in the    *)
(* message loop some OS timer fires in time for the earliest deadline, on  *)
(* Win32 the only one; a call without repetition is called back at most    *)
(* once; and what was due when Callback copied the queue has been called   *)
(* back or destroyed when it returns.                                      *)
THEOREM CallsAlwaysFireInTime == TimedSpec => []CallsFireInTime
<1>1. TimedInv => CallsFireInTime
  <2> SUFFICES ASSUME TimedInv PROVE CallsFireInTime
    OBVIOUS
  <2>1. WakeupCoversDeadline
    BY DEF TimedInv, Covered, WakeupCoversDeadline
  <2>2. DueIsFired
    <3> SUFFICES ASSUME ~running, NEW u \in due PROVE FALSE
      BY DEF DueIsFired
    <3>1. \E i \in 1 .. Len(rest) : rest[i] = u
      BY DEF TimedInv, RestInv
    <3>2. Len(rest) = 0
      BY DEF TimedInv, RestInv
    <3> QED
      BY <3>1, <3>2
  <2> QED
    BY <2>1, <2>2 DEF TimedInv, CallsFireInTime
<1> QED
  BY <1>1, TimedInit0, TimedInductive, PTL DEF TimedSpec


-----------------------------------------------------------------------------
(* Win32Sync.  The condition variable: the current event is not set and no *)
(* thread is about to set it; a waiter of another event began before the   *)
(* signal that detached it.                                                *)
CondState ==
  [at : {"run", "wait", "woken", "set"}, event : EventId \cup {NoEvent}, began : Nat]

CondInv ==
  /\ cv_thread \in [WThread -> CondState]
  /\ cv_current \in EventId \cup {NoEvent}
  /\ cv_signals \in Nat
  /\ cv_current # NoEvent => cv_current \notin cv_set
  /\ \A t \in WThread : (cv_thread[t].event # NoEvent) <=> (cv_thread[t].at \in {"wait", "set"})
  /\ \A t \in WThread : cv_thread[t].at = "set" => cv_thread[t].event # cv_current
  /\ \A t \in WThread : cv_thread[t].at = "wait" =>
       /\ cv_thread[t].began <= cv_signals
       /\ cv_thread[t].event # cv_current => cv_thread[t].began < cv_signals
  /\ WaiterIsReached
  /\ WokenByLaterSignal

(* The baton's mutex belongs to the process that has the job; the awaiting *)
(* thread decides on the condition as it is while it holds the mutex.      *)
BatonInv ==
  /\ bt_thread \in [WThread -> {"out", "asked", "job", "finishing", "skipped", "killed"}]
  /\ \A t \in WThread : bt_thread[t] \in {"job", "finishing"} => bt_mutex = {t}

AwaitInv ==
  /\ aw_value \in BOOLEAN
  /\ AwaitIsTrue

SyncInv == CondInv /\ BatonInv /\ AwaitInv

LEMMA SyncInit0 == SyncInit => SyncInv
<1> SUFFICES ASSUME SyncInit PROVE SyncInv
  OBVIOUS
<1>1. CondInv
  <2>1. Running \in CondState
    BY DEF Running, CondState
  <2>2. QED
    BY <2>1 DEF SyncInit, CondInv, Running, WaiterIsReached, WokenByLaterSignal
<1>2. BatonInv
  BY DEF SyncInit, BatonInv
<1>3. AwaitInv
  BY DEF SyncInit, AwaitInv, AwaitIsTrue
<1>4. QED
  BY <1>1, <1>2, <1>3 DEF SyncInv

LEMMA CondStates ==
  ASSUME CondInv, NEW t \in WThread
  PROVE  /\ cv_thread[t] \in CondState
         /\ cv_thread[t].at \in {"run", "wait", "woken", "set"}
         /\ cv_thread[t].event \in EventId \cup {NoEvent}
         /\ cv_thread[t].began \in Nat
BY DEF CondInv, CondState

LEMMA WaitOnEventKeeps ==
  ASSUME CondInv, NEW t \in WThread, WaitOnEvent(t) PROVE CondInv'
<1>1. PICK e \in EventId :
        /\ IF cv_current # NoEvent THEN e = cv_current ELSE e \notin Live
        /\ cv_current' = e
        /\ cv_set' = IF e = cv_current THEN cv_set ELSE cv_set \ {e}
        /\ cv_thread' = [cv_thread EXCEPT ![t] = [at |-> "wait", event |-> e, began |-> cv_signals]]
  BY DEF WaitOnEvent
<1>2. e # NoEvent /\ cv_signals \in Nat
  BY SyncAssumption DEF NoEvent, CondInv
<1> DEFINE new == [at |-> "wait", event |-> e, began |-> cv_signals]
<1>3. new \in CondState
  BY <1>2 DEF CondState
<1>4. cv_thread' \in [WThread -> CondState]
  BY <1>1, <1>3 DEF CondInv
<1>5. /\ cv_thread'[t].at = "wait" /\ cv_thread'[t].event = e /\ cv_thread'[t].began = cv_signals
      /\ \A u \in WThread \ {t} : cv_thread'[u] = cv_thread[u]
  BY <1>1 DEF CondInv
<1>6. cv_signals' = cv_signals
  BY DEF WaitOnEvent
<1>7. e \notin cv_set'
  <2>1. CASE e = cv_current
    BY <2>1, <1>1, <1>2 DEF CondInv
  <2>2. CASE e # cv_current
    BY <2>2, <1>1
  <2>3. QED
    BY <2>1, <2>2
<1>8. \A u \in WThread : cv_current = NoEvent => cv_thread[u].event # e
  BY <1>1 DEF Live
<1>9. \A u \in WThread \ {t} : cv_thread[u].at = "set" => cv_thread[u].event # e
  <2> TAKE u \in WThread \ {t}
  <2>1. CASE cv_current = NoEvent
    BY <2>1, <1>8
  <2>2. CASE cv_current # NoEvent
    BY <2>2, <1>1 DEF CondInv
  <2>3. QED
    BY <2>1, <2>2
<1>10. \A u \in WThread \ {t} : cv_thread[u].at = "wait" =>
         /\ cv_thread[u].began <= cv_signals
         /\ cv_thread[u].event # e => cv_thread[u].began < cv_signals
  <2> TAKE u \in WThread \ {t}
  <2> HAVE cv_thread[u].at = "wait"
  <2>1. cv_thread[u].event # NoEvent
    BY DEF CondInv
  <2>2. cv_thread[u].event # e => cv_thread[u].event # cv_current
    BY <2>1, <1>1
  <2>3. QED
    BY <2>2 DEF CondInv
<1>11. WaiterIsReached'
  <2> SUFFICES ASSUME NEW u \in WThread, cv_thread'[u].at = "wait"
               PROVE  \/ cv_thread'[u].event = e /\ cv_thread'[u].event \notin cv_set'
                      \/ /\ cv_thread'[u].event # e
                         /\ \/ cv_thread'[u].event \in cv_set'
                            \/ \E v \in WThread : cv_thread'[v].at = "set" /\ cv_thread'[v].event = cv_thread'[u].event
    BY <1>1 DEF WaiterIsReached
  <2>1. CASE cv_thread'[u].event = e
    BY <2>1, <1>7
  <2>2. CASE cv_thread'[u].event # e
    <3>1. u # t /\ cv_thread'[u] = cv_thread[u]
      BY <2>2, <1>5
    <3>2. cv_thread[u].event # NoEvent /\ cv_thread[u].event # cv_current
      BY <3>1, <2>2, <1>1 DEF CondInv
    <3>3. \/ cv_thread[u].event \in cv_set
          \/ \E v \in WThread : cv_thread[v].at = "set" /\ cv_thread[v].event = cv_thread[u].event
      BY <3>1, <3>2 DEF CondInv, WaiterIsReached
    <3>4. CASE cv_thread[u].event \in cv_set
      BY <3>4, <3>1, <2>2, <1>1
    <3>5. CASE \E v \in WThread : cv_thread[v].at = "set" /\ cv_thread[v].event = cv_thread[u].event
      <4>1. PICK v \in WThread : cv_thread[v].at = "set" /\ cv_thread[v].event = cv_thread[u].event
        BY <3>5
      <4>2. v # t
        BY <4>1 DEF WaitOnEvent
      <4>3. QED
        BY <4>1, <4>2, <3>1, <2>2, <1>5
    <3>6. QED
      BY <3>3, <3>4, <3>5
  <2>3. QED
    BY <2>1, <2>2
<1>12. WokenByLaterSignal'
  BY <1>5, <1>6 DEF CondInv, WokenByLaterSignal
<1>13. \A u \in WThread : (cv_thread'[u].event # NoEvent) <=> (cv_thread'[u].at \in {"wait", "set"})
  BY <1>2, <1>5 DEF CondInv
<1>14. \A u \in WThread : cv_thread'[u].at = "set" => cv_thread'[u].event # cv_current'
  BY <1>1, <1>5, <1>9
<1>15. \A u \in WThread : cv_thread'[u].at = "wait" =>
         /\ cv_thread'[u].began <= cv_signals'
         /\ cv_thread'[u].event # cv_current' => cv_thread'[u].began < cv_signals'
  <2> TAKE u \in WThread
  <2> HAVE cv_thread'[u].at = "wait"
  <2>1. CASE u = t
    BY <2>1, <1>1, <1>2, <1>5, <1>6
  <2>2. CASE u # t
    BY <2>2, <1>1, <1>5, <1>6, <1>10
  <2>3. QED
    BY <2>1, <2>2
<1>16. QED
  BY <1>1, <1>2, <1>4, <1>6, <1>7, <1>11, <1>12, <1>13, <1>14, <1>15 DEF CondInv

(* A thread leaves the condition variable's events alone. *)
LEMMA CondLeaves ==
  ASSUME CondInv, NEW t \in WThread, NEW new \in CondState,
         cv_thread[t].at # "set",
         new.event = NoEvent, new.at = "run" \/ (new.at = "woken" /\ new.began < cv_signals),
         cv_thread' = [cv_thread EXCEPT ![t] = new],
         UNCHANGED <<cv_current, cv_set, cv_signals>>
  PROVE  CondInv'
<1>1. cv_thread' \in [WThread -> CondState]
  BY DEF CondInv
<1>2. cv_thread'[t] = new /\ \A u \in WThread \ {t} : cv_thread'[u] = cv_thread[u]
  BY DEF CondInv
<1>3. cv_current' = cv_current /\ cv_set' = cv_set /\ cv_signals' = cv_signals
  OBVIOUS
<1>4. WaiterIsReached'
  <2> SUFFICES ASSUME NEW u \in WThread, cv_thread'[u].at = "wait"
               PROVE  \/ cv_thread'[u].event = cv_current /\ cv_thread'[u].event \notin cv_set
                      \/ /\ cv_thread'[u].event # cv_current
                         /\ \/ cv_thread'[u].event \in cv_set
                            \/ \E v \in WThread : cv_thread'[v].at = "set" /\ cv_thread'[v].event = cv_thread'[u].event
    BY <1>3 DEF WaiterIsReached
  <2>1. u # t /\ cv_thread'[u] = cv_thread[u]
    BY <1>2
  <2>2. \A v \in WThread : cv_thread[v].at = "set" => cv_thread'[v] = cv_thread[v]
    BY <1>2
  <2>3. QED
    BY <2>1, <2>2 DEF CondInv, WaiterIsReached
<1>5. WokenByLaterSignal'
  BY <1>2, <1>3 DEF CondInv, WokenByLaterSignal
<1>6. QED
  BY <1>1, <1>2, <1>3, <1>4, <1>5 DEF CondInv

LEMMA DetachKeeps ==
  ASSUME CondInv, NEW t \in WThread, DetachEvent(t) PROVE CondInv'
<1> DEFINE new == [at |-> "set", event |-> cv_current, began |-> 0]
<1>1. new \in CondState
  BY DEF CondInv, CondState
<1>2. cv_thread' \in [WThread -> CondState]
  BY <1>1 DEF CondInv, DetachEvent
<1>3. cv_thread'[t] = new /\ \A u \in WThread \ {t} : cv_thread'[u] = cv_thread[u]
  BY DEF CondInv, DetachEvent
<1>4. /\ cv_current' = NoEvent /\ cv_set' = cv_set /\ cv_signals' = cv_signals + 1
      /\ cv_current # NoEvent /\ cv_signals \in Nat
  BY DEF CondInv, DetachEvent
<1>5. WaiterIsReached'
  <2> SUFFICES ASSUME NEW u \in WThread, cv_thread'[u].at = "wait"
               PROVE  /\ cv_thread'[u].event # NoEvent
                      /\ \/ cv_thread'[u].event \in cv_set
                         \/ \E v \in WThread : cv_thread'[v].at = "set" /\ cv_thread'[v].event = cv_thread'[u].event
    BY <1>4 DEF WaiterIsReached
  <2>1. u # t /\ cv_thread'[u] = cv_thread[u] /\ cv_thread[u].event # NoEvent
    BY <1>3 DEF CondInv
  <2>2. \A v \in WThread : cv_thread[v].at = "set" => cv_thread'[v] = cv_thread[v]
    BY <1>3 DEF DetachEvent
  <2>3. CASE cv_thread[u].event = cv_current
    BY <2>3, <2>1, <1>3
  <2>4. CASE cv_thread[u].event # cv_current
    BY <2>4, <2>1, <2>2 DEF CondInv, WaiterIsReached
  <2>5. QED
    BY <2>3, <2>4
<1>6. WokenByLaterSignal'
  <2> SUFFICES ASSUME NEW u \in WThread, cv_thread'[u].at = "woken"
               PROVE  cv_thread'[u].began < cv_signals + 1
    BY <1>4 DEF WokenByLaterSignal
  <2>1. cv_thread'[u] = cv_thread[u] /\ cv_thread[u].began < cv_signals /\ cv_thread[u].began \in Nat
    BY <1>3, CondStates DEF CondInv, WokenByLaterSignal
  <2>2. QED
    BY <2>1, <1>4
<1>7. \A u \in WThread : cv_thread'[u].at = "wait" =>
         /\ cv_thread'[u].began <= cv_signals'
         /\ cv_thread'[u].event # cv_current' => cv_thread'[u].began < cv_signals'
  <2> TAKE u \in WThread
  <2> HAVE cv_thread'[u].at = "wait"
  <2>1. cv_thread'[u] = cv_thread[u] /\ cv_thread[u].began <= cv_signals /\ cv_thread[u].began \in Nat
    BY <1>3, CondStates DEF CondInv
  <2>2. QED
    BY <2>1, <1>4
<1>8. \A u \in WThread : (cv_thread'[u].event # NoEvent) <=> (cv_thread'[u].at \in {"wait", "set"})
  BY <1>3, <1>4 DEF CondInv
<1>9. \A u \in WThread : cv_thread'[u].at = "set" => cv_thread'[u].event # cv_current'
  BY <1>3, <1>4, <1>8
<1>10. cv_current' \in EventId \cup {NoEvent} /\ cv_signals' \in Nat
  BY <1>4
<1>11. QED
  BY <1>2, <1>4, <1>5, <1>6, <1>7, <1>8, <1>9, <1>10 DEF CondInv

LEMMA SetOldEventKeeps ==
  ASSUME CondInv, NEW t \in WThread, SetOldEvent(t) PROVE CondInv'
<1>1. Running \in CondState /\ Running.at = "run" /\ Running.event = NoEvent
  BY DEF Running, CondState
<1>2. cv_thread' \in [WThread -> CondState]
  BY <1>1 DEF CondInv, SetOldEvent
<1>3. cv_thread'[t] = Running /\ \A u \in WThread \ {t} : cv_thread'[u] = cv_thread[u]
  BY DEF CondInv, SetOldEvent
<1>4. /\ cv_current' = cv_current /\ cv_set' = cv_set \cup {cv_thread[t].event}
      /\ cv_signals' = cv_signals /\ cv_thread[t].event # cv_current
  BY DEF CondInv, SetOldEvent
<1>5. WaiterIsReached'
  <2> SUFFICES ASSUME NEW u \in WThread, cv_thread'[u].at = "wait"
               PROVE  \/ cv_thread'[u].event = cv_current /\ cv_thread'[u].event \notin cv_set'
                      \/ /\ cv_thread'[u].event # cv_current
                         /\ \/ cv_thread'[u].event \in cv_set'
                            \/ \E v \in WThread : cv_thread'[v].at = "set" /\ cv_thread'[v].event = cv_thread'[u].event
    BY <1>4 DEF WaiterIsReached
  <2>1. u # t /\ cv_thread'[u] = cv_thread[u]
    BY <1>1, <1>3
  <2>2. CASE cv_thread[u].event = cv_current
    BY <2>1, <2>2, <1>4 DEF CondInv, WaiterIsReached
  <2>3. CASE cv_thread[u].event # cv_current
    <3>1. \/ cv_thread[u].event \in cv_set
          \/ \E v \in WThread : cv_thread[v].at = "set" /\ cv_thread[v].event = cv_thread[u].event
      BY <2>1, <2>3 DEF CondInv, WaiterIsReached
    <3>2. CASE cv_thread[u].event \in cv_set
      BY <3>2, <2>1, <2>3, <1>4
    <3>3. CASE \E v \in WThread : cv_thread[v].at = "set" /\ cv_thread[v].event = cv_thread[u].event
      <4>1. PICK v \in WThread : cv_thread[v].at = "set" /\ cv_thread[v].event = cv_thread[u].event
        BY <3>3
      <4>2. CASE v = t
        BY <4>1, <4>2, <2>1, <2>3, <1>4
      <4>3. CASE v # t
        BY <4>1, <4>3, <2>1, <2>3, <1>3
      <4>4. QED
        BY <4>2, <4>3
    <3>4. QED
      BY <3>1, <3>2, <3>3
  <2>4. QED
    BY <2>2, <2>3
<1>6. WokenByLaterSignal'
  BY <1>1, <1>3, <1>4 DEF CondInv, WokenByLaterSignal
<1>7. QED
  BY <1>1, <1>2, <1>3, <1>4, <1>5, <1>6 DEF CondInv

LEMMA CondStep == ASSUME CondInv, CondNext PROVE CondInv'
<1>0. PICK t \in WThread :
        WaitOnEvent(t) \/ Wakes(t) \/ TimesOut(t) \/ WaitReturnsTo(t) \/ DetachEvent(t) \/ SetOldEvent(t)
  BY DEF CondNext
<1>1. Running \in CondState /\ Running.at = "run" /\ Running.event = NoEvent
  BY DEF Running, CondState
<1>2. CASE WaitOnEvent(t)
  BY <1>2, WaitOnEventKeeps
<1>3. CASE Wakes(t)
  <2> DEFINE new == [at |-> "woken", event |-> NoEvent, began |-> cv_thread[t].began]
  <2>1. new \in CondState
    BY CondStates DEF CondState
  <2>2. cv_thread[t].event # NoEvent /\ cv_thread[t].event # cv_current
    BY <1>3 DEF CondInv, Wakes
  <2>3. new.began < cv_signals
    BY <1>3, <2>2 DEF CondInv, Wakes
  <2>4. cv_thread' = [cv_thread EXCEPT ![t] = new] /\ UNCHANGED <<cv_current, cv_set, cv_signals>>
    BY <1>3 DEF Wakes
  <2>5. cv_thread[t].at # "set" /\ new.at = "woken" /\ new.event = NoEvent
    BY <1>3 DEF Wakes
  <2> HIDE DEF new
  <2>6. QED
    BY <2>1, <2>3, <2>4, <2>5, CondLeaves
<1>4. CASE TimesOut(t)
  BY <1>4, <1>1, CondLeaves DEF TimesOut
<1>5. CASE WaitReturnsTo(t)
  BY <1>5, <1>1, CondLeaves DEF WaitReturnsTo
<1>6. CASE DetachEvent(t)
  BY <1>6, DetachKeeps
<1>7. CASE SetOldEvent(t)
  BY <1>7, SetOldEventKeeps
<1>8. QED
  BY <1>0, <1>2, <1>3, <1>4, <1>5, <1>6, <1>7

LEMMA BatonStep == ASSUME BatonInv, BatonNext PROVE BatonInv' /\ FinishedOnce
<1>0. PICK t \in WThread :
        BatonAsk(t) \/ BatonGet(t) \/ BatonPass(t) \/ BatonFinish(t) \/ BatonFinished(t) \/ BatonKilled(t)
  BY DEF BatonNext
<1> USE DEF BatonInv, FinishedOnce
<1>1. CASE BatonAsk(t)
  BY <1>1 DEF BatonAsk
<1>2. CASE BatonGet(t)
  BY <1>2 DEF BatonGet
<1>3. CASE BatonPass(t)
  BY <1>3 DEF BatonPass
<1>4. CASE BatonFinish(t)
  BY <1>4 DEF BatonFinish
<1>5. CASE BatonFinished(t)
  BY <1>5 DEF BatonFinished
<1>6. CASE BatonKilled(t)
  BY <1>6 DEF BatonKilled
<1>7. QED
  BY <1>0, <1>1, <1>2, <1>3, <1>4, <1>5, <1>6

LEMMA AwaitStep == ASSUME AwaitInv, AwaitNext PROVE AwaitInv'
<1> USE DEF AwaitInv, AwaitIsTrue
<1>1. CASE ChangeCondition
  BY <1>1 DEF ChangeCondition
<1>2. CASE Deadline
  BY <1>2 DEF Deadline
<1>3. CASE AwaitEval
  BY <1>3 DEF AwaitEval
<1>4. CASE AwaitLocks
  BY <1>4 DEF AwaitLocks
<1>5. QED
  BY <1>1, <1>2, <1>3, <1>4 DEF AwaitNext

LEMMA CondSame == ASSUME CondInv, UNCHANGED condVars PROVE CondInv'
BY DEF CondInv, condVars, WaiterIsReached, WokenByLaterSignal

LEMMA BatonSame == ASSUME BatonInv, UNCHANGED batonVars PROVE BatonInv' /\ FinishedOnce
BY DEF BatonInv, batonVars, FinishedOnce

LEMMA AwaitSame == ASSUME AwaitInv, UNCHANGED awaitVars PROVE AwaitInv'
BY DEF AwaitInv, awaitVars, AwaitIsTrue

LEMMA SyncInductive == SyncInv /\ [SyncNext]_syncVars => SyncInv' /\ FinishedOnce
<1> SUFFICES ASSUME SyncInv, [SyncNext]_syncVars PROVE SyncInv' /\ FinishedOnce
  OBVIOUS
<1>1. CASE CondNext
  <2>1. UNCHANGED batonVars /\ UNCHANGED awaitVars
    BY <1>1 DEF CondNext, WaitOnEvent, Wakes, TimesOut, WaitReturnsTo, DetachEvent, SetOldEvent
  <2>2. QED
    BY <1>1, <2>1, CondStep, BatonSame, AwaitSame DEF SyncInv
<1>2. CASE BatonNext
  <2>1. UNCHANGED condVars /\ UNCHANGED awaitVars
    BY <1>2 DEF BatonNext, BatonAsk, BatonGet, BatonPass, BatonFinish, BatonFinished, BatonKilled
  <2>2. QED
    BY <1>2, <2>1, BatonStep, CondSame, AwaitSame DEF SyncInv
<1>3. CASE AwaitNext
  <2>1. UNCHANGED condVars /\ UNCHANGED batonVars
    BY <1>3 DEF AwaitNext, ChangeCondition, Deadline, AwaitEval, AwaitLocks
  <2>2. QED
    BY <1>3, <2>1, AwaitStep, CondSame, BatonSame DEF SyncInv
<1>4. CASE UNCHANGED syncVars
  <2>1. UNCHANGED condVars /\ UNCHANGED batonVars /\ UNCHANGED awaitVars
    BY <1>4 DEF syncVars
  <2>2. QED
    BY <2>1, CondSame, BatonSame, AwaitSame DEF SyncInv
<1>5. QED
  BY <1>1, <1>2, <1>3, <1>4 DEF SyncNext

(* For any number of threads, processes and events: SignalAll of the       *)
(* condition variable of mutex_win32.cc reaches exactly those who waited   *)
(* before it, Await (mutex.cc) returns the condition as it is, and the     *)
(* baton's job is given to nobody once it is finished.                     *)
THEOREM WaitsAreAlwaysHonest == SyncSpec => WaitsAreHonest
<1>1. SyncInit => SyncInv
  BY SyncInit0
<1>2. SyncInv /\ [SyncNext]_syncVars => SyncInv'
  BY SyncInductive
<1>3. SyncInv /\ [SyncNext]_syncVars =>
        [WaiterIsReached' /\ WokenByLaterSignal' /\ AwaitIsTrue' /\ FinishedOnce]_syncVars
  <2> SUFFICES ASSUME SyncInv, [SyncNext]_syncVars
               PROVE  WaiterIsReached' /\ WokenByLaterSignal' /\ AwaitIsTrue' /\ FinishedOnce
    OBVIOUS
  <2>1. SyncInv' /\ FinishedOnce
    BY SyncInductive
  <2>2. QED
    BY <2>1 DEF SyncInv, CondInv, AwaitInv
<1>4. QED
  BY <1>1, <1>2, <1>3, PTL DEF SyncSpec, WaitsAreHonest

-----------------------------------------------------------------------------
(* AsyncRouter.  A functor is in the queue of its thread once and queued,  *)
(* or alone on its thread's stack and running; who waits has a functor     *)
(* that is one of these, or dropped.                                       *)
FunctorState == {"queued", "refused", "running", "done", "dropped"}
Functor == [sync : BOOLEAN, on : RThread, state : FunctorState]

Among(q, f) == \E i \in DOMAIN q : q[i] = f

QueuesHold(queues, functor) ==
  \A t \in RThread :
    /\ \A i \in 1 .. Len(queues[t]) :
         /\ queues[t][i] \in 1 .. Len(functor)
         /\ functor[queues[t][i]].on = t
         /\ functor[queues[t][i]].state = "queued"
    /\ \A i, j \in 1 .. Len(queues[t]) : queues[t][i] = queues[t][j] => i = j

StacksHold(stack, functor) ==
  \A t \in RThread : stack[t] # <<>> =>
    \E f \in 1 .. Len(functor) :
      stack[t] = <<f>> /\ functor[f].on = t /\ functor[f].state = "running"

HasCause(f, queues, stack, functor) ==
  \/ functor[f].state = "dropped"
  \/ functor[f].state = "queued" /\ Among(queues[functor[f].on], f)
  \/ functor[f].state = "running" /\ Among(stack[functor[f].on], f)

WaitersHold(waits, queues, stack, functor) ==
  \A t \in RThread : waits[t] # NoFunctor =>
    waits[t] \in 1 .. Len(functor) /\ HasCause(waits[t], queues, stack, functor)

RouterInv ==
  /\ ar_queue \in [RThread -> Seq(Nat)]
  /\ ar_stack \in [RThread -> Seq(Nat)]
  /\ ar_waits \in [RThread -> Nat]
  /\ ar_functor \in Seq(Functor)
  /\ QueuesHold(ar_queue, ar_functor)
  /\ StacksHold(ar_stack, ar_functor)
  /\ WaitersHold(ar_waits, ar_queue, ar_stack, ar_functor)

LEMMA RouterInit0 == RouterInit => RouterInv
<1> SUFFICES ASSUME RouterInit PROVE RouterInv
  OBVIOUS
<1>1. /\ ar_queue \in [RThread -> Seq(Nat)] /\ ar_stack \in [RThread -> Seq(Nat)]
      /\ ar_waits \in [RThread -> Nat] /\ ar_functor \in Seq(Functor)
  BY DEF RouterInit, NoFunctor
<1>2. QueuesHold(ar_queue, ar_functor)
  BY DEF RouterInit, QueuesHold
<1>3. StacksHold(ar_stack, ar_functor) /\ WaitersHold(ar_waits, ar_queue, ar_stack, ar_functor)
  BY DEF RouterInit, StacksHold, WaitersHold
<1>4. QED
  BY <1>1, <1>2, <1>3 DEF RouterInv

LEMMA AppendIs ==
  ASSUME NEW S, NEW q \in Seq(S), NEW e \in S
  PROVE  /\ Append(q, e) \in Seq(S) /\ Len(Append(q, e)) = Len(q) + 1 /\ Len(q) \in Nat
         /\ Append(q, e)[Len(q) + 1] = e
         /\ \A i \in 1 .. Len(q) : Append(q, e)[i] = q[i]
         /\ DOMAIN q = 1 .. Len(q) /\ DOMAIN Append(q, e) = 1 .. Len(q) + 1
OBVIOUS

LEMMA TailIs ==
  ASSUME NEW S, NEW q \in Seq(S), q # <<>>
  PROVE  /\ Tail(q) \in Seq(S) /\ Len(Tail(q)) = Len(q) - 1 /\ Len(q) \in Nat /\ Len(q) >= 1
         /\ Head(q) = q[1] /\ Head(q) \in S
         /\ \A i \in 1 .. Len(q) - 1 : Tail(q)[i] = q[i + 1]
         /\ DOMAIN q = 1 .. Len(q) /\ DOMAIN Tail(q) = 1 .. Len(q) - 1
OBVIOUS

LEMMA CallKeeps ==
  ASSUME RouterInv, NEW t \in RThread, NEW u \in RThread, NEW sync \in BOOLEAN, Call(t, u, sync)
  PROVE  RouterInv' /\ SyncIsOver
<1> DEFINE f == Len(ar_functor) + 1
           new(s) == [sync |-> sync, on |-> u, state |-> s]
<1>1. /\ Len(ar_functor) \in Nat /\ f \in Nat /\ f # NoFunctor /\ f \notin 1 .. Len(ar_functor)
      /\ 1 .. Len(ar_functor) \subseteq 1 .. f /\ f \in 1 .. f
  BY DEF RouterInv, NoFunctor
<1>2. new("queued") \in Functor /\ new("refused") \in Functor
  BY DEF Functor, FunctorState
<1>3. \E s \in {"queued", "refused"} : ar_functor' = Append(ar_functor, new(s))
  BY DEF Call
<1>4. /\ ar_functor' \in Seq(Functor) /\ Len(ar_functor') = f
      /\ \A g \in 1 .. Len(ar_functor) : ar_functor'[g] = ar_functor[g]
  BY <1>2, <1>3, AppendIs DEF RouterInv
<1>5. /\ ar_stack' = ar_stack /\ ar_waits[t] = NoFunctor
      /\ ar_queue \in [RThread -> Seq(Nat)] /\ ar_stack \in [RThread -> Seq(Nat)]
      /\ ar_waits \in [RThread -> Nat] /\ ar_functor \in Seq(Functor)
  BY DEF RouterInv, Call, CanRun
<1>6. StacksHold(ar_stack', ar_functor')
  <2> SUFFICES ASSUME NEW v \in RThread, ar_stack[v] # <<>>
               PROVE  \E g \in 1 .. f : ar_stack[v] = <<g>> /\ ar_functor'[g].on = v /\ ar_functor'[g].state = "running"
    BY <1>4, <1>5 DEF StacksHold
  <2>1. PICK g \in 1 .. Len(ar_functor) :
          ar_stack[v] = <<g>> /\ ar_functor[g].on = v /\ ar_functor[g].state = "running"
    BY DEF RouterInv, StacksHold
  <2>2. g \in 1 .. f /\ ar_functor'[g] = ar_functor[g]
    BY <1>1, <1>4
  <2>3. ar_functor'[g].on = v /\ ar_functor'[g].state = "running"
    BY <2>1, <2>2
  <2>4. QED
    BY <2>1, <2>2, <2>3
<1>7. \A v \in RThread : ar_waits[v] # NoFunctor => ar_waits[v] \in 1 .. Len(ar_functor) /\ HasCause(ar_waits[v], ar_queue, ar_stack, ar_functor)
  BY DEF RouterInv, WaitersHold
<1> HIDE DEF f
<1>8. CASE u \notin ar_ended /\ ar_functor' = Append(ar_functor, new("queued"))
           /\ ar_queue' = [ar_queue EXCEPT ![u] = Append(@, f)]
           /\ ar_waits' = [ar_waits EXCEPT ![t] = IF sync THEN f ELSE NoFunctor]
  <2>1. ar_functor'[f] = new("queued")
    BY <1>8, <1>2, <1>5, AppendIs DEF f
  <2>2. ar_queue' \in [RThread -> Seq(Nat)] /\ ar_waits' \in [RThread -> Nat]
    BY <1>8, <1>1, <1>5 DEF NoFunctor
  <2>3. /\ ar_queue'[u] = Append(ar_queue[u], f) /\ ar_queue[u] \in Seq(Nat)
        /\ \A v \in RThread \ {u} : ar_queue'[v] = ar_queue[v]
    BY <1>8, <1>5
  <2>4. /\ Len(ar_queue'[u]) = Len(ar_queue[u]) + 1 /\ Len(ar_queue[u]) \in Nat
        /\ ar_queue'[u][Len(ar_queue[u]) + 1] = f
        /\ \A i \in 1 .. Len(ar_queue[u]) : ar_queue'[u][i] = ar_queue[u][i]
        /\ DOMAIN ar_queue[u] = 1 .. Len(ar_queue[u]) /\ DOMAIN ar_queue'[u] = 1 .. Len(ar_queue[u]) + 1
    BY <2>3, <1>1, AppendIs
  <2>5. \A v \in RThread : \A i \in 1 .. Len(ar_queue[v]) :
          /\ ar_queue[v][i] \in 1 .. Len(ar_functor)
          /\ ar_functor[ar_queue[v][i]].on = v
          /\ ar_functor[ar_queue[v][i]].state = "queued"
    BY DEF RouterInv, QueuesHold
  <2>13. \A v \in RThread : \A i, j \in 1 .. Len(ar_queue[v]) : ar_queue[v][i] = ar_queue[v][j] => i = j
    BY DEF RouterInv, QueuesHold
  <2>14. \A v \in RThread : \A i \in 1 .. Len(ar_queue[v]) :
          /\ ar_queue[v][i] \in 1 .. f
          /\ ar_functor'[ar_queue[v][i]].on = v
          /\ ar_functor'[ar_queue[v][i]].state = "queued"
          /\ ar_queue[v][i] # f
    BY <2>5, <1>1, <1>4
  <2>6. QueuesHold(ar_queue', ar_functor')
    <3> SUFFICES ASSUME NEW v \in RThread
                 PROVE  /\ \A i \in 1 .. Len(ar_queue'[v]) :
                             /\ ar_queue'[v][i] \in 1 .. f
                             /\ ar_functor'[ar_queue'[v][i]].on = v
                             /\ ar_functor'[ar_queue'[v][i]].state = "queued"
                        /\ \A i, j \in 1 .. Len(ar_queue'[v]) : ar_queue'[v][i] = ar_queue'[v][j] => i = j
      BY <1>4 DEF QueuesHold
    <3>1. CASE v # u
      BY <3>1, <2>3, <2>13, <2>14
    <3>2. CASE v = u
      <4>1. \A i \in 1 .. Len(ar_queue'[u]) : i \in 1 .. Len(ar_queue[u]) \/ i = Len(ar_queue[u]) + 1
        BY <2>4
      <4>2. ASSUME NEW i \in 1 .. Len(ar_queue'[u])
            PROVE  /\ ar_queue'[u][i] \in 1 .. f
                   /\ ar_functor'[ar_queue'[u][i]].on = u
                   /\ ar_functor'[ar_queue'[u][i]].state = "queued"
        <5>1. CASE i \in 1 .. Len(ar_queue[u])
          BY <5>1, <2>4, <2>14
        <5>2. CASE i = Len(ar_queue[u]) + 1
          BY <5>2, <2>4, <2>1, <1>1
        <5>3. QED
          BY <4>1, <5>1, <5>2
      <4>3. ASSUME NEW i \in 1 .. Len(ar_queue'[u]), NEW j \in 1 .. Len(ar_queue'[u]), ar_queue'[u][i] = ar_queue'[u][j]
            PROVE  i = j
        <5>1. CASE i \in 1 .. Len(ar_queue[u]) /\ j \in 1 .. Len(ar_queue[u])
          BY <5>1, <4>3, <2>4, <2>13
        <5>2. CASE i \in 1 .. Len(ar_queue[u]) /\ j = Len(ar_queue[u]) + 1
          BY <5>2, <4>3, <2>4, <2>14
        <5>3. CASE j \in 1 .. Len(ar_queue[u]) /\ i = Len(ar_queue[u]) + 1
          BY <5>3, <4>3, <2>4, <2>14
        <5>4. QED
          BY <4>1, <5>1, <5>2, <5>3
      <4>4. QED
        BY <3>2, <4>2, <4>3
    <3>3. QED
      BY <3>1, <3>2
  <2>7. ASSUME NEW g \in 1 .. Len(ar_functor), HasCause(g, ar_queue, ar_stack, ar_functor)
        PROVE  g \in 1 .. Len(ar_functor') /\ HasCause(g, ar_queue', ar_stack', ar_functor')
    <3>1. ar_functor[g] \in Functor /\ ar_functor[g].on \in RThread
      <4>1. ar_functor[g] \in Functor
        BY <1>5
      <4>2. QED
        BY <4>1 DEF Functor
    <3>2. Among(ar_queue[ar_functor[g].on], g) => Among(ar_queue'[ar_functor[g].on], g)
      <4>1. CASE ar_functor[g].on = u
        BY <4>1, <2>4 DEF Among
      <4>2. CASE ar_functor[g].on # u
        BY <4>2, <3>1, <2>3
      <4>3. QED
        BY <4>1, <4>2
    <3>3. ar_functor'[g] = ar_functor[g] /\ ar_stack' = ar_stack /\ g \in 1 .. Len(ar_functor')
      BY <1>1, <1>4, <1>5
    <3>4. QED
      BY <2>7, <3>2, <3>3 DEF HasCause
  <2>8. f \in 1 .. Len(ar_functor') /\ HasCause(f, ar_queue', ar_stack', ar_functor')
    <3>1. Among(ar_queue'[u], f)
      BY <2>4 DEF Among
    <3>2. ar_functor'[f].state = "queued" /\ ar_functor'[f].on = u
      BY <2>1
    <3>3. f \in 1 .. Len(ar_functor')
      BY <1>1, <1>4
    <3>4. HasCause(f, ar_queue', ar_stack', ar_functor')
      BY <3>1, <3>2 DEF HasCause
    <3>5. QED
      BY <3>3, <3>4
  <2>9. /\ ar_waits'[t] \in {f, NoFunctor}
        /\ \A v \in RThread \ {t} : ar_waits'[v] = ar_waits[v]
    BY <1>8, <1>5
  <2>10. WaitersHold(ar_waits', ar_queue', ar_stack', ar_functor')
    <3> SUFFICES ASSUME NEW v \in RThread, ar_waits'[v] # NoFunctor
                 PROVE  ar_waits'[v] \in 1 .. Len(ar_functor') /\ HasCause(ar_waits'[v], ar_queue', ar_stack', ar_functor')
      BY DEF WaitersHold
    <3>1. CASE v = t
      <4>1. ar_waits'[v] = f
        BY <3>1, <2>9
      <4>2. QED
        BY <4>1, <2>8 DEF HasCause
    <3>2. CASE v # t
      <4>1. ar_waits'[v] = ar_waits[v]
        BY <3>2, <2>9
      <4>2. ar_waits[v] \in 1 .. Len(ar_functor) /\ HasCause(ar_waits[v], ar_queue, ar_stack, ar_functor)
        BY <4>1, <1>7
      <4>3. ar_waits[v] \in 1 .. Len(ar_functor') /\ HasCause(ar_waits[v], ar_queue', ar_stack', ar_functor')
        BY <4>2, <2>7
      <4>4. QED
        BY <4>1, <4>3 DEF HasCause
    <3>3. QED
      BY <3>1, <3>2
  <2>11. SyncIsOver
    BY <2>9, <1>5 DEF SyncIsOver
  <2>12. QED
    BY <2>2, <2>6, <2>10, <2>11, <1>4, <1>5, <1>6 DEF RouterInv
<1>9. CASE u \in ar_ended /\ ar_functor' = Append(ar_functor, new("refused")) /\ UNCHANGED <<ar_queue, ar_waits>>
  <2>1. QueuesHold(ar_queue', ar_functor')
    <3>1. \A v \in RThread : \A i \in 1 .. Len(ar_queue[v]) :
            /\ ar_queue[v][i] \in 1 .. Len(ar_functor)
            /\ ar_functor[ar_queue[v][i]].on = v
            /\ ar_functor[ar_queue[v][i]].state = "queued"
      BY DEF RouterInv, QueuesHold
    <3>2. \A v \in RThread : \A i \in 1 .. Len(ar_queue[v]) :
            /\ ar_queue[v][i] \in 1 .. f
            /\ ar_functor'[ar_queue[v][i]].on = v
            /\ ar_functor'[ar_queue[v][i]].state = "queued"
      BY <3>1, <1>1, <1>4
    <3>3. QED
      <4>1. \A v \in RThread : \A i, j \in 1 .. Len(ar_queue[v]) : ar_queue[v][i] = ar_queue[v][j] => i = j
        BY DEF RouterInv, QueuesHold
      <4>2. ar_queue' = ar_queue /\ Len(ar_functor') = f
        BY <1>9, <1>4
      <4>3. QED
        BY <3>2, <4>1, <4>2 DEF QueuesHold
  <2>2. \A g \in 1 .. Len(ar_functor) : HasCause(g, ar_queue, ar_stack, ar_functor) => g \in 1 .. Len(ar_functor') /\ HasCause(g, ar_queue', ar_stack', ar_functor')
    BY <1>9, <1>1, <1>4, <1>5 DEF HasCause
  <2>3. WaitersHold(ar_waits', ar_queue', ar_stack', ar_functor')
    BY <2>2, <1>7, <1>9, <1>4, <1>5, <1>1 DEF WaitersHold
  <2>4. QED
    BY <2>1, <2>3, <1>9, <1>4, <1>5, <1>6 DEF RouterInv, SyncIsOver
<1>10. QED
  BY <1>8, <1>9 DEF Call, f

LEMMA QueueFacts ==
  ASSUME RouterInv
  PROVE  /\ \A v \in RThread : \A i \in 1 .. Len(ar_queue[v]) :
              /\ ar_queue[v][i] \in 1 .. Len(ar_functor)
              /\ ar_functor[ar_queue[v][i]].on = v
              /\ ar_functor[ar_queue[v][i]].state = "queued"
         /\ \A v \in RThread : \A i, j \in 1 .. Len(ar_queue[v]) : ar_queue[v][i] = ar_queue[v][j] => i = j
BY DEF RouterInv, QueuesHold

LEMMA StackFact ==
  ASSUME RouterInv, NEW v \in RThread, ar_stack[v] # <<>>
  PROVE  \E g \in 1 .. Len(ar_functor) :
           ar_stack[v] = <<g>> /\ ar_functor[g].on = v /\ ar_functor[g].state = "running"
BY DEF RouterInv, StacksHold

LEMMA WaitFact ==
  ASSUME RouterInv, NEW v \in RThread, ar_waits[v] # NoFunctor
  PROVE  ar_waits[v] \in 1 .. Len(ar_functor) /\ HasCause(ar_waits[v], ar_queue, ar_stack, ar_functor)
BY DEF RouterInv, WaitersHold

LEMMA RouterTypes ==
  ASSUME RouterInv
  PROVE  /\ ar_queue \in [RThread -> Seq(Nat)] /\ ar_stack \in [RThread -> Seq(Nat)]
         /\ ar_waits \in [RThread -> Nat] /\ ar_functor \in Seq(Functor)
         /\ DOMAIN ar_functor = 1 .. Len(ar_functor) /\ Len(ar_functor) \in Nat
         /\ \A g \in 1 .. Len(ar_functor) : ar_functor[g] \in Functor /\ ar_functor[g].on \in RThread
<1>1. ar_functor \in Seq(Functor)
  BY DEF RouterInv
<1>2. DOMAIN ar_functor = 1 .. Len(ar_functor) /\ Len(ar_functor) \in Nat
  BY <1>1
<1>3. \A g \in 1 .. Len(ar_functor) : ar_functor[g] \in Functor
  BY <1>1
<1>4. \A g \in Functor : g.on \in RThread
  BY DEF Functor
<1>5. QED
  BY <1>1, <1>2, <1>3, <1>4 DEF RouterInv

(* One functor changes its state. *)
LEMMA OneChanges ==
  ASSUME RouterInv, NEW f \in 1 .. Len(ar_functor), NEW s \in FunctorState,
         ar_functor' = [ar_functor EXCEPT ![f].state = s]
  PROVE  /\ ar_functor' \in Seq(Functor) /\ Len(ar_functor') = Len(ar_functor)
         /\ ar_functor'[f].on = ar_functor[f].on /\ ar_functor'[f].state = s
         /\ \A g \in 1 .. Len(ar_functor) : g # f => ar_functor'[g] = ar_functor[g]
<1> DEFINE new == [ar_functor[f] EXCEPT !.state = s]
<1>1. ar_functor \in Seq(Functor) /\ ar_functor[f] \in Functor /\ f \in DOMAIN ar_functor
  BY RouterTypes
<1>2. new \in Functor /\ new.on = ar_functor[f].on /\ new.state = s
  BY <1>1 DEF Functor
<1>3. ar_functor' = [ar_functor EXCEPT ![f] = new]
  BY <1>1
<1> HIDE DEF new
<1>4. ar_functor' \in Seq(Functor) /\ Len(ar_functor') = Len(ar_functor)
  BY <1>1, <1>2, <1>3, ExceptSeq
<1>5. ar_functor'[f] = new /\ \A g \in 1 .. Len(ar_functor) : g # f => ar_functor'[g] = ar_functor[g]
  BY <1>1, <1>3
<1>6. QED
  BY <1>2, <1>4, <1>5

LEMMA StartKeeps ==
  ASSUME RouterInv, NEW t \in RThread, StartFunctor(t)
  PROVE  RouterInv' /\ SyncIsOver
<1> DEFINE f == Head(ar_queue[t])
<1>1. /\ ar_stack[t] = <<>> /\ ar_queue[t] # <<>> /\ ar_queue[t] \in Seq(Nat)
      /\ ar_queue' = [ar_queue EXCEPT ![t] = Tail(@)]
      /\ ar_stack' = [ar_stack EXCEPT ![t] = Append(@, f)]
      /\ ar_functor' = [ar_functor EXCEPT ![f].state = "running"]
      /\ ar_waits' = ar_waits
  BY RouterTypes DEF StartFunctor
<1>2. /\ Tail(ar_queue[t]) \in Seq(Nat) /\ Len(Tail(ar_queue[t])) = Len(ar_queue[t]) - 1
      /\ Len(ar_queue[t]) \in Nat /\ Len(ar_queue[t]) >= 1 /\ f = ar_queue[t][1] /\ f \in Nat
      /\ \A i \in 1 .. Len(ar_queue[t]) - 1 : Tail(ar_queue[t])[i] = ar_queue[t][i + 1]
      /\ DOMAIN ar_queue[t] = 1 .. Len(ar_queue[t])
      /\ DOMAIN Tail(ar_queue[t]) = 1 .. Len(ar_queue[t]) - 1
  BY <1>1, TailIs
<1> HIDE DEF f
<1>3. f \in 1 .. Len(ar_functor) /\ ar_functor[f].on = t /\ ar_functor[f].state = "queued"
  <2>1. 1 \in 1 .. Len(ar_queue[t])
    BY <1>2
  <2>2. QED
    BY <2>1, <1>2, QueueFacts
<1>4. /\ ar_functor' \in Seq(Functor) /\ Len(ar_functor') = Len(ar_functor)
      /\ ar_functor'[f].on = t /\ ar_functor'[f].state = "running"
      /\ \A g \in 1 .. Len(ar_functor) : g # f => ar_functor'[g] = ar_functor[g]
  BY <1>1, <1>3, OneChanges DEF FunctorState
<1>5. /\ ar_queue' \in [RThread -> Seq(Nat)] /\ ar_stack' \in [RThread -> Seq(Nat)]
      /\ ar_queue'[t] = Tail(ar_queue[t]) /\ ar_stack'[t] = <<f>>
      /\ \A v \in RThread \ {t} : ar_queue'[v] = ar_queue[v] /\ ar_stack'[v] = ar_stack[v]
  BY <1>1, <1>2, RouterTypes
<1>6. QueuesHold(ar_queue', ar_functor')
  <2>1. \A v \in RThread : \A i \in 1 .. Len(ar_queue'[v]) : \E j \in 1 .. Len(ar_queue[v]) :
          ar_queue'[v][i] = ar_queue[v][j] /\ (v = t => j = i + 1) /\ (v # t => j = i)
    <3> TAKE v \in RThread
    <3> TAKE i \in 1 .. Len(ar_queue'[v])
    <3>1. CASE v = t
      <4>0. ar_queue'[v] = Tail(ar_queue[t])
        BY <3>1, <1>5
      <4>1. Len(ar_queue'[v]) = Len(ar_queue[t]) - 1
        BY <4>0, <1>2
      <4>2. Len(ar_queue[t]) \in Nat /\ i \in 1 .. Len(ar_queue[t]) - 1
        BY <4>1, <1>2
      <4>3. i + 1 \in 1 .. Len(ar_queue[t])
        BY <4>2
      <4>4. QED
        BY <3>1, <4>0, <4>2, <4>3, <1>2
    <3>2. CASE v # t
      BY <3>2, <1>5
    <3>3. QED
      BY <3>1, <3>2
  <2>2. \A v \in RThread : \A j \in 1 .. Len(ar_queue[v]) : (v = t => j # 1) => ar_queue[v][j] # f
    <3> SUFFICES ASSUME NEW v \in RThread, NEW j \in 1 .. Len(ar_queue[v]), v = t => j # 1, ar_queue[v][j] = f
                 PROVE  FALSE
      OBVIOUS
    <3>1. v = t
      BY <1>3, QueueFacts
    <3>2. 1 \in 1 .. Len(ar_queue[t]) /\ ar_queue[t][1] = f
      BY <1>2
    <3>3. QED
      BY <3>1, <3>2, QueueFacts
  <2>3. ASSUME NEW v \in RThread, NEW i \in 1 .. Len(ar_queue'[v])
        PROVE  /\ ar_queue'[v][i] \in 1 .. Len(ar_functor')
               /\ ar_functor'[ar_queue'[v][i]].on = v
               /\ ar_functor'[ar_queue'[v][i]].state = "queued"
    <3>1. PICK j \in 1 .. Len(ar_queue[v]) : ar_queue'[v][i] = ar_queue[v][j] /\ (v = t => j = i + 1)
      BY <2>1
    <3>2. v = t => j # 1
      BY <3>1, <1>5, <1>2
    <3>3. ar_queue[v][j] # f /\ ar_queue[v][j] \in 1 .. Len(ar_functor)
      BY <3>2, <2>2, QueueFacts
    <3>4. QED
      BY <3>1, <3>3, <1>4, QueueFacts
  <2>4. ASSUME NEW v \in RThread, NEW i \in 1 .. Len(ar_queue'[v]), NEW j \in 1 .. Len(ar_queue'[v]),
               ar_queue'[v][i] = ar_queue'[v][j]
        PROVE  i = j
    <3>1. PICK k \in 1 .. Len(ar_queue[v]) :
            ar_queue'[v][i] = ar_queue[v][k] /\ (v = t => k = i + 1) /\ (v # t => k = i)
      BY <2>1
    <3>2. PICK l \in 1 .. Len(ar_queue[v]) :
            ar_queue'[v][j] = ar_queue[v][l] /\ (v = t => l = j + 1) /\ (v # t => l = j)
      BY <2>1
    <3>3. k = l
      BY <3>1, <3>2, <2>4, QueueFacts
    <3>4. QED
      BY <3>1, <3>2, <3>3
  <2>5. QED
    BY <2>3, <2>4 DEF QueuesHold
<1>7. StacksHold(ar_stack', ar_functor')
  <2> SUFFICES ASSUME NEW v \in RThread, ar_stack'[v] # <<>>
               PROVE  \E g \in 1 .. Len(ar_functor') :
                        ar_stack'[v] = <<g>> /\ ar_functor'[g].on = v /\ ar_functor'[g].state = "running"
    BY DEF StacksHold
  <2>1. CASE v = t
    BY <2>1, <1>3, <1>4, <1>5
  <2>2. CASE v # t
    <3>1. PICK g \in 1 .. Len(ar_functor) :
            ar_stack[v] = <<g>> /\ ar_functor[g].on = v /\ ar_functor[g].state = "running"
      BY <2>2, <1>5, StackFact
    <3>2. g # f
      BY <3>1, <1>3
    <3>3. QED
      BY <2>2, <3>1, <3>2, <1>4, <1>5
  <2>3. QED
    BY <2>1, <2>2
<1>8. ASSUME NEW g \in 1 .. Len(ar_functor), HasCause(g, ar_queue, ar_stack, ar_functor)
      PROVE  HasCause(g, ar_queue', ar_stack', ar_functor')
  <2>1. CASE g = f
    <3>1. Among(ar_stack'[t], f)
      BY <1>5 DEF Among
    <3>2. QED
      BY <2>1, <3>1, <1>4 DEF HasCause
  <2>2. CASE g # f
    <3>1. ar_functor'[g] = ar_functor[g] /\ ar_functor[g].on \in RThread
      BY <2>2, <1>4, RouterTypes
    <3>2. CASE ar_functor[g].on # t
      BY <3>1, <3>2, <1>5, <1>8 DEF HasCause
    <3>3. CASE ar_functor[g].on = t
      <4>1. ~ Among(ar_stack[t], g)
        BY <1>1 DEF Among
      <4>2. Among(ar_queue[t], g) => Among(ar_queue'[t], g)
        <5> SUFFICES ASSUME NEW i \in 1 .. Len(ar_queue[t]), ar_queue[t][i] = g PROVE Among(ar_queue'[t], g)
          BY <1>2 DEF Among
        <5>1. i # 1
          BY <2>2, <1>2
        <5>2. i - 1 \in 1 .. Len(ar_queue[t]) - 1 /\ (i - 1) + 1 = i
          BY <5>1, <1>2
        <5>3. Tail(ar_queue[t])[i - 1] = ar_queue[t][i]
          BY <5>2, <1>2
        <5>4. QED
          BY <5>2, <5>3, <1>2, <1>5 DEF Among
      <4>3. QED
        BY <3>1, <3>3, <4>1, <4>2, <1>8 DEF HasCause
    <3>4. QED
      BY <3>2, <3>3
  <2>3. QED
    BY <2>1, <2>2
<1>9. WaitersHold(ar_waits', ar_queue', ar_stack', ar_functor')
  BY <1>1, <1>4, <1>8, WaitFact DEF WaitersHold
<1>10. SyncIsOver
  BY <1>1 DEF SyncIsOver
<1>11. QED
  BY <1>1, <1>4, <1>5, <1>6, <1>7, <1>9, <1>10, RouterTypes DEF RouterInv

LEMMA FinishKeeps ==
  ASSUME RouterInv, NEW t \in RThread, FinishFunctor(t)
  PROVE  RouterInv' /\ SyncIsOver
<1>1. PICK f \in 1 .. Len(ar_functor) :
        ar_stack[t] = <<f>> /\ ar_functor[f].on = t /\ ar_functor[f].state = "running"
  BY StackFact DEF FinishFunctor
<1>2. Last(ar_stack[t]) = f /\ Front(ar_stack[t]) = <<>>
  BY <1>1 DEF Last, Front
<1>3. /\ ar_functor' = [ar_functor EXCEPT ![f].state = "done"]
      /\ ar_waits' = [v \in RThread |-> IF ar_waits[v] = f THEN NoFunctor ELSE ar_waits[v]]
      /\ ar_stack' = [ar_stack EXCEPT ![t] = <<>>]
      /\ ar_queue' = ar_queue
  BY <1>2 DEF FinishFunctor
<1>4. /\ ar_functor' \in Seq(Functor) /\ Len(ar_functor') = Len(ar_functor)
      /\ ar_functor'[f].on = t /\ ar_functor'[f].state = "done"
      /\ \A g \in 1 .. Len(ar_functor) : g # f => ar_functor'[g] = ar_functor[g]
  BY <1>1, <1>3, OneChanges DEF FunctorState
<1>5. /\ ar_stack' \in [RThread -> Seq(Nat)] /\ ar_stack'[t] = <<>>
      /\ \A v \in RThread \ {t} : ar_stack'[v] = ar_stack[v]
      /\ ar_waits' \in [RThread -> Nat]
  BY <1>3, RouterTypes DEF NoFunctor
<1>6. QueuesHold(ar_queue', ar_functor')
  <2>1. \A v \in RThread : \A i \in 1 .. Len(ar_queue[v]) : ar_queue[v][i] # f
    BY <1>1, QueueFacts
  <2>2. \A v \in RThread : \A i \in 1 .. Len(ar_queue[v]) :
          /\ ar_queue[v][i] \in 1 .. Len(ar_functor')
          /\ ar_functor'[ar_queue[v][i]].on = v
          /\ ar_functor'[ar_queue[v][i]].state = "queued"
    BY <2>1, <1>4, QueueFacts
  <2>3. QED
    BY <2>2, <1>3, QueueFacts DEF QueuesHold
<1>7. StacksHold(ar_stack', ar_functor')
  <2> SUFFICES ASSUME NEW v \in RThread, ar_stack'[v] # <<>>
               PROVE  \E g \in 1 .. Len(ar_functor') :
                        ar_stack'[v] = <<g>> /\ ar_functor'[g].on = v /\ ar_functor'[g].state = "running"
    BY DEF StacksHold
  <2>1. v # t
    BY <1>5
  <2>2. PICK g \in 1 .. Len(ar_functor) :
          ar_stack[v] = <<g>> /\ ar_functor[g].on = v /\ ar_functor[g].state = "running"
    BY <2>1, <1>5, StackFact
  <2>3. g # f
    BY <2>1, <2>2, <1>1
  <2>4. QED
    BY <2>1, <2>2, <2>3, <1>4, <1>5
<1>8. ASSUME NEW g \in 1 .. Len(ar_functor), g # f, HasCause(g, ar_queue, ar_stack, ar_functor)
      PROVE  HasCause(g, ar_queue', ar_stack', ar_functor')
  <2>1. ar_functor'[g] = ar_functor[g] /\ ar_functor[g].on \in RThread
    BY <1>8, <1>4, RouterTypes
  <2>2. Among(ar_stack[ar_functor[g].on], g) => Among(ar_stack'[ar_functor[g].on], g)
    <3>1. CASE ar_functor[g].on = t
      BY <3>1, <1>1, <1>8 DEF Among
    <3>2. CASE ar_functor[g].on # t
      BY <3>2, <2>1, <1>5
    <3>3. QED
      BY <3>1, <3>2
  <2>3. QED
    BY <2>1, <2>2, <1>3, <1>8 DEF HasCause
<1>9. WaitersHold(ar_waits', ar_queue', ar_stack', ar_functor')
  <2> SUFFICES ASSUME NEW v \in RThread, ar_waits'[v] # NoFunctor
               PROVE  ar_waits'[v] \in 1 .. Len(ar_functor') /\ HasCause(ar_waits'[v], ar_queue', ar_stack', ar_functor')
    BY DEF WaitersHold
  <2>1. ar_waits'[v] = ar_waits[v] /\ ar_waits[v] # f
    BY <1>3
  <2>2. QED
    BY <2>1, <1>4, <1>8, WaitFact
<1>10. SyncIsOver
  <2> SUFFICES ASSUME NEW v \in RThread, ar_waits[v] # NoFunctor, ar_waits'[v] = NoFunctor
               PROVE  ar_functor'[ar_waits[v]].state = "done"
    BY DEF SyncIsOver
  <2>1. ar_waits[v] = f
    BY <1>3
  <2>2. QED
    BY <2>1, <1>4
<1>11. QED
  BY <1>3, <1>4, <1>5, <1>6, <1>7, <1>9, <1>10, RouterTypes DEF RouterInv

LEMMA EndKeeps ==
  ASSUME RouterInv, NEW t \in RThread, EndRouterThread(t)
  PROVE  RouterInv' /\ SyncIsOver
<1> DEFINE new(f) == IF Among(ar_queue[t], f) THEN [ar_functor[f] EXCEPT !.state = "dropped"] ELSE ar_functor[f]
<1>1. /\ ar_functor' = [f \in DOMAIN ar_functor |-> new(f)]
      /\ ar_queue' = [ar_queue EXCEPT ![t] = <<>>]
      /\ ar_stack' = ar_stack /\ ar_waits' = ar_waits
  BY DEF EndRouterThread, Among
<1>2. \A f \in 1 .. Len(ar_functor) :
        /\ new(f) \in Functor /\ new(f).on = ar_functor[f].on
        /\ Among(ar_queue[t], f) => new(f).state = "dropped"
        /\ ~ Among(ar_queue[t], f) => new(f) = ar_functor[f]
  <2> TAKE f \in 1 .. Len(ar_functor)
  <2>1. ar_functor[f] \in Functor
    BY RouterTypes
  <2>2. [ar_functor[f] EXCEPT !.state = "dropped"] \in Functor
    BY <2>1 DEF Functor, FunctorState
  <2>3. QED
    BY <2>1, <2>2 DEF Functor
<1> HIDE DEF new
<1>3. ar_functor' \in Seq(Functor) /\ Len(ar_functor') = Len(ar_functor)
      /\ \A f \in 1 .. Len(ar_functor) : ar_functor'[f] = new(f)
  <2>1. ar_functor' = [f \in 1 .. Len(ar_functor) |-> new(f)] /\ Len(ar_functor) \in Nat
    BY <1>1, RouterTypes
  <2>2. ar_functor' \in [1 .. Len(ar_functor) -> Functor]
    BY <2>1, <1>2
  <2>3. QED
    BY <2>1, <2>2
<1>4. /\ ar_queue' \in [RThread -> Seq(Nat)] /\ ar_queue'[t] = <<>>
      /\ \A v \in RThread \ {t} : ar_queue'[v] = ar_queue[v]
  BY <1>1, RouterTypes
<1>5. \A v \in RThread : \A i \in 1 .. Len(ar_queue[v]) : v # t => ~ Among(ar_queue[t], ar_queue[v][i])
  <2> SUFFICES ASSUME NEW v \in RThread, NEW i \in 1 .. Len(ar_queue[v]), v # t, Among(ar_queue[t], ar_queue[v][i])
               PROVE  FALSE
    OBVIOUS
  <2>1. DOMAIN ar_queue[t] = 1 .. Len(ar_queue[t])
    BY RouterTypes
  <2>2. QED
    BY <2>1, QueueFacts DEF Among
<1>6. QueuesHold(ar_queue', ar_functor')
  <2>1. ASSUME NEW v \in RThread
        PROVE  /\ \A i \in 1 .. Len(ar_queue'[v]) :
                    /\ ar_queue'[v][i] \in 1 .. Len(ar_functor')
                    /\ ar_functor'[ar_queue'[v][i]].on = v
                    /\ ar_functor'[ar_queue'[v][i]].state = "queued"
               /\ \A i, j \in 1 .. Len(ar_queue'[v]) : ar_queue'[v][i] = ar_queue'[v][j] => i = j
    <3>1. CASE v = t
      BY <3>1, <1>4
    <3>2. CASE v # t
      <4>1. ar_queue'[v] = ar_queue[v]
        BY <3>2, <1>4
      <4>2. \A i \in 1 .. Len(ar_queue[v]) : ar_functor'[ar_queue[v][i]] = ar_functor[ar_queue[v][i]]
        BY <3>2, <1>2, <1>3, <1>5, QueueFacts
      <4>3. QED
        BY <4>1, <4>2, <1>3, QueueFacts
    <3>3. QED
      BY <3>1, <3>2
  <2>2. QED
    BY <2>1 DEF QueuesHold
<1>7. \A f \in 1 .. Len(ar_functor) : Among(ar_queue[t], f) => ar_functor[f].state = "queued"
  <2>1. DOMAIN ar_queue[t] = 1 .. Len(ar_queue[t])
    BY RouterTypes
  <2>2. QED
    BY <2>1, QueueFacts DEF Among
<1>8. StacksHold(ar_stack', ar_functor')
  <2> SUFFICES ASSUME NEW v \in RThread, ar_stack[v] # <<>>
               PROVE  \E g \in 1 .. Len(ar_functor') :
                        ar_stack[v] = <<g>> /\ ar_functor'[g].on = v /\ ar_functor'[g].state = "running"
    BY <1>1 DEF StacksHold
  <2>1. PICK g \in 1 .. Len(ar_functor) :
          ar_stack[v] = <<g>> /\ ar_functor[g].on = v /\ ar_functor[g].state = "running"
    BY StackFact
  <2>2. ar_functor'[g] = ar_functor[g]
    BY <2>1, <1>2, <1>3, <1>7
  <2>3. QED
    BY <2>1, <2>2, <1>3
<1>9. ASSUME NEW g \in 1 .. Len(ar_functor), HasCause(g, ar_queue, ar_stack, ar_functor)
      PROVE  HasCause(g, ar_queue', ar_stack', ar_functor')
  <2>1. CASE Among(ar_queue[t], g)
    BY <2>1, <1>2, <1>3 DEF HasCause
  <2>2. CASE ~ Among(ar_queue[t], g)
    <3>1. ar_functor'[g] = ar_functor[g] /\ ar_functor[g].on \in RThread
      BY <2>2, <1>2, <1>3, RouterTypes
    <3>2. Among(ar_queue[ar_functor[g].on], g) => Among(ar_queue'[ar_functor[g].on], g)
      BY <2>2, <3>1, <1>4
    <3>3. QED
      BY <3>1, <3>2, <1>1, <1>9 DEF HasCause
  <2>3. QED
    BY <2>1, <2>2
<1>10. WaitersHold(ar_waits', ar_queue', ar_stack', ar_functor')
  BY <1>1, <1>3, <1>9, WaitFact DEF WaitersHold
<1>11. SyncIsOver
  BY <1>1 DEF SyncIsOver
<1>12. QED
  BY <1>1, <1>3, <1>4, <1>6, <1>8, <1>10, <1>11, RouterTypes DEF RouterInv

LEMMA RouterInductive == RouterInv /\ [RouterNext]_routerVars => RouterInv' /\ SyncIsOver
<1> SUFFICES ASSUME RouterInv, [RouterNext]_routerVars PROVE RouterInv' /\ SyncIsOver
  OBVIOUS
<1>1. CASE RouterNext
  BY <1>1, StartKeeps, FinishKeeps, EndKeeps, CallKeeps DEF RouterNext
<1>2. CASE UNCHANGED routerVars
  <2>1. /\ ar_queue' = ar_queue /\ ar_stack' = ar_stack /\ ar_waits' = ar_waits
        /\ ar_functor' = ar_functor
    BY <1>2 DEF routerVars
  <2>2. QED
    BY <2>1 DEF RouterInv, SyncIsOver
<1>3. QED
  BY <1>1, <1>2

LEMMA RouterImplies == RouterInv => HangHasACause
<1> SUFFICES ASSUME RouterInv, NEW t \in RThread, ar_waits[t] # NoFunctor
             PROVE  HasCause(ar_waits[t], ar_queue, ar_stack, ar_functor)
  BY DEF HangHasACause, HasCause, Among
<1>1. QED
  BY WaitFact

(* For any number of threads and calls: CallSync (async_router.cc) returns *)
(* only when its functor has run to its end, and a caller that still waits *)
(* has its functor queued, running, or dropped by a thread that ended.     *)
THEOREM SyncCallsAlwaysReturn == RouterSpec => SyncCallsReturn
<1>1. RouterInit => RouterInv
  BY RouterInit0
<1>2. RouterInv /\ [RouterNext]_routerVars => RouterInv'
  BY RouterInductive
<1>3. RouterInv /\ [RouterNext]_routerVars => [HangHasACause' /\ SyncIsOver]_routerVars
  <2> SUFFICES ASSUME RouterInv, [RouterNext]_routerVars PROVE HangHasACause' /\ SyncIsOver
    OBVIOUS
  <2>1. RouterInv' /\ SyncIsOver
    BY RouterInductive
  <2>2. HangHasACause'
    BY <2>1, RouterImplies, PTL
  <2>3. QED
    BY <2>1, <2>2
<1>4. QED
  BY <1>1, <1>2, <1>3, PTL DEF RouterSpec, SyncCallsReturn

-----------------------------------------------------------------------------
(* MessageService.  Beyond the promised: a thread whose set is no longer   *)
(* the one it copied has only observers that were added after the          *)
(* notification it dispatches.                                             *)
ObsAddress == Address \cup {NoAddress}
ObsSet == [at : ObsAddress, members : SUBSET Observer, since : [Observer -> Nat]]
ObsState == [at : {"idle", "loop", "notify", "ending", "ended"}, note : Nat, us : ObsAddress,
             set : ObsAddress, copy : SUBSET Observer, now : SUBSET Observer]

ServiceTypes ==
  /\ ms_collection \in [at : ObsAddress, sets : [ObsThread -> ObsSet]]
  /\ ms_queue \in [ObsThread -> Seq(Nat)]
  /\ ms_thread \in [ObsThread -> ObsState]
  /\ ms_notes \in Nat

NotesAreOld ==
  \A t \in ObsThread :
    /\ ms_thread[t].note <= ms_notes
    /\ ms_thread[t].at \notin {"loop", "notify"} => ms_thread[t].note = 0

NewcomersOnly ==
  \A t \in ObsThread : ~SameSet(t) =>
    \A o \in SetOf(t).members : ms_thread[t].note <= SetOf(t).since[o]

ServiceInv == ServiceTypes /\ ServiceTypeOK /\ NotesAreOld /\ NewcomersOnly /\ NothingMissed

LEMMA ServiceInit0 == ServiceInit => ServiceInv
<1> SUFFICES ASSUME ServiceInit PROVE ServiceInv
  OBVIOUS
<1>1. NoSet \in ObsSet /\ NoSet.at = NoAddress /\ NoSet.members = {}
  BY DEF NoSet, ObsSet, ObsAddress
<1>2. IdleThread \in ObsState /\ IdleThread.note = 0 /\ IdleThread.at = "idle"
  BY DEF IdleThread, ObsState, ObsAddress
<1>3. /\ ms_collection \in [at : ObsAddress, sets : [ObsThread -> ObsSet]]
      /\ ms_collection.at = NoAddress /\ \A t \in ObsThread : SetOf(t) = NoSet
  BY <1>1 DEF ServiceInit, NoCollection, ObsAddress, SetOf
<1>4. ServiceTypes
  BY <1>2, <1>3 DEF ServiceInit, ServiceTypes
<1>5. ServiceTypeOK
  BY <1>1, <1>3 DEF ServiceInit, ServiceTypeOK
<1>6. NotesAreOld
  BY <1>2 DEF ServiceInit, NotesAreOld
<1>7. NewcomersOnly /\ NothingMissed
  BY <1>1, <1>3 DEF NewcomersOnly, NothingMissed
<1>8. QED
  BY <1>4, <1>5, <1>6, <1>7 DEF ServiceInv

LEMMA ObsTypes ==
  ASSUME ServiceTypes, NEW t \in ObsThread
  PROVE  /\ SetOf(t) \in ObsSet /\ SetOf(t).at \in ObsAddress /\ SetOf(t).members \subseteq Observer
         /\ SetOf(t).since \in [Observer -> Nat]
         /\ ms_thread[t] \in ObsState /\ ms_thread[t].note \in Nat /\ ms_thread[t].copy \subseteq Observer
         /\ ms_thread[t].at \in {"idle", "loop", "notify", "ending", "ended"}
         /\ ms_queue[t] \in Seq(Nat) /\ Len(ms_queue[t]) \in Nat
         /\ ms_collection.at \in ObsAddress
<1>1. SetOf(t) \in ObsSet /\ ms_thread[t] \in ObsState /\ ms_queue[t] \in Seq(Nat) /\ ms_collection.at \in ObsAddress
  BY DEF ServiceTypes, SetOf
<1>2. QED
  BY <1>1 DEF ObsSet, ObsState

LEMMA NoAddressIs == NoAddress \notin Address
BY ServiceAssumption DEF NoAddress

(* What the operations on the collection have in common: observers that    *)
(* are there afterwards were there before or are added now; a set that is  *)
(* new, or in a new collection, has only the latter.                       *)
CollectionGoesOn(c) ==
  /\ \A t \in ObsThread : \A o \in c.sets[t].members :
       \/ c.sets[t].since[o] = ms_notes
       \/ o \in SetOf(t).members /\ c.sets[t].since[o] = SetOf(t).since[o]
  /\ \A t \in ObsThread :
       \/ c.at = ms_collection.at /\ c.sets[t].at = SetOf(t).at
       \/ \A o \in c.sets[t].members : c.sets[t].since[o] = ms_notes

CollectionIsSound(c) ==
  /\ c.at = NoAddress <=> \A t \in ObsThread : c.sets[t].at = NoAddress
  /\ \A t \in ObsThread : c.sets[t].at = NoAddress <=> c.sets[t].members = {}
  /\ \A t, u \in ObsThread : t # u /\ c.sets[t].at = c.sets[u].at => c.sets[t].at = NoAddress

LEMMA CollectionChanges ==
  ASSUME ServiceInv,
         ms_collection' \in [at : ObsAddress, sets : [ObsThread -> ObsSet]],
         CollectionGoesOn(ms_collection'), CollectionIsSound(ms_collection'),
         ms_thread' \in [ObsThread -> ObsState],
         \A t \in ObsThread :
           /\ ms_thread'[t].note = ms_thread[t].note /\ ms_thread'[t].us = ms_thread[t].us
           /\ ms_thread'[t].set = ms_thread[t].set /\ ms_thread'[t].copy = ms_thread[t].copy
           /\ \/ ms_thread'[t].at = ms_thread[t].at
              \/ ms_thread[t].at = "ending" /\ ms_thread'[t].at = "ended",
         UNCHANGED <<ms_queue, ms_notes, ms_delivered>>
  PROVE  ServiceInv'
<1>1. \A t \in ObsThread : SetOf(t)' = ms_collection'.sets[t]
  BY DEF SetOf
<1>2. ServiceTypes'
  BY DEF ServiceInv, ServiceTypes
<1>3. ServiceTypeOK'
  <2>1. \A t \in ObsThread : \A i \in 1 .. Len(ms_queue[t]) : ms_queue[t][i] \in 1 .. ms_notes
    BY DEF ServiceInv, ServiceTypeOK
  <2>2. ms_queue' = ms_queue /\ ms_notes' = ms_notes
    OBVIOUS
  <2>3. QED
    BY <2>1, <2>2, <1>1 DEF ServiceTypeOK, CollectionIsSound
<1>4. NotesAreOld'
  BY DEF ServiceInv, NotesAreOld
<1>5. NewcomersOnly'
  <2> SUFFICES ASSUME NEW t \in ObsThread, ~SameSet(t)', NEW o \in ms_collection'.sets[t].members
               PROVE  ms_thread[t].note <= ms_collection'.sets[t].since[o]
    BY <1>1 DEF NewcomersOnly
  <2>1. ms_thread[t].note <= ms_notes
    BY DEF ServiceInv, NotesAreOld
  <2>2. CASE ms_collection'.sets[t].since[o] = ms_notes
    BY <2>1, <2>2
  <2>3. CASE ms_collection'.sets[t].since[o] # ms_notes
    <3>1. o \in SetOf(t).members /\ ms_collection'.sets[t].since[o] = SetOf(t).since[o]
      BY <2>3 DEF CollectionGoesOn
    <3>2. ms_collection'.at = ms_collection.at /\ ms_collection'.sets[t].at = SetOf(t).at
      BY <2>3 DEF CollectionGoesOn
    <3>3. ~SameSet(t)
      BY <3>2, <1>1 DEF SameSet
    <3>4. QED
      BY <3>1, <3>3 DEF ServiceInv, NewcomersOnly
  <2>4. QED
    BY <2>2, <2>3
<1>6. NothingMissed'
  <2> SUFFICES ASSUME NEW t \in ObsThread, NEW o \in ms_collection'.sets[t].members,
                      NEW n \in ms_collection'.sets[t].since[o] + 1 .. ms_notes
               PROVE  \/ <<t, o, n>> \in ms_delivered
                      \/ \E i \in 1 .. Len(ms_queue[t]) : ms_queue[t][i] = n
                      \/ ms_thread'[t].note = n /\ o \in ms_thread'[t].copy
                      \/ ms_thread'[t].at \in {"ending", "ended"}
    BY <1>1 DEF NothingMissed
  <2>1. ms_collection'.sets[t].since[o] # ms_notes
    <3>1. ms_notes \in Nat
      BY DEF ServiceInv, ServiceTypes
    <3>2. QED
      BY <3>1
  <2>2. o \in SetOf(t).members /\ ms_collection'.sets[t].since[o] = SetOf(t).since[o]
    BY <2>1 DEF CollectionGoesOn
  <2>3. \/ <<t, o, n>> \in ms_delivered
        \/ \E i \in 1 .. Len(ms_queue[t]) : ms_queue[t][i] = n
        \/ ms_thread[t].note = n /\ o \in ms_thread[t].copy
        \/ ms_thread[t].at \in {"ending", "ended"}
    BY <2>2 DEF ServiceInv, NothingMissed
  <2>4. QED
    BY <2>3
<1>7. QED
  BY <1>2, <1>3, <1>4, <1>5, <1>6 DEF ServiceInv

LEMMA AddKeeps ==
  ASSUME ServiceInv, NEW t \in ObsThread, NEW o \in Observer, AddObserver(t, o)
  PROVE  ServiceInv'
<1>0. ServiceTypes /\ ServiceTypeOK /\ ms_notes \in Nat
  BY DEF ServiceInv, ServiceTypes
<1>1. PICK a \in Address, s \in Address :
        /\ ms_collection.at # NoAddress => a = ms_collection.at
        /\ SetOf(t).at # NoAddress => s = SetOf(t).at
        /\ SetOf(t).at = NoAddress => \A u \in ObsThread : SetOf(u).at # s
        /\ ms_collection' =
             [at |-> a, sets |-> [ms_collection.sets EXCEPT ![t] =
                [at |-> s, members |-> SetOf(t).members \cup {o}, since |-> [SetOf(t).since EXCEPT ![o] = ms_notes]]]]
  BY DEF AddObserver
<1> DEFINE new == [at |-> s, members |-> SetOf(t).members \cup {o},
                   since |-> [SetOf(t).since EXCEPT ![o] = ms_notes]]
           sets == [ms_collection.sets EXCEPT ![t] = new]
<1>2. a # NoAddress /\ s # NoAddress /\ a \in ObsAddress /\ s \in ObsAddress
  BY NoAddressIs DEF ObsAddress
<1>3. new \in ObsSet
  BY <1>0, <1>2, ObsTypes DEF ObsSet
<1>4. /\ new.at = s /\ new.members = SetOf(t).members \cup {o}
      /\ new.since[o] = ms_notes
      /\ \A p \in Observer \ {o} : new.since[p] = SetOf(t).since[p]
  BY <1>0, ObsTypes
<1>5. ms_collection.sets \in [ObsThread -> ObsSet]
  BY <1>0 DEF ServiceTypes
<1> HIDE DEF new
<1>6. sets \in [ObsThread -> ObsSet] /\ sets[t] = new /\ \A u \in ObsThread \ {t} : sets[u] = SetOf(u)
  BY <1>3, <1>5 DEF SetOf
<1>7. ms_collection' = [at |-> a, sets |-> sets]
  BY <1>1 DEF new
<1> HIDE DEF sets
<1>8. ms_collection'.at = a /\ ms_collection'.sets = sets
  BY <1>7
<1>9. ms_collection' \in [at : ObsAddress, sets : [ObsThread -> ObsSet]]
  BY <1>2, <1>6, <1>7
<1>10. CollectionIsSound(ms_collection')
  <2>1. \A u \in ObsThread : sets[u].at = NoAddress <=> sets[u].members = {}
    BY <1>0, <1>2, <1>4, <1>6 DEF ServiceTypeOK
  <2>2. \A u \in ObsThread \ {t} : SetOf(u).at # s
    BY <1>0, <1>1, <1>2 DEF ServiceTypeOK
  <2>3. \A u, v \in ObsThread : u # v /\ sets[u].at = sets[v].at => sets[u].at = NoAddress
    BY <1>0, <1>4, <1>6, <2>2 DEF ServiceTypeOK
  <2>4. ms_collection'.at = NoAddress <=> \A u \in ObsThread : sets[u].at = NoAddress
    BY <1>2, <1>4, <1>6, <1>8
  <2>5. QED
    BY <1>8, <2>1, <2>3, <2>4 DEF CollectionIsSound
<1>11. CollectionGoesOn(ms_collection')
  <2>1. ASSUME NEW u \in ObsThread, NEW p \in sets[u].members
        PROVE  \/ sets[u].since[p] = ms_notes
               \/ p \in SetOf(u).members /\ sets[u].since[p] = SetOf(u).since[p]
    <3>1. CASE u = t /\ p # o
      <4>1. p \in SetOf(t).members /\ p \in Observer \ {o}
        BY <3>1, <1>4, <1>6, <1>0, ObsTypes
      <4>2. QED
        BY <3>1, <4>1, <1>4, <1>6
    <3>2. CASE u = t /\ p = o
      BY <3>2, <1>4, <1>6
    <3>3. CASE u # t
      BY <3>3, <1>6
    <3>4. QED
      BY <3>1, <3>2, <3>3
  <2>2. ASSUME NEW u \in ObsThread
        PROVE  \/ a = ms_collection.at /\ sets[u].at = SetOf(u).at
               \/ \A p \in sets[u].members : sets[u].since[p] = ms_notes
    <3>1. CASE SetOf(u).at = NoAddress
      <4>1. SetOf(u).members = {}
        BY <3>1, <1>0 DEF ServiceTypeOK
      <4>2. QED
        BY <4>1, <1>4, <1>6
    <3>2. CASE SetOf(u).at # NoAddress
      <4>1. ms_collection.at # NoAddress
        BY <3>2, <1>0 DEF ServiceTypeOK
      <4>2. QED
        BY <3>2, <4>1, <1>1, <1>4, <1>6
    <3>3. QED
      BY <3>1, <3>2
  <2>3. QED
    BY <1>8, <2>1, <2>2 DEF CollectionGoesOn
<1>12. ms_thread' = ms_thread /\ UNCHANGED <<ms_queue, ms_notes, ms_delivered>> /\ ms_thread \in [ObsThread -> ObsState]
  BY <1>0 DEF AddObserver, ServiceTypes
<1>13. QED
  BY <1>9, <1>10, <1>11, <1>12, CollectionChanges

(* Observers only go, and a set without any is gone. *)
LEMMA WithSetsIs ==
  ASSUME ServiceInv, NEW sets \in [ObsThread -> ObsSet],
         \A u \in ObsThread :
           /\ sets[u].at \in {SetOf(u).at, NoAddress}
           /\ sets[u].members \subseteq SetOf(u).members
           /\ (sets[u].at = NoAddress) <=> (sets[u].members = {})
           /\ \A p \in sets[u].members : sets[u].since[p] = SetOf(u).since[p],
         ms_collection' = WithSets(sets)
  PROVE  /\ ms_collection' \in [at : ObsAddress, sets : [ObsThread -> ObsSet]]
         /\ CollectionGoesOn(ms_collection') /\ CollectionIsSound(ms_collection')
<1>1. ms_collection \in [at : ObsAddress, sets : [ObsThread -> ObsSet]] /\ ServiceTypeOK
  BY DEF ServiceInv, ServiceTypes
<1>2. CASE \A u \in ObsThread : sets[u].at = NoAddress
  <2>1. ms_collection' = NoCollection
    BY <1>2 DEF WithSets
  <2>2. NoSet \in ObsSet /\ NoSet.at = NoAddress /\ NoSet.members = {}
    BY DEF NoSet, ObsSet, ObsAddress
  <2>3. /\ NoCollection \in [at : ObsAddress, sets : [ObsThread -> ObsSet]]
        /\ NoCollection.at = NoAddress /\ \A u \in ObsThread : NoCollection.sets[u] = NoSet
    BY <2>2 DEF NoCollection, ObsAddress
  <2>4. QED
    BY <2>1, <2>2, <2>3 DEF CollectionGoesOn, CollectionIsSound
<1>3. CASE ~ \A u \in ObsThread : sets[u].at = NoAddress
  <2>1. ms_collection' = [ms_collection EXCEPT !.sets = sets]
    BY <1>3 DEF WithSets
  <2>2. /\ ms_collection' \in [at : ObsAddress, sets : [ObsThread -> ObsSet]]
        /\ ms_collection'.at = ms_collection.at /\ ms_collection'.sets = sets
    BY <2>1, <1>1
  <2>3. PICK w \in ObsThread : sets[w].at # NoAddress
    BY <1>3
  <2>4. SetOf(w).at # NoAddress /\ ms_collection.at # NoAddress
    BY <2>3, <1>1 DEF ServiceTypeOK
  <2>5. \A u, v \in ObsThread : u # v /\ sets[u].at = sets[v].at => sets[u].at = NoAddress
    BY <1>1 DEF ServiceTypeOK
  <2>6. CollectionIsSound(ms_collection')
    BY <2>2, <2>3, <2>4, <2>5 DEF CollectionIsSound
  <2>7. CollectionGoesOn(ms_collection')
    BY <2>2 DEF CollectionGoesOn
  <2>8. QED
    BY <2>2, <2>6, <2>7
<1>4. QED
  BY <1>2, <1>3

LEMMA RemoveKeeps ==
  ASSUME ServiceInv, NEW t \in ObsThread, NEW o \in Observer, RemoveObserver(t, o)
  PROVE  ServiceInv'
<1>0. ServiceTypes /\ ServiceTypeOK
  BY DEF ServiceInv
<1> DEFINE left == SetOf(t).members \ {o}
           new == IF left = {} THEN NoSet ELSE [SetOf(t) EXCEPT !.members = left, !.since[o] = 0]
           sets == [ms_collection.sets EXCEPT ![t] = new]
<1>1. ms_collection' = WithSets(sets)
  BY DEF RemoveObserver
<1>2. ms_collection.sets \in [ObsThread -> ObsSet]
  BY <1>0 DEF ServiceTypes
<1>3. /\ new \in ObsSet /\ new.at \in {SetOf(t).at, NoAddress}
      /\ new.members \subseteq SetOf(t).members
      /\ (new.at = NoAddress) <=> (new.members = {})
      /\ \A p \in new.members : new.since[p] = SetOf(t).since[p]
  <2>1. CASE left = {}
    BY <2>1 DEF NoSet, ObsSet, ObsAddress
  <2>2. CASE left # {}
    <3>1. /\ SetOf(t) \in ObsSet /\ SetOf(t).since \in [Observer -> Nat] /\ SetOf(t).members \subseteq Observer
      BY <1>0, ObsTypes
    <3>2. new = [SetOf(t) EXCEPT !.members = left, !.since = [SetOf(t).since EXCEPT ![o] = 0]]
      BY <2>2, <3>1 DEF ObsSet
    <3>3. /\ new \in ObsSet /\ new.at = SetOf(t).at /\ new.members = left
          /\ new.since = [SetOf(t).since EXCEPT ![o] = 0]
      <4> DEFINE since == [SetOf(t).since EXCEPT ![o] = 0]
      <4>1. since \in [Observer -> Nat] /\ left \in SUBSET Observer
        BY <3>1
      <4>2. new = [SetOf(t) EXCEPT !.members = left, !.since = since]
        BY <3>2
      <4> HIDE DEF since, left, new
      <4>3. new \in ObsSet /\ new.at = SetOf(t).at /\ new.members = left /\ new.since = since
        BY <3>1, <4>1, <4>2 DEF ObsSet
      <4>4. QED
        BY <4>3 DEF since
    <3>4. SetOf(t).at # NoAddress
      BY <2>2, <1>0 DEF ServiceTypeOK
    <3>5. \A p \in left : [SetOf(t).since EXCEPT ![o] = 0][p] = SetOf(t).since[p]
      BY <3>1
    <3>6. QED
      BY <2>2, <3>3, <3>4, <3>5
  <2>3. QED
    BY <2>1, <2>2
<1> HIDE DEF new
<1>4. sets \in [ObsThread -> ObsSet] /\ sets[t] = new /\ \A u \in ObsThread \ {t} : sets[u] = SetOf(u)
  BY <1>2, <1>3 DEF SetOf
<1> HIDE DEF sets
<1>5. \A u \in ObsThread :
           /\ sets[u].at \in {SetOf(u).at, NoAddress}
           /\ sets[u].members \subseteq SetOf(u).members
           /\ (sets[u].at = NoAddress) <=> (sets[u].members = {})
           /\ \A p \in sets[u].members : sets[u].since[p] = SetOf(u).since[p]
  BY <1>0, <1>3, <1>4 DEF ServiceTypeOK
<1>6. /\ ms_collection' \in [at : ObsAddress, sets : [ObsThread -> ObsSet]]
      /\ CollectionGoesOn(ms_collection') /\ CollectionIsSound(ms_collection')
  BY <1>1, <1>4, <1>5, WithSetsIs
<1>7. ms_thread' = ms_thread /\ UNCHANGED <<ms_queue, ms_notes, ms_delivered>> /\ ms_thread \in [ObsThread -> ObsState]
  BY <1>0 DEF RemoveObserver, ServiceTypes
<1>8. QED
  BY <1>6, <1>7, CollectionChanges

LEMMA EndHookKeeps ==
  ASSUME ServiceInv, NEW t \in ObsThread, ThreadEndHook(t)
  PROVE  ServiceInv'
<1>0. ServiceTypes /\ ServiceTypeOK
  BY DEF ServiceInv
<1> DEFINE sets == [ms_collection.sets EXCEPT ![t] = NoSet]
<1>1. ms_collection' = WithSets(sets)
  BY DEF ThreadEndHook
<1>2. ms_collection.sets \in [ObsThread -> ObsSet]
  BY <1>0 DEF ServiceTypes
<1>3. NoSet \in ObsSet /\ NoSet.at = NoAddress /\ NoSet.members = {}
  BY DEF NoSet, ObsSet, ObsAddress
<1>4. sets \in [ObsThread -> ObsSet] /\ sets[t] = NoSet /\ \A u \in ObsThread \ {t} : sets[u] = SetOf(u)
  BY <1>2, <1>3 DEF SetOf
<1> HIDE DEF sets
<1>5. \A u \in ObsThread :
           /\ sets[u].at \in {SetOf(u).at, NoAddress}
           /\ sets[u].members \subseteq SetOf(u).members
           /\ (sets[u].at = NoAddress) <=> (sets[u].members = {})
           /\ \A p \in sets[u].members : sets[u].since[p] = SetOf(u).since[p]
  BY <1>0, <1>3, <1>4 DEF ServiceTypeOK
<1>6. /\ ms_collection' \in [at : ObsAddress, sets : [ObsThread -> ObsSet]]
      /\ CollectionGoesOn(ms_collection') /\ CollectionIsSound(ms_collection')
  BY <1>1, <1>4, <1>5, WithSetsIs
<1>7. /\ ms_thread' = [ms_thread EXCEPT ![t] = [ms_thread[t] EXCEPT !.at = "ended"]]
      /\ ms_thread[t].at = "ending" /\ ms_thread[t] \in ObsState /\ ms_thread \in [ObsThread -> ObsState]
      /\ UNCHANGED <<ms_queue, ms_notes, ms_delivered>>
  BY <1>0, ObsTypes DEF ThreadEndHook, ServiceTypes
<1>8. /\ [ms_thread[t] EXCEPT !.at = "ended"] \in ObsState
      /\ \A k \in {"note", "us", "set", "copy"} : [ms_thread[t] EXCEPT !.at = "ended"][k] = ms_thread[t][k]
      /\ [ms_thread[t] EXCEPT !.at = "ended"].at = "ended"
  BY <1>7 DEF ObsState
<1>9. ms_thread' \in [ObsThread -> ObsState]
  BY <1>7, <1>8
<1>10. \A u \in ObsThread :
           /\ ms_thread'[u].note = ms_thread[u].note /\ ms_thread'[u].us = ms_thread[u].us
           /\ ms_thread'[u].set = ms_thread[u].set /\ ms_thread'[u].copy = ms_thread[u].copy
           /\ \/ ms_thread'[u].at = ms_thread[u].at
              \/ ms_thread[u].at = "ending" /\ ms_thread'[u].at = "ended"
  BY <1>7, <1>8
<1>11. QED
  BY <1>6, <1>7, <1>9, <1>10, CollectionChanges

(* The collection stays: what remains to be shown when a thread moves. *)
LEMMA ThreadMoves ==
  ASSUME ServiceInv, ms_collection' = ms_collection, ms_notes' = ms_notes,
         NEW t \in ObsThread, NEW new \in ObsState,
         ms_thread' = [ms_thread EXCEPT ![t] = new],
         ms_queue' \in [ObsThread -> Seq(Nat)],
         \A u \in ObsThread \ {t} : ms_queue'[u] = ms_queue[u],
         \A i \in 1 .. Len(ms_queue'[t]) : ms_queue'[t][i] \in 1 .. ms_notes,
         new.note <= ms_notes,
         new.at \notin {"loop", "notify"} => new.note = 0,
         ~(ms_collection.at = new.us /\ SetOf(t).at = new.set) =>
           \A o \in SetOf(t).members : new.note <= SetOf(t).since[o],
         ms_delivered \subseteq ms_delivered',
         \A o \in SetOf(t).members : \A n \in SetOf(t).since[o] + 1 .. ms_notes :
           \/ <<t, o, n>> \in ms_delivered'
           \/ \E i \in 1 .. Len(ms_queue'[t]) : ms_queue'[t][i] = n
           \/ new.note = n /\ o \in new.copy
           \/ new.at \in {"ending", "ended"}
  PROVE  ServiceInv'
<1>0. ServiceTypes /\ ServiceTypeOK /\ NotesAreOld /\ NewcomersOnly /\ NothingMissed
  BY DEF ServiceInv
<1>1. \A u \in ObsThread : SetOf(u)' = SetOf(u)
  BY DEF SetOf
<1>2. /\ ms_thread' \in [ObsThread -> ObsState] /\ ms_thread'[t] = new
      /\ \A u \in ObsThread \ {t} : ms_thread'[u] = ms_thread[u]
  BY <1>0 DEF ServiceTypes
<1>3. ServiceTypes'
  BY <1>0, <1>2 DEF ServiceTypes
<1>4. ServiceTypeOK'
  <2>1. \A u \in ObsThread : \A i \in 1 .. Len(ms_queue'[u]) : ms_queue'[u][i] \in 1 .. ms_notes
    <3> TAKE u \in ObsThread
    <3>1. CASE u = t
      BY <3>1
    <3>2. CASE u # t
      BY <3>2, <1>0 DEF ServiceTypeOK
    <3>3. QED
      BY <3>1, <3>2
  <2>2. QED
    BY <2>1, <1>0, <1>1 DEF ServiceTypeOK
<1>5. NotesAreOld'
  BY <1>0, <1>2 DEF NotesAreOld
<1>6. NewcomersOnly'
  <2> SUFFICES ASSUME NEW u \in ObsThread, ~SameSet(u)', NEW o \in SetOf(u).members
               PROVE  ms_thread'[u].note <= SetOf(u).since[o]
    BY <1>1 DEF NewcomersOnly
  <2>1. CASE u = t
    BY <2>1, <1>1, <1>2 DEF SameSet
  <2>2. CASE u # t
    <3>1. ~SameSet(u) /\ ms_thread'[u] = ms_thread[u]
      BY <2>2, <1>1, <1>2 DEF SameSet
    <3>2. QED
      BY <3>1, <1>0 DEF NewcomersOnly
  <2>3. QED
    BY <2>1, <2>2
<1>7. NothingMissed'
  <2> SUFFICES ASSUME NEW u \in ObsThread, NEW o \in SetOf(u).members, NEW n \in SetOf(u).since[o] + 1 .. ms_notes
               PROVE  \/ <<u, o, n>> \in ms_delivered'
                      \/ \E i \in 1 .. Len(ms_queue'[u]) : ms_queue'[u][i] = n
                      \/ ms_thread'[u].note = n /\ o \in ms_thread'[u].copy
                      \/ ms_thread'[u].at \in {"ending", "ended"}
    BY <1>1 DEF NothingMissed
  <2>1. CASE u = t
    BY <2>1, <1>2
  <2>2. CASE u # t
    <3>1. ms_thread'[u] = ms_thread[u] /\ ms_queue'[u] = ms_queue[u]
      BY <2>2, <1>2
    <3>2. \/ <<u, o, n>> \in ms_delivered
          \/ \E i \in 1 .. Len(ms_queue[u]) : ms_queue[u][i] = n
          \/ ms_thread[u].note = n /\ o \in ms_thread[u].copy
          \/ ms_thread[u].at \in {"ending", "ended"}
      BY <1>0 DEF NothingMissed
    <3>3. QED
      BY <3>1, <3>2
  <2>3. QED
    BY <2>1, <2>2
<1>8. QED
  BY <1>3, <1>4, <1>5, <1>6, <1>7 DEF ServiceInv

(* What the invariant says of one thread. *)
LEMMA OneThread ==
  ASSUME ServiceInv, NEW t \in ObsThread
  PROVE  /\ ms_thread[t].note <= ms_notes
         /\ ms_thread[t].at \notin {"loop", "notify"} => ms_thread[t].note = 0
         /\ ~SameSet(t) => \A o \in SetOf(t).members : ms_thread[t].note <= SetOf(t).since[o]
         /\ \A i \in 1 .. Len(ms_queue[t]) : ms_queue[t][i] \in 1 .. ms_notes
         /\ SetOf(t).at = NoAddress <=> SetOf(t).members = {}
         /\ ms_queue \in [ObsThread -> Seq(Nat)] /\ ms_notes \in Nat
         /\ ms_thread \in [ObsThread -> ObsState] /\ ServiceTypes
BY DEF ServiceInv, NotesAreOld, NewcomersOnly, ServiceTypeOK, ServiceTypes

LEMMA OneMissesNothing ==
  ASSUME ServiceInv, NEW t \in ObsThread, NEW o \in SetOf(t).members, NEW n \in SetOf(t).since[o] + 1 .. ms_notes
  PROVE  \/ <<t, o, n>> \in ms_delivered
         \/ \E i \in 1 .. Len(ms_queue[t]) : ms_queue[t][i] = n
         \/ ms_thread[t].note = n /\ o \in ms_thread[t].copy
         \/ ms_thread[t].at \in {"ending", "ended"}
BY DEF ServiceInv, NothingMissed

LEMMA NoteIsLater ==
  ASSUME ServiceTypes, NEW t \in ObsThread, NEW o \in SetOf(t).members, NEW n \in SetOf(t).since[o] + 1 .. ms_notes
  PROVE  n \in Nat /\ n >= 1 /\ n > SetOf(t).since[o] /\ SetOf(t).since[o] \in Nat
<1>1. SetOf(t).since[o] \in Nat
  BY ObsTypes
<1>2. ms_notes \in Nat
  BY DEF ServiceTypes
<1>3. QED
  BY <1>1, <1>2

LEMMA PostKeeps == ASSUME ServiceInv, Post PROVE ServiceInv'
<1>0. ServiceTypes /\ ServiceTypeOK /\ NotesAreOld /\ NewcomersOnly /\ NothingMissed /\ ms_notes \in Nat
  BY DEF ServiceInv, ServiceTypes
<1>1. ms_collection' = ms_collection /\ ms_thread' = ms_thread /\ ms_notes' = ms_notes + 1 /\ ms_delivered' = ms_delivered
  BY DEF Post
<1>2. \A u \in ObsThread : SetOf(u)' = SetOf(u) /\ SameSet(u)' = SameSet(u)
  BY <1>1 DEF SetOf, SameSet
<1> DEFINE Gets(u) == SetOf(u).at # NoAddress /\ ms_thread[u].at # "ending"
<1>3. \A u \in ObsThread : ms_queue'[u] = IF Gets(u) THEN Append(ms_queue[u], ms_notes + 1) ELSE ms_queue[u]
  BY DEF Post
<1>4. ASSUME NEW u \in ObsThread
      PROVE  /\ ms_queue'[u] \in Seq(Nat)
             /\ \A i \in 1 .. Len(ms_queue'[u]) : ms_queue'[u][i] \in 1 .. ms_notes + 1
             /\ \A i \in 1 .. Len(ms_queue[u]) : i \in 1 .. Len(ms_queue'[u]) /\ ms_queue'[u][i] = ms_queue[u][i]
             /\ Gets(u) => \E i \in 1 .. Len(ms_queue'[u]) : ms_queue'[u][i] = ms_notes + 1
  <2>1. ms_queue[u] \in Seq(Nat) /\ Len(ms_queue[u]) \in Nat
    BY <1>0, ObsTypes
  <2>2. \A i \in 1 .. Len(ms_queue[u]) : ms_queue[u][i] \in 1 .. ms_notes + 1
    BY <1>0 DEF ServiceTypeOK
  <2>3. CASE ~Gets(u)
    BY <2>1, <2>2, <2>3, <1>3
  <2>4. CASE Gets(u)
    <3> HIDE DEF Gets
    <3>0. ms_queue'[u] = Append(ms_queue[u], ms_notes + 1)
      BY <2>4, <1>3
    <3>1. ms_queue'[u] = Append(ms_queue[u], ms_notes + 1) /\ ms_notes + 1 \in Nat
      BY <3>0, <1>0
    <3>2. /\ ms_queue'[u] \in Seq(Nat) /\ Len(ms_queue'[u]) = Len(ms_queue[u]) + 1
          /\ ms_queue'[u][Len(ms_queue[u]) + 1] = ms_notes + 1
          /\ \A i \in 1 .. Len(ms_queue[u]) : ms_queue'[u][i] = ms_queue[u][i]
      BY <3>1, <2>1
    <3>3. \A i \in 1 .. Len(ms_queue'[u]) : i \in 1 .. Len(ms_queue[u]) \/ i = Len(ms_queue[u]) + 1
      BY <3>2, <2>1
    <3>4. ms_notes + 1 \in 1 .. ms_notes + 1 /\ Len(ms_queue[u]) + 1 \in 1 .. Len(ms_queue'[u])
          /\ \A i \in 1 .. Len(ms_queue[u]) : i \in 1 .. Len(ms_queue'[u])
      BY <1>0, <2>1, <3>2
    <3>5. QED
      BY <3>2, <3>3, <3>4, <2>2
  <2>5. QED
    BY <2>3, <2>4
<1>5. ServiceTypes'
  <2>1. ms_queue' \in [ObsThread -> Seq(Nat)]
    <3>1. ms_queue' = [u \in ObsThread |-> ms_queue'[u]]
      BY DEF Post
    <3>2. QED
      BY <3>1, <1>4
  <2>2. QED
    BY <2>1, <1>0, <1>1 DEF ServiceTypes
<1>6. ServiceTypeOK'
  BY <1>0, <1>1, <1>2, <1>4 DEF ServiceTypeOK
<1>7. NotesAreOld'
  <2> SUFFICES ASSUME NEW u \in ObsThread
               PROVE  ms_thread[u].note <= ms_notes + 1 /\ (ms_thread[u].at \notin {"loop", "notify"} => ms_thread[u].note = 0)
    BY <1>1 DEF NotesAreOld
  <2>1. ms_thread[u].note \in Nat
    BY <1>0, ObsTypes
  <2>2. QED
    BY <2>1, <1>0 DEF NotesAreOld
<1>8. NewcomersOnly'
  BY <1>0, <1>1, <1>2 DEF NewcomersOnly
<1>9. NothingMissed'
  <2> SUFFICES ASSUME NEW u \in ObsThread, NEW o \in SetOf(u).members, NEW n \in SetOf(u).since[o] + 1 .. ms_notes + 1
               PROVE  \/ <<u, o, n>> \in ms_delivered
                      \/ \E i \in 1 .. Len(ms_queue'[u]) : ms_queue'[u][i] = n
                      \/ ms_thread[u].note = n /\ o \in ms_thread[u].copy
                      \/ ms_thread[u].at \in {"ending", "ended"}
    BY <1>1, <1>2 DEF NothingMissed
  <2>1. CASE n = ms_notes + 1
    <3>1. SetOf(u).at # NoAddress
      BY <1>0 DEF ServiceTypeOK
    <3>2. QED
      BY <2>1, <3>1, <1>4
  <2>2. CASE n # ms_notes + 1
    <3>1. n \in SetOf(u).since[o] + 1 .. ms_notes
      <4>1. SetOf(u).since[o] \in Nat
        BY <1>0, ObsTypes
      <4>2. QED
        BY <2>2, <4>1, <1>0
    <3>2. QED
      BY <3>1, <1>4, OneMissesNothing
  <2>3. QED
    BY <2>1, <2>2
<1>10. QED
  BY <1>5, <1>6, <1>7, <1>8, <1>9 DEF ServiceInv

LEMMA HandleKeeps ==
  ASSUME ServiceInv, NEW t \in ObsThread, HandleThreadMessage(t)
  PROVE  ServiceInv'
<1> DEFINE n0 == Head(ms_queue[t])
           loop == [at |-> "loop", note |-> n0, us |-> ms_collection.at, set |-> SetOf(t).at,
                    copy |-> SetOf(t).members, now |-> {}]
           next == IF SetOf(t).at = NoAddress THEN IdleThread ELSE loop
<1>1. /\ ms_thread[t].at = "idle" /\ ms_queue[t] # <<>>
      /\ ms_queue' = [ms_queue EXCEPT ![t] = Tail(@)]
      /\ ms_thread' = [ms_thread EXCEPT ![t] = next]
      /\ ms_collection' = ms_collection /\ ms_notes' = ms_notes /\ ms_delivered' = ms_delivered
  BY DEF HandleThreadMessage
<1>2. /\ ms_queue[t] \in Seq(Nat) /\ ms_queue \in [ObsThread -> Seq(Nat)] /\ ms_notes \in Nat /\ ServiceTypes
      /\ \A i \in 1 .. Len(ms_queue[t]) : ms_queue[t][i] \in 1 .. ms_notes
      /\ ms_thread[t].note = 0
      /\ SetOf(t).at = NoAddress <=> SetOf(t).members = {}
  BY <1>1, OneThread
<1>3. /\ Tail(ms_queue[t]) \in Seq(Nat) /\ Len(Tail(ms_queue[t])) = Len(ms_queue[t]) - 1
      /\ Len(ms_queue[t]) \in Nat /\ Len(ms_queue[t]) >= 1 /\ n0 = ms_queue[t][1]
      /\ \A i \in 1 .. Len(ms_queue[t]) - 1 : Tail(ms_queue[t])[i] = ms_queue[t][i + 1]
  BY <1>1, <1>2
<1>4. n0 \in 1 .. ms_notes
  <2>1. 1 \in 1 .. Len(ms_queue[t])
    BY <1>3
  <2>2. QED
    BY <2>1, <1>2, <1>3
<1> HIDE DEF n0
<1>5. loop \in ObsState /\ IdleThread \in ObsState
  <2>1. IdleThread \in ObsState
    BY DEF IdleThread, ObsState, ObsAddress
  <2>2. n0 \in Nat /\ SetOf(t).at \in ObsAddress /\ ms_collection.at \in ObsAddress /\ SetOf(t).members \subseteq Observer
    BY <1>2, <1>4, ObsTypes
  <2>3. loop \in ObsState
    BY <2>2 DEF ObsState
  <2>4. QED
    BY <2>1, <2>3
<1>6. /\ ms_queue' \in [ObsThread -> Seq(Nat)] /\ ms_queue'[t] = Tail(ms_queue[t])
      /\ \A u \in ObsThread \ {t} : ms_queue'[u] = ms_queue[u]
  BY <1>1, <1>2, <1>3
<1>7. \A i \in 1 .. Len(ms_queue'[t]) : ms_queue'[t][i] \in 1 .. ms_notes
  <2> TAKE i \in 1 .. Len(ms_queue'[t])
  <2>1. i \in 1 .. Len(ms_queue[t]) - 1 /\ i + 1 \in 1 .. Len(ms_queue[t])
    BY <1>3, <1>6
  <2>2. QED
    BY <2>1, <1>2, <1>3, <1>6
<1>8. /\ next \in ObsState /\ next.note <= ms_notes
      /\ next.at \notin {"loop", "notify"} => next.note = 0
      /\ ~(ms_collection.at = next.us /\ SetOf(t).at = next.set) => SetOf(t).members = {}
      /\ SetOf(t).members # {} => next.note = n0 /\ next.copy = SetOf(t).members
  <2>1. CASE SetOf(t).at = NoAddress
    BY <2>1, <1>2, <1>5 DEF IdleThread
  <2>2. CASE SetOf(t).at # NoAddress
    <3>1. n0 <= ms_notes
      BY <1>4
    <3>2. QED
      BY <2>2, <3>1, <1>5
  <2>3. QED
    BY <2>1, <2>2
<1>9. ASSUME NEW o \in SetOf(t).members, NEW n \in SetOf(t).since[o] + 1 .. ms_notes
      PROVE  \/ <<t, o, n>> \in ms_delivered'
             \/ \E i \in 1 .. Len(ms_queue'[t]) : ms_queue'[t][i] = n
             \/ next.note = n /\ o \in next.copy
             \/ next.at \in {"ending", "ended"}
  <2>1. n # 0
    BY <1>2, NoteIsLater
  <2>2. \/ <<t, o, n>> \in ms_delivered
        \/ \E i \in 1 .. Len(ms_queue[t]) : ms_queue[t][i] = n
    BY <2>1, <1>1, <1>2, OneMissesNothing
  <2>3. CASE n = n0
    BY <2>3, <1>8
  <2>4. CASE n # n0 /\ \E i \in 1 .. Len(ms_queue[t]) : ms_queue[t][i] = n
    <3>1. PICK i \in 1 .. Len(ms_queue[t]) : ms_queue[t][i] = n
      BY <2>4
    <3>2. i # 1
      BY <2>4, <3>1, <1>3
    <3>3. i - 1 \in 1 .. Len(ms_queue[t]) - 1 /\ (i - 1) + 1 = i
      BY <3>2, <1>3
    <3>4. Tail(ms_queue[t])[i - 1] = ms_queue[t][i]
      BY <3>3, <1>3
    <3>5. QED
      BY <3>1, <3>3, <3>4, <1>3, <1>6
  <2>5. QED
    BY <2>2, <2>3, <2>4, <1>1
<1> HIDE DEF next
<1>10. \A o \in SetOf(t).members : \A n \in SetOf(t).since[o] + 1 .. ms_notes :
           \/ <<t, o, n>> \in ms_delivered'
           \/ \E i \in 1 .. Len(ms_queue'[t]) : ms_queue'[t][i] = n
           \/ next.note = n /\ o \in next.copy
           \/ next.at \in {"ending", "ended"}
  BY <1>9
<1>11. QED
  BY <1>1, <1>6, <1>7, <1>8, <1>10, ThreadMoves

(* A thread that keeps its place in the dispatch, but for the observers it *)
(* has dealt with.                                                         *)
LEMMA DispatchMoves ==
  ASSUME ServiceInv, ms_collection' = ms_collection, ms_notes' = ms_notes, ms_queue' = ms_queue,
         NEW t \in ObsThread, NEW new \in ObsState,
         ms_thread' = [ms_thread EXCEPT ![t] = new],
         ms_thread[t].at \in {"loop", "notify"}, new.at \in {"loop", "notify"},
         new.note = ms_thread[t].note, new.us = ms_thread[t].us, new.set = ms_thread[t].set,
         ms_delivered \subseteq ms_delivered',
         \A o \in SetOf(t).members : o \in ms_thread[t].copy => o \in new.copy \/ <<t, o, new.note>> \in ms_delivered'
  PROVE  ServiceInv'
<1>1. /\ ms_thread[t].note <= ms_notes
      /\ ~SameSet(t) => \A o \in SetOf(t).members : ms_thread[t].note <= SetOf(t).since[o]
      /\ \A i \in 1 .. Len(ms_queue[t]) : ms_queue[t][i] \in 1 .. ms_notes
      /\ ms_queue \in [ObsThread -> Seq(Nat)]
  BY OneThread
<1>2. ~(ms_collection.at = new.us /\ SetOf(t).at = new.set) =>
           \A o \in SetOf(t).members : new.note <= SetOf(t).since[o]
  BY <1>1 DEF SameSet
<1>3. \A o \in SetOf(t).members : \A n \in SetOf(t).since[o] + 1 .. ms_notes :
           \/ <<t, o, n>> \in ms_delivered'
           \/ \E i \in 1 .. Len(ms_queue'[t]) : ms_queue'[t][i] = n
           \/ new.note = n /\ o \in new.copy
           \/ new.at \in {"ending", "ended"}
  BY OneMissesNothing
<1>4. QED
  BY <1>1, <1>2, <1>3, ThreadMoves

(* A thread that is done with its dispatch, or was in none. *)
LEMMA DispatchEnds ==
  ASSUME ServiceInv, ms_collection' = ms_collection, ms_notes' = ms_notes, ms_delivered' = ms_delivered,
         NEW t \in ObsThread, NEW new \in ObsState,
         ms_thread' = [ms_thread EXCEPT ![t] = new],
         new.note = 0,
         \/ new.at = "ending" /\ ms_queue' = [ms_queue EXCEPT ![t] = <<>>]
         \/ /\ new.at = "idle" /\ ms_queue' = ms_queue
            /\ ms_thread[t].at = "loop"
            /\ ms_thread[t].copy = {} \/ ~SameSet(t)
  PROVE  ServiceInv'
<1>1. /\ \A i \in 1 .. Len(ms_queue[t]) : ms_queue[t][i] \in 1 .. ms_notes
      /\ ~SameSet(t) => \A o \in SetOf(t).members : ms_thread[t].note <= SetOf(t).since[o]
      /\ ms_queue \in [ObsThread -> Seq(Nat)] /\ ms_notes \in Nat /\ ServiceTypes
  BY OneThread
<1>2. /\ ms_queue' \in [ObsThread -> Seq(Nat)] /\ \A u \in ObsThread \ {t} : ms_queue'[u] = ms_queue[u]
      /\ \A i \in 1 .. Len(ms_queue'[t]) : ms_queue'[t][i] \in 1 .. ms_notes
  <2>1. CASE ms_queue' = [ms_queue EXCEPT ![t] = <<>>]
    <3>1. ms_queue'[t] = <<>> /\ <<>> \in Seq(Nat) /\ Len(<<>>) = 0
      BY <1>1, <2>1
    <3>2. ms_queue' \in [ObsThread -> Seq(Nat)] /\ \A u \in ObsThread \ {t} : ms_queue'[u] = ms_queue[u]
      BY <1>1, <2>1, <3>1
    <3>3. 1 .. Len(ms_queue'[t]) = {}
      BY <3>1
    <3>4. QED
      BY <3>2, <3>3
  <2>2. CASE ms_queue' = ms_queue
    BY <1>1, <2>2
  <2>3. QED
    BY <2>1, <2>2
<1>3. new.note <= ms_notes /\ \A o \in SetOf(t).members : new.note <= SetOf(t).since[o]
  <2>1. \A o \in SetOf(t).members : SetOf(t).since[o] \in Nat
    BY <1>1, ObsTypes
  <2>2. QED
    BY <2>1, <1>1
<1>4. ASSUME NEW o \in SetOf(t).members, NEW n \in SetOf(t).since[o] + 1 .. ms_notes
      PROVE  \/ <<t, o, n>> \in ms_delivered'
             \/ \E i \in 1 .. Len(ms_queue'[t]) : ms_queue'[t][i] = n
             \/ new.note = n /\ o \in new.copy
             \/ new.at \in {"ending", "ended"}
  <2>1. CASE new.at = "ending"
    BY <2>1
  <2>2. CASE new.at # "ending"
    <3>1. \/ <<t, o, n>> \in ms_delivered
          \/ \E i \in 1 .. Len(ms_queue[t]) : ms_queue[t][i] = n
          \/ ms_thread[t].note = n /\ o \in ms_thread[t].copy
      BY <2>2, OneMissesNothing
    <3>2. ~(ms_thread[t].note = n /\ o \in ms_thread[t].copy)
      <4> SUFFICES ASSUME ms_thread[t].note = n, o \in ms_thread[t].copy PROVE FALSE
        OBVIOUS
      <4>1. ms_thread[t].note <= SetOf(t).since[o]
        BY <2>2, <1>1
      <4>2. n > SetOf(t).since[o] /\ n \in Nat /\ SetOf(t).since[o] \in Nat
        BY <1>1, NoteIsLater
      <4>3. QED
        BY <4>1, <4>2
    <3>3. QED
      BY <2>2, <3>1, <3>2
  <2>3. QED
    BY <2>1, <2>2
<1>5. \A o \in SetOf(t).members : \A n \in SetOf(t).since[o] + 1 .. ms_notes :
           \/ <<t, o, n>> \in ms_delivered'
           \/ \E i \in 1 .. Len(ms_queue'[t]) : ms_queue'[t][i] = n
           \/ new.note = n /\ o \in new.copy
           \/ new.at \in {"ending", "ended"}
  BY <1>4
<1>6. QED
  BY <1>2, <1>3, <1>5, ThreadMoves

LEMMA NextObserverKeeps ==
  ASSUME ServiceInv, NEW t \in ObsThread, NEW o \in Observer, NextObserver(t, o)
  PROVE  ServiceInv' /\ NotifiedIsRegistered
<1>0. /\ ms_thread[t] \in ObsState /\ ms_thread \in [ObsThread -> ObsState] /\ ms_thread[t].at = "loop"
      /\ ms_thread[t].copy \subseteq Observer
      /\ ms_collection' = ms_collection /\ ms_notes' = ms_notes /\ ms_queue' = ms_queue
  BY OneThread, ObsTypes DEF NextObserver
<1>1. CASE o \notin SetOf(t).members /\ ms_thread' = [ms_thread EXCEPT ![t].copy = @ \ {o}] /\ ms_delivered' = ms_delivered
  <2> DEFINE new == [ms_thread[t] EXCEPT !.copy = @ \ {o}]
  <2>1. /\ new \in ObsState /\ new.at = "loop" /\ new.copy = ms_thread[t].copy \ {o}
        /\ new.note = ms_thread[t].note /\ new.us = ms_thread[t].us /\ new.set = ms_thread[t].set
    BY <1>0 DEF ObsState
  <2>2. ms_thread' = [ms_thread EXCEPT ![t] = new]
    BY <1>1, <1>0
  <2> HIDE DEF new
  <2>3. ServiceInv'
    BY <1>0, <1>1, <2>1, <2>2, DispatchMoves
  <2>4. NotifiedIsRegistered
    BY <1>0, <2>1, <2>2 DEF NotifiedIsRegistered
  <2>5. QED
    BY <2>3, <2>4
<1>2. CASE /\ o \in SetOf(t).members
           /\ ms_thread' = [ms_thread EXCEPT ![t].copy = @ \ {o}, ![t].at = "notify", ![t].now = {o}]
           /\ ms_delivered' = ms_delivered \cup {<<t, o, ms_thread[t].note>>}
  <2> DEFINE new == [ms_thread[t] EXCEPT !.copy = @ \ {o}, !.at = "notify", !.now = {o}]
  <2>1. /\ new \in ObsState /\ new.at = "notify" /\ new.copy = ms_thread[t].copy \ {o} /\ new.now = {o}
        /\ new.note = ms_thread[t].note /\ new.us = ms_thread[t].us /\ new.set = ms_thread[t].set
    BY <1>0 DEF ObsState
  <2>2. ms_thread' = [ms_thread EXCEPT ![t] = new]
    BY <1>2, <1>0
  <2> HIDE DEF new
  <2>3. ServiceInv'
    BY <1>0, <1>2, <2>1, <2>2, DispatchMoves
  <2>4. NotifiedIsRegistered
    BY <1>0, <1>2, <2>1, <2>2 DEF NotifiedIsRegistered
  <2>5. QED
    BY <2>3, <2>4
<1>3. QED
  BY <1>1, <1>2 DEF NextObserver

LEMMA ReturnsKeeps ==
  ASSUME ServiceInv, NEW t \in ObsThread, OnNotifyReturns(t)
  PROVE  ServiceInv'
<1> DEFINE new == [ms_thread[t] EXCEPT !.at = "loop", !.now = {}]
<1>0. /\ ms_thread[t] \in ObsState /\ ms_thread \in [ObsThread -> ObsState] /\ ms_thread[t].at = "notify"
      /\ ms_collection' = ms_collection /\ ms_notes' = ms_notes /\ ms_queue' = ms_queue
      /\ ms_delivered' = ms_delivered
  BY OneThread, ObsTypes DEF OnNotifyReturns
<1>1. /\ new \in ObsState /\ new.at = "loop" /\ new.copy = ms_thread[t].copy
      /\ new.note = ms_thread[t].note /\ new.us = ms_thread[t].us /\ new.set = ms_thread[t].set
  BY <1>0 DEF ObsState
<1>2. ms_thread' = [ms_thread EXCEPT ![t] = new]
  BY <1>0 DEF OnNotifyReturns
<1> HIDE DEF new
<1>3. QED
  BY <1>0, <1>1, <1>2, DispatchMoves

LEMMA EndsKeep ==
  ASSUME ServiceInv, NEW t \in ObsThread, EndLoop(t) \/ EndObsThread(t)
  PROVE  ServiceInv'
<1>1. CASE EndLoop(t)
  <2>1. IdleThread \in ObsState /\ IdleThread.note = 0 /\ IdleThread.at = "idle"
    BY DEF IdleThread, ObsState, ObsAddress
  <2>2. QED
    BY <1>1, <2>1, DispatchEnds DEF EndLoop
<1>2. CASE EndObsThread(t)
  <2> DEFINE new == [ms_thread[t] EXCEPT !.at = "ending"]
  <2>0. ms_thread[t] \in ObsState /\ ms_thread \in [ObsThread -> ObsState] /\ ms_thread[t].note = 0
    BY <1>2, OneThread, ObsTypes DEF EndObsThread
  <2>1. new \in ObsState /\ new.note = 0 /\ new.at = "ending"
    BY <2>0 DEF ObsState
  <2>2. ms_thread' = [ms_thread EXCEPT ![t] = new]
    BY <1>2, <2>0 DEF EndObsThread
  <2> HIDE DEF new
  <2>3. QED
    BY <1>2, <2>1, <2>2, DispatchEnds DEF EndObsThread
<1>3. QED
  BY <1>1, <1>2

(* Only a round of the loop begins an OnNotify. *)
LEMMA OthersNotifyNobody ==
  ASSUME ServiceInv, NEW t \in ObsThread,
         \/ Post \/ HandleThreadMessage(t) \/ OnNotifyReturns(t) \/ EndLoop(t)
         \/ EndObsThread(t) \/ ThreadEndHook(t)
         \/ \E o \in Observer : AddObserver(t, o) \/ RemoveObserver(t, o)
  PROVE  NotifiedIsRegistered
<1> SUFFICES ASSUME NEW u \in ObsThread, ms_thread[u].at = "loop", ms_thread'[u].at = "notify" PROVE FALSE
  BY DEF NotifiedIsRegistered
<1>0. ms_thread \in [ObsThread -> ObsState] /\ ms_thread[t] \in ObsState
  BY OneThread, ObsTypes
<1>1. ms_thread'[u] # ms_thread[u]
  OBVIOUS
<1>2. CASE Post \/ \E o \in Observer : AddObserver(t, o) \/ RemoveObserver(t, o)
  BY <1>1, <1>2 DEF Post, AddObserver, RemoveObserver
<1>3. CASE HandleThreadMessage(t)
  BY <1>0, <1>3 DEF HandleThreadMessage
<1>4. CASE OnNotifyReturns(t)
  BY <1>0, <1>4 DEF OnNotifyReturns
<1>5. CASE EndLoop(t)
  BY <1>0, <1>5 DEF EndLoop, IdleThread
<1>6. CASE EndObsThread(t)
  BY <1>0, <1>6 DEF EndObsThread
<1>7. CASE ThreadEndHook(t)
  BY <1>0, <1>7 DEF ThreadEndHook
<1>8. QED
  BY <1>2, <1>3, <1>4, <1>5, <1>6, <1>7

LEMMA PostNotifiesNobody == ASSUME Post PROVE NotifiedIsRegistered
BY DEF Post, NotifiedIsRegistered

LEMMA ServiceInductive == ServiceInv /\ [ServiceNext]_serviceVars => ServiceInv' /\ NotifiedIsRegistered
<1> SUFFICES ASSUME ServiceInv, [ServiceNext]_serviceVars PROVE ServiceInv' /\ NotifiedIsRegistered
  OBVIOUS
<1>1. CASE HandleIpcMessage
  BY <1>1, PostKeeps, PostNotifiesNobody DEF HandleIpcMessage
<1>2. ASSUME NEW t \in ObsThread,
             \/ NotifyObservers(t) \/ HandleThreadMessage(t) \/ OnNotifyReturns(t) \/ EndLoop(t)
             \/ EndObsThread(t) \/ ThreadEndHook(t)
             \/ \E o \in Observer : AddObserver(t, o) \/ RemoveObserver(t, o)
      PROVE  ServiceInv' /\ NotifiedIsRegistered
  <2>1. \/ Post \/ HandleThreadMessage(t) \/ OnNotifyReturns(t) \/ EndLoop(t)
        \/ EndObsThread(t) \/ ThreadEndHook(t)
        \/ \E o \in Observer : AddObserver(t, o) \/ RemoveObserver(t, o)
    BY <1>2 DEF NotifyObservers
  <2>2. NotifiedIsRegistered
    BY <2>1, OthersNotifyNobody
  <2>3. ServiceInv'
    BY <2>1, PostKeeps, HandleKeeps, ReturnsKeeps, EndsKeep, EndHookKeeps, AddKeeps, RemoveKeeps
  <2>4. QED
    BY <2>2, <2>3
<1>3. ASSUME NEW t \in ObsThread, NEW o \in Observer, NextObserver(t, o)
      PROVE  ServiceInv' /\ NotifiedIsRegistered
  BY <1>3, NextObserverKeeps
<1>4. CASE UNCHANGED serviceVars
  <2>1. /\ ms_collection' = ms_collection /\ ms_queue' = ms_queue /\ ms_thread' = ms_thread
        /\ ms_notes' = ms_notes /\ ms_delivered' = ms_delivered
    BY <1>4 DEF serviceVars
  <2>2. ServiceTypes' /\ NotesAreOld'
    BY <2>1 DEF ServiceInv, ServiceTypes, NotesAreOld
  <2>3. \A t \in ObsThread : SetOf(t)' = SetOf(t) /\ SameSet(t)' = SameSet(t)
    BY <2>1 DEF SetOf, SameSet
  <2>4. ServiceTypeOK' /\ NewcomersOnly'
    BY <2>1, <2>3 DEF ServiceInv, ServiceTypeOK, NewcomersOnly
  <2>5. NothingMissed'
    BY <2>1, <2>3 DEF ServiceInv, NothingMissed
  <2>6. NotifiedIsRegistered
    BY <2>1 DEF NotifiedIsRegistered
  <2>7. QED
    BY <2>2, <2>4, <2>5, <2>6 DEF ServiceInv
<1>5. QED
  BY <1>1, <1>2, <1>3, <1>4 DEF ServiceNext

(* For any number of threads, observers and addresses: an observer that    *)
(* stays registered is told of every notification posted since, and only   *)
(* registered observers are called (message_service.cc), although          *)
(* observers come and go and addresses are used again during a dispatch.   *)
THEOREM ObserversAreAlwaysTold == ServiceSpec => ObserversAreTold
<1>1. ServiceInit => ServiceInv
  BY ServiceInit0
<1>2. ServiceInv /\ [ServiceNext]_serviceVars => ServiceInv'
  BY ServiceInductive
<1>3. ServiceInv /\ [ServiceNext]_serviceVars =>
        [ServiceTypeOK' /\ NothingMissed' /\ NotifiedIsRegistered]_serviceVars
  <2> SUFFICES ASSUME ServiceInv, [ServiceNext]_serviceVars
               PROVE  ServiceTypeOK' /\ NothingMissed' /\ NotifiedIsRegistered
    OBVIOUS
  <2>1. ServiceInv' /\ NotifiedIsRegistered
    BY ServiceInductive
  <2>2. QED
    BY <2>1 DEF ServiceInv
<1>4. QED
  BY <1>1, <1>2, <1>3, PTL DEF ServiceSpec, ObserversAreTold
-----------------------------------------------------------------------------
(* The lock-free list and the lazy singleton (AtomicList).                 *)

ANode == [value : Nat, next : Nat]
AState == [at : {"rest", "walk", "claim", "new", "push", "again", "dismiss"}, value : Nat, node : Nat, read : Nat]

ListTypes ==
  /\ al_nodes \in Seq(ANode)
  /\ al_head \in 0 .. Len(al_nodes)
  /\ al_thread \in [AThread -> AState]
  /\ \A n \in 1 .. Len(al_nodes) : al_nodes[n].next \in 0 .. Len(al_nodes)

(* A node that a thread has made and not yet pushed is its own: nothing    *)
(* points to it.                                                           *)
Owning(th) == th.at \in {"push", "again"}

OwnNode(th) ==
  /\ th.node \in 1 .. Len(al_nodes)
  /\ th.node # al_head
  /\ \A n \in 1 .. Len(al_nodes) : al_nodes[n].next # th.node
  /\ th.value # Default => al_nodes[th.node].value = th.value
  /\ th.at = "push" => al_nodes[th.node].next = th.read

(* A thread that walks is in the list; one that dismisses has a node. *)
ThreadHolds(th) ==
  /\ Owning(th) => OwnNode(th)
  /\ th.at \in {"walk", "claim"} => th.node = Nil \/ th.node \in Reachable
  /\ th.at = "claim" => th.node # Nil
  /\ th.at = "dismiss" => th.node \in 1 .. Len(al_nodes)

ThreadsHold == \A t \in AThread : ThreadHolds(al_thread[t])

OwnNodesDiffer ==
  \A t, u \in AThread :
    t # u /\ Owning(al_thread[t]) /\ Owning(al_thread[u]) => al_thread[t].node # al_thread[u].node

PutHolds(p) ==
  /\ p[1] # Default
  /\ p[2] \in 1 .. Len(al_nodes)
  /\ p[2] \in Reachable
  /\ al_nodes[p[2]].value = p[1]

PutsHold == \A p \in al_put : PutHolds(p)

ListInv == ListTypes /\ ThreadsHold /\ OwnNodesDiffer /\ PutsHold

(* A step that leaves the next of every node alone but for those nothing   *)
(* points to, and that at most puts a node before the head, loses nothing  *)
(* of the list.                                                            *)
LEMMA ListGrows ==
  ASSUME ListTypes, al_nodes' \in Seq(ANode), Len(al_nodes) <= Len(al_nodes'),
         NEW Own \in SUBSET Nat, al_head \notin Own,
         \A n \in 1 .. Len(al_nodes) : al_nodes[n].next \notin Own,
         \A n \in 1 .. Len(al_nodes) : n \notin Own => al_nodes'[n].next = al_nodes[n].next,
         \/ al_head' = al_head
         \/ al_head' \in 1 .. Len(al_nodes') /\ al_nodes'[al_head'].next = al_head
  PROVE  \A n \in Reachable : n \in Reachable'
<1>0. Len(al_nodes) \in Nat /\ Len(al_nodes') \in Nat
  BY DEF ListTypes
<1> SUFFICES ASSUME NEW n \in Reachable PROVE n \in Reachable'
  OBVIOUS
<1> SUFFICES ASSUME NEW S \in SUBSET (0 .. Len(al_nodes')), al_head' \in S,
                    \A k \in S \ {0} : al_nodes'[k].next \in S
             PROVE  n \in S
  <2>1. n \in 0 .. Len(al_nodes')
    BY <1>0 DEF Reachable
  <2>2. QED
    BY <2>1 DEF Reachable, ClosedUnderNext, Nil
<1>1. Len(al_nodes) \in Nat /\ Len(al_nodes') \in Nat
  BY DEF ListTypes
<1>2. al_head \in S
  <2>1. CASE al_head' = al_head
    BY <2>1
  <2>2. CASE al_head' \in 1 .. Len(al_nodes') /\ al_nodes'[al_head'].next = al_head
    <3>1. al_head' # 0
      BY <2>2
    <3>2. QED
      BY <2>2, <3>1
  <2>3. QED
    BY <2>1, <2>2
<1> DEFINE T == {k \in S : k \in 0 .. Len(al_nodes) /\ k \notin Own}
<1>3. T \in SUBSET (0 .. Len(al_nodes)) /\ al_head \in T
  BY <1>2 DEF ListTypes
<1>4. ASSUME NEW k \in T \ {0} PROVE al_nodes[k].next \in T
  <2>1. k \in 1 .. Len(al_nodes) /\ k \notin Own /\ k \in S \ {0}
    BY <1>1
  <2>2. al_nodes[k].next \in S
    BY <2>1
  <2>3. al_nodes[k].next \in 0 .. Len(al_nodes)
    BY <2>1 DEF ListTypes
  <2>4. QED
    BY <2>1, <2>2, <2>3
<1>5. n \in T
  BY <1>3, <1>4 DEF Reachable, ClosedUnderNext, Nil
<1>6. QED
  BY <1>5

(* The next of a node in the list is in the list. *)
LEMMA NextIsReachable ==
  ASSUME ListTypes, NEW n \in Reachable, n # Nil
  PROVE  al_nodes[n].next \in Reachable /\ n \in 1 .. Len(al_nodes)
<1>1. n \in 1 .. Len(al_nodes)
  BY DEF Reachable, Nil, ListTypes
<1>2. al_nodes[n].next \in 0 .. Len(al_nodes)
  BY <1>1 DEF ListTypes
<1>3. ASSUME NEW S \in SUBSET (0 .. Len(al_nodes)), al_head \in S, ClosedUnderNext(S)
      PROVE  al_nodes[n].next \in S
  <2>1. n \in S
    BY <1>3 DEF Reachable
  <2>2. QED
    BY <1>3, <2>1 DEF ClosedUnderNext
<1>4. QED
  BY <1>1, <1>2, <1>3 DEF Reachable

LEMMA HeadIsReachable == ListTypes => al_head \in Reachable
  BY DEF ListTypes, Reachable

LEMMA ReachableUnchanged ==
  ASSUME al_nodes' = al_nodes, al_head' = al_head
  PROVE  Reachable' = Reachable
  BY DEF Reachable, ClosedUnderNext

(* What a thread that has a node of its own keeps through others' steps. *)
LEMMA OwnNodeStays ==
  ASSUME ListTypes, ListTypes', Len(al_nodes) <= Len(al_nodes'),
         NEW th \in AState, OwnNode(th), al_head' # th.node,
         \A n \in 1 .. Len(al_nodes') : al_nodes'[n].next # th.node,
         al_nodes'[th.node].next = al_nodes[th.node].next,
         \A n \in 1 .. Len(al_nodes) : al_nodes[n].value # Default => al_nodes'[n].value = al_nodes[n].value
  PROVE  OwnNode(th)'
<1>1. th.node \in 1 .. Len(al_nodes) /\ th.node \in 1 .. Len(al_nodes')
  BY DEF OwnNode, ListTypes
<1>2. th.value # Default => al_nodes'[th.node].value = th.value
  BY <1>1 DEF OwnNode
<1>3. th.at = "push" => al_nodes'[th.node].next = th.read
  BY DEF OwnNode
<1>4. QED
  BY <1>1, <1>2, <1>3 DEF OwnNode

(* The invariant from what a step of thread t does to the list. *)
LEMMA StepHolds ==
  ASSUME ListInv, ListTypes', Len(al_nodes) <= Len(al_nodes'),
         NEW t \in AThread, NEW new \in AState, al_thread' = [al_thread EXCEPT ![t] = new],
         \A n \in Reachable : n \in Reachable',
         ThreadHolds(new)',
         \A n \in 1 .. Len(al_nodes) : al_nodes[n].value # Default => al_nodes'[n].value = al_nodes[n].value,
         \A u \in AThread \ {t} : Owning(al_thread[u]) =>
           /\ Owning(new) => new.node # al_thread[u].node
           /\ al_head' # al_thread[u].node
           /\ al_nodes'[al_thread[u].node].next = al_nodes[al_thread[u].node].next
           /\ \A n \in 1 .. Len(al_nodes') : al_nodes'[n].next # al_thread[u].node,
         \A p \in al_put' : p \in al_put \/ PutHolds(p)'
  PROVE  ListInv'
<1>1. ListTypes /\ ThreadsHold /\ OwnNodesDiffer /\ PutsHold
  BY DEF ListInv
<1>2. al_thread \in [AThread -> AState] /\ al_thread'[t] = new /\ \A u \in AThread \ {t} : al_thread'[u] = al_thread[u]
  BY <1>1 DEF ListTypes
<1>3. ThreadsHold'
  <2> SUFFICES ASSUME NEW u \in AThread PROVE ThreadHolds(al_thread[u])'
    BY DEF ThreadsHold
  <2>1. CASE u = t
    BY <2>1, <1>2 DEF ThreadHolds, Owning, OwnNode
  <2>2. CASE u # t
    <3> DEFINE th == al_thread[u]
    <3>1. ThreadHolds(th) /\ th \in AState /\ al_thread'[u] = th
      BY <1>1, <1>2, <2>2 DEF ThreadsHold
    <3>2. Owning(th) => OwnNode(th)'
      <4> SUFFICES ASSUME Owning(th) PROVE OwnNode(th)'
        OBVIOUS
      <4>1. OwnNode(th)
        BY <3>1 DEF ThreadHolds
      <4>2. \A w \in AState : w = th => (OwnNode(w) => OwnNode(w)')
        <5> SUFFICES ASSUME NEW w \in AState, w = th, OwnNode(w) PROVE OwnNode(w)'
          OBVIOUS
        <5>1. /\ al_head' # w.node
              /\ al_nodes'[w.node].next = al_nodes[w.node].next
              /\ \A n \in 1 .. Len(al_nodes') : al_nodes'[n].next # w.node
          BY <2>2
        <5>2. QED
          BY <5>1, <1>1, OwnNodeStays
      <4>3. \A w : w = th => (OwnNode(w)' <=> OwnNode(al_thread[u])')
        BY <3>1 DEF OwnNode
      <4>4. QED
        BY <4>1, <4>2, <4>3, <3>1
    <3>3. th.at \in {"walk", "claim"} => th.node = Nil \/ th.node \in Reachable'
      BY <3>1 DEF ThreadHolds
    <3>4. th.at = "claim" => th.node # Nil
      BY <3>1 DEF ThreadHolds
    <3>5. th.at = "dismiss" => th.node \in 1 .. Len(al_nodes')
      BY <3>1, <1>1 DEF ThreadHolds, ListTypes
    <3>6. QED
      BY <3>1, <3>2, <3>3, <3>4, <3>5 DEF ThreadHolds, Owning
  <2>3. QED
    BY <2>1, <2>2
<1>4. OwnNodesDiffer'
  BY <1>1, <1>2 DEF OwnNodesDiffer
<1>5. PutsHold'
  <2> SUFFICES ASSUME NEW p \in al_put' PROVE PutHolds(p)'
    BY DEF PutsHold
  <2>1. CASE p \in al_put
    <3>1. PutHolds(p)
      BY <2>1, <1>1 DEF PutsHold
    <3>2. p[2] \in 1 .. Len(al_nodes')
      BY <3>1, <1>1 DEF PutHolds, ListTypes
    <3>3. QED
      BY <3>1, <3>2 DEF PutHolds
  <2>2. QED
    BY <2>1
<1>6. QED
  BY <1>3, <1>4, <1>5 DEF ListInv

(* A step of t that leaves the list alone. *)
LEMMA ListThreadMoves ==
  ASSUME ListInv, al_nodes' = al_nodes, al_head' = al_head, al_put' = al_put,
         NEW t \in AThread, NEW new \in AState, al_thread' = [al_thread EXCEPT ![t] = new],
         ThreadHolds(new),
         Owning(new) => Owning(al_thread[t]) /\ new.node = al_thread[t].node
  PROVE  ListInv'
<1>1. ListTypes /\ ThreadsHold /\ OwnNodesDiffer
  BY DEF ListInv
<1>2. ListTypes' /\ Len(al_nodes) <= Len(al_nodes')
  BY <1>1 DEF ListTypes
<1>3. Reachable' = Reachable
  BY ReachableUnchanged
<1>4. ThreadHolds(new)'
  BY <1>3 DEF ThreadHolds, OwnNode
<1>5. \A u \in AThread \ {t} : Owning(al_thread[u]) =>
        /\ Owning(new) => new.node # al_thread[u].node
        /\ al_head' # al_thread[u].node
        /\ al_nodes'[al_thread[u].node].next = al_nodes[al_thread[u].node].next
        /\ \A n \in 1 .. Len(al_nodes') : al_nodes'[n].next # al_thread[u].node
  BY <1>1 DEF OwnNodesDiffer, ThreadsHold, ThreadHolds, OwnNode
<1>6. QED
  BY <1>2, <1>3, <1>4, <1>5, StepHolds

(* The value of a free node is set. *)
LEMMA ValueIsSet ==
  ASSUME ListInv, al_head' = al_head,
         NEW t \in AThread, al_thread' = [al_thread EXCEPT ![t] = Resting],
         NEW m \in 1 .. Len(al_nodes), NEW v \in Nat,
         al_nodes' = [al_nodes EXCEPT ![m].value = v],
         al_nodes[m].value # Default => v = al_nodes[m].value,
         \A p \in al_put' : p \in al_put \/ (p[1] # Default /\ p[2] = m /\ m \in Reachable /\ p[1] = v)
  PROVE  ListInv'
<1>1. ListTypes /\ ThreadsHold /\ OwnNodesDiffer
  BY DEF ListInv
<1>2. /\ al_nodes \in Seq(ANode) /\ al_head \in 0 .. Len(al_nodes) /\ al_thread \in [AThread -> AState]
      /\ \A n \in 1 .. Len(al_nodes) : al_nodes[n].next \in 0 .. Len(al_nodes) /\ al_nodes[n] \in ANode
  BY <1>1 DEF ListTypes
<1>3. /\ al_nodes' \in Seq(ANode) /\ Len(al_nodes') = Len(al_nodes)
      /\ \A n \in 1 .. Len(al_nodes) : al_nodes'[n].next = al_nodes[n].next
      /\ \A n \in 1 .. Len(al_nodes) : al_nodes'[n].value = IF n = m THEN v ELSE al_nodes[n].value
  <2>1. [al_nodes[m] EXCEPT !.value = v] \in ANode
    BY <1>2 DEF ANode
  <2>2. al_nodes' = [al_nodes EXCEPT ![m] = [al_nodes[m] EXCEPT !.value = v]]
    OBVIOUS
  <2>3. al_nodes' \in Seq(ANode) /\ Len(al_nodes') = Len(al_nodes)
    BY <2>1, <2>2, <1>2, ExceptSeq
  <2>4. \A n \in 1 .. Len(al_nodes) : al_nodes'[n] = IF n = m THEN [al_nodes[m] EXCEPT !.value = v] ELSE al_nodes[n]
    BY <2>2, <1>2
  <2>5. QED
    BY <2>3, <2>4, <1>2 DEF ANode
<1>4. Resting \in AState /\ ~Owning(Resting) /\ ThreadHolds(Resting)'
  BY DEF Resting, AState, Owning, ThreadHolds, Default, Nil
<1>5. ListTypes'
  BY <1>2, <1>3, <1>4 DEF ListTypes
<1>6. \A n \in Reachable : n \in Reachable'
  <2>1. al_head \notin {} /\ {} \in SUBSET Nat /\ Len(al_nodes) <= Len(al_nodes')
    BY <1>2, <1>3
  <2>2. QED
    BY <1>1, <1>3, <2>1, ListGrows
<1>7. \A u \in AThread \ {t} : Owning(al_thread[u]) =>
        /\ Owning(Resting) => Resting.node # al_thread[u].node
        /\ al_head' # al_thread[u].node
        /\ al_nodes'[al_thread[u].node].next = al_nodes[al_thread[u].node].next
        /\ \A n \in 1 .. Len(al_nodes') : al_nodes'[n].next # al_thread[u].node
  BY <1>1, <1>3, <1>4 DEF ThreadsHold, ThreadHolds, OwnNode
<1>8. \A n \in 1 .. Len(al_nodes) : al_nodes[n].value # Default => al_nodes'[n].value = al_nodes[n].value
  BY <1>3
<1>9. \A p \in al_put' : p \in al_put \/ PutHolds(p)'
  BY <1>3, <1>6 DEF PutHolds
<1>10. Len(al_nodes) <= Len(al_nodes')
  BY <1>2, <1>3
<1>11. QED
  BY <1>4, <1>5, <1>6, <1>7, <1>8, <1>9, <1>10, StepHolds

LEMMA PutStartsHolds ==
  ASSUME ListInv, NEW t \in AThread, NEW v \in AValue, PutStarts(t, v)
  PROVE  ListInv'
<1> DEFINE new == [at |-> "walk", value |-> v, node |-> al_head, read |-> 0]
<1>1. new \in AState /\ ~Owning(new)
  BY AtomicAssumption DEF ListInv, ListTypes, AState, Owning
<1>2. al_thread' = [al_thread EXCEPT ![t] = new] /\ al_nodes' = al_nodes /\ al_head' = al_head /\ al_put' = al_put
  BY DEF PutStarts, Go
<1>3. ThreadHolds(new)
  BY <1>1, HeadIsReachable DEF ListInv, ThreadHolds
<1> HIDE DEF new
<1>4. QED
  BY <1>1, <1>2, <1>3, ListThreadMoves

LEMMA ThreadIs ==
  ASSUME ListInv, NEW t \in AThread
  PROVE  al_thread[t] \in AState /\ ThreadHolds(al_thread[t]) /\ ListTypes
  BY DEF ListInv, ListTypes, ThreadsHold

LEMMA PutWalksHolds ==
  ASSUME ListInv, NEW t \in AThread, PutWalks(t)
  PROVE  ListInv'
<1>0. al_thread[t] \in AState /\ ThreadHolds(al_thread[t]) /\ ListTypes /\ al_thread[t].at = "walk"
  BY ThreadIs DEF PutWalks, Now
<1>1. PICK new : /\ al_thread' = [al_thread EXCEPT ![t] = new]
                 /\ new.at \in {"new", "claim", "walk"}
                 /\ \/ new = [al_thread[t] EXCEPT !.at = "new"]
                    \/ /\ al_thread[t].node # Nil
                       /\ \/ new = [al_thread[t] EXCEPT !.at = "claim"]
                          \/ new = [al_thread[t] EXCEPT !.node = al_nodes[al_thread[t].node].next]
  BY <1>0 DEF PutWalks, Go, Now, AState
<1>2. al_nodes' = al_nodes /\ al_head' = al_head /\ al_put' = al_put
  BY DEF PutWalks
<1>3. CASE new = [al_thread[t] EXCEPT !.at = "new"]
  <2>1. new \in AState /\ ~Owning(new) /\ ThreadHolds(new)
    BY <1>0, <1>3 DEF AState, Owning, ThreadHolds
  <2>2. QED
    BY <2>1, <1>1, <1>2, ListThreadMoves
<1>4. CASE al_thread[t].node # Nil /\ new = [al_thread[t] EXCEPT !.at = "claim"]
  <2>1. new \in AState /\ ~Owning(new) /\ ThreadHolds(new)
    BY <1>0, <1>4 DEF AState, Owning, ThreadHolds
  <2>2. QED
    BY <2>1, <1>1, <1>2, ListThreadMoves
<1>5. CASE al_thread[t].node # Nil /\ new = [al_thread[t] EXCEPT !.node = al_nodes[al_thread[t].node].next]
  <2>0. al_nodes[al_thread[t].node].next \in Reachable /\ al_nodes[al_thread[t].node].next \in Nat
    BY <1>0, <1>5, NextIsReachable DEF ThreadHolds, ListTypes
  <2>1. new \in AState /\ ~Owning(new) /\ ThreadHolds(new)
    BY <1>0, <1>5, <2>0 DEF AState, Owning, ThreadHolds
  <2>2. QED
    BY <2>1, <1>1, <1>2, ListThreadMoves
<1>6. QED
  BY <1>1, <1>3, <1>4, <1>5

LEMMA PutClaimsHolds ==
  ASSUME ListInv, NEW t \in AThread, PutClaims(t)
  PROVE  ListInv'
<1> DEFINE th == al_thread[t]
<1>0. th \in AState /\ ThreadHolds(th) /\ ListTypes /\ th.at = "claim"
  BY ThreadIs DEF PutClaims, Now
<1>1. th.node \in Reachable /\ th.node \in 1 .. Len(al_nodes) /\ al_nodes[th.node].next \in Reachable
  BY <1>0, NextIsReachable DEF ThreadHolds
<1>2. CASE al_nodes[th.node].value = Default
  <2>1. /\ al_nodes' = [al_nodes EXCEPT ![th.node].value = th.value] /\ al_head' = al_head
        /\ al_thread' = [al_thread EXCEPT ![t] = Resting]
        /\ al_put' = WithPut(t) /\ th.value \in Nat
    BY <1>0, <1>2 DEF PutClaims, Go, Now, AState
  <2>2. \A p \in al_put' : p \in al_put \/ (p[1] # Default /\ p[2] = th.node /\ th.node \in Reachable /\ p[1] = th.value)
    BY <1>1, <2>1 DEF WithPut, Now
  <2> HIDE DEF th
  <2>3. QED
    BY <1>1, <1>2, <2>1, <2>2, ValueIsSet
<1>3. CASE al_nodes[th.node].value # Default
  <2> DEFINE new == [th EXCEPT !.at = "walk", !.node = al_nodes[th.node].next]
  <2>1. /\ al_nodes' = al_nodes /\ al_head' = al_head /\ al_put' = al_put
        /\ al_thread' = [al_thread EXCEPT ![t] = new]
    BY <1>3 DEF PutClaims, Go, Now
  <2>2. al_nodes[th.node].next \in Nat
    BY <1>0, <1>1 DEF ListTypes
  <2>3. new \in AState /\ ~Owning(new) /\ ThreadHolds(new)
    BY <1>0, <1>1, <2>2 DEF AState, Owning, ThreadHolds
  <2> HIDE DEF new
  <2>4. QED
    BY <2>1, <2>3, ListThreadMoves
<1>4. QED
  BY <1>2, <1>3

LEMMA DismissReadsHolds ==
  ASSUME ListInv, NEW t \in AThread, DismissReads(t)
  PROVE  ListInv'
<1>1. PICK p \in al_put :
        al_thread' = [al_thread EXCEPT ![t] =
          [at |-> "dismiss", value |-> Default, node |-> p[2], read |-> al_nodes[p[2]].value]]
  BY DEF DismissReads, Go
<1>2. al_nodes' = al_nodes /\ al_head' = al_head /\ al_put' = al_put
  BY DEF DismissReads
<1> DEFINE new == [at |-> "dismiss", value |-> Default, node |-> p[2], read |-> al_nodes[p[2]].value]
<1>3. p[2] \in 1 .. Len(al_nodes) /\ al_nodes \in Seq(ANode)
  BY DEF ListInv, PutsHold, PutHolds, ListTypes
<1>4. al_nodes[p[2]].value \in Nat /\ p[2] \in Nat
  <2>1. al_nodes[p[2]] \in ANode
    BY <1>3, ElementOfSeq
  <2>2. QED
    BY <2>1, <1>3 DEF ANode
<1>5. new \in AState /\ ~Owning(new) /\ ThreadHolds(new)
  BY <1>3, <1>4 DEF AState, Owning, ThreadHolds, Default
<1>6. al_thread' = [al_thread EXCEPT ![t] = new]
  BY <1>1
<1> HIDE DEF new
<1>7. QED
  BY <1>2, <1>5, <1>6, ListThreadMoves

LEMMA DismissSwapsHolds ==
  ASSUME ListInv, NEW t \in AThread, DismissSwaps(t)
  PROVE  ListInv'
<1> DEFINE th == al_thread[t]
           v == IF al_nodes[th.node].value = Default THEN th.read ELSE al_nodes[th.node].value
<1>0. th \in AState /\ ThreadHolds(th) /\ ListTypes /\ th.at = "dismiss"
  BY ThreadIs DEF DismissSwaps, Now
<1>1. th.node \in 1 .. Len(al_nodes) /\ al_nodes \in Seq(ANode)
  BY <1>0 DEF ThreadHolds, ListTypes
<1>2. v \in Nat
  <2>1. al_nodes[th.node] \in ANode
    BY <1>1, ElementOfSeq
  <2>2. al_nodes[th.node].value \in Nat
    BY <2>1 DEF ANode
  <2>3. th.read \in Nat
    BY <1>0 DEF AState
  <2>4. QED
    BY <2>2, <2>3
<1>3. /\ al_nodes' = [al_nodes EXCEPT ![th.node].value = v] /\ al_head' = al_head /\ al_put' = al_put
      /\ al_thread' = [al_thread EXCEPT ![t] = Resting]
  BY DEF DismissSwaps, Go, Now
<1>4. al_nodes[th.node].value # Default => v = al_nodes[th.node].value
  OBVIOUS
<1> HIDE DEF th, v
<1>5. QED
  BY <1>1, <1>2, <1>3, <1>4, ValueIsSet

LEMMA PushSwapsHolds ==
  ASSUME ListInv, NEW t \in AThread, PushSwaps(t)
  PROVE  ListInv'
<1> DEFINE th == al_thread[t]
<1>0. th \in AState /\ ThreadHolds(th) /\ ListTypes /\ th.at = "push" /\ OwnNode(th) /\ Owning(th)
  BY ThreadIs DEF PushSwaps, Now, ThreadHolds, Owning
<1>1. CASE al_head = th.read
  <2>1. /\ al_head' = th.node /\ al_put' = WithPut(t) /\ al_nodes' = al_nodes
        /\ al_thread' = [al_thread EXCEPT ![t] = Resting]
    BY <1>1 DEF PushSwaps, Go, Now
  <2>2. th.node \in 1 .. Len(al_nodes) /\ al_nodes[th.node].next = al_head
    BY <1>0, <1>1 DEF OwnNode
  <2>3. Resting \in AState /\ ~Owning(Resting) /\ ThreadHolds(Resting)'
    BY DEF Resting, AState, Owning, ThreadHolds, Default, Nil
  <2>4. ListTypes'
    BY <1>0, <2>1, <2>2, <2>3 DEF ListTypes
  <2>5. al_nodes' \in Seq(ANode) /\ Len(al_nodes) <= Len(al_nodes') /\ {} \in SUBSET Nat
    BY <1>0, <2>1 DEF ListTypes
  <2>6. \A n \in Reachable : n \in Reachable'
    <3>1. al_head' \in 1 .. Len(al_nodes') /\ al_nodes'[al_head'].next = al_head
      BY <2>1, <2>2
    <3>2. /\ al_head \notin {} /\ \A n \in 1 .. Len(al_nodes) : al_nodes[n].next \notin {}
          /\ \A n \in 1 .. Len(al_nodes) : n \notin {} => al_nodes'[n].next = al_nodes[n].next
      BY <2>1
    <3> HIDE DEF th
    <3>3. QED
      BY <1>0, <2>5, <3>1, <3>2, ListGrows
  <2>7. \A u \in AThread \ {t} : Owning(al_thread[u]) =>
          /\ Owning(Resting) => Resting.node # al_thread[u].node
          /\ al_head' # al_thread[u].node
          /\ al_nodes'[al_thread[u].node].next = al_nodes[al_thread[u].node].next
          /\ \A n \in 1 .. Len(al_nodes') : al_nodes'[n].next # al_thread[u].node
    BY <1>0, <2>1, <2>3 DEF ListInv, ThreadsHold, ThreadHolds, OwnNode, OwnNodesDiffer
  <2>8. th.node \in Reachable'
    <3>1. al_head' \in Reachable'
      <4>1. (ListTypes => al_head \in Reachable)'
        BY HeadIsReachable, PTL
      <4>2. QED
        BY <4>1, <2>4
    <3>2. QED
      BY <3>1, <2>1
  <2>9. \A p \in al_put' : p \in al_put \/ PutHolds(p)'
    BY <1>0, <2>1, <2>2, <2>8 DEF WithPut, Now, PutHolds, OwnNode
  <2> HIDE DEF th
  <2>10. QED
    BY <2>1, <2>3, <2>4, <2>5, <2>6, <2>7, <2>9, StepHolds
<1>2. CASE al_head # th.read
  <2> DEFINE new == [th EXCEPT !.at = "again"]
  <2>1. /\ al_nodes' = al_nodes /\ al_head' = al_head /\ al_put' = al_put
        /\ al_thread' = [al_thread EXCEPT ![t] = new]
    BY <1>2 DEF PushSwaps, Go, Now
  <2>2. new \in AState /\ Owning(new) /\ new.at = "again" /\ new.node = th.node /\ new.value = th.value
    BY <1>0 DEF AState, Owning
  <2> HIDE DEF new
  <2>3. ThreadHolds(new)
    BY <1>0, <2>2 DEF ThreadHolds, OwnNode
  <2>4. QED
    BY <1>0, <2>1, <2>2, <2>3, ListThreadMoves
<1>3. QED
  BY <1>1, <1>2

Pushing(th, n, r) == [th EXCEPT !.at = "push", !.node = n, !.read = r]

LEMMA PushState ==
  ASSUME NEW th \in AState, NEW n \in Nat, NEW r \in Nat
  PROVE  /\ Pushing(th, n, r) \in AState
         /\ Pushing(th, n, r).at = "push" /\ Pushing(th, n, r).node = n
         /\ Pushing(th, n, r).read = r /\ Pushing(th, n, r).value = th.value
  BY DEF AState, Pushing

LEMMA PushReadsHolds ==
  ASSUME ListInv, NEW t \in AThread, PushReads(t)
  PROVE  ListInv'
<1> DEFINE th == al_thread[t]
<1>0. th \in AState /\ ThreadHolds(th) /\ ListTypes /\ al_head' = al_head /\ al_put' = al_put
  BY ThreadIs DEF PushReads, Now
<1>00. /\ al_nodes \in Seq(ANode) /\ Len(al_nodes) \in Nat /\ al_head \in 0 .. Len(al_nodes)
       /\ \A n \in 1 .. Len(al_nodes) : al_nodes[n] \in ANode /\ al_nodes[n].next \in 0 .. Len(al_nodes)
       /\ al_thread \in [AThread -> AState]
  BY <1>0, ElementOfSeq DEF ListTypes
<1>01. \A u \in AThread : Owning(al_thread[u]) => OwnNode(al_thread[u])
  BY DEF ListInv, ThreadsHold, ThreadHolds
<1>1. CASE th.at = "new"
  <2> DEFINE node == [value |-> th.value, next |-> al_head]
  <2>0. al_head \in Nat /\ Len(al_nodes) + 1 \in Nat /\ th.value \in Nat
    BY <1>0, <1>00 DEF AState
  <2>1. PICK new \in AState :
          /\ new = Pushing(th, Len(al_nodes) + 1, al_head)
          /\ new.at = "push" /\ new.node = Len(al_nodes) + 1 /\ new.read = al_head /\ new.value = th.value
    <3> DEFINE w == Pushing(th, Len(al_nodes) + 1, al_head)
    <3>1. /\ w \in AState
          /\ w.at = "push" /\ w.node = Len(al_nodes) + 1 /\ w.read = al_head /\ w.value = th.value
      <4>1. th \in AState
        BY <1>0
      <4> HIDE DEF th
      <4>2. w \in AState
        BY <4>1, <2>0, PushState
      <4>3. w.at = "push"
        BY <4>1, <2>0, PushState
      <4>4. w.node = Len(al_nodes) + 1
        BY <4>1, <2>0, PushState
      <4>5. w.read = al_head
        BY <4>1, <2>0, PushState
      <4>6. w.value = th.value
        BY <4>1, <2>0, PushState
      <4>7. QED
        BY <4>2, <4>3, <4>4, <4>5, <4>6
    <3> HIDE DEF w
    <3>2. QED
      BY <3>1 DEF w
  <2>2. /\ al_nodes' = Append(al_nodes, node) /\ al_thread' = [al_thread EXCEPT ![t] = new]
        /\ node \in ANode /\ node.value = th.value /\ node.next = al_head /\ Owning(new)
    <3>1. al_nodes' = Append(al_nodes, node) /\ al_thread' = [al_thread EXCEPT ![t] = Pushing(th, Len(al_nodes) + 1, al_head)]
      BY <1>1 DEF PushReads, Go, Now, Pushing
    <3>2. node \in ANode /\ node.value = th.value /\ node.next = al_head
      BY <2>0 DEF ANode
    <3>3. Owning(new)
      BY <2>1 DEF Owning
    <3>4. QED
      BY <2>1, <3>1, <3>2, <3>3
  <2> HIDE DEF node
  <2>3. /\ al_nodes' \in Seq(ANode) /\ Len(al_nodes') = Len(al_nodes) + 1
        /\ \A n \in 1 .. Len(al_nodes) : al_nodes'[n] = al_nodes[n]
        /\ al_nodes'[Len(al_nodes) + 1] = node
    BY <1>00, <2>1, <2>2, AppendProperties
  <2>4. ListTypes'
    <3>1. al_head' \in 0 .. Len(al_nodes') /\ al_thread' \in [AThread -> AState]
      BY <1>0, <1>00, <2>1, <2>2, <2>3
    <3>2. \A n \in 1 .. Len(al_nodes') : al_nodes'[n].next \in 0 .. Len(al_nodes')
      <4> SUFFICES ASSUME NEW n \in 1 .. Len(al_nodes') PROVE al_nodes'[n].next \in 0 .. Len(al_nodes')
        OBVIOUS
      <4>1. CASE n = Len(al_nodes) + 1
        BY <4>1, <1>00, <2>1, <2>2, <2>3
      <4>2. CASE n # Len(al_nodes) + 1
        <5>1. n \in 1 .. Len(al_nodes)
          BY <4>2, <1>00, <2>3
        <5>2. al_nodes'[n].next \in 0 .. Len(al_nodes)
          BY <5>1, <1>00, <2>3
        <5>3. QED
          BY <5>2, <1>00, <2>3
      <4>3. QED
        BY <4>1, <4>2
    <3>3. QED
      BY <2>3, <3>1, <3>2 DEF ListTypes
  <2>5. \A n \in Reachable : n \in Reachable'
    <3>1. /\ al_head \notin {} /\ \A n \in 1 .. Len(al_nodes) : al_nodes[n].next \notin {}
          /\ \A n \in 1 .. Len(al_nodes) : n \notin {} => al_nodes'[n].next = al_nodes[n].next
          /\ {} \in SUBSET Nat /\ Len(al_nodes) <= Len(al_nodes')
      BY <1>00, <2>3
    <3>2. QED
      BY <1>0, <2>3, <3>1, ListGrows
  <2>6. \A n \in 1 .. Len(al_nodes') : al_nodes'[n].next \in 0 .. Len(al_nodes)
    <3> SUFFICES ASSUME NEW n \in 1 .. Len(al_nodes') PROVE al_nodes'[n].next \in 0 .. Len(al_nodes)
      OBVIOUS
    <3>1. CASE n = Len(al_nodes) + 1
      BY <3>1, <1>00, <2>1, <2>2, <2>3
    <3>2. CASE n # Len(al_nodes) + 1
      <4>1. n \in 1 .. Len(al_nodes)
        BY <3>2, <1>00, <2>3
      <4>2. QED
        BY <4>1, <1>00, <2>3
    <3>3. QED
      BY <3>1, <3>2
  <2>7. OwnNode(new)'
    <3>1. new.node \in 1 .. Len(al_nodes') /\ new.node # al_head'
      BY <1>0, <1>00, <2>1, <2>2, <2>3
    <3>2. \A n \in 1 .. Len(al_nodes') : al_nodes'[n].next # new.node
      <4> SUFFICES ASSUME NEW n \in 1 .. Len(al_nodes') PROVE al_nodes'[n].next # new.node
        OBVIOUS
      <4>1. al_nodes'[n].next \in 0 .. Len(al_nodes)
        BY <2>6
      <4>2. QED
        BY <4>1, <1>00, <2>1, <2>2
    <3>3. al_nodes'[new.node].value = new.value /\ al_nodes'[new.node].next = new.read
      BY <2>1, <2>2, <2>3
    <3>4. QED
      BY <3>1, <3>2, <3>3 DEF OwnNode
  <2>8. ThreadHolds(new)'
    BY <2>1, <2>2, <2>7 DEF ThreadHolds
  <2>9. \A u \in AThread \ {t} : Owning(al_thread[u]) =>
          /\ Owning(new) => new.node # al_thread[u].node
          /\ al_head' # al_thread[u].node
          /\ al_nodes'[al_thread[u].node].next = al_nodes[al_thread[u].node].next
          /\ \A n \in 1 .. Len(al_nodes') : al_nodes'[n].next # al_thread[u].node
    <3> SUFFICES ASSUME NEW u \in AThread \ {t}, Owning(al_thread[u])
                 PROVE  /\ new.node # al_thread[u].node
                        /\ al_head' # al_thread[u].node
                        /\ al_nodes'[al_thread[u].node].next = al_nodes[al_thread[u].node].next
                        /\ \A n \in 1 .. Len(al_nodes') : al_nodes'[n].next # al_thread[u].node
      OBVIOUS
    <3>1. /\ al_thread[u].node \in 1 .. Len(al_nodes) /\ al_thread[u].node # al_head
          /\ \A n \in 1 .. Len(al_nodes) : al_nodes[n].next # al_thread[u].node
      BY <1>01 DEF OwnNode
    <3>2. new.node # al_thread[u].node /\ al_head' # al_thread[u].node
      BY <3>1, <1>0, <1>00, <2>1, <2>2
    <3>3. al_nodes'[al_thread[u].node].next = al_nodes[al_thread[u].node].next
      BY <3>1, <2>3
    <3>4. ASSUME NEW n \in 1 .. Len(al_nodes') PROVE al_nodes'[n].next # al_thread[u].node
      <4>1. CASE n = Len(al_nodes) + 1
        BY <4>1, <3>1, <2>1, <2>2, <2>3
      <4>2. CASE n # Len(al_nodes) + 1
        <5>1. n \in 1 .. Len(al_nodes)
          BY <4>2, <1>00, <2>3
        <5>2. QED
          BY <5>1, <3>1, <2>3
      <4>3. QED
        BY <4>1, <4>2
    <3>5. QED
      BY <3>2, <3>3, <3>4
  <2>10. /\ \A n \in 1 .. Len(al_nodes) : al_nodes[n].value # Default => al_nodes'[n].value = al_nodes[n].value
         /\ \A p \in al_put' : p \in al_put \/ PutHolds(p)'
         /\ Len(al_nodes) <= Len(al_nodes')
    BY <1>0, <1>00, <2>3
  <2> HIDE DEF th
  <2>11. QED
    BY <2>1, <2>2, <2>4, <2>5, <2>8, <2>9, <2>10, StepHolds
<1>2. CASE th.at # "new"
  <2> DEFINE m == th.node
  <2>1. PICK new \in AState :
          /\ new = Pushing(th, m, al_head)
          /\ new.at = "push" /\ new.node = m /\ new.read = al_head /\ new.value = th.value
    <3>1. al_head \in Nat /\ m \in Nat
      BY <1>0, <1>00 DEF AState
    <3> DEFINE w == Pushing(th, m, al_head)
    <3>2. /\ w \in AState
          /\ w.at = "push" /\ w.node = m /\ w.read = al_head /\ w.value = th.value
      <4>1. th \in AState
        BY <1>0
      <4> HIDE DEF th
      <4>2. w \in AState
        BY <4>1, <3>1, PushState
      <4>3. w.at = "push"
        BY <4>1, <3>1, PushState
      <4>4. w.node = m
        BY <4>1, <3>1, PushState
      <4>5. w.read = al_head
        BY <4>1, <3>1, PushState
      <4>6. w.value = th.value
        BY <4>1, <3>1 DEF Pushing, AState
      <4>7. QED
        BY <4>2, <4>3, <4>4, <4>5, <4>6
    <3> HIDE DEF w
    <3>3. QED
      BY <3>2 DEF w
  <2>2. /\ th.at = "again" /\ Owning(new)
        /\ al_nodes' = [al_nodes EXCEPT ![m].next = al_head] /\ al_thread' = [al_thread EXCEPT ![t] = new]
    <3>1. /\ th.at = "again" /\ al_nodes' = [al_nodes EXCEPT ![m].next = al_head]
          /\ al_thread' = [al_thread EXCEPT ![t] = [th EXCEPT !.at = "push", !.read = al_head]]
      BY <1>2 DEF PushReads, Go, Now
    <3>2. [th EXCEPT !.at = "push", !.read = al_head] = Pushing(th, m, al_head)
      BY <1>0 DEF Pushing, AState
    <3>3. Owning(new)
      BY <2>1 DEF Owning
    <3>4. QED
      BY <2>1, <3>1, <3>2, <3>3
  <2>3. Owning(th) /\ OwnNode(th)
    BY <1>0, <2>1, <2>2 DEF ThreadHolds, Owning
  <2>4. /\ m \in 1 .. Len(al_nodes) /\ m # al_head
        /\ \A n \in 1 .. Len(al_nodes) : al_nodes[n].next # m
        /\ th.value # Default => al_nodes[m].value = th.value
    BY <2>3 DEF OwnNode
  <2>5. [al_nodes[m] EXCEPT !.next = al_head] \in ANode
    BY <1>00, <2>4 DEF ANode
  <2>6. al_nodes' = [al_nodes EXCEPT ![m] = [al_nodes[m] EXCEPT !.next = al_head]]
    BY <2>1, <2>2
  <2>7. al_nodes' \in Seq(ANode) /\ Len(al_nodes') = Len(al_nodes)
    BY <1>00, <2>4, <2>5, <2>6, ExceptSeq
  <2>8. \A n \in 1 .. Len(al_nodes) : al_nodes'[n] = IF n = m THEN [al_nodes[m] EXCEPT !.next = al_head] ELSE al_nodes[n]
    BY <1>00, <2>4, <2>6
  <2>9. /\ \A n \in 1 .. Len(al_nodes) : al_nodes'[n].value = al_nodes[n].value
        /\ \A n \in 1 .. Len(al_nodes) : n # m => al_nodes'[n].next = al_nodes[n].next
        /\ al_nodes'[m].next = al_head
    BY <1>00, <2>4, <2>8 DEF ANode
  <2> HIDE DEF m
  <2>10. ListTypes'
    BY <1>0, <1>00, <2>1, <2>2, <2>7, <2>9 DEF ListTypes
  <2>11. \A n \in Reachable : n \in Reachable'
    <3>1. /\ al_head \notin {m} /\ \A n \in 1 .. Len(al_nodes) : al_nodes[n].next \notin {m}
          /\ \A n \in 1 .. Len(al_nodes) : n \notin {m} => al_nodes'[n].next = al_nodes[n].next
          /\ {m} \in SUBSET Nat /\ Len(al_nodes) <= Len(al_nodes')
      BY <1>00, <2>4, <2>7, <2>9
    <3>2. QED
      BY <1>0, <2>7, <3>1, ListGrows
  <2>12. OwnNode(new)'
    <3>1. new.node \in 1 .. Len(al_nodes') /\ new.node # al_head'
      BY <1>0, <2>1, <2>2, <2>4, <2>7
    <3>2. \A n \in 1 .. Len(al_nodes') : al_nodes'[n].next # new.node
      BY <2>1, <2>2, <2>4, <2>7, <2>9
    <3>3. /\ new.value # Default => al_nodes'[new.node].value = new.value
          /\ al_nodes'[new.node].next = new.read
      BY <2>1, <2>2, <2>4, <2>9
    <3>4. QED
      BY <3>1, <3>2, <3>3 DEF OwnNode
  <2>13. ThreadHolds(new)'
    BY <2>1, <2>2, <2>12 DEF ThreadHolds
  <2>14. \A u \in AThread \ {t} : Owning(al_thread[u]) =>
          /\ Owning(new) => new.node # al_thread[u].node
          /\ al_head' # al_thread[u].node
          /\ al_nodes'[al_thread[u].node].next = al_nodes[al_thread[u].node].next
          /\ \A n \in 1 .. Len(al_nodes') : al_nodes'[n].next # al_thread[u].node
    <3> SUFFICES ASSUME NEW u \in AThread \ {t}, Owning(al_thread[u])
                 PROVE  /\ new.node # al_thread[u].node
                        /\ al_head' # al_thread[u].node
                        /\ al_nodes'[al_thread[u].node].next = al_nodes[al_thread[u].node].next
                        /\ \A n \in 1 .. Len(al_nodes') : al_nodes'[n].next # al_thread[u].node
      OBVIOUS
    <3>1. /\ al_thread[u].node \in 1 .. Len(al_nodes) /\ al_thread[u].node # al_head
          /\ \A n \in 1 .. Len(al_nodes) : al_nodes[n].next # al_thread[u].node
      BY <1>01 DEF OwnNode
    <3>2. m # al_thread[u].node
      BY <2>3 DEF ListInv, OwnNodesDiffer, m
    <3>3. QED
      BY <3>1, <3>2, <1>0, <2>1, <2>2, <2>7, <2>9
  <2>15. /\ \A n \in 1 .. Len(al_nodes) : al_nodes[n].value # Default => al_nodes'[n].value = al_nodes[n].value
         /\ \A p \in al_put' : p \in al_put \/ PutHolds(p)'
         /\ Len(al_nodes) <= Len(al_nodes')
    BY <1>0, <1>00, <2>7, <2>9
  <2> HIDE DEF th
  <2>16. QED
    BY <2>1, <2>2, <2>10, <2>11, <2>13, <2>14, <2>15, StepHolds
<1>3. QED
  BY <1>1, <1>2

LEMMA ListInductive == ListInv /\ [AtomicNext]_atomicVars => ListInv' /\ [InstanceStays]_atomicVars
<1> SUFFICES ASSUME ListInv, [AtomicNext]_atomicVars PROVE ListInv' /\ [InstanceStays]_atomicVars
  OBVIOUS
<1>1. CASE UNCHANGED listVars
  <2>1. Reachable' = Reachable
    BY <1>1, ReachableUnchanged DEF listVars
  <2>2. ListInv'
    BY <1>1, <2>1 DEF ListInv, ListTypes, ThreadsHold, ThreadHolds, OwnNode, OwnNodesDiffer, PutsHold, PutHolds, listVars
  <2>3. QED
    <3>1. CASE SingletonNext
      BY <3>1, <2>2 DEF SingletonNext, TestInstance, MarkInstance, MakeInstance, StoreInstance, AssertInstance,
                        InstanceStays, Nil, Mark
    <3>2. CASE ListNext
      BY <3>2, <2>2 DEF ListNext, PutStarts, PutWalks, PutClaims, PushReads, PushSwaps, DismissReads, DismissSwaps,
                        singletonVars, InstanceStays
    <3>3. CASE UNCHANGED atomicVars
      BY <3>3, <2>2
    <3>4. QED
      BY <3>1, <3>2, <3>3 DEF AtomicNext
<1>2. CASE ListNext
  <2>1. ListInv'
    BY <1>2, PutStartsHolds, PutWalksHolds, PutClaimsHolds, PushReadsHolds, PushSwapsHolds, DismissReadsHolds,
       DismissSwapsHolds DEF ListNext
  <2>2. InstanceStays
    BY <1>2 DEF ListNext, PutStarts, PutWalks, PutClaims, PushReads, PushSwaps, DismissReads, DismissSwaps,
                singletonVars, InstanceStays
  <2>3. QED
    BY <2>1, <2>2
<1>3. SingletonNext => UNCHANGED listVars
  BY DEF SingletonNext, TestInstance, MarkInstance, MakeInstance, StoreInstance, AssertInstance
<1>4. UNCHANGED atomicVars => UNCHANGED listVars
  BY DEF atomicVars
<1>5. QED
  BY <1>1, <1>2, <1>3, <1>4 DEF AtomicNext

(* However many threads put, push and dismiss at once (atomic_list.h), a   *)
(* value that was put stays in its node and the node in the list; and the  *)
(* instance a LazySingleton has once stored (atomic_ops.h) is not replaced *)
(* by a thread that raced to make another one.                             *)
THEOREM RacesAlwaysLoseNothing == AtomicSpec => RacesLoseNothing
<1>1. AtomicInit => ListInv
  <2> SUFFICES ASSUME AtomicInit PROVE ListInv
    OBVIOUS
  <2>1. al_nodes = <<>> /\ <<>> \in Seq(ANode) /\ Len(<<>>) = 0 /\ 1 .. 0 = {}
    BY DEF AtomicInit
  <2>2. Resting \in AState /\ ThreadHolds(Resting) /\ ~Owning(Resting)
    BY DEF Resting, AState, ThreadHolds, Owning, Default, Nil
  <2>3. ListTypes
    BY <2>1, <2>2 DEF AtomicInit, ListTypes, Nil
  <2>4. ThreadsHold /\ OwnNodesDiffer /\ PutsHold
    BY <2>2 DEF AtomicInit, ThreadsHold, OwnNodesDiffer, PutsHold
  <2>5. QED
    BY <2>3, <2>4 DEF ListInv
<1>2. ListInv /\ [AtomicNext]_atomicVars => ListInv'
  BY ListInductive
<1>3. ListInv => PutStays
  BY DEF ListInv, PutsHold, PutHolds, PutStays
<1>4. ListInv /\ [AtomicNext]_atomicVars => [PutStays' /\ InstanceStays]_atomicVars
  <2> SUFFICES ASSUME ListInv, [AtomicNext]_atomicVars PROVE [PutStays' /\ InstanceStays]_atomicVars
    OBVIOUS
  <2>1. ListInv' /\ [InstanceStays]_atomicVars
    BY ListInductive
  <2>2. (ListInv => PutStays)'
    BY <1>3, PTL
  <2>3. QED
    BY <2>1, <2>2
<1>5. QED
  BY <1>1, <1>2, <1>4, PTL DEF AtomicSpec, RacesLoseNothing
=============================================================================
