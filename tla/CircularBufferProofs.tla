------------------------ MODULE CircularBufferProofs ------------------------
(***************************************************************************)
(* The circular buffer is a queue for every size of the memory: the proof  *)
(* of BufferIsAQueue.  All index arithmetic is modulo BufSize of numbers   *)
(* below twice BufSize, so that % is a comparison and a subtraction.       *)
(***************************************************************************)
EXTENDS CircularBuffer, TLAPS, SequenceTheorems

Wrap(a) == IF a < BufSize THEN a ELSE a - BufSize

(* % on the indices that occur. *)
LEMMA ModIsWrap ==
  ASSUME NEW a \in 0 .. 2 * BufSize - 1
  PROVE  a % BufSize = Wrap(a)
BY BufferAssumption DEF Wrap

(* The stored values: the bytes and what the memory held at first. *)
Value == Byte \cup {Min(Byte)}

BufferType ==
  /\ cb_head \in Position /\ cb_tail \in Position
  /\ cb_memory \in [Position -> Value]
  /\ cb_queue \in Seq(Value)

(* The queue, laid out from head on. *)
Laid ==
  /\ Len(cb_queue) <= BufSize - 1
  /\ cb_tail = Wrap(cb_head + Len(cb_queue))
  /\ \A i \in 1 .. Len(cb_queue) : cb_memory[Wrap(cb_head + i - 1)] = cb_queue[i]

BufferInv == BufferType /\ Laid /\ ReadsOldest

(* What the counters compute. *)
LEMMA Counters ==
  ASSUME BufferType, Laid
  PROVE  /\ DataAvailableIn(cb_head, cb_tail) = Len(cb_queue)
         /\ SpaceAvailableIn(cb_head, cb_tail) = BufSize - 1 - Len(cb_queue)
         /\ Len(cb_queue) \in Nat
BY BufferAssumption DEF BufferType, Laid, Wrap, Position, DataAvailableIn, SpaceAvailableIn

(* What ContiguousSpace computes, arm by arm. *)
LEMMA SpaceIs ==
  ASSUME NEW h \in Position, NEW t \in Position
  PROVE  /\ Wrap(t + 1) = h => ContiguousSpace(h, t) = 0
         /\ Wrap(t + 1) # h /\ h > t => ContiguousSpace(h, t) = h - t - 1
         /\ Wrap(t + 1) # h /\ h = 0 => ContiguousSpace(h, t) = BufSize - t - 1
         /\ Wrap(t + 1) # h /\ h # 0 /\ h <= t => ContiguousSpace(h, t) = BufSize - t
         /\ ContiguousSpace(h, t) \in Nat
<1>1. t + 1 \in 0 .. 2 * BufSize - 1
  BY BufferAssumption DEF Position
<1>2. (t + 1) % BufSize = Wrap(t + 1)
  BY <1>1, ModIsWrap
<1>3. h \in Nat /\ t \in Nat /\ BufSize \in Nat /\ t < BufSize
  BY BufferAssumption DEF Position
<1>4. CASE Wrap(t + 1) = h
  BY <1>2, <1>4 DEF ContiguousSpace, IsFull
<1>5. CASE Wrap(t + 1) # h
  <2>1. ~IsFull(h, t)
    BY <1>2, <1>5 DEF IsFull
  <2>2. CASE h > t
    BY <1>3, <1>5, <2>1, <2>2 DEF ContiguousSpace
  <2>3. CASE h <= t
    BY <1>3, <1>5, <2>1, <2>3 DEF ContiguousSpace
  <2>. QED
    BY <1>3, <1>5, <2>2, <2>3
<1>. QED
  BY <1>4, <1>5

(* The loop of read and peek, asked for n bytes that are there, returns    *)
(* the first n of the queue in its two iterations.                         *)
LEMMA ReadLoopIs ==
  ASSUME BufferType, Laid, NEW n \in 0 .. Len(cb_queue)
  PROVE  /\ ReadLoop(n).head = Wrap(cb_head + n)
         /\ ReadLoop(n).data = SubSeq(cb_queue, 1, n)
<1>. DEFINE first == Least(n, ContiguousData(cb_head, cb_tail))
            middle == (cb_head + first) % BufSize
            second == Least(n - first, ContiguousData(middle, cb_tail))
<1>0. /\ cb_head \in Nat /\ cb_head < BufSize /\ cb_tail \in Nat /\ cb_tail < BufSize /\ BufSize \in Nat
      /\ Len(cb_queue) \in Nat /\ Len(cb_queue) < BufSize
      /\ cb_tail = IF cb_head + Len(cb_queue) < BufSize THEN cb_head + Len(cb_queue)
                   ELSE cb_head + Len(cb_queue) - BufSize
      /\ n \in Nat /\ n <= Len(cb_queue)
  BY BufferAssumption DEF BufferType, Laid, Wrap, Position
<1>1. first \in 0 .. n /\ cb_head + first <= BufSize /\ (first # n => cb_head + first = BufSize)
  BY <1>0 DEF Least, ContiguousData
<1>2. middle = Wrap(cb_head + first) /\ middle \in Nat
  <2>1. cb_head + first \in 0 .. 2 * BufSize - 1 /\ Wrap(cb_head + first) \in Nat
    BY <1>0, <1>1 DEF Wrap
  <2>. QED
    BY <2>1, ModIsWrap
<1>. HIDE DEF first, middle
<1>3. second = n - first /\ (second > 0 => middle = 0)
  <2>1. CASE cb_head + first = BufSize
    <3>1. middle = 0 /\ n - first <= cb_tail /\ n - first \in Nat
      BY <1>0, <1>1, <1>2, <2>1 DEF Wrap
    <3>2. ContiguousData(middle, cb_tail) = cb_tail
      BY <1>0, <3>1 DEF ContiguousData
    <3>. QED
      BY <1>0, <3>1, <3>2 DEF Least
  <2>2. CASE cb_head + first # BufSize
    <3>1. n - first = 0 /\ ContiguousData(middle, cb_tail) \in Nat
      BY <1>0, <1>1, <1>2, <2>2 DEF Wrap, ContiguousData
    <3>. QED
      BY <3>1 DEF Least
  <2>. QED
    BY <2>1, <2>2
<1>. HIDE DEF second
<1>4. middle + second \in 0 .. 2 * BufSize - 1 /\ Wrap(middle + second) = Wrap(cb_head + n)
  BY <1>0, <1>1, <1>2, <1>3 DEF Wrap
<1>5. (middle + second) % BufSize = Wrap(middle + second)
  BY <1>4, ModIsWrap
<1>6. \A i \in 1 .. n :
        cb_queue[i] = IF i <= first THEN cb_memory[cb_head + i - 1] ELSE cb_memory[middle + i - first - 1]
  BY <1>0, <1>1, <1>2, <1>3 DEF BufferType, Laid, Wrap
<1>7. /\ ReadLoop(n).head = (middle + second) % BufSize
      /\ ReadLoop(n).data = [i \in 1 .. first + second |->
           IF i <= first THEN cb_memory[cb_head + i - 1] ELSE cb_memory[middle + i - first - 1]]
  BY DEF ReadLoop, first, middle, second
<1>8. first + second = n
  BY <1>0, <1>1, <1>3
<1>9. SubSeq(cb_queue, 1, n) = [i \in 1 .. n |-> cb_queue[i]]
  BY DEF BufferType
<1>. QED
  BY <1>4, <1>5, <1>6, <1>7, <1>8, <1>9

(* The loop of write stores the first bytes of the data, as many as there  *)
(* is space for, behind the queue and nowhere else.                        *)
LEMMA WriteLoopIs ==
  ASSUME BufferType, Laid, NEW data \in Seq(Byte), NEW size \in Nat
  PROVE  size = Least(Len(data), BufSize - 1 - Len(cb_queue)) =>
           /\ WriteLoop(data).tail = Wrap(cb_tail + size)
           /\ WriteLoop(data).memory \in [Position -> Value]
           /\ \A k \in 1 .. size : WriteLoop(data).memory[Wrap(cb_tail + k - 1)] = data[k]
           /\ \A i \in 1 .. Len(cb_queue) :
                WriteLoop(data).memory[Wrap(cb_head + i - 1)] = cb_memory[Wrap(cb_head + i - 1)]
<1>0. SUFFICES ASSUME size = Least(Len(data), BufSize - 1 - Len(cb_queue))
      PROVE  /\ WriteLoop(data).tail = Wrap(cb_tail + size)
             /\ WriteLoop(data).memory \in [Position -> Value]
             /\ \A k \in 1 .. size : WriteLoop(data).memory[Wrap(cb_tail + k - 1)] = data[k]
             /\ \A i \in 1 .. Len(cb_queue) :
                  WriteLoop(data).memory[Wrap(cb_head + i - 1)] = cb_memory[Wrap(cb_head + i - 1)]
  OBVIOUS
<1>. DEFINE first == Least(size, ContiguousSpace(cb_head, cb_tail))
            middle == (cb_tail + first) % BufSize
            second == Least(size - first, ContiguousSpace(cb_head, middle))
            memory == [p \in Position |->
                        CASE p \in cb_tail .. cb_tail + first - 1 -> data[p - cb_tail + 1]
                          [] p \in middle .. middle + second - 1 -> data[p - middle + first + 1]
                          [] OTHER -> cb_memory[p]]
<1>1. WriteLoop(data).tail = (middle + second) % BufSize /\ WriteLoop(data).memory = memory
  BY <1>0, Counters DEF WriteLoop
<1>2. /\ cb_head \in Nat /\ cb_head < BufSize /\ cb_tail \in Nat /\ cb_tail < BufSize /\ BufSize \in Nat
      /\ Len(cb_queue) \in Nat /\ Len(cb_queue) < BufSize
      /\ cb_tail = IF cb_head + Len(cb_queue) < BufSize THEN cb_head + Len(cb_queue)
                   ELSE cb_head + Len(cb_queue) - BufSize
  BY BufferAssumption DEF BufferType, Laid, Wrap, Position
<1>3. Len(data) \in Nat /\ size <= Len(data) /\ size + Len(cb_queue) < BufSize
  BY <1>0, <1>2 DEF Least
<1>4. cb_head \in Position /\ cb_tail \in Position
  BY DEF BufferType
<1>5. /\ first \in 0 .. size /\ cb_tail + first <= BufSize
      /\ first # size => cb_tail + first = BufSize
  <2>1. CASE Wrap(cb_tail + 1) = cb_head
    <3>1. size = 0 /\ ContiguousSpace(cb_head, cb_tail) = 0
      BY <1>2, <1>3, <1>4, <2>1, SpaceIs DEF Wrap
    <3>. QED
      BY <1>2, <3>1 DEF Least
  <2>2. CASE Wrap(cb_tail + 1) # cb_head /\ cb_head > cb_tail
    <3>1. ContiguousSpace(cb_head, cb_tail) = cb_head - cb_tail - 1
      BY <1>4, <2>2, SpaceIs
    <3>. QED
      BY <1>2, <1>3, <2>2, <3>1 DEF Least
  <2>3. CASE Wrap(cb_tail + 1) # cb_head /\ cb_head = 0
    <3>1. ContiguousSpace(cb_head, cb_tail) = BufSize - cb_tail - 1
      BY <1>4, <2>3, SpaceIs
    <3>. QED
      BY <1>2, <1>3, <2>3, <3>1 DEF Least
  <2>4. CASE Wrap(cb_tail + 1) # cb_head /\ cb_head # 0 /\ cb_head <= cb_tail
    <3>1. ContiguousSpace(cb_head, cb_tail) = BufSize - cb_tail
      BY <1>4, <2>4, SpaceIs
    <3>. QED
      BY <1>2, <1>3, <2>4, <3>1 DEF Least
  <2>. QED
    BY <1>2, <2>1, <2>2, <2>3, <2>4
<1>. HIDE DEF first
<1>6. middle = Wrap(cb_tail + first) /\ middle \in Position
  <2>1. cb_tail + first \in 0 .. 2 * BufSize - 1 /\ Wrap(cb_tail + first) \in Position
    BY <1>2, <1>5 DEF Wrap, Position
  <2>. QED
    BY <2>1, ModIsWrap
<1>. HIDE DEF middle
<1>7. ContiguousSpace(cb_head, middle) \in Nat
  BY <1>4, <1>6, SpaceIs
<1>8. second = size - first /\ (second > 0 => middle = 0 /\ cb_tail + first = BufSize)
  <2>1. CASE first = size
    <3>1. size - first = 0
      BY <1>5, <2>1
    <3>. QED
      BY <1>7, <3>1 DEF Least
  <2>2. CASE first # size
    <3>0. cb_tail + first = BufSize
      BY <1>5, <2>2
    <3>1. middle = 0 /\ cb_tail + first = BufSize /\ Wrap(middle + 1) = 1
      BY <1>2, <1>6, <3>0, BufferAssumption DEF Wrap
    <3>2. size - first \in Nat /\ size - first < cb_head
      BY <1>2, <1>3, <1>5, <2>2, <3>1
    <3>3. ContiguousSpace(cb_head, middle) = cb_head - 1
      BY <1>2, <1>4, <1>6, <3>1, <3>2, SpaceIs
    <3>. QED
      BY <1>2, <3>1, <3>2, <3>3 DEF Least
  <2>. QED
    BY <2>1, <2>2
<1>. HIDE DEF second
<1>9. middle + second \in 0 .. 2 * BufSize - 1 /\ Wrap(middle + second) = Wrap(cb_tail + size)
  <2>1. middle \in Nat /\ middle < BufSize /\ first \in Nat /\ first <= size /\ second \in Nat
    BY <1>2, <1>5, <1>6, <1>8 DEF Position
  <2>2. CASE second = 0
    <3>1. first = size /\ middle + second = middle
      BY <1>5, <1>8, <2>1, <2>2
    <3>2. Wrap(middle) = middle
      BY <2>1 DEF Wrap
    <3>. QED
      BY <1>2, <1>6, <2>1, <3>1, <3>2
  <2>3. CASE second > 0
    BY <1>2, <1>3, <1>8, <2>1, <2>3 DEF Wrap
  <2>. QED
    BY <2>1, <2>2, <2>3
<1>10. (middle + second) % BufSize = Wrap(middle + second)
  BY <1>9, ModIsWrap
<1>11. /\ first \in Nat /\ second \in Nat /\ middle \in Nat /\ first + second = size
       /\ \A p \in Position :
            p \in cb_tail .. cb_tail + first - 1 => p \notin middle .. middle + second - 1
  <2>1. first \in Nat /\ second \in Nat /\ middle \in Nat /\ first + second = size
    BY <1>2, <1>5, <1>6, <1>8 DEF Position
  <2>2. second > 0 => second < cb_head /\ cb_head <= cb_tail
    BY <1>2, <1>3, <1>8, <2>1
  <2>. QED
    BY <1>2, <1>8, <2>1, <2>2 DEF Position
<1>12. \A p \in Position :
         /\ p \in cb_tail .. cb_tail + first - 1 => memory[p] = data[p - cb_tail + 1]
         /\ p \notin cb_tail .. cb_tail + first - 1 /\ p \in middle .. middle + second - 1 =>
              memory[p] = data[p - middle + first + 1]
         /\ p \notin cb_tail .. cb_tail + first - 1 /\ p \notin middle .. middle + second - 1 =>
              memory[p] = cb_memory[p]
  BY <1>11
<1>13. memory = [p \in Position |-> memory[p]]
  OBVIOUS
<1>. HIDE DEF memory
<1>14. memory \in [Position -> Value]
  <2>1. \A k \in 1 .. size : data[k] \in Value
    BY <1>3 DEF Value
  <2>2. ASSUME NEW p \in Position PROVE memory[p] \in Value
    <3>1. CASE p \in cb_tail .. cb_tail + first - 1
      <4>1. p - cb_tail + 1 \in 1 .. size
        BY <1>2, <1>11, <3>1 DEF Position
      <4>. QED
        BY <1>12, <2>1, <3>1, <4>1
    <3>2. CASE p \notin cb_tail .. cb_tail + first - 1 /\ p \in middle .. middle + second - 1
      <4>1. p - middle + first + 1 \in 1 .. size
        BY <1>11, <3>2 DEF Position
      <4>. QED
        BY <1>12, <2>1, <3>2, <4>1
    <3>3. CASE p \notin cb_tail .. cb_tail + first - 1 /\ p \notin middle .. middle + second - 1
      BY <1>12, <3>3 DEF BufferType
    <3>. QED
      BY <3>1, <3>2, <3>3
  <2>. QED
    BY <1>13, <2>2
<1>15. ASSUME NEW k \in 1 .. size PROVE memory[Wrap(cb_tail + k - 1)] = data[k]
  <2>1. CASE k <= first
    <3>1. Wrap(cb_tail + k - 1) = cb_tail + k - 1 /\ cb_tail + k - 1 \in Position
      BY <1>2, <1>5, <2>1 DEF Wrap, Position
    <3>2. cb_tail + k - 1 \in cb_tail .. cb_tail + first - 1 /\ (cb_tail + k - 1) - cb_tail + 1 = k
      BY <1>2, <1>5, <2>1
    <3>. QED
      BY <1>12, <3>1, <3>2
  <2>2. CASE k > first
    <3>1. middle = 0 /\ cb_tail + first = BufSize /\ k - first - 1 \in 0 .. second - 1 /\ k - first - 1 < cb_tail
      BY <1>2, <1>3, <1>5, <1>8, <2>2
    <3>2. Wrap(cb_tail + k - 1) = k - first - 1 /\ k - first - 1 \in Position
      BY <1>2, <1>5, <2>2, <3>1 DEF Wrap, Position
    <3>3. /\ k - first - 1 \notin cb_tail .. cb_tail + first - 1
          /\ k - first - 1 \in middle .. middle + second - 1
          /\ (k - first - 1) - middle + first + 1 = k
      BY <1>2, <1>11, <3>1
    <3>. QED
      BY <1>12, <3>1, <3>2, <3>3
  <2>. QED
    BY <1>5, <2>1, <2>2
<1>16. ASSUME NEW i \in 1 .. Len(cb_queue)
       PROVE  memory[Wrap(cb_head + i - 1)] = cb_memory[Wrap(cb_head + i - 1)]
  <2>1. Wrap(cb_head + i - 1) \in Position
    BY <1>2 DEF Wrap, Position
  <2>2. Wrap(cb_head + i - 1) \notin cb_tail .. cb_tail + first - 1
    BY <1>2, <1>3, <1>5 DEF Wrap
  <2>3. Wrap(cb_head + i - 1) \notin middle .. middle + second - 1
    <3>1. CASE second = 0
      BY <1>2, <1>6, <3>1 DEF Wrap, Position
    <3>2. CASE second > 0
      <4>1. middle = 0 /\ second < cb_head /\ cb_head + Len(cb_queue) < BufSize
        BY <1>2, <1>3, <1>8, <1>11, <3>2
      <4>. QED
        BY <1>2, <1>3, <1>11, <4>1 DEF Wrap
    <3>. QED
      BY <1>5, <1>8, <3>1, <3>2
  <2>. QED
    BY <1>12, <2>1, <2>2, <2>3
<1>. QED
  BY <1>1, <1>9, <1>10, <1>14, <1>15, <1>16

-----------------------------------------------------------------------------
(* Dropping the first n of the queue moves head by n, whoever does it. *)
LEMMA HeadAdvances ==
  ASSUME BufferType, Laid, NEW n \in 0 .. Len(cb_queue),
         cb_head' = Wrap(cb_head + n), cb_queue' = SubSeq(cb_queue, n + 1, Len(cb_queue)),
         UNCHANGED <<cb_tail, cb_memory>>
  PROVE  BufferType' /\ Laid'
<1>1. /\ cb_head \in Nat /\ cb_head < BufSize /\ BufSize \in Nat
      /\ Len(cb_queue) \in Nat /\ Len(cb_queue) < BufSize /\ n \in Nat /\ n <= Len(cb_queue)
      /\ cb_tail = Wrap(cb_head + Len(cb_queue))
  BY BufferAssumption DEF BufferType, Laid, Position
<1>2. /\ cb_queue' \in Seq(Value) /\ Len(cb_queue') = Len(cb_queue) - n
      /\ \A i \in 1 .. Len(cb_queue) - n : cb_queue'[i] = cb_queue[n + i]
  BY <1>1 DEF BufferType
<1>3. Wrap(cb_head + n) \in Position
  BY <1>1 DEF Wrap, Position
<1>4. BufferType'
  BY <1>2, <1>3 DEF BufferType
<1>5. \A i \in 0 .. Len(cb_queue) - n : Wrap(Wrap(cb_head + n) + i) = Wrap(cb_head + (n + i))
  BY <1>1 DEF Wrap
<1>6. cb_tail' = Wrap(cb_head' + Len(cb_queue'))
  <2>1. Wrap(Wrap(cb_head + n) + (Len(cb_queue) - n)) = Wrap(cb_head + Len(cb_queue))
    BY <1>1 DEF Wrap
  <2>. QED
    BY <1>1, <1>2, <2>1
<1>7. ASSUME NEW i \in 1 .. Len(cb_queue') PROVE cb_memory'[Wrap(cb_head' + i - 1)] = cb_queue'[i]
  <2>1. n + i \in 1 .. Len(cb_queue) /\ Wrap(Wrap(cb_head + n) + i - 1) = Wrap(cb_head + (n + i) - 1)
    BY <1>1, <1>2 DEF Wrap
  <2>. QED
    BY <1>1, <1>2, <2>1 DEF Laid
<1>8. Len(cb_queue') <= BufSize - 1
  BY <1>1, <1>2
<1>. QED
  BY <1>4, <1>6, <1>7, <1>8 DEF Laid

(* Appending what was stored behind the queue moves tail. *)
LEMMA TailAdvances ==
  ASSUME BufferType, Laid, NEW s \in Seq(Value), Len(cb_queue) + Len(s) <= BufSize - 1,
         cb_tail' = Wrap(cb_tail + Len(s)), cb_queue' = cb_queue \o s,
         cb_memory' \in [Position -> Value], UNCHANGED cb_head,
         \A k \in 1 .. Len(s) : cb_memory'[Wrap(cb_tail + k - 1)] = s[k],
         \A i \in 1 .. Len(cb_queue) : cb_memory'[Wrap(cb_head + i - 1)] = cb_memory[Wrap(cb_head + i - 1)]
  PROVE  BufferType' /\ Laid'
<1>1. /\ cb_head \in Nat /\ cb_head < BufSize /\ BufSize \in Nat
      /\ Len(cb_queue) \in Nat /\ Len(cb_queue) < BufSize /\ Len(s) \in Nat
      /\ cb_tail = Wrap(cb_head + Len(cb_queue)) /\ cb_tail \in Position
  BY BufferAssumption DEF BufferType, Laid, Position
<1>2. /\ cb_queue' \in Seq(Value) /\ Len(cb_queue') = Len(cb_queue) + Len(s)
      /\ \A i \in 1 .. Len(cb_queue) : cb_queue'[i] = cb_queue[i]
      /\ \A i \in Len(cb_queue) + 1 .. Len(cb_queue) + Len(s) : cb_queue'[i] = s[i - Len(cb_queue)]
  BY DEF BufferType
<1>3. Wrap(cb_tail + Len(s)) \in Position /\ Wrap(cb_tail + Len(s)) = Wrap(cb_head + (Len(cb_queue) + Len(s)))
  BY <1>1 DEF Wrap, Position
<1>4. BufferType'
  BY <1>1, <1>2, <1>3 DEF BufferType
<1>5. ASSUME NEW i \in 1 .. Len(cb_queue') PROVE cb_memory'[Wrap(cb_head' + i - 1)] = cb_queue'[i]
  <2>1. CASE i \in 1 .. Len(cb_queue)
    BY <1>2, <2>1 DEF Laid
  <2>2. CASE i \in Len(cb_queue) + 1 .. Len(cb_queue) + Len(s)
    <3>1. /\ i - Len(cb_queue) \in 1 .. Len(s)
          /\ Wrap(cb_head + i - 1) = Wrap(cb_tail + (i - Len(cb_queue)) - 1)
      BY <1>1, <2>2 DEF Wrap, Position
    <3>. QED
      BY <1>2, <2>2, <3>1
  <2>. QED
    BY <1>1, <1>2, <2>1, <2>2
<1>. QED
  BY <1>1, <1>2, <1>3, <1>4, <1>5 DEF Laid

-----------------------------------------------------------------------------
LEMMA BufferInitial == CircularInit => BufferInv
<1>. SUFFICES ASSUME CircularInit PROVE BufferInv
  OBVIOUS
<1>1. 0 \in Position /\ Wrap(0) = 0
  BY BufferAssumption DEF Position, Wrap
<1>2. BufferType
  BY <1>1 DEF CircularInit, BufferType, Value
<1>3. Laid
  BY <1>1, BufferAssumption DEF CircularInit, Laid
<1>. QED
  BY <1>2, <1>3 DEF BufferInv, ReadsOldest, CircularInit

LEMMA BufferInvStep == BufferInv /\ [CircularNext]_circularVars => BufferInv'
<1>. SUFFICES ASSUME BufferInv, [CircularNext]_circularVars PROVE BufferInv'
  OBVIOUS
<1>1. BufferType /\ Laid /\ ReadsOldest /\ Len(cb_queue) \in Nat /\ Len(cb_queue) <= BufSize - 1 /\ BufSize \in Nat
  BY BufferAssumption DEF BufferInv, BufferType, Laid
<1>2. /\ DataAvailableIn(cb_head, cb_tail) = Len(cb_queue)
      /\ SpaceAvailableIn(cb_head, cb_tail) = BufSize - 1 - Len(cb_queue)
  BY <1>1, Counters
<1>3. \A n \in Nat : Least(n, Len(cb_queue)) \in 0 .. Len(cb_queue)
  BY <1>1 DEF Least
<1>4. ASSUME NEW n \in 1 .. BufSize, NEW data \in [1 .. n -> Byte], Write(data) PROVE BufferInv'
  <2>. DEFINE size == Least(Len(data), BufSize - 1 - Len(cb_queue))
  <2>1. data \in Seq(Byte) /\ Len(data) = n
    BY <1>1
  <2>2. size \in Nat /\ size <= Len(data) /\ size + Len(cb_queue) <= BufSize - 1
    BY <1>1, <2>1 DEF Least
  <2>3. /\ WriteLoop(data).tail = Wrap(cb_tail + size)
        /\ WriteLoop(data).memory \in [Position -> Value]
        /\ \A k \in 1 .. size : WriteLoop(data).memory[Wrap(cb_tail + k - 1)] = data[k]
        /\ \A i \in 1 .. Len(cb_queue) :
             WriteLoop(data).memory[Wrap(cb_head + i - 1)] = cb_memory[Wrap(cb_head + i - 1)]
    BY <1>1, <2>1, <2>2, WriteLoopIs
  <2>4. /\ cb_tail' = WriteLoop(data).tail /\ cb_memory' = WriteLoop(data).memory
        /\ cb_queue' = cb_queue \o SubSeq(data, 1, size)
        /\ UNCHANGED <<cb_head, cb_result>>
    BY <1>4 DEF Write
  <2>. HIDE DEF size
  <2>5. PICK s \in Seq(Value) :
          cb_queue' = cb_queue \o s /\ Len(s) = size /\ \A k \in 1 .. size : s[k] = data[k]
    <3>1. /\ SubSeq(data, 1, size) \in Seq(Value) /\ Len(SubSeq(data, 1, size)) = size
          /\ \A k \in 1 .. size : SubSeq(data, 1, size)[k] = data[k]
      BY <2>1, <2>2 DEF Value
    <3>. QED
      BY <2>4, <3>1
  <2>6. BufferType' /\ Laid'
    <3>1. \A k \in 1 .. Len(s) : cb_memory'[Wrap(cb_tail + k - 1)] = s[k]
      BY <2>3, <2>4, <2>5
    <3>2. \A i \in 1 .. Len(cb_queue) : cb_memory'[Wrap(cb_head + i - 1)] = cb_memory[Wrap(cb_head + i - 1)]
      BY <2>3, <2>4
    <3>3. Len(cb_queue) + Len(s) <= BufSize - 1 /\ cb_tail' = Wrap(cb_tail + Len(s))
      BY <1>1, <2>2, <2>3, <2>4, <2>5
    <3>4. cb_memory' \in [Position -> Value] /\ UNCHANGED cb_head /\ cb_queue' = cb_queue \o s
      BY <2>3, <2>4, <2>5
    <3>. QED
      BY <1>1, <3>1, <3>2, <3>3, <3>4, TailAdvances
  <2>. QED
    BY <1>1, <2>4, <2>6 DEF BufferInv, ReadsOldest
<1>5. ASSUME NEW n \in 1 .. BufSize, Read(n) PROVE BufferInv'
  <2>. DEFINE k == Least(n, Len(cb_queue))
  <2>1. k \in 0 .. Len(cb_queue)
    BY <1>1, <1>3
  <2>2. ReadLoop(k).head = Wrap(cb_head + k) /\ ReadLoop(k).data = SubSeq(cb_queue, 1, k)
    BY <1>1, <2>1, ReadLoopIs
  <2>3. /\ cb_head' = ReadLoop(k).head /\ cb_queue' = SubSeq(cb_queue, k + 1, Len(cb_queue))
        /\ cb_result' = [got |-> ReadLoop(k).data, due |-> SubSeq(cb_queue, 1, k)]
        /\ UNCHANGED <<cb_tail, cb_memory>>
    BY <1>2, <1>5 DEF Read, Left, Taken
  <2>. HIDE DEF k
  <2>4. BufferType' /\ Laid'
    BY <1>1, <2>1, <2>2, <2>3, HeadAdvances
  <2>. QED
    BY <2>2, <2>3, <2>4 DEF BufferInv, ReadsOldest
<1>6. ASSUME NEW n \in 1 .. BufSize, Peek(n) PROVE BufferInv'
  <2>. DEFINE k == Least(n, Len(cb_queue))
  <2>1. k \in 0 .. Len(cb_queue)
    BY <1>1, <1>3
  <2>2. ReadLoop(k).data = SubSeq(cb_queue, 1, k)
    BY <1>1, <2>1, ReadLoopIs
  <2>3. /\ cb_result' = [got |-> ReadLoop(k).data, due |-> SubSeq(cb_queue, 1, k)]
        /\ UNCHANGED <<cb_head, cb_tail, cb_memory, cb_queue>>
    BY <1>2, <1>6 DEF Peek, Taken
  <2>. QED
    BY <1>1, <2>2, <2>3 DEF BufferInv, ReadsOldest, BufferType, Laid
<1>7. ASSUME NEW n \in 1 .. BufSize, AdvanceHead(n) PROVE BufferInv'
  <2>. DEFINE k == Least(n, Len(cb_queue))
  <2>1. k \in 0 .. Len(cb_queue)
    BY <1>1, <1>3
  <2>2. /\ cb_head' = (cb_head + k) % BufSize /\ cb_queue' = SubSeq(cb_queue, k + 1, Len(cb_queue))
        /\ UNCHANGED <<cb_tail, cb_memory, cb_result>>
    BY <1>2, <1>7 DEF AdvanceHead, Left
  <2>. HIDE DEF k
  <2>3. cb_head + k \in 0 .. 2 * BufSize - 1
    BY <1>1, <2>1 DEF BufferType, Position
  <2>4. cb_head' = Wrap(cb_head + k)
    BY <2>2, <2>3, ModIsWrap
  <2>5. BufferType' /\ Laid'
    BY <1>1, <2>1, <2>2, <2>4, HeadAdvances
  <2>. QED
    BY <1>1, <2>2, <2>5 DEF BufferInv, ReadsOldest
<1>8. ASSUME NEW n \in 1 .. BufSize, AdvanceTail(n) PROVE BufferInv'
  <2>. DEFINE k == Least(n, BufSize - 1 - Len(cb_queue))
              s == [i \in 1 .. k |-> cb_memory[(cb_tail + i - 1) % BufSize]]
  <2>1. k \in Nat /\ Len(cb_queue) + k <= BufSize - 1
    BY <1>1 DEF Least
  <2>2. /\ cb_tail' = (cb_tail + k) % BufSize /\ cb_queue' = cb_queue \o s
        /\ UNCHANGED <<cb_head, cb_memory, cb_result>>
    BY <1>2, <1>8 DEF AdvanceTail
  <2>. HIDE DEF k
  <2>3. cb_tail \in Position /\ cb_memory \in [Position -> Value]
    BY <1>1 DEF BufferType
  <2>4. cb_tail + k \in 0 .. 2 * BufSize - 1 /\ \A i \in 1 .. k : cb_tail + i - 1 \in 0 .. 2 * BufSize - 1
    BY <1>1, <2>1, <2>3 DEF Position
  <2>5. cb_tail' = Wrap(cb_tail + k)
    BY <2>2, <2>4, ModIsWrap
  <2>6. \A i \in 1 .. k : (cb_tail + i - 1) % BufSize = Wrap(cb_tail + i - 1)
    BY <2>4, ModIsWrap
  <2>7. \A i \in 1 .. k : Wrap(cb_tail + i - 1) \in Position
    BY <1>1, <2>3, <2>4 DEF Wrap, Position
  <2>8. s \in Seq(Value) /\ Len(s) = k /\ \A i \in 1 .. k : s[i] = cb_memory[Wrap(cb_tail + i - 1)]
    <3>1. \A i \in 1 .. k : cb_memory[(cb_tail + i - 1) % BufSize] \in Value
      BY <2>3, <2>6, <2>7
    <3>. QED
      BY <2>1, <2>6, <3>1
  <2>. HIDE DEF s
  <2>9. BufferType' /\ Laid'
    BY <1>1, <2>1, <2>2, <2>3, <2>5, <2>8, TailAdvances
  <2>. QED
    BY <1>1, <2>2, <2>9 DEF BufferInv, ReadsOldest
<1>9. CASE UNCHANGED circularVars
  BY <1>1, <1>9 DEF circularVars, BufferInv, ReadsOldest, BufferType, Laid
<1>. QED
  BY <1>4, <1>5, <1>6, <1>7, <1>8, <1>9 DEF CircularNext

(* For every buffer size: wherever head and tail have wrapped to, the      *)
(* memory between them is the queue, and read and peek return its front.   *)
THEOREM BufferAlwaysAQueue == CircularSpec => []BufferIsAQueue
<1>1. BufferInv => BufferIsAQueue
  <2>. SUFFICES ASSUME BufferInv PROVE BufferIsAQueue
    OBVIOUS
  <2>1. BufferType /\ Laid /\ ReadsOldest
    BY DEF BufferInv
  <2>2. DataAvailableIn(cb_head, cb_tail) = Len(cb_queue) /\ Len(cb_queue) \in Nat
    BY <2>1, Counters
  <2>3. ASSUME NEW i \in 1 .. Len(cb_queue) PROVE cb_memory[(cb_head + i - 1) % BufSize] = cb_queue[i]
    <3>1. cb_head + i - 1 \in 0 .. 2 * BufSize - 1
      BY <2>1, <2>2, BufferAssumption DEF BufferType, Laid, Position
    <3>2. (cb_head + i - 1) % BufSize = Wrap(cb_head + i - 1)
      BY <3>1, ModIsWrap
    <3>. QED
      BY <2>1, <3>2 DEF Laid
  <2>. QED
    BY <2>1, <2>2, <2>3 DEF BufferIsAQueue, HoldsQueue
<1>. QED
  BY BufferInitial, BufferInvStep, <1>1, PTL DEF CircularSpec
=============================================================================
