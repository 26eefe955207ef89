--------------------------- MODULE CircularBuffer ---------------------------
(***************************************************************************)
(* CircularBuffer (common/circular_buffer.h): a queue of bytes in a block  *)
(* of memory that is one longer than its capacity.  cb_queue is the queue  *)
(* a caller believes in; it is used by no operation.                       *)
(***************************************************************************)
EXTENDS Naturals, Sequences, FiniteSetsExt

CONSTANTS
  BufSize,    \* buf_size_
  Byte

ASSUME BufferAssumption == BufSize \in Nat \ {0, 1}

VARIABLES
  cb_head, cb_tail,  \* head_ and tail_
  cb_memory,         \* buffer_
  cb_queue,          \* history: what was written and not read
  cb_result          \* what the last call of read or peek returned, and was to return

circularVars == <<cb_head, cb_tail, cb_memory, cb_queue, cb_result>>

Position == 0 .. BufSize - 1
Least(a, b) == IF a < b THEN a ELSE b

CircularInit ==
  /\ cb_head = 0 /\ cb_tail = 0
  /\ cb_memory \in [Position -> {Min(Byte)}]
  /\ cb_queue = <<>>
  /\ cb_result = [got |-> <<>>, due |-> <<>>]

-----------------------------------------------------------------------------
DataAvailableIn(head, tail) == IF tail >= head THEN tail - head ELSE BufSize - head + tail
SpaceAvailableIn(head, tail) == BufSize - 1 - DataAvailableIn(head, tail)
IsFull(head, tail) == (tail + 1) % BufSize = head

(* Variant: the wrapped part is taken to start one slot early. *)
ContiguousDataShort(head, tail) == IF tail >= head THEN tail - head ELSE BufSize - head - 1

ContiguousData(head, tail) == IF tail >= head THEN tail - head ELSE BufSize - head

ContiguousSpace(head, tail) ==
  CASE IsFull(head, tail) -> 0
    [] ~IsFull(head, tail) /\ head > tail -> head - tail - 1
    [] ~IsFull(head, tail) /\ head <= tail -> BufSize - tail - (IF head = 0 THEN 1 ELSE 0)

(* The loops of read and write, of two iterations at most. *)
ReadLoop(size) ==
  LET first == Least(size, ContiguousData(cb_head, cb_tail))
      middle == (cb_head + first) % BufSize
      second == Least(size - first, ContiguousData(middle, cb_tail))
  IN  [head |-> (middle + second) % BufSize,
       data |-> [i \in 1 .. first + second |->
                   IF i <= first THEN cb_memory[cb_head + i - 1] ELSE cb_memory[middle + i - first - 1]]]

WriteLoop(data) ==
  LET size == Least(Len(data), SpaceAvailableIn(cb_head, cb_tail))
      first == Least(size, ContiguousSpace(cb_head, cb_tail))
      middle == (cb_tail + first) % BufSize
      second == Least(size - first, ContiguousSpace(cb_head, middle))
  IN  [tail |-> (middle + second) % BufSize,
       memory |-> [p \in Position |->
                     CASE p \in cb_tail .. cb_tail + first - 1 -> data[p - cb_tail + 1]
                       [] p \in middle .. middle + second - 1 -> data[p - middle + first + 1]
                       [] OTHER -> cb_memory[p]]]

Taken(size) == SubSeq(cb_queue, 1, Least(size, Len(cb_queue)))
Left(size) == SubSeq(cb_queue, Least(size, Len(cb_queue)) + 1, Len(cb_queue))

-----------------------------------------------------------------------------
Write(data) ==
  /\ cb_tail' = WriteLoop(data).tail
  /\ cb_memory' = WriteLoop(data).memory
  /\ cb_queue' = cb_queue \o SubSeq(data, 1, Least(Len(data), BufSize - 1 - Len(cb_queue)))
  /\ UNCHANGED <<cb_head, cb_result>>

Read(size) ==
  LET read == ReadLoop(Least(size, DataAvailableIn(cb_head, cb_tail)))
  IN  /\ cb_head' = read.head
      /\ cb_result' = [got |-> read.data, due |-> Taken(size)]
      /\ cb_queue' = Left(size)
      /\ UNCHANGED <<cb_tail, cb_memory>>

Peek(size) ==
  /\ cb_result' = [got |-> ReadLoop(Least(size, DataAvailableIn(cb_head, cb_tail))).data, due |-> Taken(size)]
  /\ UNCHANGED <<cb_head, cb_tail, cb_memory, cb_queue>>

AdvanceHead(amt) ==
  /\ cb_head' = (cb_head + Least(amt, DataAvailableIn(cb_head, cb_tail))) % BufSize
  /\ cb_queue' = Left(amt)
  /\ UNCHANGED <<cb_tail, cb_memory, cb_result>>

(* The caller has filled the memory behind tail_ptr. *)
AdvanceTail(amt) ==
  LET n == Least(amt, SpaceAvailableIn(cb_head, cb_tail))
  IN  /\ cb_tail' = (cb_tail + n) % BufSize
      /\ cb_queue' = cb_queue \o [i \in 1 .. n |-> cb_memory[(cb_tail + i - 1) % BufSize]]
      /\ UNCHANGED <<cb_head, cb_memory, cb_result>>

CircularNext ==
  \E n \in 1 .. BufSize :
    \/ \E data \in [1 .. n -> Byte] : Write(data)
    \/ Read(n) \/ Peek(n) \/ AdvanceHead(n) \/ AdvanceTail(n)

CircularSpec == CircularInit /\ [][CircularNext]_circularVars

-----------------------------------------------------------------------------
(* The bytes between head and tail are the queue, of at most BufSize - 1:  *)
(* full is never mistaken for empty, and the wrapped part is not lost.     *)
HoldsQueue ==
  /\ DataAvailableIn(cb_head, cb_tail) = Len(cb_queue)
  /\ \A i \in 1 .. Len(cb_queue) : cb_memory[(cb_head + i - 1) % BufSize] = cb_queue[i]

(* read and peek return the oldest bytes in two iterations, as they assert. *)
ReadsOldest == cb_result.got = cb_result.due

(* Wherever head and tail have wrapped to, the memory between them is the  *)
(* queue of what was written and not read, and reads return its front.     *)
BufferIsAQueue ==
  /\ HoldsQueue
  /\ ReadsOldest
=============================================================================
