---------------------------- MODULE Serialization ---------------------------
(***************************************************************************)
(* Serializer and Deserializer (common/serialization.cc).  An object is a  *)
(* class id and its fields, some of which are objects themselves; an int   *)
(* is one unit of the buffer.                                              *)
(***************************************************************************)
EXTENDS Integers, Sequences

CONSTANTS
  Registered,    \* class ids with a constructor in the reading process
  Objects,       \* the objects that are written
  MaxObjects     \* bound: objects written to one buffer

ASSUME SerializationAssumption == MaxObjects \in Nat

VARIABLES
  ser_buffer,   \* the serializer's buffer
  ser_written   \* history: the objects WriteObject returned true for

serializationVars == <<ser_buffer, ser_written>>

Null == [class |-> 0, fields |-> <<>>]        \* SERIALIZABLE_NULL
IsObject(field) == "class" \in DOMAIN field   \* the others are [int |-> value]
Failed == [ok |-> FALSE]

SerializationInit == ser_buffer = <<>> /\ ser_written = <<>>

-----------------------------------------------------------------------------
RECURSIVE WriteObject(_, _), WriteFields(_, _, _)

(* Serialize of an object: its fields in turn; a negative int stands for   *)
(* a field that cannot be serialized.                                      *)
WriteFields(buffer, fields, i) ==
  CASE i > Len(fields) -> [ok |-> TRUE, buffer |-> buffer]
    [] i <= Len(fields) /\ IsObject(fields[i]) ->
         LET w == WriteObject(buffer, fields[i])
         IN  IF w.ok THEN WriteFields(w.buffer, fields, i + 1) ELSE w
    [] i <= Len(fields) /\ ~IsObject(fields[i]) ->
         IF fields[i].int < 0
         THEN [ok |-> FALSE, buffer |-> buffer]
         ELSE WriteFields(Append(buffer, fields[i].int), fields, i + 1)

(* The class id, a place for the size, the fields; a failure rewinds. *)
WriteObject(buffer, obj) ==
  IF obj = Null THEN [ok |-> TRUE, buffer |-> buffer \o <<0, 0>>]
  ELSE LET w == WriteFields(buffer \o <<obj.class, 0>>, obj.fields, 1)
           position == Len(buffer) + 2
       IN  IF w.ok
           THEN [ok |-> TRUE, buffer |-> [w.buffer EXCEPT ![position] = Len(w.buffer) - position]]
           ELSE [ok |-> FALSE, buffer |-> buffer]

-----------------------------------------------------------------------------
RECURSIVE CreateAndReadObject(_, _), ReadFields(_, _, _)

(* Deserialize of an object: the fields its class knows, of which `shape`  *)
(* says which are objects.                                                 *)
ReadFields(in, shape, fields) ==
  IF Len(fields) = Len(shape) THEN [ok |-> TRUE, fields |-> fields]
  ELSE IF IsObject(shape[Len(fields) + 1])
       THEN LET r == CreateAndReadObject(in, shape[Len(fields) + 1])
            IN  IF r.ok THEN ReadFields([in EXCEPT !.pos = r.pos], shape, Append(fields, r.obj)) ELSE Failed
       ELSE IF in.pos + 1 > Len(in.bytes)
            THEN Failed
            ELSE ReadFields([in EXCEPT !.pos = @ + 1], shape, Append(fields, [int |-> in.bytes[in.pos + 1]]))

(* The read position passes the object before it is read by a deserializer *)
(* of its own.                                                             *)
CreateAndReadObject(in, shape) ==
  IF in.pos + 2 > Len(in.bytes) THEN [ok |-> FALSE, obj |-> Null, pos |-> in.pos]
  ELSE LET class == in.bytes[in.pos + 1]
           size == in.bytes[in.pos + 2]
           data == in.pos + 2
           r == ReadFields([bytes |-> SubSeq(in.bytes, data + 1, data + size), pos |-> 0], shape.fields, <<>>)
       IN  IF class = 0 THEN [ok |-> TRUE, obj |-> Null, pos |-> data]
           ELSE IF class \in Registered /\ r.ok
                THEN [ok |-> TRUE, obj |-> [class |-> class, fields |-> r.fields], pos |-> data + size]
                ELSE [ok |-> FALSE, obj |-> Null, pos |-> data + size]

-----------------------------------------------------------------------------
(* Variant: a failure leaves what was written so far. *)
WriteDirty(obj) ==
  LET w == WriteFields(ser_buffer \o <<obj.class, 0>>, obj.fields, 1)
  IN  /\ Len(ser_written) < MaxObjects
      /\ ser_buffer' = IF obj = Null \/ w.ok THEN WriteObject(ser_buffer, obj).buffer ELSE w.buffer
      /\ ser_written' = IF WriteObject(ser_buffer, obj).ok THEN Append(ser_written, obj) ELSE ser_written

WriteOne(obj) ==
  LET w == WriteObject(ser_buffer, obj)
  IN  /\ Len(ser_written) < MaxObjects
      /\ ser_buffer' = w.buffer
      /\ ser_written' = IF w.ok THEN Append(ser_written, obj) ELSE ser_written

SerializationNext == \E obj \in Objects : WriteOne(obj)

-----------------------------------------------------------------------------
RECURSIVE Readable(_), ReadBack(_, _)

(* Every class in the object is known to the reader. *)
Readable(obj) ==
  obj = Null \/ (obj.class \in Registered
                   /\ \A i \in 1 .. Len(obj.fields) : IsObject(obj.fields[i]) => Readable(obj.fields[i]))

ReadBack(pos, i) ==
  i > Len(ser_written) \/
    LET r == CreateAndReadObject([bytes |-> ser_buffer, pos |-> pos], ser_written[i])
    IN  /\ r.ok = Readable(ser_written[i])
        /\ r.obj = IF r.ok THEN ser_written[i] ELSE Null
        /\ ReadBack(r.pos, i + 1)

(* Reading the buffer gives back the objects that were written, in order:  *)
(* an object of an unknown class, or that could not be serialized half-way *)
(* through, does not disturb those after it.                               *)
ReadsWhatWasWritten == ser_written # <<>> => ReadBack(0, 1)
=============================================================================
