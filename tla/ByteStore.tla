------------------------------ MODULE ByteStore -----------------------------
(***************************************************************************)
(* ByteStore (common/byte_store.cc): bytes that are appended in memory up  *)
(* to kMaxBufferSize, then in a temporary file, while blobs made earlier   *)
(* read the prefix they were made of.  The file is external: a sequence    *)
(* and a position, writes that may be short, reads that move the position. *)
(***************************************************************************)
EXTENDS Naturals, Sequences, FiniteSets, SequencesExt

CONSTANTS
  kMaxBufferSize,
  MaxBytes        \* bound: bytes offered in all

ASSUME ByteStoreAssumption == kMaxBufferSize \in Nat /\ MaxBytes \in Nat

VARIABLES
  bs_data,        \* data_
  bs_file,        \* file_: <<>> or a record in a sequence of one: bytes and position
  bs_reading,     \* file_op_ = File::READ
  bs_preserve, bs_finalized,
  bs_async,       \* async_add_length_
  bs_length,      \* length_
  bs_offered,     \* bytes offered so far; the next byte is one more
  bs_added,       \* history: the bytes callers were told are in
  bs_blobs,       \* the lengths of the blobs made so far
  bs_lost         \* history: AddDataDirect went on without the file it needs

byteVars == <<bs_data, bs_file, bs_reading, bs_preserve, bs_finalized, bs_async,
              bs_length, bs_offered, bs_added, bs_blobs, bs_lost>>

Unwritten == 0

ByteStoreInit ==
  /\ bs_data = <<>> /\ bs_file = <<>> /\ bs_reading = FALSE
  /\ bs_preserve = FALSE /\ bs_finalized = FALSE
  /\ bs_async = 0 /\ bs_length = 0 /\ bs_offered = 0
  /\ bs_added = <<>> /\ bs_blobs = {} /\ bs_lost = FALSE

IsUsingFile == bs_file # <<>>
IsUsingData == ~IsUsingFile
Chunk(n) == [i \in 1 .. n |-> bs_offered + i]

(* File::Write at the position, over what is there. *)
Written(f, bytes) ==
  [bytes |-> SubSeq(f.bytes, 1, f.pos) \o bytes
               \o SubSeq(f.bytes, f.pos + Len(bytes) + 1, Len(f.bytes)),
   pos |-> f.pos + Len(bytes)]

-----------------------------------------------------------------------------
(* The file AddDataToFile writes to: a new one gets the data first; after a *)
(* read the position goes back to the end.                                  *)
(* Variant: no Seek after a read. *)
FileToAppendUnsought ==
  IF IsUsingFile THEN bs_file[1] ELSE [bytes |-> bs_data, pos |-> Len(bs_data)]

FileToAppend ==
  IF ~IsUsingFile THEN [bytes |-> bs_data, pos |-> Len(bs_data)]
  ELSE IF bs_reading THEN [bs_file[1] EXCEPT !.pos = Len(bs_file[1].bytes)]
  ELSE bs_file[1]

(* A short write is truncated again, with the position at the end. *)
AfterShortWrite(f, part) ==
  LET bytes == SubSeq(Written(f, part).bytes, 1, f.pos)
  IN  [bytes |-> bytes, pos |-> Len(bytes)]

(* The temporary file cannot be created or filled: nothing changes. *)
NoFile == IsUsingData /\ UNCHANGED <<bs_data, bs_file, bs_reading, bs_length, bs_added>>

(* data_ once the file has its bytes. *)
DataAfterMove == IF bs_preserve \/ IsUsingFile THEN bs_data ELSE <<>>

(* AddDataToFile(bytes), with bytes possibly empty. *)
AddDataToFile(bytes) ==
  \/ NoFile
  \/ /\ bs_data' = DataAfterMove
     /\ IF bytes = <<>>
        THEN /\ bs_file' = IF IsUsingFile THEN bs_file ELSE <<FileToAppend>>
             /\ UNCHANGED <<bs_reading, bs_length, bs_added>>
        ELSE /\ bs_reading' = FALSE
             /\ \/ /\ bs_file' = <<Written(FileToAppend, bytes)>>
                   /\ bs_length' = bs_length + Len(bytes)
                   /\ bs_added' = bs_added \o bytes
                \/ /\ \E k \in 0 .. Len(bytes) - 1 :
                        bs_file' = <<AfterShortWrite(FileToAppend, SubSeq(bytes, 1, k))>>
                   /\ UNCHANGED <<bs_length, bs_added>>

Fits(n) == IsUsingData /\ n + Len(bs_data) <= kMaxBufferSize
MayAdd(n) == ~bs_finalized /\ bs_async = 0 /\ bs_offered + n <= MaxBytes

(* AddData, AddString. *)
AddData(n) ==
  /\ MayAdd(n)
  /\ bs_offered' = bs_offered + n
  /\ IF Fits(n)
     THEN /\ bs_data' = bs_data \o Chunk(n)
          /\ bs_length' = bs_length + n
          /\ bs_added' = bs_added \o Chunk(n)
          /\ UNCHANGED <<bs_file, bs_reading>>
     ELSE AddDataToFile(Chunk(n))
  /\ UNCHANGED <<bs_preserve, bs_finalized, bs_async, bs_blobs, bs_lost>>

(* AddDataDirect with a writer that gives k of the n bytes at once. *)
AddDataDirect(n, k) ==
  /\ MayAdd(k)
  /\ bs_offered' = bs_offered + k
  /\ IF Fits(n)
     THEN /\ bs_data' = bs_data \o Chunk(k)
          /\ bs_length' = bs_length + k
          /\ bs_added' = bs_added \o Chunk(k)
          /\ UNCHANGED <<bs_file, bs_reading>>
     ELSE /\ k > 0
          /\ AddDataToFile(Chunk(k))
  /\ UNCHANGED <<bs_preserve, bs_finalized, bs_async, bs_blobs, bs_lost>>

(* AddDataDirect with a writer that answers later: the room is made now, in *)
(* the data or in a file, whose absence goes unnoticed.                     *)
AddDataDirectAsync(n) ==
  /\ MayAdd(n)
  /\ IF Fits(n)
     THEN /\ bs_data' = bs_data \o [i \in 1 .. n |-> Unwritten]
          /\ UNCHANGED <<bs_file, bs_reading, bs_length, bs_added, bs_lost>>
     ELSE AddDataToFile(<<>>) /\ bs_lost' = (bs_lost \/ bs_file' = <<>>)
  /\ bs_async' = n
  /\ UNCHANGED <<bs_preserve, bs_finalized, bs_offered, bs_blobs>>

(* AddDataDirectFinishAsync: n bytes were written, into the room in the     *)
(* data or, from the write buffer, into the file.                           *)
AddDataDirectFinishAsync(n) ==
  LET size == Len(bs_data) - (bs_async - n)
      room == Len(bs_data) - bs_async
      filled == [i \in 1 .. size |-> IF bs_data[i] = Unwritten THEN bs_offered + i - room ELSE bs_data[i]]
  IN  /\ bs_async > 0 /\ n <= bs_async /\ ~bs_finalized
      /\ bs_offered' = bs_offered + n
      /\ bs_async' = 0
      /\ IF IsUsingData
         THEN /\ size >= 0
              /\ bs_data' = filled
              /\ bs_length' = bs_length + n
              /\ bs_added' = bs_added \o Chunk(n)
              /\ UNCHANGED <<bs_file, bs_reading>>
         ELSE AddDataToFile(Chunk(n))
      /\ UNCHANGED <<bs_preserve, bs_finalized, bs_blobs, bs_lost>>

-----------------------------------------------------------------------------
CreateBlob ==
  /\ bs_blobs' = bs_blobs \cup {bs_length}
  /\ UNCHANGED <<bs_data, bs_file, bs_reading, bs_preserve, bs_finalized, bs_async,
                 bs_length, bs_offered, bs_added, bs_lost>>

Finalize ==
  /\ bs_async = 0
  /\ bs_finalized' = TRUE
  /\ UNCHANGED <<bs_data, bs_file, bs_reading, bs_preserve, bs_async, bs_length,
                 bs_offered, bs_added, bs_blobs, bs_lost>>

(* GetDataElement hands out a pointer into data_, which then stays. *)
GetDataElement ==
  /\ bs_preserve' = (bs_preserve \/ (~bs_finalized /\ IsUsingData))
  /\ UNCHANGED <<bs_data, bs_file, bs_reading, bs_finalized, bs_async, bs_length,
                 bs_offered, bs_added, bs_blobs, bs_lost>>

(* Read, ReadDirect and ReadFromFile: the position moves, and the last      *)
(* operation is a read.                                                     *)
Read(offset, n) ==
  /\ IF IsUsingFile
     THEN /\ bs_reading' = TRUE
          /\ offset <= Len(bs_file[1].bytes)
          /\ bs_file' = <<[bs_file[1] EXCEPT
               !.pos = IF offset + n < Len(bs_file[1].bytes) THEN offset + n ELSE Len(bs_file[1].bytes)]>>
     ELSE UNCHANGED <<bs_reading, bs_file>>
  /\ UNCHANGED <<bs_data, bs_preserve, bs_finalized, bs_async, bs_length, bs_offered, bs_added, bs_blobs, bs_lost>>

(* Reserve: a large reservation moves to the file.  It does not look at     *)
(* async_add_length_, so a caller may reserve between the operations only.  *)
Reserve(n) ==
  /\ bs_async = 0
  /\ IsUsingData /\ n > kMaxBufferSize
  /\ AddDataToFile(<<>>)
  /\ UNCHANGED <<bs_preserve, bs_finalized, bs_async, bs_offered, bs_blobs, bs_lost>>

ByteStoreNext ==
  \/ \E n \in 1 .. kMaxBufferSize : AddData(n) \/ AddDataDirectAsync(n)
  \/ \E n \in 1 .. kMaxBufferSize : \E k \in 0 .. n : AddDataDirect(n, k)
  \/ \E n \in 0 .. kMaxBufferSize : AddDataDirectFinishAsync(n)
  \/ CreateBlob \/ Finalize \/ GetDataElement
  \/ \E o \in 0 .. 1 : Read(o, 1)
  \/ Reserve(kMaxBufferSize + 1)

ByteStoreSpec == ByteStoreInit /\ [][ByteStoreNext]_byteVars

-----------------------------------------------------------------------------
Content == IF IsUsingFile THEN bs_file[1].bytes ELSE bs_data

(* Whatever failed in between (but for the file an asynchronous addition    *)
(* does not get), what was accepted is there in its order, Length() counts  *)
(* it, and only a pending asynchronous write adds room behind it.           *)
NothingLostOrMixed ==
  ~bs_lost =>
    /\ bs_length = Len(bs_added)
    /\ Len(Content) = bs_length + (IF IsUsingData THEN bs_async ELSE 0)
    /\ SubSeq(Content, 1, bs_length) = bs_added

(* A blob reads the same bytes for good: a snapshot is a prefix of what was *)
(* accepted, through the move to the file and all later writes.             *)
SnapshotsStay ==
  ~bs_lost => \A n \in bs_blobs : SubSeq(Content', 1, n) = SubSeq(Content, 1, n)

(* Bytes whose address was handed out stay where they are, also when the    *)
(* store moves to a file.                                                   *)
PreservedStays ==
  bs_preserve /\ ~bs_lost =>
    IsPrefix(SubSeq(bs_data, 1, Len(bs_data) - (IF IsUsingData THEN bs_async ELSE 0)), bs_data')

(* Through short writes, the move to a file and asynchronous adds, bytes   *)
(* stay in order and no blob made from the store changes.                  *)
BytesStay ==
  [][/\ NothingLostOrMixed'
     /\ SnapshotsStay
     /\ PreservedStays]_byteVars
=============================================================================
