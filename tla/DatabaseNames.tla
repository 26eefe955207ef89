---------------------------- MODULE DatabaseNames ---------------------------
(***************************************************************************)
(* DatabaseNameTable (common/database_name_table.cc): which file holds the *)
(* database of an origin under a name, for several threads and processes.  *)
(* A transaction is one step (SqlDatabase shows it all or nothing), a      *)
(* statement outside one is a step, and any of them may fail.              *)
(***************************************************************************)
EXTENDS Naturals, Sequences, FiniteSets, FiniteSetsExt

CONSTANTS
  DThread,     \* threads, each with its connection
  DOrigin,
  DName,       \* database names: sequences of tokens
  MaxRows      \* bound: rows ever inserted

ASSUME NamesAssumption ==
  /\ MaxRows \in Nat
  /\ \A n \in DName : Len(n) \in Nat /\ n = [i \in 1 .. Len(n) |-> n[i]]

VARIABLES
  dn_rows,     \* DatabaseNames: origin, name, version, basename, deleted
  dn_files,    \* <<origin, basename>> of the files that exist
  dn_thread,   \* each thread: its step, and what it works on
  dn_refused   \* an INSERT broke a UNIQUE constraint

namesVars == <<dn_rows, dn_files, dn_thread, dn_refused>>

Idle == [at |-> "idle", origin |-> 0, name |-> <<>>, base |-> <<>>, left |-> {}]

NamesInit ==
  /\ dn_rows = {} /\ dn_files = {} /\ dn_refused = FALSE
  /\ dn_thread = [t \in DThread |-> Idle]

Goes(t, next) == dn_thread' = [dn_thread EXCEPT ![t] = next]

-----------------------------------------------------------------------------
(* BasenameHelper: the live rows. *)
BasenameHelper(o, n) == {r \in dn_rows : r.origin = o /\ r.name = n /\ ~r.deleted}

(* NextVersionHelper: one more than any version, deleted ones included. *)
NextVersionHelper(o, n) ==
  LET versions == {r.version : r \in {q \in dn_rows : q.origin = o /\ q.name = n}}
  IN  IF versions = {} THEN 0 ELSE Max(versions) + 1

(* The file name of a version. *)
Basename(n, v) ==
  IF v = 0 THEN n \o <<"#database">> ELSE n \o <<"#database", "[", v, "]">>

(* InsertHelper, with the two UNIQUE constraints of                         *)
(* MaybeCreateTableVersion7.                                                *)
InsertHelper(t, o, n, v) ==
  LET row == [origin |-> o, name |-> n, version |-> v, base |-> Basename(n, v), deleted |-> FALSE]
      clash == \E r \in dn_rows :
                 r.origin = o /\ (r.base = row.base \/ (r.name = n /\ r.version = v))
  IN  IF clash
      THEN /\ dn_refused' = TRUE
           /\ Goes(t, Idle)
           /\ UNCHANGED dn_rows
      ELSE /\ dn_rows' = dn_rows \cup {row}
           /\ Goes(t, [dn_thread[t] EXCEPT !.at = "named", !.base = row.base])
           /\ UNCHANGED dn_refused

(* Uses a live row, inserts when there is none, fails when there are more. *)
Resolve(t, o, n, none) ==
  LET live == BasenameHelper(o, n)
  IN  \/ /\ Cardinality(live) = 1
         /\ \E r \in live :
              Goes(t, [Idle EXCEPT !.at = "named", !.origin = o, !.name = n, !.base = r.base])
         /\ UNCHANGED <<dn_rows, dn_refused>>
      \/ Cardinality(live) > 1 /\ Goes(t, Idle) /\ UNCHANGED <<dn_rows, dn_refused>>
      \/ live = {} /\ none

(* GetDatabaseBasename: a look outside a transaction first. *)
LookForBasename(t, o, n) ==
  /\ dn_thread[t] = Idle
  /\ Resolve(t, o, n, /\ Goes(t, [Idle EXCEPT !.at = "looked", !.origin = o, !.name = n])
                      /\ UNCHANGED <<dn_rows, dn_refused>>)
  /\ UNCHANGED dn_files

(* Then a transaction that looks again and inserts the next version; or it *)
(* fails.                                                                  *)
AddBasename(t) ==
  /\ dn_thread[t].at = "looked"
  /\ LET o == dn_thread[t].origin  n == dn_thread[t].name
     IN  \/ Resolve(t, o, n, /\ Cardinality(dn_rows) < MaxRows
                             /\ InsertHelper(t, o, n, NextVersionHelper(o, n)))
         \/ Goes(t, Idle) /\ UNCHANGED <<dn_rows, dn_refused>>
  /\ UNCHANGED dn_files

(* The caller opens the file, which creates it. *)
OpenDatabase(t) ==
  /\ dn_thread[t].at = "named"
  /\ dn_files' = dn_files \cup {<<dn_thread[t].origin, dn_thread[t].base>>}
  /\ Goes(t, [dn_thread[t] EXCEPT !.at = "open"])
  /\ UNCHANGED <<dn_rows, dn_refused>>

CloseDatabase(t) ==
  /\ dn_thread[t].at = "open"
  /\ Goes(t, Idle)
  /\ UNCHANGED <<dn_rows, dn_files, dn_refused>>

Deleted(rows) == {[r EXCEPT !.deleted = TRUE] : r \in rows} \cup (dn_rows \ rows)

(* MarkDatabaseCorrupt, by the user of the database. *)
MarkDatabaseCorrupt(t) ==
  /\ dn_thread[t].at = "open"
  /\ dn_rows' = Deleted({r \in dn_rows : r.origin = dn_thread[t].origin
                                       /\ r.name = dn_thread[t].name
                                       /\ r.base = dn_thread[t].base})
  /\ Goes(t, Idle)
  /\ UNCHANGED <<dn_files, dn_refused>>

(* DeleteDatabase: one row, then its file, whose removal may fail. *)
DeleteDatabase(t) ==
  /\ dn_thread[t] = Idle
  /\ \E r \in dn_rows :
       /\ dn_rows' = Deleted({q \in dn_rows : q.origin = r.origin /\ q.base = r.base})
       /\ Goes(t, [Idle EXCEPT !.at = "remove", !.origin = r.origin, !.left = {r.base}])
  /\ UNCHANGED <<dn_files, dn_refused>>

(* DeleteDatabasesForOrigin: the UPDATE may fail, and the rest goes on. *)
MarkForOrigin(t, o) ==
  /\ dn_thread[t] = Idle
  /\ \/ dn_rows' = Deleted({r \in dn_rows : r.origin = o})
     \/ UNCHANGED dn_rows
  /\ Goes(t, [Idle EXCEPT !.at = "select", !.origin = o])
  /\ UNCHANGED <<dn_files, dn_refused>>

SelectForOrigin(t) ==
  /\ dn_thread[t].at = "select"
  /\ Goes(t, [dn_thread[t] EXCEPT !.at = "remove",
              !.left = {r.base : r \in {q \in dn_rows : q.origin = dn_thread[t].origin /\ q.deleted}}])
  /\ UNCHANGED <<dn_rows, dn_files, dn_refused>>

(* File::Delete of one of them, or its failure: a file may still be open.  *)
RemoveFile(t) ==
  /\ dn_thread[t].at = "remove"
  /\ \/ dn_thread[t].left = {} /\ Goes(t, Idle) /\ UNCHANGED dn_files
     \/ \E b \in dn_thread[t].left :
          /\ Goes(t, [dn_thread[t] EXCEPT !.left = @ \ {b}])
          /\ \/ dn_files' = dn_files \ {<<dn_thread[t].origin, b>>}
             \/ UNCHANGED dn_files
  /\ UNCHANGED <<dn_rows, dn_refused>>

NamesNext ==
  \E t \in DThread :
    \/ \E o \in DOrigin, n \in DName : LookForBasename(t, o, n)
    \/ AddBasename(t) \/ OpenDatabase(t) \/ CloseDatabase(t)
    \/ MarkDatabaseCorrupt(t) \/ DeleteDatabase(t)
    \/ \E o \in DOrigin : MarkForOrigin(t, o)
    \/ SelectForOrigin(t) \/ RemoveFile(t)

-----------------------------------------------------------------------------
(* Never two live rows for an origin and a name, which BasenameHelper could *)
(* not recover from.                                                        *)
OneLiveBasename ==
  \A r, q \in dn_rows :
    r.origin = q.origin /\ r.name = q.name /\ ~r.deleted /\ ~q.deleted => r = q

(* An insertion never meets the UNIQUE constraints: versions are not used   *)
(* twice and no two names share a file.                                     *)
NeverRefused == ~dn_refused

(* The file of a database in use stays while its row is live, whatever      *)
(* deletions of earlier versions are still under way.                       *)
LiveFileStays ==
  \A t \in DThread :
    dn_thread[t].at = "open" =>
      \/ <<dn_thread[t].origin, dn_thread[t].base>> \in dn_files
      \/ \A r \in dn_rows : r.origin = dn_thread[t].origin /\ r.base = dn_thread[t].base => r.deleted
=============================================================================
