----------------------------- MODULE SqlDatabase ----------------------------
(***************************************************************************)
(* SQLDatabase and SQLTransaction (common/sqlite_wrapper.cc, .h): nested   *)
(* transactions simulated by a count over one SQLite connection per        *)
(* thread, with the optional transaction mutex.  SQLite itself is          *)
(* external: one writer at a time, a begin and a commit that may fail.     *)
(* The transaction listener, which no code here sets, is left out.         *)
(***************************************************************************)
EXTENDS Naturals, FiniteSets

CONSTANTS
  Conn,        \* connections to one database file
  Guarded,     \* the connections that share the transaction mutex
  MaxDepth,    \* bound: nested transactions
  MaxWrites    \* bound: statements that write

ASSUME SqlAssumption == Guarded \subseteq Conn /\ MaxDepth \in Nat /\ MaxWrites \in Nat

VARIABLES
  sd_open,      \* db_ # NULL
  sd_count,     \* transaction_count_
  sd_rollback,  \* needs_rollback_
  sd_mutex,     \* owners of the transaction mutex
  sd_locked,    \* connections between the lock and BEGIN IMMEDIATE
  sd_writer,    \* SQLite: connections with the reserved lock
  sd_pending,   \* SQLite: writes of the open transaction
  sd_disk,      \* SQLite: committed writes
  sd_writes,    \* writes so far
  sd_ended      \* history: outermost transactions: their writes, what the caller was told

sqlVars == <<sd_open, sd_count, sd_rollback, sd_mutex, sd_locked, sd_writer,
             sd_pending, sd_disk, sd_writes, sd_ended>>

SqlInit ==
  /\ sd_open = [c \in Conn |-> FALSE]
  /\ sd_count = [c \in Conn |-> 0]
  /\ sd_rollback = [c \in Conn |-> FALSE]
  /\ sd_mutex = {} /\ sd_locked = {} /\ sd_writer = {}
  /\ sd_pending = {} /\ sd_disk = {} /\ sd_writes = 0
  /\ sd_ended = {}

-----------------------------------------------------------------------------
(* Open: OpenConnection and ConfigureConnection, each of which may fail and *)
(* leave db_ NULL; the count and the flag are reset before anything opens.  *)
Open(c) ==
  /\ ~sd_open[c] /\ c \notin sd_locked
  /\ sd_count' = [sd_count EXCEPT ![c] = 0]
  /\ sd_rollback' = [sd_rollback EXCEPT ![c] = FALSE]
  /\ \E ok \in BOOLEAN : sd_open' = [sd_open EXCEPT ![c] = ok]
  /\ UNCHANGED <<sd_mutex, sd_locked, sd_writer, sd_pending, sd_disk, sd_writes, sd_ended>>

(* Close, which abandons an open transaction: SQLite rolls it back, the     *)
(* mutex is unlocked and the count stays.                                   *)
Close(c) ==
  /\ sd_open[c] /\ c \notin sd_locked
  /\ sd_open' = [sd_open EXCEPT ![c] = FALSE]
  /\ sd_writer' = sd_writer \ {c}
  /\ sd_pending' = IF c \in sd_writer THEN {} ELSE sd_pending
  /\ sd_mutex' = IF sd_count[c] > 0 THEN sd_mutex \ {c} ELSE sd_mutex
  /\ UNCHANGED <<sd_count, sd_rollback, sd_locked, sd_disk, sd_writes, sd_ended>>

(* BeginTransaction inside a transaction: count, unless it is already       *)
(* doomed.                                                                  *)
BeginNested(c) ==
  /\ sd_open[c] /\ sd_count[c] \in 1 .. MaxDepth - 1
  /\ ~sd_rollback[c]
  /\ sd_count' = [sd_count EXCEPT ![c] = @ + 1]
  /\ UNCHANGED <<sd_open, sd_rollback, sd_mutex, sd_locked, sd_writer, sd_pending,
                 sd_disk, sd_writes, sd_ended>>

(* The outermost one waits for the mutex first. *)
BeginLocks(c) ==
  /\ sd_open[c] /\ sd_count[c] = 0 /\ c \notin sd_locked
  /\ c \in Guarded => sd_mutex = {}
  /\ sd_mutex' = sd_mutex \cup ({c} \cap Guarded)
  /\ sd_locked' = sd_locked \cup {c}
  /\ UNCHANGED <<sd_open, sd_count, sd_rollback, sd_writer, sd_pending, sd_disk,
                 sd_writes, sd_ended>>

(* BEGIN IMMEDIATE fails when kBusyTimeout is over, or for any other error. *)
BeginFails(c) ==
  /\ c \in sd_locked
  /\ sd_locked' = sd_locked \ {c}
  /\ sd_mutex' = sd_mutex \ {c}
  /\ UNCHANGED <<sd_open, sd_count, sd_rollback, sd_writer, sd_pending, sd_disk,
                 sd_writes, sd_ended>>

(* BEGIN IMMEDIATE succeeds when no other connection writes. *)
BeginSucceeds(c) ==
  /\ c \in sd_locked /\ sd_writer = {}
  /\ sd_locked' = sd_locked \ {c}
  /\ sd_writer' = {c}
  /\ sd_pending' = {}
  /\ sd_rollback' = [sd_rollback EXCEPT ![c] = FALSE]
  /\ sd_count' = [sd_count EXCEPT ![c] = @ + 1]
  /\ UNCHANGED <<sd_open, sd_mutex, sd_disk, sd_writes, sd_ended>>

(* A statement that writes: into the transaction, or on its own when there *)
(* is none and nobody else writes.                                         *)
Execute(c) ==
  /\ sd_open[c] /\ c \notin sd_locked
  /\ sd_writes < MaxWrites
  /\ sd_writes' = sd_writes + 1
  /\ \/ /\ c \in sd_writer
        /\ sd_pending' = sd_pending \cup {sd_writes}
        /\ UNCHANGED sd_disk
     \/ /\ sd_writer = {}
        /\ sd_disk' = sd_disk \cup {sd_writes}
        /\ UNCHANGED sd_pending
  /\ UNCHANGED <<sd_open, sd_count, sd_rollback, sd_mutex, sd_locked, sd_writer, sd_ended>>

-----------------------------------------------------------------------------
(* Whether the last COMMIT is tried. *)
(* Variant: a nested rollback is forgotten. *)
MayCommitAlways(c, rollback) == TRUE

MayCommit(c, rollback) == ~rollback

(* EndTransaction at the outermost level: COMMIT, which may fail and is    *)
(* then rolled back, or ROLLBACK; the mutex is unlocked either way.        *)
EndOutermost(c, rollback) ==
  /\ sd_count[c] = 1 /\ sd_open[c]
  /\ sd_rollback' = [sd_rollback EXCEPT ![c] = rollback]
  /\ \/ /\ MayCommit(c, rollback)
        /\ sd_disk' = sd_disk \cup sd_pending
        /\ sd_ended' = sd_ended \cup {[writes |-> sd_pending, ok |-> ~rollback]}
     \/ /\ sd_ended' = sd_ended \cup {[writes |-> sd_pending, ok |-> FALSE]}
        /\ UNCHANGED sd_disk
  /\ sd_count' = [sd_count EXCEPT ![c] = 0]
  /\ sd_pending' = {}
  /\ sd_writer' = sd_writer \ {c}
  /\ sd_mutex' = sd_mutex \ {c}
  /\ UNCHANGED <<sd_open, sd_locked, sd_writes>>

(* At an inner level, or on a connection that was closed meanwhile: count. *)
EndNested(c, rollback) ==
  /\ sd_count[c] > 0
  /\ sd_count[c] > 1 \/ ~sd_open[c]
  /\ sd_rollback' = [sd_rollback EXCEPT ![c] = rollback]
  /\ sd_count' = [sd_count EXCEPT ![c] = @ - 1]
  /\ UNCHANGED <<sd_open, sd_mutex, sd_locked, sd_writer, sd_pending, sd_disk,
                 sd_writes, sd_ended>>

EndTransaction(c, rollback) == EndOutermost(c, rollback) \/ EndNested(c, rollback)

(* RollbackTransaction, which the destructor of a SQLTransaction that was  *)
(* not ended calls too.                                                    *)
RollbackTransaction(c) == EndTransaction(c, TRUE)

CommitTransaction(c) == EndTransaction(c, sd_rollback[c])

(* DropAllObjects: every table in one transaction of its own level: the    *)
(* drops count as writes, and a failed drop ends with a rollback.          *)
DropAllObjects(c) ==
  /\ sd_open[c] /\ c \in sd_writer /\ ~sd_rollback[c]
  /\ sd_count[c] \in 1 .. MaxDepth - 1 /\ sd_writes < MaxWrites
  /\ sd_writes' = sd_writes + 1
  /\ sd_pending' = sd_pending \cup {sd_writes}
  /\ \E failed \in BOOLEAN : sd_rollback' = [sd_rollback EXCEPT ![c] = failed]
  /\ UNCHANGED <<sd_open, sd_count, sd_mutex, sd_locked, sd_writer, sd_disk, sd_ended>>

SqlNext ==
  \E c \in Conn :
    \/ Open(c) \/ Close(c)
    \/ BeginNested(c) \/ BeginLocks(c) \/ BeginFails(c) \/ BeginSucceeds(c)
    \/ Execute(c) \/ DropAllObjects(c)
    \/ RollbackTransaction(c) \/ CommitTransaction(c)

SqlSpec == SqlInit /\ [][SqlNext]_sqlVars

-----------------------------------------------------------------------------
(* The count, SQLite's lock and the mutex say the same of an open          *)
(* connection; a closed one holds nothing, however it was closed.          *)
LocksMatchCount ==
  \A c \in Conn :
    /\ c \in sd_writer <=> sd_open[c] /\ sd_count[c] > 0
    /\ c \in sd_mutex <=> c \in Guarded /\ (c \in sd_writer \/ c \in sd_locked)

(* A transaction whose outermost commit was reported is on disk as a       *)
(* whole; of one that was not, nested rollbacks and failed commits         *)
(* included, nothing is.                                                   *)
AllOrNothing ==
  \A e \in sd_ended : IF e.ok THEN e.writes \subseteq sd_disk ELSE e.writes \cap sd_disk = {}

(* Nested transactions of several connections: locks are held exactly      *)
(* while one is open, and the outermost one takes effect as a whole or not *)
(* at all.                                                                 *)
TransactionsNest ==
  /\ LocksMatchCount
  /\ AllOrNothing
=============================================================================
