---------------------------- MODULE PermissionsDb ---------------------------
(***************************************************************************)
(* PermissionsDB (common/permissions_db.cc) with its tables: the creation  *)
(* and the upgrade of the database by several threads at once, the         *)
(* shortcuts (common/shortcut_table.cc) and the permissions                *)
(* (common/name_value_table.cc).  A transaction is one step.               *)
(***************************************************************************)
EXTENDS DatabaseNames, Functions

CONSTANTS
  OldVersion,  \* versions of the databases earlier builds left
  MaxSets      \* bound: SetPermission calls

ASSUME PermissionsAssumption ==
  /\ OldVersion \subseteq Nat \ {0} /\ MaxSets \in Nat
  /\ IsFiniteSet(DOrigin) /\ DOrigin \subseteq Nat  \* ordered as the strings are

VARIABLES
  pd_disk,     \* the file: version, tables, columns and rows of Shortcut
  pd_init,     \* each thread in Init: step, the version it read, whether the last read worked
  pd_saved,    \* history: shortcuts saved by an old build or by SetShortcut, but
               \* for the loss when an unreadable version passes for an empty file
  pd_drops,    \* history: versions of the databases that were dropped
  pd_access,   \* the two access tables, by type: origin to value
  pd_sets      \* SetPermission calls so far

upgradeVars == <<pd_disk, pd_init, pd_saved, pd_drops>>
accessVars == <<pd_access, pd_sets>>
permissionsVars == <<upgradeVars, accessVars, namesVars>>

kCurrentVersion == 9
kOldestUpgradeableVersion == 1
NotSet == 0
Allowed == 1
Denied == 2
PermissionType == {"local", "location"}

Columns3 == <<"Origin", "Name", "AppUrl", "IcoUrl", "Msg">>
Columns4 == <<"ShortcutID", "Origin", "Name", "AppUrl", "Msg">>
Columns5 == <<"ShortcutID", "Origin", "Name", "AppUrl", "Msg", "Allow">>
Columns6 == <<"ShortcutID", "Origin", "Name", "AppUrl", "Msg", "Icon16x16Url",
              "Icon32x32Url", "Icon48x48Url", "Icon128x128Url", "Allow">>

ColumnsOf(v) ==
  CASE v < 3 -> <<>> [] v = 3 -> Columns3 [] v = 4 -> Columns4 [] v = 5 -> Columns5 [] OTHER -> Columns6

(* A row is a function of its columns; every value is named for its column. *)
RowOf(columns) == [c \in Range(columns) |-> c]

(* The tables of a database of version v. *)
TablesOf(v) ==
  {"VersionInfo", IF v = 1 THEN "ScourAccess" ELSE "Access"}
    \cup (IF v >= 3 THEN {"Shortcut"} ELSE {})
    \cup (IF v \in {4, 5} THEN {"ShortcutIcon"} ELSE {})
    \cup (IF v >= 7 THEN {"DatabaseNames"} ELSE {})
    \cup (IF v >= 8 THEN {"Database2s"} ELSE {})
    \cup (IF v >= 9 THEN {"LocationAccess"} ELSE {})

EmptyDisk == [version |-> 0, tables |-> {}, columns |-> <<>>, rows |-> {}]
NotStarted == [at |-> "start", version |-> 0, read |-> FALSE]

PermissionsInit ==
  /\ pd_disk = EmptyDisk
  /\ pd_init = [t \in DThread |-> NotStarted]
  /\ pd_saved = {} /\ pd_drops = {}
  /\ pd_access = [ty \in PermissionType |-> [o \in DOrigin |-> NotSet]]
  /\ pd_sets = 0
  /\ NamesInit

(* What an old build left: a database of its version with one shortcut. *)
OldBuild(v) ==
  /\ pd_disk = EmptyDisk /\ \A t \in DThread : pd_init[t] = NotStarted
  /\ pd_disk' = [version |-> v, tables |-> TablesOf(v), columns |-> ColumnsOf(v),
                 rows |-> IF v < 3 THEN {} ELSE {RowOf(ColumnsOf(v))}]
  /\ pd_saved' = IF v < 3 THEN {} ELSE {"Name"}
  /\ UNCHANGED <<pd_init, pd_drops, accessVars, namesVars>>

-----------------------------------------------------------------------------
(* INSERT INTO Shortcut SELECT ...: the columns are filled by position; what *)
(* is no column of the old table is a literal.                               *)
InsertSelect(columns, select, row) ==
  [c \in Range(columns) |->
     LET s == select[CHOOSE i \in 1 .. Len(columns) : columns[i] = c]
     IN  IF s \in DOMAIN row THEN row[s] ELSE s]

(* ALTER TABLE ... RENAME, CREATE, INSERT ... SELECT and DROP. *)
Rebuilt(d, columns, select) ==
  [d EXCEPT !.columns = columns, !.rows = {InsertSelect(columns, select, r) : r \in d.rows}]

(* UpgradeToVersion2 succeeds when its DELETE does not, that is (but for an *)
(* error of the file, left out) when there is no table to delete from.      *)
UpgradeToVersion2Works(d) == "ScourAccess" \notin d.tables

UpgradeToVersion3(d) == [d EXCEPT !.tables = @ \cup {"Shortcut"}, !.columns = Columns3]

UpgradeFromVersion3ToVersion4(d) ==
  [Rebuilt(d, Columns4, Columns4) EXCEPT !.tables = @ \cup {"ShortcutIcon"}]

UpgradeFromVersion4ToVersion5(d) ==
  Rebuilt(d, Columns5, <<"ShortcutID", "Origin", "Name", "AppUrl", "Msg", "1">>)

UpgradeFromVersion5ToVersion6(d) ==
  [Rebuilt(d, Columns6, <<"ShortcutID", "Origin", "Name", "", "", "", "", "AppUrl", "Msg", "Allow">>)
     EXCEPT !.tables = @ \ {"ShortcutIcon"}]

UpgradeToVersion7(d) == [d EXCEPT !.tables = @ \cup {"DatabaseNames"}]
UpgradeToVersion8(d) == [d EXCEPT !.tables = @ \cup {"Database2s"}]
UpgradeToVersion9(d) == [d EXCEPT !.tables = @ \cup {"LocationAccess"}]

UpgradeTo(v, d) ==
  CASE v = 2 -> d
    [] v = 3 -> UpgradeToVersion3(d)
    [] v = 4 -> UpgradeFromVersion3ToVersion4(d)
    [] v = 5 -> UpgradeFromVersion4ToVersion5(d)
    [] v = 6 -> UpgradeFromVersion5ToVersion6(d)
    [] v = 7 -> UpgradeToVersion7(d)
    [] v = 8 -> UpgradeToVersion8(d)
    [] v = 9 -> UpgradeToVersion9(d)

(* UpgradeDatabase: the cases fall through, then the version is set. *)
FallThrough(v, from, d) == IF from < v THEN UpgradeTo(v, d) ELSE d

UpgradeDatabase(d, from) ==
  LET d3 == FallThrough(3, from, FallThrough(2, from, d))
      d6 == FallThrough(6, from, FallThrough(5, from, FallThrough(4, from, d3)))
      d9 == FallThrough(9, from, FallThrough(8, from, FallThrough(7, from, d6)))
  IN  [d9 EXCEPT !.version = kCurrentVersion]

(* CreateDatabase: drop everything, create the tables, set the version. *)
CreateDatabase ==
  [version |-> kCurrentVersion, tables |-> TablesOf(kCurrentVersion), columns |-> Columns6, rows |-> {}]

-----------------------------------------------------------------------------
(* GetInt of the version: an error leaves the variable as it was, and no   *)
(* one looks whether there was one.                                        *)
ReadVersion(t) ==
  {[pd_init[t] EXCEPT !.version = IF pd_disk.version = 0 THEN @ ELSE pd_disk.version, !.read = TRUE],
   [pd_init[t] EXCEPT !.read = FALSE]}

(* Init: the version is read before the transaction. *)
InitLooks(t) ==
  /\ pd_init[t] = NotStarted
  /\ \E seen \in ReadVersion(t) :
       pd_init' = [pd_init EXCEPT ![t] = [seen EXCEPT !.at = IF seen.version = kCurrentVersion
                                                             THEN "ready" ELSE "looked"]]
  /\ UNCHANGED <<pd_disk, pd_saved, pd_drops, accessVars, namesVars>>

(* What the transaction of Init makes of the disk, given the version read. *)
InitTransaction(t, seen) ==
  \/ /\ seen.version = kCurrentVersion
     /\ pd_init' = [pd_init EXCEPT ![t] = [seen EXCEPT !.at = "ready"]]
     /\ UNCHANGED <<pd_disk, pd_saved, pd_drops>>
  \/ /\ seen.version = 0
     /\ pd_disk' = CreateDatabase
     /\ IF seen.read
        THEN pd_drops' = pd_drops \cup {pd_disk.version} /\ UNCHANGED pd_saved
        ELSE pd_saved' = {} /\ UNCHANGED pd_drops
     /\ pd_init' = [pd_init EXCEPT ![t] = [seen EXCEPT !.at = "ready", !.version = kCurrentVersion]]
  \/ /\ seen.version \in 1 .. kCurrentVersion - 1
     /\ seen.version = 1 => UpgradeToVersion2Works(pd_disk)
     /\ pd_disk' = UpgradeDatabase(pd_disk, seen.version)
     /\ pd_init' = [pd_init EXCEPT ![t] = [seen EXCEPT !.at = "ready", !.version = kCurrentVersion]]
     /\ UNCHANGED <<pd_saved, pd_drops>>

(* UpgradeDatabase fails at its first case, or the database is too new. *)
InitRefuses(t) ==
  /\ pd_init[t].at = "looked"
  /\ \E seen \in ReadVersion(t) :
       /\ \/ seen.version = 1 /\ ~UpgradeToVersion2Works(pd_disk)
          \/ seen.version > kCurrentVersion
       /\ pd_init' = [pd_init EXCEPT ![t] = [seen EXCEPT !.at = "refused"]]
  /\ UNCHANGED <<pd_disk, pd_saved, pd_drops, accessVars, namesVars>>

(* The transaction fails: a busy database, or an error. *)
InitFails(t) ==
  /\ pd_init[t].at = "looked"
  /\ pd_init' = [pd_init EXCEPT ![t].at = "failed"]
  /\ UNCHANGED <<pd_disk, pd_saved, pd_drops, accessVars, namesVars>>

(* Variant: the version is not read again. *)
InitUpgradesStale(t) ==
  /\ pd_init[t].at = "looked"
  /\ InitTransaction(t, pd_init[t])
  /\ UNCHANGED <<accessVars, namesVars>>

InitUpgrades(t) ==
  /\ pd_init[t].at = "looked"
  /\ \E seen \in ReadVersion(t) : InitTransaction(t, seen)
  /\ UNCHANGED <<accessVars, namesVars>>

(* SetShortcut: the old row is deleted and the new one inserted. *)
SetShortcut(t) ==
  /\ pd_init[t].at = "ready"
  /\ pd_disk' = [pd_disk EXCEPT !.rows = {r \in @ : r["Name"] # "Name"} \cup {RowOf(Columns6)}]
  /\ pd_saved' = {"Name"}
  /\ UNCHANGED <<pd_init, pd_drops, accessVars, namesVars>>

(* DeleteShortcut, DeleteShortcuts. *)
DeleteShortcut(t) ==
  /\ pd_init[t].at = "ready"
  /\ pd_disk' = [pd_disk EXCEPT !.rows = {}]
  /\ pd_saved' = {}
  /\ UNCHANGED <<pd_init, pd_drops, accessVars, namesVars>>

UpgradeNext ==
  \/ \E v \in OldVersion : OldBuild(v)
  \/ \E t \in DThread :
       InitLooks(t) \/ InitRefuses(t) \/ InitFails(t) \/ InitUpgrades(t) \/ SetShortcut(t) \/ DeleteShortcut(t)

-----------------------------------------------------------------------------
(* SetPermission: the value is set or cleared, or that fails unnoticed;     *)
(* local data that is no longer allowed is then deleted.                    *)
SetPermission(t, o, type, value) ==
  /\ pd_sets < MaxSets /\ pd_sets' = pd_sets + 1
  /\ dn_thread[t] = Idle
  /\ \/ pd_access' = [pd_access EXCEPT ![type][o] = value]
     \/ UNCHANGED pd_access
  /\ IF type = "local" /\ value # Allowed THEN MarkForOrigin(t, o) ELSE UNCHANGED namesVars
  /\ UNCHANGED upgradeVars

TryAllow(access, type, o) == access[type][o] # Denied

(* EnableGearsForWorker: the worker's origin gets what the host has, in one *)
(* transaction that fails if any of it was denied.                          *)
EnableGearsForWorker(worker, host) ==
  LET types == {ty \in PermissionType : pd_access[ty][host] = Allowed}
  IN  /\ \A ty \in types : TryAllow(pd_access, ty, worker)
      /\ pd_access' = [ty \in PermissionType |->
           IF ty \in types THEN [pd_access[ty] EXCEPT ![worker] = Allowed] ELSE pd_access[ty]]
      /\ UNCHANGED <<pd_sets, upgradeVars, namesVars>>

AccessNext ==
  \E t \in DThread :
    \/ \E o \in DOrigin, ty \in PermissionType, v \in {NotSet, Allowed, Denied} : SetPermission(t, o, ty, v)
    \/ \E w, h \in DOrigin : EnableGearsForWorker(w, h)
    \/ (SelectForOrigin(t) \/ RemoveFile(t)) /\ UNCHANGED <<upgradeVars, accessVars>>

PermissionsNext ==
  \/ NamesNext /\ UNCHANGED <<upgradeVars, accessVars>>
  \/ UpgradeNext
  \/ AccessNext

PermissionsSpec == PermissionsInit /\ [][PermissionsNext]_permissionsVars

(* GetPermissionsSorted: the outer join and the origins it leaves out,      *)
(* then those with an allowed permission first.                             *)
PermissionRows(access) ==
  LET joined == {o \in DOrigin : access["local"][o] # NotSet}
  IN  joined \cup {o \in DOrigin \ joined : access["location"][o] # NotSet}

SortKey(access, o) ==
  LET coalesce(v) == IF v = NotSet THEN 2 ELSE v
  IN  IF coalesce(access["location"][o]) + coalesce(access["local"][o]) < 4 THEN 0 ELSE 1

GetPermissionsSorted(access) ==
  LET Before(o, p) == SortKey(access, o) < SortKey(access, p)
                      \/ (SortKey(access, o) = SortKey(access, p) /\ o <= p)
  IN  [i \in 1 .. Cardinality(PermissionRows(access)) |->
         CHOOSE o \in PermissionRows(access) :
           Cardinality({p \in PermissionRows(access) : Before(p, o)}) = i]

-----------------------------------------------------------------------------
(* A thread whose Init succeeded works on a database of the current version *)
(* with all its tables, whichever version it found and whoever raced it.    *)
SchemaIsCurrent ==
  \A t \in DThread :
    pd_init[t].at = "ready" =>
      /\ pd_disk.version = kCurrentVersion
      /\ TablesOf(kCurrentVersion) \subseteq pd_disk.tables
      /\ pd_disk.columns = Columns6

(* A thread that read the version drops the tables of an empty database     *)
(* only: the second of two threads that create it finds it created.         *)
DropsOnlyEmpty == pd_drops \subseteq {0}

(* A shortcut that was saved has its row, under the current version, until *)
(* it is deleted or the tables are dropped: no step of the upgrade loses it. *)
ShortcutsRemain ==
  \A t \in DThread :
    pd_init[t].at = "ready" =>
      \A s \in pd_saved : \E r \in pd_disk.rows : r["Name"] = s

(* Init refuses no database from the oldest upgradeable version on.  The    *)
(* code does: UpgradeToVersion2 reports failure when its DELETE succeeds,   *)
(* so that a database of version 1 is refused for ever.                     *)
UpgradeableIsUpgraded ==
  \A t \in DThread :
    pd_init[t].at = "refused" =>
      pd_init[t].version \notin kOldestUpgradeableVersion .. kCurrentVersion - 1

(* Upgrading keeps what the shortcut was: its address and its message. *)
UpgradeKeepsShortcuts ==
  \A r \in pd_disk.rows : r["AppUrl"] = "AppUrl" /\ r["Msg"] = "Msg"

(* A denial stands until the user sets the permission again. *)
DenialStands ==
  \A ty \in PermissionType, o \in DOrigin :
    pd_access[ty][o] = Denied /\ pd_access'[ty][o] # Denied => pd_sets' # pd_sets

(* The list shows every origin with a permission once, those with an        *)
(* allowed one first.                                                       *)
AllowedComeFirst ==
  LET list == GetPermissionsSorted(pd_access)
      set == {o \in DOrigin : \E ty \in PermissionType : pd_access[ty][o] # NotSet}
      allowed == {o \in DOrigin : \E ty \in PermissionType : pd_access[ty][o] = Allowed}
  IN  /\ Range(list) = set /\ Len(list) = Cardinality(set)
      /\ \A i, j \in DOMAIN list : list[i] \notin allowed /\ list[j] \in allowed => j < i

(* The state of the permissions database between two transactions. *)
DatabaseIsSound ==
  /\ OneLiveBasename /\ NeverRefused /\ LiveFileStays
  /\ SchemaIsCurrent /\ DropsOnlyEmpty /\ ShortcutsRemain
  /\ AllowedComeFirst

(* Threads and processes that open, upgrade, name and permit at the same   *)
(* time: file names stay unique and usable, an upgrade that commits has    *)
(* gone all the way and dropped no row, and a denial stands until the user *)
(* revokes it.  That every old version can be upgraded is no part of it:   *)
(* version 1 cannot (UpgradeableIsUpgraded).                               *)
PermissionsDbIsSound ==
  [][DatabaseIsSound' /\ DenialStands]_permissionsVars
=============================================================================
