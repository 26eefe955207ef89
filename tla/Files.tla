-------------------------------- MODULE Files -------------------------------
(***************************************************************************)
(* common/file_posix.cc, file_win32.{h,cc}, file_wince.cc: class File, used *)
(* by several threads (or processes) on one file system.  Each system call  *)
(* is a step; an operation of File is the steps between which others run.   *)
(* Contents are abstracted to "something was written".                      *)
(***************************************************************************)
EXTENDS Integers, Sequences, FiniteSets, SequencesExt

CONSTANTS
  FThread,     \* threads that use the files
  MaxFileOps   \* bound: operations begun

ASSUME FilesAssumption == MaxFileOps \in Nat /\ FThread # {}

VARIABLES
  fl_build,  \* which of the sources was compiled
  fl_tree,   \* the file system: the identity of what a path names
  fl_dirs,   \* the identities that are directories
  fl_full,   \* the identities of files with something in them
  fl_pc,     \* per thread: the operation under way, or the last one's result
  fl_own,    \* per thread: the File object, or temporary directory, it has
  fl_made,   \* identities given out
  fl_ops     \* history: operations begun

fileVars == <<fl_build, fl_tree, fl_dirs, fl_full, fl_pc, fl_own, fl_made, fl_ops>>

TempPath == <<"tmp">>
FPath == {TempPath, <<"d">>, <<"d", "s">>, <<"d", "s", "f">>}
Absent == 0
NoFileObject == [path |-> <<>>, auto_delete |-> FALSE, id |-> Absent, mode |-> "READ"]
Returned == [op |-> "none", at |-> "returned", path |-> <<>>, ok |-> TRUE, lost |-> FALSE, grown |-> FALSE,
             k |-> 0, stack |-> <<>>, mode |-> "", emptied |-> FALSE,
             asked |-> "", access |-> "", made |-> FALSE, bare |-> FALSE]

FilesInit ==
  /\ fl_build = "none"
  /\ fl_tree = [p \in FPath |-> Absent]
  /\ fl_dirs = {} /\ fl_full = {}
  /\ fl_pc = [t \in FThread |-> Returned]
  /\ fl_own = [t \in FThread |-> NoFileObject]
  /\ fl_made = 0 /\ fl_ops = 0

ChooseFileBuild ==
  /\ fl_build = "none"
  /\ fl_build' \in {"posix", "win32", "wince"}
  /\ UNCHANGED <<fl_tree, fl_dirs, fl_full, fl_pc, fl_own, fl_made, fl_ops>>

-----------------------------------------------------------------------------
(* File::Exists and File::DirectoryExists. *)
Exists(p) == fl_tree[p] # Absent /\ fl_tree[p] \notin fl_dirs

DirectoryExists(p) == fl_tree[p] \in fl_dirs

Children(p) == {q \in FPath : Len(q) = Len(p) + 1 /\ SubSeq(q, 1, Len(p)) = p}
ParentThere(p) == Len(p) > 1 => DirectoryExists(Front(p))
MayCreate(p) == fl_tree[p] = Absent /\ ParentThere(p)

(* The system calls, external: thread t makes, removes or leaves a path and *)
(* goes on with pc; an operation of another thread notes (history) that a   *)
(* path came (grown) or went (lost) while it was under way.                 *)
Noticed(t, pc, lost, grown) ==
  [u \in FThread |-> IF u = t THEN pc ELSE [fl_pc[u] EXCEPT !.lost = @ \/ lost, !.grown = @ \/ grown]]

MakePath(t, p, isDir, pc) ==
  /\ fl_made' = fl_made + 1
  /\ fl_tree' = [fl_tree EXCEPT ![p] = fl_made + 1]
  /\ fl_dirs' = IF isDir THEN fl_dirs \cup {fl_made + 1} ELSE fl_dirs
  /\ fl_pc' = Noticed(t, pc, FALSE, TRUE)

RemovePath(t, p, pc) ==
  /\ fl_tree' = [fl_tree EXCEPT ![p] = Absent]
  /\ fl_pc' = Noticed(t, pc, TRUE, FALSE)
  /\ UNCHANGED <<fl_dirs, fl_made>>

LeavePaths(t, pc) ==
  /\ fl_pc' = [fl_pc EXCEPT ![t] = pc]
  /\ UNCHANGED <<fl_tree, fl_dirs, fl_made>>

Return(t, ok) == [fl_pc[t] EXCEPT !.at = "returned", !.ok = ok, !.stack = <<>>]
GoesTo(t, at) == [fl_pc[t] EXCEPT !.at = at]
At(t, at) == fl_pc[t].at = at
Windows == fl_build \in {"win32", "wince"}

Begin(t, pc) ==
  /\ fl_build # "none" /\ At(t, "returned") /\ fl_ops < MaxFileOps
  /\ fl_ops' = fl_ops + 1
  /\ LeavePaths(t, pc)
  /\ UNCHANGED <<fl_build, fl_full, fl_own>>

Op(op, p, at) == [Returned EXCEPT !.op = op, !.path = p, !.at = at]
Steps == UNCHANGED <<fl_build, fl_ops>>

-----------------------------------------------------------------------------
(* File::RecursivelyCreateDir: a look, then one directory after another. *)
RecursivelyCreateDir(t, p) ==
  Begin(t, IF fl_build # "wince" /\ DirectoryExists(p) THEN Op("create", p, "returned")
           ELSE [Op("create", p, "mkdir") EXCEPT !.k = 1])

Advance(t) ==
  IF fl_pc[t].k = Len(fl_pc[t].path) THEN Return(t, TRUE)
  ELSE [fl_pc[t] EXCEPT !.at = "mkdir", !.k = @ + 1]

(* Variant: a path that exists is an error. *)
AlreadyExistsFails(t) == Return(t, FALSE)

AlreadyExists(t) == GoesTo(t, "look")

MakeDirectory(t) ==
  /\ fl_build # "wince" /\ At(t, "mkdir")
  /\ LET p == SubSeq(fl_pc[t].path, 1, fl_pc[t].k)
     IN  \/ MayCreate(p) /\ MakePath(t, p, TRUE, Advance(t))
         \/ fl_tree[p] # Absent /\ LeavePaths(t, AlreadyExists(t))
         \/ fl_tree[p] = Absent /\ ~ParentThere(p) /\ LeavePaths(t, Return(t, FALSE))
  /\ Steps /\ UNCHANGED <<fl_full, fl_own>>

LookAtDirectory(t) ==
  /\ At(t, "look")
  /\ LeavePaths(t, IF DirectoryExists(SubSeq(fl_pc[t].path, 1, fl_pc[t].k)) THEN Advance(t) ELSE Return(t, FALSE))
  /\ Steps /\ UNCHANGED <<fl_full, fl_own>>

(* Windows CE: SHCreateDirectoryEx (external) makes one of the directories *)
(* at a time; where one exists already, File::Exists tells a file.         *)
MakeDirectoryCE(t) ==
  /\ fl_build = "wince" /\ At(t, "mkdir")
  /\ LET p == SubSeq(fl_pc[t].path, 1, fl_pc[t].k)
     IN  \/ MayCreate(p) /\ MakePath(t, p, TRUE, Advance(t))
         \/ DirectoryExists(p) /\ LeavePaths(t, Advance(t))
         \/ Exists(p) /\ LeavePaths(t, Return(t, FALSE))
         \/ fl_tree[p] = Absent /\ ~ParentThere(p) /\ LeavePaths(t, Return(t, FALSE))
  /\ Steps /\ UNCHANGED <<fl_full, fl_own>>

-----------------------------------------------------------------------------
(* ReadDir; FindFirstFile and FindNextFile: the entries of a directory,     *)
(* each with whether it is a directory.                                     *)
Entries(p) == {<<q, DirectoryExists(q)>> : q \in {c \in Children(p) : fl_tree[c] # Absent}}

Entered(t, p) == [fl_pc[t] EXCEPT !.at = "delete", !.stack = Append(@, [dir |-> p, rest |-> Entries(p)])]

(* File::DeleteRecursively; File::RecursiveForEach with DeleteCallback. *)
DeleteRecursively(t, p) ==
  /\ p = TempPath => fl_own[t].path = p /\ ~fl_own[t].auto_delete
  /\ Begin(t, IF DirectoryExists(p) THEN Op("delete", p, "readdir") ELSE [Op("delete", p, "returned") EXCEPT !.ok = FALSE])

ReadDir(t) ==
  /\ At(t, "readdir")
  /\ LET p == fl_pc[t].path
     IN  LeavePaths(t, IF DirectoryExists(p) THEN Entered(t, p) ELSE Return(t, FALSE))
  /\ Steps /\ UNCHANGED <<fl_full, fl_own>>

DirFrame(t) == Last(fl_pc[t].stack)
Rest(t, entries) == [fl_pc[t] EXCEPT !.stack[Len(fl_pc[t].stack)].rest = entries]

DeleteEntry(t, e) ==
  LET pc == Rest(t, DirFrame(t).rest \ {e})
  IN  IF e[2]
      THEN LeavePaths(t, IF DirectoryExists(e[1]) THEN [pc EXCEPT !.stack = Append(@, [dir |-> e[1], rest |-> Entries(e[1])])]
                    ELSE Return(t, FALSE))
      ELSE IF Exists(e[1]) THEN RemovePath(t, e[1], pc) ELSE LeavePaths(t, Return(t, FALSE))

DeleteStep(t) ==
  /\ At(t, "delete")
  /\ \E e \in DirFrame(t).rest : DeleteEntry(t, e)
  /\ Steps /\ UNCHANGED <<fl_full, fl_own>>

(* The directory itself, when its entries are gone. *)
RemoveDirectory(t) ==
  /\ At(t, "delete") /\ DirFrame(t).rest = {}
  /\ LET p == DirFrame(t).dir
         empty == DirectoryExists(p) /\ Entries(p) = {}
     IN  IF empty
         THEN RemovePath(t, p, IF Len(fl_pc[t].stack) = 1 THEN Return(t, TRUE) ELSE [fl_pc[t] EXCEPT !.stack = Front(@)])
         ELSE LeavePaths(t, Return(t, FALSE))
  /\ fl_own' = IF fl_pc[t].path = TempPath /\ At(t, "returned")' THEN [fl_own EXCEPT ![t] = NoFileObject] ELSE fl_own
  /\ Steps /\ UNCHANGED fl_full

-----------------------------------------------------------------------------
Access == {"READ", "READ_WRITE"}   \* WRITE opens as READ_WRITE does
ExistsMode == {"NEVER_FAIL", "FAIL_IF_NOT_EXISTS", "FAIL_IF_EXISTS", "ALWAYS_OVERWRITE"}

(* A call of File::Open.  History of a call: what it asked for (asked,      *)
(* access), and when it succeeds whether it made the file (made) and        *)
(* whether the file has nothing in it then (bare).                          *)
Asks(p, at, access, exists) == [Op("open", p, at) EXCEPT !.asked = exists, !.access = access]

(* File::Open in file_posix.cc.  The switch on the access replaces what     *)
(* ALWAYS_OVERWRITE chose.                                                  *)
OpenRefuses(p, access, exists) ==
  \/ exists = "FAIL_IF_NOT_EXISTS" /\ ~Exists(p)
  \/ exists = "FAIL_IF_EXISTS" /\ Exists(p)
  \/ exists = "ALWAYS_OVERWRITE" /\ access = "READ"

OpenPosix(t, p, access, exists) ==
  /\ fl_build = "posix" /\ fl_own[t] = NoFileObject /\ p # TempPath
  /\ Begin(t, IF OpenRefuses(p, access, exists) THEN [Asks(p, "returned", access, exists) EXCEPT !.ok = FALSE]
              ELSE [Asks(p, "mode", access, exists) EXCEPT !.mode = access])

ModeFrom(t) == IF fl_pc[t].mode = "READ" THEN "rb" ELSE IF Exists(fl_pc[t].path) THEN "rb+" ELSE "w+"

OpenChooses(t) ==
  /\ At(t, "mode")
  /\ LeavePaths(t, [fl_pc[t] EXCEPT !.mode = ModeFrom(t), !.at = "fopen"])
  /\ Steps /\ UNCHANGED <<fl_full, fl_own>>

HasFile(t, p, auto, id, mode) ==
  fl_own' = [fl_own EXCEPT ![t] = [path |-> p, auto_delete |-> auto, id |-> id, mode |-> mode]]

(* fopen (external): "w+" makes a file or empties it. *)
OpenFopen(t) ==
  /\ At(t, "fopen")
  /\ LET p == fl_pc[t].path  mode == fl_pc[t].mode
     IN  \/ /\ mode = "w+" /\ MayCreate(p)
            /\ MakePath(t, p, FALSE, [Return(t, TRUE) EXCEPT !.made = TRUE, !.bare = TRUE])
            /\ HasFile(t, p, FALSE, fl_made + 1, "READ_WRITE")
            /\ UNCHANGED fl_full
         \/ /\ mode = "w+" /\ Exists(p)
            /\ LeavePaths(t, [Return(t, TRUE) EXCEPT !.emptied = fl_tree[p] \in fl_full, !.bare = TRUE])
            /\ HasFile(t, p, FALSE, fl_tree[p], "READ_WRITE")
            /\ fl_full' = fl_full \ {fl_tree[p]}
         \/ /\ mode # "w+" /\ (Exists(p) \/ (mode = "rb" /\ DirectoryExists(p)))
            /\ LeavePaths(t, [Return(t, TRUE) EXCEPT !.bare = fl_tree[p] \notin fl_full])
            /\ HasFile(t, p, FALSE, fl_tree[p], IF mode = "rb" THEN "READ" ELSE "READ_WRITE")
            /\ UNCHANGED fl_full
         \/ /\ IF mode = "w+" THEN ~MayCreate(p) /\ ~Exists(p)
               ELSE ~Exists(p) /\ ~(mode = "rb" /\ DirectoryExists(p))
            /\ LeavePaths(t, Return(t, FALSE))
            /\ UNCHANGED <<fl_full, fl_own>>
  /\ Steps

(* File::Open in file_win32.cc and file_wince.cc: one CreateFileW with the  *)
(* disposition the modes choose.                                            *)
Disposition(access, exists) ==
  CASE exists = "NEVER_FAIL" -> IF access = "READ" THEN "OPEN_EXISTING" ELSE "OPEN_ALWAYS"
    [] exists = "FAIL_IF_NOT_EXISTS" -> "OPEN_EXISTING"
    [] exists = "FAIL_IF_EXISTS" -> IF access = "READ" THEN "NULL" ELSE "CREATE_NEW"
    [] exists = "ALWAYS_OVERWRITE" -> IF access = "READ" THEN "NULL" ELSE "CREATE_ALWAYS"

OpenWin32(t, p, access, exists) ==
  /\ Windows /\ fl_own[t] = NoFileObject /\ p # TempPath
  /\ At(t, "returned") /\ fl_ops < MaxFileOps
  /\ fl_ops' = fl_ops + 1
  /\ LET how == Disposition(access, exists)
         pc == [Asks(p, "returned", access, exists) EXCEPT !.mode = how]
     IN  \/ /\ how \in {"OPEN_ALWAYS", "CREATE_NEW", "CREATE_ALWAYS"} /\ MayCreate(p)
            /\ MakePath(t, p, FALSE, [pc EXCEPT !.made = TRUE, !.bare = TRUE]) /\ HasFile(t, p, FALSE, fl_made + 1, access)
            /\ UNCHANGED fl_full
         \/ /\ how \in {"OPEN_ALWAYS", "OPEN_EXISTING", "CREATE_ALWAYS"} /\ Exists(p)
            /\ LeavePaths(t, [pc EXCEPT !.bare = how = "CREATE_ALWAYS" \/ fl_tree[p] \notin fl_full])
            /\ HasFile(t, p, FALSE, fl_tree[p], access)
            /\ fl_full' = IF how = "CREATE_ALWAYS" THEN fl_full \ {fl_tree[p]} ELSE fl_full
         \/ /\ \/ how = "NULL"
               \/ ~MayCreate(p) /\ ~Exists(p)
               \/ how = "CREATE_NEW" /\ ~MayCreate(p)
               \/ how = "OPEN_EXISTING" /\ ~Exists(p)
            /\ LeavePaths(t, [pc EXCEPT !.ok = FALSE])
            /\ UNCHANGED <<fl_full, fl_own>>
  /\ UNCHANGED fl_build

(* File::Write through the handle, whatever its path names by now. *)
WriteFile(t) ==
  /\ At(t, "returned") /\ fl_own[t].mode # "READ"
  /\ fl_full' = fl_full \cup {fl_own[t].id}
  /\ UNCHANGED <<fl_build, fl_tree, fl_dirs, fl_pc, fl_own, fl_made, fl_ops>>

(* File::CreateNewFile: O_EXCL, CREATE_NEW. *)
CreateNewFile(t, p) ==
  /\ fl_build # "none" /\ At(t, "returned") /\ fl_ops < MaxFileOps /\ p # TempPath
  /\ fl_ops' = fl_ops + 1
  /\ IF MayCreate(p) THEN MakePath(t, p, FALSE, Op("new", p, "returned"))
     ELSE LeavePaths(t, [Op("new", p, "returned") EXCEPT !.ok = FALSE])
  /\ UNCHANGED <<fl_build, fl_full, fl_own>>

-----------------------------------------------------------------------------
(* Temporary files and directories: mkstemp, mkdtemp and GetTempFileName    *)
(* (external) make a thing of a name that is free, or fail.                 *)
Temporary == {"file", "named", "directory"}

MakesTemp(t, kind) ==
  /\ fl_build # "none" /\ fl_own[t] = NoFileObject
  /\ At(t, "returned") /\ fl_ops < MaxFileOps
  /\ fl_ops' = fl_ops + 1
  /\ UNCHANGED <<fl_build, fl_full>>

(* CreateNewNamedTempFile, and CreateNewTempFile up to its unlink. *)
CreateNewTempPosix(t, kind) ==
  /\ fl_build = "posix" /\ MakesTemp(t, kind) /\ MayCreate(TempPath)
  /\ MakePath(t, TempPath, kind = "directory",
          [Op("temp", TempPath, IF kind = "file" THEN "unlink" ELSE "returned") EXCEPT !.mode = kind])
  /\ HasFile(t, TempPath, kind # "directory", fl_made + 1, "READ_WRITE")

Unnamed(file) == [file EXCEPT !.path = <<>>, !.auto_delete = FALSE]

Unlink(t) ==
  /\ At(t, "unlink")
  /\ IF Exists(TempPath)
     THEN RemovePath(t, TempPath, Return(t, TRUE)) /\ fl_own' = [fl_own EXCEPT ![t] = Unnamed(@)]
     ELSE LeavePaths(t, Return(t, FALSE)) /\ fl_own' = [fl_own EXCEPT ![t] = NoFileObject]
  /\ Steps /\ UNCHANGED fl_full

(* CreateNewTempFileName. *)
CreateNewTempFileName(t, kind) ==
  /\ Windows /\ MakesTemp(t, kind) /\ MayCreate(TempPath)
  /\ MakePath(t, TempPath, FALSE, [Op("temp", TempPath, IF kind = "directory" THEN "unname" ELSE "reopen") EXCEPT !.mode = kind])
  /\ UNCHANGED fl_own

(* CreateNewNamedTempFile: it is opened again, and deleted with the File. *)
ReopenTemp(t) ==
  /\ At(t, "reopen")
  /\ IF Exists(TempPath)
     THEN LeavePaths(t, Return(t, TRUE)) /\ HasFile(t, TempPath, TRUE, fl_tree[TempPath], "READ_WRITE")
     ELSE LeavePaths(t, Return(t, FALSE)) /\ UNCHANGED fl_own
  /\ Steps /\ UNCHANGED fl_full

(* CreateNewTempDirectory: the file is deleted and the directory made in   *)
(* its place, if the place is still free.                                  *)
UnnameTemp(t) ==
  /\ At(t, "unname")
  /\ IF Exists(TempPath) THEN RemovePath(t, TempPath, GoesTo(t, "rename")) ELSE LeavePaths(t, Return(t, FALSE))
  /\ Steps /\ UNCHANGED <<fl_full, fl_own>>

TempDirectoryTaken(t) == LeavePaths(t, Return(t, FALSE)) /\ UNCHANGED fl_own

TempDirectory(t) ==
  /\ At(t, "rename")
  /\ IF MayCreate(TempPath)
     THEN MakePath(t, TempPath, TRUE, Return(t, TRUE)) /\ HasFile(t, TempPath, FALSE, fl_made + 1, "READ")
     ELSE TempDirectoryTaken(t)
  /\ Steps /\ UNCHANGED fl_full

(* File::~File: closed, and deleted by its path when it is to be. *)
DestroyFile(t) ==
  /\ At(t, "returned") /\ fl_own[t] # NoFileObject
  /\ fl_own[t].path = TempPath => fl_own[t].auto_delete
  /\ fl_own' = [fl_own EXCEPT ![t] = NoFileObject]
  /\ IF fl_own[t].auto_delete /\ Exists(fl_own[t].path)
     THEN RemovePath(t, fl_own[t].path, Op("close", <<>>, "returned")) ELSE LeavePaths(t, Op("close", <<>>, "returned"))
  /\ Steps /\ UNCHANGED fl_full

FilesNext ==
  \/ ChooseFileBuild
  \/ \E t \in FThread :
       \/ \E p \in FPath \ {TempPath} : RecursivelyCreateDir(t, p) \/ CreateNewFile(t, p)
       \/ \E p \in {TempPath, <<"d">>} : DeleteRecursively(t, p)
       \/ \E p \in {<<"d", "s">>}, a \in Access, e \in ExistsMode : OpenPosix(t, p, a, e) \/ OpenWin32(t, p, a, e)
       \/ \E k \in Temporary : CreateNewTempPosix(t, k) \/ CreateNewTempFileName(t, k)
       \/ MakeDirectory(t) \/ LookAtDirectory(t) \/ MakeDirectoryCE(t)
       \/ ReadDir(t) \/ DeleteStep(t) \/ RemoveDirectory(t)
       \/ OpenChooses(t) \/ OpenFopen(t) \/ WriteFile(t)
       \/ Unlink(t) \/ ReopenTemp(t) \/ UnnameTemp(t) \/ TempDirectory(t) \/ DestroyFile(t)

FilesSpec == FilesInit /\ [][FilesNext]_fileVars

-----------------------------------------------------------------------------
Did(t, op) == fl_pc[t].op = op /\ At(t, "returned")

(* RecursivelyCreateDir tells the truth although others make the same       *)
(* directories meanwhile: as long as nothing was removed, it failed only    *)
(* where a file is in the way, and succeeded only where the directory is.   *)
CreateDirIsSound ==
  \A t \in FThread : Did(t, "create") /\ ~fl_pc[t].lost =>
    IF fl_pc[t].ok THEN DirectoryExists(fl_pc[t].path)
    ELSE \E k \in 1 .. Len(fl_pc[t].path) : Exists(SubSeq(fl_pc[t].path, 1, k))

(* DeleteRecursively leaves nothing when it says so, and fails only where   *)
(* somebody else made or removed something meanwhile, or there was nothing. *)
DeleteIsSound ==
  \A t \in FThread : Did(t, "delete") /\ ~fl_pc[t].grown =>
    /\ fl_pc[t].ok => \A p \in FPath : IsPrefix(fl_pc[t].path, p) => fl_tree[p] = Absent
    /\ ~fl_pc[t].ok => fl_pc[t].lost \/ ~DirectoryExists(fl_pc[t].path)

(* Open on POSIX empties a file, which no mode makes it do, only if the     *)
(* file appeared between its look at the path and its fopen: then it does,  *)
(* under NEVER_FAIL and FAIL_IF_EXISTS too.                                 *)
OpenKeepsData ==
  \A t \in FThread : fl_pc[t].emptied => fl_pc[t].grown

(* A refused open has its reason: nothing to open, or no place to make it,  *)
(* or what exists_mode asks cannot be met.                                  *)
RefusedForCause(c) ==
  \/ c.access = "READ" /\ c.asked \in {"FAIL_IF_EXISTS", "ALWAYS_OVERWRITE"}
  \/ c.asked = "FAIL_IF_EXISTS" /\ ~MayCreate(c.path)
  \/ /\ c.asked # "FAIL_IF_EXISTS" /\ ~Exists(c.path)
     /\ c.asked = "FAIL_IF_NOT_EXISTS" \/ c.access = "READ" \/ ~MayCreate(c.path)

(* Open "returns NULL if ... the constraints of access_mode or exists_mode  *)
(* can't be met" (file.h, 171-175).  On Windows they are met by every open  *)
(* that succeeds.  On POSIX (the fopen modes) they are not where            *)
(*  - the path came or went between the look and the fopen: FAIL_IF_EXISTS  *)
(*    opens what another made, FAIL_IF_NOT_EXISTS makes the file anew;      *)
(*  - FAIL_IF_EXISTS opens a directory to be read, as Exists says no to it; *)
(*  - ALWAYS_OVERWRITE leaves what the file has in it, always.              *)
OpenAnswers(c) ==
  LET posix == c.mode \in {"rb", "rb+", "w+"}
  IN  /\ c.ok =>
           /\ c.asked = "FAIL_IF_EXISTS" =>
                c.made \/ (posix /\ (c.grown \/ (c.access = "READ" /\ (c.lost \/ DirectoryExists(c.path)))))
           /\ c.asked = "FAIL_IF_NOT_EXISTS" => ~c.made \/ (posix /\ c.lost)
           /\ c.asked = "ALWAYS_OVERWRITE" => c.access # "READ" /\ (c.bare \/ posix)
      /\ ~c.ok /\ ~c.lost /\ ~c.grown => RefusedForCause(c)

OpenIsSound == \A t \in FThread : Did(t, "open") => OpenAnswers(fl_pc[t])

(* A temporary name belongs to one: what it names is what the holder of the *)
(* name made, so that deleting it with the holder deletes nobody else's.    *)
TempIsOwn ==
  \A t \in FThread : fl_own[t].path = TempPath /\ At(t, "returned") => fl_tree[TempPath] = fl_own[t].id

(* Threads that create, delete and open the same paths: creating and        *)
(* deleting report what they achieved, Open's answer fits the modes it was  *)
(* asked for and it empties nothing it should not, but for the cases that   *)
(* OpenKeepsData and OpenAnswers name, and temporaries have one owner.      *)
FilesAreSound ==
  /\ CreateDirIsSound
  /\ DeleteIsSound
  /\ OpenKeepsData
  /\ OpenIsSound
  /\ TempIsOwn
=============================================================================
