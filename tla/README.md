# Threads, messages, storage and scripts: a TLA+ verification project

The repository is a small program (`src/main.cc`) on top of a library
(`src/common/`) taken from a browser plug-in. `src/Makefile` builds eleven
source files: the demo, the Android flavour of the thread message queue,
threads, events, mutexes, thread-local storage and the clock. The rest of the
library is not built here, but it is the larger part of the code: queues of
other platforms, inter-process messages, observers, timers, databases, files,
text, and the bindings of three script engines. This project models the program
and those parts of the library that have a behaviour of their own, checks them with
TLC on small instances, and proves the central results for all instances with
TLAPS: about events, thread queues on every platform and the demo that uses them,
timed calls, thread locals, condition variables, routed calls and
notifications, the IPC queue and its reports, transactions, stored bytes and files,
the permissions database, HTTP headers, shared ownership, and the exceptions,
objects and lives of script runners.

## 1. Inventory

| Part | State | Operations | Hard behaviour |
| --- | --- | --- | --- |
| Event (`event.cc`) over mutex and condition variable (`mutex_posix.cc`) | `signal_`, `mutex_`, the waiters of `condition_` | Signal, Wait, WaitWithTimeout | broadcast racing a timeout, spurious wake-ups, several waiters for one signal |
| Thread (`thread.cc`, `thread_posix.cc`) | `is_running_`, `thread_id_`, `started_event_` | Start, ThreadMain, Join | start handshake, use of an id while the thread is going away, restart |
| Thread message queue and loop (`message_queue_android.cc`) | `message_queues_`, `queue_mutex_`, per queue a deque and an Event, the popped batch | Send, Start, RunOnce, Stop, ThreadEndHook | push and Signal are separate steps; stale events; Exit inside a batch; Stop using a raw pointer |
| Other queues (`message_queue_{win32,cr,sf,ff}.cc`) | `events_`, wake-ups under way | Send, OnThreadMessage | one wake-up for a batch, full ports, loops inside handlers |
| Demo (`main.cc`) | counters, `done_` | two threads, three message types | each side waits for the other |
| Thread locals (`thread_locals.cc`) | `next_slot_`, one array of entries per thread | Alloc, SetValue, GetValue, DestroyValue, finalizer | destructors that call back, thread end, racy limit test |
| Timed calls (`timed_call.cc`) | `timer_queue_`, the OS timer | TimedCall, ~TimedCall, Callback | callbacks changing the queue that is being walked |
| Async router, message service | functors under way; observers by topic and thread | CallSync, CallAsync; AddObserver, RemoveObserver, NotifyObservers | targets that end; observers that change during a dispatch |
| IPC queue (`ipc_message_queue_win32.cc`), circular buffer, serializer | registry and byte buffers in shared memory, outbound queues, callbacks | Add, Remove, Repair; Send, SendToAll, Run | a process killed between any two writes, writers sharing a buffer, wake-ups for space |
| Win32 CondVar and Baton, Mutex::Await | events with counts; a named mutex and event | SignalAll, Wait; get, pass, finish; Await | waiters that come while a signal is under way, death of the holder |
| Smart pointers, AtomicList, LazySingleton | circles, counts, a list of reusable nodes | assignment, reset, put, dismiss, GetInstance | races on counts and nodes |
| Databases (`sqlite_wrapper`, `permissions_db`, `database_name_table`, `shortcut_table`) | transaction count, lock, rows, schema version | Begin, Commit, Rollback, Init, upgrades, file names, permissions | nested rollback, two processes upgrading at once, ten schema versions |
| Byte store, files | buffer or file; the file system | add, read, blobs; open, create, delete, temporaries | short writes, move to a file, several processes on one path |
| Text, HTTP headers | none; the header vector | search, parse, escape; parse, set, clear | boundaries, repeated and folded lines |
| Script values, runners, wrappers, calls (`js_*.cc`, `base_class.cc`, `dispatcher*.h`) | tokens, roots and counts, handlers, the stack of scripts and C++ | convert, marshal, root, wrap, Eval, SendEvent | three engines with other integers, self-deletion, nested exceptions |
| Images, sound, crash reports, platform glue | see PROJECT.json | | not modelled, section 8 |

How they interact: a Thread registers its queue before it announces itself and
signals its creator's Start; the queue's removal is a thread-local destructor,
so it runs when the pthread ends, before Join returns. Send finds the target queue by
thread id and wakes its owner through the queue's Event; the loop calls
handlers, which may send to other threads or stop them. The async router and the
message service are handlers of that queue; the service also hears from other
processes through the IPC queue, whose messages are written by the serializer into circular
buffers. The permissions database is a client of the SQL wrapper and holds the
names of the database files that the file layer deletes. A page's script
runner owns the module environment that every module refers to; values pass between
engines through the conversions and, between threads, through marshalling.

What makes the parts correct is stated by the properties of section 4;
`PROJECT.json` lists the hazards at their lines with the properties that would
catch them.

## 2. Plan

Done: the core (`Event`, `ThreadQueue`, `MessageDemo`, `TimedCalls`, `ThreadLocals`);
then, in the order of their importance, the IPC queue, the services on top of
thread queues, the synchronisation and ownership primitives, storage, and the
script bindings; then the proofs of section 7.

Left, most important first:

1. `IpcChannel` as the implementation of an abstract channel that loses only
   what it reports; `PlatformQueue` and `ThreadQueue` as implementations of one
   abstract mailbox.
2. `Stopwatch` with two clock resolutions, for the truncation in
   WaitWithTimeout; the OS X timer.

## 3. Modules and how they correspond to the code

`PROJECT.json` "map" gives the source lines of every definition. Definitions
introduced by a comment "Variant" are plausible mistakes in the definition that follows; no
specification uses them, they serve to show that the properties can fail.
What a loop computes is written as a recursive function of the part already
walked (`CountAfter` of the demo, `Sent` and `ClearHeader` of the headers, `Wanted`
of the channel) and the nodes of a list as those that every set closed under next contains
(`Reachable`), so that the same definitions serve TLC and the proofs.
Variables keep the source's names where they are fields; where several modules are
checked together, a prefix tells their variables apart.

### Threads and events

**Event** models each call as its steps between lock operations: a thread's
`pc` says where it is, `condition_` holds the blocked threads. `WaitExpire`
is `pthread_cond_timedwait` returning after its time; such a wait re-acquires
the mutex and returns false without looking at `signal_`, exactly as the code
does. Time itself is abstracted: any timed wait may expire.
**AutoResetEvent** is the specification of `event.h`: a set flag, the waits
that may take it, and the timed waits that may give up.

**ThreadQueue** has one record of state per thread: `life` runs through
`pthread_create`, queue set-up, announcement, `Run`, the end hook and
`pthread_join`; `op` is the library call it is inside of (with the queue object
it points to, identified by thread and generation); `loop`, `once` and `local`
are the message loop. Steps are separated where another thread can intervene:
Send pushes and later signals but keeps `queue_mutex_` throughout; Stop looks the queue up, pushes, and
signals with no lock held over these steps. If the queue has gone, `StopDangles`
sets `crashed` and the model stops, since behaviour is undefined from there.
Clients are unconstrained. **MessageDemo** restricts them to what `main.cc` does.

**TimedCalls** models one thread and its clock. `OnTimer` copies the queue as
`Callback` does; `Fire` is one turn of the loop; between `Fire` and
`UserReturns` the callback may create and destroy calls. When the loop reaches a
destroyed object the model stops there.

**ThreadLocals** models Alloc in two steps (atomic increment, second read of
the counter) and each thread's entries. `frames` is the stack of calls waiting
for a destructor; while one runs, client code may store and destroy values of
other slots. At the end of a thread pthreads clears the key before it calls
FinalizeKey and repeats that, at most `MaxRounds` times, while destructors set
the key again.

**PlatformQueue** is one receiving thread of the other four queues: `pq_wakeups`
counts the window messages, port messages or runnables under way, `pq_batches` is
the stack of active OnThreadMessage calls. The system may refuse a wake-up (`pq_refused`): a port
and Firefox 2 make Send false then; PostMessage's and, on Firefox 3, Dispatch's result is ignored, so that a window's
message stays without a wake-up and Firefox 3's is destroyed with its runnable, both reported as sent.
Firefox 2's end hook revokes the events before it leaves the map. **AsyncRouter** keeps the functors of
each thread as queued, running, done or dropped at its end. **MessageService**
dispatches with the mutex released around each OnNotify; addresses of freed sets
and collections may be given out again, which is what the code's pointer comparisons
are exposed to. **Win32Sync** has the counted events of CondVar, the Baton
between processes and the polling of Await. **SmartPointers** moves linked_ptr
as whole operations, since it is not thread-safe, and scoped_refptr one atomic
operation at a time. **AtomicList** takes one atomic operation or shared read per
step.

### Processes

**IpcRegistry**: each write of Add and Remove to the shared memory is a
step; `Kill` may come before any of them and leaves the mutex abandoned, and the
next owner repairs. **IpcChannel**: the inbound queue of one process with all
writers. A packet is written in one step (it is covered by one advance of the
tail), messages are split into packets by the space there is; the writer keeps the
mutex while it waits for space in the middle of a message. Each process's `Run` is
modelled with the handles it waits on, `die_`, and the lists of successful
and failed messages it reports with the lock released. The reader or
a writer may be killed at any step. **CircularBuffer** computes with the positions
of the code and carries the intended queue as history. **Serialization** writes
class id, size and fields into a sequence of units and reads them back with
missing classes and failing objects.

### Storage

**SqlDatabase**: connections with their transaction count, rollback flag, the
mutex some connections share, and SQLite's own file lock (external).
**DatabaseNames** and **PermissionsDb**: rows of file names with deletion in steps;
opening and upgrading a database of any of ten versions by
several processes, where a table is the sequence of its columns and INSERT ...
SELECT fills them by position; permissions. **ByteStore**: the sequence of bytes in memory or in the file, with the
position that readers move. **Files**: one system call per step, for the POSIX,
Win32 and Windows CE sources, on a small tree of paths; the identity of
what a path names tells a file from a later one of the same name. A call of Open carries what it was
asked for, so that its answer can be held against the modes.
**TextUtils** and **HttpHeaders**: the loops as operators on sequences of
characters, or of lines, compared with definitions that say what is meant.

### Scripts

**JsValues** has every conversion three times, as the source does, with the integer
ranges scaled down but in their order; **JsContainers** adds arrays, objects and
JSON. **JsMarshal** is the depth-first copy over all small graphs of values, and the building of
the copy in the other engine, where any call of the engine may fail.
**JsRoots** counts roots (Firefox) or references (the others) of script objects held by
C++ variables. **JsWrappers** has the contexts, prototypes, instances and shared classes of Firefox,
and the dispatcher tables; a prototype that could not be completed, because adding its functions or
making the instance failed, stays with the engine without its class (`jw_orphans`). **JsObjects** puts the two together. **JsRunner** is the life of a document's runner in four
browsers, a document whose unload listener could not be attached included; **ScriptCalls** the alternation of scripts and C++ on one stack with
the exceptions that leave it, and the global names of a JScript engine. The text of an exception is a
string, the empty string or no string, which is what the runners tell apart; a worker may or may not
have an error handler. Start and AddGlobal may fail at each of their calls. A page is taken to define
`window.onerror`.

## 4. Runs

| Run | Checks | Result |
| --- | --- | --- |
| queues | NoLostWakeup, InOrder, NothingVanishes, RegistryIsRepaired, MessagesArriveWhole, ReportIsTrue, SpaceIsSignalled, BufferIsAQueue, ReadsWhatWasWritten | holds |
| waits | NoSleeperMissed, OneTakePerSet, ImplementsAutoResetEvent, SignalIsTaken, TimedWaitReturns; LifeIsClean, LoopingReceives, StartReturns, StopEndsLoop; CountsAreComplete, Terminates; EveryOneReported | holds |
| services | CallsFireInTime, EveryValueOnce, ObserversAreTold, EventsArriveInOrder, SyncCallsReturn, WaitsAreHonest, LastOwnerDeletes, RacesLoseNothing | holds |
| library | TransactionsNest, PermissionsDbIsSound, BytesStay, FilesAreSound, TextIsRight, HeadersReadAsSent, RunnerDiesInTime, CopiesAreWhole, EnginesAgree, ScriptObjectsLive, ExceptionsArrive | holds |
| run_once_empty | RunOnceGetsMessages | violated |
| stop_race | StopNeverDangles | violated |
| timed_destroy | DestroyedIsNotTouched | violated |
| shortcut_upgrade | UpgradeKeepsShortcuts | violated |
| old_upgrade | UpgradeableIsUpgraded | violated |
| singleton_race | InstanceIsOwn | violated |
| zero_is_true | OnlyTheseAreFalse | violated |
| class_freed | ClassesOutliveAll | violated |

Most properties of the larger modules are conjunctions; each part has a name and a
comment of its own in the module. Where a conjunction has both parts about states and parts about
steps it is one property of steps, and the state parts are asked of the state after each step.

`MCQueues`, `MCWaits`, `MCServices` and `MCLibrary` hold several modules that share no
variable. A variable `part`, chosen at the beginning and never changed, says which of them
moves, so that their state spaces add up instead of multiplying. In `MCWaits` the queues of the
demo's two threads serve twice: for `main.cc`, and in the hands of any client with a worker that is
started twice (`Restart`, an instance of ThreadQueue with other bounds).

The violated properties state what a comment, an assertion or a header says;
the disagreements, with the quoted lines, are the "findings" of `PROJECT.json`:

* RunOnce may return without a message: a message pushed after one Signal can
  be popped with the batch of that Signal, and its own Signal then leaves the
  event set for an empty queue.
* Stop may signal a destroyed queue. The target, awake from an earlier signal,
  can pop Exit before Stop's own Signal, leave its loop and end. TLC reaches
  this in the demo itself.
* A callback that destroys another due TimedCall leaves a dangling pointer in
  the copy that Callback walks.
* The upgrade of the shortcut table from version 5 to 6 copies columns in the
  wrong order: addresses and messages end up among the icons.
* The upgrade of a version 1 database fails because its DELETE succeeded: such a
  database is refused at every start, although 1 is `kOldestUpgradeableVersion`.
* Two threads may both make LazySingleton's instance. The first one to store wins; the other's
  assertion fails and its instance leaks. What was returned is never replaced (`InstanceStays`).
* Internet Explorer's coercion to bool takes a zero that is held as a double for true.
* A prototype whose functions cannot all be added is left to the engine while its
  JSClass is deleted.

Some properties carry an exception that describes what the code really does. These
contradict a comment or a header of the repository:

* HTTP headers (`HeadersReadAsSent`): `http_utils.cc:640` says that continuations are handled; one that
  follows a line that was merged into an earlier header, or ignored as a second Host, goes to another
  header (`ContinuesMerged`). `http_utils.h:340-342` says that the body is found as by ExtractBody; it is not
  after a first line that looks like a status line and is refused (`odd_status`, `SameBody`).
* Files (`FilesAreSound`): `file.h:171-175` promises NULL where the modes cannot be met. On POSIX a file
  that appears between the look at the path and `fopen("w+")` is opened and emptied, under
  FAIL_IF_EXISTS too; one that disappears is made anew under FAIL_IF_NOT_EXISTS; FAIL_IF_EXISTS opens
  a directory for reading; and ALWAYS_OVERWRITE never empties what exists, because the switch below
  replaces its mode (`file_posix.cc:115-131`; `OpenKeepsData`, `OpenAnswers`).
* Text (`TextIsRight`): `file.h:242-243` promises empty strings for consecutive separators, which
  SplitPath drops (`TokensAreFields`); GetParentDirectory fails for "/a" although '/' is its parent
  (`ParentAndBase`, against `file.h:153`).
* Script values (`EnginesAgree`): against ECMA 262-3 Section 9, which `js_types.h:333` names,
  a double zero is true in Internet Explorer and NPAPI writes a whole double that is no int with a decimal
  point (`Differs`); Firefox loses the top bit of an int with more than 31 bits (`NumbersReadBack`); a
  real number inside a JSON container becomes an integer (`InContainer`).
* Marshalled copies (`CopiesAreWhole`): `js_marshal.h:36-42` calls the copy equivalent; an array loses
  unreadable places at its end, and a string what follows its first NUL (`SameValue`).
* Upgrades (`PermissionsDbIsSound`) are claimed for those that commit; version 1 never does (run old_upgrade).
* Classes of wrapped modules (`ScriptObjectsLive`) outlive instances and completed prototypes; for the
  others see run class_freed.

And these contradict none: AddDataDirect ignores a failing file (`bs_lost`); a window's PostMessage or Firefox 3's
Dispatch that is refused leaves an accepted message without wake-up, or destroys it (`EventsAreAnnounced`, `DropsAtTheEnd`);
an exception is lost in silence in a worker without an error handler, in the NPAPI runners when its message is
no string, and on Windows CE when it is empty (`LostInSilence`); that an exception is left to the calling script
is claimed for the NPAPI and Chrome runners other than the NPAPI worker (`InnermostFirst`); globals stay referenced when the
clean-up script of Stop fails, or when a name is given to a second object, and an engine does not know a name
it refused (`NoGlobalLeft`, `GlobalsKnown`); a runner whose unload listener could not be attached, or Chrome's, is never
deleted (`NoRunnerLeft`); NPAPI's conversion of a `JSPARAM_TOKEN` forgets a reference (`NothingKeptBehind`); CallSync hangs
when its target ends (`HangHasACause`).

Further observations met while modelling, which break no property:

* `thread_locals.cc:58`: Alloc tests the counter it has already incremented, so
  the last slot is never handed out; FinalizeKey runs again, contrary to the
  comment at line 269, when a destructor stores a value while its thread ends.
* `timed_call.cc:243`: the GTK timer drops the id of its timer, so timers are
  never cancelled and add up.
* `atomic_list.h:101`: dismiss swaps the value in for the default one, so it removes nothing, contrary to
  its description at 99-100; `RacesLoseNothing` claims only that nothing is lost.
* `message_queue_win32.cc:233`: a failing PostMessage is not noticed and, as
  events_ is no longer empty, never repeated: the window's thread is not woken again.
* `ipc_message_queue_win32.cc:1421`: 2 + 2 * 31 handles are exactly what
  WaitForMultipleObjects takes.
* `url_utils.cc:216`: the loop that escapes semicolons goes on to look for backslashes, so only the
  first semicolon is escaped.
* `js_types.cc:2700`: JSON conversion follows cycles without end.
* `dispatcher_ex.h:330`: the test for a read-only property never fires.

Deadlock checking is off in every run because the bounds on calls, sends or
time let every model stop; that nothing waits for ever is stated by the
liveness properties and by invariants such as `SpaceIsSignalled` and
`HangHasACause`.

## 5. Bounds

* Event: three threads are the least with a signaller and two competing
  waiters; two calls per thread let a stale signal meet a new wait; one
  spurious wake-up. The run waits has no symmetry set, since it checks liveness.
* ThreadQueue: main and one worker give every pair of roles. Two sends per thread
  make batches, stale events and order observable (run queues); two starts, with one send
  each, reuse an id while a call to the former queue is in progress (run waits).
* MessageDemo: the constants of `main.cc`; nothing is bounded.
* IPC: three processes for two registry places fill it and let one wait; two
  writers and one reader, a message larger than the buffer beside small ones, so that
  writers wait for space in the middle of a message; a buffer of four with all positions of
  head and tail; objects nested once, of known and unknown classes.
  Processes and writers are interchangeable in the run queues, where three messages are sent; in the run
  waits there are two, one of them in two packets.
* TimedCalls: two calls suffice for one callback to destroy or overtake the
  other; delays of -1, 1 and 3 against clamps of 1 and 2 lie below, between and
  above them; four ticks let a repeating call fire repeatedly.
* ThreadLocals: three slots and two threads let two Allocs overlap until the
  limit; three values and three rounds let destructors store during two rounds
  of the thread's end. Two of the values belong to one slot and the third has a destructor.
* MessageService: two threads with two observers, three additions and two
  addresses, so that a freed set's address is used again while a dispatch is
  under way. Its threads, like those of ThreadLocals, are interchangeable.
* PlatformQueue: five posts, ports of two, loops two deep. AsyncRouter: two threads with
  four functors can wait on each other. Win32Sync: three threads,
  three signals, four events. SmartPointers: three owners of three objects.
  AtomicList: two threads, four nodes, so that a node is found, lost and retried.
* SqlDatabase: three connections, two of which share a mutex, two levels deep. DatabaseNames: two
  threads, two origins, a name that looks like a versioned one, three rows.
  PermissionsDb: two processes from each of the ten old versions.
* ByteStore: a buffer of two and five bytes. Files: two threads, three
  operations, a path three deep. TextUtils: texts of four and patterns of three
  characters, with the greatest integer and the escape buffer scaled down.
  HttpHeaders: four lines.
* Scripts: values around the ends of each scaled integer range; containers of
  two; graphs of two nodes with two children each, which include cycles and shared
  values; three holders of two objects; two contexts with two names; six frames
  with two exceptions; three modules.

## 6. Fairness

`EventFairSpec` of Event and `FairSpec` of ThreadQueue ask for weak fairness of what each thread does by itself inside the
library, thread by thread: the scheduler starves no runnable thread, a timed
wait that stays blocked expires, and message handlers return. Client code is
never forced to send, loop or stop. In the demo each thread also goes on with
its own program, which consists of calls that return. A lock is never held
while its holder blocks on anything else, so weak fairness per thread is enough.

`ChannelFairness` asks the same of the worker thread of each process that is not
killed: it goes on from a wait one of whose handles is signalled, and with what it has begun.
The mutex of a process that dies while it holds it is abandoned and passes to a
waiter, so no fairness of the mutex itself is assumed. Killing, closing and sending are never forced.

`WaitsFairness` of `MCWaits` asks the same of whichever part moves; the others are never enabled.
`StopEndsLoop` has a condition of its own: a loop is left once Exit is coming (queued, or in the batch at
hand), however many handlers run before it, unless one of them stays in a Join for ever.

## 7. Proofs

`EventProofs` proves, for every set of threads and every bound, that `EventInv` is
inductive. `NoSleeperMissed` alone is not: a set event with a blocked thread is
excluded because that thread found `signal_` false under the mutex and
whoever set it since is still about to broadcast. The strengthening says who
holds the mutex, that `condition_` is exactly the blocked threads, that a
broadcaster has set `signal_`, and that only timed waits expire. From it
follow `NoWakeupIsLost`, `SignalsAreCounted` and the refinement
`EventIsAutoReset`: every step of the code is a step of `AutoResetEvent` or
changes nothing it can see.

`ThreadMailProofs` proves `IInv` of ThreadQueue inductive for any set of
threads, types and bounds: the type invariant, `LifeInv` (flags, queue map and
the creator's pending Start follow the thread's life) and `CallInv` (a sender
holds `queue_mutex_` and therefore points to a live queue), together with
`NoLostWakeup`. The argument that matters is the end hook: it needs
`queue_mutex_`, so it cannot run inside a Send, and a queue that disappears takes
its undelivered messages with it. From it follow `TypeCorrect`,
`NoWakeupIsLost`, `RunningIsReachable`, `StartedIsReady`, `JoinIsClean` and their
conjunction `ThreadLifeIsClean`.

The same module builds on it for `MessagesInOrder` and `NoMessageVanishes`. The
actions are first reduced to the few things that can happen to a message (it is
queued, popped, delivered, destroyed with its queue), and `MailInv` is shown to
survive each: what a thread has delivered, popped and queued is in the order of
every sender from one to the next (`Lined`), no message is in two places, and every
message sent is somewhere. `InOrder` alone speaks of deliveries only and would
not survive a pop; `Batches` excludes that a pop overwrites a batch.
For the demo, `DemoUsesQueues` shows that each of its steps is a step of ThreadQueue, so
all of the above holds of it. `DemoCountsAreComplete` adds `DemoInv`: what the
worker has handled, popped and still has queued is what main has sent, in its order, and then
Exit (`DemoMail`); the counters are what the handled messages add up to
(`Counts`); and each side waits only when its own part is done (`MainPhase`,
`WorkerPhase`). It rests on `ScriptAssumption`: the last message of the script, and only that one,
makes a counter reach its target. TLC evaluates it for the messages of `main.cc`.

`IpcRegistryProofs` proves `RegistryAlwaysRepaired`. A process may be killed between any
two writes to the shared memory, so `RegInv` says for each point of Add and Remove
where the next write goes and what is there now (`WritesAt`). The used places stay in
front throughout (`InFront`); two equal entries occur only with the later one last and
only while the owner of the mutex is about to clear it, or after an owner died before doing so
and the mutex was abandoned (`Twice`). A cache of the current revision equals the array because a
writer raises the revision above all caches before its first write (`Cached`).

`CircularBufferProofs` proves `BufferAlwaysAQueue` for every size. The invariant
`Laid` places the i-th byte of the queue at head + i - 1, wrapped; every index that
occurs is below twice the size, so that % is a comparison and a subtraction.

`IpcChannelProofs` proves `MessagesAlwaysArriveWhole` and `SpaceAlwaysSignalled`
for any set of writers, any capacity and any messages, whoever is killed, from one
invariant `ChannelInv`: only the owner of the write mutex has a message half
written (`Turns`), so the newest packet is its last one (`Pieces`, `Gathered`); the
free space is what the packets do not take (`Space`), so a packet that does not fit
finds something for the reader to empty (`Hope`); a writer's messages
keep their order over what is dispatched, in the buffer and pending
(`Dispatched`, `Ordered`). The bytes in the buffer are a recursive function of
the packets; that it computes running totals is shown through the least
place where it would not. `ReportIsAlwaysTrue` adds the books each writer keeps
(`Ledger`): a message is in exactly one of pending, succeeded, failed and reported, those
that succeeded are wholly in the buffer or beyond it, and those pending or failed are not.

`LibraryProofs` proves `TransactionsAlwaysNest` and `LastOwnerAlwaysDeletes`. For
transactions the strengthening is that at most one connection writes, and that pending
writes, those on disk and those of failed transactions are disjoint. For linked_ptr the circle
is described without walking it: next is injective and stays among the owners of an
object, and no proper part of them is closed under it (`OneCircle`), which insertion and departure
of one owner preserve. For scoped_refptr the count is the owners plus the
references a thread has taken from a pointer and not yet given back (`Counted`).
Four more results are in the same module:

* `BytesAlwaysStay`: unless a file that was needed could not be had, what was accepted is the data
  in memory without the room of a pending asynchronous addition, or all of the file, whose position is
  at its end unless the last operation was a read (`StoreInv`).
* `HeadersAlwaysReadAsSent`: both parses are carried along line by line. For each
  name that is not multi-valued the entry is what the lines read so far say (`Agrees`), and the
  last line's header is the one a continuation extends (`Tip`).
* `FilesAreAlwaysSound`: identities are given once and the parent of what exists is a directory
  (`TreeInv`). Each call knows what it has seen; what another thread makes
  or removes meanwhile can only set the mark that its answer may depend on (`Sees`). A recursive delete
  has a chain of open directories, of which only the innermost has entries left, because a directory
  of the model's tree has at most one. At most one thread claims a temporary name
  (`TempInv`). The theorem holds for any threads, any number of operations and all three
  builds, but for the paths of the model.
* `PermissionsDbIsAlwaysSound`: `DbInv` has three parts. A file name tells both the database
  and its version (`BasenamesDiffer`), so with at most one live row per database two threads never
  use one file for different databases, and what a thread removes has a deleted row (`NamesInv`).
  A version from which somebody is about to upgrade is never newer than the file's, so an upgrade
  begun with a version that another thread has left behind meanwhile repeats steps and takes away no
  table but that of the icons (`DiskInv`, `ReadOk`); every row keeps its name through each rebuilding
  of the table (`InsertSelectIs`), if not its address (run shortcut_upgrade). The place of an origin in the list of permissions is the
  number of origins that do not come after it, and counting them gives every place once (`PlacesAre`).

`ScriptProofs` proves three results about scripts and the C++ that runs them:

* `RunnerAlwaysDiesInTime`: the environment is alive exactly while there are modules, and a monitor
  that still knows the runner is in its list of handlers and belongs to a module that is alive
  (`ModulesHold`); the runner lives with its environment, and while it sends the unload event the
  page is not unloaded (`RunnerHolds`).
* `ExceptionsAlwaysArrive`: scripts and C++ alternate on the stack (`Alternates`), a pending
  exception is held by one frame (`HeldOnce`), none is told twice
  (`ToldOnce`) and none disappears (`Accounted`); the references to a global's object are
  those of the engine and of the runner (`GlobalsInv`).
* `ScriptObjectsAlwaysLive`: the roots or references of an object are one for each variable
  that holds it, those the browser has still to release, and those forgotten with a
  `JSPARAM_TOKEN` (`RefsAre`), so an object without any is held by nobody. All live contexts, prototypes
  and instances share the one set of classes the runtime knows (`OneShared`), so it does not go before
  them and every module is recognised. Each function that was installed finds, in tables built from
  any list of registrations, the last member of its name and kind (`TablesAre`).

`ServicesProofs` proves three results about what a thread has.
`EveryValueDestroyedOnce`: `LocalsInv` says where every stored value is held, in the
thread's array or in an array that a finalizer on the stack is working through, and which
entry is being destroyed; a value is in at most one place, and one in no place has no
destructor or has been destroyed. `EventsAlwaysArriveInOrder`:
`PlatformInv` counts the wake-ups for each kind of queue (one for a
non-empty window queue, one per event, at least one for a port) and keeps batches and
events increasing from the outermost batch inwards. `CallsAlwaysFireInTime`: what is
alive in the copy that Callback walks is still pending, without repetition and in the
order of deadlines, so that the first call that is not due ends the loop rightly; and
RearmTimer always leaves a timer that covers the earliest deadline. It holds on
both platforms; that there is a single OS timer is claimed for Win32 only.

It also proves four properties of the services on top of them and of what they wait with:

* `WaitsAreAlwaysHonest`: the current event of the Win32 condition variable is not set
  and nobody is about to set it, and a thread that waits on another event began to wait before the
  signal that detached it (`CondInv`); the baton's mutex belongs to the one who has the job
  (`BatonInv`); Await returns what it last read under the mutex (`AwaitInv`).
* `SyncCallsAlwaysReturn`: the functor of a caller that waits is in its thread's queue, once on
  its stack, or was dropped when the thread ended (`QueuesHold`, `StacksHold`,
  `WaitersHold`).
* `ObserversAreAlwaysTold`: a thread whose set of observers is no longer the one that the
  notification copied has only observers that came after it (`NewcomersOnly`). This is what
  survives when the address of a freed set is given out again.
* `RacesAlwaysLoseNothing`: a node that is made but not pushed is pointed to by
  nothing and belongs to one thread (`OwnNode`, `OwnNodesDiffer`), so a push only adds to
  what is reachable and a value that was put stays there (`PutHolds`).

TLC checked the inductive invariants on small instances before they were proved.
Induction over numbers is done by hand, with the least counterexample that
`WFMin` of `WellFoundedInduction` gives.

The only assumptions are those named in the modules: placeholders are not
threads, writers or processes, `Exit` is not a client's type, sets of pointers and
of timed calls are finite, sizes are positive, the lower clamp of a timer is not above
the upper one, the names of globals are finitely many, 0 is not an address, the demo's script
ends its count, the variables that hold script objects are finitely many and their placeholders
are no objects, database names are sequences, old databases have a version of at least 1, origins are finitely many
and ordered (as natural numbers, for `ORDER BY`), bounds are natural numbers. All of them hold in the
code by construction.

Only model-checked, not proved:

* all liveness (`SignalIsTaken`, `TimedWaitReturns`, `LoopingReceives`, `StartReturns`,
  `StopEndsLoop`, `Terminates`, `EveryOneReported`), since the prover does not treat
  fairness;
* `ReadsWhatWasWritten`, `TextIsRight`, `CopiesAreWhole`, `EnginesAgree`: they compare
  operators that are recursive over data with reference definitions, by enumeration of
  inputs; what such an operator computes for every input needs an induction that the
  provers cannot make.

## 8. Not modelled

* Within the modelled parts: failing `pthread_create`, sleeps and logging,
  `AsyncCallback` messages (the code that would schedule them is commented
  out), clocks set back, the lifetime of handler objects, a destructor that
  touches the slot it is destroying; a page without `window.onerror`, where the report of an NPAPI document
  is a script that throws itself (`js_runner_utils.cc:57-62`); a NULL description in the exception
  that JScript reports.
* SQLite, the browsers, their script engines and the file systems are external:
  what the code asks of them is modelled, not how they do it.
* Conversions of character sets, base64, encryption, MIME sniffing: tables and
  third-party code without a protocol. Cache control and byte ranges of HTTP:
  arithmetic on single values.
* Images, sound, crash reporting, platform glue, the window hook of thread exit
  and the DOM event monitors: wrappers whose state is outside the repository.
