------------------------------- MODULE JsRunner -----------------------------
(***************************************************************************)
(* The life of a document's script runner (DocumentJsRunner in             *)
(* common/js_runner_{np,ff,ie,cr}.cc): it is made with a ModuleEnvironment *)
(* (base_class.cc), tells unload handlers (JsEventMonitor, js_runner.h)    *)
(* that the page goes, and deletes itself once the page is unloaded and    *)
(* the environment, which every module refers to, is gone.  One script     *)
(* thread: an operation of a module runs between the steps of SendEvent    *)
(* only from inside a handler.                                             *)
(***************************************************************************)
EXTENDS Integers, FiniteSets

CONSTANTS
  Module,      \* modules that a page may create
  MaxModules   \* bound: modules created

ASSUME RunnerAssumption == MaxModules \in Nat

VARIABLES
  jr_browser,   \* whose implementation: "np", "ff", "ie" or "cr"
  jr_runner,    \* "none", "live", "deleted", or "missing": none could be made
  jr_detached,  \* is_module_environment_detached_
  jr_unloaded,  \* is_unloaded_
  jr_listed,    \* the browser's event reaches it (g_document_js_runners, the event monitor)
  jr_env,       \* the ModuleEnvironment: "none", "live" or "gone"
  jr_modules,   \* modules alive, each with a reference to the environment
  jr_made,      \* modules created
  jr_monitor,   \* [Module -> js_runner_ of its JsEventMonitor: "none", "set", "cleared"]
  jr_handlers,  \* event_handlers_[JSEVENT_UNLOAD]
  jr_phase,     \* "idle", "sending", "handler"
  jr_copy,      \* SendEvent's copy of the handlers not yet visited
  jr_deaf,      \* the listener for the unload event could not be attached
  jr_due,       \* history: handlers that listened when the event came, and still exist
  jr_called     \* history: handlers told of the unload

runnerVars == <<jr_browser, jr_runner, jr_detached, jr_unloaded, jr_listed, jr_env, jr_modules, jr_made,
                jr_monitor, jr_handlers, jr_phase, jr_copy, jr_deaf, jr_due, jr_called>>

Browser == {"np", "ff", "ie", "cr"}

RunnerInit ==
  /\ jr_browser = "np" /\ jr_runner = "none" /\ jr_env = "none"
  /\ jr_detached = TRUE /\ jr_unloaded = TRUE /\ jr_listed = FALSE
  /\ jr_modules = {} /\ jr_made = 0 /\ jr_monitor = [m \in Module |-> "none"]
  /\ jr_handlers = {} /\ jr_phase = "idle" /\ jr_copy = {}
  /\ jr_deaf = FALSE /\ jr_due = {} /\ jr_called = {}

(* DeleteIfNoLongerRelevant; Chrome's runner is never deleted. *)
DeleteIfNoLongerRelevant(detached, unloaded) ==
  IF detached /\ unloaded /\ jr_browser # "cr"
  THEN jr_runner' = "deleted" /\ jr_listed' = FALSE
  ELSE UNCHANGED <<jr_runner, jr_listed>>

(* CreateFromDOM: NewDocumentJsRunner, then the ModuleEnvironment, whose    *)
(* constructor attaches it, and the factory module.  Firefox and IE listen  *)
(* for the unload event first: without a window there is no runner and the  *)
(* constructor calls through NULL; that the listener could not be attached  *)
(* goes unnoticed.                                                          *)
CreateFromDOM(b, m, window, attached) ==
  /\ jr_runner = "none"
  /\ jr_browser' = b
  /\ b \in {"np", "cr"} => window /\ attached
  /\ IF ~window
     THEN /\ jr_runner' = "missing"
          /\ UNCHANGED <<jr_detached, jr_unloaded, jr_listed, jr_env, jr_modules, jr_made>>
     ELSE /\ jr_runner' = "live" /\ jr_unloaded' = FALSE /\ jr_listed' = attached
          /\ jr_env' = "live" /\ jr_detached' = FALSE
          /\ jr_modules' = {m} /\ jr_made' = 1
  /\ jr_deaf' = (window /\ ~attached)
  /\ UNCHANGED <<jr_monitor, jr_handlers, jr_phase, jr_copy, jr_due, jr_called>>

MayRun == jr_phase \in {"idle", "handler"} /\ jr_env = "live"

(* CreateModule: the new module shares its maker's environment. *)
CreateModule(m) ==
  /\ MayRun /\ m \notin jr_modules /\ jr_monitor[m] = "none" /\ jr_made < MaxModules
  /\ jr_modules' = jr_modules \cup {m} /\ jr_made' = jr_made + 1
  /\ UNCHANGED <<jr_browser, jr_runner, jr_detached, jr_unloaded, jr_listed, jr_env, jr_monitor, jr_handlers,
                 jr_phase, jr_copy, jr_deaf, jr_due, jr_called>>

(* A JsEventMonitor: AddEventHandler. *)
MonitorUnload(m) ==
  /\ MayRun /\ m \in jr_modules /\ jr_monitor[m] = "none"
  /\ jr_monitor' = [jr_monitor EXCEPT ![m] = "set"]
  /\ jr_handlers' = jr_handlers \cup {m}
  /\ UNCHANGED <<jr_browser, jr_runner, jr_detached, jr_unloaded, jr_listed, jr_env, jr_modules, jr_made,
                 jr_phase, jr_copy, jr_deaf, jr_due, jr_called>>

(* ~ModuleEnvironment, when the last reference goes. *)
OnModuleEnvironmentDetach(detached) ==
  /\ jr_detached' = detached
  /\ DeleteIfNoLongerRelevant(detached, jr_unloaded)

(* A module is destroyed: its monitor (RemoveEventHandler while it still    *)
(* knows the runner), then its reference to the environment.                *)
DestroyModule(m) ==
  /\ MayRun /\ m \in jr_modules
  /\ jr_handlers' = IF jr_monitor[m] = "set" THEN jr_handlers \ {m} ELSE jr_handlers
  /\ jr_monitor' = [jr_monitor EXCEPT ![m] = "none"]
  /\ jr_modules' = jr_modules \ {m} /\ jr_due' = jr_due \ {m}
  /\ IF jr_modules = {m}
     THEN jr_env' = "gone" /\ OnModuleEnvironmentDetach(TRUE)
     ELSE UNCHANGED <<jr_env, jr_detached, jr_runner, jr_listed>>
  /\ UNCHANGED <<jr_browser, jr_unloaded, jr_made, jr_phase, jr_copy, jr_deaf, jr_called>>

(* Variant: the page counts as unloaded before its handlers are told. *)
UnloadedBeforeSending(unloaded) == jr_unloaded' = TRUE

UnloadedWhileSending(unloaded) == jr_unloaded' = unloaded

(* HandleEventUnload, HandleNPInstanceDestroyed: SendEvent copies the list. *)
Unload ==
  /\ jr_phase = "idle" /\ jr_runner = "live" /\ jr_listed /\ ~jr_unloaded
  /\ jr_phase' = "sending" /\ jr_copy' = jr_handlers /\ jr_due' = jr_handlers
  /\ UnloadedWhileSending(jr_unloaded)
  /\ UNCHANGED <<jr_browser, jr_runner, jr_detached, jr_listed, jr_env, jr_modules, jr_made, jr_monitor,
                 jr_handlers, jr_deaf, jr_called>>

StillListens(m) == m \in jr_handlers

(* One turn of SendEvent's loop, and JsEventMonitor::HandleEvent. *)
SendEvent(m) ==
  /\ jr_phase = "sending" /\ m \in jr_copy
  /\ jr_copy' = jr_copy \ {m}
  /\ IF StillListens(m)
     THEN /\ jr_phase' = "handler" /\ jr_called' = jr_called \cup {m}
          /\ jr_handlers' = jr_handlers \ {m}
          /\ jr_monitor' = [jr_monitor EXCEPT ![m] = "cleared"]
     ELSE UNCHANGED <<jr_phase, jr_called, jr_handlers, jr_monitor>>
  /\ UNCHANGED <<jr_browser, jr_runner, jr_detached, jr_unloaded, jr_listed, jr_env, jr_modules, jr_made,
                 jr_deaf, jr_due>>

HandlerReturns ==
  /\ jr_phase = "handler" /\ jr_phase' = "sending"
  /\ UNCHANGED <<jr_browser, jr_runner, jr_detached, jr_unloaded, jr_listed, jr_env, jr_modules, jr_made,
                 jr_monitor, jr_handlers, jr_copy, jr_deaf, jr_due, jr_called>>

EventOver ==
  /\ jr_phase = "sending" /\ jr_copy = {}
  /\ jr_phase' = "idle" /\ jr_unloaded' = TRUE
  /\ UNCHANGED <<jr_browser, jr_detached, jr_env, jr_modules, jr_made, jr_monitor, jr_handlers, jr_copy,
                 jr_deaf, jr_due, jr_called>>

(* The rest of the unload handler: Safari and Opera, Firefox, IE; Chrome's  *)
(* has no is_unloaded_, which stands for the end of the event there.        *)
HandleNPInstanceDestroyed ==
  /\ jr_browser = "np" /\ EventOver
  /\ jr_listed' = FALSE
  /\ jr_runner' = IF jr_detached THEN "deleted" ELSE jr_runner

HandleEventUnload ==
  /\ jr_browser = "ff" /\ EventOver
  /\ DeleteIfNoLongerRelevant(jr_detached, TRUE)

HandleEventUnloadIE ==
  /\ jr_browser = "ie" /\ EventOver
  /\ DeleteIfNoLongerRelevant(jr_detached, TRUE)

HandleNPInstanceDestroyedCr ==
  /\ jr_browser = "cr" /\ EventOver
  /\ jr_listed' = FALSE
  /\ UNCHANGED jr_runner

RunnerNext ==
  \/ \E b \in Browser, m \in Module, window, attached \in BOOLEAN : CreateFromDOM(b, m, window, attached)
  \/ \E m \in Module : CreateModule(m) \/ MonitorUnload(m) \/ DestroyModule(m) \/ SendEvent(m)
  \/ Unload \/ HandlerReturns
  \/ HandleNPInstanceDestroyed \/ HandleEventUnload \/ HandleEventUnloadIE \/ HandleNPInstanceDestroyedCr

RunnerSpec == RunnerInit /\ [][RunnerNext]_runnerVars

-----------------------------------------------------------------------------
(* The runner is deleted only when nothing refers to it: not inside its own *)
(* SendEvent, not under the environment, and with no handler left, which    *)
(* ~JsRunnerBase asserts.                                                   *)
NotDeletedInUse ==
  jr_runner = "deleted" => jr_phase = "idle" /\ jr_env = "gone" /\ jr_handlers = {}

(* A runner left by its environment waits for the unload event, and only    *)
(* for that: once the page is unloaded too it is gone, whichever came       *)
(* first.  Where its listener could not be attached (ListenForUnloadEvent   *)
(* ignores the result of Start) the event never comes and the runner stays  *)
(* for good, as Chrome's always does.                                       *)
NoRunnerLeft ==
  jr_phase = "idle" /\ jr_env = "gone" /\ jr_runner = "live" /\ jr_browser # "cr" =>
    ~jr_unloaded /\ (jr_listed \/ jr_deaf)

(* Only handlers that are alive and still listen are told: one that was     *)
(* destroyed by a handler before it is not called.  When the event is over  *)
(* all that listened when it came, and still exist, have been told.         *)
LiveHandlersTold ==
  /\ jr_called' \subseteq jr_called \cup {m \in jr_modules : jr_monitor[m] = "set"}
  /\ jr_phase = "sending" /\ jr_phase' = "idle" => jr_due \subseteq jr_called

(* A page's runner outlives every use, stays behind its page and modules    *)
(* only if it was never listening (or is Chrome's), and tells of the unload *)
(* exactly the handlers that listened when it came and still do.            *)
RunnerDiesInTime ==
  [][/\ NotDeletedInUse'
     /\ NoRunnerLeft'
     /\ LiveHandlersTold]_runnerVars
=============================================================================
