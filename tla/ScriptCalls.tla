------------------------------ MODULE ScriptCalls ------------------------------
(* Scripts that Gears runs (Eval, InvokeCallback) and the exceptions that     *)
(* leave them, in the runners of js_runner_{np,cr,ff,ie}.cc, and the global   *)
(* names a worker's runner hands to the JScript engine (js_runner_ie.cc).     *)
(*                                                                            *)
(* A thread alternates between script and C++: a script calls a module, whose *)
(* method runs with a JsCallContext and may run further scripts; a timer or a *)
(* message runs C++ without any script around it.  An exception that leaves a *)
(* script run by C++ must be given to the enclosing JsCallContext if there is *)
(* one, and otherwise to window.onerror or to the worker's error handler.     *)
(* A page is taken to define window.onerror: without it the NPAPI documents'  *)
(* report (js_runner_utils.cc:57-62) is a script that throws itself.          *)
EXTENDS Naturals, Sequences, FiniteSets, SequencesExt

CONSTANTS MaxFrames,      \* frames of scripts and C++ on one stack
          MaxThrown,      \* exceptions thrown
          GName,          \* names of globals
          GObject         \* the objects behind them

ASSUME ScriptsAssumption == MaxFrames \in Nat /\ MaxThrown \in Nat /\ IsFiniteSet(GName)

VARIABLES
    sc_build,    \* the runner: browser and kind
    sc_stack,    \* frames, innermost last
    sc_thrown,   \* number of exceptions so far
    sc_told,     \* reports of exceptions, [e, to]
    sc_caught,   \* exceptions a script caught
    sc_replaced, \* exceptions replaced by a later one in a JsCallContext
    sc_handler,  \* the worker has an error handler
    sc_lost,     \* exceptions no one is told of, [e, text, heard]
    sg_engine,   \* javascript_engine_: "none", "made", "running", "closed", "left"
    sg_map,      \* global_name_to_object_: GName -> {} or {object}
    sg_named,    \* names the engine was told
    sg_refused,  \* names AddGlobal returned false for
    sg_held,     \* references the engine took in LookupNamedItem: bag
    sg_refs,     \* references to each object
    sg_lost,     \* objects whose name was given to another object
    sg_gone      \* ~JsRunnerImpl has run

callVars == <<sc_build, sc_stack, sc_thrown, sc_told, sc_caught, sc_replaced, sc_handler, sc_lost>>
globalVars == <<sg_engine, sg_map, sg_named, sg_refused, sg_held, sg_refs, sg_lost, sg_gone>>
scriptVars == <<callVars, globalVars>>

NPBuild == {"np document", "np worker", "cr document", "cr worker"}
Build == NPBuild \cup {"ff document", "ff worker", "ie document", "ie worker", "wince document"}

Worker == {"np worker", "cr worker", "ff worker", "ie worker"}

ScriptsInit ==
    /\ sc_build = "none"
    /\ sc_stack = <<>>
    /\ sc_thrown = 0
    /\ sc_told = <<>>
    /\ sc_caught = {}
    /\ sc_replaced = {}
    /\ sc_handler = FALSE
    /\ sc_lost = {}
    /\ sg_engine = "none"
    /\ sg_map = [n \in GName |-> {}]
    /\ sg_named = {}
    /\ sg_refused = {}
    /\ sg_held = [n \in GObject |-> 0]
    /\ sg_refs = [n \in GObject |-> 0]
    /\ sg_lost = {}
    /\ sg_gone = FALSE

NewJsRunner ==
    /\ sc_build = "none"
    /\ sc_build' \in Build
    /\ UNCHANGED <<sc_stack, sc_thrown, sc_told, sc_caught, sc_replaced, sc_handler, sc_lost>>

(* JsRunner::SetErrorHandler; a document's runner has none. *)
SetErrorHandler ==
    /\ sc_build \in Worker
    /\ sc_handler' \in BOOLEAN
    /\ UNCHANGED <<sc_build, sc_stack, sc_thrown, sc_told, sc_caught, sc_replaced, sc_lost>>

-----------------------------------------------------------------------------
ScriptFrame(kind, how, exception) == [kind |-> kind, how |-> how, exception |-> exception]

Top(stack) == stack[Len(stack)]

CanPush == Len(sc_stack) < MaxFrames

(* The browser runs a script of the page; the loop runs a C++ callback.       *)
Enters(kind) ==
    /\ sc_build # "none" /\ sc_stack = <<>>
    /\ sc_stack' = <<ScriptFrame(kind, "outside", 0)>>
    /\ UNCHANGED <<sc_build, sc_thrown, sc_told, sc_caught, sc_replaced, sc_handler, sc_lost>>

(* A script calls a member of a module: a JsCallContext is made.              *)
CallsModule ==
    /\ sc_stack # <<>> /\ Top(sc_stack).kind = "script" /\ CanPush
    /\ sc_stack' = Append(sc_stack, ScriptFrame("call", "context", 0))
    /\ UNCHANGED <<sc_build, sc_thrown, sc_told, sc_caught, sc_replaced, sc_handler, sc_lost>>

RunsScript(how) ==
    /\ sc_stack # <<>> /\ Top(sc_stack).kind \in {"call", "loop"} /\ CanPush
    /\ sc_stack' = Append(sc_stack, ScriptFrame("script", how, 0))
    /\ UNCHANGED <<sc_build, sc_thrown, sc_told, sc_caught, sc_replaced, sc_handler, sc_lost>>

(* InvokeCallback of the runners, then Eval; in NPAPI through GetEvaluator or *)
(* a try block, which turn the exception into a result.                       *)
InvokeCallbackNP == sc_build \in {"np document", "np worker"} /\ RunsScript("callback")

InvokeCallbackCR == sc_build \in {"cr document", "cr worker"} /\ RunsScript("callback")

InvokeCallbackFF == sc_build = "ff worker" /\ RunsScript("callback")

InvokeCallbackFFDocument == sc_build = "ff document" /\ RunsScript("callback")

InvokeCallbackIE == sc_build \in {"ie document", "ie worker", "wince document"} /\ RunsScript("callback")

EvalNP == sc_build \in {"np document", "np worker"} /\ RunsScript("eval")

EvalCR == sc_build \in {"cr document", "cr worker"} /\ RunsScript("eval")

EvalFF == sc_build = "ff worker" /\ RunsScript("eval")

EvalFFDocument == sc_build = "ff document" /\ RunsScript("eval")

EvalIE == sc_build \in {"ie worker", "ie document", "wince document"} /\ RunsScript("eval")

(* Does the runner see the exception as a result of the script?               *)
Catches(how) ==
    \/ sc_build \in NPBuild /\ how = "callback"
    \/ sc_build \in {"np document", "cr document", "cr worker"} /\ how = "eval"

(* What the exception says of itself: the runners ask for its message, which  *)
(* a script may have made empty or given another type than a string.          *)
Text == {"message", "empty", "object"}

Report(e, to) == <<[e |-> e, to |-> to]>>

(* JsCallContext::SetException replaces an earlier exception.                 *)
Set(stack, e) == [stack EXCEPT ![Len(stack)].exception = e]

Replaced(stack) == {Top(stack).exception} \ {0}

(* Exception e leaves the script frame above `stack`: someone is told, or the *)
(* innermost call is given it, or neither.                                    *)
Leaving(stack, told, replaced, lost) ==
    /\ sc_stack' = stack
    /\ sc_told' = sc_told \o told
    /\ sc_replaced' = sc_replaced \cup replaced
    /\ sc_lost' = sc_lost \cup lost

Tells(e, to, stack) == Leaving(stack, Report(e, to), {}, {})

Gives(e, stack) == Leaving(Set(stack, e), <<>>, Replaced(stack), {})

Loses(e, text, stack) == Leaving(stack, <<>>, {}, {[e |-> e, text |-> text, heard |-> sc_handler]})

(* HandleError of a worker, if it has a handler; `to` in a document.          *)
Raises(e, text, to, stack) ==
    IF sc_build \notin Worker THEN Tells(e, to, stack)
    ELSE IF sc_handler THEN Tells(e, "handler", stack)
    ELSE Loses(e, text, stack)

(* ThrowGlobalError: the error handler of a worker, window.onerror else.      *)
ThrowGlobalError(e, text, stack) == Raises(e, text, "onerror", stack)

(* An exception no runner catches is the engine's: it calls JsErrorHandler or *)
(* HandleScriptError in a worker and its own handler in a document, or, with  *)
(* a module's method around, may keep it for the script that called that.     *)
EngineReports(e, text, stack) == Raises(e, text, "browser", stack)

(* Variant: an exception inside a call is reported at once too. *)
SetExceptionTwice(e, text, stack) ==
    IF Top(stack).kind = "call" THEN Leaving(Set(stack, e), Report(e, "onerror"), Replaced(stack), {})
    ELSE ThrowGlobalError(e, text, stack)

SetException(e, text, stack) ==
    IF Top(stack).kind = "call" THEN Gives(e, stack) ELSE ThrowGlobalError(e, text, stack)

(* Is what the NPAPI runners look for in the result a string?  Safari's       *)
(* evaluator makes it one with String(e); Chrome's, and both try blocks, take *)
(* e.message as it is, and a call whose exception is no string succeeds.      *)
IsString(how, text) ==
    \/ text # "object"
    \/ sc_build \in {"np document", "np worker"} /\ how = "callback"

(* Windows CE: window.onerror, unless the description is empty.               *)
CallWindowOnerror(e, text, stack) ==
    IF text # "empty" THEN Tells(e, "onerror", stack) ELSE Loses(e, text, stack)

LeavesScript(e, how, text, stack) ==
    IF how = "outside" THEN EngineReports(e, text, stack)
    ELSE IF sc_build = "wince document" THEN CallWindowOnerror(e, text, stack)
    ELSE IF ~Catches(how)
         THEN EngineReports(e, text, stack) \/ (Top(stack).kind = "call" /\ Gives(e, stack))
    ELSE IF IsString(how, text) THEN SetException(e, text, stack)
    ELSE Loses(e, text, stack)

ScriptThrows ==
    /\ sc_stack # <<>> /\ Top(sc_stack).kind = "script" /\ sc_thrown < MaxThrown
    /\ sc_thrown' = sc_thrown + 1
    /\ \E text \in Text : LeavesScript(sc_thrown + 1, Top(sc_stack).how, text, Front(sc_stack))
    /\ UNCHANGED <<sc_build, sc_caught, sc_handler>>

ScriptReturns ==
    /\ sc_stack # <<>> /\ Top(sc_stack).kind \in {"script", "loop"}
    /\ sc_stack' = Front(sc_stack)
    /\ UNCHANGED <<sc_build, sc_thrown, sc_told, sc_caught, sc_replaced, sc_handler, sc_lost>>

(* The method returns to the script that called it; with an exception set the *)
(* script catches it or is left by it too, by then as an Error made of the    *)
(* message the JsCallContext was given.                                       *)
MethodReturns ==
    /\ sc_stack # <<>> /\ Top(sc_stack).kind = "call" /\ Top(sc_stack).exception = 0
    /\ sc_stack' = Front(sc_stack)
    /\ UNCHANGED <<sc_build, sc_thrown, sc_told, sc_caught, sc_replaced, sc_handler, sc_lost>>

MethodThrows ==
    /\ sc_stack # <<>> /\ Top(sc_stack).kind = "call" /\ Top(sc_stack).exception # 0
    /\ \/ /\ sc_caught' = sc_caught \cup {Top(sc_stack).exception}
          /\ sc_stack' = Front(sc_stack)
          /\ UNCHANGED <<sc_told, sc_replaced, sc_lost>>
       \/ /\ LET below == Front(sc_stack)
             IN  LeavesScript(Top(sc_stack).exception, Top(below).how, "message", Front(below))
          /\ UNCHANGED sc_caught
    /\ UNCHANGED <<sc_build, sc_thrown, sc_handler>>

CallsNext ==
    /\ \/ NewJsRunner \/ SetErrorHandler \/ Enters("script") \/ Enters("loop") \/ CallsModule
       \/ InvokeCallbackNP \/ InvokeCallbackCR \/ InvokeCallbackFF \/ InvokeCallbackFFDocument \/ InvokeCallbackIE
       \/ EvalNP \/ EvalCR \/ EvalFF \/ EvalFFDocument \/ EvalIE
       \/ ScriptThrows \/ ScriptReturns \/ MethodReturns \/ MethodThrows
    /\ UNCHANGED globalVars

-----------------------------------------------------------------------------
(* JsRunnerImpl::AddGlobal: its reference and the map, and then the engine,   *)
(* if there is one, is told the name.                                         *)
PutGlobal(n, o) ==
    /\ ~sg_gone /\ sg_refs[o] < 2
    /\ sg_refs' = [sg_refs EXCEPT ![o] = @ + 1]
    /\ sg_lost' = sg_lost \cup sg_map[n]
    /\ sg_map' = [sg_map EXCEPT ![n] = {o}]
    /\ UNCHANGED <<sg_engine, sg_held, sg_gone>>

AddGlobalNames(n) == IF sg_engine = "none" THEN sg_named ELSE sg_named \cup {n}

AddGlobal(n, o) ==
    /\ PutGlobal(n, o)
    /\ sg_named' = AddGlobalNames(n)
    /\ UNCHANGED sg_refused

(* AddNamedItem failed: AddGlobal returns false, the map keeps the object.    *)
AddGlobalFails(n, o) ==
    /\ sg_engine # "none"
    /\ PutGlobal(n, o)
    /\ sg_refused' = sg_refused \cup {n}
    /\ UNCHANGED sg_named

Globals == {n \in GName : sg_map[n] # {}}

Start ==
    /\ sg_engine = "none" /\ ~sg_gone
    /\ sg_engine' = "running"
    /\ sg_named' = Globals
    /\ UNCHANGED <<sg_map, sg_refused, sg_held, sg_refs, sg_lost, sg_gone>>

(* A step of Start failed once the engine was made: it was told some of the   *)
(* names, or all, and stays.  (Before that a failure changes nothing.)        *)
StartFails ==
    /\ sg_engine = "none" /\ ~sg_gone
    /\ sg_engine' = "made"
    /\ sg_named' \in SUBSET Globals
    /\ UNCHANGED <<sg_map, sg_refused, sg_held, sg_refs, sg_lost, sg_gone>>

(* The script uses a global name; the engine keeps what it is given.          *)
LookupNamedItem(n) ==
    /\ sg_engine \in {"made", "running"} /\ n \in sg_named
    /\ \E o \in sg_map[n] :
          /\ sg_held[o] = 0
          /\ sg_held' = [sg_held EXCEPT ![o] = @ + 1]
          /\ sg_refs' = [sg_refs EXCEPT ![o] = @ + 1]
    /\ UNCHANGED <<sg_engine, sg_map, sg_named, sg_refused, sg_lost, sg_gone>>

Closed == [o \in GObject |-> sg_refs[o] - sg_held[o]]

NoneHeld == [o \in GObject |-> 0]

(* Stop: CleanUpJsGlobalVariables, then Close.                                *)
StopEngine == sg_engine' = "closed" /\ sg_refs' = Closed /\ sg_held' = NoneHeld

Stop ==
    /\ sg_engine \in {"made", "running"}
    /\ StopEngine
    /\ UNCHANGED <<sg_map, sg_named, sg_refused, sg_lost, sg_gone>>

(* The clean-up script failed: Stop returns before Close.                     *)
StopFails ==
    /\ sg_engine \in {"made", "running"}
    /\ sg_engine' = "left"
    /\ UNCHANGED <<sg_map, sg_named, sg_refused, sg_held, sg_refs, sg_lost, sg_gone>>

NamesOf(o) == {n \in GName : o \in sg_map[n]}

(* ~JsRunner has called Stop; ~JsRunnerImpl releases what the map holds.      *)
DestroyRunner ==
    /\ sg_engine \notin {"made", "running"} /\ ~sg_gone
    /\ sg_gone' = TRUE
    /\ sg_refs' = [o \in GObject |-> sg_refs[o] - Cardinality(NamesOf(o))]
    /\ UNCHANGED <<sg_engine, sg_map, sg_named, sg_refused, sg_held, sg_lost>>

GlobalsNext ==
    /\ \/ \E n \in GName : LookupNamedItem(n) \/ \E o \in GObject : AddGlobal(n, o) \/ AddGlobalFails(n, o)
       \/ Start \/ StartFails \/ Stop \/ StopFails \/ DestroyRunner
    /\ UNCHANGED callVars

ScriptsSpec == ScriptsInit /\ [][CallsNext \/ GlobalsNext]_scriptVars

-----------------------------------------------------------------------------
Pending == {sc_stack[i].exception : i \in DOMAIN sc_stack} \ {0}

Told(e) == {i \in DOMAIN sc_told : sc_told[i].e = e}

Lost(e) == \E l \in sc_lost : l.e = e

(* An exception that left a script is accounted for exactly once: pending in  *)
(* one JsCallContext, caught by a script further out, replaced there by a     *)
(* later one, reported, or lost, and never reported twice however deeply      *)
(* scripts and modules call each other.                                       *)
ReportedOnce ==
    \A e \in 1..sc_thrown :
        /\ Cardinality(Told(e)) <= 1
        /\ Cardinality({w \in {"pending", "caught", "replaced", "told", "lost"} :
               CASE w = "pending" -> e \in Pending [] w = "caught" -> e \in sc_caught
                 [] w = "replaced" -> e \in sc_replaced [] w = "told" -> Told(e) # {}
                 [] w = "lost" -> Lost(e)}) = 1

(* No one is told of an exception only in a worker without an error handler,  *)
(* in an NPAPI runner if its message is not a string (js_runner_np.cc:275,    *)
(* js_runner_cr.cc:277, 551), and on Windows CE if its message is empty       *)
(* (js_runner_ie.cc:1126, 1175).                                              *)
LostInSilence(l) ==
    \/ sc_build \in Worker /\ ~l.heard
    \/ sc_build \in NPBuild /\ l.text = "object"
    \/ sc_build = "wince document" /\ l.text = "empty"

FewAreLost == \A l \in sc_lost : LostInSilence(l)

(* While a module's method runs with a JsCallContext, the NPAPI runners       *)
(* report nothing globally: the exception is the calling script's to catch.   *)
InnermostFirst ==
    sc_build \in NPBuild \ {"np worker"} /\ sc_told' # sc_told =>
        \A j \in DOMAIN sc_stack' : sc_stack'[j].kind # "call"

(* A running engine knows every global it did not refuse, and an object that  *)
(* it may ask for exists.                                                     *)
GlobalsKnown ==
    sg_engine \in {"made", "running"} /\ ~sg_gone =>
        \A n \in GName : \A o \in sg_map[n] :
            /\ sg_engine = "running" => n \in sg_named \cup sg_refused
            /\ sg_refs[o] > 0

(* When runner and engine have ended, nothing holds an object, except one     *)
(* whose name was given away while the runner held it.                        *)
NoGlobalLeft ==
    sg_gone /\ sg_engine \in {"none", "closed"} =>
        \A o \in GObject \ sg_lost : sg_refs[o] = 0

(* An exception that leaves a script reaches the innermost C++ caller,     *)
(* once, or is one of the few that are lost, and the globals of a worker's *)
(* engine, whether or not Start and AddGlobal succeeded, are known to it   *)
(* unless it refused them, and released with it.                           *)
ExceptionsArrive ==
  [][/\ ReportedOnce'
     /\ FewAreLost'
     /\ InnermostFirst
     /\ GlobalsKnown'
     /\ NoGlobalLeft']_scriptVars
=============================================================================
