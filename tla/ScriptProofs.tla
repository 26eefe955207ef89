---------------------------- MODULE ScriptProofs ----------------------------
(***************************************************************************)
(* Proofs about scripts and the C++ that runs them: the life of a page's   *)
(* script runner (JsRunner), calls between scripts and C++ with the        *)
(* globals of a worker's engine (ScriptCalls), and the script objects C++  *)
(* holds or shows (JsObjects).                                             *)
(***************************************************************************)
EXTENDS JsRunner, ScriptCalls, JsObjects, TLAPS, FiniteSetTheorems, SequenceTheorems,
        NaturalsInduction

-----------------------------------------------------------------------------
(* The life of a script runner (JsRunner).                                 *)

(* Modules hold the environment, a monitor that still knows the runner is  *)
(* in the runner's list and its module is alive.                           *)
ModulesHold ==
  /\ jr_monitor \in [Module -> {"none", "set", "cleared"}]
  /\ jr_modules \subseteq Module
  /\ jr_env = "live" <=> jr_modules # {}
  /\ \A m \in Module : m \in jr_handlers <=> jr_monitor[m] = "set"
  /\ jr_handlers \subseteq jr_modules

(* The runner lives with its environment, and while it sends the event the *)
(* page is not unloaded.                                                   *)
RunnerHolds ==
  /\ jr_env \in {"none", "live", "gone"}
  /\ jr_env = "none" => jr_runner \in {"none", "missing"} /\ jr_phase = "idle"
  /\ jr_env = "live" => jr_runner = "live" /\ ~jr_detached
  /\ jr_env = "gone" => jr_runner \in {"live", "deleted"} /\ jr_detached
  /\ jr_phase # "idle" => jr_runner = "live" /\ ~jr_unloaded

(* A runner that is not deaf is on the browser's list until its page goes. *)
RunnerHears ==
  /\ jr_listed \in BOOLEAN /\ jr_deaf \in BOOLEAN
  /\ jr_runner = "live" /\ ~jr_unloaded => jr_listed \/ jr_deaf

(* Who is still to be told is in SendEvent's copy, and listens. *)
AllInTurn == jr_phase # "idle" => jr_due \subseteq jr_called \cup (jr_copy \cap jr_handlers)

RunnerInv == ModulesHold /\ RunnerHolds /\ RunnerHears /\ AllInTurn /\ NoRunnerLeft

(* One step keeps the invariant and tells only handlers that listen. *)
RunnerStep == RunnerInv' /\ LiveHandlersTold

LEMMA DeletedIsUnused == RunnerInv => NotDeletedInUse
<1> SUFFICES ASSUME RunnerInv, jr_runner = "deleted" PROVE jr_phase = "idle" /\ jr_env = "gone" /\ jr_handlers = {}
  BY DEF NotDeletedInUse
<1>1. jr_env = "gone" /\ jr_phase = "idle"
  BY DEF RunnerInv, RunnerHolds
<1>2. jr_handlers = {}
  BY <1>1 DEF RunnerInv, ModulesHold
<1>3. QED
  BY <1>1, <1>2

LEMMA CreateFromDOMKeeps ==
  ASSUME RunnerInv, NEW b \in Browser, NEW m \in Module, NEW window \in BOOLEAN, NEW attached \in BOOLEAN,
         CreateFromDOM(b, m, window, attached)
  PROVE  RunnerStep
<1>1. jr_env = "none" /\ jr_phase = "idle"
  BY DEF RunnerInv, RunnerHolds, CreateFromDOM
<1>2. jr_handlers = {} /\ jr_modules = {}
  BY <1>1 DEF RunnerInv, ModulesHold
<1>3. CASE window
  BY <1>1, <1>2, <1>3 DEF RunnerInv, ModulesHold, RunnerHolds, RunnerHears, AllInTurn, NoRunnerLeft, CreateFromDOM, RunnerStep, LiveHandlersTold
<1>4. CASE ~window
  BY <1>1, <1>2, <1>4 DEF RunnerInv, ModulesHold, RunnerHolds, RunnerHears, AllInTurn, NoRunnerLeft, CreateFromDOM, RunnerStep, LiveHandlersTold
<1>5. QED
  BY <1>3, <1>4

LEMMA CreateModuleKeeps ==
  ASSUME RunnerInv, NEW m \in Module, CreateModule(m)
  PROVE  RunnerStep
  BY DEF RunnerInv, ModulesHold, RunnerHolds, RunnerHears, AllInTurn, NoRunnerLeft, CreateModule, MayRun, RunnerStep, LiveHandlersTold

LEMMA MonitorUnloadKeeps ==
  ASSUME RunnerInv, NEW m \in Module, MonitorUnload(m)
  PROVE  RunnerStep
  BY DEF RunnerInv, ModulesHold, RunnerHolds, RunnerHears, AllInTurn, NoRunnerLeft, MonitorUnload, MayRun, RunnerStep, LiveHandlersTold

LEMMA DestroyModuleKeeps ==
  ASSUME RunnerInv, NEW m \in Module, DestroyModule(m)
  PROVE  RunnerStep
<1>1. ModulesHold'
  <2>1. /\ jr_monitor' = [jr_monitor EXCEPT ![m] = "none"]
        /\ jr_modules' = jr_modules \ {m}
        /\ jr_handlers' = jr_handlers \ {m}
    BY DEF DestroyModule, RunnerInv, ModulesHold
  <2>2. jr_env' = "live" <=> jr_modules' # {}
    BY DEF DestroyModule, RunnerInv, ModulesHold, MayRun
  <2>3. QED
    BY <2>1, <2>2 DEF RunnerInv, ModulesHold
<1>2. RunnerHolds' /\ RunnerHears' /\ NoRunnerLeft'
  BY DEF RunnerInv, RunnerHolds, RunnerHears, NoRunnerLeft, DestroyModule, MayRun, OnModuleEnvironmentDetach, DeleteIfNoLongerRelevant
<1>3. LiveHandlersTold
  BY DEF DestroyModule, LiveHandlersTold
<1>4. AllInTurn'
  BY DEF DestroyModule, RunnerInv, ModulesHold, AllInTurn
<1>5. QED
  BY <1>1, <1>2, <1>3, <1>4 DEF RunnerInv, RunnerStep

LEMMA UnloadKeeps ==
  ASSUME RunnerInv, Unload
  PROVE  RunnerStep
  BY DEF RunnerInv, ModulesHold, RunnerHolds, RunnerHears, AllInTurn, NoRunnerLeft, Unload, UnloadedWhileSending, RunnerStep, LiveHandlersTold

LEMMA SendEventKeeps ==
  ASSUME RunnerInv, NEW m \in Module, SendEvent(m)
  PROVE  RunnerStep
<1>1. CASE m \in jr_handlers
  BY <1>1 DEF RunnerInv, ModulesHold, RunnerHolds, RunnerHears, AllInTurn, NoRunnerLeft, SendEvent, StillListens, RunnerStep, LiveHandlersTold
<1>2. CASE m \notin jr_handlers
  BY <1>2 DEF RunnerInv, ModulesHold, RunnerHolds, RunnerHears, AllInTurn, NoRunnerLeft, SendEvent, StillListens, RunnerStep, LiveHandlersTold
<1>3. QED
  BY <1>1, <1>2

LEMMA HandlerReturnsKeeps ==
  ASSUME RunnerInv, HandlerReturns
  PROVE  RunnerStep
  BY DEF RunnerInv, ModulesHold, RunnerHolds, RunnerHears, AllInTurn, NoRunnerLeft, HandlerReturns, RunnerStep, LiveHandlersTold

LEMMA EventOverKeeps ==
  ASSUME RunnerInv,
         \/ HandleNPInstanceDestroyed \/ HandleEventUnload
         \/ HandleEventUnloadIE \/ HandleNPInstanceDestroyedCr
  PROVE  RunnerStep
<1>1. ModulesHold' /\ LiveHandlersTold /\ AllInTurn'
  BY DEF RunnerInv, ModulesHold, LiveHandlersTold, AllInTurn, EventOver, HandleNPInstanceDestroyed, HandleEventUnload,
         HandleEventUnloadIE, HandleNPInstanceDestroyedCr
<1>2. RunnerHolds'
  BY DEF RunnerInv, RunnerHolds, EventOver, HandleNPInstanceDestroyed, HandleEventUnload,
         HandleEventUnloadIE, HandleNPInstanceDestroyedCr, DeleteIfNoLongerRelevant
<1>3. RunnerHears'
  BY DEF RunnerInv, RunnerHears, EventOver, HandleNPInstanceDestroyed, HandleEventUnload,
         HandleEventUnloadIE, HandleNPInstanceDestroyedCr, DeleteIfNoLongerRelevant
<1>4. NoRunnerLeft'
  <2>1. jr_browser' = jr_browser /\ jr_env' = jr_env /\ (jr_env = "gone" => jr_detached)
    BY DEF RunnerInv, RunnerHolds, EventOver, HandleNPInstanceDestroyed, HandleEventUnload,
           HandleEventUnloadIE, HandleNPInstanceDestroyedCr
  <2>2. jr_env = "gone" => jr_runner' = "deleted" \/ jr_browser = "cr"
    BY <2>1 DEF HandleNPInstanceDestroyed, HandleEventUnload, HandleEventUnloadIE, HandleNPInstanceDestroyedCr,
                DeleteIfNoLongerRelevant
  <2>3. QED
    BY <2>1, <2>2 DEF NoRunnerLeft
<1>5. QED
  BY <1>1, <1>2, <1>3, <1>4 DEF RunnerInv, RunnerStep

LEMMA RunnerInductive == RunnerInv /\ [RunnerNext]_runnerVars => RunnerInv' /\ [LiveHandlersTold]_runnerVars
<1> SUFFICES ASSUME RunnerInv, [RunnerNext]_runnerVars PROVE RunnerInv' /\ [LiveHandlersTold]_runnerVars
  OBVIOUS
<1>1. CASE UNCHANGED runnerVars
  BY <1>1 DEF RunnerInv, ModulesHold, RunnerHolds, RunnerHears, AllInTurn, NoRunnerLeft, runnerVars
<1>2. CASE RunnerNext
  BY <1>2, CreateFromDOMKeeps, CreateModuleKeeps, MonitorUnloadKeeps, DestroyModuleKeeps, UnloadKeeps,
     SendEventKeeps, HandlerReturnsKeeps, EventOverKeeps DEF RunnerNext, RunnerStep
<1>3. QED
  BY <1>1, <1>2

(* A page's runner is never deleted in its own SendEvent, under its        *)
(* environment or with a handler left; once its modules are gone it stays  *)
(* only until the page is unloaded, unless its listener was never attached *)
(* or it is Chrome's; and those told of the unload are exactly the         *)
(* handlers that listened when it came and still live                      *)
(* (js_runner_{np,ff,ie,cr}.cc), for any number of modules.                *)
THEOREM RunnerAlwaysDiesInTime == RunnerSpec => RunnerDiesInTime
<1>1. RunnerInit => RunnerInv
  BY DEF RunnerInit, RunnerInv, ModulesHold, RunnerHolds, RunnerHears, AllInTurn, NoRunnerLeft
<1>2. RunnerInv /\ [RunnerNext]_runnerVars => RunnerInv'
  BY RunnerInductive
<1>3. RunnerInv /\ [RunnerNext]_runnerVars => [NotDeletedInUse' /\ NoRunnerLeft' /\ LiveHandlersTold]_runnerVars
  <2> SUFFICES ASSUME RunnerInv, [RunnerNext]_runnerVars
               PROVE  [NotDeletedInUse' /\ NoRunnerLeft' /\ LiveHandlersTold]_runnerVars
    OBVIOUS
  <2>1. RunnerInv' /\ [LiveHandlersTold]_runnerVars
    BY RunnerInductive
  <2>2. (RunnerInv => NotDeletedInUse)'
    BY DeletedIsUnused, PTL
  <2>3. NotDeletedInUse' /\ NoRunnerLeft'
    BY <2>1, <2>2 DEF RunnerInv
  <2>4. QED
    BY <2>1, <2>3
<1>4. QED
  BY <1>1, <1>2, <1>3, PTL DEF RunnerSpec, RunnerDiesInTime

-----------------------------------------------------------------------------
(* Globals of a worker's engine.  Until the runner is gone it and the      *)
(* engine have a reference each for every name and every lookup, and an    *)
(* object has more references only after its name was given away.          *)
GlobalTypes ==
  /\ sg_map \in [GName -> SUBSET GObject]
  /\ \A n \in GName : \A o, p \in sg_map[n] : o = p
  /\ sg_held \in [GObject -> Nat] /\ sg_refs \in [GObject -> Nat]

RefsOf(o, refs) ==
  /\ sg_held[o] + Cardinality(NamesOf(o)) <= refs
  /\ o \notin sg_lost => sg_held[o] + Cardinality(NamesOf(o)) = refs

GlobalsInv ==
  /\ GlobalTypes
  /\ sg_gone => sg_engine \notin {"made", "running"} /\ NoGlobalLeft
  /\ sg_engine = "running" => \A n \in GName : sg_map[n] # {} => n \in sg_named \cup sg_refused
  /\ sg_engine \in {"none", "closed"} => \A o \in GObject : sg_held[o] = 0
  /\ ~sg_gone => \A o \in GObject : RefsOf(o, sg_refs[o])

LEMMA NamesAreFinite ==
  ASSUME NEW o
  PROVE  /\ IsFiniteSet(NamesOf(o)) /\ Cardinality(NamesOf(o)) \in Nat
         /\ \A n \in GName : o \in sg_map[n] => Cardinality(NamesOf(o)) > 0
<1>1. IsFiniteSet(NamesOf(o))
  BY ScriptsAssumption, FS_Subset DEF NamesOf
<1>2. Cardinality(NamesOf(o)) \in Nat
  BY <1>1, FS_CardinalityType
<1>3. \A n \in GName : o \in sg_map[n] => NamesOf(o) # {}
  BY DEF NamesOf
<1> QED
  BY <1>1, <1>2, <1>3, FS_EmptySet

LEMMA GlobalsAreKnown == GlobalsInv => GlobalsKnown /\ NoGlobalLeft
<1> SUFFICES ASSUME GlobalsInv PROVE GlobalsKnown /\ NoGlobalLeft
  OBVIOUS
<1>1. NoGlobalLeft
  BY DEF GlobalsInv, NoGlobalLeft
<1>2. ASSUME sg_engine \in {"made", "running"}, ~sg_gone, NEW n \in GName, NEW o \in sg_map[n]
      PROVE  (sg_engine = "running" => n \in sg_named \cup sg_refused) /\ sg_refs[o] > 0
  <2>1. o \in GObject /\ sg_held[o] \in Nat /\ sg_refs[o] \in Nat
    BY DEF GlobalsInv, GlobalTypes
  <2>2. sg_held[o] + Cardinality(NamesOf(o)) <= sg_refs[o]
    BY <1>2, <2>1 DEF GlobalsInv, RefsOf
  <2>3. Cardinality(NamesOf(o)) \in Nat /\ Cardinality(NamesOf(o)) > 0
    BY NamesAreFinite
  <2> QED
    BY <1>2, <2>1, <2>2, <2>3 DEF GlobalsInv
<1> QED
  BY <1>1, <1>2 DEF GlobalsKnown

LEMMA AddGlobalKeeps ==
  ASSUME GlobalsInv, NEW n \in GName, NEW o \in GObject, AddGlobal(n, o) \/ AddGlobalFails(n, o)
  PROVE  GlobalsInv'
<1> USE DEF GlobalsInv, GlobalTypes
<1>1. /\ ~sg_gone /\ ~sg_gone' /\ sg_held' = sg_held /\ sg_engine' = sg_engine
      /\ sg_refs' = [sg_refs EXCEPT ![o] = @ + 1]
      /\ sg_lost' = sg_lost \cup sg_map[n]
      /\ sg_map' = [sg_map EXCEPT ![n] = {o}]
      /\ sg_engine = "running" => sg_named' \cup sg_refused' = sg_named \cup sg_refused \cup {n}
  BY DEF AddGlobal, AddGlobalFails, AddGlobalNames, PutGlobal
<1>2. GlobalTypes'
  BY <1>1
<1>3. sg_engine' = "running" => \A m \in GName : sg_map'[m] # {} => m \in sg_named' \cup sg_refused'
  BY <1>1
<1>4. ASSUME NEW p \in GObject
      PROVE  RefsOf(p, sg_refs[p])'
  <2>0. /\ IsFiniteSet(NamesOf(p)) /\ Cardinality(NamesOf(p)) \in Nat
        /\ sg_held[p] \in Nat /\ sg_refs[p] \in Nat
        /\ RefsOf(p, sg_refs[p])
    BY <1>1, NamesAreFinite
  <2>1. CASE p = o
    <3>1. NamesOf(p)' = NamesOf(p) \cup {n}
      BY <1>1, <2>1 DEF NamesOf
    <3>2. Cardinality(NamesOf(p)') = IF n \in NamesOf(p) THEN Cardinality(NamesOf(p)) ELSE Cardinality(NamesOf(p)) + 1
      BY <2>0, <3>1, FS_AddElement
    <3>3. sg_refs'[p] = sg_refs[p] + 1
      BY <1>1, <2>1
    <3>4. n \in NamesOf(p) => p \in sg_lost'
      BY <1>1, <2>1 DEF NamesOf
    <3> QED
      BY <1>1, <2>0, <3>2, <3>3, <3>4 DEF RefsOf
  <2>2. CASE p # o
    <3>1. NamesOf(p)' = NamesOf(p) \ {n}
      BY <1>1, <2>2 DEF NamesOf
    <3>2. Cardinality(NamesOf(p)') = IF n \in NamesOf(p) THEN Cardinality(NamesOf(p)) - 1 ELSE Cardinality(NamesOf(p))
      BY <2>0, <3>1, FS_RemoveElement
    <3>3. sg_refs'[p] = sg_refs[p]
      BY <1>1, <2>2
    <3>4. n \in NamesOf(p) => p \in sg_lost'
      BY <1>1 DEF NamesOf
    <3> QED
      BY <1>1, <2>0, <3>2, <3>3, <3>4 DEF RefsOf
  <2> QED
    BY <2>1, <2>2
<1> QED
  BY <1>1, <1>2, <1>3, <1>4

LEMMA LookupKeeps ==
  ASSUME GlobalsInv, NEW n \in GName, LookupNamedItem(n)
  PROVE  GlobalsInv'
<1> USE DEF GlobalsInv, GlobalTypes
<1>1. PICK o \in sg_map[n] :
        /\ sg_held' = [sg_held EXCEPT ![o] = @ + 1]
        /\ sg_refs' = [sg_refs EXCEPT ![o] = @ + 1]
  BY DEF LookupNamedItem
<1>2. /\ sg_engine \in {"made", "running"} /\ o \in GObject
      /\ UNCHANGED <<sg_engine, sg_map, sg_named, sg_refused, sg_lost, sg_gone>>
  BY DEF LookupNamedItem
<1>3. ASSUME NEW p \in GObject
      PROVE  RefsOf(p, sg_refs[p])'
  <2>0. /\ Cardinality(NamesOf(p)) \in Nat /\ sg_held[p] \in Nat /\ sg_refs[p] \in Nat /\ RefsOf(p, sg_refs[p])
    BY <1>2, NamesAreFinite
  <2>1. NamesOf(p)' = NamesOf(p)
    BY <1>2 DEF NamesOf
  <2>2. \E d \in {0, 1} : sg_held'[p] = sg_held[p] + d /\ sg_refs'[p] = sg_refs[p] + d
    BY <1>1, <1>2, <2>0
  <2> QED
    BY <1>2, <2>0, <2>1, <2>2 DEF RefsOf
<1>4. GlobalTypes'
  BY <1>1, <1>2
<1> QED
  BY <1>2, <1>3, <1>4

LEMMA EnginesKeep ==
  ASSUME GlobalsInv, Start \/ StartFails \/ Stop \/ StopFails \/ DestroyRunner \/ UNCHANGED globalVars
  PROVE  GlobalsInv'
<1> USE DEF GlobalsInv, GlobalTypes
<1>1. CASE Start \/ StartFails \/ StopFails \/ UNCHANGED globalVars
  <2>1. UNCHANGED <<sg_map, sg_held, sg_refs, sg_lost, sg_gone>>
    BY <1>1 DEF Start, StartFails, StopFails, globalVars
  <2>2. \A o \in GObject : NamesOf(o)' = NamesOf(o) /\ (RefsOf(o, sg_refs[o])' <=> RefsOf(o, sg_refs[o]))
    BY <2>1 DEF NamesOf, RefsOf
  <2>3. CASE Start \/ StartFails
    BY <2>1, <2>2, <2>3 DEF Start, StartFails, Globals
  <2>4. CASE StopFails
    BY <2>1, <2>2, <2>4 DEF StopFails
  <2>5. CASE UNCHANGED globalVars
    BY <2>1, <2>2, <2>5 DEF globalVars, NoGlobalLeft
  <2> QED
    BY <1>1, <2>3, <2>4, <2>5
<1>2. CASE Stop
  <2>1. /\ sg_engine \in {"made", "running"} /\ sg_engine' = "closed" /\ sg_refs' = Closed /\ sg_held' = NoneHeld
        /\ UNCHANGED <<sg_map, sg_named, sg_refused, sg_lost, sg_gone>> /\ ~sg_gone
    BY <1>2 DEF Stop, StopEngine
  <2>2. ASSUME NEW o \in GObject
        PROVE  sg_refs'[o] \in Nat /\ sg_held'[o] = 0 /\ RefsOf(o, sg_refs[o])'
    <3>1. NamesOf(o)' = NamesOf(o) /\ Cardinality(NamesOf(o)) \in Nat
      BY <2>1, NamesAreFinite DEF NamesOf
    <3>2. sg_refs'[o] = sg_refs[o] - sg_held[o] /\ sg_held'[o] = 0
      BY <2>1 DEF Closed, NoneHeld
    <3>3. RefsOf(o, sg_refs[o]) /\ sg_refs[o] \in Nat /\ sg_held[o] \in Nat
      BY <2>1
    <3> QED
      BY <2>1, <3>1, <3>2, <3>3 DEF RefsOf
  <2>3. sg_refs' \in [GObject -> Nat] /\ sg_held' \in [GObject -> Nat]
    BY <2>1, <2>2 DEF Closed, NoneHeld
  <2> QED
    BY <2>1, <2>2, <2>3
<1>3. CASE DestroyRunner
  <2>1. /\ sg_engine \notin {"made", "running"} /\ ~sg_gone /\ sg_gone' = TRUE
        /\ sg_refs' = [o \in GObject |-> sg_refs[o] - Cardinality(NamesOf(o))]
        /\ UNCHANGED <<sg_engine, sg_map, sg_named, sg_refused, sg_held, sg_lost>>
    BY <1>3 DEF DestroyRunner
  <2>2. ASSUME NEW o \in GObject
        PROVE  /\ sg_refs'[o] \in Nat
               /\ o \notin sg_lost => sg_refs'[o] = sg_held[o]
    <3>1. Cardinality(NamesOf(o)) \in Nat
      BY NamesAreFinite
    <3>2. sg_refs'[o] = sg_refs[o] - Cardinality(NamesOf(o))
      BY <2>1
    <3>3. RefsOf(o, sg_refs[o]) /\ sg_refs[o] \in Nat /\ sg_held[o] \in Nat
      BY <2>1
    <3> QED
      BY <3>1, <3>2, <3>3 DEF RefsOf
  <2>3. sg_refs' \in [GObject -> Nat]
    BY <2>1, <2>2
  <2>4. NoGlobalLeft'
    BY <2>1, <2>2 DEF NoGlobalLeft
  <2> QED
    BY <2>1, <2>2, <2>3, <2>4
<1> QED
  BY <1>1, <1>2, <1>3

LEMMA GlobalsStep ==
  ASSUME GlobalsInv, GlobalsNext \/ UNCHANGED globalVars
  PROVE  GlobalsInv'
BY AddGlobalKeeps, LookupKeeps, EnginesKeep DEF GlobalsNext


-----------------------------------------------------------------------------
(* Scripts and exceptions.  Frames of scripts and of C++ alternate, only   *)
(* the outermost comes from outside, and only a call holds an exception.   *)
(* Every exception thrown is in one place.                                 *)
FrameSet ==
  [kind : {"script", "call", "loop"}, how : {"outside", "context", "callback", "eval"}, exception : Nat]

ReportSet == [e : Nat \ {0}, to : {"handler", "onerror", "browser"}]

LostSet == [e : Nat \ {0}, text : Text, heard : BOOLEAN]

CallTypes ==
  /\ sc_stack \in Seq(FrameSet) /\ sc_told \in Seq(ReportSet) /\ sc_thrown \in Nat
  /\ sc_handler \in BOOLEAN /\ sc_lost \subseteq LostSet

Outermost(f) == f.how = "outside" /\ f.kind \in {"script", "loop"}

Inside(below, f) ==
  \/ f.kind = "call" /\ f.how = "context" /\ below.kind = "script"
  \/ f.kind = "script" /\ f.how \in {"callback", "eval"} /\ below.kind \in {"call", "loop"}

Alternates(stack) ==
  \A i \in 1 .. Len(stack) :
    /\ i = 1 => Outermost(stack[i])
    /\ i > 1 => Inside(stack[i - 1], stack[i])
    /\ stack[i].kind # "call" => stack[i].exception = 0

HeldIn(stack, e) == \E i \in 1 .. Len(stack) : stack[i].exception = e

HeldOnce(stack) ==
  \A i, j \in 1 .. Len(stack) :
    stack[i].exception # 0 /\ stack[i].exception = stack[j].exception => i = j

ToldIn(told, e) == \E i \in 1 .. Len(told) : told[i].e = e

ToldOnce(told) == \A i, j \in 1 .. Len(told) : told[i].e = told[j].e => i = j

LostIn(lost, e) == \E l \in lost : l.e = e

InOnePlace(e, stack, told, caught, replaced, lost) ==
  /\ HeldIn(stack, e) => ~ToldIn(told, e) /\ e \notin caught /\ e \notin replaced /\ ~LostIn(lost, e)
  /\ ToldIn(told, e) => e \notin caught /\ e \notin replaced /\ ~LostIn(lost, e)
  /\ e \in caught => e \notin replaced /\ ~LostIn(lost, e)
  /\ e \in replaced => ~LostIn(lost, e)

InSomePlace(e, stack, told, caught, replaced, lost) ==
  HeldIn(stack, e) \/ ToldIn(told, e) \/ e \in caught \/ e \in replaced \/ LostIn(lost, e)

Accounted(stack, told, caught, replaced, lost, thrown) ==
  \A e \in Nat \ {0} :
    /\ InOnePlace(e, stack, told, caught, replaced, lost)
    /\ e \in 1 .. thrown <=> InSomePlace(e, stack, told, caught, replaced, lost)

CallsInv ==
  /\ CallTypes
  /\ Alternates(sc_stack) /\ HeldOnce(sc_stack) /\ ToldOnce(sc_told)
  /\ Accounted(sc_stack, sc_told, sc_caught, sc_replaced, sc_lost, sc_thrown)
  /\ FewAreLost

-----------------------------------------------------------------------------
LEMMA OnceIsReported == CallsInv => ReportedOnce
<1> SUFFICES ASSUME CallsInv, NEW e \in 1 .. sc_thrown
             PROVE  /\ Cardinality(Told(e)) <= 1
                    /\ Cardinality({w \in {"pending", "caught", "replaced", "told", "lost"} :
                           CASE w = "pending" -> e \in Pending [] w = "caught" -> e \in sc_caught
                             [] w = "replaced" -> e \in sc_replaced [] w = "told" -> Told(e) # {}
                             [] w = "lost" -> Lost(e)}) = 1
  BY DEF ReportedOnce
<1>0. /\ e \in Nat \ {0} /\ DOMAIN sc_stack = 1 .. Len(sc_stack) /\ DOMAIN sc_told = 1 .. Len(sc_told)
  BY LenProperties DEF CallsInv, CallTypes
<1>1. Told(e) = {} \/ \E i : Told(e) = {i}
  <2>1. \A i, j \in Told(e) : i = j
    BY <1>0 DEF Told, CallsInv, ToldOnce
  <2> QED
    BY <2>1
<1>2. Cardinality(Told(e)) <= 1
  BY <1>1, FS_EmptySet, FS_Singleton
<1>3. (Told(e) # {}) <=> ToldIn(sc_told, e)
  BY <1>0 DEF Told, ToldIn
<1>4. e \in Pending <=> HeldIn(sc_stack, e)
  BY <1>0 DEF Pending, HeldIn
<1>5. /\ InOnePlace(e, sc_stack, sc_told, sc_caught, sc_replaced, sc_lost)
      /\ InSomePlace(e, sc_stack, sc_told, sc_caught, sc_replaced, sc_lost)
  BY <1>0 DEF CallsInv, Accounted
<1> DEFINE P == e \in Pending
           T == Told(e) # {}
           C == e \in sc_caught
           R == e \in sc_replaced
           L == Lost(e)
           W == {w \in {"pending", "caught", "replaced", "told", "lost"} :
                  CASE w = "pending" -> P [] w = "caught" -> C [] w = "replaced" -> R [] w = "told" -> T
                    [] w = "lost" -> L}
<1>6. \/ P /\ ~T /\ ~C /\ ~R /\ ~L
      \/ T /\ ~P /\ ~C /\ ~R /\ ~L
      \/ C /\ ~P /\ ~T /\ ~R /\ ~L
      \/ R /\ ~P /\ ~T /\ ~C /\ ~L
      \/ L /\ ~P /\ ~T /\ ~C /\ ~R
  BY <1>3, <1>4, <1>5 DEF InOnePlace, InSomePlace, LostIn, Lost
<1> HIDE DEF P, T, C, R, L
<1>7. \E w : W = {w}
  <2>1. CASE P /\ ~T /\ ~C /\ ~R /\ ~L
    <3>1. W = {"pending"}
      BY <2>1
    <3> QED
      BY <3>1
  <2>2. CASE T /\ ~P /\ ~C /\ ~R /\ ~L
    <3>1. W = {"told"}
      BY <2>2
    <3> QED
      BY <3>1
  <2>3. CASE C /\ ~P /\ ~T /\ ~R /\ ~L
    <3>1. W = {"caught"}
      BY <2>3
    <3> QED
      BY <3>1
  <2>4. CASE R /\ ~P /\ ~T /\ ~C /\ ~L
    <3>1. W = {"replaced"}
      BY <2>4
    <3> QED
      BY <3>1
  <2>5. CASE L /\ ~P /\ ~T /\ ~C /\ ~R
    <3>1. W = {"lost"}
      BY <2>5
    <3> QED
      BY <3>1
  <2> QED
    BY <1>6, <2>1, <2>2, <2>3, <2>4, <2>5
<1>8. Cardinality(W) = 1
  BY <1>7, FS_Singleton
<1> QED
  BY <1>2, <1>8 DEF P, T, C, R, L

(* The frames below the top ones. *)
LEMMA FrontIs ==
  ASSUME NEW s \in Seq(FrameSet), s # <<>>
  PROVE  /\ Len(s) \in Nat /\ Len(s) > 0
         /\ Front(s) \in Seq(FrameSet) /\ Len(Front(s)) = Len(s) - 1
         /\ \A i \in 1 .. Len(s) - 1 : Front(s)[i] = s[i]
<1>1. Len(s) \in Nat \ {0}
  BY EmptySeq
<1>2. PICK k \in 0 .. Len(s) : k = Len(s) - 1
  BY <1>1
<1>3. /\ SubSeq(s, 1, k) \in Seq(FrameSet) /\ Len(SubSeq(s, 1, k)) = k
      /\ \A i \in 1 .. k : SubSeq(s, 1, k)[i] = s[i]
  BY <1>1, SubSeqProperties
<1> QED
  BY <1>1, <1>2, <1>3 DEF Front

(* A stack that is cut short. *)
CutTo(stack, s, j) ==
  /\ s \in Seq(FrameSet) /\ Len(s) = j
  /\ \A i \in 1 .. j : s[i] = stack[i]

LEMMA CutKeeps ==
  ASSUME NEW stack \in Seq(FrameSet), NEW j \in 0 .. Len(stack), NEW s, CutTo(stack, s, j),
         Alternates(stack), HeldOnce(stack)
  PROVE  /\ Alternates(s) /\ HeldOnce(s)
         /\ \A e : HeldIn(s, e) => HeldIn(stack, e)
<1>1. Len(stack) \in Nat
  BY LenProperties
<1>2. \A i \in 1 .. j : i \in 1 .. Len(stack) /\ (i > 1 => i - 1 \in 1 .. j)
  BY <1>1
<1>3. Alternates(s)
  BY <1>1, <1>2 DEF Alternates, CutTo
<1>4. HeldOnce(s)
  BY <1>1, <1>2 DEF HeldOnce, CutTo
<1>5. \A e : HeldIn(s, e) => HeldIn(stack, e)
  BY <1>1, <1>2 DEF HeldIn, CutTo
<1> QED
  BY <1>3, <1>4, <1>5

(* A stack whose innermost call is given an exception. *)
LEMMA SetKeeps ==
  ASSUME NEW s \in Seq(FrameSet), s # <<>>, Top(s).kind = "call", NEW e \in Nat \ {0},
         Alternates(s), HeldOnce(s), ~HeldIn(s, e)
  PROVE  /\ Set(s, e) \in Seq(FrameSet)
         /\ Alternates(Set(s, e)) /\ HeldOnce(Set(s, e))
         /\ HeldIn(Set(s, e), e)
         /\ \A d \in Nat \ {0, e} :
              HeldIn(Set(s, e), d) <=> HeldIn(s, d) /\ d # Top(s).exception
         /\ Top(s).exception # 0 => HeldIn(s, Top(s).exception)
<1> DEFINE n == Len(s)
<1>1. n \in Nat \ {0} /\ n \in 1 .. n
  BY EmptySeq
<1>2. s[n] \in FrameSet /\ s[n].kind = "call" /\ [s[n] EXCEPT !.exception = e] \in FrameSet
  <2>1. s[n] \in FrameSet
    BY <1>1, ElementOfSeq
  <2> QED
    BY <2>1 DEF Top, FrameSet
<1>3. PICK f \in FrameSet : f = [s[n] EXCEPT !.exception = e]
  BY <1>2
<1>4. Set(s, e) = [s EXCEPT ![n] = f]
  BY <1>1, <1>3 DEF Set
<1>5. PICK t \in Seq(FrameSet) :
        /\ t = Set(s, e) /\ Len(t) = n
        /\ \A j \in 1 .. n : t[j] = IF j = n THEN f ELSE s[j]
  BY <1>1, <1>4, ExceptSeq
<1>6. f.kind = "call" /\ f.how = s[n].how /\ f.exception = e /\ f.kind = s[n].kind
  BY <1>2, <1>3 DEF FrameSet
<1>7. \A j \in 1 .. n : t[j].kind = s[j].kind /\ t[j].how = s[j].how
  BY <1>5, <1>6
<1>8. \A j \in 1 .. n : t[j].exception = IF j = n THEN e ELSE s[j].exception
  BY <1>5, <1>6
<1> HIDE DEF n
<1>9. Len(s) = n
  BY DEF n
<1>10. Alternates(t)
  <2> SUFFICES ASSUME NEW i \in 1 .. n
               PROVE  /\ i = 1 => Outermost(t[i])
                      /\ i > 1 => Inside(t[i - 1], t[i])
                      /\ t[i].kind # "call" => t[i].exception = 0
    BY <1>5 DEF Alternates
  <2>1. i > 1 => i - 1 \in 1 .. n
    BY <1>1
  <2> QED
    BY <1>7, <1>8, <1>9, <1>2, <2>1 DEF Alternates, Outermost, Inside
<1>11. HeldOnce(t)
  BY <1>5, <1>8, <1>9 DEF HeldOnce, HeldIn
<1>12. HeldIn(t, e)
  BY <1>1, <1>5, <1>8 DEF HeldIn
<1>13. ASSUME NEW d \in Nat \ {0, e}
       PROVE  HeldIn(t, d) <=> HeldIn(s, d) /\ d # s[n].exception
  <2>1. HeldIn(t, d) => HeldIn(s, d) /\ d # s[n].exception
    <3> SUFFICES ASSUME HeldIn(t, d) PROVE HeldIn(s, d) /\ d # s[n].exception
      OBVIOUS
    <3>1. PICK i \in 1 .. n : t[i].exception = d
      BY <1>5 DEF HeldIn
    <3>2. i # n /\ s[i].exception = d
      BY <1>8, <3>1
    <3> QED
      BY <1>1, <1>9, <3>2 DEF HeldIn, HeldOnce
  <2>2. HeldIn(s, d) /\ d # s[n].exception => HeldIn(t, d)
    BY <1>5, <1>8, <1>9 DEF HeldIn
  <2> QED
    BY <2>1, <2>2
<1>14. Top(s).exception = s[n].exception /\ (s[n].exception # 0 => HeldIn(s, s[n].exception))
  BY <1>1, <1>9 DEF Top, HeldIn
<1> QED
  BY <1>5, <1>10, <1>11, <1>12, <1>13, <1>14


-----------------------------------------------------------------------------
(* An exception that leaves a script is told, or it is given to the call   *)
(* that ran the script, or it is lost.                                     *)
MayTell(s) == sc_build \in NPBuild \ {"np worker"} => s = <<>> \/ Top(s).kind # "call"

Silent(text) ==
  \/ sc_build \in Worker /\ ~sc_handler
  \/ sc_build \in NPBuild /\ text = "object"
  \/ sc_build = "wince document" /\ text = "empty"

IsTold(e, s) ==
  /\ sc_stack' = s /\ sc_replaced' = sc_replaced /\ sc_lost' = sc_lost
  /\ \E r \in ReportSet : r.e = e /\ sc_told' = Append(sc_told, r)
  /\ MayTell(s)

IsGiven(e, s) ==
  /\ s # <<>> /\ Top(s).kind = "call"
  /\ sc_stack' = Set(s, e) /\ sc_told' = sc_told /\ sc_lost' = sc_lost
  /\ sc_replaced' = sc_replaced \cup ({Top(s).exception} \ {0})

IsLost(e, s) ==
  /\ sc_stack' = s /\ sc_told' = sc_told /\ sc_replaced' = sc_replaced
  /\ \E l \in LostSet : l.e = e /\ LostInSilence(l) /\ sc_lost' = sc_lost \cup {l}

LEMMA TellsIs ==
  ASSUME NEW e \in Nat \ {0}, NEW s, NEW to \in {"handler", "onerror", "browser"},
         sc_told \in Seq(ReportSet), Tells(e, to, s), MayTell(s)
  PROVE  IsTold(e, s)
<1>1. PICK r \in ReportSet : r = [e |-> e, to |-> to] /\ r.e = e
  <2>1. [e |-> e, to |-> to] \in ReportSet
    BY DEF ReportSet
  <2>2. [e |-> e, to |-> to].e = e
    OBVIOUS
  <2> QED
    BY <2>1, <2>2
<1>2. sc_told \o <<r>> = Append(sc_told, r)
  BY AppendIsConcat
<1> QED
  BY <1>1, <1>2 DEF Tells, Leaving, Report, IsTold

LEMMA GivesIs ==
  ASSUME NEW e, NEW s, s # <<>>, Top(s).kind = "call", sc_told \in Seq(ReportSet), Gives(e, s)
  PROVE  IsGiven(e, s)
<1>1. sc_told \o <<>> = sc_told
  BY ConcatEmptySeq
<1> QED
  BY <1>1 DEF Gives, Leaving, Replaced, IsGiven

LEMMA LosesIs ==
  ASSUME NEW e \in Nat \ {0}, NEW s, NEW text \in Text, sc_told \in Seq(ReportSet), sc_handler \in BOOLEAN,
         Loses(e, text, s), Silent(text)
  PROVE  IsLost(e, s)
<1>1. sc_told \o <<>> = sc_told
  BY ConcatEmptySeq
<1>2. PICK l \in LostSet :
        l = [e |-> e, text |-> text, heard |-> sc_handler] /\ l.e = e /\ l.text = text /\ l.heard = sc_handler
  <2> DEFINE m == [e |-> e, text |-> text, heard |-> sc_handler]
  <2>1. m \in LostSet
    BY DEF LostSet
  <2>2. m.e = e /\ m.text = text /\ m.heard = sc_handler
    OBVIOUS
  <2> QED
    BY <2>1, <2>2
<1>3. LostInSilence(l)
  BY <1>2 DEF LostInSilence, Silent
<1> QED
  BY <1>1, <1>2, <1>3 DEF Loses, Leaving, IsLost

LEMMA RaisesIs ==
  ASSUME NEW e \in Nat \ {0}, NEW s, NEW text \in Text, NEW to \in {"onerror", "browser"},
         sc_told \in Seq(ReportSet), sc_handler \in BOOLEAN, Raises(e, text, to, s), MayTell(s)
  PROVE  IsTold(e, s) \/ IsLost(e, s)
BY TellsIs, LosesIs DEF Raises, Silent

LEMMA LeavingIs ==
  ASSUME NEW e \in Nat \ {0}, NEW s, NEW how \in {"outside", "callback", "eval"}, NEW text \in Text,
         s = <<>> <=> how = "outside", sc_told \in Seq(ReportSet), sc_handler \in BOOLEAN,
         LeavesScript(e, how, text, s)
  PROVE  IsTold(e, s) \/ IsGiven(e, s) \/ IsLost(e, s)
<1>1. CASE how = "outside"
  <2>1. Raises(e, text, "browser", s)
    BY <1>1 DEF LeavesScript, EngineReports
  <2> QED
    BY <1>1, <2>1, RaisesIs DEF MayTell
<1>2. CASE how # "outside" /\ sc_build = "wince document"
  <2>1. CallWindowOnerror(e, text, s) /\ sc_build \notin NPBuild
    BY <1>2 DEF LeavesScript, NPBuild
  <2> QED
    BY <1>2, <2>1, TellsIs, LosesIs DEF CallWindowOnerror, MayTell, Silent
<1>3. CASE how # "outside" /\ sc_build # "wince document" /\ Catches(how) /\ IsString(how, text)
  <2>1. SetException(e, text, s)
    BY <1>3 DEF LeavesScript
  <2>2. CASE Top(s).kind = "call"
    BY <1>3, <2>1, <2>2, GivesIs DEF SetException
  <2>3. CASE Top(s).kind # "call"
    BY <2>1, <2>3, RaisesIs DEF SetException, ThrowGlobalError, MayTell
  <2> QED
    BY <2>2, <2>3
<1>4. CASE how # "outside" /\ sc_build # "wince document" /\ Catches(how) /\ ~IsString(how, text)
  <2>1. Loses(e, text, s) /\ text = "object" /\ sc_build \in NPBuild
    BY <1>4 DEF LeavesScript, IsString, Catches, NPBuild
  <2> QED
    BY <2>1, LosesIs DEF Silent
<1>5. CASE how # "outside" /\ sc_build # "wince document" /\ ~Catches(how)
  <2>1. sc_build \notin NPBuild \ {"np worker"}
    BY <1>5 DEF Catches, NPBuild
  <2>2. CASE Raises(e, text, "browser", s)
    BY <2>1, <2>2, RaisesIs DEF MayTell
  <2>3. CASE Top(s).kind = "call" /\ Gives(e, s)
    BY <1>5, <2>3, GivesIs
  <2> QED
    BY <1>5, <2>2, <2>3 DEF LeavesScript, EngineReports
<1> QED
  BY <1>1, <1>2, <1>3, <1>4, <1>5

LEMMA ToldMore ==
  ASSUME NEW told \in Seq(ReportSet), NEW r \in ReportSet, ToldOnce(told), ~ToldIn(told, r.e)
  PROVE  /\ Append(told, r) \in Seq(ReportSet) /\ ToldOnce(Append(told, r))
         /\ \A d : ToldIn(Append(told, r), d) <=> ToldIn(told, d) \/ d = r.e
<1>1. PICK t \in Seq(ReportSet) :
        /\ t = Append(told, r) /\ Len(t) = Len(told) + 1
        /\ \A i \in 1 .. Len(told) : t[i] = told[i]
        /\ t[Len(told) + 1] = r
  BY AppendProperties
<1>2. Len(told) \in Nat
  BY LenProperties
<1>3. \A i \in 1 .. Len(t) : i \in 1 .. Len(told) \/ i = Len(told) + 1
  BY <1>1, <1>2
<1>4. \A i \in 1 .. Len(told) : i \in 1 .. Len(t)
  BY <1>1, <1>2
<1>5. Len(told) + 1 \in 1 .. Len(t)
  BY <1>1, <1>2
<1>6. ToldOnce(t)
  BY <1>1, <1>3 DEF ToldOnce, ToldIn
<1>7. \A d : ToldIn(t, d) <=> ToldIn(told, d) \/ d = r.e
  BY <1>1, <1>3, <1>4, <1>5 DEF ToldIn
<1> QED
  BY <1>1, <1>6, <1>7

(* The exception e leaves the script above the lowest j frames, and was   *)
(* nowhere else.                                                          *)
LEMMA LeavingKeeps ==
  ASSUME CallsInv, NEW j \in Nat, j + 1 \in 1 .. Len(sc_stack),
         NEW s, CutTo(sc_stack, s, j),
         sc_stack[j + 1].kind = "script",
         NEW e \in Nat \ {0}, NEW text \in Text, LeavesScript(e, sc_stack[j + 1].how, text, s),
         sc_caught' = sc_caught, UNCHANGED <<sc_build, sc_handler>>,
         sc_thrown' \in Nat, e \in 1 .. sc_thrown',
         \A d \in Nat \ {0, e} : d \in 1 .. sc_thrown' <=> d \in 1 .. sc_thrown,
         ~HeldIn(s, e), ~ToldIn(sc_told, e), e \notin sc_caught, e \notin sc_replaced, ~LostIn(sc_lost, e),
         \A d \in Nat \ {0, e} : HeldIn(sc_stack, d) => HeldIn(s, d)
  PROVE  CallsInv' /\ InnermostFirst
<1> DEFINE g == sc_stack[j + 1]
<1>0. /\ sc_stack \in Seq(FrameSet) /\ sc_told \in Seq(ReportSet) /\ s \in Seq(FrameSet) /\ Len(s) = j
      /\ Len(sc_stack) \in Nat /\ j \in 0 .. Len(sc_stack)
      /\ Alternates(sc_stack) /\ HeldOnce(sc_stack) /\ ToldOnce(sc_told)
      /\ sc_handler \in BOOLEAN /\ sc_lost \subseteq LostSet /\ FewAreLost
  BY LenProperties DEF CallsInv, CallTypes, CutTo
<1>1. Alternates(s) /\ HeldOnce(s) /\ \A d : HeldIn(s, d) => HeldIn(sc_stack, d)
  BY <1>0, CutKeeps
<1>2. /\ j = 0 => g.how = "outside"
      /\ j > 0 => g.how \in {"callback", "eval"} /\ sc_stack[j].kind \in {"call", "loop"}
  <2>1. j + 1 = 1 <=> j = 0
    OBVIOUS
  <2>2. j > 0 => j + 1 > 1 /\ j + 1 - 1 = j
    OBVIOUS
  <2> QED
    BY <1>0, <2>1, <2>2 DEF Alternates, Outermost, Inside
<1>3. s = <<>> <=> g.how = "outside"
  BY <1>0, <1>2, EmptySeq
<1>4. g.how \in {"outside", "callback", "eval"}
  BY <1>2
<1>5. IsTold(e, s) \/ IsGiven(e, s) \/ IsLost(e, s)
  BY <1>0, <1>3, <1>4, LeavingIs
<1>6. \A d \in Nat \ {0, e} : HeldIn(s, d) <=> HeldIn(sc_stack, d)
  BY <1>1
<1>7. Accounted(sc_stack, sc_told, sc_caught, sc_replaced, sc_lost, sc_thrown)
  BY DEF CallsInv
<1>8. CASE IsTold(e, s)
  <2>1. PICK r \in ReportSet : r.e = e /\ sc_told' = Append(sc_told, r)
    BY <1>8 DEF IsTold
  <2>2. sc_stack' = s /\ sc_replaced' = sc_replaced /\ sc_lost' = sc_lost
    BY <1>8 DEF IsTold
  <2>3. /\ sc_told' \in Seq(ReportSet) /\ ToldOnce(sc_told')
        /\ \A d : ToldIn(sc_told', d) <=> ToldIn(sc_told, d) \/ d = e
    BY <1>0, <2>1, ToldMore
  <2>4. Accounted(s, sc_told', sc_caught, sc_replaced, sc_lost, sc_thrown')
    BY <1>6, <1>7, <2>3 DEF Accounted, InOnePlace, InSomePlace
  <2>5. CallsInv'
    BY <1>0, <1>1, <2>2, <2>3, <2>4 DEF CallsInv, CallTypes, FewAreLost, LostInSilence
  <2>6. ASSUME sc_build \in NPBuild \ {"np worker"}
        PROVE  \A i \in DOMAIN s : s[i].kind # "call"
    <3>1. DOMAIN s = 1 .. j
      BY <1>0, LenProperties
    <3>2. CASE j = 0
      BY <3>1, <3>2
    <3>3. CASE j > 0
      <4>1. Top(s) = s[j] /\ j \in 1 .. j /\ s[j] = sc_stack[j]
        BY <1>0, <3>3 DEF Top, CutTo
      <4>2. s # <<>>
        BY <1>0, <3>3, EmptySeq
      <4>3. s[j].kind = "loop"
        BY <1>2, <1>8, <2>6, <3>3, <4>1, <4>2 DEF IsTold, MayTell
      <4>4. j = 1
        BY <1>0, <1>1, <3>3, <4>1, <4>3 DEF Alternates, Inside
      <4> QED
        BY <3>1, <4>3, <4>4
    <3> QED
      BY <3>2, <3>3
  <2> QED
    BY <2>2, <2>5, <2>6 DEF InnermostFirst
<1>9. CASE IsGiven(e, s)
  <2>1. /\ s # <<>> /\ Top(s).kind = "call" /\ sc_stack' = Set(s, e) /\ sc_told' = sc_told /\ sc_lost' = sc_lost
        /\ sc_replaced' = sc_replaced \cup ({Top(s).exception} \ {0})
    BY <1>9 DEF IsGiven
  <2> DEFINE x == Top(s).exception
  <2>2. /\ Set(s, e) \in Seq(FrameSet) /\ Alternates(Set(s, e)) /\ HeldOnce(Set(s, e)) /\ HeldIn(Set(s, e), e)
        /\ \A d \in Nat \ {0, e} : HeldIn(Set(s, e), d) <=> HeldIn(s, d) /\ d # x
        /\ x # 0 => HeldIn(s, x)
    BY <1>0, <1>1, <2>1, SetKeeps
  <2> HIDE DEF x
  <2>3. sc_replaced' = sc_replaced \cup ({x} \ {0})
    BY <2>1 DEF x
  <2>4. x # e
    BY <2>2
  <2>5. Accounted(sc_stack', sc_told, sc_caught, sc_replaced', sc_lost, sc_thrown')
    <3> SUFFICES ASSUME NEW d \in Nat \ {0}
                 PROVE  /\ InOnePlace(d, Set(s, e), sc_told, sc_caught, sc_replaced', sc_lost)
                        /\ d \in 1 .. sc_thrown' <=> InSomePlace(d, Set(s, e), sc_told, sc_caught, sc_replaced', sc_lost)
      BY <2>1 DEF Accounted
    <3>1. CASE d = e
      BY <2>2, <2>3, <2>4, <3>1 DEF InOnePlace, InSomePlace
    <3>2. CASE d # e
      BY <1>6, <1>7, <2>2, <2>3, <3>2 DEF Accounted, InOnePlace, InSomePlace
    <3> QED
      BY <3>1, <3>2
  <2>6. CallsInv'
    BY <1>0, <2>1, <2>2, <2>5 DEF CallsInv, CallTypes, FewAreLost, LostInSilence
  <2> QED
    BY <2>1, <2>6 DEF InnermostFirst
<1>10. CASE IsLost(e, s)
  <2>1. PICK l \in LostSet : l.e = e /\ LostInSilence(l) /\ sc_lost' = sc_lost \cup {l}
    BY <1>10 DEF IsLost
  <2>2. sc_stack' = s /\ sc_told' = sc_told /\ sc_replaced' = sc_replaced
    BY <1>10 DEF IsLost
  <2>3. \A d : LostIn(sc_lost', d) <=> LostIn(sc_lost, d) \/ d = e
    BY <2>1 DEF LostIn
  <2>4. Accounted(s, sc_told, sc_caught, sc_replaced, sc_lost', sc_thrown')
    BY <1>6, <1>7, <2>3 DEF Accounted, InOnePlace, InSomePlace
  <2>5. FewAreLost' /\ sc_lost' \subseteq LostSet
    BY <1>0, <2>1 DEF FewAreLost, LostInSilence
  <2>6. CallsInv'
    BY <1>0, <1>1, <2>2, <2>4, <2>5 DEF CallsInv, CallTypes
  <2> QED
    BY <2>2, <2>6 DEF InnermostFirst
<1> QED
  BY <1>5, <1>8, <1>9, <1>10


-----------------------------------------------------------------------------
(* The top frame, which the next one is put on or which is taken away. *)
LEMMA TopIs ==
  ASSUME CallsInv, sc_stack # <<>>
  PROVE  LET n == Len(sc_stack)
         IN  /\ n \in Nat \ {0} /\ sc_stack \in Seq(FrameSet)
             /\ Top(sc_stack) = sc_stack[n] /\ sc_stack[n] \in FrameSet
             /\ CutTo(sc_stack, Front(sc_stack), n - 1) /\ n - 1 \in 0 .. n
             /\ Alternates(Front(sc_stack)) /\ HeldOnce(Front(sc_stack))
             /\ \A d \in Nat \ {0} :
                  HeldIn(Front(sc_stack), d) <=> HeldIn(sc_stack, d) /\ d # sc_stack[n].exception
             /\ sc_stack[n].exception # 0 => HeldIn(sc_stack, sc_stack[n].exception)
<1> DEFINE n == Len(sc_stack)
<1>1. sc_stack \in Seq(FrameSet) /\ Alternates(sc_stack) /\ HeldOnce(sc_stack)
  BY DEF CallsInv, CallTypes
<1>2. n \in Nat \ {0} /\ n \in 1 .. n /\ n - 1 \in 0 .. n
  BY <1>1, EmptySeq
<1>3. sc_stack[n] \in FrameSet
  BY <1>1, <1>2, ElementOfSeq
<1>4. CutTo(sc_stack, Front(sc_stack), n - 1)
  BY <1>1, FrontIs DEF CutTo
<1>5. Alternates(Front(sc_stack)) /\ HeldOnce(Front(sc_stack)) /\ \A e : HeldIn(Front(sc_stack), e) => HeldIn(sc_stack, e)
  BY <1>1, <1>2, <1>4, CutKeeps
<1>6. PICK s \in Seq(FrameSet) : s = Front(sc_stack) /\ Len(s) = n - 1 /\ \A i \in 1 .. n - 1 : s[i] = sc_stack[i]
  BY <1>4 DEF CutTo
<1>7. \A i \in 1 .. n : i \in 1 .. n - 1 \/ i = n
  BY <1>2
<1>8. \A i \in 1 .. n - 1 : i \in 1 .. n /\ i # n
  BY <1>2
<1> HIDE DEF n
<1>9. Len(sc_stack) = n
  BY DEF n
<1>10. ASSUME NEW d \in Nat \ {0}
       PROVE  HeldIn(s, d) <=> HeldIn(sc_stack, d) /\ d # sc_stack[n].exception
  <2>1. HeldIn(s, d) => d # sc_stack[n].exception
    BY <1>1, <1>2, <1>6, <1>8, <1>9 DEF HeldIn, HeldOnce
  <2>2. HeldIn(sc_stack, d) /\ d # sc_stack[n].exception => HeldIn(s, d)
    BY <1>6, <1>7, <1>9 DEF HeldIn
  <2> QED
    BY <1>5, <1>6, <2>1, <2>2
<1>11. HeldIn(sc_stack, sc_stack[n].exception)
  BY <1>2, <1>9 DEF HeldIn
<1> QED
  BY <1>1, <1>2, <1>3, <1>4, <1>5, <1>6, <1>9, <1>10, <1>11 DEF Top

(* A frame without an exception is put on the stack. *)
LEMMA PushKeeps ==
  ASSUME CallsInv, NEW f \in FrameSet, f.exception = 0,
         IF sc_stack = <<>> THEN Outermost(f) ELSE Inside(Top(sc_stack), f),
         sc_stack' = Append(sc_stack, f),
         UNCHANGED <<sc_build, sc_thrown, sc_told, sc_caught, sc_replaced, sc_handler, sc_lost>>
  PROVE  CallsInv'
<1> DEFINE n == Len(sc_stack)
<1>1. /\ sc_stack \in Seq(FrameSet) /\ Alternates(sc_stack) /\ HeldOnce(sc_stack)
      /\ Accounted(sc_stack, sc_told, sc_caught, sc_replaced, sc_lost, sc_thrown) /\ n \in Nat
  BY LenProperties DEF CallsInv, CallTypes
<1>2. PICK t \in Seq(FrameSet) :
        /\ t = Append(sc_stack, f) /\ Len(t) = n + 1
        /\ \A i \in 1 .. n : t[i] = sc_stack[i]
        /\ t[n + 1] = f
  BY <1>1, AppendProperties
<1>3. \A i \in 1 .. n + 1 : (i \in 1 .. n /\ (i > 1 => i - 1 \in 1 .. n)) \/ i = n + 1
  BY <1>1
<1>4. \A i \in 1 .. n : i \in 1 .. n + 1
  BY <1>1
<1>5. n = 0 <=> sc_stack = <<>>
  BY <1>1, EmptySeq
<1>6. n > 0 => Top(sc_stack) = t[n] /\ n + 1 - 1 = n /\ n + 1 # 1
  BY <1>1, <1>2 DEF Top
<1>7. n = 0 => n + 1 = 1 /\ ~(n + 1 > 1)
  OBVIOUS
<1> HIDE DEF n
<1>8. Len(sc_stack) = n
  BY DEF n
<1>9. Alternates(t)
  <2> SUFFICES ASSUME NEW i \in 1 .. n + 1
               PROVE  /\ i = 1 => Outermost(t[i])
                      /\ i > 1 => Inside(t[i - 1], t[i])
                      /\ t[i].kind # "call" => t[i].exception = 0
    BY <1>2 DEF Alternates
  <2>1. CASE i \in 1 .. n /\ (i > 1 => i - 1 \in 1 .. n)
    BY <1>1, <1>2, <1>8, <2>1 DEF Alternates
  <2>2. CASE i = n + 1
    <3>1. CASE n = 0
      BY <1>2, <1>5, <1>7, <2>2, <3>1
    <3>2. CASE n > 0
      BY <1>1, <1>2, <1>5, <1>6, <2>2, <3>2
    <3> QED
      BY <1>1, <3>1, <3>2
  <2> QED
    BY <1>3, <2>1, <2>2
<1>10. HeldOnce(t)
  BY <1>1, <1>2, <1>3, <1>8 DEF HeldOnce
<1>11. \A d \in Nat \ {0} : HeldIn(t, d) <=> HeldIn(sc_stack, d)
  BY <1>2, <1>3, <1>4, <1>8 DEF HeldIn
<1>12. Accounted(t, sc_told, sc_caught, sc_replaced, sc_lost, sc_thrown)
  BY <1>1, <1>11 DEF Accounted, InOnePlace, InSomePlace
<1> QED
  BY <1>2, <1>9, <1>10, <1>12 DEF CallsInv, CallTypes, FewAreLost, LostInSilence

(* A frame is taken away; a script further out catches the exception it held. *)
LEMMA PopKeeps ==
  ASSUME CallsInv, sc_stack # <<>>,
         sc_stack' = Front(sc_stack),
         UNCHANGED <<sc_build, sc_thrown, sc_told, sc_replaced, sc_handler, sc_lost>>,
         sc_caught' = sc_caught \cup ({Top(sc_stack).exception} \ {0})
  PROVE  CallsInv'
<1> DEFINE s == Front(sc_stack)
           x == Top(sc_stack).exception
<1>1. /\ s \in Seq(FrameSet) /\ Alternates(s) /\ HeldOnce(s)
      /\ \A d \in Nat \ {0} : HeldIn(s, d) <=> HeldIn(sc_stack, d) /\ d # x
      /\ x # 0 => HeldIn(sc_stack, x)
  BY TopIs DEF CutTo
<1>2. Accounted(sc_stack, sc_told, sc_caught, sc_replaced, sc_lost, sc_thrown)
  BY DEF CallsInv
<1> HIDE DEF s, x
<1>3. sc_caught' = sc_caught \cup ({x} \ {0}) /\ sc_stack' = s
  BY DEF s, x
<1>4. Accounted(s, sc_told, sc_caught', sc_replaced, sc_lost, sc_thrown)
  BY <1>1, <1>2, <1>3 DEF Accounted, InOnePlace, InSomePlace
<1> QED
  BY <1>1, <1>3, <1>4 DEF CallsInv, CallTypes, FewAreLost, LostInSilence

LEMMA ThrowsKeeps ==
  ASSUME CallsInv, ScriptThrows
  PROVE  CallsInv' /\ InnermostFirst
<1> DEFINE n == Len(sc_stack)
           s == Front(sc_stack)
           e == sc_thrown + 1
<1>0. PICK text \in Text : LeavesScript(e, Top(sc_stack).how, text, s)
  BY DEF ScriptThrows
<1>1. /\ sc_stack # <<>> /\ Top(sc_stack).kind = "script"
      /\ sc_thrown' = e /\ sc_caught' = sc_caught /\ UNCHANGED <<sc_build, sc_handler>>
  BY DEF ScriptThrows
<1>2. /\ n \in Nat \ {0} /\ Top(sc_stack) = sc_stack[n]
      /\ CutTo(sc_stack, s, n - 1)
      /\ \A d \in Nat \ {0} : HeldIn(s, d) <=> HeldIn(sc_stack, d) /\ d # sc_stack[n].exception
      /\ sc_thrown \in Nat
  BY <1>1, TopIs DEF CallsInv, CallTypes
<1>3. sc_stack[n].exception = 0
  <2>1. n \in 1 .. n
    BY <1>2
  <2> QED
    BY <1>1, <1>2, <2>1 DEF CallsInv, Alternates
<1>4. e \in Nat \ {0} /\ e \notin 1 .. sc_thrown
  BY <1>2
<1>5. ~HeldIn(sc_stack, e) /\ ~ToldIn(sc_told, e) /\ e \notin sc_caught /\ e \notin sc_replaced /\ ~LostIn(sc_lost, e)
  BY <1>4 DEF CallsInv, Accounted, InSomePlace
<1>6. PICK j \in Nat : j = n - 1 /\ j + 1 = n /\ j + 1 \in 1 .. n
  BY <1>2
<1>7. /\ sc_thrown' \in Nat /\ e \in 1 .. sc_thrown'
      /\ \A d \in Nat \ {0, e} : d \in 1 .. sc_thrown' <=> d \in 1 .. sc_thrown
  BY <1>1, <1>2
<1> HIDE DEF n, s, e
<1>8. j + 1 \in 1 .. Len(sc_stack) /\ CutTo(sc_stack, s, j) /\ sc_stack[j + 1].kind = "script"
      /\ LeavesScript(e, sc_stack[j + 1].how, text, s)
  BY <1>0, <1>1, <1>2, <1>6 DEF n
<1> QED
  BY <1>1, <1>2, <1>3, <1>4, <1>5, <1>7, <1>8, LeavingKeeps

LEMMA MethodThrowsKeeps ==
  ASSUME CallsInv, MethodThrows
  PROVE  CallsInv' /\ InnermostFirst
<1> DEFINE n == Len(sc_stack)
           e == Top(sc_stack).exception
           below == Front(sc_stack)
           s == Front(below)
<1>1. sc_stack # <<>> /\ Top(sc_stack).kind = "call" /\ e # 0 /\ UNCHANGED <<sc_build, sc_thrown, sc_handler>>
  BY DEF MethodThrows
<1>2. /\ n \in Nat \ {0} /\ Top(sc_stack) = sc_stack[n] /\ sc_stack[n] \in FrameSet
      /\ CutTo(sc_stack, below, n - 1)
      /\ Alternates(below) /\ HeldOnce(below) /\ Alternates(sc_stack)
      /\ \A d \in Nat \ {0} : HeldIn(below, d) <=> HeldIn(sc_stack, d) /\ d # e
      /\ HeldIn(sc_stack, e)
      /\ sc_thrown \in Nat
  BY <1>1, TopIs DEF CallsInv, CallTypes
<1>3. CASE /\ sc_caught' = sc_caught \cup {e}
           /\ sc_stack' = below
           /\ UNCHANGED <<sc_told, sc_replaced, sc_lost>>
  <2>1. {e} = {e} \ {0}
    BY <1>1
  <2>2. CallsInv'
    BY <1>1, <1>3, <2>1, PopKeeps
  <2> QED
    BY <1>3, <2>2 DEF InnermostFirst
<1>4. CASE LeavesScript(e, Top(below).how, "message", s) /\ sc_caught' = sc_caught
  <2>1. n > 1 /\ sc_stack[n - 1].kind = "script"
    <3>1. n \in 1 .. n
      BY <1>2
    <3>2. n # 1
      BY <1>1, <1>2, <3>1 DEF Alternates, Outermost
    <3>3. n > 1
      <4>1. \A k \in Nat \ {0} : k # 1 => k > 1
        OBVIOUS
      <4> HIDE DEF n
      <4> QED
        BY <1>2, <3>2, <4>1
    <3> QED
      BY <1>1, <1>2, <3>1, <3>3 DEF Alternates, Inside
  <2>2. /\ below \in Seq(FrameSet) /\ Len(below) = n - 1 /\ \A i \in 1 .. n - 1 : below[i] = sc_stack[i]
    BY <1>2 DEF CutTo
  <2>3. below # <<>>
    BY <1>2, <2>1, <2>2, EmptySeq
  <2>4. /\ s \in Seq(FrameSet) /\ Len(s) = Len(below) - 1 /\ \A i \in 1 .. Len(below) - 1 : s[i] = below[i]
    BY <2>2, <2>3, FrontIs
  <2>5. PICK j \in Nat : j = n - 2 /\ j + 1 = n - 1 /\ j + 1 \in 1 .. n /\ j + 1 \in 1 .. n - 1
    BY <1>2, <2>1
  <2>6. CutTo(sc_stack, s, j)
    <3>1. \A i \in 1 .. j : i \in 1 .. n - 1
      BY <1>2, <2>5
    <3> QED
      BY <1>2, <2>2, <2>4, <2>5, <3>1 DEF CutTo
  <2>7. Top(below) = sc_stack[j + 1] /\ sc_stack[j + 1].kind = "script"
    BY <2>1, <2>2, <2>5 DEF Top
  <2>8. sc_stack[j + 1].exception = 0 /\ below[j + 1] = sc_stack[j + 1]
    BY <1>2, <2>2, <2>5, <2>7 DEF Alternates
  <2>9. e \in Nat \ {0} /\ e \in 1 .. sc_thrown /\ ~ToldIn(sc_told, e) /\ e \notin sc_caught /\ e \notin sc_replaced /\ ~LostIn(sc_lost, e)
    <3>1. e \in Nat \ {0}
      BY <1>1, <1>2 DEF FrameSet
    <3> QED
      BY <1>2, <3>1 DEF CallsInv, Accounted, InOnePlace, InSomePlace
  <2>10. \A d \in Nat \ {0} : HeldIn(s, d) <=> HeldIn(below, d)
    <3>1. \A i \in 1 .. n - 1 : i \in 1 .. j \/ i = j + 1
      BY <1>2, <2>5
    <3>2. \A i \in 1 .. j : i \in 1 .. n - 1
      BY <1>2, <2>5
    <3>3. Len(s) = j /\ Len(below) = n - 1 /\ \A i \in 1 .. j : s[i] = below[i]
      BY <2>2, <2>4, <2>5
    <3> HIDE DEF s, below, n
    <3> QED
      BY <2>8, <3>1, <3>2, <3>3 DEF HeldIn
  <2>11. ~HeldIn(s, e) /\ \A d \in Nat \ {0, e} : HeldIn(sc_stack, d) => HeldIn(s, d)
    BY <1>2, <2>9, <2>10
  <2> HIDE DEF s, e, below
  <2>12. j + 1 \in 1 .. Len(sc_stack) /\ LeavesScript(e, sc_stack[j + 1].how, "message", s) /\ "message" \in Text
    BY <1>4, <2>5, <2>7 DEF Text
  <2> QED
    BY <1>1, <1>2, <1>4, <2>6, <2>7, <2>9, <2>11, <2>12, LeavingKeeps
<1> QED
  BY <1>3, <1>4 DEF MethodThrows

LEMMA FrameIs ==
  ASSUME NEW kind \in {"script", "call", "loop"}, NEW how \in {"outside", "context", "callback", "eval"}
  PROVE  \E f \in FrameSet : f = ScriptFrame(kind, how, 0) /\ f.exception = 0 /\ f.kind = kind /\ f.how = how
<1>1. ScriptFrame(kind, how, 0) \in FrameSet
  BY DEF ScriptFrame, FrameSet
<1>2. ScriptFrame(kind, how, 0).exception = 0 /\ ScriptFrame(kind, how, 0).kind = kind /\ ScriptFrame(kind, how, 0).how = how
  BY DEF ScriptFrame
<1> QED
  BY <1>1, <1>2

LEMMA CallsStep ==
  ASSUME CallsInv, CallsNext \/ UNCHANGED callVars
  PROVE  CallsInv' /\ InnermostFirst
<1>1. CASE NewJsRunner \/ SetErrorHandler \/ UNCHANGED callVars
  <2>1. UNCHANGED <<sc_stack, sc_thrown, sc_told, sc_caught, sc_replaced, sc_lost>> /\ sc_handler' \in BOOLEAN
    BY <1>1 DEF NewJsRunner, SetErrorHandler, callVars, CallsInv, CallTypes
  <2>2. sc_build' = sc_build \/ sc_build = "none"
    BY <1>1 DEF NewJsRunner, SetErrorHandler, callVars
  <2>3. sc_build = "none" => sc_lost = {}
    BY DEF CallsInv, FewAreLost, LostInSilence, NPBuild, Worker
  <2>4. FewAreLost'
    BY <2>1, <2>2, <2>3 DEF CallsInv, FewAreLost, LostInSilence
  <2> QED
    BY <2>1, <2>4 DEF CallsInv, CallTypes, InnermostFirst
<1>2. ASSUME NEW kind \in {"script", "loop"}, Enters(kind)
      PROVE  CallsInv' /\ InnermostFirst
  <2>1. PICK f \in FrameSet : f = ScriptFrame(kind, "outside", 0) /\ f.exception = 0 /\ Outermost(f)
    BY FrameIs DEF Outermost
  <2>2. /\ sc_stack = <<>> /\ sc_stack' = <<f>> /\ Append(<<>>, f) = <<f>>
        /\ UNCHANGED <<sc_build, sc_thrown, sc_told, sc_caught, sc_replaced, sc_handler, sc_lost>>
    BY <1>2, <2>1 DEF Enters
  <2> QED
    BY <2>1, <2>2, PushKeeps DEF InnermostFirst
<1>3. CASE CallsModule
  <2>1. PICK f \in FrameSet : f = ScriptFrame("call", "context", 0) /\ f.exception = 0 /\ f.kind = "call" /\ f.how = "context"
    BY FrameIs
  <2>2. /\ sc_stack # <<>> /\ sc_stack' = Append(sc_stack, f) /\ Inside(Top(sc_stack), f)
        /\ UNCHANGED <<sc_build, sc_thrown, sc_told, sc_caught, sc_replaced, sc_handler, sc_lost>>
    BY <1>3, <2>1 DEF CallsModule, Inside
  <2> QED
    BY <2>1, <2>2, PushKeeps DEF InnermostFirst
<1>4. ASSUME NEW how \in {"callback", "eval"}, RunsScript(how)
      PROVE  CallsInv' /\ InnermostFirst
  <2>1. PICK f \in FrameSet : f = ScriptFrame("script", how, 0) /\ f.exception = 0 /\ f.kind = "script" /\ f.how = how
    BY FrameIs
  <2>2. /\ sc_stack # <<>> /\ sc_stack' = Append(sc_stack, f) /\ Inside(Top(sc_stack), f)
        /\ UNCHANGED <<sc_build, sc_thrown, sc_told, sc_caught, sc_replaced, sc_handler, sc_lost>>
    BY <1>4, <2>1 DEF RunsScript, Inside
  <2> QED
    BY <2>1, <2>2, PushKeeps DEF InnermostFirst
<1>5. CASE ScriptReturns \/ MethodReturns
  <2>1. /\ sc_stack # <<>> /\ sc_stack' = Front(sc_stack)
        /\ UNCHANGED <<sc_build, sc_thrown, sc_told, sc_caught, sc_replaced, sc_handler, sc_lost>>
    BY <1>5 DEF ScriptReturns, MethodReturns
  <2>2. Top(sc_stack).exception = 0
    <3>1. CASE ScriptReturns
      <4>1. Len(sc_stack) \in 1 .. Len(sc_stack) /\ Top(sc_stack) = sc_stack[Len(sc_stack)]
        BY <2>1, TopIs
      <4> QED
        BY <3>1, <4>1 DEF ScriptReturns, CallsInv, Alternates
    <3>2. CASE MethodReturns
      BY <3>2 DEF MethodReturns
    <3> QED
      BY <1>5, <3>1, <3>2
  <2>3. sc_caught' = sc_caught \cup ({Top(sc_stack).exception} \ {0})
    BY <2>1, <2>2
  <2> QED
    BY <2>1, <2>3, PopKeeps DEF InnermostFirst
<1> QED
  BY <1>1, <1>2, <1>3, <1>4, <1>5, ThrowsKeeps, MethodThrowsKeeps
  DEF CallsNext, InvokeCallbackNP, InvokeCallbackCR, InvokeCallbackFF, InvokeCallbackFFDocument, InvokeCallbackIE,
      EvalNP, EvalCR, EvalFF, EvalFFDocument, EvalIE

(* Exceptions and globals, for any depth of the stack, any number of       *)
(* exceptions, names and objects, in every runner: an exception that left  *)
(* a script is in one place and reported at most once, not globally while  *)
(* a method runs that can hand it to its caller; it is lost only where     *)
(* FewAreLost says; and globals, even if Start or AddGlobal failed, are    *)
(* known to a running engine unless it refused them, and released with it. *)
THEOREM ExceptionsAlwaysArrive == ScriptsSpec => ExceptionsArrive
<1> DEFINE ScriptsInv == CallsInv /\ GlobalsInv
<1>1. ScriptsInit => ScriptsInv
  <2> SUFFICES ASSUME ScriptsInit PROVE CallsInv /\ GlobalsInv
    OBVIOUS
  <2>1. CallsInv
    <3>1. /\ sc_stack = <<>> /\ sc_told = <<>> /\ sc_thrown = 0 /\ sc_caught = {} /\ sc_replaced = {} /\ Len(<<>>) = 0
          /\ sc_lost = {} /\ sc_handler = FALSE
      BY DEF ScriptsInit
    <3>2. <<>> \in Seq(FrameSet) /\ <<>> \in Seq(ReportSet)
      BY EmptySeq
    <3>3. \A i \in 1 .. 0 : FALSE
      OBVIOUS
    <3>4. Accounted(<<>>, <<>>, {}, {}, {}, 0)
      BY <3>3 DEF Accounted, InOnePlace, InSomePlace, HeldIn, ToldIn, LostIn
    <3>5. Alternates(<<>>) /\ HeldOnce(<<>>) /\ ToldOnce(<<>>)
      BY <3>3 DEF Alternates, HeldOnce, ToldOnce
    <3> QED
      BY <3>1, <3>2, <3>4, <3>5 DEF CallsInv, CallTypes, FewAreLost
  <2>2. GlobalsInv
    <3>1. \A o : NamesOf(o) = {} /\ Cardinality(NamesOf(o)) = 0
      BY FS_EmptySet DEF NamesOf, ScriptsInit
    <3>2. \A o \in GObject : RefsOf(o, sg_refs[o])
      BY <3>1 DEF RefsOf, ScriptsInit
    <3> QED
      BY <3>2 DEF GlobalsInv, GlobalTypes, ScriptsInit
  <2> QED
    BY <2>1, <2>2
<1>2. ASSUME ScriptsInv, [CallsNext \/ GlobalsNext]_scriptVars
      PROVE  ScriptsInv' /\ InnermostFirst
  <2>1. /\ CallsNext \/ UNCHANGED callVars
        /\ GlobalsNext \/ UNCHANGED globalVars
    BY <1>2 DEF scriptVars, CallsNext, GlobalsNext
  <2> QED
    BY <1>2, <2>1, CallsStep, GlobalsStep
<1>3. ScriptsInv' => ReportedOnce' /\ FewAreLost' /\ GlobalsKnown' /\ NoGlobalLeft'
  <2>1. ScriptsInv => ReportedOnce /\ FewAreLost /\ GlobalsKnown /\ NoGlobalLeft
    BY OnceIsReported, GlobalsAreKnown DEF CallsInv
  <2> QED
    BY <2>1, PTL
<1>4. ScriptsInv /\ [CallsNext \/ GlobalsNext]_scriptVars => ScriptsInv'
  BY <1>2
<1>5. ScriptsInv /\ [CallsNext \/ GlobalsNext]_scriptVars =>
        [/\ ReportedOnce'
         /\ FewAreLost'
         /\ InnermostFirst
         /\ GlobalsKnown'
         /\ NoGlobalLeft']_scriptVars
  BY <1>2, <1>3
<1> QED
  BY <1>1, <1>4, <1>5, PTL DEF ScriptsSpec, ExceptionsArrive

-----------------------------------------------------------------------------
(* Held objects.  The roots or references of an object are one for each    *)
(* variable that holds it, those the browser owes, and those that were     *)
(* forgotten.                                                              *)
HoldersOf(holds, o) == {h \in RHolder : holds[h] = o}

RootTypes ==
  /\ ro_holds \in [RHolder -> RObject \cup {Released, Void}]
  /\ ro_refs \in [RObject -> Int]
  /\ ro_browser \in [RObject -> Nat] /\ ro_lost \in [RObject -> Nat]
  /\ ro_freed \subseteq RObject

RefsAre(holds, refs, browser, lost) ==
  \A o \in RObject : refs[o] = Cardinality(HoldersOf(holds, o)) + browser[o] + lost[o]

(* Only NPAPI forgets references. *)
NoneForgotten == ro_engine # "NP" => \A o \in RObject : ro_lost[o] = 0

RootsInv ==
  /\ RootTypes
  /\ RefsAre(ro_holds, ro_refs, ro_browser, ro_lost)
  /\ HeldIsAlive
  /\ NoneForgotten

(* 1 if a is b, else 0. *)
Same(a, b) == IF a = b THEN 1 ELSE 0

LEMMA SameIs ==
  ASSUME NEW a, NEW b
  PROVE  Same(a, b) \in Nat /\ (a = b => Same(a, b) = 1) /\ (a # b => Same(a, b) = 0)
BY DEF Same

LEMMA HoldersAreFinite ==
  ASSUME NEW f, NEW o
  PROVE  IsFiniteSet(HoldersOf(f, o)) /\ Cardinality(HoldersOf(f, o)) \in Nat
BY RootsAssumption, FS_Subset, FS_CardinalityType DEF HoldersOf

(* One variable changes what it holds. *)
OnlyOf(f, g, h) == \A k \in RHolder \ {h} : g[k] = f[k]

LEMMA HoldersAfter ==
  ASSUME NEW f, NEW g, NEW h \in RHolder, NEW o, OnlyOf(f, g, h)
  PROVE  Cardinality(HoldersOf(g, o)) = Cardinality(HoldersOf(f, o)) - Same(f[h], o) + Same(g[h], o)
<1> DEFINE A == HoldersOf(f, o)
<1> DEFINE B == HoldersOf(g, o)
<1>1. A \ {h} = B \ {h} /\ (h \in A <=> f[h] = o) /\ (h \in B <=> g[h] = o)
  BY DEF HoldersOf, OnlyOf
<1>2. IsFiniteSet(A) /\ IsFiniteSet(B) /\ Cardinality(A) \in Nat /\ Cardinality(B) \in Nat
  BY HoldersAreFinite
<1>3. Cardinality(A \ {h}) = IF h \in A THEN Cardinality(A) - 1 ELSE Cardinality(A)
  BY <1>2, FS_RemoveElement
<1>4. Cardinality(B \ {h}) = IF h \in B THEN Cardinality(B) - 1 ELSE Cardinality(B)
  BY <1>2, FS_RemoveElement
<1> HIDE DEF A, B
<1>5. Cardinality(B) = Cardinality(A) - Same(f[h], o) + Same(g[h], o)
  <2>1. Cardinality(A \ {h}) = Cardinality(A) - Same(f[h], o)
    BY <1>1, <1>2, <1>3, SameIs
  <2>2. Cardinality(A \ {h}) = Cardinality(B) - Same(g[h], o)
    BY <1>1, <1>2, <1>4, SameIs
  <2>3. Same(f[h], o) \in Nat /\ Same(g[h], o) \in Nat
    BY SameIs
  <2>4. QED
    BY <1>2, <2>1, <2>2, <2>3
<1>6. QED
  BY <1>5 DEF A, B

LEMMA RefsChange ==
  ASSUME NEW refs \in [RObject -> Int], NEW x
  PROVE  /\ Retained(refs, x) \in [RObject -> Int] /\ Dropped(refs, x) \in [RObject -> Int]
         /\ \A o \in RObject :
              /\ Retained(refs, x)[o] = refs[o] + Same(x, o)
              /\ Dropped(refs, x)[o] = refs[o] - Same(x, o)
BY SameIs DEF Retained, Dropped

(* The objects that are gone are held by nobody, so the last one to hold   *)
(* an object is still there.                                               *)
LEMMA RootsStart == RootsInit => RootsInv
<1> SUFFICES ASSUME RootsInit PROVE RootsInv
  OBVIOUS
<1>1. RootTypes /\ HeldIsAlive /\ NoneForgotten
  BY DEF RootsInit, RootTypes, HeldIsAlive, NoneForgotten
<1>2. ASSUME NEW o \in RObject
      PROVE  ro_refs[o] = Cardinality(HoldersOf(ro_holds, o)) + ro_browser[o] + ro_lost[o]
  <2>1. HoldersOf(ro_holds, o) = {}
    BY RootsAssumption DEF RootsInit, HoldersOf
  <2>2. Cardinality(HoldersOf(ro_holds, o)) = 0
    BY <2>1, FS_EmptySet
  <2>3. QED
    BY <2>2 DEF RootsInit
<1>3. QED
  BY <1>1, <1>2 DEF RootsInv, RefsAre

(* A step that changes counts alike. *)
LEMMA CountsMove ==
  ASSUME RootsInv, NEW holds, NEW refs, NEW browser, NEW lost,
         \A o \in RObject :
           refs[o] - ro_refs[o] =
             (Cardinality(HoldersOf(holds, o)) - Cardinality(HoldersOf(ro_holds, o)))
               + (browser[o] - ro_browser[o]) + (lost[o] - ro_lost[o]),
         \A o \in RObject : refs[o] \in Int /\ browser[o] \in Nat /\ lost[o] \in Nat
  PROVE  RefsAre(holds, refs, browser, lost)
<1> SUFFICES ASSUME NEW o \in RObject
             PROVE  refs[o] = Cardinality(HoldersOf(holds, o)) + browser[o] + lost[o]
  BY DEF RefsAre
<1>1. ro_refs[o] = Cardinality(HoldersOf(ro_holds, o)) + ro_browser[o] + ro_lost[o]
  BY DEF RootsInv, RefsAre
<1>2. /\ refs[o] \in Int /\ browser[o] \in Nat /\ lost[o] \in Nat
      /\ ro_refs[o] \in Int /\ ro_browser[o] \in Nat /\ ro_lost[o] \in Nat
      /\ Cardinality(HoldersOf(holds, o)) \in Nat /\ Cardinality(HoldersOf(ro_holds, o)) \in Nat
  BY HoldersAreFinite DEF RootsInv, RootTypes
<1>3. QED
  BY <1>1, <1>2

LEMMA RootsHold ==
  ASSUME RootsInv, NEW h \in RHolder
  PROVE  /\ Construct(h) => RootsInv'
         /\ DestroyToken(h) => RootsInv'
         /\ \A o \in RObject : Initialize(h, o) => RootsInv'
<1> DEFINE old == ro_holds[h]
<1>1. RootTypes /\ ro_holds \in [RHolder -> RObject \cup {Released, Void}] /\ ro_refs \in [RObject -> Int]
  BY DEF RootsInv, RootTypes
<1>2. \A o \in RObject : Cardinality(HoldersOf(ro_holds, o)) \in Nat
  BY HoldersAreFinite
<1>3. ASSUME Construct(h) PROVE RootsInv'
  <2>1. old = Released /\ ro_holds' = [ro_holds EXCEPT ![h] = Void]
    BY <1>3 DEF Construct
  <2>2. ASSUME NEW o \in RObject
        PROVE  Cardinality(HoldersOf(ro_holds', o)) = Cardinality(HoldersOf(ro_holds, o))
    <3>1. Cardinality(HoldersOf(ro_holds', o)) =
             Cardinality(HoldersOf(ro_holds, o)) - Same(old, o) + Same(Void, o)
      <4>1. ro_holds'[h] = Void /\ OnlyOf(ro_holds, ro_holds', h)
        BY <1>1, <2>1 DEF OnlyOf
      <4>2. Cardinality(HoldersOf(ro_holds', o)) =
              Cardinality(HoldersOf(ro_holds, o)) - Same(ro_holds[h], o) + Same(ro_holds'[h], o)
        BY <4>1, HoldersAfter
      <4>3. QED
        BY <4>1, <4>2, Zenon
    <3>2. Same(old, o) = 0 /\ Same(Void, o) = 0
      BY <2>1, SameIs, RootsAssumption
    <3>3. QED
      BY <1>2, <3>1, <3>2
  <2>3. RootTypes' /\ HeldIsAlive' /\ NoneForgotten'
    BY <1>3, RootsAssumption DEF RootsInv, RootTypes, Construct, HeldIsAlive, NoneForgotten
  <2>4. RefsAre(ro_holds', ro_refs', ro_browser', ro_lost')
    BY <1>3, <2>2 DEF Construct, RefsAre, RootsInv
  <2>5. QED
    BY <2>3, <2>4 DEF RootsInv
<1>4. ASSUME DestroyToken(h) PROVE RootsInv'
  <2>1. \A o \in RObject : ro_refs'[o] = ro_refs[o] - Same(old, o)
    BY <1>1, <1>4, RefsChange DEF DestroyToken, RefsAfterDestroy
  <2>2. ro_refs' \in [RObject -> Int]
    BY <1>1, <1>4, RefsChange DEF DestroyToken, RefsAfterDestroy
  <2>3. RootTypes' /\ HeldIsAlive' /\ NoneForgotten'
    BY <1>4, <2>2, RootsAssumption DEF RootsInv, RootTypes, DestroyToken, HeldIsAlive, NoneForgotten
  <2>4. ASSUME NEW o \in RObject
        PROVE  ro_refs'[o] - ro_refs[o] = Cardinality(HoldersOf(ro_holds', o)) - Cardinality(HoldersOf(ro_holds, o))
    <3>1. Cardinality(HoldersOf(ro_holds', o)) =
             Cardinality(HoldersOf(ro_holds, o)) - Same(old, o) + Same(Released, o)
      <4>1. ro_holds'[h] = Released /\ OnlyOf(ro_holds, ro_holds', h)
        BY <1>1, <1>4 DEF DestroyToken, OnlyOf
      <4>2. Cardinality(HoldersOf(ro_holds', o)) =
              Cardinality(HoldersOf(ro_holds, o)) - Same(ro_holds[h], o) + Same(ro_holds'[h], o)
        BY <4>1, HoldersAfter
      <4>3. QED
        BY <4>1, <4>2, Zenon
    <3>2. Same(Released, o) = 0 /\ Same(old, o) \in Nat
      BY SameIs, RootsAssumption
    <3>3. ro_refs[o] \in Int
      BY <1>1
    <3>4. QED
      BY <1>2, <2>1, <3>1, <3>2, <3>3
  <2>5. RefsAre(ro_holds', ro_refs', ro_browser', ro_lost')
    <3>1. \A o \in RObject : ro_browser'[o] = ro_browser[o] /\ ro_lost'[o] = ro_lost[o]
      BY <1>4 DEF DestroyToken
    <3>2. QED
      BY <2>3, <2>4, <3>1, HoldersAreFinite, CountsMove DEF RootTypes
  <2>6. QED
    BY <2>3, <2>5 DEF RootsInv
<1>5. ASSUME NEW x \in RObject, Initialize(h, x) PROVE RootsInv'
  <2> DEFINE less == Dropped(ro_refs, old)
  <2>1. less \in [RObject -> Int] /\ \A o \in RObject : less[o] = ro_refs[o] - Same(old, o)
    BY <1>1, RefsChange
  <2>2. ro_refs' = Retained(less, x)
    BY <1>5 DEF Initialize, RefsAfterReset
  <2> HIDE DEF less
  <2>3. ro_refs' \in [RObject -> Int] /\ \A o \in RObject : ro_refs'[o] = less[o] + Same(x, o)
    BY <2>1, <2>2, RefsChange
  <2>4. RootTypes' /\ HeldIsAlive' /\ NoneForgotten'
    BY <1>5, <2>3 DEF RootsInv, RootTypes, Initialize, HeldIsAlive, AtHand, NoneForgotten
  <2>5. ASSUME NEW o \in RObject
        PROVE  ro_refs'[o] - ro_refs[o] = Cardinality(HoldersOf(ro_holds', o)) - Cardinality(HoldersOf(ro_holds, o))
    <3>1. Cardinality(HoldersOf(ro_holds', o)) =
             Cardinality(HoldersOf(ro_holds, o)) - Same(old, o) + Same(x, o)
      <4>1. ro_holds'[h] = x /\ OnlyOf(ro_holds, ro_holds', h)
        BY <1>1, <1>5 DEF Initialize, OnlyOf
      <4>2. Cardinality(HoldersOf(ro_holds', o)) =
              Cardinality(HoldersOf(ro_holds, o)) - Same(ro_holds[h], o) + Same(ro_holds'[h], o)
        BY <4>1, HoldersAfter
      <4>3. QED
        BY <4>1, <4>2, Zenon
    <3>2. Same(x, o) \in Nat /\ Same(old, o) \in Nat
      BY SameIs
    <3>3. ro_refs[o] \in Int /\ ro_refs'[o] = ro_refs[o] - Same(old, o) + Same(x, o)
      BY <1>1, <2>1, <2>3
    <3>4. QED
      BY <1>2, <3>1, <3>2, <3>3
  <2>6. RefsAre(ro_holds', ro_refs', ro_browser', ro_lost')
    <3>1. \A o \in RObject : ro_browser'[o] = ro_browser[o] /\ ro_lost'[o] = ro_lost[o]
      BY <1>5 DEF Initialize
    <3>2. QED
      BY <2>4, <2>5, <3>1, HoldersAreFinite, CountsMove DEF RootTypes
  <2>7. QED
    BY <2>4, <2>6 DEF RootsInv
<1>6. QED
  BY <1>3, <1>4, <1>5

LEMMA ReturnsHold ==
  ASSUME RootsInv, NEW h \in RHolder, SetReturnValueObject(h) \/ SetReturnValueTokenNP(h)
  PROVE  RootsInv'
<1> DEFINE x == ro_holds[h]
<1>1. RootTypes /\ ro_holds \in [RHolder -> RObject \cup {Released, Void}] /\ ro_refs \in [RObject -> Int]
  BY DEF RootsInv, RootTypes
<1>2. x \in RObject /\ x \notin ro_freed
  BY DEF SetReturnValueObject, SetReturnValueTokenNP, Holds, HeldIsAlive, RootsInv
<1>3. ro_refs' \in [RObject -> Int] /\ \A o \in RObject : ro_refs'[o] = ro_refs[o] + Same(x, o)
  BY <1>1, RefsChange DEF SetReturnValueObject, SetReturnValueTokenNP, RefsAfterReturn
<1>4. ro_browser' \in [RObject -> Nat] /\ \A o \in RObject : ro_browser'[o] = ro_browser[o] + Same(x, o)
  <2>1. ro_browser' = [ro_browser EXCEPT ![x] = @ + 1] /\ ro_browser \in [RObject -> Nat]
    BY DEF SetReturnValueObject, SetReturnValueTokenNP, RootsInv, RootTypes
  <2> HIDE DEF x
  <2>2. QED
    BY <1>2, <2>1, SameIs
<1>5. \/ UNCHANGED <<ro_holds, ro_lost>>
      \/ ro_holds' = [ro_holds EXCEPT ![h] = Void] /\ ro_lost' = [ro_lost EXCEPT ![x] = @ + 1]
  BY DEF SetReturnValueObject, SetReturnValueTokenNP
<1>6. ro_lost' \in [RObject -> Nat] /\ ro_holds' \in [RHolder -> RObject \cup {Released, Void}] /\ ro_freed' = ro_freed
  BY <1>1, <1>5 DEF RootTypes, SetReturnValueObject, SetReturnValueTokenNP
<1>7. RootTypes'
  BY <1>1, <1>3, <1>4, <1>6 DEF RootTypes
<1>8. HeldIsAlive'
  <2>1. ASSUME NEW o \in ro_freed PROVE ro_browser'[o] = 0 /\ \A g \in RHolder : ro_holds'[g] # o
    <3>1. o \in RObject /\ o # x /\ ro_browser[o] = 0 /\ \A g \in RHolder : ro_holds[g] # o
      BY <1>1, <1>2 DEF RootsInv, RootTypes, HeldIsAlive
    <3>2. ro_browser'[o] = 0
      BY <1>4, <3>1, SameIs
    <3>3. \A g \in RHolder : ro_holds'[g] # o
      BY <1>1, <1>5, <3>1, RootsAssumption
    <3>4. QED
      BY <3>2, <3>3
  <2>2. QED
    BY <1>6, <2>1 DEF HeldIsAlive
<1>9. ASSUME NEW o \in RObject
      PROVE  (Cardinality(HoldersOf(ro_holds', o)) - Cardinality(HoldersOf(ro_holds, o))) + (ro_lost'[o] - ro_lost[o]) = 0
  <2>1. Cardinality(HoldersOf(ro_holds, o)) \in Nat /\ ro_lost[o] \in Nat /\ Same(x, o) \in Nat
    BY <1>1, HoldersAreFinite, SameIs DEF RootTypes
  <2>2. CASE UNCHANGED <<ro_holds, ro_lost>>
    BY <2>1, <2>2
  <2>3. CASE ro_holds' = [ro_holds EXCEPT ![h] = Void] /\ ro_lost' = [ro_lost EXCEPT ![x] = @ + 1]
    <3>1. Cardinality(HoldersOf(ro_holds', o)) = Cardinality(HoldersOf(ro_holds, o)) - Same(x, o) + Same(Void, o)
      <4>1. ro_holds'[h] = Void /\ OnlyOf(ro_holds, ro_holds', h)
        BY <1>1, <2>3 DEF OnlyOf
      <4>2. Cardinality(HoldersOf(ro_holds', o)) =
              Cardinality(HoldersOf(ro_holds, o)) - Same(ro_holds[h], o) + Same(ro_holds'[h], o)
        BY <4>1, HoldersAfter
      <4>3. QED
        BY <4>1, <4>2, Zenon
    <3>2. Same(Void, o) = 0
      BY SameIs, RootsAssumption
    <3>3. ro_lost'[o] = ro_lost[o] + Same(x, o)
      <4> HIDE DEF x
      <4>1. QED
        BY <1>1, <1>2, <2>1, <2>3, SameIs DEF RootTypes
    <3> HIDE DEF x
    <3>4. QED
      BY <2>1, <3>1, <3>2, <3>3
  <2>4. QED
    BY <1>5, <2>2, <2>3
<1>10. RefsAre(ro_holds', ro_refs', ro_browser', ro_lost')
  <2>1. ASSUME NEW o \in RObject
        PROVE  ro_refs'[o] - ro_refs[o] =
                 (Cardinality(HoldersOf(ro_holds', o)) - Cardinality(HoldersOf(ro_holds, o)))
                   + (ro_browser'[o] - ro_browser[o]) + (ro_lost'[o] - ro_lost[o])
    <3>1. /\ Cardinality(HoldersOf(ro_holds, o)) \in Nat /\ Cardinality(HoldersOf(ro_holds', o)) \in Nat
          /\ ro_lost[o] \in Nat /\ ro_lost'[o] \in Nat /\ Same(x, o) \in Nat
          /\ ro_refs[o] \in Int /\ ro_browser[o] \in Nat
      BY <1>1, <1>6, HoldersAreFinite, SameIs DEF RootTypes
    <3>2. ro_refs'[o] = ro_refs[o] + Same(x, o) /\ ro_browser'[o] = ro_browser[o] + Same(x, o)
      BY <1>3, <1>4
    <3>3. (Cardinality(HoldersOf(ro_holds', o)) - Cardinality(HoldersOf(ro_holds, o))) + (ro_lost'[o] - ro_lost[o]) = 0
      BY <1>9
    <3> HIDE DEF x
    <3> DEFINE c == Cardinality(HoldersOf(ro_holds, o))
               d == Cardinality(HoldersOf(ro_holds', o))
               l == ro_lost[o]
               m == ro_lost'[o]
               r == ro_refs[o]
               q == ro_refs'[o]
               b == ro_browser[o]
               a == ro_browser'[o]
               s == Same(x, o)
    <3>4. /\ r \in Int /\ c \in Int /\ d \in Int /\ b \in Int /\ l \in Int /\ m \in Int /\ s \in Int
          /\ (d - c) + (m - l) = 0 /\ q = r + s /\ a = b + s
      BY <3>1, <3>2, <3>3
    <3> HIDE DEF c, d, l, m, r, q, b, a, s
    <3>5. q - r = (d - c) + (a - b) + (m - l)
      BY <3>4
    <3>6. QED
      BY <3>5 DEF c, d, l, m, r, q, b, a
  <2>2. \A o \in RObject : ro_refs'[o] \in Int /\ ro_browser'[o] \in Nat /\ ro_lost'[o] \in Nat
    BY <1>3, <1>4, <1>6
  <2>3. QED
    BY <2>1, <2>2, CountsMove
<1>11. NoneForgotten'
  BY DEF SetReturnValueObject, SetReturnValueTokenNP, RootsInv, NoneForgotten
<1>12. QED
  BY <1>7, <1>8, <1>10, <1>11 DEF RootsInv

(* In IE the reference of the variable becomes the browser's. *)
LEMMA DetachHolds ==
  ASSUME RootsInv, NEW h \in RHolder, SetReturnValueTokenIE(h)
  PROVE  RootsInv'
<1> DEFINE x == ro_holds[h]
<1>1. RootTypes /\ ro_holds \in [RHolder -> RObject \cup {Released, Void}] /\ ro_refs \in [RObject -> Int]
  BY DEF RootsInv, RootTypes
<1>2. x \in RObject /\ x \notin ro_freed
  BY DEF SetReturnValueTokenIE, Holds, HeldIsAlive, RootsInv
<1>3. ro_browser' \in [RObject -> Nat] /\ \A o \in RObject : ro_browser'[o] = ro_browser[o] + Same(x, o)
  <2>1. ro_browser' = [ro_browser EXCEPT ![x] = @ + 1] /\ ro_browser \in [RObject -> Nat]
    BY DEF SetReturnValueTokenIE, RootsInv, RootTypes
  <2> HIDE DEF x
  <2>2. QED
    BY <1>2, <2>1, SameIs
<1>4. ro_holds' = [ro_holds EXCEPT ![h] = Void] /\ UNCHANGED <<ro_engine, ro_refs, ro_lost, ro_freed>>
  BY DEF SetReturnValueTokenIE
<1>5. RootTypes' /\ NoneForgotten'
  BY <1>1, <1>3, <1>4 DEF RootTypes, RootsInv, NoneForgotten
<1>6. HeldIsAlive'
  <2>1. ASSUME NEW o \in ro_freed PROVE ro_browser'[o] = 0 /\ \A g \in RHolder : ro_holds'[g] # o
    <3>1. o \in RObject /\ o # x /\ ro_browser[o] = 0 /\ \A g \in RHolder : ro_holds[g] # o
      BY <1>1, <1>2 DEF RootsInv, RootTypes, HeldIsAlive
    <3>2. ro_browser'[o] = 0
      BY <1>3, <3>1, SameIs
    <3>3. \A g \in RHolder : ro_holds'[g] # o
      BY <1>1, <1>4, <3>1, RootsAssumption
    <3>4. QED
      BY <3>2, <3>3
  <2>2. QED
    BY <1>4, <2>1 DEF HeldIsAlive
<1>7. RefsAre(ro_holds', ro_refs', ro_browser', ro_lost')
  <2>1. ASSUME NEW o \in RObject
        PROVE  ro_refs'[o] - ro_refs[o] =
                 (Cardinality(HoldersOf(ro_holds', o)) - Cardinality(HoldersOf(ro_holds, o)))
                   + (ro_browser'[o] - ro_browser[o]) + (ro_lost'[o] - ro_lost[o])
    <3>1. Cardinality(HoldersOf(ro_holds', o)) = Cardinality(HoldersOf(ro_holds, o)) - Same(x, o) + Same(Void, o)
      <4>1. ro_holds'[h] = Void /\ OnlyOf(ro_holds, ro_holds', h)
        BY <1>1, <1>4 DEF OnlyOf
      <4>2. Cardinality(HoldersOf(ro_holds', o)) =
              Cardinality(HoldersOf(ro_holds, o)) - Same(ro_holds[h], o) + Same(ro_holds'[h], o)
        BY <4>1, HoldersAfter
      <4>3. QED
        BY <4>1, <4>2, Zenon
    <3>2. Same(Void, o) = 0 /\ Same(x, o) \in Nat
      BY SameIs, RootsAssumption
    <3>3. /\ Cardinality(HoldersOf(ro_holds, o)) \in Nat /\ Cardinality(HoldersOf(ro_holds', o)) \in Nat
          /\ ro_lost[o] \in Nat /\ ro_refs[o] \in Int /\ ro_browser[o] \in Nat
          /\ ro_refs'[o] = ro_refs[o] /\ ro_lost'[o] = ro_lost[o]
      BY <1>1, <1>4, HoldersAreFinite DEF RootTypes
    <3>4. ro_browser'[o] = ro_browser[o] + Same(x, o)
      BY <1>3
    <3> HIDE DEF x
    <3>5. QED
      BY <3>1, <3>2, <3>3, <3>4
  <2>2. \A o \in RObject : ro_refs'[o] \in Int /\ ro_browser'[o] \in Nat /\ ro_lost'[o] \in Nat
    BY <1>1, <1>3, <1>4 DEF RootTypes
  <2>3. QED
    BY <2>1, <2>2, CountsMove
<1>8. QED
  BY <1>5, <1>6, <1>7 DEF RootsInv

LEMMA ScriptsHold ==
  ASSUME RootsInv, NEW x \in RObject
  PROVE  /\ BrowserReleases(x) => RootsInv'
         /\ ScriptDrops(x) => RootsInv'
         /\ Collect(x) => RootsInv'
<1> USE DEF RootsInv, RootTypes, NoneForgotten
<1>1. ASSUME BrowserReleases(x) PROVE RootsInv'
  <2>1. /\ ro_refs' \in [RObject -> Int]
        /\ \A o \in RObject : ro_refs'[o] = ro_refs[o] - Same(x, o)
    BY <1>1, RefsChange DEF BrowserReleases
  <2>2. /\ ro_browser' \in [RObject -> Nat]
        /\ \A o \in RObject : ro_browser'[o] = ro_browser[o] - Same(x, o)
    BY <1>1, SameIs DEF BrowserReleases
  <2>3. x \notin ro_freed
    BY <1>1 DEF BrowserReleases, HeldIsAlive
  <2>4. RootTypes' /\ HeldIsAlive'
    BY <1>1, <2>1, <2>2, <2>3, SameIs DEF BrowserReleases, HeldIsAlive
  <2>5. RefsAre(ro_holds', ro_refs', ro_browser', ro_lost')
    BY <1>1, <2>1, <2>2, HoldersAreFinite, SameIs DEF BrowserReleases, RefsAre
  <2>6. NoneForgotten'
    BY <1>1 DEF BrowserReleases
  <2>7. QED
    BY <2>4, <2>5, <2>6
<1>2. ASSUME ScriptDrops(x) PROVE RootsInv'
  BY <1>2 DEF ScriptDrops, RefsAre, HeldIsAlive, HoldersOf
<1>3. ASSUME Collect(x) PROVE RootsInv'
  <2>1. Cardinality(HoldersOf(ro_holds, x)) = 0 /\ ro_browser[x] = 0
    BY <1>3, HoldersAreFinite DEF Collect, RefsAre
  <2>2. HoldersOf(ro_holds, x) = {}
    BY <2>1, HoldersAreFinite, FS_EmptySet
  <2>3. HeldIsAlive'
    BY <1>3, <2>1, <2>2 DEF Collect, HeldIsAlive, HoldersOf
  <2>4. RootTypes' /\ RefsAre(ro_holds', ro_refs', ro_browser', ro_lost')
    BY <1>3 DEF Collect, RefsAre
  <2>5. NoneForgotten'
    BY <1>3 DEF Collect
  <2>6. QED
    BY <2>3, <2>4, <2>5
<1>4. QED
  BY <1>1, <1>2, <1>3

LEMMA RootsKeep == RootsInv /\ [RootsNext]_rootVars => RootsInv'
<1> SUFFICES ASSUME RootsInv, [RootsNext]_rootVars PROVE RootsInv'
  OBVIOUS
<1>1. CASE UNCHANGED rootVars
  BY <1>1 DEF RootsInv, RootTypes, RefsAre, HeldIsAlive, NoneForgotten, HoldersOf, rootVars
<1>2. CASE ChooseBuild
  BY <1>2 DEF ChooseBuild, RootsInv, RootTypes, RefsAre, HeldIsAlive, NoneForgotten, HoldersOf
<1>3. CASE \E h \in RHolder :
             \/ Construct(h) \/ DestroyToken(h)
             \/ SetReturnValueObject(h)
             \/ SetReturnValueTokenIE(h) \/ SetReturnValueTokenNP(h)
             \/ \E o \in RObject : Initialize(h, o)
  BY <1>3, RootsHold, ReturnsHold, DetachHolds
<1>4. CASE \E o \in RObject : BrowserReleases(o) \/ ScriptDrops(o) \/ Collect(o)
  BY <1>4, ScriptsHold
<1>5. QED
  BY <1>1, <1>2, <1>3, <1>4 DEF RootsNext

LEMMA NothingIsKept == RootsInv => NothingKeptBehind
<1> SUFFICES ASSUME RootsInv, NEW o \in RObject, \A h \in RHolder : ro_holds[h] # o, ro_browser[o] = 0
             PROVE  ro_refs[o] = ro_lost[o]
  BY DEF NothingKeptBehind, RootsInv, NoneForgotten
<1>1. HoldersOf(ro_holds, o) = {}
  BY DEF HoldersOf
<1>2. Cardinality(HoldersOf(ro_holds, o)) = 0
  BY <1>1, FS_EmptySet
<1>3. QED
  BY <1>2 DEF RootsInv, RootTypes, RefsAre

-----------------------------------------------------------------------------
(* Wrapped modules.  All that is alive of a runtime shares one             *)
(* SharedJsClasses, the one the weak pointer knows: a second one is made   *)
(* only when nothing holds the first.                                      *)
ProtoData == [context : JContext, name : JName, shared : Nat, rooted : BOOLEAN]
OrphanData == [id : Nat, context : JContext, rooted : BOOLEAN]
InstData == [id : Nat, context : JContext, name : JName, shared : Nat]

WrapperTypes ==
  /\ jw_context \in [JContext -> {"none", "live", "cleaned", "gone"}]
  /\ jw_shared \in [JContext -> Nat]
  /\ jw_weak \in Nat /\ jw_made \in Nat /\ jw_count \in Nat
  /\ jw_protos \subseteq ProtoData /\ jw_insts \subseteq InstData
  /\ jw_orphans \subseteq OrphanData

OneShared(context, shared, weak, protos, insts) ==
  /\ \A c \in JContext : context[c] \in {"live", "cleaned"} => weak # 0 /\ shared[c] = weak
  /\ \A p \in protos : weak # 0 /\ p.shared = weak
  /\ \A i \in insts : weak # 0 /\ i.shared = weak

WrappersInv ==
  /\ WrapperTypes
  /\ OneShared(jw_context, jw_shared, jw_weak, jw_protos, jw_insts)
  /\ ClassesOutlive
  /\ NoRootsBehind

LEMMA WrappersStart == WrappersInit => WrappersInv
BY DEF WrappersInit, WrappersInv, WrapperTypes, OneShared, ClassesOutlive, NoRootsBehind

LEMMA SharedIsWeak ==
  ASSUME WrappersInv
  PROVE  /\ Expired(jw_weak) => /\ jw_protos = {} /\ jw_insts = {}
                                /\ \A c \in JContext : jw_context[c] \notin {"live", "cleaned"}
         /\ jw_weak = 0 => /\ jw_protos = {} /\ jw_insts = {}
                           /\ \A c \in JContext : jw_context[c] \notin {"live", "cleaned"}
BY DEF WrappersInv, OneShared, Expired, Holders, InstancesHold

LEMMA NewContextKeeps ==
  ASSUME WrappersInv, NEW c \in JContext, NewContextWrapper(c)
  PROVE  WrappersInv'
<1> USE DEF WrappersInv, WrapperTypes
<1> DEFINE new == Obtain
<1>1. new \in Nat /\ new # 0
  BY DEF Obtain
<1>2. \/ new = jw_weak
      \/ /\ jw_protos = {} /\ jw_insts = {}
         /\ \A d \in JContext : jw_context[d] \notin {"live", "cleaned"}
  BY SharedIsWeak DEF Obtain
<1>3. jw_context' = [jw_context EXCEPT ![c] = "live"] /\ jw_shared' = [jw_shared EXCEPT ![c] = new] /\ jw_weak' = new
  BY DEF NewContextWrapper
<1>4. jw_made' \in Nat /\ UNCHANGED <<jw_classes, jw_protos, jw_insts, jw_orphans, jw_count>>
  BY <1>1 DEF NewContextWrapper
<1>5. jw_context[c] = "none"
  BY DEF NewContextWrapper
<1> HIDE DEF new
<1>6. WrapperTypes'
  BY <1>1, <1>3, <1>4
<1>7. OneShared(jw_context', jw_shared', jw_weak', jw_protos', jw_insts')
  BY <1>1, <1>2, <1>3, <1>4 DEF OneShared
<1>8. ClassesOutlive'
  BY <1>4 DEF ClassesOutlive
<1>9. NoRootsBehind'
  BY <1>3, <1>4, <1>5 DEF NoRootsBehind, ProtoData, OrphanData
<1>10. QED
  BY <1>6, <1>7, <1>8, <1>9

(* With or without the instance. *)
LEMMA CreateKeeps ==
  ASSUME WrappersInv, NEW c \in JContext, NEW name \in JName,
         CreateJsTokenForModule(c, name) \/ CreateFailsAtInstance(c, name)
  PROVE  WrappersInv'
<1> USE DEF WrappersInv, WrapperTypes
<1> DEFINE inst == [id |-> jw_count + 1, context |-> c, name |-> name, shared |-> jw_shared[c]]
<1> DEFINE proto == ProtoFor(c, name)
<1>1. /\ jw_context[c] = "live" /\ jw_shared[c] = jw_weak /\ jw_weak # 0
      /\ UNCHANGED <<jw_context, jw_shared, jw_weak, jw_made, jw_orphans>> /\ jw_count' \in Nat
  BY DEF CreateJsTokenForModule, CreateFailsAtInstance, OneShared
<1>2. jw_protos' = jw_protos \cup {proto} /\ jw_classes' = jw_classes \cup {ClassOf(proto)}
  BY DEF CreateJsTokenForModule, CreateFailsAtInstance
<1>3. jw_insts' = jw_insts \/ jw_insts' = jw_insts \cup {inst}
  BY DEF CreateJsTokenForModule, CreateFailsAtInstance
<1>4. proto \in ProtoData /\ proto.shared = jw_weak /\ proto.context = c
  BY <1>1 DEF ProtoFor, ProtoData
<1>5. inst \in InstData /\ inst.shared = jw_weak
  BY <1>1 DEF InstData
<1>6. ClassOf(inst) = ClassOf(proto)
  BY DEF ClassOf, ProtoFor
<1> HIDE DEF inst, proto
<1>7. WrapperTypes'
  BY <1>1, <1>2, <1>3, <1>4, <1>5
<1>8. OneShared(jw_context', jw_shared', jw_weak', jw_protos', jw_insts')
  BY <1>1, <1>2, <1>3, <1>4, <1>5 DEF OneShared
<1>9. ClassesOutlive'
  BY <1>2, <1>3, <1>6 DEF ClassesOutlive
<1>10. NoRootsBehind'
  BY <1>1, <1>2, <1>4 DEF NoRootsBehind
<1>11. QED
  BY <1>7, <1>8, <1>9, <1>10

(* Nothing but an orphan is left. *)
LEMMA GivingUpKeeps ==
  ASSUME WrappersInv, NEW c \in JContext, NEW name \in JName, CreateFailsAtFunctions(c, name)
  PROVE  WrappersInv'
<1> USE DEF WrappersInv, WrapperTypes
<1>1. PICK some \in BOOLEAN :
        jw_orphans' = jw_orphans \cup {[id |-> jw_count + 1, context |-> c, rooted |-> some]}
  BY DEF CreateFailsAtFunctions
<1>2. /\ jw_context[c] = "live" /\ jw_count' = jw_count + 1
      /\ UNCHANGED <<jw_context, jw_shared, jw_weak, jw_made, jw_classes, jw_protos, jw_insts>>
  BY DEF CreateFailsAtFunctions
<1>3. WrapperTypes'
  BY <1>1, <1>2 DEF OrphanData
<1>4. OneShared(jw_context', jw_shared', jw_weak', jw_protos', jw_insts') /\ ClassesOutlive'
  BY <1>2 DEF ClassesOutlive
<1>5. NoRootsBehind'
  BY <1>1, <1>2 DEF NoRootsBehind
<1>6. QED
  BY <1>3, <1>4, <1>5

LEMMA CleanupKeeps ==
  ASSUME WrappersInv, NEW c \in JContext, CleanupRoots(c)
  PROVE  WrappersInv'
<1> USE DEF WrappersInv, WrapperTypes
<1> DEFINE off(p) == IF p.context = c THEN [p EXCEPT !.rooted = FALSE] ELSE p
<1>1. /\ jw_context[c] = "live" /\ jw_context' = [jw_context EXCEPT ![c] = "cleaned"]
      /\ UNCHANGED <<jw_shared, jw_weak, jw_made, jw_classes, jw_insts, jw_count>>
  BY DEF CleanupRoots
<1>2. jw_protos' = {off(p) : p \in jw_protos} /\ jw_orphans' = {off(o) : o \in jw_orphans}
  BY DEF CleanupRoots, Unroot
<1>3. \A p \in jw_protos :
        /\ off(p) \in ProtoData /\ off(p).shared = p.shared /\ ClassOf(off(p)) = ClassOf(p)
        /\ off(p).context = p.context /\ (off(p).rooted => p.rooted /\ p.context # c)
  BY DEF ProtoData, ClassOf
<1>4. \A o \in jw_orphans :
        /\ off(o) \in OrphanData /\ off(o).context = o.context
        /\ off(o).rooted => o.rooted /\ o.context # c
  BY DEF OrphanData
<1> HIDE DEF off
<1>5. WrapperTypes'
  BY <1>1, <1>2, <1>3, <1>4
<1>6. OneShared(jw_context', jw_shared', jw_weak', jw_protos', jw_insts')
  BY <1>1, <1>2, <1>3 DEF OneShared
<1>7. ClassesOutlive'
  BY <1>1, <1>2, <1>3 DEF ClassesOutlive
<1>8. NoRootsBehind'
  BY <1>1, <1>2, <1>3, <1>4 DEF NoRootsBehind, ProtoData, OrphanData
<1>9. QED
  BY <1>5, <1>6, <1>7, <1>8

(* The classes that go with the last holder are nobody's. *)
LEMMA ReleaseKeeps ==
  ASSUME WrappersInv, NEW context, NEW protos \in SUBSET jw_protos, NEW insts \in SUBSET jw_insts
  PROVE  LET left == AfterRelease(jw_classes, Holders(context, protos, insts))
         IN  /\ \A i \in insts : ClassOf(i) \in left
             /\ \A p \in protos : ClassOf(p) \in left
BY DEF WrappersInv, ClassesOutlive, AfterRelease, Holders, InstancesHold, ClassOf

LEMMA EndsKeep ==
  ASSUME WrappersInv
  PROVE  /\ \A c \in JContext : DestroyContextWrapper(c) => WrappersInv'
         /\ \A i \in jw_insts : FinalizeInstance(i) => WrappersInv'
         /\ \A p \in jw_protos : FinalizeProto(p) => WrappersInv'
         /\ \A o \in jw_orphans : FinalizeOrphan(o) => WrappersInv'
         /\ DiscardRuntime => WrappersInv'
<1> USE DEF WrappersInv, WrapperTypes
<1>1. ASSUME NEW c \in JContext, DestroyContextWrapper(c) PROVE WrappersInv'
  <2>1. ClassesOutlive'
    BY <1>1, ReleaseKeeps DEF DestroyContextWrapper, ClassesOutlive
  <2>2. WrapperTypes' /\ OneShared(jw_context', jw_shared', jw_weak', jw_protos', jw_insts')
    BY <1>1 DEF DestroyContextWrapper, OneShared
  <2>3. NoRootsBehind'
    BY <1>1 DEF DestroyContextWrapper, NoRootsBehind, ProtoData, OrphanData
  <2>4. QED
    BY <2>1, <2>2, <2>3
<1>2. ASSUME NEW i \in jw_insts, FinalizeInstance(i) PROVE WrappersInv'
  <2>1. ClassesOutlive'
    BY <1>2, ReleaseKeeps DEF FinalizeInstance, ClassesOutlive
  <2>2. WrapperTypes' /\ OneShared(jw_context', jw_shared', jw_weak', jw_protos', jw_insts')
    BY <1>2 DEF FinalizeInstance, OneShared
  <2>3. NoRootsBehind'
    BY <1>2 DEF FinalizeInstance, NoRootsBehind
  <2>4. QED
    BY <2>1, <2>2, <2>3
<1>3. ASSUME NEW p \in jw_protos, FinalizeProto(p) PROVE WrappersInv'
  <2>1. ClassesOutlive'
    BY <1>3, ReleaseKeeps DEF FinalizeProto, ClassesOutlive
  <2>2. WrapperTypes' /\ OneShared(jw_context', jw_shared', jw_weak', jw_protos', jw_insts')
    BY <1>3 DEF FinalizeProto, OneShared
  <2>3. NoRootsBehind'
    BY <1>3 DEF FinalizeProto, NoRootsBehind
  <2>4. QED
    BY <2>1, <2>2, <2>3
<1>4. ASSUME DiscardRuntime PROVE WrappersInv'
  <2>1. jw_protos = {} /\ jw_insts = {} /\ \A c \in JContext : jw_context[c] \notin {"live", "cleaned"}
    BY <1>4, SharedIsWeak DEF DiscardRuntime
  <2>2. QED
    BY <1>4, <2>1 DEF DiscardRuntime, OneShared, ClassesOutlive, NoRootsBehind
<1>5. ASSUME NEW o \in jw_orphans, FinalizeOrphan(o) PROVE WrappersInv'
  BY <1>5 DEF FinalizeOrphan, OneShared, ClassesOutlive, NoRootsBehind
<1>6. QED
  BY <1>1, <1>2, <1>3, <1>4, <1>5

LEMMA WrappersKeep == WrappersInv /\ [WrappersNext]_wrapperVars => WrappersInv'
<1> SUFFICES ASSUME WrappersInv, [WrappersNext]_wrapperVars PROVE WrappersInv'
  OBVIOUS
<1>1. CASE UNCHANGED wrapperVars
  BY <1>1 DEF wrapperVars, WrappersInv, WrapperTypes, OneShared, ClassesOutlive, NoRootsBehind
<1>2. CASE \E c \in JContext : NewContextWrapper(c) \/ CleanupRoots(c)
  BY <1>2, NewContextKeeps, CleanupKeeps
<1>3. CASE \E c \in JContext, name \in JName :
             \/ CreateJsTokenForModule(c, name)
             \/ CreateFailsAtInstance(c, name) \/ CreateFailsAtFunctions(c, name)
  BY <1>3, CreateKeeps, GivingUpKeeps
<1>4. CASE \/ \E c \in JContext : DestroyContextWrapper(c)
           \/ \E i \in jw_insts : FinalizeInstance(i)
           \/ \E p \in jw_protos : FinalizeProto(p)
           \/ \E o \in jw_orphans : FinalizeOrphan(o)
           \/ DiscardRuntime
  BY <1>4, EndsKeep
<1>5. QED
  BY <1>1, <1>2, <1>3, <1>4 DEF WrappersNext

LEMMA AllAreRecognised == WrappersInv => AllRecognised
BY DEF WrappersInv, WrapperTypes, OneShared, ClassesOutlive, AllRecognised, GetModuleFromJsToken, ClassOf

-----------------------------------------------------------------------------
(* Dispatch tables.  Of the registrations that fit there is a last one. *)
MembersInv == jd_members = NotAsked \/ jd_members \in Seq(Registration)

LEMMA MembersAre == MembersInv => Members \in Seq(Registration)
BY DEF MembersInv, Members

LEMMA LastOfMany ==
  ASSUME NEW n \in Nat, NEW S \in SUBSET (1 .. n), S # {}
  PROVE  \E i \in S : \A j \in S : j <= i
<1> DEFINE above == {m \in Nat : \A j \in S : j <= m}
<1>1. n \in above
  OBVIOUS
<1>2. PICK m \in above : \A k \in above : m <= k
  <2> DEFINE R == OpToRel(<, Nat)
  <2>1. above \subseteq Nat /\ above # {}
    BY <1>1
  <2> HIDE DEF above
  <2>2. PICK m \in above : \A k \in above : <<k, m>> \notin R
    BY <2>1, NatLessThanWellFounded, WFMin
  <2>3. ASSUME NEW k \in above PROVE m <= k
    <3>1. m \in Nat /\ k \in Nat /\ ~(k < m)
      BY <2>1, <2>2 DEF OpToRel
    <3>2. QED
      BY <3>1
  <2>4. QED
    BY <2>3
<1>3. ASSUME m \notin S PROVE FALSE
  <2>1. PICK i \in S : TRUE
    OBVIOUS
  <2>2. m # 0 /\ m - 1 \in Nat
    BY <1>2, <2>1
  <2>3. \A j \in S : j <= m - 1
    BY <1>2, <1>3, <2>2
  <2>4. QED
    BY <1>2, <2>2, <2>3
<1>4. QED
  BY <1>2, <1>3

(* Position i is that of the last registration that is in S. *)
IsLatest(i, S) ==
  /\ S = {} <=> i = 0
  /\ S # {} => i \in S /\ \A j \in S : j <= i

LEMMA TablesAre ==
  ASSUME MembersInv, NEW name
  PROVE  /\ IsLatest(Getter(name), {i \in DOMAIN Members : Members[i].name = name /\ IsProperty(Members[i])})
         /\ IsLatest(Setter(name), {i \in DOMAIN Members : Members[i].name = name /\ IsProperty(Members[i])})
         /\ IsLatest(Method(name), {i \in DOMAIN Members : Members[i].name = name /\ Members[i].kind = "method"})
<1> DEFINE props == {i \in DOMAIN Members : Members[i].name = name /\ IsProperty(Members[i])}
<1> DEFINE calls == {i \in DOMAIN Members : Members[i].name = name /\ Members[i].kind = "method"}
<1> DEFINE pick(S) == IF S = {} THEN 0 ELSE CHOOSE i \in S : \A j \in S : j <= i
<1>1. Getter(name) = pick(props) /\ Setter(name) = pick(props) /\ Method(name) = pick(calls)
  BY DEF Getter, Setter, Method, Latest
<1>2. ASSUME NEW S \in SUBSET DOMAIN Members PROVE IsLatest(pick(S), S)
  <2>1. Len(Members) \in Nat /\ DOMAIN Members = 1 .. Len(Members)
    BY MembersAre, LenProperties
  <2>2. 0 \notin S
    BY <2>1
  <2>3. S # {} => \E i \in S : \A j \in S : j <= i
    BY <2>1, LastOfMany
  <2>4. QED
    BY <2>2, <2>3 DEF IsLatest
<1>3. props \in SUBSET DOMAIN Members /\ calls \in SUBSET DOMAIN Members
  OBVIOUS
<1> HIDE DEF pick
<1>4. IsLatest(pick(props), props) /\ IsLatest(pick(calls), calls)
  BY <1>2, <1>3
<1>5. QED
  BY <1>1, <1>4

LEMMA AnswerIs ==
  ASSUME NEW w, NEW i
  PROVE  Answer(w, i).what = w /\ Answer(w, i).at = i
BY DEF Answer

LEMMA FunctionsDoAnswer == MembersInv => FunctionsAnswer
<1> SUFFICES ASSUME MembersInv, NEW f \in Installed
             PROVE  LET r == JsWrapperCaller(f)
                    IN  /\ r.what # "not found"
                        /\ Members[r.at].name = f.name
                        /\ (f.flags = "setter" /\ Members[r.at].kind = "constant") => r.what = "readonly"
                        /\ \A j \in DOMAIN Members :
                             (Members[j].name = f.name /\ (IsProperty(Members[j]) <=> f.flags # "method")) => j <= r.at
  BY DEF FunctionsAnswer
<1>1. PICK n \in MemberNames, how \in {"getter", "setter", "method"} : f = [name |-> n, flags |-> how]
  BY DEF Installed, Prototype
<1>2. how \in FunctionsOf(n)
  BY <1>1 DEF Installed
<1>3. PICK m \in DOMAIN Members : Members[m].name = n
  BY DEF MemberNames
<1>4. \A j \in DOMAIN Members : Members[j] \in Registration
  BY MembersAre, ElementOfSeq, LenProperties
<1>5. \A j \in DOMAIN Members : IsProperty(Members[j]) <=> Members[j].kind # "method"
  BY <1>4 DEF Registration, IsProperty
<1> DEFINE props == {i \in DOMAIN Members : Members[i].name = n /\ IsProperty(Members[i])}
<1> DEFINE calls == {i \in DOMAIN Members : Members[i].name = n /\ Members[i].kind = "method"}
<1>6. IsLatest(Getter(n), props) /\ IsLatest(Setter(n), props) /\ IsLatest(Method(n), calls)
  BY TablesAre
<1>7. CASE how = "getter"
  <2>1. Getter(n) # 0
    BY <1>2, <1>7 DEF FunctionsOf
  <2>2. JsWrapperCaller(f) = Answer("runs", Getter(n))
    BY <1>1, <1>7, <2>1 DEF JsWrapperCaller, GetProperty
  <2>3. JsWrapperCaller(f).what = "runs" /\ JsWrapperCaller(f).at = Getter(n)
    BY <2>2 DEF Answer
  <2>4. Getter(n) \in props /\ \A j \in props : j <= Getter(n)
    BY <1>6, <2>1 DEF IsLatest
  <2>5. QED
    BY <1>1, <1>7, <2>3, <2>4
<1>8. CASE how = "setter"
  <2>1. Setter(n) # 0
    BY <1>2, <1>8 DEF FunctionsOf
  <2>2. JsWrapperCaller(f) = IF Members[Setter(n)].kind = "constant" THEN Answer("readonly", Setter(n))
                             ELSE Answer("runs", Setter(n))
    BY <1>1, <1>8, <2>1 DEF JsWrapperCaller, SetProperty
  <2>3. /\ JsWrapperCaller(f).at = Setter(n)
        /\ JsWrapperCaller(f).what = IF Members[Setter(n)].kind = "constant" THEN "readonly" ELSE "runs"
    <3>1. CASE Members[Setter(n)].kind = "constant"
      <4>1. JsWrapperCaller(f) = Answer("readonly", Setter(n))
        BY <2>2, <3>1
      <4>2. JsWrapperCaller(f).at = Setter(n) /\ JsWrapperCaller(f).what = "readonly"
        BY <4>1, AnswerIs
      <4>3. QED
        BY <3>1, <4>2
    <3>2. CASE Members[Setter(n)].kind # "constant"
      BY <2>2, <3>2 DEF Answer
    <3>3. QED
      BY <3>1, <3>2
  <2>4. Setter(n) \in props /\ \A j \in props : j <= Setter(n)
    BY <1>6, <2>1 DEF IsLatest
  <2>5. QED
    BY <1>1, <1>8, <2>3, <2>4
<1>9. CASE how = "method"
  <2>1. Getter(n) = 0
    BY <1>2, <1>9 DEF FunctionsOf
  <2>2. m \in calls
    BY <1>3, <1>5, <1>6, <2>1 DEF IsLatest
  <2>3. Method(n) # 0
    BY <1>6, <2>2 DEF IsLatest
  <2>4. JsWrapperCaller(f) = Answer("runs", Method(n))
    BY <1>1, <1>9, <2>3 DEF JsWrapperCaller, CallMethod
  <2>5. JsWrapperCaller(f).what = "runs" /\ JsWrapperCaller(f).at = Method(n)
    BY <2>4 DEF Answer
  <2>6. Method(n) \in calls /\ \A j \in calls : j <= Method(n)
    BY <1>6, <2>3 DEF IsLatest
  <2>7. QED
    BY <1>1, <1>5, <1>9, <2>5, <2>6
<1>10. QED
  BY <1>7, <1>8, <1>9

-----------------------------------------------------------------------------
ObjectsInv == RootsInv /\ WrappersInv /\ MembersInv

LEMMA ObjectsKeep == ObjectsInv /\ [ObjectsNext]_objectVars => ObjectsInv'
<1> SUFFICES ASSUME ObjectsInv, [ObjectsNext]_objectVars PROVE ObjectsInv'
  OBVIOUS
<1>1. RootsInv'
  BY RootsKeep DEF ObjectsInv, ObjectsNext, objectVars
<1>2. WrappersInv'
  <2>1. CASE [WrappersNext]_wrapperVars
    BY <2>1, WrappersKeep DEF ObjectsInv
  <2>2. CASE MembersNext
    BY <2>2 DEF MembersNext, RegisterMembers, ObjectsInv, WrappersInv, WrapperTypes, OneShared,
                ClassesOutlive, NoRootsBehind
  <2>3. QED
    BY <2>1, <2>2 DEF ObjectsNext, objectVars
<1>3. MembersInv'
  <2>1. CASE MembersNext
    <3>1. jd_members' \in SeqOf(Registration, MaxRegistered)
      BY <2>1 DEF MembersNext, RegisterMembers, BoundedSeq
    <3>2. jd_members' \in Seq(Registration)
      BY <3>1, WrappersAssumption DEF SeqOf
    <3>3. QED
      BY <3>2 DEF MembersInv
  <2>2. CASE WrappersNext
    <3>1. jd_members' = jd_members
      BY <2>2 DEF WrappersNext, NewContextWrapper, CleanupRoots, DestroyContextWrapper, CreateJsTokenForModule,
                  CreateFailsAtInstance, CreateFailsAtFunctions, FinalizeInstance, FinalizeProto, FinalizeOrphan,
                  DiscardRuntime
    <3>2. QED
      BY <3>1 DEF ObjectsInv, MembersInv
  <2>3. CASE UNCHANGED wrapperVars
    BY <2>3 DEF ObjectsInv, MembersInv, wrapperVars
  <2>4. QED
    BY <2>1, <2>2, <2>3 DEF ObjectsNext, objectVars
<1>4. QED
  BY <1>1, <1>2, <1>3 DEF ObjectsInv

(* An object that C++ holds or that is on its way to the browser is not    *)
(* freed, and nothing is kept that nobody holds but what NPAPI's return of *)
(* a token forgets; the classes of instances and of completed prototypes   *)
(* outlive them (a prototype given up half made loses its class: that is   *)
(* not claimed), every wrapper recognises every module, no root outlives   *)
(* its wrapper, and each function on a prototype finds the callback        *)
(* registered last.                                                        *)
THEOREM ScriptObjectsAlwaysLive == ObjectsSpec => []ScriptObjectsLive
<1>1. ObjectsInit => ObjectsInv
  <2>1. ObjectsInit => MembersInv
    BY DEF ObjectsInit, WrappersInit, MembersInv
  <2>2. QED
    BY <2>1, RootsStart, WrappersStart DEF ObjectsInit, ObjectsInv
<1>2. ObjectsInv => ScriptObjectsLive
  BY NothingIsKept, AllAreRecognised, FunctionsDoAnswer
     DEF ObjectsInv, RootsInv, WrappersInv, ScriptObjectsLive
<1>3. QED
  BY <1>1, <1>2, ObjectsKeep, PTL DEF ObjectsSpec
=============================================================================
