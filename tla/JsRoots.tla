------------------------------- MODULE JsRoots -------------------------------
(* How C++ keeps script objects alive (js_types.cc, js_types.h).  In Firefox  *)
(* the engine's collector only knows the fields that were registered as       *)
(* roots: JsArrayImpl, JsObjectImpl and JsRootedToken register theirs.  In    *)
(* IE and NPAPI an object has a count: CComVariant and ScopedNPVariant take   *)
(* one reference and give it back.  A returned value changes hands without    *)
(* being counted: SetReturnValue gives the reference up and the browser       *)
(* releases it.                                                               *)
(*                                                                            *)
(* A holder is one such C++ variable.  Roots and counted references are one   *)
(* number per object; an object nobody reaches is freed.                      *)
EXTENDS Naturals, FiniteSets

CONSTANTS RHolder,      \* C++ variables that hold a script value
          RObject,      \* script objects
          Released,     \* "not constructed"
          Void,         \* constructed and empty (undefined)
          MaxReturns    \* values returned to the script

ASSUME RootsAssumption ==
    /\ MaxReturns \in Nat
    /\ IsFiniteSet(RHolder)
    /\ Released \notin RObject /\ Void \notin RObject

VARIABLES
    ro_engine,    \* "none" before the build is chosen, then "FF", "IE" or "NP"
    ro_holds,     \* holder -> Released, Void or an object
    ro_refs,      \* object -> roots or references
    ro_script,    \* objects the script reaches
    ro_browser,   \* object -> references the browser still has to release
    ro_lost,      \* object -> references forgotten (JSPARAM_TOKEN in NPAPI)
    ro_freed,     \* objects that are gone
    ro_returns    \* values returned so far

rootVars == <<ro_engine, ro_holds, ro_refs, ro_script, ro_browser, ro_lost, ro_freed, ro_returns>>

RootsInit ==
    /\ ro_engine = "none"
    /\ ro_holds = [h \in RHolder |-> Released]
    /\ ro_refs = [o \in RObject |-> 0]
    /\ ro_script = RObject
    /\ ro_browser = [o \in RObject |-> 0]
    /\ ro_lost = [o \in RObject |-> 0]
    /\ ro_freed = {}
    /\ ro_returns = 0

ChooseBuild ==
    /\ ro_engine = "none"
    /\ ro_engine' \in {"FF", "IE", "NP"}
    /\ UNCHANGED <<ro_holds, ro_refs, ro_script, ro_browser, ro_lost, ro_freed, ro_returns>>

Holds(h) == ro_holds[h] \in RObject

(* A value the code can get at: the script or another variable has it.        *)
AtHand(o) == o \notin ro_freed /\ (o \in ro_script \/ \E h \in RHolder : ro_holds[h] = o)

Retained(refs, o) == IF o \in RObject THEN [refs EXCEPT ![o] = @ + 1] ELSE refs

Dropped(refs, o) == IF o \in RObject THEN [refs EXCEPT ![o] = @ - 1] ELSE refs

Construct(h) ==
    /\ ro_engine # "none" /\ ro_holds[h] = Released
    /\ ro_holds' = [ro_holds EXCEPT ![h] = Void]
    /\ UNCHANGED <<ro_engine, ro_refs, ro_script, ro_browser, ro_lost, ro_freed, ro_returns>>

(* JsArrayImpl::Initialize, JsObjectImpl::Initialize and the JsRootedToken    *)
(* constructor (FF); CComVariant's assignment (IE); Reset(const NPVariant&)   *)
(* (NP), which frees what was held and retains the new value, and does        *)
(* nothing when a variant is assigned to itself.                              *)
RefsAfterResetUnretained(refs, old, new) == Dropped(refs, old)

RefsAfterReset(refs, old, new) == Retained(Dropped(refs, old), new)

Initialize(h, o) ==
    /\ ro_holds[h] # Released /\ AtHand(o)
    /\ ro_holds' = [ro_holds EXCEPT ![h] = o]
    /\ ro_refs' = RefsAfterReset(ro_refs, ro_holds[h], o)
    /\ UNCHANGED <<ro_engine, ro_script, ro_browser, ro_lost, ro_freed, ro_returns>>

(* The destructors, and ScopedNPVariant::Reset() on its own.                  *)
RefsAfterDestroyKeeps(refs, old) == refs

RefsAfterDestroy(refs, old) == Dropped(refs, old)

DestroyToken(h) ==
    /\ ro_holds[h] # Released
    /\ ro_holds' = [ro_holds EXCEPT ![h] = Released]
    /\ ro_refs' = RefsAfterDestroy(ro_refs, ro_holds[h])
    /\ UNCHANGED <<ro_engine, ro_script, ro_browser, ro_lost, ro_freed, ro_returns>>

(* SetReturnValue where references are counted: the value is converted into a *)
(* variable of its own, copied to the browser's place as it is, and the       *)
(* variable gives up ownership (Release, Detach) before its destructor runs.  *)
RefCounted == ro_engine \in {"IE", "NP"}

RefsAfterReturn(refs, o) == Retained(refs, o)

SetReturnValueObject(h) ==
    /\ RefCounted /\ Holds(h) /\ ro_returns < MaxReturns
    /\ ro_returns' = ro_returns + 1
    /\ ro_refs' = RefsAfterReturn(ro_refs, ro_holds[h])
    /\ ro_browser' = [ro_browser EXCEPT ![ro_holds[h]] = @ + 1]
    /\ UNCHANGED <<ro_engine, ro_holds, ro_script, ro_lost, ro_freed>>

(* The conversion of a JSPARAM_TOKEN empties the caller's variable in both:   *)
(* IE detaches the caller's reference into the result; NPAPI retains the      *)
(* value for the result and then makes the caller's variant forget its own.   *)
SetReturnValueTokenIE(h) ==
    /\ ro_engine = "IE" /\ Holds(h) /\ ro_returns < MaxReturns
    /\ ro_returns' = ro_returns + 1
    /\ ro_browser' = [ro_browser EXCEPT ![ro_holds[h]] = @ + 1]
    /\ ro_holds' = [ro_holds EXCEPT ![h] = Void]
    /\ UNCHANGED <<ro_engine, ro_refs, ro_script, ro_lost, ro_freed>>

SetReturnValueTokenNP(h) ==
    /\ ro_engine = "NP" /\ Holds(h) /\ ro_returns < MaxReturns
    /\ ro_returns' = ro_returns + 1
    /\ ro_refs' = RefsAfterReturn(ro_refs, ro_holds[h])
    /\ ro_browser' = [ro_browser EXCEPT ![ro_holds[h]] = @ + 1]
    /\ ro_lost' = [ro_lost EXCEPT ![ro_holds[h]] = @ + 1]
    /\ ro_holds' = [ro_holds EXCEPT ![h] = Void]
    /\ UNCHANGED <<ro_engine, ro_script, ro_freed>>

(* The browser stores what was returned or drops it, and releases it.         *)
BrowserReleases(o) ==
    /\ ro_browser[o] > 0
    /\ ro_browser' = [ro_browser EXCEPT ![o] = @ - 1]
    /\ ro_refs' = Dropped(ro_refs, o)
    /\ ro_script' \in {ro_script, ro_script \cup {o}}
    /\ UNCHANGED <<ro_engine, ro_holds, ro_lost, ro_freed, ro_returns>>

ScriptDrops(o) ==
    /\ ro_engine # "none" /\ o \in ro_script
    /\ ro_script' = ro_script \ {o}
    /\ UNCHANGED <<ro_engine, ro_holds, ro_refs, ro_browser, ro_lost, ro_freed, ro_returns>>

(* The collector runs, or the last reference was released.                    *)
Collect(o) ==
    /\ o \notin ro_script /\ o \notin ro_freed /\ ro_refs[o] = 0
    /\ ro_freed' = ro_freed \cup {o}
    /\ UNCHANGED <<ro_engine, ro_holds, ro_refs, ro_script, ro_browser, ro_lost, ro_returns>>

RootsNext ==
    \/ ChooseBuild
    \/ \E h \in RHolder :
          \/ Construct(h) \/ DestroyToken(h)
          \/ SetReturnValueObject(h)
          \/ SetReturnValueTokenIE(h) \/ SetReturnValueTokenNP(h)
          \/ \E o \in RObject : Initialize(h, o)
    \/ \E o \in RObject : BrowserReleases(o) \/ ScriptDrops(o) \/ Collect(o)

-----------------------------------------------------------------------------
(* A value C++ holds, and one on its way back to the browser, is never freed  *)
(* under it, whatever the script drops and whenever the collector runs.       *)
HeldIsAlive ==
    \A o \in ro_freed : ro_browser[o] = 0 /\ \A h \in RHolder : ro_holds[h] # o

(* Once no variable holds an object and the browser owes nothing, nothing     *)
(* keeps it but the script, except for the references that NPAPI's conversion *)
(* of a JSPARAM_TOKEN forgets: those keep it for ever.  In IE and Firefox     *)
(* nothing is forgotten.                                                      *)
NothingKeptBehind ==
    \A o \in RObject :
        /\ ((\A h \in RHolder : ro_holds[h] # o) /\ ro_browser[o] = 0) => ro_refs[o] = ro_lost[o]
        /\ ro_engine # "NP" => ro_lost[o] = 0
=============================================================================
