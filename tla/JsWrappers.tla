------------------------------ MODULE JsWrappers ------------------------------
(* Gears modules as script objects in Firefox (js_runner_ff_marshaling.cc)    *)
(* and the tables their calls go through (dispatcher.h, dispatcher_ex.h).     *)
(*                                                                            *)
(* A JsContextWrapper makes one prototype with a JSClass for each module name *)
(* and one script object for each module.  The JSClass must live as long as   *)
(* any prototype or instance of it; therefore the classes of one JSRuntime    *)
(* belong to a SharedJsClasses, which wrappers, prototypes and instances      *)
(* share, and which later wrappers of the runtime find through a weak         *)
(* pointer.  A SharedJsClasses is a generation number here.                   *)
EXTENDS Naturals, Sequences, FiniteSets, SequencesExt

CONSTANTS JContext,       \* JsContextWrappers of one runtime
          JName,          \* module names
          MaxWrapped,     \* script objects made
          MaxRegistered   \* members a class registers

ASSUME WrappersAssumption == MaxWrapped \in Nat /\ MaxRegistered \in Nat

VARIABLES
    jw_context,   \* JContext -> "none", "live", "cleaned" or "gone"
    jw_shared,    \* JContext -> generation its shared_js_classes_ points to
    jw_weak,      \* generation in associate_map_ for the runtime, 0: no entry
    jw_made,      \* generations made so far
    jw_classes,   \* JSClass structures: [context, name, shared]
    jw_protos,    \* prototype data: [context, name, shared, rooted]
    jw_insts,     \* instance data: [id, context, name, shared]
    jw_orphans,   \* prototypes the engine has and whose JSClass was deleted
    jw_count,     \* script objects made so far
    jd_members    \* the registrations of a class, in order; asked once

wrapperVars == <<jw_context, jw_shared, jw_weak, jw_made, jw_classes, jw_protos, jw_insts, jw_orphans, jw_count, jd_members>>

NotAsked == <<[name |-> "none", kind |-> "none"]>>

WrappersInit ==
    /\ jw_context = [c \in JContext |-> "none"]
    /\ jw_shared = [c \in JContext |-> 0]
    /\ jw_weak = 0
    /\ jw_made = 0
    /\ jw_classes = {}
    /\ jw_protos = {}
    /\ jw_insts = {}
    /\ jw_orphans = {}
    /\ jw_count = 0
    /\ jd_members = NotAsked

ClassOf(p) == [context |-> p.context, name |-> p.name, shared |-> p.shared]

(* Who keeps a SharedJsClasses alive.                                         *)
InstancesHold(insts) == {i.shared : i \in insts}

Holders(context, protos, insts) ==
    {jw_shared[c] : c \in {x \in JContext : context[x] \in {"live", "cleaned"}}}
    \cup {p.shared : p \in protos} \cup InstancesHold(insts)

(* ~SharedJsClasses deletes the JSClasses with the last holder.               *)
AfterRelease(classes, holders) == {k \in classes : k.shared \in holders}

Expired(g) == g \notin Holders(jw_context, jw_protos, jw_insts)

(* SharedJsClasses::Obtain.                                                   *)
Obtain == IF jw_weak # 0 /\ ~Expired(jw_weak) THEN jw_weak ELSE jw_made + 1

NewContextWrapper(c) ==
    /\ jw_context[c] = "none"
    /\ jw_context' = [jw_context EXCEPT ![c] = "live"]
    /\ jw_shared' = [jw_shared EXCEPT ![c] = Obtain]
    /\ jw_weak' = Obtain
    /\ jw_made' = IF Obtain > jw_made THEN Obtain ELSE jw_made
    /\ UNCHANGED <<jw_classes, jw_protos, jw_insts, jw_count, jd_members, jw_orphans>>

(* CreateJsTokenForModule: the prototype of the name is made the first time   *)
(* (InitClass, AddAllFunctionsToPrototype), then an instance.                 *)
ProtoFor(c, name) ==
    [context |-> c, name |-> name, shared |-> jw_shared[c], rooted |-> TRUE]

CreateJsTokenForModule(c, name) ==
    /\ jw_context[c] = "live" /\ jw_count < MaxWrapped
    /\ jw_count' = jw_count + 1
    /\ jw_protos' = jw_protos \cup {ProtoFor(c, name)}
    /\ jw_classes' = jw_classes \cup {ClassOf(ProtoFor(c, name))}
    /\ jw_insts' = jw_insts \cup
           {[id |-> jw_count + 1, context |-> c, name |-> name, shared |-> jw_shared[c]]}
    /\ UNCHANGED <<jw_context, jw_shared, jw_weak, jw_made, jd_members, jw_orphans>>

(* JS_NewObject fails: the prototype, if it is new, stays for the next        *)
(* attempt.  (If JS_InitClass fails nothing is left at all.)                  *)
CreateFailsAtInstance(c, name) ==
    /\ jw_context[c] = "live" /\ jw_count < MaxWrapped
    /\ jw_count' = jw_count + 1
    /\ jw_protos' = jw_protos \cup {ProtoFor(c, name)}
    /\ jw_classes' = jw_classes \cup {ClassOf(ProtoFor(c, name))}
    /\ UNCHANGED <<jw_context, jw_shared, jw_weak, jw_made, jw_insts, jd_members, jw_orphans>>

(* A function cannot be added to a new prototype: the scoped pointers delete  *)
(* its data and its JSClass, but the engine has had the prototype since       *)
(* JS_InitClass.  It was not entered in name_to_proto_map_, so a next attempt *)
(* makes another one.  The functions added before the failure stay rooted,    *)
(* and with them the prototype, which is their parent, until CleanupRoots.    *)
CreateFailsAtFunctions(c, name) ==
    /\ jw_context[c] = "live" /\ jw_count < MaxWrapped
    /\ \A p \in jw_protos : ~(p.context = c /\ p.name = name)
    /\ jw_count' = jw_count + 1
    /\ \E some \in BOOLEAN :
          jw_orphans' = jw_orphans \cup {[id |-> jw_count + 1, context |-> c, rooted |-> some]}
    /\ UNCHANGED <<jw_context, jw_shared, jw_weak, jw_made, jw_classes, jw_protos, jw_insts, jd_members>>

(* CleanupRoots, then the destructor.                                         *)
Unroot(protos, c) == {IF p.context = c THEN [p EXCEPT !.rooted = FALSE] ELSE p : p \in protos}

CleanupRoots(c) ==
    /\ jw_context[c] = "live"
    /\ jw_context' = [jw_context EXCEPT ![c] = "cleaned"]
    /\ jw_protos' = Unroot(jw_protos, c)
    /\ jw_orphans' = Unroot(jw_orphans, c)
    /\ UNCHANGED <<jw_shared, jw_weak, jw_made, jw_classes, jw_insts, jw_count, jd_members>>

DestroyContextWrapper(c) ==
    /\ jw_context[c] = "cleaned"
    /\ jw_context' = [jw_context EXCEPT ![c] = "gone"]
    /\ jw_classes' = AfterRelease(jw_classes, Holders(jw_context', jw_protos, jw_insts))
    /\ UNCHANGED <<jw_shared, jw_weak, jw_made, jw_protos, jw_insts, jw_count, jd_members, jw_orphans>>

(* FinalizeNative: the collector found an instance, or a prototype that is no *)
(* longer rooted, unreachable.  One collection finalizes in any order.        *)
FinalizeInstance(i) ==
    /\ i \in jw_insts
    /\ jw_insts' = jw_insts \ {i}
    /\ jw_classes' = AfterRelease(jw_classes, Holders(jw_context, jw_protos, jw_insts'))
    /\ UNCHANGED <<jw_context, jw_shared, jw_weak, jw_made, jw_protos, jw_count, jd_members, jw_orphans>>

FinalizeProto(p) ==
    /\ p \in jw_protos /\ ~p.rooted
    /\ jw_protos' = jw_protos \ {p}
    /\ jw_classes' = AfterRelease(jw_classes, Holders(jw_context, jw_protos', jw_insts))
    /\ UNCHANGED <<jw_context, jw_shared, jw_weak, jw_made, jw_insts, jw_count, jd_members, jw_orphans>>

(* An orphan is collected: FinalizeNative finds no data on it, once the       *)
(* engine has found FinalizeNative through the deleted JSClass.               *)
FinalizeOrphan(o) ==
    /\ o \in jw_orphans /\ ~o.rooted
    /\ jw_orphans' = jw_orphans \ {o}
    /\ UNCHANGED <<jw_context, jw_shared, jw_weak, jw_made, jw_classes, jw_protos, jw_insts, jw_count, jd_members>>

(* Discard, when the runtime is destroyed: nothing of it may be left.         *)
DiscardRuntime ==
    /\ jw_weak # 0 /\ Expired(jw_weak)
    /\ jw_weak' = 0
    /\ UNCHANGED <<jw_context, jw_shared, jw_made, jw_classes, jw_protos, jw_insts, jw_count, jd_members, jw_orphans>>

(* GetModuleFromJsToken recognises an object by its class.                    *)
GetModuleFromJsToken(c, i) ==
    \E k \in jw_classes : k.shared = jw_shared[c] /\ k = ClassOf(i)

-----------------------------------------------------------------------------
(* The dispatch tables of a class.  A registration is [name, kind].           *)
Registration == [name : {"a", "b"}, kind : {"method", "property", "constant"}]

RegisterMembers ==
    /\ jd_members = NotAsked
    /\ jd_members' \in BoundedSeq(Registration, MaxRegistered)
    /\ UNCHANGED <<jw_context, jw_shared, jw_weak, jw_made, jw_classes, jw_protos, jw_insts, jw_count, jw_orphans>>

Members == IF jd_members = NotAsked THEN <<>> ELSE jd_members

(* GetPropertyGetterList, GetPropertySetterList, GetMethodList: the position  *)
(* of the registration whose callback is stored, 0 for none.                  *)
Latest(P(_)) ==
    LET at == {i \in DOMAIN Members : P(Members[i])}
    IN  IF at = {} THEN 0 ELSE CHOOSE i \in at : \A j \in at : j <= i

IsProperty(r) == r.kind \in {"property", "constant"}

Getter(name) == Latest(LAMBDA r : r.name = name /\ IsProperty(r))

Setter(name) == Latest(LAMBDA r : r.name = name /\ IsProperty(r))

Method(name) == Latest(LAMBDA r : r.name = name /\ r.kind = "method")

MemberNames == {Members[i].name : i \in DOMAIN Members}

(* AddAllFunctionsToPrototype.                                                *)
FunctionsOf(name) ==
    (IF Getter(name) # 0 THEN {"getter"} ELSE {})
    \cup (IF Setter(name) # 0 THEN {"setter"} ELSE {})
    \cup (IF Getter(name) = 0 /\ Setter(name) = 0 THEN {"method"} ELSE {})

Prototype == {[name |-> n, flags |-> f] : n \in MemberNames, f \in {"getter", "setter", "method"}}

Installed == {f \in Prototype : f.flags \in FunctionsOf(f.name)}

(* JsWrapperCaller through GetProperty, SetProperty and CallMethod of a       *)
(* Dispatcher: what happens, and the registration whose callback runs.        *)
Answer(what, at) == [what |-> what, at |-> at]

SetProperty(name) ==
    IF Setter(name) = 0 THEN Answer("not found", 0)
    ELSE IF Members[Setter(name)].kind = "constant" THEN Answer("readonly", Setter(name))
    ELSE Answer("runs", Setter(name))

GetProperty(name) == IF Getter(name) = 0 THEN Answer("not found", 0) ELSE Answer("runs", Getter(name))

CallMethod(name) == IF Method(name) = 0 THEN Answer("not found", 0) ELSE Answer("runs", Method(name))

JsWrapperCaller(f) ==
    IF f.flags = "getter" THEN GetProperty(f.name)
    ELSE IF f.flags = "setter" THEN SetProperty(f.name) ELSE CallMethod(f.name)

WrappersNext ==
    \/ \E c \in JContext :
          \/ NewContextWrapper(c) \/ CleanupRoots(c) \/ DestroyContextWrapper(c)
          \/ \E name \in JName :
                \/ CreateJsTokenForModule(c, name)
                \/ CreateFailsAtInstance(c, name) \/ CreateFailsAtFunctions(c, name)
    \/ \E i \in jw_insts : FinalizeInstance(i)
    \/ \E p \in jw_protos : FinalizeProto(p)
    \/ \E o \in jw_orphans : FinalizeOrphan(o)
    \/ DiscardRuntime

MembersNext == RegisterMembers

WrappersSpec == WrappersInit /\ [][WrappersNext]_wrapperVars

-----------------------------------------------------------------------------
(* The JSClass of every instance the engine has not finalized, and of every   *)
(* prototype that was completed, exists: FinalizeNative is reached through    *)
(* it.  Instances outlive the wrapper that made them.  The prototypes that    *)
(* could not be completed are the exception: see ClassesOutliveAll.           *)
ClassesOutlive ==
    /\ \A i \in jw_insts : ClassOf(i) \in jw_classes
    /\ \A p \in jw_protos : ClassOf(p) \in jw_classes

(* "The JSClass has to live for longer than its PROTOs and INSTANCEs"         *)
(* (js_runner_ff_marshaling.cc 105-106): no prototype that the engine has is  *)
(* left without its class.                                                    *)
ClassesOutliveAll == ClassesOutlive /\ jw_orphans = {}

(* A module object made through one wrapper is recognised by every other      *)
(* wrapper of the runtime, and by those created after its own wrapper ended.  *)
AllRecognised ==
    \A c \in JContext, i \in jw_insts :
        jw_context[c] \in {"live", "cleaned"} => GetModuleFromJsToken(c, i)

(* Nothing stays rooted when the wrapper that rooted it has ended, not even   *)
(* the functions of a prototype that was given up.                            *)
NoRootsBehind ==
    \A p \in jw_protos \cup jw_orphans : p.rooted => jw_context[p.context] = "live"

(* Every function put on a prototype finds a callback, the one registered     *)
(* last for its name and kind, and assigning to a constant runs none.         *)
FunctionsAnswer ==
    \A f \in Installed :
        LET r == JsWrapperCaller(f)
        IN  /\ r.what # "not found"
            /\ Members[r.at].name = f.name
            /\ (f.flags = "setter" /\ Members[r.at].kind = "constant") => r.what = "readonly"
            /\ \A j \in DOMAIN Members :
                  (Members[j].name = f.name /\ (IsProperty(Members[j]) <=> f.flags # "method")) => j <= r.at
=============================================================================
