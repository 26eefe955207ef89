------------------------------ MODULE JsMarshal ------------------------------
(* MarshaledJsToken (js_marshal.cc): a JavaScript value is copied into a tree *)
(* that belongs to no script engine, carried to another thread, and built     *)
(* anew there.  Marshal walks the value depth first; the objects and arrays   *)
(* it is inside of are on object_stack, which is how a cycle is refused while *)
(* a value that is merely used twice is copied twice.  A tree that cannot be  *)
(* finished is taken down again by the level that found out.                  *)
(*                                                                            *)
(* A script value is a reference: a node of a small graph (an object or an    *)
(* array with its property values in order) or a leaf.  The leaves stand for  *)
(* the classes of values the code tells apart: "value" for what is copied     *)
(* (bool, int, double, null, undefined), "string" for what is copied into an  *)
(* allocation of its own, "nulstring" for a string with a NUL inside,         *)
(* "module" for a Gears module that can be marshaled, "sealed" for one that   *)
(* cannot, "function" for what else is refused (a function, or a value,       *)
(* object or array the engine fails to convert), and "absent" for an element  *)
(* or a property the engine fails to deliver.                                 *)
EXTENDS Naturals, Sequences, FiniteSets, SequencesExt

CONSTANTS Node,      \* objects and arrays of the script graph, strings
          Root,      \* the node handed to Marshal
          MaxKids    \* properties or elements of one node

ASSUME MarshalAssumption == Root \in Node /\ MaxKids \in Nat

VARIABLE jm_graph    \* Node -> [kind, kids], nothing before one is chosen

marshalVars == <<jm_graph>>

Leaf == {"value", "string", "nulstring", "module", "sealed", "function", "absent"}

Shape == [kind : {"object", "array"}, kids : BoundedSeq(Node \cup Leaf, MaxKids)]

MarshalInit == jm_graph = <<>>

BuildGraph == jm_graph = <<>> /\ jm_graph' \in [Node -> Shape]

MarshalNext == BuildGraph

(* A token of the copy.  NULL is the empty place of an array.                *)
Token(type, kids) == [type |-> type, kids |-> kids]

EmptyPlace == Token("NULL", <<>>)

(* What a Marshal call leaves behind: its token (mjt, "failed" for NULL) and  *)
(* how many allocations made under it are still alive.                       *)
Outcome(ok, token, live) == [ok |-> ok, token |-> token, live |-> live]

Failed(live) == Outcome(FALSE, EmptyPlace, live)

(* ~MarshaledJsToken: the string, the module or, after the destructors of    *)
(* the children, the map or vector goes with the token; deleting NULL does   *)
(* nothing.                                                                   *)
FreedInside(t, under) == IF t.type = "value" THEN 0 ELSE 1 + under

RECURSIVE Freed(_)
Freed(t) ==
    IF t.type = "NULL" THEN 0
    ELSE 1 + FreedInside(t, FoldSeq(LAMBDA k, n : Freed(k) + n, 0, t.kids))

(* DeleteMarshaledJsTokens on the children made so far, then the scoped_ptr  *)
(* frees the map or vector.                                                   *)
DeleteMarshaledJsTokens(tokens) == FoldSeq(LAMBDA k, n : Freed(k) + n, 0, tokens)

(* An element the engine does not deliver leaves NULL in its place.          *)
KeepPlace(made) == Append(made, EmptyPlace)

CausesCycle(ref, stack) == \E i \in DOMAIN stack : stack[i] = ref

(* Variant: a finished child stays on the stack. *)
StackAfterChildKeeps(stack, child) == IF child \in Node THEN Append(stack, child) ELSE stack

(* object_stack as the next child sees it: the node was pushed before the    *)
(* children, and every finished child has popped itself.                     *)
StackAfterChild(stack, child) == stack

(* InitializeFromObject and InitializeFromArray over the kids, from the i-th *)
(* on, with the tokens made so far and the allocations that live in them.     *)
RECURSIVE Fill(_, _, _, _, _), Marshal(_, _)
Fill(node, i, made, live, stack) ==
    LET shape == jm_graph[node]
        kid   == shape.kids[i]
        child == Marshal(kid, stack)
    IN  IF i > Len(shape.kids)
        THEN Outcome(TRUE, Token(shape.kind, made), live + 2)
        ELSE IF kid = "absent"
        THEN IF shape.kind = "array"
             THEN Fill(node, i + 1, KeepPlace(made), live, stack)
             ELSE Failed(live - DeleteMarshaledJsTokens(made))
        ELSE IF child.ok
        THEN Fill(node, i + 1, Append(made, child.token), live + child.live,
                  StackAfterChild(stack, kid))
        ELSE Failed(live - DeleteMarshaledJsTokens(made) + child.live)

Marshal(ref, stack) ==
    IF ref \in Node
    THEN IF CausesCycle(ref, stack) THEN Failed(0)
         ELSE Fill(ref, 1, <<>>, 0, Append(stack, ref))
    ELSE IF ref \in {"value", "string", "nulstring", "module"}
    THEN Outcome(TRUE, Token(ref, <<>>), IF ref = "value" THEN 1 ELSE 2)
    ELSE Failed(0)

(* Unmarshal in the other engine: a graph value without sharing, given as the *)
(* nested record Unfold describes.  `fails` names the call of that engine, or *)
(* of a module in it, that fails whenever it is made, or is "none".           *)
EngineCall == {"NewObject", "SetProperty", "NewArray", "SetElement", "ToJsToken", "Module"}

NotBuilt == [ok |-> FALSE, value |-> EmptyPlace]
Built(type, kids) == [ok |-> TRUE, value |-> Token(type, kids)]

(* A leaf: a string is passed on as c_str(), which ends at its first NUL.     *)
UnmarshalLeaf(type, fails) ==
    IF fails = (IF type = "module" THEN "Module" ELSE "ToJsToken") THEN NotBuilt
    ELSE Built(IF type = "nulstring" THEN "cutstring" ELSE type, <<>>)

(* The array after SetElement of the places that are not NULL: as long as the *)
(* last of them needs.                                                        *)
ElementsSet(kids) ==
    LET set == {i \in DOMAIN kids : kids[i] # EmptyPlace}
    IN  SubSeq(kids, 1, CHOOSE n \in {0} \cup set : \A i \in set : i <= n)

RECURSIVE Unmarshal(_, _)
Unmarshal(t, fails) ==
    LET kids == [i \in DOMAIN t.kids |->
                    IF t.kids[i] = EmptyPlace THEN [ok |-> TRUE, value |-> EmptyPlace] ELSE Unmarshal(t.kids[i], fails)]
        values == [i \in DOMAIN kids |-> kids[i].value]
        allBuilt == \A i \in DOMAIN kids : kids[i].ok
    IN  IF t.type = "object"
        THEN IF fails = "NewObject" \/ ~allBuilt \/ (fails = "SetProperty" /\ kids # <<>>) THEN NotBuilt
             ELSE Built("object", values)
        ELSE IF t.type = "array"
        THEN IF fails = "NewArray" \/ ~allBuilt \/ (fails = "SetElement" /\ \E i \in DOMAIN kids : t.kids[i] # EmptyPlace)
             THEN NotBuilt ELSE Built("array", ElementsSet(values))
        ELSE UnmarshalLeaf(t.type, fails)

-----------------------------------------------------------------------------
(* The reference: what is reachable from the root, and its unfolding.         *)
KidNodes(n) == {k \in Node : \E i \in DOMAIN jm_graph[n].kids : jm_graph[n].kids[i] = k}

Below(n) ==
    LET Grow[k \in 0..Cardinality(Node)] ==
            IF k = 0 THEN KidNodes(n) ELSE Grow[k - 1] \cup UNION {KidNodes(m) : m \in Grow[k - 1]}
    IN  Grow[Cardinality(Node)]

Copyable(n) ==
    \A i \in DOMAIN jm_graph[n].kids :
        LET k == jm_graph[n].kids[i]
        IN  k \notin {"function", "sealed"} /\ (k = "absent" => jm_graph[n].kind = "array")

RECURSIVE Unfold(_)
Unfold(ref) ==
    IF ref \in Node
    THEN Token(jm_graph[ref].kind, [i \in DOMAIN jm_graph[ref].kids |-> Unfold(jm_graph[ref].kids[i])])
    ELSE IF ref = "absent" THEN EmptyPlace ELSE Token(ref, <<>>)

HasGraph == DOMAIN jm_graph = Node

(* Marshal refuses exactly the values with a cycle below them or with        *)
(* something in them that cannot be copied.  In particular a value used twice *)
(* is not a cycle: object_stack holds only what the walk is inside of         *)
(* (CausesCycle, js_marshal.cc).                                              *)
RefusesExactly ==
    HasGraph =>
        (Marshal(Root, <<>>).ok <=>
            \A n \in {Root} \cup Below(Root) : n \notin Below(n) /\ Copyable(n))

(* The copy against the value: place by place the same, but that             *)
(*  - an array has lost the places at its end that could not be read;        *)
(*  - a string has lost what follows its first NUL.                          *)
RECURSIVE SameValue(_, _)
SameValue(copy, value) ==
    LET n == Len(copy.kids)
    IN  /\ copy.type = IF value.type = "nulstring" THEN "cutstring" ELSE value.type
        /\ n <= Len(value.kids) /\ (value.type # "array" => n = Len(value.kids))
        /\ \A i \in 1 .. n : SameValue(copy.kids[i], value.kids[i])
        /\ \A i \in n + 1 .. Len(value.kids) : value.kids[i] = EmptyPlace
        /\ value.type = "array" /\ n > 0 => copy.kids[n] # EmptyPlace

(* The calls of the engine that building a value with these nodes needs. *)
CallsFor(nodes) ==
    LET kids(n) == ToSet(jm_graph[n].kids)
        ofKind(kind) == {n \in nodes : jm_graph[n].kind = kind}
        leaves == UNION {kids(n) : n \in nodes}
    IN  {c \in EngineCall :
           \/ c = "NewObject" /\ ofKind("object") # {}
           \/ c = "SetProperty" /\ \E n \in ofKind("object") : kids(n) # {}
           \/ c = "NewArray" /\ ofKind("array") # {}
           \/ c = "SetElement" /\ \E n \in ofKind("array") : kids(n) \ {"absent"} # {}
           \/ c = "ToJsToken" /\ leaves \cap {"value", "string", "nulstring"} # {}
           \/ c = "Module" /\ "module" \in leaves}

(* The copy is built in the other engine exactly if no call it needs fails,  *)
(* and then it is the value, as far as SameValue says.  js_marshal.h (36-42) *)
(* calls it "equivalent" without these two exceptions.                       *)
CopyIsTheValue ==
    (HasGraph /\ Marshal(Root, <<>>).ok) =>
        LET t == Marshal(Root, <<>>).token
            needed == CallsFor({Root} \cup Below(Root))
        IN  \A fails \in EngineCall \cup {"none"} :
                LET c == Unmarshal(t, fails)
                IN  /\ c.ok <=> fails \notin needed
                    /\ c.ok => SameValue(c.value, Unfold(Root))

(* Whatever Marshal allocated is freed: a failing call leaves nothing, and    *)
(* deleting the token of one that succeeded frees all it made.               *)
NothingLeaks ==
    HasGraph =>
        LET m == Marshal(Root, <<>>)
        IN  m.live = IF m.ok THEN Freed(m.token) ELSE 0

(* For every graph of script values Marshal refuses exactly what cannot be *)
(* copied and frees all it made when it gives up; what Unmarshal builds    *)
(* from the rest is the value, but for unreadable places at the end of an  *)
(* array and for strings with a NUL, and it fails only with a call of the  *)
(* engine or a module.                                                     *)
CopiesAreWhole ==
  /\ RefusesExactly
  /\ CopyIsTheValue
  /\ NothingLeaks
=============================================================================
