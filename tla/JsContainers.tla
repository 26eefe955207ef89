----------------------------- MODULE JsContainers -----------------------------
(* JsArray, JsObject and the JSON conversions (js_types.cc).  A script        *)
(* container is read and written through the conversions of JsValues: an      *)
(* element or property is fetched as a token, then converted without          *)
(* coercion.  The JSON conversions walk a container with these accessors,     *)
(* skip what JSON has no value for, and build script containers from JSON.    *)
(*                                                                            *)
(* A script container is [kind, keys, at]: the keys it has, in order, and the *)
(* value at each.  Its values are tokens or containers of leaves; array       *)
(* elements are numbered from 1.  JSON values are [type, n, kids].            *)
EXTENDS JsValues

CONSTANTS MaxKey           \* elements or properties of one container

ASSUME ContainersAssumption == MaxKey \in Nat \ {0}

VARIABLE jc_in             \* [engine, value]: a container, or "nothing"

containerVars == <<jc_in>>

Key == 1..MaxKey

Held(token, inside) == [token |-> token, inside |-> inside]

NoContainer == [kind |-> "none", keys |-> {}, at |-> <<>>]

Plain(t) == Held(t, NoContainer)

Undefined == Plain(Tag("undefined"))

-----------------------------------------------------------------------------
(* GetElement and GetProperty: what is not there reads as undefined.  IE asks *)
(* for the name and clears the token on DISP_E_UNKNOWNNAME.                   *)
ElementFF(c, k) == IF k \in c.keys THEN c.at[k] ELSE Undefined

ElementIE(c, k) == IF k \in c.keys THEN c.at[k] ELSE Undefined

ElementNP(c, k) == IF k \in c.keys THEN c.at[k] ELSE Undefined

PropertyFF(c, k) == ElementFF(c, k)

PropertyIE(c, k) == ElementIE(c, k)

PropertyNP(c, k) == ElementNP(c, k)

Fetch(e, c, k) ==
    IF c.kind = "array"
    THEN IF e = "FF" THEN ElementFF(c, k) ELSE IF e = "IE" THEN ElementIE(c, k) ELSE ElementNP(c, k)
    ELSE IF e = "FF" THEN PropertyFF(c, k) ELSE IF e = "IE" THEN PropertyIE(c, k) ELSE PropertyNP(c, k)

(* GetElementType and GetElementAsXxx, GetPropertyType and GetPropertyAsXxx.  *)
GetElementType(e, c, k) == JsTokenGetType(e, Fetch(e, c, k).token)

GetElementAs(e, c, k, want) == NoCoerce(e, Fetch(e, c, k).token, want)

GetPropertyType(e, c, k) == GetElementType(e, c, k)

GetPropertyAs(e, c, k, want) == GetElementAs(e, c, k, want)

(* GetLength, and GetPropertyNames.                                           *)
GetLength(c) == IF c.keys = {} THEN 0 ELSE CHOOSE k \in c.keys : \A j \in c.keys : j <= k

GetPropertyNames(c) == c.keys

(* SetElementXxx and SetPropertyXxx.                                          *)
SetElement(c, k, held) ==
    [c EXCEPT !.keys = @ \cup {k}, !.at = [j \in c.keys \cup {k} |-> IF j = k THEN held ELSE c.at[j]]]

(* SetElementInt and SetPropertyInt: FF shifts the integer into a jsval.      *)
SetIntToken(e, v) == IF e = "FF" THEN INT_TO_JSVAL(v) ELSE [tag |-> "int", n |-> v]

Empty(kind) == [kind |-> kind, keys |-> {}, at |-> <<>>]

-----------------------------------------------------------------------------
Json(type, n) == [type |-> type, n |-> n, kids |-> <<>>]

JsonNull == Json("null", 0)

(* retval[i] = v grows a JSON array with nulls up to i.                       *)
PlaceAt(kids, k, v) ==
    [i \in 1..(IF k > Len(kids) THEN k ELSE Len(kids)) |->
        IF i = k THEN v ELSE IF i <= Len(kids) THEN kids[i] ELSE JsonNull]

Supported == {"bool", "int", "double", "string", "object", "array", "null", "undefined"}

(* One element in JsObjectToCppJson, JsArrayToCppJson and JsTokenToCppJson.   *)
LeafToJson(e, t) ==
    LET type == JsTokenGetType(e, t)
    IN  CASE type = "bool"   -> Json("boolean", NoCoerce(e, t, "bool").v)
          [] type = "int"    -> Json("int", NoCoerce(e, t, "int").v)
          [] type = "double" -> Json("real", NoCoerce(e, t, "double").v)
          [] type = "string" -> Json("string", NoCoerce(e, t, "string").v)
          [] OTHER           -> JsonNull

(* JSON objects keep their members as <<key, value>>, here also by position:  *)
(* a member that is skipped has type "none".                                  *)
NoMember == Json("none", 0)

RECURSIVE JsArrayToCppJson(_, _), JsObjectToCppJson(_, _)
ToJson(e, held) ==
    IF held.inside.kind = "array" THEN JsArrayToCppJson(e, held.inside)
    ELSE IF held.inside.kind = "object" THEN JsObjectToCppJson(e, held.inside)
    ELSE LeafToJson(e, held.token)

JsArrayToCppJson(e, c) ==
    LET Fill[k \in 0..GetLength(c)] ==
            IF k = 0 THEN <<>>
            ELSE IF GetElementType(e, c, k) \in Supported
            THEN PlaceAt(Fill[k - 1], k, ToJson(e, Fetch(e, c, k)))
            ELSE Fill[k - 1]
    IN  [type |-> "array", n |-> 0, kids |-> Fill[GetLength(c)]]

JsObjectToCppJson(e, c) ==
    [type |-> "object", n |-> 0,
     kids |-> [k \in Key |->
        IF k \in GetPropertyNames(c) /\ GetPropertyType(e, c, k) \in Supported
        THEN ToJson(e, Fetch(e, c, k)) ELSE NoMember]]

(* One member in CppJsonToJsObject and CppJsonToJsArray.  A real is stored by *)
(* SetPropertyInt (SetElementInt), which truncates it.                        *)
RECURSIVE CppJsonToJsObject(_, _), CppJsonToJsArray(_, _)
FromJson(e, j) ==
    CASE j.type = "null"    -> Plain(Tag("null"))
      [] j.type = "int"     -> Plain(SetIntToken(e, j.n))
      [] j.type = "real"    -> Plain(SetIntToken(e, Truncated(j.n)))
      [] j.type = "string"  -> Plain([tag |-> "string", n |-> j.n])
      [] j.type = "boolean" -> Plain([tag |-> "bool", n |-> j.n])
      [] j.type = "array"   -> Held(Tag("array"), CppJsonToJsArray(e, j))
      [] j.type = "object"  -> Held(Tag("object"), CppJsonToJsObject(e, j))

CppJsonToJsArray(e, j) ==
    LET Fill[k \in 0..Len(j.kids)] ==
            IF k = 0 THEN Empty("array") ELSE SetElement(Fill[k - 1], k, FromJson(e, j.kids[k]))
    IN  Fill[Len(j.kids)]

CppJsonToJsObject(e, j) ==
    LET Fill[k \in 0..MaxKey] ==
            IF k = 0 THEN Empty("object")
            ELSE IF j.kids[k] = NoMember THEN Fill[k - 1]
            ELSE SetElement(Fill[k - 1], k, FromJson(e, j.kids[k]))
    IN  Fill[MaxKey]

(* CppJsonToToken at the top: a real stays a double there.                    *)
CppJsonToToken(e, j) == IF j.type = "real" THEN Plain(DoubleToken(j.n)) ELSE FromJson(e, j)

-----------------------------------------------------------------------------
LeafToken ==
    {[tag |-> "bool", n |-> 1], [tag |-> "int", n |-> 1], [tag |-> "double", n |-> 3],
     [tag |-> "string", n |-> 2], Tag("undefined"), Tag("function")}

Shallow ==
    UNION {{[kind |-> kind, keys |-> keys, at |-> at] : at \in [keys -> {Plain(t) : t \in LeafToken}]} :
               kind \in {"array", "object"}, keys \in {ks \in SUBSET Key : Cardinality(ks) <= 1}}

ContainersInit == jc_in = [engine |-> "none", value |-> NoContainer]

AskContainer ==
    /\ jc_in.engine = "none"
    /\ \E e \in Engine : \E kind \in {"array", "object"}, keys \in SUBSET Key :
        \E at \in [keys -> {Plain(t) : t \in LeafToken} \cup {Held(Tag(c.kind), c) : c \in Shallow}] :
            jc_in' = [engine |-> e, value |-> [kind |-> kind, keys |-> keys, at |-> at]]

ContainersNext == AskContainer

HasContainer == jc_in.engine # "none"

-----------------------------------------------------------------------------
(* The JSON of an array has every element in the place it has in the script:  *)
(* what JSON has no value for (a function) becomes null, or is cut off at the *)
(* end, but never moves the elements behind it (JsArrayToCppJson).            *)
JsonKeepsPlaces ==
    (HasContainer /\ jc_in.value.kind = "array") =>
        LET e == jc_in.engine
            c == jc_in.value
            j == JsArrayToCppJson(e, c).kids
        IN  \A k \in Key :
                IF GetElementType(e, c, k) \in Supported /\ k <= GetLength(c)
                THEN k <= Len(j) /\ j[k] = ToJson(e, Fetch(e, c, k))
                ELSE k <= Len(j) => j[k] = JsonNull

(* JSON as a container keeps it: a real number has lost its fraction. *)
RECURSIVE InContainer(_)
InContainer(j) ==
    IF j.type = "real" THEN Json("int", Truncated(j.n))
    ELSE [j EXCEPT !.kids = [k \in DOMAIN j.kids |-> InContainer(j.kids[k])]]

(* JSON handed to the script and read again is the same JSON, but that a real *)
(* number inside a container comes back as an integer.                        *)
JsonReadsBack ==
    HasContainer =>
        LET e == jc_in.engine
            j == ToJson(e, Held(Tag(jc_in.value.kind), jc_in.value))
        IN  /\ ToJson(e, CppJsonToToken(e, j)) = InContainer(j)
            /\ \A k \in DOMAIN j.kids : j.kids[k].type = "real" =>
                  ToJson(e, CppJsonToToken(e, j.kids[k])) = j.kids[k]

(* A value means the same through each engine's conversions: types,        *)
(* coercions, numbers, arguments and JSON.  The exceptions are stated with *)
(* what they make of the value: IE's double zero and NP's whole doubles    *)
(* (Differs), FF's integers over 31 bits (NumbersReadBack) and real        *)
(* numbers inside JSON containers (InContainer).                           *)
EnginesAgree ==
  /\ CoercesAlike
  /\ IntIsTruncated
  /\ TypeIsConvertible
  /\ NumbersReadBack
  /\ ArgumentsInPlace
  /\ JsonKeepsPlaces
  /\ JsonReadsBack
=============================================================================
