------------------------------- MODULE JsValues -------------------------------
(* The conversions between script values and C++ values (js_types.cc), once   *)
(* for each of the three script engines: SpiderMonkey (FF), the COM engine    *)
(* of Internet Explorer (IE) and NPAPI (NP).  They are written three times in *)
(* the source because the engines represent the same value differently: FF    *)
(* has 31-bit integers beside doubles, IE 32-bit ones, and WebKit's NPAPI     *)
(* delivers every number as a double.  Callers see one interface.             *)
(*                                                                            *)
(* A token is [tag, n].  A double is counted in halves so that fractions and  *)
(* the edges of every integer range exist; the ranges keep their order        *)
(* (31-bit, 32-bit, the 53 bits a double holds exactly, 64-bit) and are       *)
(* scaled down.  A string is one of four texts.  "joiner" and "caller" are    *)
(* plain objects that own a property named join or call, by which IE and NP   *)
(* recognise arrays and functions.  Objects are taken to have a text that is  *)
(* no number.                                                                 *)
EXTENDS Integers, Sequences, FiniteSets, SequencesExt

CONSTANTS Engine,          \* the engines of this build family: FF, IE, NP
          JsvalBits,       \* width of JSVAL_INT
          Int32Bits,       \* width of int
          JsIntBits,       \* a double holds integers of this magnitude exactly
          Int64Bits,       \* width of int64
          MaxArgs          \* arguments of one call

ASSUME ValuesAssumption ==
    /\ Engine \subseteq {"FF", "IE", "NP"}
    /\ 1 < JsvalBits /\ JsvalBits < Int32Bits /\ Int32Bits <= JsIntBits
    /\ JsIntBits < Int64Bits /\ MaxArgs \in Nat

VARIABLE jv_in             \* the question asked: a token, a number or a call

valueVars == <<jv_in>>

Signed(bits) == -(2 ^ (bits - 1)) .. 2 ^ (bits - 1) - 1

kint32 == Signed(Int32Bits)

kint64 == Signed(Int64Bits)

JSVAL_INT == Signed(JsvalBits)

JS_INT == -(2 ^ JsIntBits) .. 2 ^ JsIntBits      \* JS_INT_MIN .. JS_INT_MAX

Halves == -(2 ^ Int64Bits + 1) .. 2 ^ Int64Bits + 1

(* Texts: "", "1.5", "abc", "NaN".                                            *)
EmptyText == 0
NumberText == 1
NanText == 3

Tag(tag) == [tag |-> tag, n |-> 0]

Objects == {"array", "function", "object", "joiner", "caller", "module"}

TokenOf(e) ==
    [tag : {"bool"}, n : 0..1]
    \cup [tag : {"int"}, n : IF e = "FF" THEN JSVAL_INT ELSE kint32]
    \cup [tag : {"double"}, n : Halves]
    \cup [tag : {"string"}, n : EmptyText..NanText]
    \cup {Tag(t) : t \in {"nan", "null", "undefined"} \cup Objects}

No == [ok |-> FALSE, v |-> 0]

Yes(v) == [ok |-> TRUE, v |-> v]

(* static_cast<int> of a double truncates towards zero.                       *)
Truncated(h) == IF h >= 0 THEN h \div 2 ELSE -((-h) \div 2)

DoubleIsInt32(h) == h % 2 = 0 /\ h \div 2 \in kint32

DoubleIsInt64(h) == h % 2 = 0 /\ h \div 2 \in kint64

InRange(h, r) == \E lo, hi \in r : 2 * lo <= h /\ h <= 2 * hi

-----------------------------------------------------------------------------
(* JsTokenToXxx_NoCoerce, with doubles and truth values as numbers.           *)
NoCoerceFF(t, want) ==
    CASE want = "bool"     -> IF t.tag = "bool" THEN Yes(t.n) ELSE No
      [] want = "double"   -> IF t.tag = "double" THEN Yes(t.n)
                              ELSE IF t.tag = "int" THEN Yes(2 * t.n)
                              ELSE IF t.tag = "nan" THEN Yes(0) ELSE No
      [] want = "int"      -> IF t.tag = "int" THEN Yes(t.n) ELSE No
      [] want = "string"   -> IF t.tag = "string" THEN Yes(t.n) ELSE No

NoCoerceIE(t, want) ==
    CASE want = "bool"     -> IF t.tag = "bool" THEN Yes(t.n) ELSE No
      [] want = "double"   -> IF t.tag = "double" THEN Yes(t.n)
                              ELSE IF t.tag = "int" THEN Yes(2 * t.n)
                              ELSE IF t.tag = "nan" THEN Yes(0) ELSE No
      [] want = "int"      -> IF t.tag = "int" THEN Yes(t.n) ELSE No
      [] want = "string"   -> IF t.tag = "string" THEN Yes(t.n) ELSE No

NoCoerceNP(t, want) ==
    CASE want = "bool"     -> IF t.tag = "bool" THEN Yes(t.n) ELSE No
      [] want = "double"   -> IF t.tag = "double" THEN Yes(t.n)
                              ELSE IF t.tag = "int" THEN Yes(2 * t.n)
                              ELSE IF t.tag = "nan" THEN Yes(0) ELSE No
      [] want = "int"      -> IF t.tag = "int" THEN Yes(t.n)
                              ELSE IF t.tag = "double" /\ DoubleIsInt32(t.n)
                              THEN Yes(t.n \div 2) ELSE No
      [] want = "string"   -> IF t.tag = "string" THEN Yes(t.n) ELSE No

(* JsTokenIsArray, JsTokenIsCallback and JsTokenIsObject, and the wrappers    *)
(* made with them.  FF's JsObjectImpl::Initialize asks JSVAL_IS_OBJECT, which *)
(* also holds of null.                                                        *)
IsArray(e, t) == t.tag = "array" \/ (t.tag = "joiner" /\ e # "FF")

IsCallback(e, t) == t.tag = "function" \/ (t.tag = "caller" /\ e # "FF")

IsObject(t) == t.tag \in Objects

NoCoerce(e, t, want) ==
    CASE want = "array"    -> IF IsArray(e, t) THEN Yes(0) ELSE No
      [] want = "function" -> IF IsCallback(e, t) THEN Yes(0) ELSE No
      [] want = "object"   -> IF IsObject(t) \/ (e = "FF" /\ t.tag = "null") THEN Yes(0) ELSE No
      [] OTHER             -> IF e = "FF" THEN NoCoerceFF(t, want)
                              ELSE IF e = "IE" THEN NoCoerceIE(t, want) ELSE NoCoerceNP(t, want)

JsTokenToInt64_NoCoerce(e, t) ==
    LET d == NoCoerce(e, t, "double")
    IN  IF d.ok /\ t.tag # "nan" /\ InRange(d.v, JS_INT) /\ DoubleIsInt64(d.v)
        THEN Yes(d.v \div 2) ELSE No

(* JsTokenGetType.                                                            *)
ScriptType(e, t) ==
    CASE t.tag \in {"bool", "int", "double", "string", "null", "undefined"} -> t.tag
      [] t.tag = "nan"    -> "double"
      [] IsArray(e, t)    -> "array"
      [] IsCallback(e, t) -> "function"
      [] OTHER            -> "object"

GetTypeFF(t) == ScriptType("FF", t)

GetTypeIE(t) == ScriptType("IE", t)

GetTypeNP(t) == IF t.tag = "double" /\ DoubleIsInt32(t.n) THEN "int" ELSE ScriptType("NP", t)

JsTokenGetType(e, t) ==
    IF e = "FF" THEN GetTypeFF(t) ELSE IF e = "IE" THEN GetTypeIE(t) ELSE GetTypeNP(t)

-----------------------------------------------------------------------------
(* JsTokenToXxx_Coerce.  Number(text) for the texts: "" is 0, "1.5" is three  *)
(* halves.  The engines' own conversions (JS_ValueToNumber, VariantChangeType *)
(* and strtod) agree on these.                                                *)
TextToNumber(n) ==
    IF n = EmptyText THEN Yes(0) ELSE IF n = NumberText THEN Yes(3) ELSE No

ToDoubleFF(t) ==
    CASE t.tag \in {"int", "double"} -> NoCoerceFF(t, "double")
      [] t.tag = "bool"              -> Yes(2 * t.n)
      [] t.tag = "null"              -> Yes(0)
      [] t.tag = "string"            -> TextToNumber(t.n)
      [] OTHER                       -> No

ToDoubleIE(t) ==
    CASE t.tag = "double" -> Yes(t.n)
      [] t.tag = "bool"   -> Yes(2 * t.n)
      [] t.tag = "null"   -> Yes(0)
      [] t.tag = "int"    -> Yes(2 * t.n)
      [] t.tag = "string" -> TextToNumber(t.n)
      [] OTHER            -> No

ToDoubleNP(t) ==
    LET type == GetTypeNP(t)
    IN  CASE type = "double" -> IF t.tag = "nan" THEN No ELSE Yes(t.n)
          [] type = "int"    -> Yes(2 * NoCoerceNP(t, "int").v)
          [] type = "bool"   -> Yes(2 * t.n)
          [] type = "null"   -> Yes(0)
          [] type = "string" -> TextToNumber(t.n)
          [] OTHER           -> No

FitsInt32(h) == InRange(h, kint32)

ToIntFF(t) ==
    LET d == ToDoubleFF(t) IN IF d.ok /\ FitsInt32(d.v) THEN Yes(Truncated(d.v)) ELSE No

ToIntIE(t) ==
    LET d == ToDoubleIE(t)
    IN  IF t.tag = "int" THEN Yes(t.n)
        ELSE IF d.ok /\ FitsInt32(d.v) THEN Yes(Truncated(d.v)) ELSE No

ToIntNP(t) ==
    LET d == ToDoubleNP(t)
    IN  IF GetTypeNP(t) = "int" THEN NoCoerceNP(t, "int")
        ELSE IF d.ok /\ FitsInt32(d.v) THEN Yes(Truncated(d.v)) ELSE No

ToBoolFF(t) ==
    IF t.tag \in {"null", "undefined", "nan"} \/ (t.tag \in {"bool", "int", "double", "string"} /\ t.n = 0)
    THEN Yes(0) ELSE Yes(1)

ToBoolIE(t) ==
    IF t.tag = "bool" THEN Yes(t.n)
    ELSE IF t.tag \in {"null", "undefined", "nan"} \/ (t.tag \in {"int", "string"} /\ t.n = 0)
    THEN Yes(0) ELSE Yes(1)

ToBoolNP(t) ==
    IF t.tag = "bool" THEN NoCoerceNP(t, "bool")
    ELSE IF t.tag \in {"null", "undefined", "nan"} \/ (t.tag \in {"int", "double", "string"} /\ t.n = 0)
    THEN Yes(0) ELSE Yes(1)

(* Texts made by coercion, as <<class, number>>.  NP prints a double with %f  *)
(* and trims zeros, which leaves the point behind a whole number.             *)
NumberAsText(h) == <<"number", h>>

ToStringFF(t) ==
    CASE t.tag = "int"    -> Yes(NumberAsText(2 * t.n))
      [] t.tag = "double" -> Yes(NumberAsText(t.n))
      [] OTHER            -> Yes(<<t.tag, t.n>>)

ToStringIE(t) == ToStringFF(t)

ToStringNP(t) ==
    LET type == GetTypeNP(t)
    IN  CASE type = "int"    -> Yes(NumberAsText(2 * NoCoerceNP(t, "int").v))
          [] type = "double" /\ t.tag # "nan" ->
                 Yes(IF t.n % 2 = 0 THEN <<"pointed", t.n>> ELSE NumberAsText(t.n))
          [] type = "function" -> No
          [] OTHER             -> Yes(<<t.tag, t.n>>)

Coerce(e, t, want) ==
    CASE want = "bool"   -> IF e = "FF" THEN ToBoolFF(t) ELSE IF e = "IE" THEN ToBoolIE(t) ELSE ToBoolNP(t)
      [] want = "int"    -> IF e = "FF" THEN ToIntFF(t) ELSE IF e = "IE" THEN ToIntIE(t) ELSE ToIntNP(t)
      [] want = "double" -> IF e = "FF" THEN ToDoubleFF(t) ELSE IF e = "IE" THEN ToDoubleIE(t) ELSE ToDoubleNP(t)
      [] want = "string" -> IF e = "FF" THEN ToStringFF(t) ELSE IF e = "IE" THEN ToStringIE(t) ELSE ToStringNP(t)

-----------------------------------------------------------------------------
(* ConvertJsParamToToken for numbers.  INT_TO_JSVAL shifts the top bit out.   *)
INT_TO_JSVAL(v) ==
    LET m == v % 2 ^ JsvalBits IN [tag |-> "int", n |-> IF m \in JSVAL_INT THEN m ELSE m - 2 ^ JsvalBits]

DoubleToken(h) == [tag |-> "double", n |-> h]

(* Variant: the wider range is tested. *)
ParamTokenFFShifts(type, v) ==
    CASE type = "int"    -> Yes(INT_TO_JSVAL(v))
      [] type = "int64"  -> IF v \in JS_INT THEN Yes(INT_TO_JSVAL(v)) ELSE No
      [] type = "double" -> Yes(DoubleToken(v))

ParamTokenFF(type, v) ==
    CASE type = "int"    -> Yes(INT_TO_JSVAL(v))
      [] type = "int64"  -> IF v \in JSVAL_INT THEN Yes(INT_TO_JSVAL(v))
                            ELSE IF v \in JS_INT THEN Yes(DoubleToken(2 * v)) ELSE No
      [] type = "double" -> Yes(DoubleToken(v))

ParamTokenIE(type, v) ==
    CASE type = "int"    -> Yes([tag |-> "int", n |-> v])
      [] type = "int64"  -> IF v \in JS_INT THEN Yes(DoubleToken(2 * v)) ELSE No
      [] type = "double" -> Yes(DoubleToken(v))

ParamTokenNP(type, v) ==
    CASE type = "int"    -> Yes([tag |-> "int", n |-> v])
      [] type = "int64"  -> IF v \in JS_INT THEN Yes(DoubleToken(2 * v)) ELSE No
      [] type = "double" -> Yes(DoubleToken(v))

ConvertJsParamToToken(e, type, v) ==
    IF e = "FF" THEN ParamTokenFF(type, v)
    ELSE IF e = "IE" THEN ParamTokenIE(type, v) ELSE ParamTokenNP(type, v)

(* SetReturnValue: a number that cannot be represented becomes an exception.  *)
SetReturnValue(e, type, v) ==
    LET c == ConvertJsParamToToken(e, type, v) IN [set |-> c.ok, exception |-> ~c.ok]

-----------------------------------------------------------------------------
(* JsCallContext.  IE hands the arguments over last first.                    *)
AsPassed(e, args) == IF e = "IE" THEN Reverse(args) ELSE args

GetArgument(e, passed, i) == IF e = "IE" THEN passed[Len(passed) - (i - 1)] ELSE passed[i]

(* ConvertTokenToArgument: integers are coerced, the others are not.          *)
ConvertTokenToArgument(e, t, type) ==
    CASE type = "int"   -> Coerce(e, t, "int")
      [] type = "int64" -> JsTokenToInt64_NoCoerce(e, t)
      [] type = "json"  -> IF JsTokenGetType(e, t) = "function" THEN No ELSE Yes(t.tag)
      [] OTHER          -> NoCoerce(e, t, type)

Nullish(t) == t.tag \in {"null", "undefined"}

Unspecified == [given |-> FALSE, v |-> 0]

Ran(ok, argv) == [ok |-> ok, exception |-> ~ok, argv |-> argv]

(* Out of arguments: an expected argument that is required makes it fail.     *)
RestIsOptional(want, i) == \A j \in i..Len(want) : want[j].requirement = "optional"

RECURSIVE Argument(_, _, _, _, _)
Argument(e, passed, want, i, argv) ==
    LET t == GetArgument(e, passed, i)
        c == ConvertTokenToArgument(e, t, want[i].type)
    IN  IF i > Len(want) THEN Ran(TRUE, argv)
        ELSE IF i > Len(passed) THEN Ran(RestIsOptional(want, i), argv)
        ELSE IF Nullish(t) /\ want[i].type # "json"
        THEN IF want[i].requirement = "required" THEN Ran(FALSE, argv)
             ELSE Argument(e, passed, want, i + 1, argv)
        ELSE IF c.ok
        THEN Argument(e, passed, want, i + 1, [argv EXCEPT ![i] = [given |-> TRUE, v |-> c.v]])
        ELSE Ran(FALSE, argv)

GetArguments(e, passed, want) ==
    IF Len(passed) > Len(want) THEN Ran(FALSE, [i \in DOMAIN want |-> Unspecified])
    ELSE Argument(e, passed, want, 1, [i \in DOMAIN want |-> Unspecified])

-----------------------------------------------------------------------------
ValuesInit == jv_in = [ask |-> "nothing"]

AskToken ==
    \E e \in Engine : \E t \in TokenOf(e) :
        jv_in' = [ask |-> "token", engine |-> e, token |-> t]

AskNumber ==
    \E e \in Engine : \E v \in kint64 \cup Halves :
        jv_in' = [ask |-> "number", engine |-> e, v |-> v]

ScriptArgument ==
    {Tag("null"), Tag("undefined"), Tag("function"), [tag |-> "bool", n |-> 1], [tag |-> "int", n |-> 1],
     [tag |-> "double", n |-> 3]}

AskCall ==
    \E e \in Engine, args \in BoundedSeq(ScriptArgument, MaxArgs),
       want \in BoundedSeq([requirement : {"required", "optional"}, type : {"bool", "int", "json"}], MaxArgs) :
        jv_in' = [ask |-> "call", engine |-> e, args |-> args, want |-> want]

ValuesNext == jv_in.ask = "nothing" /\ (AskToken \/ AskNumber \/ AskCall)

-----------------------------------------------------------------------------
(* What a primitive token means to the script.                                *)
Meaning(t) == IF t.tag = "int" THEN DoubleToken(2 * t.n) ELSE t

Asked(what) == jv_in.ask = what

(* The two places where a coercion is not that of ECMA 262-3 Section 9, which *)
(* js_types.h (332-334) promises: IE takes a zero that is a double for true,  *)
(* and NP leaves the point behind a whole double.                             *)
Differs(e, t, want) ==
    \/ want = "bool" /\ e = "IE" /\ t.tag = "double" /\ t.n = 0
    \/ want = "string" /\ e = "NP" /\ t.tag = "double" /\ t.n % 2 = 0 /\ ~DoubleIsInt32(t.n)

(* The same primitive script value is coerced to the same C++ value, or       *)
(* refused, in every engine, whichever way the engine represents it           *)
(* (JsTokenToXxx_Coerce), but in those two places, where it is true in one    *)
(* engine only, or has another text.                                          *)
CoercesAlike ==
    Asked("token") =>
        \A want \in {"bool", "int", "double", "string"}, e \in Engine : \A t \in TokenOf(e) :
            LET u == jv_in.token
                d == jv_in.engine
            IN  /\ (/\ Meaning(t) = Meaning(u) /\ ~IsObject(t)
                    /\ ~Differs(e, t, want) /\ ~Differs(d, u, want))
                       => Coerce(e, t, want) = Coerce(d, u, want)
                /\ Differs(d, u, want) => Coerce(d, u, want) = Yes(IF want = "bool" THEN 1 ELSE <<"pointed", u.n>>)

(* "The only values that should be treated as false in JavaScript are false,  *)
(* null, NaN, 0, undefined and an empty string" (js_types.cc, 1400-1402, in   *)
(* IE's JsTokenToBool_Coerce).  A zero that is a double is treated as true    *)
(* there.                                                                     *)
OnlyTheseAreFalse ==
    Asked("token") =>
        LET m == Meaning(jv_in.token)
        IN  Coerce(jv_in.engine, jv_in.token, "bool") = Yes(0) <=>
              \/ m.tag \in {"null", "nan", "undefined"}
              \/ m.tag \in {"bool", "double", "string"} /\ m.n = 0

(* An integer argument is the number truncated, and numbers outside the range *)
(* of int are refused rather than wrapped (JsTokenToInt_Coerce).              *)
IntIsTruncated ==
    (Asked("token") /\ jv_in.token.tag \in {"int", "double"}) =>
        LET h == Meaning(jv_in.token).n
            i == Coerce(jv_in.engine, jv_in.token, "int")
        IN  IF i.ok THEN i.v \in kint32 /\ 2 * i.v - h \in -1..1 /\ (h >= 0 => 2 * i.v <= h) /\ (h <= 0 => 2 * i.v >= h)
            ELSE h > 2 * (2 ^ (Int32Bits - 1) - 1) \/ h < -(2 * 2 ^ (Int32Bits - 1))

(* What JsTokenGetType says is what the conversion without coercion accepts:  *)
(* Marshal and the JSON conversions switch on the type and then convert.      *)
TypeIsConvertible ==
    Asked("token") =>
        LET e == jv_in.engine
            t == jv_in.token
            type == JsTokenGetType(e, t)
        IN  /\ type \notin {"null", "undefined"} => NoCoerce(e, t, type).ok
            /\ \A want \in {"bool", "int", "string", "array"} : NoCoerce(e, t, want).ok => type = want

(* A 64-bit integer is handed to the script exactly or reported as out of     *)
(* range, and reads back as itself; a 32-bit one reads back as itself in IE   *)
(* and NP, and in FF exactly if it has no more than 31 bits: INT_TO_JSVAL     *)
(* loses the top one, unreported (ConvertJsParamToToken).                     *)
NumbersReadBack ==
    Asked("number") =>
        LET e == jv_in.engine
            v == jv_in.v
            wide == ConvertJsParamToToken(e, "int64", v)
            int  == ConvertJsParamToToken(e, "int", v)
        IN  /\ v \in kint64 => IF wide.ok THEN JsTokenToInt64_NoCoerce(e, wide.v) = Yes(v)
                               ELSE v \notin JS_INT /\ SetReturnValue(e, "int64", v).exception
            /\ v \in kint32 => /\ int.ok
                               /\ NoCoerce(e, int.v, "int") = Yes(v) <=> (e = "FF" => v \in JSVAL_INT)
            /\ NoCoerce(e, ConvertJsParamToToken(e, "double", v).v, "double") = Yes(v)

(* GetArguments accepts a call exactly when no argument is surplus, every     *)
(* required one is there and what is there can be converted; then each        *)
(* expected argument holds the conversion of the script argument in its own   *)
(* place.  It throws exactly when it returns false.                           *)
ArgumentsInPlace ==
    Asked("call") =>
        LET e == jv_in.engine
            a == jv_in.args
            w == jv_in.want
            r == GetArguments(e, AsPassed(e, a), w)
            There(i) == i <= Len(a) /\ (Nullish(a[i]) => w[i].type = "json")
        IN  /\ r.ok <=> /\ Len(a) <= Len(w)
                        /\ \A i \in DOMAIN w : IF There(i) THEN ConvertTokenToArgument(e, a[i], w[i].type).ok
                                               ELSE w[i].requirement = "optional"
            /\ r.exception = ~r.ok
            /\ r.ok => \A i \in DOMAIN w :
                  r.argv[i] = IF There(i) THEN [given |-> TRUE, v |-> ConvertTokenToArgument(e, a[i], w[i].type).v]
                              ELSE Unspecified
=============================================================================
