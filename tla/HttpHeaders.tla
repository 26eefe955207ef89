----------------------------- MODULE HttpHeaders ----------------------------
(***************************************************************************)
(* HTTPHeaders and HTTPUtils::ParseHTTPHeaders of common/http_utils.cc: a  *)
(* document is parsed line by line into the vector of headers, which the   *)
(* caller may then edit.  A name is a pair (what strcasecmp compares, its  *)
(* spelling); a value is a sequence of words and separators.  A second     *)
(* parse of the same lines has no headers object (ExtractBody).            *)
(***************************************************************************)
EXTENDS Integers, Sequences, SequencesExt

CONSTANTS
  MaxLines,  \* bound: lines of the document
  MaxEdits   \* bound: calls after the parse

ASSUME HttpAssumption == MaxLines \in Nat /\ MaxEdits \in Nat

VARIABLES
  hh_list,   \* headers_: the pairs, in order
  hh_parse,  \* the parse with a headers object: num_headers, result, body
  hh_bare,   \* the parse without one
  hh_lines,  \* history: the lines read
  hh_edits   \* calls made

httpVars == <<hh_list, hh_parse, hh_bare, hh_lines, hh_edits>>

Erased == <<"NULL">>
HeaderName == {<<"host", 1>>, <<"set-cookie", 1>>, <<"a", 1>>, <<"a", 2>>}
MultiLine == {"set-cookie"}
HeaderValue == {<<>>, <<"v">>, <<"w", "\n">>}

Line ==
  [kind : {"header"}, name : HeaderName, value : HeaderValue] \cup
  [kind : {"continuation"}, value : {<<>>, <<"c">>}] \cup
  [kind : {"status", "odd_status", "no_colon", "blank", "no_crlf"}]

HttpInit ==
  /\ hh_list = <<>>
  /\ hh_parse = [num |-> 0, result |-> "parsing", body |-> "none"]
  /\ hh_bare = [num |-> 0, result |-> "parsing", body |-> "none"]
  /\ hh_lines = <<>>
  /\ hh_edits = 0

-----------------------------------------------------------------------------
SameName(x, y) == x[1] = y[1]

GetHeader(list, name) ==
  LET hits == {i \in DOMAIN list : SameName(list[i].name, name)}
  IN  IF hits = {} THEN 0 ELSE CHOOSE i \in hits : \A j \in hits : i <= j

(* The scan for CR and LF. *)
Sanitized(value) == [i \in DOMAIN value |-> IF value[i] = "\n" THEN "_" ELSE value[i]]

AddNewHeader(list, name, value) == Append(list, [name |-> name, value |-> value])

AppendValueToHeader(list, i, separator, value) == [list EXCEPT ![i].value = @ \o separator \o value]

ClearHeader(list, name) ==
  LET kept[i \in 0 .. Len(list)] ==
        IF i = 0 THEN <<>>
        ELSE IF SameName(list[i].name, name) THEN kept[i - 1] ELSE Append(kept[i - 1], list[i])
  IN  kept[Len(list)]

(* Variant: an existing value is overwritten by APPEND. *)
AppendsOverwriting(list, i, name, value) == [list EXCEPT ![i] = [name |-> name, value |-> value]]

(* SetHeader's APPEND to the header at i. *)
Appends(list, i, name, value) ==
  IF list[i].value = Erased THEN [list EXCEPT ![i] = [name |-> name, value |-> value]]
  ELSE IF value = Erased THEN list
  ELSE AppendValueToHeader([list EXCEPT ![i].name = name], i, <<",">>, value)

SetHeader(list, name, raw, overwrite) ==
  LET value == Sanitized(raw)
      i == GetHeader(list, name)
  IN  IF name[1] \in MultiLine /\ overwrite = "APPEND" THEN AddNewHeader(list, name, value)
      ELSE IF name[1] \in MultiLine /\ overwrite = "OVERWRITE"
      THEN AddNewHeader(ClearHeader(list, name), name, value)
      ELSE IF i = 0 THEN AddNewHeader(list, name, value)
      ELSE CASE overwrite = "NO_OVERWRITE" -> list
             [] overwrite = "OVERWRITE" -> [list EXCEPT ![i] = [name |-> name, value |-> value]]
             [] overwrite = "APPEND" -> Appends(list, i, name, value)

(* SetHeaderFromLine: a continuation goes to the last entry of the vector. *)
SetHeaderFromLine(list, line) ==
  CASE line.kind = "continuation" /\ list # <<>> ->
         AppendValueToHeader(list, Len(list),
           IF list[Len(list)].value # <<>> /\ line.value # <<>> THEN <<" ">> ELSE <<>>, line.value)
    [] line.kind = "header" ->
         SetHeader(list, line.name, line.value, IF line.name[1] = "host" THEN "NO_OVERWRITE" ELSE "APPEND")
    [] OTHER -> list

-----------------------------------------------------------------------------
(* The first line has no colon and looks like a status line. *)
LooksLikeStatus(line) == line.kind \in {"status", "odd_status"}

(* AddResponseFirstline: the protocol is known and the code is in range. *)
AddResponseFirstline(line) == line.kind = "status"

Ends(p, result, body) == [p EXCEPT !.result = result, !.body = body]

HasLineFeed(line) == line.kind = "header" /\ "\n" \in Range(line.value)

CountedStatus(p, line, recording) ==
  IF recording /\ ~AddResponseFirstline(line) THEN p ELSE [p EXCEPT !.num = @ + 1]

(* One turn of ParseHTTPHeaders' loop. *)
ParseLine(p, line, recording) ==
  CASE line.kind = "no_crlf" -> Ends(p, "false", IF p.num = 0 THEN "whole" ELSE "empty")
    [] p.num = 0 /\ HasLineFeed(line) -> Ends(p, "false", "whole")
    [] line.kind = "blank" -> Ends(p, "true", "rest")
    [] p.num = 0 /\ LooksLikeStatus(line) -> CountedStatus(p, line, recording)
    [] p.num = 0 /\ line.kind \in {"no_colon", "continuation"} -> Ends(p, "false", "whole")
    [] OTHER -> [p EXCEPT !.num = @ + 1]

(* The line is one that SetHeaderFromLine is given. *)
IsHeaderLine(p, line) ==
  /\ line.kind \notin {"no_crlf", "blank"}
  /\ p.num = 0 => line.kind = "header" /\ ~HasLineFeed(line)

ReadLine(line) ==
  /\ hh_parse.result = "parsing" \/ hh_bare.result = "parsing"
  /\ Len(hh_lines) < MaxLines
  /\ hh_lines' = Append(hh_lines, line)
  /\ IF hh_parse.result = "parsing"
     THEN /\ hh_parse' = ParseLine(hh_parse, line, TRUE)
          /\ hh_list' = IF IsHeaderLine(hh_parse, line) THEN SetHeaderFromLine(hh_list, line) ELSE hh_list
     ELSE UNCHANGED <<hh_parse, hh_list>>
  /\ hh_bare' = IF hh_bare.result = "parsing" THEN ParseLine(hh_bare, line, FALSE) ELSE hh_bare
  /\ UNCHANGED hh_edits

(* The caller's own edits, once the document is parsed. *)
Edit ==
  /\ hh_parse.result # "parsing" /\ hh_bare.result # "parsing" /\ hh_edits < MaxEdits
  /\ hh_edits' = hh_edits + 1
  /\ \/ \E name \in HeaderName, value \in {<<"x">>, Erased}, overwrite \in {"APPEND", "OVERWRITE", "NO_OVERWRITE"} :
          hh_list' = SetHeader(hh_list, name, value, overwrite)
     \/ \E name \in HeaderName : hh_list' = ClearHeader(hh_list, name)
  /\ UNCHANGED <<hh_parse, hh_bare, hh_lines>>

HttpNext == (\E line \in Line : ReadLine(line)) \/ Edit

HttpSpec == HttpInit /\ [][HttpNext]_httpVars

-----------------------------------------------------------------------------
(* What the lines say of a single-valued name: the values sent under it,    *)
(* joined by commas, each with the continuations that follow it.            *)
Nothing == [there |-> FALSE, open |-> FALSE, value |-> <<>>]

Counts(st, line, name) ==
  line.kind = "header" /\ line.name[1] = name /\ (name # "host" \/ ~st.there)

Heard(st, line, name) ==
  CASE Counts(st, line, name) ->
         [there |-> TRUE, open |-> TRUE,
          value |-> IF st.there THEN st.value \o <<",">> \o Sanitized(line.value) ELSE Sanitized(line.value)]
    [] line.kind = "header" /\ ~Counts(st, line, name) -> [st EXCEPT !.open = FALSE]
    [] line.kind = "continuation" /\ st.open ->
         [st EXCEPT !.value = @ \o (IF st.value # <<>> /\ line.value # <<>> THEN <<" ">> ELSE <<>>) \o line.value]
    [] OTHER -> st

Sent(lines, name) ==
  LET after[n \in 0 .. Len(lines)] ==
        IF n = 0 THEN Nothing ELSE Heard(after[n - 1], lines[n], name)
  IN  after[Len(lines)]

(* http_utils.cc 640 says "We handle header continuations".  But a          *)
(* continuation goes to the last entry of the vector (659-671): after a     *)
(* line that was merged into an earlier entry, or ignored as a second Host, *)
(* that is the value of another header.  The lines the property leaves out. *)
ContinuesMerged(lines) ==
  \E i \in 2 .. Len(lines) :
    /\ lines[i].kind = "continuation"
    /\ \E k \in 1 .. i - 1 :
         /\ lines[k].kind = "header"
         /\ \A j \in k + 1 .. i - 1 : lines[j].kind # "header"
         /\ \E j \in 1 .. k - 1 : lines[j].kind = "header" /\ lines[j].name[1] = lines[k].name[1]

(* The headers read are the ones sent, but for those lines: repeated names  *)
(* are joined in order whatever their spelling, folded values are unfolded, *)
(* a second Host is ignored, line feeds are replaced.                       *)
ReadsAsSent ==
  hh_edits = 0 /\ hh_parse.num > 0 /\ ~ContinuesMerged(hh_lines) =>
    \A name \in {"host", "a"} :
      LET i == GetHeader(hh_list, <<name, 1>>)
          sent == Sent(hh_lines, name)
      IN  IF sent.there THEN i # 0 /\ hh_list[i].value = sent.value ELSE i = 0

(* Whatever is parsed and edited, a name that is not multi-valued has one   *)
(* entry, so the first match GetHeader returns is the only one.             *)
OneEntryPerName ==
  \A i, j \in DOMAIN hh_list :
    i # j => hh_list[i].name[1] # hh_list[j].name[1] \/ hh_list[i].name[1] \in MultiLine

(* http_utils.h 340-342: body and its length "are modified exactly like     *)
(* they are in ExtractBody".  So they are, except when a first line looks   *)
(* like a status line and AddResponseFirstline refuses it: only the parse   *)
(* that records headers goes on as if there had been no line (803-805).     *)
SameBody ==
  (\A i \in DOMAIN hh_lines : hh_lines[i].kind # "odd_status") => hh_parse = hh_bare

(* Whatever edits follow, single headers are there once; and but for two   *)
(* kinds of document the code reads otherwise than its comments say        *)
(* (continuations of merged lines, refused status lines) headers read as   *)
(* sent, and both parses find the same body.                               *)
HeadersReadAsSent ==
  /\ ReadsAsSent
  /\ OneEntryPerName
  /\ SameBody
=============================================================================
