------------------------------ MODULE TextUtils -----------------------------
(***************************************************************************)
(* The text algorithms of common/string_utils.{h,cc}, common/url_utils.cc  *)
(* and common/security_model.cc, as operators on sequences of characters.  *)
(* The state is the input at hand, chosen once; the invariants compare     *)
(* what the loops compute with what they are meant to compute.             *)
(***************************************************************************)
EXTENDS Integers, Sequences, FiniteSets, SequencesExt

CONSTANTS
  MaxText,      \* bound: characters of a text
  MaxPattern,   \* bound: characters of a needle or a pattern
  kint32max,    \* the greatest int, scaled down
  EscapeBuffer  \* sizeof(temp_buffer) in EscapeUrl, scaled down

ASSUME TextAssumption ==
  /\ MaxText \in Nat /\ MaxPattern \in Nat /\ EscapeBuffer \in Nat
  /\ kint32max \in Nat /\ kint32max > 10

kint32min == -(kint32max + 1)

VARIABLE tx_in

NoPlaces == <<<<"", 0>>, <<"", 0>>>>
NoText == [what |-> "none", text |-> <<>>, pattern |-> <<>>, places |-> NoPlaces]
TextInit == tx_in = NoText

(* Characters, by their codes. *)
DigitChars == {48, 49, 50, 55, 56, 57}
Plus == 43
Minus == 45
Star == 42
Dot == 46
Percent == 37
Semicolon == 59
Slash == 47
Backslash == 92
Pipe == 124
Colon == 58
Space == 32
CharA == 97
CharB == 98
UpperA == 65
NonAscii == 200
Underscore == 95

Texts(chars, n) == UNION {[1 .. k -> chars] : k \in 0 .. n}

Choose(what, text, pattern) ==
  tx_in' = [what |-> what, text |-> text, pattern |-> pattern, places |-> NoPlaces]

(* Two origins: their hosts, and scheme and port of each. *)
Places == {<<"http", 80>>, <<"http", 8080>>, <<"https", 443>>, <<"https", 80>>}

ChooseOrigins(host, parent, places) ==
  tx_in' = [what |-> "domain", text |-> host, pattern |-> parent, places |-> places]

TextNext ==
  /\ tx_in = NoText
  /\ \/ \E t \in Texts({CharA, UpperA, CharB}, MaxText), p \in Texts({CharA, CharB}, MaxPattern) :
          Choose("match", t, p)
     \/ \E t \in Texts({CharA, UpperA, CharB}, MaxPattern), p \in Texts({CharA, CharB, Star}, MaxPattern) :
          Choose("glob", t, p)
     \/ \E t \in Texts(DigitChars \cup {Plus, Minus, CharA}, MaxText) : Choose("int", t, <<>>)
     \/ \E t \in Texts({CharA, Space, Colon}, MaxText) : Choose("token", t, <<>>)
     \/ \E t \in Texts({CharA, Percent, 52, Pipe, NonAscii, Semicolon, Backslash}, MaxText) : Choose("escape", t, <<>>)
     \/ \E t \in Texts({CharA, Dot, Slash, Space, NonAscii}, MaxText) : Choose("component", t, <<>>)
     \/ \E t \in Texts({CharA, Slash, Dot}, MaxText + 1) : Choose("path", t, <<>>)
     \/ \E t \in Texts({CharA, CharB, Dot}, MaxText), p \in Texts({CharA, Dot}, MaxPattern) :
          \E place \in Places : ChooseOrigins(t, p, <<<<"http", 80>>, place>>)

-----------------------------------------------------------------------------
LowerCase(c) == IF c = UpperA THEN CharA ELSE c

(* MemMatch::memmatch: one pass that backs up after a partial match; the   *)
(* position of the match, or 0.                                            *)
RECURSIVE MatchFrom(_, _, _, _)
(* Variant: the haystack is not backed up. *)
BackUpNot(hay, at) == hay

BackUp(hay, at) == hay - (at - 1)

MatchFrom(h, n, hay, at) ==
  IF hay > Len(h) THEN 0
  ELSE IF LowerCase(h[hay]) = LowerCase(n[at])
  THEN IF at = Len(n) THEN hay + 1 - Len(n) ELSE MatchFrom(h, n, hay + 1, at + 1)
  ELSE MatchFrom(h, n, BackUp(hay, at) + 1, 1)

memmatch(h, n) == IF n = <<>> THEN 1 ELSE IF Len(h) < Len(n) THEN 0 ELSE MatchFrom(h, n, 1, 1)

-----------------------------------------------------------------------------
(* StringMatch: an asterisk tries every place of the next character. *)
RECURSIVE StringMatch(_, _)
StarMatches(t, p) ==
  \E i \in 1 .. Len(t) : /\ LowerCase(t[i]) = LowerCase(p[2])
                         /\ StringMatch(SubSeq(t, i + 1, Len(t)), SubSeq(p, 3, Len(p)))

StringMatch(t, p) ==
  IF p = <<>> THEN t = <<>>
  ELSE IF p[1] = Star THEN Len(p) = 1 \/ StarMatches(t, p)
  ELSE t # <<>> /\ LowerCase(t[1]) = LowerCase(p[1]) /\ StringMatch(Tail(t), Tail(p))

-----------------------------------------------------------------------------
(* C++ division and remainder round toward zero. *)
Quotient(a, b) == IF a < 0 THEN -((-a) \div b) ELSE a \div b

Overflows(total, c) ==
  \/ total < Quotient(kint32min, 10)
  \/ total = Quotient(kint32min, 10) /\ c > (-(kint32min + 10)) % 10

Refused == <<>>

(* StringTToInt: digits accumulate in the negative direction; a value in a *)
(* sequence of one, or none.                                               *)
Accumulate(digits) ==
  FoldLeft(LAMBDA total, ch :
             IF total = Refused \/ ch \notin 48 .. 57 THEN Refused
             ELSE IF Overflows(total[1], ch - 48) THEN Refused
             ELSE <<10 * total[1] - (ch - 48)>>,
           <<0>>, digits)

StringTToInt(s) ==
  LET signed == s # <<>> /\ s[1] \in {Plus, Minus}
      total == Accumulate(IF signed THEN Tail(s) ELSE s)
  IN  IF total = Refused THEN Refused
      ELSE IF signed /\ s[1] = Minus THEN total
      ELSE IF total[1] = kint32min THEN Refused
      ELSE <<-total[1]>>

-----------------------------------------------------------------------------
(* The delimiters callers split at. *)
Delimiters == {Space, Colon, Slash}

(* find_first_of and find_first_not_of, 0 for npos. *)
FindFrom(s, from, Test(_)) ==
  LET hits == {i \in from .. Len(s) : Test(s[i])}
  IN  IF hits = {} THEN 0 ELSE CHOOSE i \in hits : \A j \in hits : i <= j

(* Tokenize: consecutive delimiters separate as one does. *)
RECURSIVE TokensFrom(_, _)
NextField(s, end) == FindFrom(s, end + 1, LAMBDA c : c \notin Delimiters)

TokensFrom(s, start) ==
  IF start = 0 THEN <<>>
  ELSE LET end == FindFrom(s, start + 1, LAMBDA c : c \in Delimiters)
       IN  IF end = 0 THEN <<SubSeq(s, start, Len(s))>>
           ELSE <<SubSeq(s, start, end - 1)>> \o TokensFrom(s, NextField(s, end))

Tokenize(s) == TokensFrom(s, FindFrom(s, 1, LAMBDA c : c \notin Delimiters))

(* File::SplitPath.  file.h 242-243 promises an empty string for each of   *)
(* several consecutive separators; Tokenize gives none.                    *)
SplitPath(path) == Tokenize(path)

-----------------------------------------------------------------------------
IsCharValidInPathComponent(c, strict) ==
  c >= 32 /\ ~(strict /\ (c = Space \/ c >= 127)) /\ c \notin {Slash, Backslash, Colon, Star, Semicolon, Pipe}

IsStringValidPathComponent(s) ==
  s = <<>> \/ (/\ s[1] # Dot
               /\ \A i \in DOMAIN s : IsCharValidInPathComponent(s[i], TRUE)
               /\ s[Len(s)] # Dot)

EnsureStringValidPathComponent(s, strict) ==
  [i \in DOMAIN s |-> IF (i \in {1, Len(s)} /\ s[i] = Dot) \/ ~IsCharValidInPathComponent(s[i], strict)
                      THEN Underscore ELSE s[i]]

-----------------------------------------------------------------------------
(* File::GetBaseName: without trailing separators, what follows the last    *)
(* one; a separator for a path of nothing else.                             *)
LastSlash(s) == Len(s) - SelectInSeq(Reverse(s), LAMBDA c : c = Slash) + 1
NoSlash(s) == \A i \in DOMAIN s : s[i] # Slash

WithoutTrailing(s) == SubSeq(s, 1, Len(s) + 1 - SelectInSeq(Reverse(s), LAMBDA c : c # Slash))

GetBaseName(path) ==
  IF Len(path) <= 1 THEN path
  ELSE IF \A i \in DOMAIN path : path[i] = Slash THEN <<Slash>>
  ELSE LET s == WithoutTrailing(path)
       IN  IF NoSlash(s) THEN s ELSE SubSeq(s, LastSlash(s) + 1, Len(s))

ParentLength(path) == Len(path) - Len(GetBaseName(path)) - 1

(* File::GetParentDirectory; Refused where it returns false: also for a    *)
(* name just under the root, for which the length of the parent is 0.      *)
GetParentDirectory(path) ==
  IF path = <<>> \/ ParentLength(path) < 1 THEN Refused
  ELSE LET parent == SubSeq(path, 1, ParentLength(path))
       IN  IF \A i \in DOMAIN parent : parent[i] = Slash THEN <<Slash>> ELSE WithoutTrailing(parent)

(* File::GetFileExtension, as the text from the last dot after the last     *)
(* separator.                                                               *)
GetFileExtension(name) ==
  LET at == SelectInSeq(Reverse(name), LAMBDA c : c \in {Slash, Dot})
  IN  IF at = 0 \/ name[Len(name) + 1 - at] = Slash THEN <<>> ELSE SubSeq(name, Len(name) + 1 - at, Len(name))

-----------------------------------------------------------------------------
(* EscapeUrl.  NO_NEED_ESC with ESCAPE_DIRECTORY, of the characters used. *)
NoNeedEscape(c) == c \in {CharA, CharB, UpperA, Slash, Colon, Semicolon, Pipe, 66, 67} \/ c \in 48 .. 57

Hex(n) == IF n < 10 THEN 48 + n ELSE 55 + n

EscapedChar(c, forced, afterNonAscii) ==
  IF (NoNeedEscape(c) \/ (c = Percent /\ ~forced)) /\ ~(afterNonAscii /\ c = Pipe)
  THEN <<c>> ELSE <<Percent, Hex(c \div 16), Hex(c % 16)>>

FlushNeeded(buffer) == Len(buffer) >= EscapeBuffer - 4

(* The loop: the result so far, temp_buffer, its largest fill, and whether *)
(* the last character was not ASCII.                                       *)
EscapeLoop(s, forced) ==
  FoldLeft(LAMBDA st, c :
             LET buffer == st.buffer \o EscapedChar(c, forced, st.after)
                 most == IF Len(buffer) > st.most THEN Len(buffer) ELSE st.most
             IN  IF FlushNeeded(buffer)
                 THEN [result |-> st.result \o buffer, buffer |-> <<>>, most |-> most, after |-> c > 127]
                 ELSE [st EXCEPT !.buffer = buffer, !.most = most, !.after = c > 127],
           [result |-> <<>>, buffer |-> <<>>, most |-> 0, after |-> FALSE], s)

EscapeUrl(s, forced) == EscapeLoop(s, forced).result \o EscapeLoop(s, forced).buffer

IsHex(c) == c \in 48 .. 57 \/ c \in 65 .. 70 \/ c \in 97 .. 102
HexToInt(c) == IF c <= 57 THEN c - 48 ELSE IF c <= 70 THEN c - 55 ELSE c - 87

(* UnescapeURLImpl without replace_plus. *)
RECURSIVE UnescapeFrom(_, _)
UnescapeFrom(s, i) ==
  IF i > Len(s) THEN <<>>
  ELSE IF s[i] = Percent /\ i + 2 <= Len(s) /\ IsHex(s[i + 1]) /\ IsHex(s[i + 2])
  THEN <<HexToInt(s[i + 1]) * 16 + HexToInt(s[i + 2])>> \o UnescapeFrom(s, i + 3)
  ELSE <<s[i]>> \o UnescapeFrom(s, i + 1)

UnescapeURL(s) == UnescapeFrom(s, 1)

PathEscaped(path) == EscapeUrl(path, TRUE)

(* UTF8PathToUrl: backslashes, the escapes, the first semicolon (the search *)
(* for the next one looks for a backslash), and a directory's slash.        *)
Normalized(path) == [i \in DOMAIN path |-> IF path[i] = Backslash THEN Slash ELSE path[i]]

UTF8PathToUrl(path, directory) ==
  LET escaped == PathEscaped(Normalized(path))
      at == FindFrom(escaped, 1, LAMBDA c : c = Semicolon)
      spelled == IF at = 0 THEN escaped
                 ELSE SubSeq(escaped, 1, at - 1) \o <<Percent, 51, 66>> \o SubSeq(escaped, at + 1, Len(escaped))
  IN  IF directory /\ (spelled = <<>> \/ spelled[Len(spelled)] # Slash) THEN Append(spelled, Slash) ELSE spelled

-----------------------------------------------------------------------------
(* SecurityOrigin::IsSubDomainOf: the same port and scheme, and the hosts  *)
(* compared from their ends.                                               *)
Origin(place, host) == [scheme |-> place[1], port |-> place[2], host |-> host]

RECURSIVE SameFromEnd(_, _, _)
EndsAtLabel(host, k) == k = Len(host) \/ host[Len(host) - k] = Dot

SameFromEnd(host, parent, k) ==
  /\ host[Len(host) - k] = parent[Len(parent) - k]
  /\ IF k + 1 = Len(parent) THEN EndsAtLabel(host, k + 1) ELSE SameFromEnd(host, parent, k + 1)

IsSubDomainOf(own, parent) ==
  /\ own.port = parent.port /\ own.scheme = parent.scheme /\ Len(own.host) >= Len(parent.host)
  /\ SameFromEnd(own.host, parent.host, 0)

-----------------------------------------------------------------------------
Input(what) == tx_in.what = what

(* memmatch finds the first occurrence, whatever the needle repeats. *)
MatchIsFirst ==
  Input("match") =>
    LET h == tx_in.text  n == tx_in.pattern
        At(i) == i + Len(n) - 1 <= Len(h)
                 /\ \A j \in 1 .. Len(n) : LowerCase(h[i + j - 1]) = LowerCase(n[j])
        r == memmatch(h, n)
    IN  IF r = 0 THEN \A i \in 1 .. Len(h) + 1 : ~At(i)
        ELSE At(r) /\ \A i \in 1 .. r - 1 : ~At(i)

(* What a pattern means, for patterns without two asterisks in a row (of    *)
(* which StringMatch takes the second as a character).                      *)
Means(t, p) ==
  LET reach[k \in 0 .. Len(p)] ==
        IF k = 0 THEN {0}
        ELSE IF p[k] = Star THEN {i \in 0 .. Len(t) : \E j \in reach[k - 1] : j <= i}
        ELSE {i + 1 : i \in {j \in reach[k - 1] : j < Len(t) /\ LowerCase(t[j + 1]) = LowerCase(p[k])}}
  IN  Len(t) \in reach[Len(p)]

(* StringMatch accepts exactly what the pattern means. *)
GlobMatches ==
  Input("glob") /\ (\A i \in 1 .. Len(tx_in.pattern) - 1 : ~(tx_in.pattern[i] = Star /\ tx_in.pattern[i + 1] = Star)) =>
    (StringMatch(tx_in.text, tx_in.pattern) <=> Means(tx_in.text, tx_in.pattern))

(* StringToInt is exact: the value in range, nothing outside it, at both    *)
(* ends of the range.                                                       *)
IntIsExact ==
  Input("int") =>
    LET s == tx_in.text
        signed == s # <<>> /\ s[1] \in {Plus, Minus}
        digits == IF signed THEN Tail(s) ELSE s
        value == FoldLeft(LAMBDA v, c : 10 * v + (c - 48), 0, digits) * (IF signed /\ s[1] = Minus THEN -1 ELSE 1)
        good == \A i \in DOMAIN digits : digits[i] \in 48 .. 57
    IN  StringTToInt(s) = IF good /\ value \in kint32min .. -(kint32min + 1) THEN <<value>> ELSE Refused

(* Tokenize gives the non-empty fields: no delimiter in them, none lost.    *)
(* (For SplitPath file.h 242-243 documents empty strings between separators *)
(* that follow each other; the code drops them.)                            *)
TokensAreFields ==
  Input("token") =>
    LET tokens == Tokenize(tx_in.text)
    IN  /\ \A i \in DOMAIN tokens : tokens[i] # <<>> /\ \A j \in DOMAIN tokens[i] : tokens[i][j] \notin Delimiters
        /\ FlattenSeq(tokens) = SelectSeq(tx_in.text, LAMBDA c : c \notin Delimiters)

(* A name made valid is valid, and stays as it is when made valid again. *)
ComponentIsValid ==
  Input("component") =>
    LET s == EnsureStringValidPathComponent(tx_in.text, TRUE)
    IN  IsStringValidPathComponent(s) /\ EnsureStringValidPathComponent(s, TRUE) = s

(* A path is its parent and its base name: they have the components of the  *)
(* path, in order, and the extension is the end of the base name.  For up   *)
(* to one trailing separator: with two, the parent of "a/b//" is "a/b".     *)
(* GetParentDirectory fails where file.h 153 says, for a path that names no *)
(* parent, and in one case more: "/a", though '/' is a legal parent         *)
(* (file.cc 129-130).                                                       *)
OneTrailing(path) ==
  Len(path) < 2 \/ path[Len(path) - 1] # Slash \/ path[Len(path)] # Slash

NamesNoParent(path) == NoSlash(SubSeq(path, 1, Len(path) - 1))
JustUnderRoot(path) == path[1] = Slash /\ NoSlash(Tail(path))

ParentAndBase ==
  Input("path") /\ OneTrailing(tx_in.text) =>
    LET path == tx_in.text
        parent == GetParentDirectory(path)
    IN  /\ parent # Refused => SplitPath(parent) \o SplitPath(GetBaseName(path)) = SplitPath(path)
        /\ parent = Refused <=> path = <<>> \/ NamesNoParent(path) \/ JustUnderRoot(path)
        /\ path # <<>> /\ path[Len(path)] # Slash => IsSuffix(GetFileExtension(path), GetBaseName(path))

(* EscapeUrl never fills its buffer to the end, where the terminator goes. *)
EscapeFits == Input("escape") => EscapeLoop(tx_in.text, TRUE).most <= EscapeBuffer - 1

(* A path can be read back from its url: escapes that were in the path,     *)
(* non-ASCII bytes and semicolons included.                                 *)
PathReadsBack ==
  Input("escape") => UnescapeURL(UTF8PathToUrl(tx_in.text, FALSE)) = Normalized(tx_in.text)

(* An origin is a sub-domain when scheme and port are the parent's and the *)
(* labels of the parent's host end its own.                                *)
SubDomainByLabels ==
  Input("domain") /\ tx_in.pattern # <<>> =>
    LET host == tx_in.text  parent == tx_in.pattern
    IN  IsSubDomainOf(Origin(tx_in.places[1], host), Origin(tx_in.places[2], parent)) <=>
          /\ tx_in.places[1] = tx_in.places[2]
          /\ host = parent \/ IsSuffix(<<Dot>> \o parent, host)

(* The hand-written text loops compute what they are for: searches,        *)
(* patterns, numbers, fields, path components, escapes and domain          *)
(* suffixes.  Where a header promises more than the code does, the parts   *)
(* above say so and state what the code does.                              *)
TextIsRight ==
  /\ MatchIsFirst
  /\ GlobMatches
  /\ IntIsExact
  /\ TokensAreFields
  /\ ComponentIsValid
  /\ ParentAndBase
  /\ EscapeFits
  /\ PathReadsBack
  /\ SubDomainByLabels
=============================================================================
