------------------------------ MODULE Request ------------------------------
(***************************************************************************)
(* routine::http::Request (source/http/request.cpp) with its Headers       *)
(* (headers.cpp), Parameters (params.hpp) and the texts they are split     *)
(* from (utils.hpp): what the constructor makes of a request line and of   *)
(* header lines, what a client changes, and what prepare_request() writes  *)
(* for the receiver, whose constructor reads it again.                     *)
(*                                                                         *)
(* A text is a sequence of characters; a parameter with its braces, the    *)
(* name of a method and that of a version count as one. There is no line   *)
(* feed among them: it would end the line, and is what no text here has.   *)
(***************************************************************************)
EXTENDS Integers, Sequences, SequencesExt, FiniteSets

CONSTANTS
  Chars,        \* the characters of a text
  Holes,        \* path parameters, like {argument}
  RawRequests,  \* what a Request is made of: its first line and the others
  PathValues,   \* values that a client gives to path parameters,
  QueryKeys,    \* keys and
  QueryValues,  \* values that it gives to query parameters
  MaxQuery,     \* bound on the number of query parameters
  MaxLen,       \* bound on the length of a body
  Unsized,      \* a JsonBody that is not a string, which has no size
  None

Slash == "/"
Space == " "
CR == "\r"
Digits == <<"0", "1", "2", "3", "4", "5", "6", "7", "8", "9">>

\* The keys content-length and user-agent, in lower case.
LengthKey == <<"c", "l">>
AgentKey == <<"u", "a">>

IsText(s) == s \in Seq(Chars)

\* enum class Method
MethodOrder == <<"None", "Get", "Post", "Put", "Patch", "Delete", "Head",
                 "Options", "Connect", "Trace">>

\* Mutant: the names in the order of method_from_string().
NamesAsInMap == <<"NONE", "GET", "POST", "PUT", "DELETE", "PATCH", "HEAD",
                  "OPTIONS", "CONNECT", "TRACE">>

\* The names by which to_string() writes the enumerators, by their number.
MethodNames == <<"NONE", "GET", "POST", "PUT", "PATCH", "DELETE", "HEAD",
                 "OPTIONS", "CONNECT", "TRACE">>

\* What is written besides what was read or given.
Symbols == ToSet(LengthKey) \cup ToSet(AgentKey) \cup ToSet(Digits) \cup
           ToSet(MethodNames) \cup
           {Slash, Space, CR, "?", "&", "=", ":", "U", "A", "C", "L", "o", "HTTP/1.1"}

\* Any text may come over the wire, and a client may give any.
ASSUME RequestAssumption ==
  /\ Symbols \subseteq Chars
  /\ \A raw \in RawRequests : IsText(raw.line) /\ raw.lines \in Seq(Seq(Chars))
  /\ \A v \in PathValues \cup QueryKeys \cup QueryValues : IsText(v)
  /\ MaxLen \in 0 .. 9 /\ MaxQuery \in Nat

VARIABLES
  made,         \* "sound", or the constructor has "thrown", or it has read a
                \* part that is not there, and what it does is "undefined"
  method,       \* method_
  path,         \* path_
  query,        \* query_params_: a function from keys to values
  params,       \* path_params_
  headers,      \* headers_: from keys in lower case to values
  body,         \* the size of body_, or Unsized, or None
  plain,        \* the target had no query
  wire          \* what prepare_request() returned, if nothing changed since

vars == <<made, method, path, query, params, headers, body, plain, wire>>

-----------------------------------------------------------------------------
(* utils.hpp: split_string(), split_string_limit() and format_path().      *)

\* A delimiter begins a new token; any other character belongs to the last one.
Extend(tokens, c, delim) ==
  IF c = delim THEN Append(tokens, <<>>)
  ELSE [tokens EXCEPT ![Len(tokens)] = Append(@, c)]

\* The tokens that std::getline finds in the first characters of s.
Reading(s, delim) ==
  LET read[k \in 0 .. Len(s)] ==
        IF k = 0 THEN << <<>> >> ELSE Extend(read[k - 1], s[k], delim)
  IN read

Tokens(s, delim) == Reading(s, delim)[Len(s)]

NotEmpty(parts) ==
  FlattenSeq([k \in DOMAIN parts |-> IF parts[k] = <<>> THEN <<>> ELSE <<parts[k]>>])

Split(s, delim) == NotEmpty(Tokens(s, delim))

\* Empty tokens count, although they are left out.
SplitLimit(s, delim, limit) ==
  LET tokens == Tokens(s, delim)
  IN NotEmpty(SubSeq(tokens, 1, IF limit < Len(tokens) THEN limit ELSE Len(tokens)))

\* Mutant: the parts are concatenated.
Concatenate(parts, delim) == FlattenSeq(parts)

\* std::accumulate of parts of which none is empty.
Join(parts, delim) ==
  FlattenSeq([k \in DOMAIN parts |->
                IF k = 1 THEN parts[k] ELSE <<delim>> \o parts[k]])

FormatPath(s) == Join(Split(s, Slash), Slash)

\* std::string::find from a position that is counted from 0; -1 is npos.
Find(s, c, from) ==
  LET found == {k \in from + 1 .. Len(s) : s[k] = c}
  IN IF found = {} THEN -1 ELSE Min(found) - 1

-----------------------------------------------------------------------------
(* types.hpp and utils.hpp: the methods.                                   *)

MethodOr(s, other) ==
  CASE s = "GET"    -> "Get"     [] s = "POST"    -> "Post"
    [] s = "PUT"    -> "Put"     [] s = "DELETE"  -> "Delete"
    [] s = "PATCH"  -> "Patch"   [] s = "HEAD"    -> "Head"
    [] s = "OPTIONS" -> "Options" [] s = "CONNECT" -> "Connect"
    [] s = "TRACE"  -> "Trace"   [] OTHER -> other

\* Mutant: an unknown name is passed on.
MethodOrText(s) == MethodOr(s, s)

MethodFromString(s) == MethodOr(s, "None")

\* Of a text, that is: a name counts as one character.
MethodOf(s) == IF Len(s) = 1 THEN MethodFromString(s[1]) ELSE "None"

MethodToString(m) == MethodNames[CHOOSE i \in DOMAIN MethodOrder : MethodOrder[i] = m]

-----------------------------------------------------------------------------
(* Parameters and Headers: emplace keeps what is there.                    *)

NoFields == << >>

Assign(f, k, v) == [x \in DOMAIN f \cup {k} |-> IF x = k THEN v ELSE f[x]]
Emplace(f, k, v) == IF k \in DOMAIN f THEN f ELSE Assign(f, k, v)

\* emplace of each of some numbered pairs in turn: the first of a key counts.
EmplaceAll(pairs) ==
  LET with(key) == {k \in DOMAIN pairs : pairs[k][1] = key}
  IN [key \in {pairs[k][1] : k \in DOMAIN pairs} |-> pairs[Min(with(key))][2]]

DigitOf(c) == CHOOSE d \in 0 .. 9 : Digits[d + 1] = c

\* The digits at the beginning of a text.
LeadingDigits(s) ==
  LET others == {k \in DOMAIN s : s[k] \notin ToSet(Digits)}
  IN SubSeq(s, 1, IF others = {} THEN Len(s) ELSE Min(others) - 1)

\* The number that std::stoull() makes of digits, one by one.
Counting(digits) ==
  LET count[k \in 0 .. Len(digits)] ==
        IF k = 0 THEN 0 ELSE 10 * count[k - 1] + DigitOf(digits[k])
  IN count

NumberOf(digits) == Counting(digits)[Len(digits)]

-----------------------------------------------------------------------------
(* The constructor.                                                        *)

\* `key=value' up to the first '=', a key alone has an empty value.
QueryField(s) ==
  LET n == Find(s, "=", 0)
  IN IF n = -1 THEN <<s, <<>>>> ELSE <<SubSeq(s, 1, n), SubSeq(s, n + 2, Len(s))>>

\* parse_query_parameters(): what follows the first '?'.
QueryOf(target) ==
  LET n     == Find(target, "?", 0)
      parts == Split(SubSeq(target, n + 2, Len(target)), "&")
  IN IF n = -1 THEN NoFields
     ELSE EmplaceAll([k \in DOMAIN parts |-> QueryField(parts[k])])

\* Mutant: the path is taken as it is.
TakeRaw(target) ==
  LET n == Find(target, "?", 0) IN IF n > 0 THEN SubSeq(target, 1, n) ELSE target

\* Only a target without a query is formatted.
PathOf(target) ==
  LET n == Find(target, "?", 0)
  IN IF n > 0 THEN SubSeq(target, 1, n) ELSE FormatPath(target)

Lower(c) == CASE c = "A" -> "a" [] c = "C" -> "c" [] c = "L" -> "l" [] c = "U" -> "u"
              [] OTHER -> c

\* init_from_stream(): the key ends at the first ':' after its second
\* character, two more characters are skipped and the last one is dropped.
ColonOf(line) == Find(line, ":", 2)

HeaderField(line) ==
  << [k \in 1 .. ColonOf(line) |-> Lower(line[k])],
     SubSeq(line, ColonOf(line) + 3, Len(line) - 1) >>

\* No line is read after one that begins with the end of a line.
EndsHeader(line) == line # <<>> /\ line[1] = CR

\* substr() throws when it starts behind the end.
TooShort(line) == ColonOf(line) # -1 /\ ColonOf(line) + 2 > Len(line)

Throws(lines) ==
  \E k \in DOMAIN lines : TooShort(lines[k]) /\ \A j \in 1 .. k : ~EndsHeader(lines[j])

\* The lines of a header that does not throw that have a key.
FieldLines(lines) ==
  {k \in DOMAIN lines : /\ ColonOf(lines[k]) # -1
                        /\ \A j \in 1 .. k : ~EndsHeader(lines[j])}

FieldsOf(lines) == EmplaceAll([k \in FieldLines(lines) |-> HeaderField(lines[k])])

TypeOK ==
  /\ made \in {"sound", "thrown", "undefined"} /\ plain \in BOOLEAN
  /\ method \in ToSet(MethodOrder) /\ IsText(path)
  /\ \A f \in {query, headers} : \A k \in DOMAIN f : IsText(k) /\ IsText(f[k])
  /\ DOMAIN params \subseteq Holes /\ \A x \in DOMAIN params : IsText(params[x])
  /\ body \in (0 .. MaxLen) \cup {Unsized, None}
  /\ wire # None => /\ wire.method \in ToSet(MethodNames) /\ IsText(wire.target)
                    /\ wire.lines \in Seq(Seq(Chars))

\* The constructor leaves no request.
Unmade ==
  /\ method = "None" /\ path = <<>> /\ query = NoFields /\ plain = TRUE
  /\ headers = NoFields

\* The constructor ends, with the parts of the first line.
Made(parts, lines) ==
  /\ method = MethodOf(parts[1])
  /\ path = PathOf(parts[2]) /\ query = QueryOf(parts[2])
  /\ plain = (Find(parts[2], "?", 0) = -1)
  /\ headers = FieldsOf(lines)

\* The parts of the first line are used without a look at their number.
Init ==
  /\ \E raw \in RawRequests :
       LET parts == SplitLimit(raw.line, Space, 3) IN
         \/ Len(parts) < 3 /\ made = "undefined" /\ Unmade
         \/ Len(parts) = 3 /\ Throws(raw.lines) /\ made = "thrown" /\ Unmade
         \/ Len(parts) = 3 /\ ~Throws(raw.lines) /\ made = "sound"
              /\ Made(parts, raw.lines)
  /\ params = NoFields /\ body = None /\ wire = None

-----------------------------------------------------------------------------
(* What its user changes before it is written.                             *)

\* path_params().emplace
EmplaceParam(x, v) ==
  /\ params' = Emplace(params, x, v) /\ wire' = None
  /\ UNCHANGED <<made, method, path, query, headers, body, plain>>

SetQuery(f) ==
  /\ query' = f /\ wire' = None
  /\ UNCHANGED <<made, method, path, params, headers, body, plain>>

\* query_params(): emplace, operator[] (a Field cannot be assigned) and erase.
ChangeQuery(k) ==
  \/ \E v \in QueryValues : SetQuery(Emplace(query, k, v))
  \/ SetQuery(Emplace(query, k, <<>>))
  \/ SetQuery([x \in DOMAIN query \ {k} |-> query[x]])

\* body() = ...
SetBody(n) ==
  /\ body' = n /\ wire' = None
  /\ UNCHANGED <<made, method, path, query, params, headers, plain>>

-----------------------------------------------------------------------------
(* prepare_request().                                                      *)

\* path_params_[name] of a name that is not there makes an empty one; what
\* only begins like a parameter has the name of none.
ValueOf(part, ps) ==
  IF part[1] \notin Holes THEN part
  ELSE IF Len(part) = 1 /\ part[1] \in DOMAIN ps THEN ps[part[1]] ELSE <<>>

\* A separator follows each part that does not EQUAL the last one.
WriteParts(parts, ps) ==
  FlattenSeq([k \in DOMAIN parts |->
    ValueOf(parts[k], ps)
      \o (IF parts[k] # Last(parts) THEN <<Slash>> ELSE <<>>)])

\* Without parameters the last character is cut, or the path is formatted.
WritePath(s, ps, cut) ==
  <<Slash>> \o
    (IF DOMAIN ps # {} THEN WriteParts(Split(s, Slash), ps)
     ELSE IF cut THEN SubSeq(s, 1, Len(s) - 1)
     ELSE FormatPath(s))

\* It is cut if it is a '/'; back() of an empty path is undefined, and may
\* be one or not.
Cuts(s) == IF s = <<>> THEN BOOLEAN ELSE {Last(s) = Slash}

\* The parameters in the order of the keys given.
WriteQueryIf(f, keys, separator) ==
  LET text(i) == (IF i = 1 THEN <<>> ELSE separator)
                   \o keys[i] \o <<"=">> \o f[keys[i]]
  IN IF keys = <<>> THEN <<>>
     ELSE <<"?">> \o FlattenSeq([i \in DOMAIN keys |-> text(i)])

\* Mutant: nothing between the parameters.
WriteQueryTogether(f, keys) == WriteQueryIf(f, keys, <<>>)

WriteQuery(f, keys) == WriteQueryIf(f, keys, <<"&">>)

WriteField(k, v, between) == k \o between \o v \o <<CR>>

\* Mutant: no space, although two characters are skipped.
NoSpace(k, v) == WriteField(k, v, <<":">>)

\* HeaderField::as_string() and the end of the line.
AsString(k, v) == WriteField(k, v, <<":", Space>>)

\* The fields in the order of the keys given, the user agent, the length of the
\* body.
WriteLines(keys) ==
     [i \in DOMAIN keys |-> AsString(keys[i], headers[keys[i]])]
  \o (IF AgentKey \in DOMAIN headers THEN <<>>
      ELSE <<WriteField(<<"U", "A">>, <<"o">>, <<":", Space>>)>>)
  \o (IF body = None THEN <<>>
      ELSE <<WriteField(<<"C", "L">>, <<Digits[body + 1]>>, <<":", Space>>)>>)

\* The parameters that the path has and that have no value get an empty one.
Asked == IF DOMAIN params = {} THEN {}
         ELSE {x \in Holes : <<x>> \in ToSet(Split(path, Slash))}

\* An unordered_map yields its elements in any order. A body that has no size
\* throws, when the parameters that were asked for are there.
PrepareRequest ==
  /\ \/ body = Unsized /\ wire' = None
     \/ /\ body # Unsized
        /\ \E keys \in SetToSeqs(DOMAIN query), names \in SetToSeqs(DOMAIN headers),
              cut \in Cuts(path) :
             wire' = [method |-> MethodToString(method), lines |-> WriteLines(names),
                      target |-> WritePath(path, params, cut) \o WriteQuery(query, keys)]
  /\ params' = [x \in DOMAIN params \cup Asked |->
                  IF x \in DOMAIN params THEN params[x] ELSE <<>>]
  /\ UNCHANGED <<made, method, path, query, headers, body, plain>>

Next ==
  /\ made = "sound"
  /\ \/ \E x \in Holes, v \in PathValues : EmplaceParam(x, v)
     \/ \E k \in QueryKeys :
          Cardinality(DOMAIN query \cup {k}) <= MaxQuery /\ ChangeQuery(k)
     \/ \E n \in (0 .. MaxLen) \cup {Unsized, None} : SetBody(n)
     \/ PrepareRequest

Spec == Init /\ [][Next]_vars

-----------------------------------------------------------------------------
(* Properties: what the receiver's constructor makes of a written request. *)

Received ==
  SplitLimit(<<wire.method, Space>> \o wire.target \o <<Space, "HTTP/1.1">>, Space, 3)

\* Nothing is escaped: a space that a client put into a value is written, and
\* parts the line there.
OneTarget == Space \notin ToSet(wire.target)

\* None of some texts has any of some characters.
NoneHas(texts, chars) == \A s \in texts : ToSet(s) \cap chars = {}

ValuesOf(f) == {f[k] : k \in DOMAIN f}

(* The receiver reads the method that was written, whatever the target is: *)
(* the enumeration, the table that reads it and the array that writes it   *)
(* agree, although each is in an order of its own. If there is no space in *)
(* the target, it also finds the three parts that it relies on; with one,  *)
(* there may be two of them (request.cpp:14-24, types.hpp:5-16,            *)
(* utils.hpp:127-145).                                                     *)
ReceiverReadsMethod ==
  wire # None => /\ MethodOf(Received[1]) = method
                 /\ OneTarget => Len(Received) = 3

\* The parts that were meant: the path's, with the values in their places.
Meant ==
  LET parts == Split(path, Slash)
      put(part) == IF DOMAIN params = {} THEN part ELSE ValueOf(part, params)
  IN NotEmpty([k \in DOMAIN parts |-> put(parts[k])])

\* No part but the last one equals the last one.
LastIsUnique(parts) ==
  \A k \in 1 .. Len(parts) - 1 : parts[k] # parts[Len(parts)]

(* The receiver of a written request reads the parts that were meant, with *)
(* and without a query, with four exceptions, for which the code does      *)
(* nothing: a space in the target; a '?' in the path or in a value for it; *)
(* a '/' in such a value, which makes two parts of it; and, if the path    *)
(* has parameters, a part that equals the last one, behind which no        *)
(* separator is written (request.cpp:17-22, 68-87).                        *)
ReceiverReadsPath ==
  /\ wire # None /\ OneTarget
  /\ NoneHas({path}, {"?"}) /\ NoneHas(ValuesOf(params), {"?", Slash})
  /\ DOMAIN params = {} \/ LastIsUnique(Split(path, Slash))
  => Split(PathOf(Received[2]), Slash) = Meant

(* It reads the query parameters that were meant, in whatever order they   *)
(* were written and whether they came from a target, with fields that are  *)
(* empty or come twice, or from a client. The exceptions are a space in    *)
(* the target, a '?' in what is written of the path, a '&' in a key or a   *)
(* value, and a '=' in a key, which is cut there (request.cpp:31-55,       *)
(* 89-97).                                                                 *)
ReceiverReadsQuery ==
  /\ wire # None /\ OneTarget
  /\ NoneHas({path} \cup ValuesOf(params), {"?"})
  /\ NoneHas(DOMAIN query, {"&", "="}) /\ NoneHas(ValuesOf(query), {"&"})
  => QueryOf(Received[2]) = query

(* Every header field that the constructor has read, from lines in good    *)
(* order or not, is read again by the receiver, and nothing is added but   *)
(* the user agent and the length; the receiver of a body reads its length, *)
(* unless the request was made of lines that announced one: that line is   *)
(* written too, before the right one, and the first one counts. Lines of   *)
(* which the constructor throws make no request (headers.cpp:19-35,        *)
(* headers.hpp:65, request.cpp:100-104).                                   *)
ReceiverReadsFields ==
  wire # None => LET received == FieldsOf(wire.lines) IN
    /\ ~Throws(wire.lines)
    /\ \A k \in DOMAIN headers : k \in DOMAIN received /\ received[k] = headers[k]
    /\ DOMAIN received \subseteq DOMAIN headers \cup {AgentKey, LengthKey}
    /\ body # None /\ LengthKey \notin DOMAIN headers =>
         /\ LengthKey \in DOMAIN received
         /\ NumberOf(LeadingDigits(received[LengthKey])) = body

(* A path that came without a query never has an empty part, nor a '/' at  *)
(* its beginning or end: it can be compared with the keys of the router's  *)
(* static_handlers_ (request.cpp:17-22, route_handler.hpp:45, 79). Of one  *)
(* with a query nothing of the kind is said, for it is not formatted.      *)
PlainPathIsKey ==
  plain =>
    /\ path = <<>> \/ (Head(path) # Slash /\ Last(path) # Slash)
    /\ \A k \in 1 .. Len(path) - 1 : ~(path[k] = Slash /\ path[k + 1] = Slash)

=============================================================================
