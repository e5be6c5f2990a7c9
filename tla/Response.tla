------------------------------ MODULE Response ------------------------------
(***************************************************************************)
(* routine::http::Response, the Headers it holds and the body it sends     *)
(* (source/http/response.cpp, headers.cpp, body_storage.cpp): what a       *)
(* handler does to a response before and between the calls of              *)
(* prepare_response(), and what the receiver reads.                        *)
(*                                                                         *)
(* Headers is a set of fields of which no two have the same key, here a    *)
(* function from keys to values.  A value is a pair: where it comes from   *)
(* and a number (a length, a time, or which of the handler's values).      *)
(***************************************************************************)
EXTENDS Naturals

CONSTANTS
  OwnKeys,      \* the keys a handler uses, as it writes them
  OwnValues,    \* the values a handler gives
  LowerCase,    \* OwnKeys -> the key as init_from_stream() stores it
  MaxLen,       \* bound on the length of a body
  MaxTime,      \* bound on the clock
  None

Own == {"own"} \X OwnValues

ASSUME ResponseAssumption ==
  /\ LowerCase \in [OwnKeys -> STRING]
  /\ OwnKeys \subseteq STRING /\ OwnValues \subseteq Nat
  /\ MaxLen \in Nat /\ MaxTime \in Nat

VARIABLES
  headers,      \* headers_ of the response
  body,         \* body_: its kind, length, and whether it holds a text
  now,          \* the clock, as get_current_http_date() formats it
  sent,         \* what the last prepare_response() returned
  thrown        \* the last prepare_response() threw

vars == <<headers, body, now, sent, thrown>>

Defaults == {"server", "date", "content-type", "content-length"}
Keys == OwnKeys \cup Defaults

Bodies == [kind : {"none", "memory", "json"}, len : 0 .. MaxLen, text : BOOLEAN]

TypeOK ==
  /\ DOMAIN headers \subseteq Keys
  /\ \A k \in DOMAIN headers : headers[k] \in
       Own \cup ({"size"} \X (0 .. MaxLen)) \cup ({"time"} \X (0 .. MaxTime))
           \cup {<<"default", 0>>}
  /\ body \in Bodies
  /\ now \in 0 .. MaxTime
  /\ sent # None => sent.len \in 0 .. MaxLen
  /\ thrown \in BOOLEAN

NoBody == [kind |-> "none", len |-> 0, text |-> TRUE]

-----------------------------------------------------------------------------
(* Headers.                                                                *)

Contains(h, k) == k \in DOMAIN h

\* operator[] on a field that may be new, and the assignment of its value.
SetField(h, k, v) ==
  [x \in DOMAIN h \cup {k} |-> IF x = k THEN v ELSE h[x]]

\* insert(): emplace does nothing if the key is there already.
Insert(h, k, v) == IF Contains(h, k) THEN h ELSE SetField(h, k, v)

\* The values init_from_stream() can store for the lower-case key k: the first
\* line wins, and lines come in the order of an unordered_set.
Lower(k) == IF k \in OwnKeys THEN LowerCase[k] ELSE k
Received(h, k) == {h[j] : j \in {j \in DOMAIN h : Lower(j) = k}}

Init ==
  /\ headers = << >>
  /\ body \in {NoBody,
               [kind |-> "memory", len |-> 0, text |-> TRUE],
               [kind |-> "json", len |-> 0, text |-> FALSE]}
  /\ now = 0
  /\ sent = None
  /\ thrown = FALSE

-----------------------------------------------------------------------------
(* The handler.                                                            *)

HandlerInsert(k, v) ==
  /\ headers' = Insert(headers, k, v)
  /\ UNCHANGED <<body, now, sent, thrown>>

HandlerAssign(k, v) ==
  /\ headers' = SetField(headers, k, v)
  /\ UNCHANGED <<body, now, sent, thrown>>

HandlerClear ==
  /\ headers' = << >>
  /\ UNCHANGED <<body, now, sent, thrown>>

\* MemoryBody::write appends.
WriteMemory(n) ==
  /\ body.kind = "memory" /\ body.len + n <= MaxLen
  /\ body' = [body EXCEPT !.len = @ + n]
  /\ UNCHANGED <<headers, now, sent, thrown>>

\* MemoryBody::operator= replaces.
AssignMemory(n) ==
  /\ body.kind = "memory" /\ n <= MaxLen
  /\ body' = [body EXCEPT !.len = n]
  /\ UNCHANGED <<headers, now, sent, thrown>>

\* JsonBody::write and operator= replace the value; text that does not parse
\* leaves it, and a value that is no string has no size.
WriteJson(n, isText) ==
  /\ body.kind = "json" /\ n <= MaxLen
  /\ body' = [body EXCEPT !.len = n, !.text = isText]
  /\ UNCHANGED <<headers, now, sent, thrown>>

Tick ==
  /\ now < MaxTime
  /\ now' = now + 1
  /\ UNCHANGED <<headers, body, sent, thrown>>

-----------------------------------------------------------------------------
(* prepare_response().                                                     *)

\* The fields it supplies before the length.
WithDefaults(h) ==
  LET h1 == Insert(h, "server", <<"default", 0>>)
      h2 == Insert(h1, "date", <<"time", now>>)
  IN IF body.kind = "none" THEN h2
     ELSE Insert(h2, "content-type", <<"default", 0>>)

\* Mutant: the length is inserted like the other fields.
InsertLength ==
  /\ body.text
  /\ headers' = Insert(WithDefaults(headers), "content-length",
                       <<"size", body.len>>)
  /\ sent' = [headers |-> headers', len |-> body.len]
  /\ thrown' = FALSE
  /\ UNCHANGED <<body, now>>

\* Mutant: server is assigned, not inserted.
OverwriteServer ==
  /\ body.text
  /\ headers' = SetField(SetField(WithDefaults(headers), "server",
                                  <<"default", 0>>),
                         "content-length", <<"size", body.len>>)
  /\ sent' = [headers |-> headers', len |-> body.len]
  /\ thrown' = FALSE
  /\ UNCHANGED <<body, now>>

\* Mutant: the length is not a number of this body.
UnsetLength ==
  /\ body.text
  /\ headers' = SetField(WithDefaults(headers), "content-length", None)
  /\ sent' = [headers |-> headers', len |-> body.len]
  /\ thrown' = FALSE
  /\ UNCHANGED <<body, now>>

Prepare ==
  /\ body.text
  /\ headers' = SetField(WithDefaults(headers), "content-length",
                         <<"size", body.len>>)
  /\ sent' = [headers |-> headers', len |-> body.len]
  /\ thrown' = FALSE
  /\ UNCHANGED <<body, now>>

\* JsonBody::size() of a value that is no string throws, after the defaults.
PrepareThrows ==
  /\ ~body.text
  /\ headers' = WithDefaults(headers)
  /\ thrown' = TRUE
  /\ UNCHANGED <<body, now, sent>>

Next ==
  \/ \E k \in OwnKeys, v \in Own : HandlerInsert(k, v) \/ HandlerAssign(k, v)
  \/ HandlerClear
  \/ \E n \in 0 .. MaxLen :
       \/ WriteMemory(n) \/ AssignMemory(n)
       \/ \E t \in BOOLEAN : WriteJson(n, t)
  \/ Tick \/ Prepare \/ PrepareThrows

Spec == Init /\ [][Next]_vars

-----------------------------------------------------------------------------
(* Properties.                                                             *)

(* Whatever the handler did to headers and body, between two uses of one   *)
(* response as well, the receiver reads the length of the body that was    *)
(* sent, and no other (response.cpp:50, headers.cpp:19-35).                *)
ReceiverReadsLength ==
  sent # None =>
    Received(sent.headers, "content-length") = {<<"size", sent.len>>}

(* prepare_response() takes back nothing that the handler has set, except  *)
(* for the length, and not even when it fails half-way                     *)
(* (response.cpp:42-50).                                                   *)
PrepareKeepsFields ==
  [][Prepare \/ PrepareThrows =>
       \A k \in DOMAIN headers \ {"content-length"} :
         k \in DOMAIN headers' /\ headers'[k] = headers[k]]_vars

=============================================================================
