--------------------------- MODULE ResponseProofs ---------------------------
(***************************************************************************)
(* Proofs about Response, for every set of keys and values of a handler    *)
(* and every order of its calls: the receiver reads the length of the body *)
(* that was sent, and prepare_response() keeps what the handler has set.   *)
(*                                                                         *)
(* The second needs nothing of the handler.  The first needs that it       *)
(* writes no Content-Length in another case: Headers keeps that as a       *)
(* second field, and in lower case the receiver may meet it first.         *)
(***************************************************************************)
EXTENDS Response, TLAPS

\* The handler writes content-length as prepare_response() does, if at all.
NoOtherCase ==
  \A k \in OwnKeys : LowerCase[k] = "content-length" <=> k = "content-length"

\* What was sent announces the length of the body that went with it.
SentWhole ==
  sent # None => /\ "content-length" \in DOMAIN sent.headers
                 /\ sent.headers["content-length"] = <<"size", sent.len>>

-----------------------------------------------------------------------------
(* Facts about operator[] and insert() of Headers.                         *)

\* operator[] adds the key it is called with, and no other.
LEMMA FieldSet ==
  ASSUME NEW h, NEW k, NEW v
  PROVE  DOMAIN SetField(h, k, v) = DOMAIN h \cup {k}
  BY DEF SetField

\* Neither takes back another field, and insert() not even the same one.
LEMMA OthersStay ==
  ASSUME NEW h, NEW k, NEW v, NEW x \in DOMAIN h
  PROVE  /\ x # k => SetField(h, k, v)[x] = h[x]
         /\ Insert(h, k, v)[x] = h[x]
  BY DEF SetField, Insert, Contains

\* insert() of a key that is new stores the value.
LEMMA FieldInserted ==
  ASSUME NEW h, NEW k, NEW v
  PROVE  /\ DOMAIN Insert(h, k, v) = DOMAIN h \cup {k}
         /\ k \notin DOMAIN h => Insert(h, k, v)[k] = v
  BY DEF Insert, SetField, Contains

\* The defaults are added to the fields, and change none of them.
LEMMA DefaultsKeep ==
  ASSUME NEW h
  PROVE  /\ DOMAIN h \subseteq DOMAIN WithDefaults(h)
         /\ DOMAIN WithDefaults(h) \subseteq DOMAIN h \cup Defaults
         /\ \A x \in DOMAIN h : WithDefaults(h)[x] = h[x]
         /\ \A x \in DOMAIN WithDefaults(h) \ DOMAIN h :
              WithDefaults(h)[x] \in {<<"default", 0>>, <<"time", now>>}
<1> DEFINE h1 == Insert(h, "server", <<"default", 0>>)
           h2 == Insert(h1, "date", <<"time", now>>)
           h3 == Insert(h2, "content-type", <<"default", 0>>)
<1>1. /\ DOMAIN h1 = DOMAIN h \cup {"server"}
      /\ "server" \notin DOMAIN h => h1["server"] = <<"default", 0>>
      /\ \A x \in DOMAIN h : h1[x] = h[x]
  <2>1. DOMAIN h1 = DOMAIN h \cup {"server"}
    BY FieldInserted
  <2>2. "server" \notin DOMAIN h => h1["server"] = <<"default", 0>>
    BY FieldInserted
  <2>3. ASSUME NEW x \in DOMAIN h PROVE h1[x] = h[x]
    BY OthersStay
  <2> QED BY <2>1, <2>2, <2>3
<1>2. /\ DOMAIN h2 = DOMAIN h1 \cup {"date"}
      /\ "date" \notin DOMAIN h1 => h2["date"] = <<"time", now>>
      /\ \A x \in DOMAIN h1 : h2[x] = h1[x]
  <2> HIDE DEF h1
  <2>1. DOMAIN h2 = DOMAIN h1 \cup {"date"}
    BY FieldInserted
  <2>2. "date" \notin DOMAIN h1 => h2["date"] = <<"time", now>>
    BY FieldInserted
  <2>3. ASSUME NEW x \in DOMAIN h1 PROVE h2[x] = h1[x]
    BY OthersStay
  <2> QED BY <2>1, <2>2, <2>3
<1>3. /\ DOMAIN h3 = DOMAIN h2 \cup {"content-type"}
      /\ "content-type" \notin DOMAIN h2 => h3["content-type"] = <<"default", 0>>
      /\ \A x \in DOMAIN h2 : h3[x] = h2[x]
  <2> HIDE DEF h2
  <2>1. DOMAIN h3 = DOMAIN h2 \cup {"content-type"}
    BY FieldInserted
  <2>2. "content-type" \notin DOMAIN h2 => h3["content-type"] = <<"default", 0>>
    BY FieldInserted
  <2>3. ASSUME NEW x \in DOMAIN h2 PROVE h3[x] = h2[x]
    BY OthersStay
  <2> QED BY <2>1, <2>2, <2>3
<1>4. WithDefaults(h) = IF body.kind = "none" THEN h2 ELSE h3
  BY DEF WithDefaults
<1> HIDE DEF h1, h2, h3
<1> QED BY <1>1, <1>2, <1>3, <1>4 DEF Defaults

-----------------------------------------------------------------------------
(* Types.                                                                  *)

\* Every value that a field can have.
Values == Own \cup ({"size"} \X (0 .. MaxLen)) \cup ({"time"} \X (0 .. MaxTime))
            \cup {<<"default", 0>>}

\* The type of headers_.
Fields(h) == DOMAIN h \subseteq Keys /\ \A k \in DOMAIN h : h[k] \in Values

\* TypeOK, with the type of headers_ named.
LEMMA TypeIs ==
  TypeOK <=> /\ Fields(headers) /\ body \in Bodies /\ now \in 0 .. MaxTime
             /\ (sent # None => sent.len \in 0 .. MaxLen) /\ thrown \in BOOLEAN
  BY DEF TypeOK, Fields, Values

\* Both ways of setting a field keep the type.
LEMMA SetType ==
  ASSUME NEW h, Fields(h), NEW k \in Keys, NEW v \in Values
  PROVE  Fields(SetField(h, k, v)) /\ Fields(Insert(h, k, v))
<1>1. /\ DOMAIN SetField(h, k, v) = DOMAIN h \cup {k}
      /\ SetField(h, k, v)[k] = v
      /\ \A x \in DOMAIN h \ {k} : SetField(h, k, v)[x] = h[x]
  <2>1. ASSUME NEW x \in DOMAIN h \ {k} PROVE SetField(h, k, v)[x] = h[x]
    BY OthersStay
  <2>2. DOMAIN SetField(h, k, v) = DOMAIN h \cup {k}
    BY FieldSet
  <2>3. SetField(h, k, v)[k] = v
    BY DEF SetField
  <2> QED BY <2>1, <2>2, <2>3
<1>2. Fields(SetField(h, k, v))
  BY <1>1 DEF Fields
<1> QED BY <1>2 DEF Insert

\* And so do the defaults.
LEMMA DefaultsType ==
  ASSUME NEW h, Fields(h), now \in 0 .. MaxTime
  PROVE  Fields(WithDefaults(h))
<1>1. <<"default", 0>> \in Values /\ <<"time", now>> \in Values
  BY DEF Values
<1> QED BY <1>1, DefaultsKeep DEF Fields, Keys

\* Every step of the handler and of prepare_response() keeps the types.
LEMMA NextTypes ==
  ASSUME TypeOK, [Next]_vars PROVE TypeOK'
<1>1. /\ Fields(headers) /\ body \in Bodies /\ now \in 0 .. MaxTime
      /\ (sent # None => sent.len \in 0 .. MaxLen) /\ thrown \in BOOLEAN
  BY TypeIs
<1>2. Fields(headers)' /\ body' \in Bodies /\ now' \in 0 .. MaxTime
      /\ (sent' # None => sent'.len \in 0 .. MaxLen) /\ thrown' \in BOOLEAN
  <2>1. ASSUME NEW k \in OwnKeys, NEW v \in Own, HandlerInsert(k, v) \/ HandlerAssign(k, v)
        PROVE  Fields(headers') /\ UNCHANGED <<body, now, sent, thrown>>
    <3>1. k \in Keys /\ v \in Values
      BY DEF Keys, Values
    <3> QED BY <1>1, <2>1, <3>1, SetType DEF HandlerInsert, HandlerAssign
  <2>2. ASSUME HandlerClear
        PROVE  Fields(headers') /\ UNCHANGED <<body, now, sent, thrown>>
    BY <2>2 DEF HandlerClear, Fields
  <2>3. ASSUME NEW n \in 0 .. MaxLen,
               \/ WriteMemory(n) \/ AssignMemory(n)
               \/ \E t \in BOOLEAN : WriteJson(n, t)
        PROVE  body' \in Bodies /\ UNCHANGED <<headers, now, sent, thrown>>
    <3>1. body.len + n \in 0 .. MaxLen \/ ~WriteMemory(n)
      BY <1>1, <2>3, ResponseAssumption DEF WriteMemory, Bodies
    <3>2. \/ body' = [body EXCEPT !.len = body.len + n] /\ body.len + n \in 0 .. MaxLen
          \/ body' = [body EXCEPT !.len = n]
          \/ \E t \in BOOLEAN : body' = [body EXCEPT !.len = n, !.text = t]
      BY <2>3, <3>1 DEF WriteMemory, AssignMemory, WriteJson
    <3>3. body' \in Bodies
      BY <1>1, <3>2 DEF Bodies
    <3> QED BY <2>3, <3>3 DEF WriteMemory, AssignMemory, WriteJson
  <2>4. ASSUME Tick
        PROVE  now' \in 0 .. MaxTime /\ UNCHANGED <<headers, body, sent, thrown>>
    BY <1>1, <2>4, ResponseAssumption DEF Tick
  <2>5. ASSUME Prepare
        PROVE  /\ Fields(headers') /\ sent'.len \in 0 .. MaxLen /\ thrown' = FALSE
               /\ UNCHANGED <<body, now>>
    <3>1. body.len \in 0 .. MaxLen
      BY <1>1 DEF Bodies
    <3>2. "content-length" \in Keys /\ <<"size", body.len>> \in Values
      BY <3>1 DEF Keys, Defaults, Values
    <3>3. Fields(WithDefaults(headers))
      BY <1>1, DefaultsType
    <3>4. Fields(headers')
      BY <2>5, <3>2, <3>3, SetType DEF Prepare
    <3> QED BY <2>5, <3>1, <3>4 DEF Prepare
  <2>6. ASSUME PrepareThrows
        PROVE  Fields(headers') /\ thrown' = TRUE /\ UNCHANGED <<body, now, sent>>
    BY <1>1, <2>6, DefaultsType DEF PrepareThrows
  <2>7. CASE UNCHANGED vars
    BY <1>1, <2>7 DEF vars
  <2> QED BY <1>1, <2>1, <2>2, <2>3, <2>4, <2>5, <2>6, <2>7 DEF Next, Fields
<1> QED BY <1>2, TypeIs DEF TypeOK, Fields, Values

(* Every variable keeps its type: whatever is called in whatever order, a  *)
(* field is a value of the handler or one that prepare_response() has      *)
(* supplied (response.cpp:40-52).                                          *)
THEOREM ResponseTypes == Spec => []TypeOK
<1>1. Init => TypeOK
  <2> SUFFICES ASSUME Init PROVE TypeOK
    OBVIOUS
  <2>1. 0 \in 0 .. MaxLen /\ 0 \in 0 .. MaxTime
    BY ResponseAssumption
  <2>2. body \in Bodies
    <3>1. /\ [kind |-> "none", len |-> 0, text |-> TRUE] \in Bodies
          /\ [kind |-> "memory", len |-> 0, text |-> TRUE] \in Bodies
          /\ [kind |-> "json", len |-> 0, text |-> FALSE] \in Bodies
      BY <2>1 DEF Bodies
    <3> QED BY <3>1 DEF Init, NoBody
  <2>3. DOMAIN headers = {}
    BY DEF Init
  <2>4. now \in 0 .. MaxTime /\ sent = None /\ thrown = FALSE
    BY <2>1 DEF Init
  <2> QED BY <2>2, <2>3, <2>4 DEF TypeOK
<1>2. TypeOK /\ [Next]_vars => TypeOK'
  BY NextTypes
<1> QED BY <1>1, <1>2, PTL DEF Spec

-----------------------------------------------------------------------------
(* What the receiver reads.                                                *)

\* Only prepare_response() changes what was sent, and it sets the length last.
LEMMA NextSent == SentWhole /\ [Next]_vars => SentWhole'
<1> SUFFICES ASSUME SentWhole, [Next]_vars PROVE SentWhole'
  OBVIOUS
<1>1. CASE Prepare
  <2> DEFINE h == SetField(WithDefaults(headers), "content-length", <<"size", body.len>>)
  <2>1. "content-length" \in DOMAIN h /\ h["content-length"] = <<"size", body.len>>
    <3>1. DOMAIN h = DOMAIN WithDefaults(headers) \cup {"content-length"}
      BY FieldSet
    <3>2. h["content-length"] = <<"size", body.len>>
      BY DEF SetField
    <3> HIDE DEF h
    <3> QED BY <3>1, <3>2
  <2>2. sent' = [headers |-> h, len |-> body.len]
    BY <1>1 DEF Prepare
  <2> HIDE DEF h
  <2> QED BY <2>1, <2>2 DEF SentWhole
<1>2. CASE UNCHANGED sent
  BY <1>2 DEF SentWhole
<1>3. Prepare \/ UNCHANGED sent
  BY DEF Next, vars, HandlerInsert, HandlerAssign, HandlerClear, WriteMemory,
     AssignMemory, WriteJson, Tick, PrepareThrows
<1> QED BY <1>1, <1>2, <1>3

(* If the handler does not write Content-Length in another case, the       *)
(* receiver reads the length of the body that was sent, whatever was set,  *)
(* cleared or prepared before (response.cpp:50, headers.cpp:19-35).        *)
THEOREM LengthIsRead == NoOtherCase => (Spec => []ReceiverReadsLength)
<1> SUFFICES ASSUME NoOtherCase PROVE Spec => []ReceiverReadsLength
  OBVIOUS
<1>1. Init => SentWhole
  BY DEF Init, SentWhole
<1>2. ASSUME SentWhole PROVE ReceiverReadsLength
  <2> SUFFICES ASSUME sent # None
               PROVE  Received(sent.headers, "content-length") = {<<"size", sent.len>>}
    BY DEF ReceiverReadsLength
  <2>1. /\ "content-length" \in DOMAIN sent.headers
        /\ sent.headers["content-length"] = <<"size", sent.len>>
    BY <1>2 DEF SentWhole
  <2>2. \A j : Lower(j) = "content-length" <=> j = "content-length"
    BY DEF NoOtherCase, Lower
  <2> QED BY <2>1, <2>2 DEF Received
<1> QED BY <1>1, <1>2, NextSent, PTL DEF Spec

(* prepare_response() takes back no field that the handler has set, but    *)
(* for the length, and not when the body has no size either                *)
(* (response.cpp:42-50).                                                   *)
THEOREM FieldsAreKept == Spec => PrepareKeepsFields
<1>1. ASSUME Prepare \/ PrepareThrows, NEW k \in DOMAIN headers \ {"content-length"}
      PROVE  k \in DOMAIN headers' /\ headers'[k] = headers[k]
  <2>1. k \in DOMAIN WithDefaults(headers) /\ WithDefaults(headers)[k] = headers[k]
    BY DefaultsKeep
  <2>2. CASE Prepare
    <3> DEFINE h == WithDefaults(headers)
               v == <<"size", body.len>>
    <3>1. headers' = SetField(h, "content-length", v)
      BY <2>2 DEF Prepare
    <3> HIDE DEF h, v
    <3>2. /\ DOMAIN headers' = DOMAIN h \cup {"content-length"}
          /\ \A x \in DOMAIN h \ {"content-length"} : headers'[x] = h[x]
      <4> DEFINE g == SetField(h, "content-length", v)
      <4>1. DOMAIN g = DOMAIN h \cup {"content-length"}
        BY FieldSet
      <4>2. ASSUME NEW x \in DOMAIN h \ {"content-length"} PROVE g[x] = h[x]
        BY <4>2, OthersStay
      <4> QED BY <3>1, <4>1, <4>2
    <3> QED BY <2>1, <3>2 DEF h
  <2>3. CASE PrepareThrows
    BY <2>1, <2>3 DEF PrepareThrows
  <2> QED BY <1>1, <2>2, <2>3
<1>2. [Next]_vars => [Prepare \/ PrepareThrows =>
          \A k \in DOMAIN headers \ {"content-length"} :
            k \in DOMAIN headers' /\ headers'[k] = headers[k]]_vars
  BY <1>1
<1> QED BY <1>2, PTL DEF Spec, PrepareKeepsFields
=============================================================================
