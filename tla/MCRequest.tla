----------------------------- MODULE MCRequest -----------------------------
(* Model checking of Request: the requests that come over the wire.         *)
EXTENDS Request

Letters == Symbols \cup {"{x}", "b", "h", "get"}

TextsOf(chars, n) == UNION {[1 .. m -> chars] : m \in 0 .. n}

\* Every short path, by itself and with a query, and targets without a '/'.
Paths == {<<Slash>> \o s : s \in TextsOf({"a", "{x}", Slash}, 4)}
Queries == {<<"?">> \o q : q \in TextsOf({"a", "=", "&", "?"}, 4)}
Targets == Paths \cup {<<Slash, "a">> \o q : q \in Queries}
                 \cup {p \o <<"?", "a">> : p \in Paths}
                 \cup {<<"a">>, <<"?", "a">>, <<"a", "?">>}

LineOf(name, target) == <<name, Space>> \o target \o <<Space, "HTTP/1.1">>

\* Lines of too few parts, of an empty one that counts, and of too many.
OddLines == TextsOf({"GET", Space, Slash}, 4) \cup
            {LineOf("GET", <<Slash, Space, "a">>), LineOf("GET", <<Space, Slash>>)}

Host == <<"h", "o", ":", Space, "a", CR>>

\* In order; without a space, a value, the end of the line; with a colon too
\* early, too many or none; announcing a length; and the end of all lines.
Lines == {Host,
          <<"h", "o", ":", "b", CR>>, <<"A", "b", ":", CR>>, <<"a", "b", ":">>,
          <<"a", ":", Space, "b", CR>>, <<"a", ":", "b", ":", Space, "b", CR>>,
          <<"a", "b", CR>>, <<>>, <<"C", "L", ":", Space, "1", CR>>,
          <<"u", "a", ":", Space, CR>>, <<CR>>}

AllTargets == [line : {LineOf("GET", t) : t \in Targets}, lines : {<<Host>>}]
AllMethods == [line : {LineOf(m, <<Slash, "a">>) : m \in ToSet(MethodNames) \cup {"get"}}
                        \cup OddLines,
               lines : {<<>>}]
AllLines == [line : {LineOf("POST", <<Slash, "a">>)}, lines : Lines \X Lines]

Messages == AllTargets \cup AllMethods \cup AllLines

\* What a client gives, with the characters that are not escaped.
Values == {<<>>, <<"a">>, <<"a", Slash, "b">>, <<Space, "?">>}
Keys == {<<"a">>, <<"=", "&">>}
FieldValues == {<<"b">>, <<"=", "?">>, <<"&", Space>>}

=============================================================================
