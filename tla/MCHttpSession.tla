--------------------------- MODULE MCHttpSession ---------------------------
(* Model checking of HttpSession: what the peers may send in each run.      *)
EXTENDS HttpSession, TLC

\* The whole protocol: requests that are refused or that kill the process, alone
\* or after one that is answered, a body with the next request at its heels, so
\* that content_length - buffer->size() can wrap, and a client's peer.
WholeProtocol == {<<"post", "body", "bye">>, <<"get", "chunked">>, <<"bad">>,
                  <<"get", "head", "body">>, <<"get", "odd">>, <<"answer">>}

\* Peers for liveness: a body that may be long in coming or that the next
\* request follows at once, and a client's.
LivePeers == {<<"post", "body", "get">>, <<"answer">>}

\* A peer that announces a body.
ShortScripts == {<<"post", "body">>}

\* The threads of a pool are interchangeable.
ThreadSymmetry == Permutations(IoThreads) \cup Permutations(CpuThreads)

=============================================================================
