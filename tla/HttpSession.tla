---------------------------- MODULE HttpSession ----------------------------
(***************************************************************************)
(* routine::net::HttpSession (source/net/http_session.cpp), with the       *)
(* Acceptor that creates one for each connection.  On the server side it   *)
(* is a chain of asynchronous steps,                                       *)
(*                                                                         *)
(*   read a request (IO thread) -> run its handler (CPU thread)            *)
(*     -> write the response and start the next read (same CPU thread),    *)
(*                                                                         *)
(* on the client side: connect and write one request, then read the        *)
(* response (IO thread) and call back.  A timer closes the socket when the *)
(* peer is silent for too long.  Socket and timer are used by IO and CPU   *)
(* threads with no strand and no lock, so every step below interleaves     *)
(* with those of the other threads.                                        *)
(*                                                                         *)
(* asio is modelled as the source uses it: a completed operation waits     *)
(* until an IO thread picks its handler up; cancel() makes a pending       *)
(* operation complete with operation_aborted (125), but cannot recall a    *)
(* handler that is waiting already, that of a timer included.              *)
(*                                                                         *)
(* The bytes of the peer are a sequence of pieces, each a header with its  *)
(* blank line or a body of the announced Content-Length; the bytes of a    *)
(* response are counted in units of the send buffer's room.                *)
(***************************************************************************)
EXTENDS Integers, Sequences, FiniteSets

CONSTANTS
  Sessions,     \* connections
  IoThreads,    \* threads that run io_context::run()
  CpuThreads,   \* workers of the CPU pool
  Scripts,      \* what a peer may send in the course of a session
  SizeMod,      \* 2^64: sizes are size_t, and subtraction wraps
  Outcomes,     \* what a handler can lead to: a status or "throw"
  Prepared,     \* what prepare_request can do: "return", "throw"
  Sizes,        \* how long responses can be
  Room          \* how much the socket takes before the peer reads

Threads == IoThreads \cup CpuThreads

\* A header of a request by what it asks for: no body, no body and the end of
\* the session, a body, a body for which the handler makes no object (HEAD), a
\* chunked body, a body of a length that is no number, a line without a colon.
\* "answer" is the header of a response, which a client waits for.
Headers == {"get", "bye", "post", "head", "chunked", "odd", "bad", "answer"}

ASSUME SessionAssumption ==
  /\ Sessions # {} /\ SizeMod \in Nat \ {0}
  /\ IoThreads \cap CpuThreads = {}
  /\ Scripts \subseteq Seq(Headers \cup {"body"}) \ {<<>>}
  /\ \A p \in Scripts : Len(p) + 1 < SizeMod
  /\ Outcomes \subseteq {"200", "404", "500", "throw"}
  /\ Prepared \subseteq {"return", "throw"}
  /\ Room \in Nat \ {0} /\ Sizes \subseteq Nat \ {0}

VARIABLES
  conn,         \* each session's socket, timer and peer, and what happened
  tasks,        \* tasks in the CPU pool's queues: <<session, request>>
  th,           \* what each thread is doing, and its locals
  crash         \* why the process died, and in which session

vars == <<conn, tasks, th, crash>>

NoRead == [st |-> "none", hd |-> 0, extra |-> 0]

\* The session is not accepted or connected yet.
NewConn(p) == [
  sock     |-> "new",    \* socket_: new, open, closed
  shut     |-> FALSE,    \* shutdown() has ended both directions of it
  script   |-> p,        \* what the peer sends, if it does not stop
  sent     |-> 0,        \* how many pieces the peer has sent
  peer     |-> "up",     \* up, closed by the peer, reset
  taken    |-> 0,        \* how many pieces have left the receive buffer
  unread   |-> 0,        \* written bytes that the peer has not read
  late     |-> <<>>,     \* writes that wait for room, in a freed string
  rd       |-> NoRead,   \* the async_read_until
  written  |-> FALSE,    \* a client's write handler waits for an IO thread
  armed    |-> FALSE,    \* timeout_timer_ has a pending async_wait
  fired    |-> 0,        \* timer handlers waiting, which will see no error
  replies  |-> <<>>,     \* responses written: [hd, len, how]
  calls    |-> 0,        \* how often a client's callback was called
  eager    |-> FALSE,    \* the peer did not wait for a response
  timedOut |-> FALSE]    \* the timer has fired

IoPcs  == {"read", "body", "parsed"}
CpuPcs == {"process", "send", "write", "rearm", "next"}
Pcs == {"idle", "run", "post", "arm", "close", "cancel", "shut", "down"}
         \cup IoPcs \cup CpuPcs

\* hd: the request in hand, extra: pieces in its streambuf beyond the header,
\* need: body_not_loaded, aux: error, status or reason in hand.
Idle == [pc |-> "idle", s |-> CHOOSE s \in Sessions : TRUE, hd |-> 0,
         extra |-> 0, need |-> 0, aux |-> "none"]

Conns == [
  sock     : {"new", "open", "closed"},
  shut     : BOOLEAN,
  script   : Scripts,
  sent     : Nat,
  peer     : {"up", "closed", "reset"},
  taken    : Nat,
  unread   : 0 .. Room,
  late     : Seq(Nat),
  rd       : [st : {"none", "pending", "ok", "aborted", "error"},
              hd : Nat, extra : Nat],
  written  : BOOLEAN,
  armed    : BOOLEAN,
  fired    : Nat,
  replies  : Seq([hd : Nat, len : Nat, how : {"whole", "part", "stale", "failed"}]),
  calls    : Nat,
  eager    : BOOLEAN,
  timedOut : BOOLEAN]

Locals == [pc : Pcs, s : Sessions, hd : Nat, extra : Nat, need : Nat,
           aux : {"none", "ok", "aborted", "error", "timeout", "bye"}
                   \cup Outcomes]

TypeOK ==
  /\ conn \in [Sessions -> Conns]
  /\ tasks \subseteq Sessions \X Nat
  /\ th \in [Threads -> Locals]
  /\ crash \in [why : {"none", "short_read", "closed_socket", "no_body",
                       "bad_length", "bad_header", "handler", "peer_gone",
                       "not_impl"},
                s : Sessions]

Alive == [why |-> "none", s |-> Idle.s]

Init ==
  /\ conn \in [Sessions -> {NewConn(p) : p \in Scripts}]
  /\ tasks = {}
  /\ th    = [t \in Threads |-> Idle]
  /\ crash = Alive

-----------------------------------------------------------------------------
(* Helpers: what a step makes of a session, a thread and the process.      *)

At(t, p) == th[t].pc = p
Become(t, l) == th' = [th EXCEPT ![t] = l]
Goto(t, p) == Become(t, [th[t] EXCEPT !.pc = p])
GotoWith(t, p, aux) == Become(t, [th[t] EXCEPT !.pc = p, !.aux = aux])
Return(t) == Become(t, Idle)
Enter(t, s, p) == Become(t, [Idle EXCEPT !.pc = p, !.s = s])
EnterWith(t, s, p, aux) ==
  Become(t, [Idle EXCEPT !.pc = p, !.s = s, !.aux = aux])

Update(s, c) == conn' = [conn EXCEPT ![s] = c]
Terminate(why, s) == crash' = [why |-> why, s |-> s]

IsClient(s) == Head(conn[s].script) = "answer"
\* is_open(), which a shutdown() does not change.
Open(s) == conn[s].sock = "open"

\* Nothing more can be written to the connection.
Over(s) == conn[s].sock = "closed" \/ conn[s].shut

\* Nothing more will come: the peer has closed, or a thread has shut it down.
AtEnd(s) == conn[s].peer # "up" \/ conn[s].shut

\* timeout_timer_.cancel(): a handler that is waiting already is not recalled.
CancelTimer(c) == [c EXCEPT !.armed = FALSE]

\* run_timeout_timer(): expires_after() cancels the previous wait.
ArmTimer(c) == [c EXCEPT !.armed = TRUE]

\* A pending read completes with operation_aborted.
Aborted(c) == [c EXCEPT !.rd.st = IF @ = "pending" THEN "aborted" ELSE @]

\* The pieces that wait in the socket's receive buffer.
Wire(s) == conn[s].taken + 1 .. conn[s].sent

Kind(s, k) == conn[s].script[k]
HeadersSent(s) == {k \in 1 .. conn[s].sent : Kind(s, k) \in Headers}

\* content_length - buffer->size(), in size_t arithmetic.
BodyNotLoaded(extra) == (1 - extra) % SizeMod

-----------------------------------------------------------------------------
(* The peer and the operating system.                                      *)

\* The next piece of the script, whether the responses have come or not.  What
\* comes after a shutdown() is thrown away.
PeerSend(s) ==
  LET c == conn[s]
      k == c.sent + 1
      waits == Len(c.replies) = Cardinality(HeadersSent(s)) /\ c.unread = 0
  IN
  /\ Open(s) /\ ~Over(s) /\ c.peer = "up" /\ k <= Len(c.script)
  /\ Update(s, [c EXCEPT !.sent = k,
                         !.eager = @ \/ (Kind(s, k) \in Headers /\ ~waits)])
  /\ UNCHANGED <<tasks, th, crash>>

\* The peer closes, or resets a connection that waits to be accepted.
PeerClose(s) ==
  /\ conn[s].peer = "up" /\ conn[s].sock # "closed"
  /\ Update(s, [conn[s] EXCEPT !.peer = IF Open(s) THEN "closed" ELSE "reset"])
  /\ UNCHANGED <<tasks, th, crash>>

\* The peer reads all or some of what was written to it.
PeerRead(s) ==
  /\ \E n \in 0 .. conn[s].unread - 1 : Update(s, [conn[s] EXCEPT !.unread = n])
  /\ UNCHANGED <<tasks, th, crash>>

\* async_read_until finds a blank line; what came with it is read as well.
\* Stray body bytes before the header are taken for a part of it.
ReadCompletes(s) ==
  /\ conn[s].rd.st = "pending" /\ Open(s)
  /\ \E h \in Wire(s) :
       /\ Kind(s, h) \in Headers
       /\ \A k \in Wire(s) : k < h => Kind(s, k) \notin Headers
       /\ \E e \in 0 .. conn[s].sent - h :
            Update(s, [conn[s] EXCEPT !.rd = [st |-> "ok", hd |-> h, extra |-> e],
                                      !.taken = h + e])
  /\ UNCHANGED <<tasks, th, crash>>

\* The bytes end before a blank line comes.
ReadFails(s) ==
  /\ conn[s].rd.st = "pending" /\ Open(s) /\ AtEnd(s)
  /\ \A k \in Wire(s) : Kind(s, k) \notin Headers
  /\ Update(s, [conn[s] EXCEPT !.rd.st = "error"])
  /\ UNCHANGED <<tasks, th, crash>>

\* There is room for a write that had to wait: it takes what it finds where
\* the string was.
LateWrite(s) ==
  /\ Open(s) /\ ~Over(s) /\ conn[s].late # <<>> /\ conn[s].unread < Room
  /\ Update(s, [conn[s] EXCEPT
       !.late = Tail(@), !.unread = @ + 1,
       !.replies = Append(@, [hd |-> Head(conn[s].late), len |-> 1,
                              how |-> "stale"])])
  /\ UNCHANGED <<tasks, th, crash>>

Expire(s) ==
  /\ conn[s].armed
  /\ Update(s, [CancelTimer(conn[s]) EXCEPT !.fired = @ + 1, !.timedOut = TRUE])
  /\ UNCHANGED <<tasks, th, crash>>

-----------------------------------------------------------------------------
(* What an idle IO thread picks up.                                        *)

\* Acceptor::on_accept: accept the next one, then run_process() on this one;
\* remote_endpoint() of a connection that was reset throws.
Accept(t, s) ==
  /\ At(t, "idle") /\ conn[s].sock = "new" /\ ~IsClient(s)
  /\ Update(s, [conn[s] EXCEPT !.sock = "open"])
  /\ IF conn[s].peer = "reset" THEN Terminate("peer_gone", s) /\ UNCHANGED th
                               ELSE Enter(t, s, "run") /\ UNCHANGED crash
  /\ UNCHANGED tasks

TakeRead(t, s) ==
  /\ At(t, "idle") /\ conn[s].rd.st \in {"ok", "aborted", "error"}
  /\ LET r == conn[s].rd IN
     Become(t, [Idle EXCEPT !.pc = "read", !.s = s, !.hd = r.hd,
                            !.extra = r.extra, !.aux = r.st])
  /\ Update(s, [conn[s] EXCEPT !.rd = NoRead])
  /\ UNCHANGED <<tasks, crash>>

\* The handler of a client's write, which does not look at the error, calls
\* read_response(): no timer has run so far.
TakeWritten(t, s) ==
  /\ At(t, "idle") /\ conn[s].written
  /\ Update(s, [conn[s] EXCEPT !.written = FALSE])
  /\ Enter(t, s, "post")
  /\ UNCHANGED <<tasks, crash>>

\* The timer's handler with no error: close().
TakeTimer(t, s) ==
  /\ At(t, "idle") /\ conn[s].fired > 0
  /\ Update(s, [conn[s] EXCEPT !.fired = @ - 1])
  /\ EnterWith(t, s, "close", "timeout")
  /\ UNCHANGED <<tasks, crash>>

-----------------------------------------------------------------------------
(* run_process() up to the end of do_read_headers().                       *)

\* Cancel the timer; a closed socket ends the session: the callback gets
\* not_connected and is_errors() cancels and closes what is closed already.
Run(t) ==
  LET s == th[t].s IN
  /\ At(t, "run")
  /\ Update(s, CancelTimer(conn[s]))
  /\ IF Open(s) THEN Goto(t, "post") ELSE Return(t)
  /\ UNCHANGED <<tasks, crash>>

\* async_read_until; on a socket closed meanwhile it fails at once.
Post(t) ==
  LET s == th[t].s IN
  /\ At(t, "post")
  /\ Update(s, [conn[s] EXCEPT !.rd =
                   [NoRead EXCEPT !.st = IF Open(s) THEN "pending" ELSE "error"]])
  /\ Goto(t, "arm")
  /\ UNCHANGED <<tasks, crash>>

\* Mutant: nobody watches the read.
ArmNothing(t) == At(t, "arm") /\ Return(t) /\ UNCHANGED <<conn, tasks, crash>>

\* run_timeout_timer(), when the read may be complete already.
Arm(t) ==
  /\ At(t, "arm")
  /\ Update(th[t].s, ArmTimer(conn[th[t].s]))
  /\ Return(t)
  /\ UNCHANGED <<tasks, crash>>

-----------------------------------------------------------------------------
(* The handler of async_read_until, on an IO thread.                       *)

\* What is_errors() leaves to the callback: a server's has nothing to do, a
\* client's is told that there is no response.
Told(s, c) == IF IsClient(s) THEN [c EXCEPT !.calls = @ + 1] ELSE c

\* write() of the body into its object, and the callback of run_process().
BodyRead(t, c) ==
  LET s == th[t].s IN
  /\ Update(s, c)
  /\ IF Kind(s, th[t].hd) = "head"
       THEN Terminate("no_body", s) /\ UNCHANGED th
       ELSE Goto(t, "parsed") /\ UNCHANGED crash

\* is_errors() ignores 125, so an aborted read on a socket that is still open
\* goes on with bytes = 0: bytes - 2 wraps, and the buffer cannot be allocated.
ReadFailed(t) ==
  LET s == th[t].s
      c == CancelTimer(conn[s])
  IN
  /\ At(t, "read") /\ (th[t].aux # "ok" \/ ~Open(s))
  /\ \/ /\ th[t].aux = "error"
        /\ Update(s, c) /\ Goto(t, "close") /\ UNCHANGED crash
     \/ /\ th[t].aux # "error" /\ ~Open(s)
        /\ Update(s, Told(s, c)) /\ Return(t) /\ UNCHANGED crash
     \/ /\ th[t].aux = "aborted" /\ Open(s)
        /\ Update(s, c) /\ Terminate("short_read", s) /\ UNCHANGED th
  /\ UNCHANGED tasks

\* The object is made of the header: of a response, and of a line without a
\* colon, it cannot be made, a chunked body is refused, one with a length is
\* prepared for, then read: what prepare_request() returns is not used.
HeaderRead(t) ==
  LET s == th[t].s
      h == th[t].hd
      c == CancelTimer(conn[s])
      left == BodyNotLoaded(th[t].extra)
  IN
  /\ At(t, "read") /\ th[t].aux = "ok" /\ Open(s)
  /\ \/ /\ Kind(s, h) = "answer"
        /\ Update(s, c) /\ Terminate("not_impl", s) /\ UNCHANGED th
     \/ /\ Kind(s, h) = "bad"
        /\ Update(s, c) /\ Terminate("bad_header", s) /\ UNCHANGED th
     \/ /\ Kind(s, h) = "odd"
        /\ Update(s, c) /\ Terminate("bad_length", s) /\ UNCHANGED th
     \/ /\ Kind(s, h) = "chunked"
        /\ Update(s, c) /\ GotoWith(t, "close", "error") /\ UNCHANGED crash
     \/ /\ Kind(s, h) \in {"get", "bye"}
        /\ Update(s, c) /\ Goto(t, "parsed") /\ UNCHANGED crash
     \/ /\ Kind(s, h) \in {"post", "head"} /\ "throw" \in Prepared
        /\ Update(s, c) /\ Terminate("handler", s) /\ UNCHANGED th
     \/ /\ Kind(s, h) \in {"post", "head"} /\ "return" \in Prepared
        /\ \/ left = 0 /\ BodyRead(t, c)
           \/ /\ left # 0
              /\ Update(s, ArmTimer(c)) /\ UNCHANGED crash
              /\ Become(t, [th[t] EXCEPT !.pc = "body", !.need = left])
  /\ UNCHANGED tasks

\* The blocking asio::read of the rest of the body: it holds the IO thread.
BodyArrives(t) ==
  LET s == th[t].s IN
  /\ At(t, "body") /\ Open(s)
  /\ Cardinality(Wire(s)) >= th[t].need
  /\ BodyRead(t, [CancelTimer(conn[s]) EXCEPT !.taken = @ + th[t].need])
  /\ UNCHANGED tasks

\* The bytes end, or another thread has closed the socket.
BodyEnds(t, pc, aux) ==
  LET s == th[t].s IN
  /\ At(t, "body")
  /\ ~Open(s) \/ (AtEnd(s) /\ Cardinality(Wire(s)) < th[t].need)
  /\ Update(s, CancelTimer(conn[s]))
  /\ EnterWith(t, s, pc, aux)
  /\ UNCHANGED <<tasks, crash>>

\* Mutant: the error of the read is not looked at with is_errors().
BodyFailsSilently(t) == BodyEnds(t, "idle", "none")

BodyFails(t) == BodyEnds(t, "close", "error")

\* The callback of run_process(): is_errors(), then prepare_task().
EnqueueThen(t, pc) ==
  LET s == th[t].s IN
  /\ At(t, "parsed")
  /\ Update(s, CancelTimer(conn[s]))
  /\ tasks' = IF Open(s) THEN tasks \cup {<<s, th[t].hd>>} ELSE tasks
  /\ Enter(t, s, pc)
  /\ UNCHANGED crash

\* Mutant: the next request is read while this one waits in the queue.
EnqueueAndRead(t) == EnqueueThen(t, "run")

Enqueue(t) == EnqueueThen(t, "idle")

-----------------------------------------------------------------------------
(* The task, on a CPU thread.                                              *)

TakeTaskLeaving(t, s, h, rest) ==
  /\ At(t, "idle") /\ <<s, h>> \in tasks
  /\ tasks' = rest
  /\ Become(t, [Idle EXCEPT !.pc = "process", !.s = s, !.hd = h])
  /\ UNCHANGED <<conn, crash>>

\* Mutant: the task stays in the queue.
TakeAndKeep(t, s, h) == TakeTaskLeaving(t, s, h, tasks)

TakeTask(t, s, h) == TakeTaskLeaving(t, s, h, tasks \ {<<s, h>>})

\* route_request() and process_request(): a response, none (500), no handler
\* at all (404), or an exception, which nobody catches.
ProcessWith(t, outcomes) ==
  /\ At(t, "process")
  /\ \E status \in outcomes :
       IF status = "throw"
         THEN Terminate("handler", th[t].s) /\ UNCHANGED th
         ELSE GotoWith(t, "send", status) /\ UNCHANGED crash
  /\ UNCHANGED <<conn, tasks>>

\* Mutant: a null response is passed on instead of a 500.
ProcessPassesNull(t) == ProcessWith(t, Outcomes \cup {"null"})

Process(t) == ProcessWith(t, Outcomes)

\* send_response(): a closed socket gets nothing.
SendIf(t, wanted) ==
  /\ At(t, "send")
  /\ Goto(t, IF Open(th[t].s) /\ wanted THEN "write" ELSE "next")
  /\ UNCHANGED <<conn, tasks, crash>>

\* Mutant: without a callback nothing is sent, as in read_request().
SendNeedsCallback(t) == SendIf(t, th[t].aux = "200")

Send(t) == SendIf(t, TRUE)

\* async_write_some of n bytes: what fits is written at once, and what does not
\* is forgotten; with no room at all, or behind such a write, it has to wait.
WriteSome(c, h, n) ==
  LET free == Room - c.unread IN
  IF c.late # <<>> \/ free = 0 THEN [c EXCEPT !.late = Append(@, h)]
  ELSE [c EXCEPT !.unread = @ + (IF n <= free THEN n ELSE free),
                 !.replies = Append(@, [hd |-> h, len |-> n,
                               how |-> IF n <= free THEN "whole" ELSE "part"])]

\* The first write in line fails if a peer that has closed refuses it.
Refused(c, h, n) ==
  [c EXCEPT !.replies = Append(@, [hd |-> h, len |-> n, how |-> "failed"])]

\* The write fails too if the connection is over since the test of is_open().
\* No error of it is looked at.
Write(t) ==
  LET s == th[t].s
      c == conn[s]
      h == th[t].hd
  IN
  /\ At(t, "write")
  /\ \/ Over(s) /\ UNCHANGED conn
     \/ /\ ~Over(s)
        /\ \E n \in Sizes :
             \/ Update(s, WriteSome(c, h, n))
             \/ c.peer # "up" /\ c.late = <<>> /\ Update(s, Refused(c, h, n))
  /\ Goto(t, "rearm")
  /\ UNCHANGED <<tasks, crash>>

Rearm(t) ==
  /\ At(t, "rearm")
  /\ Update(th[t].s, ArmTimer(conn[th[t].s]))
  /\ Goto(t, "next")
  /\ UNCHANGED <<tasks, crash>>

\* `Connection: close' ends the session, anything else reads the next request.
NextRequest(t) ==
  /\ At(t, "next")
  /\ IF Kind(th[t].s, th[t].hd) = "bye"
       THEN GotoWith(t, "close", "bye")
       ELSE Goto(t, "run")
  /\ UNCHANGED <<conn, tasks, crash>>

\* A task makes a client session and calls send_request(): the constructor
\* connects, and of the request a new connection takes at least the beginning.
Request(t, s) ==
  /\ At(t, "idle") /\ conn[s].sock = "new" /\ conn[s].peer = "up" /\ IsClient(s)
  /\ Update(s, [conn[s] EXCEPT !.sock = "open", !.written = TRUE])
  /\ UNCHANGED <<tasks, th, crash>>

-----------------------------------------------------------------------------
(* close(): four calls on a socket that other threads use as well.         *)

AfterCloseFor(t, c, reasons) ==
  /\ Return(t)
  /\ Update(th[t].s, IF th[t].aux \in reasons THEN Told(th[t].s, CancelTimer(c))
                     ELSE c)

\* Mutant: the timer calls back as well.
AfterCloseTell(t, c) == AfterCloseFor(t, c, {"error", "timeout"})

\* After an error the callback: run_process()'s cancels the timer once more.
AfterClose(t, c) == AfterCloseFor(t, c, {"error"})

CloseTest(t) ==
  LET s == th[t].s IN
  /\ At(t, "close")
  /\ IF Open(s) THEN Goto(t, "cancel") /\ UNCHANGED conn
                ELSE AfterClose(t, conn[s])
  /\ UNCHANGED <<tasks, crash>>

\* Mutant: the socket is closed by a later handler, not by this one.
CancelOnly(t) ==
  /\ At(t, "cancel")
  /\ Update(th[t].s, Aborted(conn[th[t].s]))
  /\ Return(t)
  /\ UNCHANGED <<tasks, crash>>

\* socket_.cancel() aborts the pending read; this overload throws when another
\* thread has closed the socket since the test.
CloseCancel(t) ==
  LET s == th[t].s IN
  /\ At(t, "cancel")
  /\ IF Open(s)
       THEN Update(s, Aborted(conn[s])) /\ Goto(t, "shut") /\ UNCHANGED crash
       ELSE Terminate("closed_socket", s) /\ UNCHANGED <<conn, th>>
  /\ UNCHANGED tasks

\* shutdown(): who reads gets what has come, then the end.  Its error, and that
\* of close(), are not looked at: another thread may have closed the socket.
CloseDown(t) ==
  LET s == th[t].s IN
  /\ At(t, "shut")
  /\ Update(s, [conn[s] EXCEPT !.shut = @ \/ Open(s)])
  /\ Goto(t, "down")
  /\ UNCHANGED <<tasks, crash>>

CloseShut(t) ==
  /\ At(t, "down")
  /\ AfterClose(t, [Aborted(conn[th[t].s]) EXCEPT !.sock = "closed"])
  /\ UNCHANGED <<tasks, crash>>

-----------------------------------------------------------------------------

IoStep(t) ==
  \/ \E s \in Sessions : \/ Accept(t, s) \/ TakeRead(t, s)
                         \/ TakeWritten(t, s) \/ TakeTimer(t, s)
  \/ ReadFailed(t) \/ HeaderRead(t)
  \/ BodyArrives(t) \/ BodyFails(t) \/ Enqueue(t)

CpuStep(t) ==
  \/ \E j \in tasks : TakeTask(t, j[1], j[2])
  \/ Process(t) \/ Send(t) \/ Write(t) \/ Rearm(t) \/ NextRequest(t)

\* Code that both kinds of thread execute.
CommonStep(t) ==
  \/ Run(t) \/ Post(t) \/ Arm(t)
  \/ CloseTest(t) \/ CloseCancel(t) \/ CloseDown(t) \/ CloseShut(t)

Environment(s) ==
  \/ PeerSend(s) \/ PeerClose(s) \/ PeerRead(s)
  \/ \E t \in CpuThreads : Request(t, s)

Asio(s) == ReadCompletes(s) \/ ReadFails(s) \/ LateWrite(s)

Running == crash = Alive

Next ==
  /\ Running
  /\ \/ \E s \in Sessions : Environment(s) \/ Asio(s) \/ Expire(s)
     \/ \E t \in IoThreads : IoStep(t)
     \/ \E t \in CpuThreads : CpuStep(t)
     \/ \E t \in Threads : CommonStep(t)

Spec == Init /\ [][Next]_vars

(***************************************************************************)
(* Fairness: every thread that can run does, a completed operation is      *)
(* reported, and time passes.  Peers owe nothing, and no task has to       *)
(* become a client.                                                        *)
(***************************************************************************)
Fairness ==
  /\ \A s \in Sessions : /\ WF_vars(Running /\ Asio(s))
                         /\ WF_vars(Running /\ Expire(s))
  /\ \A t \in IoThreads : WF_vars(Running /\ (IoStep(t) \/ CommonStep(t)))
  /\ \A t \in CpuThreads : WF_vars(Running /\ (CpuStep(t) \/ CommonStep(t)))

FairSpec == Spec /\ Fairness

-----------------------------------------------------------------------------
(* Safety.                                                                 *)

\* The threads that carry session s forward.  One that only has the timer
\* left to arm, or that closes on a timeout, does not.
Carriers(s) ==
  {t \in Threads : /\ th[t].s = s
                   /\ th[t].pc \notin {"idle", "arm"}
                   /\ th[t].aux # "timeout"}

\* Everything that will carry session s forward.
Chain(s) ==
       {<<"thread", t>> : t \in Carriers(s)}
  \cup {<<"task", j>> : j \in {j \in tasks : j[1] = s}}
  \cup {<<"read", st>> : st \in {conn[s].rd.st} \ {"none"}}
  \cup {<<"written", s>> : w \in {conn[s].written} \ {FALSE}}

(* A session is one chain of steps although its steps run on threads of    *)
(* two pools: there are never two reads on one socket, nor a read while a  *)
(* request of the session is in a queue or being processed, or while a     *)
(* client's request is being written (http_session.cpp:42-72, 151-155).    *)
OneChain == \A s \in Sessions : \A x, y \in Chain(s) : x = y

(* No path through the handlers forgets an open socket: while the process  *)
(* runs and the session is open, something will read from it, process its  *)
(* request or close it (http_session.cpp:44-71, 183-213, 257-272).         *)
Attended == \A s \in Sessions : Running /\ Open(s) => Chain(s) # {}

HasReply(s, h) == \E k \in DOMAIN conn[s].replies : conn[s].replies[k].hd = h

\* Request h has been read to its end.
Complete(s, h) ==
  /\ h <= conn[s].taken
  /\ \/ Kind(s, h) \in {"get", "bye"}
     \/ Kind(s, h) = "post" /\ h + 1 <= conn[s].taken

\* The timer has not fired, and the peer has sent no request before it had the
\* response to the one before.
Patient(s) == ~conn[s].timedOut /\ ~conn[s].eager

(* A session ends with a response attempted for every request that it has  *)
(* read completely, whatever the status and also when the peer has closed  *)
(* its side meanwhile, with two exceptions: its timer has fired, or the    *)
(* peer sends ahead.  Of two requests that arrive together the second is   *)
(* lost with the buffer of the first, its bytes read as the body of the    *)
(* first or not at all (http_session.cpp:48-63, 118-136, 180, 194, 255).   *)
PatientPeersAreAnswered ==
  \A s \in Sessions :
    Patient(s) /\ conn[s].sock = "closed" /\ Chain(s) = {} =>
      \A h \in 1 .. Len(conn[s].script) : Complete(s, h) => HasReply(s, h)

(* A peer that reads each response before it sends the next request gets   *)
(* every response whole that fits what a socket takes at once, unless it   *)
(* has closed: only what is longer is cut, although async_write_some may   *)
(* write a part of it and nobody writes the rest, and nothing is written   *)
(* late, from a string that is gone (http_session.cpp:129-134).            *)
FittingAnswersAreWhole ==
  \A s \in Sessions : ~conn[s].eager =>
    /\ conn[s].late = <<>>
    /\ \A k \in DOMAIN conn[s].replies : LET r == conn[s].replies[k] IN
         \/ r.how = "whole"
         \/ r.how = "part" /\ r.len > Room
         \/ r.how = "failed" /\ conn[s].peer # "up"

\* Session s waits for bytes, in the asynchronous read or in the blocking one.
Waiting(s) ==
  \/ conn[s].rd.st = "pending"
  \/ \E t \in Threads : th[t].s = s /\ th[t].pc = "body"

\* The timer will close s, or is about to.
Watched(s) ==
  \/ conn[s].armed \/ conn[s].fired > 0
  \/ \E t \in Threads : th[t].s = s /\ th[t].aux = "timeout"

(* Whenever the session waits for its peer, in the asynchronous read or in *)
(* the blocking one, its timer is running, although every step cancels and *)
(* re-arms the one timer and the arming may come late, from a thread that  *)
(* the session has left behind (http_session.cpp:100-108, 214, 263).       *)
WaitingIsWatched ==
  \A s \in Sessions :
    /\ Running /\ Open(s)
    /\ \A t \in Threads : th[t].s = s => th[t].pc # "arm"
    /\ Waiting(s)
    => Watched(s)

(* While a request waits, is processed or is being answered, nothing but a *)
(* timeout shuts its socket down or closes it: the response is lost only   *)
(* to a timer that fired before it could be cancelled, or that was armed   *)
(* late (http_session.cpp:44-46, 94-95, 100-104, 120-130).                 *)
OnlyTimeoutInterrupts ==
  \A s \in Sessions :
    /\ Over(s)
    /\ \/ \E j \in tasks : j[1] = s
       \/ \E t \in CpuThreads :
            th[t].s = s /\ th[t].pc \in {"process", "send", "write"}
    => conn[s].timedOut

(* The races that kill the process, an aborted read taken for a complete   *)
(* one and a cancel() on a socket another thread has closed, need a        *)
(* timeout: without one, IO and CPU threads never use a session's socket   *)
(* at the same time.  The first also needs another IO thread, between the  *)
(* cancel() and the close() of the same socket: with the single IO thread  *)
(* of the example it never happens (http_session.cpp:83-95, 109-115, 190). *)
CrashNeedsTimeout ==
  /\ crash.why \in {"short_read", "closed_socket"} => conn[crash.s].timedOut
  /\ crash.why = "short_read" =>
       \E t, u \in IoThreads :
         /\ t # u /\ th[t].s = crash.s /\ th[u].s = crash.s
         /\ th[t].pc = "read"
         /\ th[u].pc \in {"shut", "down"} /\ th[u].aux = "timeout"

(* A client's callback is called at most once, and when it has been called *)
(* the session is over: its socket is closed and nothing will use it       *)
(* (http_session.cpp:138-163, 185-188).                                    *)
CalledOnceAtTheEnd ==
  \A s \in Sessions :
    /\ conn[s].calls <= 1
    /\ conn[s].calls = 1 => conn[s].sock = "closed" /\ Chain(s) = {}

-----------------------------------------------------------------------------
(* What a session promises: Exchange.                                      *)

\* The requests of s that have been read and await their response.
InHand(s) ==
       {j[2] : j \in {j \in tasks : j[1] = s}}
  \cup {th[t].hd : t \in {t \in Threads :
                      /\ th[t].s = s
                      /\ th[t].pc \in {"parsed", "process", "send", "write"}}}

\* The requests answered on s, in the order of their responses.
Answered(s) == [k \in DOMAIN conn[s].replies |-> conn[s].replies[k].hd]

EX(s) == INSTANCE Exchange WITH
           hand     <- InHand(s),
           answered <- Answered(s) \o conn[s].late,
           over     <- Over(s)

(* However its threads interleave, a session takes one request at a time,  *)
(* in order, answers the one it has once and gives one up only when its    *)
(* connection is over (http_session.cpp:42-72, 118-136).                   *)
ExchangeSpec ==
  /\ \A s \in Sessions : EX(s)!Init
  /\ [][\A s \in Sessions : [EX(s)!Next]_(EX(s)!vars)]_vars

-----------------------------------------------------------------------------
(* Liveness.                                                               *)

(* Whatever the peer does, and above all if it does nothing, its session   *)
(* ends, provided that an IO thread is left to run the timer's handler     *)
(* while another blocks in the read of a body: a server's closes its       *)
(* socket, a client's calls back (http_session.cpp:100-104, 154-163, 263). *)
SessionsEnd ==
  \A s \in Sessions :
    IF IsClient(s) THEN Open(s) ~> (conn[s].calls = 1 \/ ~Running)
                   ELSE <>(conn[s].sock = "closed" \/ ~Running)

-----------------------------------------------------------------------------
(* What the example and the comments of RequestHandler say.                *)

(* "set_io_timeout(2000); // 5000 milliseconds as default value"           *)
(* (example1.cpp:100) and "run 1 IO thread" (readme.md:73): no session     *)
(* waits for the bytes of its peer for ever.                               *)
IoTimeout == \A s \in Sessions : Waiting(s) ~> (~Waiting(s) \/ ~Running)

=============================================================================
