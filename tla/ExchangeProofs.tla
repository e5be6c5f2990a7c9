--------------------------- MODULE ExchangeProofs ---------------------------
(***************************************************************************)
(* What a session of HttpSession does with the requests of its peer, for   *)
(* any number of sessions, threads and pieces: it refines Exchange, which  *)
(* takes one request at a time, in order, and answers the one it has; what *)
(* it answers a peer that waits for its turn is whole where it fits; and   *)
(* it drops no request that it has read, unless a timer fires or the peer  *)
(* sends the next one before it has the response.                          *)
(*                                                                         *)
(* Two invariants carry the proofs, both of one session at a time and on   *)
(* top of Inv of HttpSessionProofs.  Ordered relates the request in work   *)
(* to the answers given so far, which needs no assumption on the peer.     *)
(* Settled says what has become of the requests taken from the socket, and *)
(* needs a peer whose bodies are as long as it has announced: WellFramed.  *)
(*                                                                         *)
(* As there, the proof says once what a step makes of the fields and the   *)
(* threads that matter (the ...Calm and ...Fate lemmas), then that this    *)
(* keeps the invariant of its own session, and that it leaves the others   *)
(* alone (the ...Elsewhere lemmas).                                        *)
(***************************************************************************)
EXTENDS HttpSessionProofs, FiniteSetTheorems, SequenceTheorems

\* Thread t has a request in its locals that it has read and not answered.
Works(t) ==
  \/ th[t].pc \in {"body", "parsed", "process", "send", "write"}
  \/ th[t].pc = "read" /\ th[t].aux = "ok"

\* Request h of s has been read, at least its header, and is still to be
\* answered.
InWork(s, h) ==
  \/ conn[s].rd.st = "ok" /\ conn[s].rd.hd = h
  \/ <<s, h>> \in tasks
  \/ \E t \in Threads : th[t].s = s /\ Works(t) /\ th[t].hd = h

\* Request h of s has been answered, if only late.
HasAnswer(s, h) ==
  HasReply(s, h) \/ \E k \in DOMAIN conn[s].late : conn[s].late[k] = h

\* What is answered has been read, and what is in work came after it.
Order(s) ==
  /\ conn[s].taken <= conn[s].sent /\ conn[s].sent <= Len(conn[s].script)
  /\ \A h \in Nat : HasAnswer(s, h) => h <= conn[s].taken
  /\ \A h \in Nat : InWork(s, h) =>
       /\ 0 < h /\ h <= conn[s].taken /\ Kind(s, h) \in Headers
       /\ \A g \in Nat : HasAnswer(s, g) => g < h

\* Answer a went out as it should, or to a peer that was gone.
WentOut(a, peer) ==
  \/ a.how = "whole"
  \/ a.how = "part" /\ a.len > Room
  \/ a.how = "failed" /\ peer # "up"

\* A peer that waits for its answers has read them when it sends a header.
Fit(s) ==
  ~conn[s].eager =>
    /\ conn[s].late = <<>>
    /\ \A k \in DOMAIN conn[s].replies :
         WentOut(conn[s].replies[k], conn[s].peer)
    /\ \A h \in 1 .. conn[s].sent :
         Kind(s, h) \in Headers /\ ~HasAnswer(s, h) => conn[s].unread = 0

\* The peer has the answers, in order, of all requests but the last.
Turns(s) ==
  ~conn[s].eager =>
    /\ \A h, g \in 1 .. conn[s].sent :
         Kind(s, h) \in Headers /\ Kind(s, g) \in Headers /\ h < g
           => HasReply(s, h)
    /\ \A j, k \in DOMAIN conn[s].replies :
         j < k => conn[s].replies[j].hd < conn[s].replies[k].hd
    /\ \A k \in DOMAIN conn[s].replies : LET h == conn[s].replies[k].hd IN
         h > 0 /\ Kind(s, h) \in Headers

\* The requests of s, its answers and the one in work are in order.
Ordered(s) == Order(s) /\ Fit(s) /\ Turns(s)

\* A socket that no timeout closed leaves nothing behind.
QuietEnd(s) == conn[s].sock = "closed" /\ ~conn[s].timedOut => Nobody(s)

\* What comes with a header, or is waited for, is its body.
Framed(s) ==
  Running /\ ~conn[s].eager =>
    /\ conn[s].rd.st = "ok" => conn[s].taken = conn[s].rd.hd + conn[s].rd.extra
    /\ \A t \in Threads : th[t].s = s =>
         /\ th[t].pc = "read" /\ th[t].aux = "ok" =>
              conn[s].taken = th[t].hd + th[t].extra
         /\ th[t].pc = "body" =>
              conn[s].taken = th[t].hd /\ Kind(s, th[t].hd) \in {"post", "head"}

\* What has been read to its end is answered or in work, as long as neither the
\* timer nor the peer has got ahead.
NoneForgotten(s) ==
  Patient(s) =>
    \A h \in 1 .. conn[s].taken :
      Complete(s, h) => HasReply(s, h) \/ InWork(s, h)

(* A peer sends no body but the one that its header announces.  Nothing in *)
(* the code enforces it: of a second body that comes with the first,       *)
(* content_length - buffer->size() wraps, the read that follows can only   *)
(* fail, and the request is dropped with no timer (http_session.cpp:255).  *)
WellFramed ==
  \A p \in Scripts : \A k \in 1 .. Len(p) :
    p[k] = "body" => k > 1 /\ p[k - 1] \in {"post", "head"}

-----------------------------------------------------------------------------
\* d is c, but for the socket, the timer and what waits for a thread.
Calm(c, d) ==
  /\ d.script = c.script /\ d.sent = c.sent /\ d.taken = c.taken
  /\ d.unread = c.unread /\ d.late = c.late /\ d.replies = c.replies
  /\ d.eager = c.eager /\ (c.peer # "up" => d.peer # "up")
  /\ d.rd = c.rd \/ d.rd.st # "ok"

\* What the timer, the close and the callback do to a session is calm.
LEMMA CalmFields ==
  ASSUME NEW c \in Conns
  PROVE  /\ Calm(c, c) /\ Calm(c, CancelTimer(c)) /\ Calm(c, ArmTimer(c))
         /\ Calm(c, Aborted(c)) /\ \A s \in Sessions : Calm(c, Told(s, c))
<1> USE DEF Conns, Calm
<1>1. Calm(c, c) /\ Calm(c, CancelTimer(c)) /\ Calm(c, ArmTimer(c))
  BY DEF CancelTimer, ArmTimer
<1>2. Calm(c, Aborted(c))
  <2>1. CASE c.rd.st = "pending"
    <3>1. Aborted(c) = [c EXCEPT !.rd.st = "aborted"]
      BY <2>1 DEF Aborted
    <3> QED BY <3>1
  <2>2. CASE c.rd.st # "pending"
    <3>1. Aborted(c) = [c EXCEPT !.rd.st = c.rd.st]
      BY <2>2 DEF Aborted
    <3> QED BY <3>1
  <2> QED BY <2>1, <2>2
<1>3. \A x : Calm(c, [c EXCEPT !.calls = x])
  OBVIOUS
<1>4. \A s \in Sessions : Calm(c, Told(s, c))
  BY <1>1, <1>3 DEF Told
<1> QED BY <1>1, <1>2, <1>4

\* One calm change after another is calm.
LEMMA CalmTwice ==
  ASSUME NEW c, NEW d, NEW e, Calm(c, d), Calm(d, e) PROVE Calm(c, e)
  BY DEF Calm

\* Threads move, but none of those that have a request, nor to have one.
Dull ==
  /\ UNCHANGED tasks
  /\ \A u \in Threads : th'[u] = th[u] \/ (~Works(u) /\ ~Works(u)')

\* The peer's end of the connection, time and a new client touch neither the
\* requests nor the answers.
LEMMA WorldCalm ==
  ASSUME TypeOK, NEW s \in Sessions,
         \/ PeerClose(s) \/ ReadFails(s) \/ Expire(s)
         \/ \E t \in CpuThreads : Request(t, s)
  PROVE  Calm(conn[s], conn'[s]) /\ Dull
<1>0. conn[s] \in Conns
  BY DEF TypeOK
<1>1. Dull
  BY DEF Dull, PeerClose, ReadFails, Expire, Request
<1>2. CASE PeerClose(s)
  <2>1. \E x \in {"closed", "reset"} : conn'[s] = [conn[s] EXCEPT !.peer = x]
    BY <1>2, UpdateEffect DEF PeerClose
  <2> QED BY <1>0, <1>1, <2>1 DEF Conns, Calm
<1>3. CASE ReadFails(s)
  <2>1. conn'[s] = [conn[s] EXCEPT !.rd.st = "error"]
    BY <1>3, UpdateEffect DEF ReadFails
  <2> QED BY <1>0, <1>1, <2>1 DEF Conns, Calm
<1>4. CASE Expire(s)
  <2> DEFINE c == CancelTimer(conn[s])
  <2>1. conn'[s] = [c EXCEPT !.fired = @ + 1, !.timedOut = TRUE]
    BY <1>4, UpdateEffect DEF Expire
  <2>2. c \in Conns /\ Calm(conn[s], c)
    BY <1>0, CalmFields, ConnTypes
  <2> HIDE DEF c
  <2>3. Calm(c, conn'[s])
    BY <2>1, <2>2 DEF Conns, Calm
  <2> QED BY <1>1, <2>2, <2>3, CalmTwice
<1>5. ASSUME NEW t \in CpuThreads, Request(t, s)
      PROVE  Calm(conn[s], conn'[s]) /\ Dull
  <2>1. conn'[s] = [conn[s] EXCEPT !.sock = "open", !.written = TRUE]
    BY <1>5, UpdateEffect DEF Request
  <2> QED BY <1>0, <1>1, <2>1 DEF Conns, Calm
<1> QED BY <1>2, <1>3, <1>4, <1>5

\* A handler that an IO thread picks up has no request in its hand, but that of a
\* read.
LEMMA TakeCalm ==
  ASSUME TypeOK, NEW s \in Sessions, NEW t \in IoThreads,
         Accept(t, s) \/ TakeRead(t, s) \/ TakeWritten(t, s) \/ TakeTimer(t, s)
  PROVE  Calm(conn[s], conn'[s]) /\ (~TakeRead(t, s) => Dull)
<1>0. conn[s] \in Conns /\ t \in Threads /\ "run" \in Pcs
  BY DEF TypeOK, Threads, Pcs
<1>1. CASE Accept(t, s)
  <2>1. conn'[s] = [conn[s] EXCEPT !.sock = "open"]
    BY <1>1, UpdateEffect DEF Accept
  <2>2. UNCHANGED th \/ (th[t].pc = "idle" /\ Moves(t, s, "run", "none"))
    BY <1>0, <1>1, MoveEffects DEF Accept, At
  <2>3. Dull
    BY <1>0, <1>1, <2>2 DEF Dull, Works, Moves, Accept
  <2> QED BY <1>0, <2>1, <2>3 DEF Conns, Calm
<1>2. CASE TakeRead(t, s)
  <2>1. conn'[s] = [conn[s] EXCEPT !.rd = NoRead]
    BY <1>2, UpdateEffect DEF TakeRead
  <2> QED BY <1>0, <1>2, <2>1 DEF Conns, Calm, NoRead
<1>3. CASE TakeWritten(t, s)
  <2>1. conn'[s] = [conn[s] EXCEPT !.written = FALSE]
    BY <1>3, UpdateEffect DEF TakeWritten
  <2>2. th[t].pc = "idle" /\ Moves(t, s, "post", "none")
    BY <1>3, TakeEffect DEF TakeWritten, At
  <2>3. Dull
    BY <1>0, <1>3, <2>2 DEF Dull, Works, Moves, TakeWritten
  <2> QED BY <1>0, <2>1, <2>3 DEF Conns, Calm
<1>4. CASE TakeTimer(t, s)
  <2>1. conn'[s] = [conn[s] EXCEPT !.fired = @ - 1]
    BY <1>4, UpdateEffect DEF TakeTimer
  <2>2. th[t].pc = "idle" /\ Moves(t, s, "close", "timeout")
    BY <1>4, TakeEffect DEF TakeTimer, At
  <2>3. Dull
    BY <1>0, <1>4, <2>2 DEF Dull, Works, Moves, TakeTimer
  <2> QED BY <1>0, <2>1, <2>3 DEF Conns, Calm
<1> QED BY <1>1, <1>2, <1>3, <1>4

\* Neither the beginning of a read nor the end of a session has a request in hand.
LEMMA CommonCalm ==
  ASSUME TypeOK, NEW t \in Threads, NEW s \in Sessions, th[t].s = s, CommonStep(t)
  PROVE  Calm(conn[s], conn'[s]) /\ Dull
<1>0. conn[s] \in Conns
  BY DEF TypeOK
<1>1. Dull
  <2>1. CASE Run(t) \/ Post(t) \/ Arm(t)
    BY <2>1, RunEffect, PostEffect, ArmEffect
       DEF RunMakes, PostMakes, ArmMakes, Dull, Works, Moves, Leaves, Run, Post, Arm
  <2>2. CASE CloseTest(t) \/ CloseCancel(t)
    BY <2>2, CloseTestEffect, CloseCancelEffect DEF CloseTestMakes,
       CloseCancelMakes, Dull, Works, Moves, Leaves, CloseTest, CloseCancel
  <2>3. CASE CloseDown(t) \/ CloseShut(t)
    BY <2>3, CloseDownEffect, CloseShutEffect DEF CloseDownMakes, CloseShutMakes,
       Dull, Works, Moves, Leaves, CloseDown, CloseShut
  <2> QED BY <2>1, <2>2, <2>3 DEF CommonStep
<1>2. CASE Run(t) \/ Arm(t)
  <2>1. conn'[s] = CancelTimer(conn[s]) \/ conn'[s] = ArmTimer(conn[s])
    BY <1>2, UpdateEffect DEF Run, Arm
  <2> QED BY <1>0, <1>1, <2>1, CalmFields
<1>3. CASE Post(t)
  <2> DEFINE r == [NoRead EXCEPT !.st = IF Open(s) THEN "pending" ELSE "error"]
  <2>1. conn'[s] = [conn[s] EXCEPT !.rd = r]
    BY <1>3, UpdateEffect DEF Post
  <2>2. r.st # "ok"
    BY DEF NoRead
  <2> HIDE DEF r
  <2> QED BY <1>0, <1>1, <2>1, <2>2 DEF Conns, Calm
<1>4. ASSUME NEW c \in Conns, AfterClose(t, c) PROVE Calm(c, conn'[s])
  <2>1. conn'[s] = c \/ conn'[s] = Told(s, CancelTimer(c))
    BY <1>4, UpdateEffect DEF AfterClose, AfterCloseFor
  <2>2. CancelTimer(c) \in Conns
    BY ConnTypes
  <2> QED BY <2>1, <2>2, CalmFields, CalmTwice
<1>5. CASE CloseTest(t)
  BY <1>0, <1>1, <1>4, <1>5, CalmFields DEF CloseTest
<1>6. CASE CloseCancel(t)
  <2>1. conn'[s] = conn[s] \/ conn'[s] = Aborted(conn[s])
    BY <1>6, UpdateEffect DEF CloseCancel
  <2> QED BY <1>0, <1>1, <2>1, CalmFields
<1>7. CASE CloseShut(t)
  <2> DEFINE d == Aborted(conn[s])
             c == [d EXCEPT !.sock = "closed"]
  <2>1. AfterClose(t, c)
    BY <1>7 DEF CloseShut
  <2>2. d \in Conns /\ Calm(conn[s], d)
    BY <1>0, CalmFields, ConnTypes
  <2>3. c \in Conns /\ Calm(d, c)
    <3> HIDE DEF d
    <3>1. c \in Conns
      BY <2>2, ConnTypes
    <3> QED BY <2>2, <3>1 DEF Conns, Calm
  <2>4. Calm(c, conn'[s])
    BY <1>4, <2>1, <2>3
  <2> HIDE DEF c, d
  <2> QED BY <1>1, <2>2, <2>3, <2>4, CalmTwice
<1>8. CASE CloseDown(t)
  <2> DEFINE b == conn[s].shut \/ Open(s)
  <2>1. conn'[s] = [conn[s] EXCEPT !.shut = b]
    BY <1>8, UpdateEffect DEF CloseDown
  <2> HIDE DEF b
  <2> QED BY <1>0, <1>1, <2>1 DEF Conns, Calm
<1> QED BY <1>2, <1>3, <1>5, <1>6, <1>7, <1>8 DEF CommonStep

\* Thread t alone moves, to p, and keeps the request that it has.
MovesOn(t, s, p) ==
  /\ th'[t].pc = p /\ th'[t].s = s /\ th'[t].hd = th[t].hd
  /\ \A u \in Threads \ {t} : th'[u] = th[u]

\* Thread t alone moves, and has no request any more.
Drops(t) == ~Works(t)' /\ \A u \in Threads \ {t} : th'[u] = th[u]

\* Goto and GotoWith move a thread on with what it has.
LEMMA GotoKeeps ==
  ASSUME TypeOK, NEW t \in Threads, NEW s \in Sessions, th[t].s = s, NEW p,
         Goto(t, p) \/ \E a : GotoWith(t, p, a)
  PROVE  MovesOn(t, s, p) /\ th'[t].extra = th[t].extra
<1>1. th[t] \in Locals
  BY DEF TypeOK
<1>2. /\ \/ th'[t] = [th[t] EXCEPT !.pc = p]
         \/ \E a : th'[t] = [th[t] EXCEPT !.pc = p, !.aux = a]
      /\ \A u \in Threads \ {t} : th'[u] = th[u]
  BY BecomeEffect DEF Goto, GotoWith
<1> QED BY <1>1, <1>2 DEF Locals, MovesOn

\* What an IO thread does with a session leaves its requests and answers alone,
\* but for the read of a body.
LEMMA IoCalm ==
  ASSUME TypeOK, NEW t \in Threads, NEW s \in Sessions, th[t].s = s,
         ReadFailed(t) \/ HeaderRead(t) \/ BodyFails(t) \/ Enqueue(t)
  PROVE  Calm(conn[s], conn'[s])
<1>0. conn[s] \in Conns
  BY DEF TypeOK
<1> DEFINE c == CancelTimer(conn[s])
<1>1. c \in Conns /\ Calm(conn[s], c)
  BY <1>0, CalmFields, ConnTypes
<1>2. CASE ReadFailed(t)
  <2>1. conn'[s] = c \/ conn'[s] = Told(s, c)
    BY <1>2, UpdateEffect DEF ReadFailed
  <2> HIDE DEF c
  <2> QED BY <1>1, <2>1, CalmFields, CalmTwice
<1>3. CASE HeaderRead(t)
  <2>1. conn'[s] = c \/ conn'[s] = ArmTimer(c)
    BY <1>3, UpdateEffect DEF HeaderRead, BodyRead
  <2> HIDE DEF c
  <2> QED BY <1>1, <2>1, CalmFields, CalmTwice
<1>4. CASE BodyFails(t) \/ Enqueue(t)
  <2>1. conn'[s] = c
    BY <1>4, UpdateEffect DEF BodyFails, BodyEnds, Enqueue, EnqueueThen
  <2> QED BY <1>1, <2>1
<1> QED BY <1>2, <1>3, <1>4

\* What a CPU thread does with a session leaves its requests and answers alone,
\* but for the answer.
LEMMA CpuCalm ==
  ASSUME TypeOK, NEW t \in Threads, NEW s \in Sessions,
         \/ \E h : TakeTask(t, s, h)
         \/ th[t].s = s /\ (Process(t) \/ Send(t) \/ Rearm(t) \/ NextRequest(t))
  PROVE  Calm(conn[s], conn'[s]) /\ (Rearm(t) \/ NextRequest(t) => Dull)
<1>0. conn[s] \in Conns
  BY DEF TypeOK
<1>1. CASE th[t].s = s /\ Rearm(t)
  <2>1. conn'[s] = ArmTimer(conn[s]) /\ UNCHANGED tasks
    BY <1>1, UpdateEffect DEF Rearm
  <2>2. th[t].pc = "rearm" /\ Moves(t, s, "next", th[t].aux)
    BY <1>1, RearmEffect DEF RearmMakes
  <2> QED BY <1>0, <2>1, <2>2, CalmFields DEF Dull, Works, Moves
<1>2. CASE th[t].s = s /\ NextRequest(t)
  <2>1. NextRequestMakes(t, s)
    BY <1>2, NextRequestEffect
  <2>2. UNCHANGED tasks
    BY <1>2 DEF NextRequest
  <2> QED BY <1>0, <2>1, <2>2, CalmFields DEF NextRequestMakes, Dull, Works, Moves
<1>3. CASE (\E h : TakeTask(t, s, h)) \/ Process(t) \/ Send(t)
  <2>1. conn' = conn /\ ~Rearm(t) /\ ~NextRequest(t)
    BY <1>3 DEF TakeTask, TakeTaskLeaving, Process, ProcessWith, Send, SendIf,
       Rearm, NextRequest, At
  <2> QED BY <1>0, <2>1, CalmFields
<1> QED BY <1>1, <1>2, <1>3

\* What becomes of a request whose header has been read.
LEMMA HeaderReadFate ==
  ASSUME TypeOK, NEW t \in Threads, NEW s \in Sessions, th[t].s = s, HeaderRead(t)
  PROVE  /\ th[t].pc = "read" /\ th[t].aux = "ok" /\ Open(s) /\ UNCHANGED tasks
         /\ \/ UNCHANGED th /\ ~Running'
            \/ Kind(s, th[t].hd) = "chunked" /\ Drops(t)
            \/ Kind(s, th[t].hd) \in {"get", "bye", "post"} /\ MovesOn(t, s, "parsed")
            \/ /\ Kind(s, th[t].hd) \in {"post", "head"} /\ MovesOn(t, s, "body")
               /\ th'[t].need = BodyNotLoaded(th[t].extra) /\ th'[t].need # 0
<1>1. th[t].pc = "read" /\ th[t].aux = "ok" /\ Open(s) /\ UNCHANGED tasks
  BY DEF HeaderRead, At
<1>2. \A why : why # "none" /\ Terminate(why, s) => ~Running'
  BY DEF Terminate, Running, Alive
<1>3. GotoWith(t, "close", "error") => Drops(t)
  BY MoveEffects DEF Pcs, Drops, Moves, Works
<1>4. CASE Kind(s, th[t].hd) \notin {"post", "head"}
  <2>1. \/ UNCHANGED th /\ ~Running'
        \/ Kind(s, th[t].hd) = "chunked" /\ GotoWith(t, "close", "error")
        \/ Kind(s, th[t].hd) \in {"get", "bye"} /\ Goto(t, "parsed")
    BY <1>2, <1>4 DEF HeaderRead
  <2> QED BY <1>1, <1>3, <2>1, GotoKeeps
<1>5. CASE Kind(s, th[t].hd) \in {"post", "head"}
  <2> DEFINE left == BodyNotLoaded(th[t].extra)
             l == [th[t] EXCEPT !.pc = "body", !.need = left]
  <2>0. \/ UNCHANGED th /\ ~Running'
        \/ \E c : BodyRead(t, c) \/ (left # 0 /\ Become(t, l))
    BY <1>2, <1>5 DEF HeaderRead
  <2> SUFFICES ASSUME NEW c, BodyRead(t, c) \/ (left # 0 /\ Become(t, l))
               PROVE  \/ UNCHANGED th /\ ~Running'
                      \/ MovesOn(t, s, "parsed") /\ Kind(s, th[t].hd) # "head"
                      \/ /\ MovesOn(t, s, "body")
                         /\ th'[t].need = left /\ left # 0
    BY <1>1, <1>5, <2>0
  <2>2. CASE BodyRead(t, c)
    <3>1. \/ UNCHANGED th /\ ~Running'
          \/ Kind(s, th[t].hd) # "head" /\ Goto(t, "parsed")
      BY <1>2, <2>2 DEF BodyRead
    <3> QED BY <3>1, GotoKeeps
  <2>3. CASE left # 0 /\ Become(t, l)
    <3>1. th[t] \in Locals
      BY DEF TypeOK
    <3> HIDE DEF left
    <3>2. l.pc = "body" /\ l.s = s /\ l.hd = th[t].hd /\ l.need = left
      BY <3>1 DEF Locals
    <3> HIDE DEF l
    <3>3. MovesOn(t, s, "body") /\ th'[t].need = left
      BY <2>3, <3>2, BecomeEffect DEF MovesOn
    <3> QED BY <2>3, <3>3
  <2> QED BY <2>2, <2>3
<1> QED BY <1>4, <1>5

\* A read that failed on an open socket has brought no request.
LEMMA ReadFailedFate ==
  ASSUME TypeOK, NEW t \in Threads, NEW s \in Sessions, th[t].s = s, ReadFailed(t)
  PROVE  /\ th[t].pc = "read" /\ UNCHANGED tasks
         /\ Works(t) => ~Open(s)
         /\ (UNCHANGED th /\ ~Works(t)) \/ Drops(t)
<1>1. th[t].pc = "read" /\ UNCHANGED tasks /\ (th[t].aux # "ok" \/ ~Open(s))
  BY DEF ReadFailed, At
<1>2. \/ Moves(t, s, "close", "error") \/ Leaves(t)
      \/ th[t].aux = "aborted" /\ UNCHANGED th
  BY ReadFailedEffect DEF ReadFailedMakes
<1> QED BY <1>1, <1>2 DEF Moves, Leaves, Drops, Works

\* One more piece has been taken, or all that were waited for.
BodyTaken(c, d, n) ==
  /\ d.script = c.script /\ d.sent = c.sent /\ d.taken = c.taken + n
  /\ d.unread = c.unread /\ d.late = c.late /\ d.replies = c.replies
  /\ d.eager = c.eager /\ d.rd = c.rd /\ (c.peer # "up" => d.peer # "up")

\* How much waits in the receive buffer.
LEMMA WireSize ==
  ASSUME NEW c \in Nat, NEW d \in Nat, c <= d
  PROVE  Cardinality(c + 1 .. d) = d - c
<1>1. c + 1 \in Int /\ d \in Int
  OBVIOUS
<1>2. Cardinality(c + 1 .. d) = IF c + 1 > d THEN 0 ELSE d - (c + 1) + 1
  BY <1>1, FS_Interval
<1> QED BY <1>2

\* What becomes of a request whose body has been read.
LEMMA BodyArrivesFate ==
  ASSUME TypeOK, NEW t \in Threads, NEW s \in Sessions, th[t].s = s, BodyArrives(t)
  PROVE  /\ th[t].pc = "body" /\ UNCHANGED tasks
         /\ BodyTaken(conn[s], conn'[s], th[t].need)
         /\ Cardinality(Wire(s)) >= th[t].need
         /\ \/ UNCHANGED th /\ ~Running'
            \/ Kind(s, th[t].hd) # "head" /\ MovesOn(t, s, "parsed")
<1>0. conn[s] \in Conns /\ th[t] \in Locals
  BY DEF TypeOK
<1> DEFINE c == CancelTimer(conn[s])
           n == c.taken + th[t].need
           d == [c EXCEPT !.taken = n]
<1>1. /\ th[t].pc = "body" /\ UNCHANGED tasks /\ BodyRead(t, d)
      /\ Cardinality(Wire(s)) >= th[t].need
  BY DEF BodyArrives, At
<1>2. c \in Conns /\ Calm(conn[s], c) /\ c.rd = conn[s].rd
  BY <1>0, CalmFields, ConnTypes, TimerFields
<1>3. BodyTaken(c, d, th[t].need)
  <2> HIDE DEF c
  <2> QED BY <1>2 DEF Conns, BodyTaken
<1>4. conn'[s] = d
  BY <1>1, UpdateEffect DEF BodyRead
<1>5. BodyTaken(conn[s], conn'[s], th[t].need)
  <2> HIDE DEF d, c
  <2> QED BY <1>2, <1>3, <1>4 DEF BodyTaken, Calm
<1>6. \/ UNCHANGED th /\ ~Running'
      \/ Kind(s, th[t].hd) # "head" /\ Goto(t, "parsed")
  BY <1>1 DEF BodyRead, Terminate, Running, Alive
<1> QED BY <1>1, <1>5, <1>6, GotoKeeps

\* A request whose body does not come is given up, on a closed socket or with
\* the body still missing.
LEMMA BodyFailsFate ==
  ASSUME TypeOK, NEW t \in Threads, NEW s \in Sessions, th[t].s = s, BodyFails(t)
  PROVE  /\ th[t].pc = "body" /\ UNCHANGED tasks /\ Drops(t)
         /\ ~Open(s) \/ Cardinality(Wire(s)) < th[t].need
<1>1. Moves(t, s, "close", "error")
  BY BodyFailsEffect DEF BodyFailsMakes
<1>2. /\ th[t].pc = "body" /\ UNCHANGED tasks
      /\ ~Open(s) \/ Cardinality(Wire(s)) < th[t].need
  BY DEF BodyFails, BodyEnds, At
<1> QED BY <1>1, <1>2 DEF Moves, Drops, Works

\* A request becomes a task, unless the socket is closed.
LEMMA EnqueueFate ==
  ASSUME TypeOK, NEW t \in Threads, NEW s \in Sessions, th[t].s = s, Enqueue(t)
  PROVE  /\ th[t].pc = "parsed" /\ Drops(t) /\ th'[t].pc = "idle"
         /\ tasks' = IF Open(s) THEN tasks \cup {<<s, th[t].hd>>} ELSE tasks
<1>1. Enter(t, s, "idle") /\ "idle" \in Pcs
  BY DEF Enqueue, EnqueueThen, Pcs
<1>2. Moves(t, s, "idle", "none")
  BY <1>1, MoveEffects
<1> QED BY <1>2 DEF Enqueue, EnqueueThen, At, Moves, Drops, Works

\* A task moves from the queue to its thread.
LEMMA TakeTaskFate ==
  ASSUME TypeOK, NEW t \in Threads, NEW s \in Sessions, NEW h \in Nat,
         TakeTask(t, s, h)
  PROVE  /\ th[t].pc = "idle" /\ <<s, h>> \in tasks /\ tasks' = tasks \ {<<s, h>>}
         /\ th'[t].pc = "process" /\ th'[t].s = s /\ th'[t].hd = h
         /\ \A u \in Threads \ {t} : th'[u] = th[u]
<1>1. Become(t, [Idle EXCEPT !.pc = "process", !.s = s, !.hd = h])
  BY DEF TakeTask, TakeTaskLeaving
<1> DEFINE l == [Idle EXCEPT !.pc = "process", !.s = s, !.hd = h]
<1>2. l.pc = "process" /\ l.s = s /\ l.hd = h
  BY DEF Idle
<1> HIDE DEF l
<1>3. th'[t] = l /\ \A u \in Threads \ {t} : th'[u] = th[u]
  BY <1>1, BecomeEffect DEF l
<1> QED BY <1>2, <1>3, TakeTaskEffect

\* A request that has been processed stays with its thread.
LEMMA ProcessFate ==
  ASSUME TypeOK, NEW t \in Threads, NEW s \in Sessions, th[t].s = s, Process(t)
  PROVE  /\ th[t].pc = "process" /\ UNCHANGED tasks
         /\ UNCHANGED th \/ MovesOn(t, s, "send")
<1>1. UNCHANGED th \/ \E a : GotoWith(t, "send", a)
  BY DEF Process, ProcessWith
<1> QED BY <1>1, GotoKeeps DEF Process, ProcessWith, At

\* The answer to h is to be written, unless the socket is closed.
LEMMA SendFate ==
  ASSUME TypeOK, NEW t \in Threads, NEW s \in Sessions, th[t].s = s, Send(t)
  PROVE  /\ th[t].pc = "send" /\ UNCHANGED <<conn, tasks>>
         /\ \/ MovesOn(t, s, "write")
            \/ ~Open(s) /\ Drops(t)
<1>1. th[t].pc = "send" /\ UNCHANGED <<conn, tasks>>
  BY DEF Send, SendIf, At
<1>2. Goto(t, "write") \/ (~Open(s) /\ Goto(t, "next"))
  BY DEF Send, SendIf
<1>3. Goto(t, "next") => Drops(t)
  BY MoveEffects DEF Pcs, CpuPcs, Moves, Drops, Works
<1> QED BY <1>1, <1>2, <1>3, GotoKeeps

\* The answer to h is written as far as there is room, refused, or it waits in a
\* string that is freed.
Writes(c, d, h) ==
  /\ d.script = c.script /\ d.sent = c.sent /\ d.taken = c.taken
  /\ d.eager = c.eager /\ d.rd = c.rd /\ d.peer = c.peer
  /\ \/ /\ c.late # <<>> \/ c.unread = Room
        /\ d.late = Append(c.late, h)
        /\ d.replies = c.replies /\ d.unread = c.unread
     \/ /\ c.late = <<>> /\ d.late = <<>>
        /\ \E n \in Nat \ {0}, w \in {"whole", "part", "failed"} :
             /\ d.replies = Append(c.replies, [hd |-> h, len |-> n, how |-> w])
             /\ \/ w = "whole" /\ n <= Room - c.unread
                \/ w = "part" /\ n > Room - c.unread
                \/ w = "failed" /\ c.peer # "up"

\* What can be written of an answer,
LEMMA SomeWritten ==
  ASSUME NEW c \in Conns, NEW h, NEW n \in Nat \ {0}
  PROVE  Writes(c, WriteSome(c, h, n), h)
<1> DEFINE free == Room - c.unread
           w == IF n <= free THEN "whole" ELSE "part"
           u == c.unread + (IF n <= free THEN n ELSE free)
           late == Append(c.late, h)
           replies == Append(c.replies, [hd |-> h, len |-> n, how |-> w])
           d == WriteSome(c, h, n)
<1>1. c.unread \in 0 .. Room /\ Room \in Nat
  BY FieldTypes, SessionAssumption
<1>2. CASE c.late # <<>> \/ free = 0
  <2>1. d = [c EXCEPT !.late = late]
    BY <1>2 DEF WriteSome
  <2> HIDE DEF late, d
  <2>2. /\ d.script = c.script /\ d.sent = c.sent /\ d.taken = c.taken
        /\ d.eager = c.eager /\ d.rd = c.rd /\ d.peer = c.peer
        /\ d.late = late /\ d.replies = c.replies /\ d.unread = c.unread
    BY <2>1 DEF Conns
  <2>3. c.late # <<>> \/ c.unread = Room
    BY <1>1, <1>2
  <2> QED BY <2>2, <2>3 DEF Writes, d, late
<1>3. CASE ~(c.late # <<>> \/ free = 0)
  <2>1. d = [c EXCEPT !.unread = u, !.replies = replies]
    BY <1>3 DEF WriteSome
  <2>2. n <= free <=> n <= Room - c.unread
    OBVIOUS
  <2> HIDE DEF replies, u, w, free, d
  <2>3. /\ d.script = c.script /\ d.sent = c.sent /\ d.taken = c.taken
        /\ d.eager = c.eager /\ d.rd = c.rd /\ d.peer = c.peer
        /\ d.late = c.late /\ d.replies = replies
    BY <2>1 DEF Conns
  <2>4. \/ w = "whole" /\ n <= Room - c.unread
        \/ w = "part" /\ n > Room - c.unread
    BY <1>1, <2>2 DEF w
  <2> QED BY <1>3, <2>3, <2>4 DEF Writes, d, replies
<1> QED BY <1>2, <1>3

\* and an answer that is refused.
LEMMA NoneWritten ==
  ASSUME NEW c \in Conns, NEW h, NEW n \in Nat \ {0}, c.peer # "up", c.late = <<>>
  PROVE  Writes(c, Refused(c, h, n), h)
<1> DEFINE replies == Append(c.replies, [hd |-> h, len |-> n, how |-> "failed"])
           d == Refused(c, h, n)
<1>1. d = [c EXCEPT !.replies = replies]
  BY DEF Refused
<1> HIDE DEF replies, d
<1>2. /\ d.script = c.script /\ d.sent = c.sent /\ d.taken = c.taken
      /\ d.eager = c.eager /\ d.rd = c.rd /\ d.peer = c.peer
      /\ d.late = c.late /\ d.replies = replies
  BY <1>1 DEF Conns
<1> QED BY <1>2 DEF Writes, d, replies

\* A thread is done with its request when it has written the answer.
LEMMA WriteFate ==
  ASSUME TypeOK, NEW t \in Threads, NEW s \in Sessions, th[t].s = s, Write(t)
  PROVE  /\ th[t].pc = "write" /\ UNCHANGED tasks /\ Drops(t)
         /\ IF Over(s) THEN UNCHANGED conn ELSE Writes(conn[s], conn'[s], th[t].hd)
<1>0. conn[s] \in Conns
  BY DEF TypeOK
<1>1. Drops(t)
  BY WriteEffect DEF WriteMakes, Moves, Drops, Works
<1>2. th[t].pc = "write" /\ UNCHANGED tasks /\ (Over(s) => UNCHANGED conn)
  BY DEF Write, At
<1>3. ASSUME ~Over(s) PROVE Writes(conn[s], conn'[s], th[t].hd)
  <2>1. PICK n \in Sizes :
          \/ Update(s, WriteSome(conn[s], th[t].hd, n))
          \/ /\ conn[s].peer # "up" /\ conn[s].late = <<>>
             /\ Update(s, Refused(conn[s], th[t].hd, n))
    BY <1>3 DEF Write
  <2>2. n \in Nat \ {0}
    BY SessionAssumption
  <2>3. CASE Update(s, WriteSome(conn[s], th[t].hd, n))
    BY <1>0, <2>2, <2>3, UpdateEffect, SomeWritten
  <2>4. CASE /\ conn[s].peer # "up" /\ conn[s].late = <<>>
             /\ Update(s, Refused(conn[s], th[t].hd, n))
    BY <1>0, <2>2, <2>4, UpdateEffect, NoneWritten
  <2> QED BY <2>1, <2>3, <2>4
<1> QED BY <1>1, <1>2, <1>3

-----------------------------------------------------------------------------
\* The session of another step, or of a quiet one.
Still(s) ==
  /\ InHand(s)' = InHand(s)
  /\ (Answered(s) \o conn[s].late)' = Answered(s) \o conn[s].late
  /\ Over(s)' = Over(s)

\* Where a thread has the request in hand that Exchange takes.
HandPcs == {"parsed", "process", "send", "write"}

\* Who is in hand, now and after the step.
LEMMA HandMembers ==
  ASSUME NEW s \in Sessions
  PROVE  /\ \A x : x \in InHand(s) <=>
              \/ \E j \in tasks : j[1] = s /\ x = j[2]
              \/ \E t \in Threads :
                   th[t].s = s /\ th[t].pc \in HandPcs /\ x = th[t].hd
         /\ \A x : x \in InHand(s)' <=>
              \/ \E j \in tasks' : j[1] = s /\ x = j[2]
              \/ \E t \in Threads :
                   th'[t].s = s /\ th'[t].pc \in HandPcs /\ x = th'[t].hd
  BY DEF InHand, HandPcs

\* Where nobody with a request moves, the same is in hand,
LEMMA DullHand ==
  ASSUME Dull, NEW s \in Sessions PROVE InHand(s)' = InHand(s)
<1>1. \A t \in Threads :
        /\ th[t].pc \in HandPcs => th'[t] = th[t]
        /\ th'[t].pc \in HandPcs => th'[t] = th[t]
  BY DEF Dull, Works, HandPcs
<1>2. \A x : x \in InHand(s)' <=> x \in InHand(s)
  BY <1>1, HandMembers DEF Dull
<1> QED BY <1>2

\* and nothing else is in work.
LEMMA DullWork ==
  ASSUME NEW s \in Sessions, Dull, Calm(conn[s], conn'[s])
  PROVE  \A h \in Nat : InWork(s, h)' => InWork(s, h)
  BY DEF Dull, Calm, InWork, Works

\* The answers are those of the session's record.
LEMMA AnswersKept ==
  ASSUME NEW s, conn'[s].replies = conn[s].replies, conn'[s].late = conn[s].late
  PROVE  /\ \A h : HasAnswer(s, h)' <=> HasAnswer(s, h)
         /\ \A h : HasReply(s, h)' <=> HasReply(s, h)
         /\ (Answered(s) \o conn[s].late)' = Answered(s) \o conn[s].late
  BY DEF HasAnswer, HasReply, Answered

\* Turns depends on what was sent and what was answered, and on nothing else.
LEMMA TurnsKept ==
  ASSUME NEW s, Turns(s), conn'[s].replies = conn[s].replies,
         conn'[s].script = conn[s].script, conn'[s].sent = conn[s].sent,
         conn'[s].eager = conn[s].eager
  PROVE  Turns(s)'
  BY DEF Turns, HasReply, Kind

\* A calm step that brings no request into work keeps the order.
LEMMA CalmOrdered ==
  ASSUME NEW s \in Sessions, Calm(conn[s], conn'[s]), Ordered(s),
         \A h \in Nat : InWork(s, h)' => InWork(s, h)
  PROVE  Ordered(s)'
<1>1. \A h : HasAnswer(s, h)' <=> HasAnswer(s, h)
  BY AnswersKept DEF Calm
<1>2. Order(s)'
  BY <1>1 DEF Ordered, Order, Calm, Kind
<1>3. Fit(s)'
  BY <1>1 DEF Ordered, Fit, WentOut, Calm, Kind
<1>4. Turns(s)'
  BY TurnsKept DEF Ordered, Calm
<1> QED BY <1>2, <1>3, <1>4 DEF Ordered

\* Who has a request of s is alone with it.
LEMMA Alone ==
  ASSUME NEW s \in Sessions, SessionInv(s), NEW t \in Threads, th[t].s = s, Works(t)
  PROVE  /\ Carries(t, s)
         /\ \A u \in Threads \ {t} : th[u].s = s => ~Works(u)
         /\ \A j \in tasks : j[1] # s
         /\ conn[s].rd.st = "none" /\ conn[s].sock # "new"
<1>1. \A u \in Threads : th[u].s = s /\ Works(u) => Carries(u, s)
  BY DEF SessionInv, Timeouts, Carries, Works
<1> QED BY <1>1 DEF SessionInv, Single, Called, Nobody, Queued, Reads

\* A thread that works on a request of s has the only one.
LEMMA OwnWork ==
  ASSUME NEW s \in Sessions, SessionInv(s), NEW t \in Threads, th[t].s = s, Works(t)
  PROVE  /\ \A h : InWork(s, h) <=> h = th[t].hd
         /\ InHand(s) = IF th[t].pc \in HandPcs THEN {th[t].hd} ELSE {}
<1>1. /\ \A u \in Threads \ {t} : th[u].s = s => ~Works(u) /\ th[u].pc \notin HandPcs
      /\ \A j \in tasks : j[1] # s
      /\ conn[s].rd.st = "none"
  BY Alone DEF Works, HandPcs
<1>2. \A h : InWork(s, h) <=> h = th[t].hd
  BY <1>1 DEF InWork
<1>3. \A x : x \in InHand(s) <=> th[t].pc \in HandPcs /\ x = th[t].hd
  BY <1>1, HandMembers
<1> QED BY <1>2, <1>3

\* What that becomes when the thread moves on.
LEMMA OwnWorkNext ==
  ASSUME NEW s \in Sessions, SessionInv(s), NEW t \in Threads, th[t].s = s, Works(t),
         \A u \in Threads \ {t} : th'[u] = th[u],
         conn'[s].rd = conn[s].rd \/ conn'[s].rd.st # "ok"
  PROVE  /\ (\A j \in tasks' : j[1] # s) =>
              /\ \A h : InWork(s, h)' => th'[t].s = s /\ Works(t)' /\ h = th'[t].hd
              /\ InHand(s)' = IF th'[t].s = s /\ th'[t].pc \in HandPcs
                                THEN {th'[t].hd} ELSE {}
         /\ (\A j \in tasks' : j[1] = s => j = <<s, th[t].hd>>) /\ ~Works(t)' =>
              /\ \A h : InWork(s, h)' => h = th[t].hd
              /\ <<s, th[t].hd>> \in tasks' => InHand(s)' = {th[t].hd}
<1>1. /\ \A u \in Threads \ {t} : th[u].s = s => ~Works(u) /\ th[u].pc \notin HandPcs
      /\ conn[s].rd.st = "none"
  BY Alone DEF Works, HandPcs
<1>2. \A u \in Threads \ {t} : th'[u].s = s => ~Works(u)' /\ th'[u].pc \notin HandPcs
  BY <1>1 DEF Works
<1>3. conn'[s].rd.st # "ok"
  BY <1>1
<1>4. ASSUME \A j \in tasks' : j[1] # s
      PROVE  /\ \A h : InWork(s, h)' => th'[t].s = s /\ Works(t)' /\ h = th'[t].hd
             /\ InHand(s)' = IF th'[t].s = s /\ th'[t].pc \in HandPcs
                                THEN {th'[t].hd} ELSE {}
  <2>1. \A h : InWork(s, h)' => th'[t].s = s /\ Works(t)' /\ h = th'[t].hd
    BY <1>2, <1>3, <1>4 DEF InWork
  <2>2. \A x : x \in InHand(s)' <=>
           th'[t].s = s /\ th'[t].pc \in HandPcs /\ x = th'[t].hd
    BY <1>2, <1>4, HandMembers
  <2> QED BY <2>1, <2>2
<1>5. ASSUME \A j \in tasks' : j[1] = s => j = <<s, th[t].hd>>, ~Works(t)'
      PROVE  /\ \A h : InWork(s, h)' => h = th[t].hd
             /\ <<s, th[t].hd>> \in tasks' => InHand(s)' = {th[t].hd}
  <2>1. \A h : InWork(s, h)' => h = th[t].hd
    BY <1>2, <1>3, <1>5 DEF InWork
  <2>2. th'[t].pc \notin HandPcs
    BY <1>5 DEF Works, HandPcs
  <2>3. ASSUME <<s, th[t].hd>> \in tasks' PROVE \A x : x \in InHand(s)' <=> x = th[t].hd
    BY <1>2, <1>5, <2>2, <2>3, HandMembers
  <2> QED BY <2>1, <2>3
<1> QED BY <1>4, <1>5

-----------------------------------------------------------------------------
\* A step of the exchange of s, or none.
Step(s) == EX(s)!Next \/ Still(s)

\* The records of which replies consists.
Reply == [hd : Nat, len : Nat, how : {"whole", "part", "stale", "failed"}]

\* As many replies as headers are replies to all of them.
LEMMA AllReplied ==
  ASSUME NEW s \in Sessions, conn[s] \in Conns, Order(s), Turns(s), ~conn[s].eager,
         Len(conn[s].replies) = Cardinality(HeadersSent(s)),
         NEW h \in 1 .. conn[s].sent, Kind(s, h) \in Headers
  PROVE  HasReply(s, h)
<1> DEFINE q == conn[s].replies
           H == HeadersSent(s)
           f == [k \in 1 .. Len(q) |-> q[k].hd]
<1>1. q \in Seq(Reply) /\ conn[s].sent \in Nat /\ conn[s].taken \in Nat
  BY FieldTypes DEF Reply
<1>2. /\ DOMAIN q = 1 .. Len(q) /\ Len(q) \in Nat
      /\ \A k \in 1 .. Len(q) : q[k].hd \in Nat
  <2>1. /\ DOMAIN q = 1 .. Len(q) /\ Len(q) \in Nat
        /\ \A k \in 1 .. Len(q) : q[k] \in Reply
    BY <1>1
  <2> QED BY <2>1 DEF Reply
<1>3. IsFiniteSet(1 .. conn[s].sent) /\ H \subseteq 1 .. conn[s].sent
  <2>1. 1 \in Int /\ conn[s].sent \in Int
    BY <1>1
  <2> QED BY <2>1, FS_Interval DEF HeadersSent
<1>4. IsFiniteSet(H)
  BY <1>3, FS_Subset
<1>5. \A k \in 1 .. Len(q) : q[k].hd \in H
  <2> SUFFICES ASSUME NEW k \in 1 .. Len(q) PROVE q[k].hd \in H
    OBVIOUS
  <2>1. q[k].hd > 0 /\ Kind(s, q[k].hd) \in Headers
    BY <1>2 DEF Turns
  <2>2. q[k].hd <= conn[s].taken /\ conn[s].taken <= conn[s].sent
    BY <1>2 DEF Order, HasAnswer, HasReply
  <2> DEFINE n == q[k].hd
  <2>3. n \in Nat /\ n > 0 /\ n <= conn[s].taken /\ conn[s].taken <= conn[s].sent
    BY <1>2, <2>1, <2>2
  <2> HIDE DEF n
  <2>4. n \in 1 .. conn[s].sent
    BY <1>1, <2>3
  <2> QED BY <2>1, <2>4 DEF HeadersSent, n
<1>6. \A j, k \in 1 .. Len(q) : q[j].hd = q[k].hd => j = k
  <2>1. \A j, k \in 1 .. Len(q) : j < k => q[j].hd < q[k].hd
    BY <1>2 DEF Turns
  <2> QED BY <1>2, <2>1
<1>7. IsFiniteSet(1 .. Len(q)) /\ Cardinality(1 .. Len(q)) = Len(q)
  <2>1. 1 \in Int /\ Len(q) \in Int
    BY <1>2
  <2>2. /\ IsFiniteSet(1 .. Len(q))
        /\ Cardinality(1 .. Len(q)) = IF 1 > Len(q) THEN 0 ELSE Len(q) - 1 + 1
    BY <2>1, FS_Interval
  <2> QED BY <1>2, <2>2
<1> HIDE DEF q, H
<1>8. f \in [1 .. Len(q) -> H] /\ \A j, k \in 1 .. Len(q) : f[j] = f[k] => j = k
  BY <1>5, <1>6
<1>9. f \in Injection(1 .. Len(q), H)
  BY <1>8 DEF Injection, IsInjective
<1>10. f \in Surjection(1 .. Len(q), H)
  <2>1. Cardinality(1 .. Len(q)) = Cardinality(H)
    BY <1>7 DEF q, H
  <2> HIDE DEF f
  <2> QED BY <1>4, <1>7, <1>9, <2>1, FS_Injection
<1>11. h \in H
  BY DEF H, HeadersSent
<1>12. \E k \in 1 .. Len(q) : f[k] = h
  BY <1>10, <1>11 DEF Surjection
<1> QED BY <1>2, <1>12 DEF HasReply, q

\* The peer sends the next piece: a header only in turn, or it is eager.
LEMMA PeerSendOrdered ==
  ASSUME TypeOK, NEW s \in Sessions, Ordered(s), PeerSend(s)
  PROVE  Ordered(s)' /\ Still(s)
<1>0. conn[s] \in Conns
  BY DEF TypeOK
<1> DEFINE k == conn[s].sent + 1
           waits == /\ Len(conn[s].replies) = Cardinality(HeadersSent(s))
                    /\ conn[s].unread = 0
           e == conn[s].eager \/ (Kind(s, k) \in Headers /\ ~waits)
<1>1. conn'[s] = [conn[s] EXCEPT !.sent = k, !.eager = e] /\ UNCHANGED <<th, tasks>>
  BY UpdateEffect DEF PeerSend
<1> HIDE DEF k, e
<1>2. /\ conn'[s].sent = k /\ conn'[s].eager = e /\ conn'[s].script = conn[s].script
      /\ conn'[s].taken = conn[s].taken /\ conn'[s].unread = conn[s].unread
      /\ conn'[s].late = conn[s].late /\ conn'[s].replies = conn[s].replies
      /\ conn'[s].rd = conn[s].rd /\ conn'[s].sock = conn[s].sock
      /\ conn'[s].shut = conn[s].shut /\ conn'[s].peer = conn[s].peer
  BY <1>0, <1>1 DEF Conns
<1>3. \A h : HasAnswer(s, h)' <=> HasAnswer(s, h)
  BY <1>2, AnswersKept
<1>4. \A h : InWork(s, h)' <=> InWork(s, h)
  BY <1>1, <1>2 DEF InWork, Works
<1>5. conn[s].sent \in Nat /\ conn[s].taken \in Nat
  BY <1>0, FieldTypes
<1>6. Order(s)'
  <2>1. k <= Len(conn[s].script)
    BY DEF PeerSend, k
  <2> QED BY <1>2, <1>3, <1>4, <1>5, <2>1 DEF Ordered, Order, Kind, k
<1>7. Fit(s)'
  <2> SUFFICES ASSUME ~e
               PROVE  /\ conn[s].late = <<>>
                      /\ \A i \in DOMAIN conn[s].replies :
                           WentOut(conn[s].replies[i], conn[s].peer)
                      /\ \A h \in 1 .. k : Kind(s, h) \in Headers /\ ~HasAnswer(s, h)
                           => conn[s].unread = 0
    BY <1>2, <1>3 DEF Fit, Kind
  <2>1. ~conn[s].eager /\ (Kind(s, k) \in Headers => conn[s].unread = 0)
    BY DEF e
  <2>2. \A h \in 1 .. k : h = k \/ h \in 1 .. conn[s].sent
    BY <1>5 DEF k
  <2> QED BY <2>1, <2>2 DEF Ordered, Fit
<1>8. Turns(s)'
  <2> SUFFICES ASSUME ~e
               PROVE  /\ \A h, g \in 1 .. k :
                           Kind(s, h) \in Headers /\ Kind(s, g) \in Headers /\ h < g
                             => HasReply(s, h)
                      /\ \A i, j \in DOMAIN conn[s].replies :
                           i < j => conn[s].replies[i].hd < conn[s].replies[j].hd
                      /\ \A i \in DOMAIN conn[s].replies :
                           /\ conn[s].replies[i].hd > 0
                           /\ Kind(s, conn[s].replies[i].hd) \in Headers
    BY <1>2 DEF Turns, Kind, HasReply
  <2>1. ~conn[s].eager /\ (Kind(s, k) \in Headers => waits)
    BY DEF e
  <2>2. \A h \in 1 .. k : h = k \/ (h \in 1 .. conn[s].sent /\ h < k)
    BY <1>5 DEF k
  <2>3. ASSUME NEW h \in 1 .. k, NEW g \in 1 .. k, Kind(s, h) \in Headers,
               Kind(s, g) \in Headers, h < g
        PROVE  HasReply(s, h)
    <3>1. h \in 1 .. conn[s].sent
      BY <1>5, <2>2, <2>3 DEF k
    <3>2. CASE g = k
      BY <1>0, <2>1, <2>3, <3>1, <3>2, AllReplied DEF Ordered
    <3>3. CASE g \in 1 .. conn[s].sent
      BY <2>1, <2>3, <3>1, <3>3 DEF Ordered, Turns
    <3> QED BY <2>2, <3>2, <3>3
  <2> QED BY <2>1, <2>3 DEF Ordered, Turns
<1>9. Still(s)
  BY <1>1, <1>2, AnswersKept DEF Still, InHand, Over
<1> QED BY <1>6, <1>7, <1>8, <1>9 DEF Ordered

\* What the peer reads makes room, which only concerns those that have no answer
\* yet.
LEMMA PeerReadOrdered ==
  ASSUME TypeOK, NEW s \in Sessions, Ordered(s), PeerRead(s)
  PROVE  Ordered(s)' /\ Still(s)
<1>0. conn[s] \in Conns
  BY DEF TypeOK
<1>1. PICK n \in 0 .. conn[s].unread - 1 : conn'[s] = [conn[s] EXCEPT !.unread = n]
  BY UpdateEffect DEF PeerRead
<1>2. UNCHANGED <<th, tasks>>
  BY DEF PeerRead
<1>3. /\ conn'[s].sent = conn[s].sent /\ conn'[s].eager = conn[s].eager
      /\ conn'[s].taken = conn[s].taken /\ conn'[s].script = conn[s].script
      /\ conn'[s].late = conn[s].late /\ conn'[s].replies = conn[s].replies
      /\ conn'[s].rd = conn[s].rd /\ conn'[s].sock = conn[s].sock
      /\ conn'[s].shut = conn[s].shut /\ conn'[s].peer = conn[s].peer
  BY <1>0, <1>1 DEF Conns
<1>4. conn[s].unread # 0
  <2>1. conn[s].unread \in Int
    BY <1>0, FieldTypes, SessionAssumption
  <2> QED BY <1>1, <2>1
<1>5. \A h : HasAnswer(s, h)' <=> HasAnswer(s, h)
  BY <1>3, AnswersKept
<1>6. Order(s)'
  BY <1>2, <1>3, <1>5 DEF Ordered, Order, Kind, InWork, Works
<1>7. Fit(s)'
  BY <1>3, <1>4, <1>5 DEF Ordered, Fit, Kind
<1>8. Turns(s)'
  BY <1>3, TurnsKept DEF Ordered
<1>9. Still(s)
  BY <1>2, <1>3, AnswersKept DEF Still, InHand, Over
<1> QED BY <1>6, <1>7, <1>8, <1>9 DEF Ordered

\* What was read lies behind all that was taken before.
LEMMA ReadCompletesOrdered ==
  ASSUME TypeOK, NEW s \in Sessions, Ordered(s), ReadCompletes(s)
  PROVE  Ordered(s)' /\ Still(s)
<1>0. conn[s] \in Conns /\ conn[s].sent \in Nat /\ conn[s].taken \in Nat
  BY FieldTypes DEF TypeOK
<1>1. PICK h \in Wire(s) :
        /\ Kind(s, h) \in Headers
        /\ \A k \in Wire(s) : k < h => Kind(s, k) \notin Headers
        /\ \E e \in 0 .. conn[s].sent - h :
             Update(s, [conn[s] EXCEPT !.rd = [st |-> "ok", hd |-> h, extra |-> e],
                                       !.taken = h + e])
  BY DEF ReadCompletes
<1>2. PICK e \in 0 .. conn[s].sent - h :
         conn'[s] = [conn[s] EXCEPT !.rd = [st |-> "ok", hd |-> h, extra |-> e],
                                    !.taken = h + e]
  BY <1>1, UpdateEffect
<1>3. UNCHANGED <<th, tasks>>
  BY DEF ReadCompletes
<1>4. /\ conn'[s].sent = conn[s].sent /\ conn'[s].eager = conn[s].eager
      /\ conn'[s].taken = h + e /\ conn'[s].script = conn[s].script
      /\ conn'[s].unread = conn[s].unread
      /\ conn'[s].late = conn[s].late /\ conn'[s].replies = conn[s].replies
      /\ conn'[s].rd.hd = h /\ conn'[s].sock = conn[s].sock
      /\ conn'[s].shut = conn[s].shut /\ conn'[s].peer = conn[s].peer
  BY <1>0, <1>2 DEF Conns
<1>5. /\ h \in Nat /\ conn[s].taken < h /\ h + e <= conn[s].sent /\ h <= h + e
      /\ h + e \in Nat
  BY <1>0 DEF Wire
<1>6. \A g : HasAnswer(s, g)' <=> HasAnswer(s, g)
  BY <1>4, AnswersKept
<1>7. \A g : InWork(s, g)' => g = h \/ InWork(s, g)
  BY <1>3, <1>4 DEF InWork, Works
<1>8. Order(s)'
  <2>1. \A g \in Nat : HasAnswer(s, g) => g <= conn[s].taken
    BY DEF Ordered, Order
  <2>2. \A g \in Nat : HasAnswer(s, g)' => g <= h + e
    BY <1>0, <1>5, <1>6, <2>1
  <2>3. ASSUME NEW g \in Nat, InWork(s, g)'
        PROVE  /\ 0 < g /\ g <= h + e /\ Kind(s, g) \in Headers
               /\ \A f \in Nat : HasAnswer(s, f) => f < g
    <3>1. CASE g = h
      BY <1>0, <1>1, <1>5, <2>1, <3>1
    <3>2. CASE InWork(s, g)
      BY <1>0, <1>5, <3>2 DEF Ordered, Order
    <3> QED BY <1>7, <2>3, <3>1, <3>2
  <2> QED BY <1>4, <1>5, <1>6, <2>2, <2>3 DEF Ordered, Order, Kind
<1>9. Fit(s)'
  BY <1>4, <1>6 DEF Ordered, Fit, Kind
<1>10. Turns(s)'
  BY <1>4, TurnsKept DEF Ordered
<1>11. Still(s)
  BY <1>3, <1>4, AnswersKept DEF Still, InHand, Over
<1> QED BY <1>8, <1>9, <1>10, <1>11 DEF Ordered

\* What two sequences hold one after the other does not change when the head of
\* the second becomes the last of the first.
LEMMA HeadMoves ==
  ASSUME NEW S, NEW a \in Seq(S), NEW b \in Seq(S), b # <<>>
  PROVE  Append(a, Head(b)) \o Tail(b) = a \o b
<1> DEFINE c == Append(a, Head(b)) \o Tail(b)
           d == a \o b
<1>1. /\ Len(a) \in Nat /\ Len(b) \in Nat /\ Len(b) >= 1
      /\ Head(b) \in S /\ Head(b) = b[1] /\ Tail(b) \in Seq(S)
      /\ Append(a, Head(b)) \in Seq(S)
      /\ Len(Append(a, Head(b))) = Len(a) + 1 /\ Len(Tail(b)) = Len(b) - 1
      /\ \A i \in 1 .. Len(b) - 1 : Tail(b)[i] = b[i + 1]
      /\ Append(a, Head(b))[Len(a) + 1] = b[1]
      /\ \A i \in 1 .. Len(a) : Append(a, Head(b))[i] = a[i]
  OBVIOUS
<1>2. /\ c \in Seq(S) /\ d \in Seq(S)
      /\ Len(c) = Len(a) + Len(b) /\ Len(d) = Len(a) + Len(b)
  BY <1>1
<1>3. ASSUME NEW i \in 1 .. Len(a) + Len(b) PROVE c[i] = d[i]
  <2>1. CASE i <= Len(a)
    BY <1>1, <2>1
  <2>2. CASE i = Len(a) + 1
    BY <1>1, <2>2
  <2>3. CASE i > Len(a) + 1
    <3>1. c[i] = Tail(b)[i - (Len(a) + 1)]
      BY <1>1, <2>3
    <3>2. d[i] = b[i - Len(a)]
      BY <1>1, <2>3
    <3>3. i - (Len(a) + 1) \in 1 .. Len(b) - 1 /\ (i - (Len(a) + 1)) + 1 = i - Len(a)
      BY <1>1, <2>3
    <3> QED BY <1>1, <3>1, <3>2, <3>3
  <2> QED BY <1>1, <2>1, <2>2, <2>3
<1> HIDE DEF c, d
<1>4. c = d
  BY <1>2, <1>3
<1> QED BY <1>4 DEF c, d

\* What is appended to the second is appended to both.
LEMMA TailGrows ==
  ASSUME NEW S, NEW a \in Seq(S), NEW b \in Seq(S), NEW x \in S
  PROVE  a \o Append(b, x) = Append(a \o b, x)
<1>1. <<x>> \in Seq(S) /\ a \o b \in Seq(S)
  BY ConcatProperties
<1>2. Append(b, x) = b \o <<x>> /\ Append(a \o b, x) = (a \o b) \o <<x>>
  BY <1>1, AppendIsConcat
<1>3. (a \o b) \o <<x>> = a \o (b \o <<x>>)
  BY <1>1, ConcatAssociative
<1> QED BY <1>2, <1>3

\* The numbers of the requests that a list of replies answers.
LEMMA AppendReply ==
  ASSUME NEW q \in Seq(Reply), NEW r \in Reply
  PROVE  /\ Append(q, r) \in Seq(Reply)
         /\ DOMAIN q = 1 .. Len(q) /\ DOMAIN Append(q, r) = 1 .. Len(q) + 1
         /\ Len(q) \in Nat /\ Append(q, r)[Len(q) + 1] = r
         /\ \A k \in 1 .. Len(q) : Append(q, r)[k] = q[k]
         /\ [k \in DOMAIN q |-> q[k].hd] \in Seq(Nat)
         /\ [k \in DOMAIN Append(q, r) |-> Append(q, r)[k].hd]
              = Append([k \in DOMAIN q |-> q[k].hd], r.hd)
<1> DEFINE p == Append(q, r)
           a == [k \in DOMAIN q |-> q[k].hd]
           b == [k \in DOMAIN p |-> p[k].hd]
<1>1. /\ p \in Seq(Reply) /\ DOMAIN q = 1 .. Len(q) /\ DOMAIN p = 1 .. Len(q) + 1
      /\ Len(q) \in Nat /\ p[Len(q) + 1] = r
      /\ \A k \in 1 .. Len(q) : p[k] = q[k] /\ q[k] \in Reply
      /\ \A k \in 1 .. Len(q) + 1 : p[k] \in Reply
  OBVIOUS
<1> HIDE DEF p
<1>2. a \in [1 .. Len(q) -> Nat]
  BY <1>1 DEF Reply
<1>3. a \in Seq(Nat) /\ Len(a) = Len(q)
  BY <1>1, <1>2
<1>4. b \in [1 .. Len(q) + 1 -> Nat]
  BY <1>1 DEF Reply
<1>5. b \in Seq(Nat) /\ Len(b) = Len(q) + 1
  BY <1>1, <1>4
<1> DEFINE c == Append(a, r.hd)
<1>6. /\ c \in Seq(Nat) /\ Len(c) = Len(q) + 1 /\ c[Len(q) + 1] = r.hd
      /\ \A k \in 1 .. Len(q) : c[k] = a[k]
  <2> HIDE DEF a
  <2>1. r.hd \in Nat
    BY DEF Reply
  <2> QED BY <1>1, <1>3, <2>1
<1>7. \A k \in 1 .. Len(q) + 1 : b[k] = p[k].hd
  BY <1>1
<1>8. \A k \in 1 .. Len(q) : a[k] = q[k].hd
  BY <1>1
<1> HIDE DEF a, b, c
<1>9. \A k \in 1 .. Len(q) + 1 : b[k] = c[k]
  BY <1>1, <1>6, <1>7, <1>8
<1>10. b = c
  BY <1>1, <1>5, <1>6, <1>9
<1> QED BY <1>1, <1>3, <1>10 DEF a, b, c, p

\* A late write answers what was waiting to be answered.
LEMMA LateWriteOrdered ==
  ASSUME TypeOK, NEW s \in Sessions, Ordered(s), LateWrite(s)
  PROVE  Ordered(s)' /\ Still(s)
<1>0. conn[s] \in Conns
  BY DEF TypeOK
<1> DEFINE late == Tail(conn[s].late)
           u == conn[s].unread + 1
           q == conn[s].replies
           r == [hd |-> Head(conn[s].late), len |-> 1, how |-> "stale"]
           p == Append(q, r)
<1>1. conn'[s] = [conn[s] EXCEPT !.late = late, !.unread = u, !.replies = p]
  BY UpdateEffect DEF LateWrite
<1>2. UNCHANGED <<th, tasks>> /\ conn[s].late # <<>>
  BY DEF LateWrite
<1>3. conn[s].late \in Seq(Nat) /\ q \in Seq(Reply)
  BY <1>0, FieldTypes DEF Reply
<1>4. Head(conn[s].late) \in Nat /\ r \in Reply
  BY <1>2, <1>3 DEF Reply
<1> HIDE DEF late, u, p
<1>5. /\ conn'[s].sent = conn[s].sent /\ conn'[s].eager = conn[s].eager
      /\ conn'[s].taken = conn[s].taken /\ conn'[s].script = conn[s].script
      /\ conn'[s].late = late /\ conn'[s].replies = p
      /\ conn'[s].rd = conn[s].rd /\ conn'[s].sock = conn[s].sock
      /\ conn'[s].shut = conn[s].shut
  BY <1>0, <1>1 DEF Conns
<1>6. (Answered(s) \o conn[s].late)' = Answered(s) \o conn[s].late
  <2>1. /\ Answered(s) \in Seq(Nat)
        /\ Answered(s)' = Append(Answered(s), Head(conn[s].late))
    <3>1. Answered(s) = [k \in DOMAIN q |-> q[k].hd]
      BY DEF Answered
    <3>2. Answered(s)' = [k \in DOMAIN p |-> p[k].hd]
      BY <1>5 DEF Answered
    <3>3. r.hd = Head(conn[s].late)
      OBVIOUS
    <3> HIDE DEF q, r
    <3>4. /\ [k \in DOMAIN q |-> q[k].hd] \in Seq(Nat)
          /\ [k \in DOMAIN Append(q, r) |-> Append(q, r)[k].hd]
               = Append([k \in DOMAIN q |-> q[k].hd], r.hd)
      BY <1>3, <1>4, AppendReply
    <3> QED BY <3>1, <3>2, <3>3, <3>4 DEF p
  <2>2. Append(Answered(s), Head(conn[s].late)) \o Tail(conn[s].late)
          = Answered(s) \o conn[s].late
    BY <1>2, <1>3, <2>1, HeadMoves
  <2> QED BY <1>5, <2>1, <2>2 DEF late
<1>7. \A h : HasAnswer(s, h)' => HasAnswer(s, h)
  <2>1. \A h : HasReply(s, h)' => HasReply(s, h) \/ h = Head(conn[s].late)
    BY <1>3, <1>4, <1>5, AppendReply DEF HasReply, p
  <2>2. /\ DOMAIN conn[s].late = 1 .. Len(conn[s].late) /\ Len(conn[s].late) \in Nat
        /\ Head(conn[s].late) = conn[s].late[1] /\ Len(conn[s].late) >= 1
        /\ DOMAIN late = 1 .. Len(conn[s].late) - 1
        /\ \A k \in DOMAIN late : late[k] = conn[s].late[k + 1]
    BY <1>2, <1>3 DEF late
  <2>3. \A k \in DOMAIN late : k + 1 \in DOMAIN conn[s].late
    BY <2>2
  <2>4. 1 \in DOMAIN conn[s].late
    BY <2>2
  <2> QED BY <1>5, <2>1, <2>2, <2>3, <2>4 DEF HasAnswer
<1>8. Order(s)'
  BY <1>2, <1>5, <1>7 DEF Ordered, Order, Kind, InWork, Works
<1>9. Fit(s)' /\ Turns(s)'
  BY <1>2, <1>5 DEF Ordered, Fit, Turns
<1>10. Still(s)
  BY <1>2, <1>5, <1>6 DEF Still, InHand, Over
<1> QED BY <1>8, <1>9, <1>10 DEF Ordered

\* The peer, asio and time.
LEMMA WorldOrdered ==
  ASSUME TypeOK, NEW s \in Sessions, Ordered(s),
         Environment(s) \/ Asio(s) \/ Expire(s)
  PROVE  Ordered(s)' /\ Still(s)
<1>1. CASE \/ PeerClose(s) \/ ReadFails(s) \/ Expire(s)
           \/ \E t \in CpuThreads : Request(t, s)
  <2>1. Calm(conn[s], conn'[s]) /\ Dull
    BY <1>1, WorldCalm
  <2>2. Over(s)' = Over(s)
    BY <1>1, PeerEffect, ReadEffect, ExpireEffect, OpenEffect DEF Same, Over
  <2>3. Still(s)
    BY <2>1, <2>2, DullHand, AnswersKept DEF Still, Calm
  <2> QED BY <2>1, <2>3, DullWork, CalmOrdered
<1> QED BY <1>1, PeerSendOrdered, PeerReadOrdered, ReadCompletesOrdered,
        LateWriteOrdered DEF Environment, Asio

-----------------------------------------------------------------------------
\* What is in two lists is in the one after the other.
LEMMA BothBelow ==
  ASSUME NEW a \in Seq(Nat), NEW b \in Seq(Nat), NEW r \in Nat,
         \A k \in DOMAIN a : a[k] < r, \A k \in DOMAIN b : b[k] < r
  PROVE  \A k \in DOMAIN (a \o b) : (a \o b)[k] < r
<1>1. DOMAIN (a \o b) = 1 .. Len(a) + Len(b) /\ Len(a) \in Nat /\ Len(b) \in Nat
  OBVIOUS
<1>2. ASSUME NEW k \in 1 .. Len(a) + Len(b) PROVE (a \o b)[k] < r
  <2>1. CASE k <= Len(a)
    BY <1>1, <2>1
  <2>2. CASE k > Len(a)
    <3>1. (a \o b)[k] = b[k - Len(a)] /\ k - Len(a) \in DOMAIN b
      BY <1>1, <2>2
    <3> QED BY <3>1
  <2> QED BY <1>1, <2>1, <2>2
<1> QED BY <1>1, <1>2

\* What is greater than all that is answered, in Exchange's words.
LEMMA AnsweredBelow ==
  ASSUME TypeOK, NEW s \in Sessions, NEW r \in Nat,
         \A g \in Nat : HasAnswer(s, g) => g < r
  PROVE  \A k \in DOMAIN (Answered(s) \o conn[s].late) :
           (Answered(s) \o conn[s].late)[k] < r
<1> DEFINE q == conn[s].replies
           a == Answered(s)
           b == conn[s].late
<1>0. conn[s] \in Conns
  BY DEF TypeOK
<1>1. q \in Seq(Reply) /\ b \in Seq(Nat)
  BY <1>0, FieldTypes DEF Reply
<1>2. DOMAIN q = 1 .. Len(q) /\ Len(q) \in Nat /\ \A k \in 1 .. Len(q) : q[k] \in Reply
  BY <1>1
<1>3. /\ a \in [1 .. Len(q) -> Nat]
      /\ \A k \in 1 .. Len(q) : a[k] \in Nat /\ HasReply(s, a[k])
  BY <1>2 DEF Answered, HasReply, Reply
<1>4. a \in Seq(Nat) /\ \A k \in DOMAIN a : a[k] < r
  BY <1>2, <1>3 DEF HasAnswer
<1>5. \A k \in DOMAIN b : b[k] \in Nat /\ HasAnswer(s, b[k])
  BY <1>1 DEF HasAnswer
<1> HIDE DEF a, q, b
<1> QED BY <1>1, <1>4, <1>5, BothBelow DEF a, b

\* A thread that has a request of s moves on, keeps it or gives it up.
LEMMA HandStep ==
  ASSUME TypeOK, NEW s \in Sessions, NEW t \in Threads, th[t].s = s,
         SessionInv(s), Order(s), Works(t), UNCHANGED tasks,
         \A u \in Threads \ {t} : th'[u] = th[u],
         ~Works(t)' \/ (th'[t].s = s /\ th'[t].hd = th[t].hd),
         th[t].pc \in HandPcs =>
           \/ th'[t].pc \in HandPcs
           \/ ~Works(t)' /\ Over(s),
         conn'[s].replies = conn[s].replies, conn'[s].late = conn[s].late,
         conn'[s].sock = conn[s].sock, conn'[s].shut = conn[s].shut,
         conn'[s].rd = conn[s].rd \/ conn'[s].rd.st # "ok"
  PROVE  (\A h \in Nat : InWork(s, h)' => InWork(s, h)) /\ Step(s)
<1> DEFINE h == th[t].hd
<1>0. h \in Nat
  BY DEF TypeOK, Locals
<1>1. \A j \in tasks' : j[1] # s
  BY Alone
<1>2. /\ \A g : InWork(s, g)' => th'[t].s = s /\ Works(t)' /\ g = th'[t].hd
      /\ InHand(s)' = IF th'[t].s = s /\ th'[t].pc \in HandPcs THEN {th'[t].hd} ELSE {}
  BY <1>1, OwnWorkNext
<1>3. /\ \A g : InWork(s, g) <=> g = h
      /\ InHand(s) = IF th[t].pc \in HandPcs THEN {h} ELSE {}
  BY OwnWork
<1>4. InHand(s)' = IF th'[t].pc \in HandPcs THEN {h} ELSE {}
  BY <1>2 DEF Works, HandPcs
<1>5. /\ (Answered(s) \o conn[s].late)' = Answered(s) \o conn[s].late
      /\ Over(s)' = Over(s)
  BY AnswersKept DEF Over
<1>6. \A k \in DOMAIN (Answered(s) \o conn[s].late) :
        (Answered(s) \o conn[s].late)[k] < h
  BY <1>0, <1>3, AnsweredBelow DEF Order
<1>7. CASE th[t].pc \in HandPcs /\ th'[t].pc \in HandPcs
  BY <1>2, <1>3, <1>4, <1>5, <1>7 DEF Step, Still
<1>8. CASE th[t].pc \in HandPcs /\ th'[t].pc \notin HandPcs
  <2>1. EX(s)!GiveUp
    BY <1>3, <1>4, <1>5, <1>8 DEF EX!GiveUp
  <2> QED BY <1>2, <1>3, <2>1 DEF Step, EX!Next
<1>9. CASE th[t].pc \notin HandPcs /\ th'[t].pc \in HandPcs
  <2>1. EX(s)!Receive
    BY <1>3, <1>4, <1>5, <1>6, <1>9 DEF EX!Receive
  <2> QED BY <1>2, <1>3, <2>1 DEF Step, EX!Next
<1>10. CASE th[t].pc \notin HandPcs /\ th'[t].pc \notin HandPcs
  BY <1>2, <1>3, <1>4, <1>5, <1>10 DEF Step, Still
<1> QED BY <1>7, <1>8, <1>9, <1>10

\* A step of threads that have no request.
LEMMA DullStep ==
  ASSUME NEW s \in Sessions, Ordered(s), Calm(conn[s], conn'[s]), Dull,
         Over(s)' = Over(s)
  PROVE  Ordered(s)' /\ Still(s)
<1>1. Still(s)
  BY DullHand, AnswersKept DEF Still, Calm
<1> QED BY <1>1, DullWork, CalmOrdered

\* An IO thread takes what waits for it, a header that was read with it.
LEMMA TakesOrdered ==
  ASSUME TypeOK, NEW s \in Sessions, Ordered(s), NEW t \in IoThreads,
         Accept(t, s) \/ TakeRead(t, s) \/ TakeWritten(t, s) \/ TakeTimer(t, s)
  PROVE  Ordered(s)' /\ Still(s)
<1>0. t \in Threads /\ conn[s] \in Conns
  BY DEF Threads, TypeOK
<1>1. Calm(conn[s], conn'[s])
  BY TakeCalm
<1>2. Over(s)' = Over(s)
  BY OpenEffect, TakeEffect DEF Over
<1>3. CASE ~TakeRead(t, s)
  <2>1. Dull
    BY <1>3, TakeCalm
  <2> QED BY <1>1, <1>2, <2>1, DullStep
<1>4. CASE TakeRead(t, s)
  <2> DEFINE r == conn[s].rd
             l == [Idle EXCEPT !.pc = "read", !.s = s, !.hd = r.hd,
                               !.extra = r.extra, !.aux = r.st]
  <2>1. l.pc = "read" /\ l.s = s /\ l.hd = r.hd /\ l.aux = r.st
    <3> HIDE DEF r
    <3> QED BY DEF Idle
  <2>2. Become(t, l) /\ th[t].pc = "idle" /\ UNCHANGED tasks
    BY <1>4 DEF TakeRead, At
  <2> HIDE DEF l
  <2>3. th'[t] = l /\ \A u \in Threads \ {t} : th'[u] = th[u]
    BY <1>0, <2>2, BecomeEffect
  <2>4. \A h \in Nat : InWork(s, h)' => InWork(s, h)
    <3>1. conn'[s].rd.st # "ok"
      BY <1>4, TakeEffect
    <3> QED BY <2>1, <2>2, <2>3, <3>1 DEF InWork, Works
  <2>5. InHand(s)' = InHand(s)
    <3>1. th[t].pc \notin HandPcs /\ th'[t].pc \notin HandPcs
      BY <2>1, <2>2, <2>3 DEF HandPcs
    <3>2. \A x : x \in InHand(s)' <=> x \in InHand(s)
      BY <2>2, <2>3, <3>1, HandMembers
    <3> QED BY <3>2
  <2>6. Still(s)
    BY <1>1, <1>2, <2>5, AnswersKept DEF Still, Calm
  <2> QED BY <1>1, <2>4, <2>6, CalmOrdered
<1> QED BY <1>3, <1>4

\* Close and what starts a read; only close() may end an exchange.
LEMMA CommonOrdered ==
  ASSUME TypeOK, NEW t \in Threads, NEW s \in Sessions, th[t].s = s, Ordered(s),
         CommonStep(t)
  PROVE  Ordered(s)' /\ Step(s)
<1>1. Calm(conn[s], conn'[s]) /\ Dull
  BY CommonCalm
<1>2. Over(s)' = Over(s) \/ (~Over(s) /\ Over(s)')
  <2>1. CASE Run(t) \/ Post(t) \/ Arm(t) \/ CloseTest(t) \/ CloseCancel(t)
    <3>1. conn'[s].sock = conn[s].sock /\ conn'[s].shut = conn[s].shut
      BY <2>1, RunEffect, PostEffect, ArmEffect, CloseTestEffect, CloseCancelEffect
         DEF RunMakes, PostMakes, ArmMakes, CloseTestMakes, CloseCancelMakes, Same
    <3> QED BY <3>1 DEF Over
  <2>2. CASE CloseDown(t)
    BY <2>2, CloseDownEffect DEF CloseDownMakes, Over
  <2>3. CASE CloseShut(t)
    <3>1. conn'[s].sock = "closed"
      BY <2>3, CloseShutEffect DEF CloseShutMakes
    <3>2. Over(s)'
      BY <3>1 DEF Over
    <3>3. Over(s) \in BOOLEAN /\ Over(s)' \in BOOLEAN
      BY DEF Over
    <3> QED BY <3>2, <3>3
  <2> QED BY <2>1, <2>2, <2>3 DEF CommonStep
<1>3. CASE Over(s)' = Over(s)
  BY <1>1, <1>3, DullStep DEF Step
<1>4. CASE ~Over(s) /\ Over(s)'
  <2>1. InHand(s)' = InHand(s)
    BY <1>1, DullHand
  <2>2. (Answered(s) \o conn[s].late)' = Answered(s) \o conn[s].late
    BY <1>1, AnswersKept DEF Calm
  <2>3. EX(s)!End
    BY <1>4, <2>1, <2>2 DEF EX!End
  <2>4. Ordered(s)'
    BY <1>1, DullWork, CalmOrdered
  <2> QED BY <2>3, <2>4 DEF Step, EX!Next
<1> QED BY <1>2, <1>3, <1>4

\* The rest of a body was waiting in the receive buffer.
LEMMA BodyOrdered ==
  ASSUME TypeOK, NEW t \in Threads, NEW s \in Sessions, th[t].s = s, Ordered(s),
         BodyArrives(t), \A h \in Nat : InWork(s, h)' => InWork(s, h)
  PROVE  Ordered(s)'
<1> DEFINE n == th[t].need
<1>0. /\ conn[s] \in Conns /\ n \in Nat
      /\ conn[s].sent \in Nat /\ conn[s].taken \in Nat
  BY FieldTypes DEF TypeOK, Locals
<1>1. BodyTaken(conn[s], conn'[s], n) /\ Cardinality(Wire(s)) >= n
  BY BodyArrivesFate
<1> HIDE DEF n
<1>2. Cardinality(Wire(s)) = conn[s].sent - conn[s].taken
  BY <1>0, WireSize DEF Wire, Ordered, Order
<1>3. /\ conn'[s].taken <= conn[s].sent /\ conn[s].taken <= conn'[s].taken
      /\ conn'[s].taken \in Nat
  BY <1>0, <1>1, <1>2 DEF BodyTaken
<1>4. \A h : HasAnswer(s, h)' <=> HasAnswer(s, h)
  BY <1>1, AnswersKept DEF BodyTaken
<1>5. Order(s)'
  <2>1. ASSUME NEW h \in Nat, HasAnswer(s, h)' PROVE h <= conn'[s].taken
    <3>1. h <= conn[s].taken
      BY <1>4, <2>1 DEF Ordered, Order
    <3> QED BY <1>0, <1>3, <3>1
  <2>2. ASSUME NEW h \in Nat, InWork(s, h)'
        PROVE  /\ 0 < h /\ h <= conn'[s].taken /\ Kind(s, h)' \in Headers
               /\ \A g \in Nat : HasAnswer(s, g)' => g < h
    <3>1. /\ 0 < h /\ h <= conn[s].taken /\ Kind(s, h) \in Headers
          /\ \A g \in Nat : HasAnswer(s, g) => g < h
      BY <2>2 DEF Ordered, Order
    <3>2. Kind(s, h)' = Kind(s, h)
      BY <1>1 DEF BodyTaken, Kind
    <3> QED BY <1>0, <1>3, <1>4, <3>1, <3>2
  <2>3. conn'[s].taken <= conn'[s].sent
    BY <1>1, <1>3 DEF BodyTaken
  <2> QED BY <1>1, <2>1, <2>2, <2>3 DEF Ordered, Order, BodyTaken
<1>6. Fit(s)'
  BY <1>1, <1>4 DEF Ordered, Fit, WentOut, BodyTaken, Kind
<1>7. Turns(s)'
  BY <1>1, TurnsKept DEF Ordered, BodyTaken
<1> QED BY <1>5, <1>6, <1>7 DEF Ordered

\* The request of s is read, or its reading fails.
LEMMA IoOrdered ==
  ASSUME TypeOK, NEW t \in Threads, NEW s \in Sessions, th[t].s = s, Ordered(s),
         SessionInv(s),
         \/ ReadFailed(t) \/ HeaderRead(t)
         \/ BodyArrives(t) \/ BodyFails(t) \/ Enqueue(t)
  PROVE  Ordered(s)' /\ Step(s)
<1>0. conn[s] \in Conns /\ Order(s) /\ "body" \notin HandPcs /\ "read" \notin HandPcs
  BY DEF TypeOK, Ordered, HandPcs
<1>1. conn'[s].sock = conn[s].sock /\ conn'[s].shut = conn[s].shut
  BY ReadFailedEffect, HeaderReadEffect, BodyArrivesEffect, BodyFailsEffect,
     EnqueueEffect DEF ReadFailedMakes, HeaderReadMakes, BodyArrivesMakes,
     BodyFailsMakes, EnqueueMakes, Same
<1>2. CASE ReadFailed(t) \/ HeaderRead(t) \/ BodyFails(t) \/ (Enqueue(t) /\ ~Open(s))
  <2>1. Calm(conn[s], conn'[s]) /\ UNCHANGED tasks
    BY <1>2, IoCalm, ReadFailedFate, HeaderReadFate, BodyFailsFate, EnqueueFate
  <2>2. CASE Works(t)
    <3>1. /\ \A u \in Threads \ {t} : th'[u] = th[u]
          /\ ~Works(t)' \/ (th'[t].s = s /\ th'[t].hd = th[t].hd)
      BY <1>2, ReadFailedFate, HeaderReadFate, BodyFailsFate, EnqueueFate
         DEF Drops, MovesOn
    <3>2. th[t].pc \in HandPcs => ~Works(t)' /\ Over(s)
      <4>1. conn[s].sock # "new"
        BY <2>2, Alone
      <4> QED BY <1>0, <1>2, <4>1, ReadFailedFate, HeaderReadFate, BodyFailsFate,
              EnqueueFate DEF Drops, Open, Over, Conns
    <3>3. (\A h \in Nat : InWork(s, h)' => InWork(s, h)) /\ Step(s)
      BY <1>0, <1>1, <2>1, <2>2, <3>1, <3>2, HandStep DEF Calm
    <3> QED BY <2>1, <3>3, CalmOrdered
  <2>3. CASE ~Works(t)
    <3>1. Dull
      BY <1>2, <2>1, <2>3, ReadFailedFate, HeaderReadFate, BodyFailsFate,
         EnqueueFate DEF Drops, Dull, Works
    <3> QED BY <1>1, <2>1, <3>1, DullStep DEF Step, Over
  <2> QED BY <2>2, <2>3
<1>3. CASE BodyArrives(t)
  <2>1. Works(t) /\ UNCHANGED tasks /\ BodyTaken(conn[s], conn'[s], th[t].need)
    BY <1>3, BodyArrivesFate DEF Works
  <2>2. /\ \A u \in Threads \ {t} : th'[u] = th[u]
        /\ th'[t].s = s /\ th'[t].hd = th[t].hd /\ th[t].pc \notin HandPcs
    BY <1>0, <1>3, BodyArrivesFate DEF MovesOn
  <2>3. (\A h \in Nat : InWork(s, h)' => InWork(s, h)) /\ Step(s)
    BY <1>0, <1>1, <2>1, <2>2, HandStep DEF BodyTaken
  <2> QED BY <1>3, <2>3, BodyOrdered
<1>4. CASE Enqueue(t) /\ Open(s)
  <2>1. /\ th[t].pc = "parsed" /\ Drops(t)
        /\ tasks' = tasks \cup {<<s, th[t].hd>>} /\ Calm(conn[s], conn'[s])
    BY <1>4, EnqueueFate, IoCalm
  <2>2. Works(t) /\ th[t].pc \in HandPcs
    BY <2>1 DEF Works, HandPcs
  <2>3. <<s, th[t].hd>> \in tasks' /\ \A j \in tasks' : j[1] = s => j = <<s, th[t].hd>>
    BY <2>1, <2>2, Alone
  <2>4. (\A h : InWork(s, h)' => h = th[t].hd) /\ InHand(s)' = {th[t].hd}
    BY <2>1, <2>2, <2>3, OwnWorkNext DEF Drops, Calm
  <2>5. (\A h : InWork(s, h) <=> h = th[t].hd) /\ InHand(s) = {th[t].hd}
    BY <2>2, OwnWork
  <2>6. Still(s)
    BY <1>1, <2>1, <2>4, <2>5, AnswersKept DEF Still, Calm, Over
  <2> QED BY <2>1, <2>4, <2>5, <2>6, CalmOrdered DEF Step
<1> QED BY <1>2, <1>3, <1>4

\* A worker takes the request of s and runs its handler.
LEMMA TaskOrdered ==
  ASSUME TypeOK, NEW t \in Threads, NEW s \in Sessions, Ordered(s), SessionInv(s),
         \/ \E h \in Nat : TakeTask(t, s, h)
         \/ th[t].s = s /\ (Process(t) \/ Send(t) \/ Rearm(t) \/ NextRequest(t))
  PROVE  Ordered(s)' /\ Step(s)
<1>1. Calm(conn[s], conn'[s]) /\ (Rearm(t) \/ NextRequest(t) => Dull)
  BY CpuCalm
<1>2. CASE th[t].s = s /\ (Rearm(t) \/ NextRequest(t))
  <2>1. Over(s)' = Over(s)
    BY <1>2, RearmEffect, NextRequestEffect
       DEF RearmMakes, NextRequestMakes, Same, Over
  <2> QED BY <1>1, <1>2, <2>1, DullStep DEF Step
<1>3. CASE th[t].s = s /\ Process(t)
  <2>1. /\ th[t].pc = "process" /\ UNCHANGED <<conn, tasks>>
        /\ \A u \in Threads \ {t} : th'[u] = th[u]
        /\ th'[t].s = s /\ th'[t].hd = th[t].hd /\ th'[t].pc \in HandPcs
    BY <1>3, ProcessFate DEF MovesOn, HandPcs, Process, ProcessWith
  <2>2. (\A h \in Nat : InWork(s, h)' => InWork(s, h)) /\ Step(s)
    BY <1>3, <2>1, HandStep DEF Works, Ordered
  <2> QED BY <1>1, <2>2, CalmOrdered
<1>5. CASE th[t].s = s /\ Send(t)
  <2>1. /\ th[t].pc = "send" /\ UNCHANGED <<conn, tasks>>
        /\ MovesOn(t, s, "write") \/ (~Open(s) /\ Drops(t))
    BY <1>5, SendFate
  <2>2. Works(t) /\ th[t].pc \in HandPcs
    BY <2>1 DEF Works, HandPcs
  <2>3. ~Open(s) => Over(s)
    <3>1. conn[s].sock # "new" /\ conn[s].sock \in {"new", "open", "closed"}
      BY <1>5, <2>2, Alone DEF TypeOK, Conns
    <3> QED BY <3>1 DEF Open, Over
  <2>4. /\ \A u \in Threads \ {t} : th'[u] = th[u]
        /\ ~Works(t)' \/ (th'[t].s = s /\ th'[t].hd = th[t].hd)
        /\ th'[t].pc \in HandPcs \/ (~Works(t)' /\ Over(s))
    BY <2>1, <2>3 DEF MovesOn, Drops, HandPcs
  <2>5. (\A h \in Nat : InWork(s, h)' => InWork(s, h)) /\ Step(s)
    BY <1>5, <2>1, <2>2, <2>4, HandStep DEF Ordered
  <2> QED BY <1>1, <2>5, CalmOrdered
<1>4. ASSUME NEW h \in Nat, TakeTask(t, s, h) PROVE Ordered(s)' /\ Step(s)
  <2>1. /\ th[t].pc = "idle" /\ <<s, h>> \in tasks /\ tasks' = tasks \ {<<s, h>>}
        /\ th'[t].pc = "process" /\ th'[t].s = s /\ th'[t].hd = h
        /\ \A u \in Threads \ {t} : th'[u] = th[u]
    BY <1>4, TakeTaskFate
  <2>2. UNCHANGED conn
    BY <1>4 DEF TakeTask, TakeTaskLeaving
  <2>3. <<s, h>>[1] = s /\ <<s, h>>[2] = h
    OBVIOUS
  <2>4. /\ \A j \in tasks : j[1] = s => j = <<s, h>>
        /\ \A u \in Threads : th[u].s = s => ~Works(u)
        /\ conn[s].rd.st = "none"
    <3>1. Queued(s)
      BY <2>1, <2>3 DEF Queued
    <3>2. \A u \in Threads : th[u].s = s => ~Works(u)
      BY <3>1, Alone DEF Queued
    <3> QED BY <2>1, <2>3, <3>1, <3>2 DEF SessionInv, Single, Reads
  <2>5. \A g : InWork(s, g)' => InWork(s, g)
    BY <2>1, <2>2, <2>4 DEF InWork, Works
  <2>6. \A x : x \in InHand(s) <=> x = h
    <3>1. \A u \in Threads : th[u].s = s => th[u].pc \notin HandPcs
      BY <2>4 DEF Works, HandPcs
    <3> QED BY <2>1, <2>3, <2>4, <3>1, HandMembers
  <2>7. \A x : x \in InHand(s)' <=> x = h
    <3>1. \A u \in Threads : th'[u].s = s /\ th'[u].pc \in HandPcs <=> u = t
      BY <2>1, <2>4 DEF Works, HandPcs
    <3>2. \A j \in tasks' : j[1] # s
      BY <2>1, <2>4
    <3> QED BY <2>1, <3>1, <3>2, HandMembers
  <2>8. Still(s)
    <3>1. InHand(s)' = InHand(s)
      BY <2>6, <2>7
    <3> QED BY <2>2, <3>1, AnswersKept DEF Still, Over
  <2> QED BY <1>1, <2>5, <2>8, CalmOrdered DEF Step
<1> QED BY <1>2, <1>3, <1>4, <1>5

\* All headers that have come are answered.
AllServed(s) ==
  \A g \in 1 .. conn[s].sent : Kind(s, g) \in Headers => HasReply(s, g)

\* The answer is written, or waits to be; where the connection is over it is
\* given up.
LEMMA WriteOrdered ==
  ASSUME TypeOK, NEW t \in Threads, NEW s \in Sessions, th[t].s = s, Ordered(s),
         SessionInv(s), Write(t)
  PROVE  /\ Ordered(s)' /\ Step(s)
         /\ ~Over(s) /\ ~conn[s].eager => AllServed(s)'
<1> DEFINE q == conn[s].replies
           b == conn[s].late
<1>0. conn[s] \in Conns /\ th[t].hd \in Nat
  BY DEF TypeOK, Locals
<1>h. PICK h \in Nat : h = th[t].hd
  BY <1>0
<1>1. /\ th[t].pc = "write" /\ UNCHANGED tasks /\ Drops(t)
      /\ IF Over(s) THEN UNCHANGED conn ELSE Writes(conn[s], conn'[s], h)
  BY <1>h, WriteFate
<1>2. Works(t) /\ th[t].pc \in HandPcs
  BY <1>1 DEF Works, HandPcs
<1>3. CASE Over(s)
  <2>1. (\A g \in Nat : InWork(s, g)' => InWork(s, g)) /\ Step(s)
    BY <1>1, <1>2, <1>3, HandStep DEF Drops, Ordered
  <2>2. Calm(conn[s], conn'[s])
    BY <1>0, <1>1, <1>3, CalmFields
  <2> QED BY <1>3, <2>1, <2>2, CalmOrdered
<1>4. CASE ~Over(s)
  <2>1. Writes(conn[s], conn'[s], h)
    BY <1>1, <1>4
  <2>2. /\ \A g : InWork(s, g) <=> g = h
        /\ InHand(s) = {h}
    BY <1>h, <1>2, OwnWork
  <2>3. (\A g : ~InWork(s, g)') /\ InHand(s)' = {}
    <3>1. \A j \in tasks' : j[1] # s
      BY <1>1, <1>2, Alone
    <3>2. /\ \A g : InWork(s, g)' => th'[t].s = s /\ Works(t)' /\ g = th'[t].hd
          /\ InHand(s)' = IF th'[t].s = s /\ th'[t].pc \in HandPcs
                            THEN {th'[t].hd} ELSE {}
      BY <1>1, <1>2, <3>1, OwnWorkNext DEF Drops, Writes
    <3>3. ~Works(t)' /\ th'[t].pc \notin HandPcs
      BY <1>1 DEF Drops, Works, HandPcs
    <3> QED BY <3>2, <3>3
  <2>4. /\ 0 < h /\ h <= conn[s].taken /\ conn[s].taken <= conn[s].sent
        /\ Kind(s, h) \in Headers
        /\ \A g \in Nat : HasAnswer(s, g) => g < h
    BY <1>0, <2>2 DEF Ordered, Order
  <2>5. /\ conn'[s].sent = conn[s].sent /\ conn'[s].eager = conn[s].eager
        /\ conn'[s].taken = conn[s].taken /\ conn'[s].script = conn[s].script
        /\ conn'[s].sock = conn[s].sock /\ conn'[s].shut = conn[s].shut
        /\ conn'[s].peer = conn[s].peer
    BY <2>1, WriteEffect DEF Writes, WriteMakes, Same
  <2>6. /\ q \in Seq(Reply) /\ b \in Seq(Nat) /\ Room \in Nat \ {0}
        /\ conn[s].sent \in Nat /\ conn[s].taken \in Nat
    BY <1>0, FieldTypes, SessionAssumption DEF Reply
  <2>7. /\ (Answered(s) \o b)' = Append(Answered(s) \o b, h)
        /\ \A g \in Nat : HasAnswer(s, g)' => HasAnswer(s, g) \/ g = h
        /\ \A g \in Nat : HasReply(s, g) => HasReply(s, g)'
        /\ ~conn[s].eager => Fit(s)' /\ Turns(s)' /\ AllServed(s)'
    <3>0. Answered(s) = [k \in DOMAIN q |-> q[k].hd] /\ Answered(s) \in Seq(Nat)
      <4>1. \E r : r \in Reply
        <5>1. [hd |-> 0, len |-> 0, how |-> "whole"] \in Reply
          BY DEF Reply
        <5> QED BY <5>1
      <4>2. PICK r \in Reply : TRUE
        BY <4>1
      <4>3. [k \in DOMAIN q |-> q[k].hd] \in Seq(Nat)
        <5> HIDE DEF q
        <5> QED BY <2>6, <4>2, AppendReply
      <4> QED BY <4>3 DEF Answered
    <3>1. CASE /\ b # <<>> \/ conn[s].unread = Room
               /\ conn'[s].late = Append(b, h)
               /\ conn'[s].replies = q /\ conn'[s].unread = conn[s].unread
      <4>1. Answered(s)' = Answered(s)
        BY <3>1 DEF Answered
      <4>2. Answered(s) \o Append(b, h) = Append(Answered(s) \o b, h)
        <5> HIDE DEF b
        <5>1. b \in Seq(Nat) /\ h \in Nat /\ Answered(s) \in Seq(Nat)
          BY <2>6, <3>0
        <5> QED BY <5>1, TailGrows
      <4>3. \A g \in Nat : HasReply(s, g)' <=> HasReply(s, g)
        BY <3>1 DEF HasReply
      <4>4. \A g \in Nat : HasAnswer(s, g)' => HasAnswer(s, g) \/ g = h
        <5> DEFINE c == Append(b, h)
        <5>1. /\ DOMAIN c = 1 .. Len(b) + 1 /\ DOMAIN b = 1 .. Len(b) /\ Len(b) \in Nat
              /\ c[Len(b) + 1] = h /\ \A k \in 1 .. Len(b) : c[k] = b[k]
          <6> HIDE DEF b
          <6> QED BY <1>0, <2>6
        <5>2. conn'[s].late = c
          BY <3>1
        <5> HIDE DEF c
        <5> QED BY <4>3, <5>1, <5>2 DEF HasAnswer
      <4>5. conn[s].eager
        <5>1. SUFFICES ASSUME ~conn[s].eager PROVE FALSE
          BY <1>0 DEF Conns
        <5>2. ~HasAnswer(s, h) /\ h \in 1 .. conn[s].sent
          BY <1>0, <2>4, <2>6
        <5>3. b = <<>> /\ conn[s].unread = 0
          BY <2>4, <5>1, <5>2 DEF Ordered, Fit
        <5> QED BY <2>6, <3>1, <5>3
      <4> QED BY <3>1, <4>1, <4>2, <4>3, <4>4, <4>5
    <3>2. ASSUME b = <<>>, conn'[s].late = <<>>, NEW n \in Nat \ {0}, NEW w,
                 conn'[s].replies = Append(q, [hd |-> h, len |-> n, how |-> w]),
                 \/ w = "whole" /\ n <= Room - conn[s].unread
                 \/ w = "part" /\ n > Room - conn[s].unread
                 \/ w = "failed" /\ conn[s].peer # "up"
          PROVE  /\ (Answered(s) \o b)' = Append(Answered(s) \o b, h)
                 /\ \A g \in Nat : HasAnswer(s, g)' => HasAnswer(s, g) \/ g = h
                 /\ \A g \in Nat : HasReply(s, g) => HasReply(s, g)'
                 /\ ~conn[s].eager => Fit(s)' /\ Turns(s)' /\ AllServed(s)'
      <4> DEFINE r == [hd |-> h, len |-> n, how |-> w]
                 p == Append(q, r)
      <4>1. r \in Reply /\ r.hd = h /\ r.len = n /\ r.how = w
        <5>1. w \in {"whole", "part", "failed"}
          BY <3>2
        <5> QED BY <1>0, <3>2, <5>1 DEF Reply
      <4> HIDE DEF r
      <4>2. /\ DOMAIN q = 1 .. Len(q) /\ DOMAIN p = 1 .. Len(q) + 1
            /\ Len(q) \in Nat /\ p[Len(q) + 1] = r
            /\ \A k \in 1 .. Len(q) : p[k] = q[k]
            /\ [k \in DOMAIN p |-> p[k].hd] = Append([k \in DOMAIN q |-> q[k].hd], r.hd)
        <5> HIDE DEF q
        <5> QED BY <2>6, <4>1, AppendReply
      <4>3. conn'[s].replies = p
        BY <3>2 DEF r
      <4> HIDE DEF p
      <4>4. Answered(s)' = Append(Answered(s), h)
        BY <3>0, <4>1, <4>2, <4>3 DEF Answered
      <4>5. (Answered(s) \o b)' = Append(Answered(s) \o b, h)
        <5>1. Append(Answered(s), h) \o <<>> = Append(Answered(s) \o <<>>, h)
          <6> QED BY <1>0, <3>0
        <5> QED BY <3>2, <4>4, <5>1
      <4>6. \A g \in Nat : HasReply(s, g) => HasReply(s, g)'
        <5>1. \A k \in 1 .. Len(q) : k \in 1 .. Len(q) + 1
          BY <4>2
        <5> QED BY <4>2, <4>3, <5>1 DEF HasReply
      <4>7. \A g \in Nat : HasReply(s, g)' => HasReply(s, g) \/ g = h
        <5>1. \A k \in 1 .. Len(q) + 1 : k \in 1 .. Len(q) \/ k = Len(q) + 1
          BY <4>2
        <5> QED BY <4>1, <4>2, <4>3, <5>1 DEF HasReply
      <4>8. HasReply(s, h)'
        <5>1. Len(q) + 1 \in 1 .. Len(q) + 1
          BY <4>2
        <5> QED BY <4>1, <4>2, <4>3, <5>1 DEF HasReply
      <4>9. \A g \in Nat : HasAnswer(s, g)' => HasAnswer(s, g) \/ g = h
        BY <3>2, <4>7 DEF HasAnswer
      <4>10. ASSUME ~conn[s].eager PROVE Fit(s)' /\ Turns(s)' /\ AllServed(s)'
        <5>1. h \in 1 .. conn[s].sent /\ ~HasAnswer(s, h) /\ ~HasReply(s, h)
          BY <1>0, <2>4, <2>6 DEF HasAnswer
        <5>2. conn[s].unread = 0
          BY <2>4, <4>10, <5>1 DEF Ordered, Fit
        <5>3. WentOut(r, conn[s].peer)
          BY <2>6, <3>2, <4>1, <5>2 DEF WentOut
        <5>4. \A g \in 1 .. conn[s].sent : Kind(s, g) \in Headers => HasReply(s, g)'
          <6> SUFFICES ASSUME NEW g \in 1 .. conn[s].sent, Kind(s, g) \in Headers
                       PROVE  HasReply(s, g)'
            OBVIOUS
          <6>1. ~(h < g)
            BY <2>4, <4>10, <5>1 DEF Ordered, Turns
          <6>2. CASE g < h
            <7>1. HasReply(s, g)
              BY <2>4, <4>10, <5>1, <6>2 DEF Ordered, Turns
            <7> QED BY <2>6, <4>6, <7>1
          <6>3. CASE g = h
            BY <4>8, <6>3
          <6> QED BY <1>0, <2>6, <6>1, <6>2, <6>3
        <5>5. \A k \in 1 .. Len(q) + 1 : k \in 1 .. Len(q) \/ p[k] = r
          BY <4>2
        <5>6. Fit(s)'
          <6>1. \A k \in 1 .. Len(q) + 1 :
                  WentOut(p[k], conn[s].peer)
            <7>1. \A k \in 1 .. Len(q) : WentOut(q[k], conn[s].peer)
              BY <4>2, <4>10 DEF Ordered, Fit
            <7> QED BY <4>2, <5>3, <5>5, <7>1
          <6>2. \A g \in 1 .. conn[s].sent : Kind(s, g) \in Headers => HasAnswer(s, g)'
            BY <5>4 DEF HasAnswer
          <6> QED BY <2>5, <3>2, <4>2, <4>3, <6>1, <6>2 DEF Fit, Kind
        <5>7. Turns(s)'
          <6>1. ASSUME NEW j \in 1 .. Len(q) + 1, NEW k \in 1 .. Len(q) + 1, j < k
                PROVE  p[j].hd < p[k].hd
            <7>1. j \in 1 .. Len(q)
              BY <4>2, <6>1
            <7>2. CASE k \in 1 .. Len(q)
              BY <4>2, <4>10, <6>1, <7>1, <7>2 DEF Ordered, Turns
            <7>3. CASE p[k] = r
              <8>1. q[j].hd \in Nat
                <9>1. q[j] \in Reply
                  BY <2>6, <7>1
                <9> QED BY <9>1 DEF Reply
              <8>2. HasAnswer(s, q[j].hd)
                BY <4>2, <7>1 DEF HasAnswer, HasReply
              <8> QED BY <2>4, <4>1, <4>2, <7>1, <7>3, <8>1, <8>2
            <7> QED BY <5>5, <7>2, <7>3
          <6>2. ASSUME NEW k \in 1 .. Len(q) + 1
                PROVE  p[k].hd > 0 /\ Kind(s, p[k].hd) \in Headers
            <7>1. CASE k \in 1 .. Len(q)
              BY <4>2, <4>10, <7>1 DEF Ordered, Turns
            <7>2. CASE p[k] = r
              BY <1>0, <2>4, <4>1, <7>2
            <7> QED BY <5>5, <7>1, <7>2
          <6> QED BY <2>5, <4>2, <4>3, <5>4, <6>1, <6>2 DEF Turns, Kind
        <5>8. AllServed(s)'
          BY <2>5, <5>4 DEF AllServed, Kind
        <5> QED BY <5>6, <5>7, <5>8
      <4> QED BY <4>5, <4>6, <4>9, <4>10
    <3> HIDE DEF q, b
    <3>3. \/ /\ b # <<>> \/ conn[s].unread = Room
             /\ conn'[s].late = Append(b, h)
             /\ conn'[s].replies = q /\ conn'[s].unread = conn[s].unread
          \/ /\ b = <<>> /\ conn'[s].late = <<>>
             /\ \E n \in Nat \ {0}, w \in {"whole", "part", "failed"} :
                  /\ conn'[s].replies = Append(q, [hd |-> h, len |-> n, how |-> w])
                  /\ \/ w = "whole" /\ n <= Room - conn[s].unread
                     \/ w = "part" /\ n > Room - conn[s].unread
                     \/ w = "failed" /\ conn[s].peer # "up"
      BY <2>1 DEF Writes, q, b
    <3> QED BY <3>1, <3>2, <3>3
  <2>8. Order(s)'
    <3>1. \A g \in Nat : HasAnswer(s, g)' => g <= conn[s].taken
      BY <2>4, <2>7 DEF Ordered, Order
    <3> QED BY <2>3, <2>4, <2>5, <3>1 DEF Ordered, Order
  <2>9. Fit(s)' /\ Turns(s)'
    BY <2>5, <2>7 DEF Fit, Turns
  <2>10. EX(s)!Answer
    <3>1. ~Over(s) /\ Over(s)' = Over(s)
      BY <1>4, <2>5 DEF Over
    <3> QED BY <2>2, <2>3, <2>7, <3>1 DEF EX!Answer
  <2> QED BY <1>4, <2>7, <2>8, <2>9, <2>10 DEF Ordered, Step, EX!Next
<1> QED BY <1>3, <1>4

\* A step of another session leaves this one's requests alone.
LEMMA OrderedElsewhere ==
  ASSUME NEW s \in Sessions, Others(s), NEW r \in Sessions, r # s, Ordered(r)
  PROVE  Ordered(r)' /\ Still(r)
<1>1. conn'[r] = conn[r]
  BY DEF Others
<1>2. \A u \in Threads :
        /\ th[u].s = r /\ (Works(u) \/ th[u].pc \in HandPcs) => th'[u] = th[u]
        /\ th'[u].s = r /\ (Works(u)' \/ th'[u].pc \in HandPcs) => th'[u] = th[u]
  BY DEF Others, Works, HandPcs
<1>3. \A j \in tasks \cup tasks' : j[1] = r => (j \in tasks <=> j \in tasks')
  BY DEF Others
<1>4. \A h : InWork(r, h)' => InWork(r, h)
  <2>1. \A h : <<r, h>>[1] = r
    OBVIOUS
  <2> QED BY <1>1, <1>2, <1>3, <2>1 DEF InWork, Works
<1>5. \A x : x \in InHand(r)' <=> x \in InHand(r)
  BY <1>2, <1>3, HandMembers
<1>6. Still(r)
  <2>1. InHand(r)' = InHand(r)
    BY <1>5
  <2>2. Over(r)' = Over(r)
    BY <1>1 DEF Over
  <2>3. (Answered(r) \o conn[r].late)' = Answered(r) \o conn[r].late
    BY <1>1, AnswersKept
  <2> QED BY <2>1, <2>2, <2>3 DEF Still
<1>7. Calm(conn[r], conn'[r])
  BY <1>1 DEF Calm
<1> QED BY <1>4, <1>6, <1>7, CalmOrdered

\* The first invariant, of all sessions.
AllOrdered == \A s \in Sessions : Ordered(s)

\* At the beginning nothing has been sent, read or answered.
LEMMA InitOrdered ==
  ASSUME Init PROVE AllOrdered /\ \A s \in Sessions : EX(s)!Init
<1> SUFFICES ASSUME NEW s \in Sessions PROVE Ordered(s) /\ EX(s)!Init
  BY DEF AllOrdered
<1>1. PICK p \in Scripts : conn[s] = NewConn(p)
  BY DEF Init
<1>2. /\ conn[s].sock = "new" /\ conn[s].shut = FALSE
      /\ conn[s].rd.st = "none" /\ conn[s].sent = 0
      /\ conn[s].taken = 0 /\ conn[s].late = <<>> /\ conn[s].replies = <<>>
  BY <1>1 DEF NewConn, NoRead
<1>3. \A t \in Threads : th[t].pc = "idle"
  BY DEF Init, Idle
<1>4. tasks = {}
  BY DEF Init
<1>5. \A h : ~HasAnswer(s, h) /\ ~InWork(s, h)
  BY <1>2, <1>3, <1>4 DEF HasAnswer, HasReply, InWork, Works
<1>6. Ordered(s)
  BY <1>2, <1>5 DEF Ordered, Order, Fit, Turns
<1>7. InHand(s) = {}
  BY <1>3, <1>4, HandMembers DEF HandPcs
<1>8. Answered(s) \o conn[s].late = <<>>
  <2>1. Answered(s) = <<>>
    BY <1>2 DEF Answered
  <2> QED BY <1>2, <2>1
<1>9. Over(s) = FALSE
  BY <1>2 DEF Over
<1> QED BY <1>6, <1>7, <1>8, <1>9 DEF EX!Init

\* Every step concerns one session, and the exchanges of the others stand still.
LEMMA NextOrdered ==
  ASSUME Inv, AllOrdered, Next
  PROVE  \A r \in Sessions : Ordered(r)' /\ Step(r)
<1>0. TypeOK /\ Running /\ \A s \in Sessions : SessionInv(s) /\ Ordered(s)
  BY DEF Inv, Next, AllOrdered
<1>1. SUFFICES \E s \in Sessions : Ordered(s)' /\ Step(s) /\ Others(s)
  BY <1>0, OrderedElsewhere DEF Step
<1>2. ASSUME NEW s \in Sessions, Environment(s) \/ Asio(s) \/ Expire(s)
      PROVE  Ordered(s)' /\ Step(s) /\ Others(s)
  BY <1>0, <1>2, WorldKeeps, WorldOrdered DEF Step
<1>3. ASSUME NEW t \in IoThreads, IoStep(t)
      PROVE  \E s \in Sessions : Ordered(s)' /\ Step(s) /\ Others(s)
  <2>1. th[t].s \in Sessions /\ t \in Threads
    BY <1>0 DEF TypeOK, Threads, Locals
  <2>2. ASSUME NEW s \in Sessions,
               Accept(t, s) \/ TakeRead(t, s) \/ TakeWritten(t, s) \/ TakeTimer(t, s)
        PROVE  Ordered(s)' /\ Step(s) /\ Others(s)
    BY <1>0, <2>2, TakesKeep, TakesOrdered DEF Step
  <2>3. CASE \/ ReadFailed(t) \/ HeaderRead(t)
             \/ BodyArrives(t) \/ BodyFails(t) \/ Enqueue(t)
    BY <1>0, <2>1, <2>3, IoKeeps, IoOrdered
  <2> QED BY <1>3, <2>2, <2>3 DEF IoStep
<1>4. ASSUME NEW t \in CpuThreads, CpuStep(t)
      PROVE  \E s \in Sessions : Ordered(s)' /\ Step(s) /\ Others(s)
  <2>1. th[t].s \in Sessions /\ t \in Threads
    BY <1>0 DEF TypeOK, Threads, Locals
  <2>2. \A j \in tasks : j[1] \in Sessions /\ j[2] \in Nat
    BY <1>0 DEF TypeOK
  <2>3. ASSUME NEW j \in tasks, TakeTask(t, j[1], j[2])
        PROVE  \E s \in Sessions : Ordered(s)' /\ Step(s) /\ Others(s)
    BY <1>0, <2>1, <2>2, <2>3, CpuKeeps, TaskOrdered
  <2>4. CASE Process(t) \/ Send(t) \/ Rearm(t) \/ NextRequest(t)
    BY <1>0, <2>1, <2>4, CpuKeeps, TaskOrdered
  <2>5. CASE Write(t)
    BY <1>0, <2>1, <2>5, CpuKeeps, WriteOrdered
  <2> QED BY <1>4, <2>3, <2>4, <2>5 DEF CpuStep
<1>5. ASSUME NEW t \in Threads, CommonStep(t)
      PROVE  \E s \in Sessions : Ordered(s)' /\ Step(s) /\ Others(s)
  <2>1. th[t].s \in Sessions
    BY <1>0 DEF TypeOK, Locals
  <2> QED BY <1>0, <1>5, <2>1, CommonKeeps, CommonOrdered
<1> QED BY <1>2, <1>3, <1>4, <1>5 DEF Next

\* A step that changes nothing leaves every exchange as it is.
LEMMA StutterOrdered ==
  ASSUME AllOrdered, UNCHANGED vars
  PROVE  \A r \in Sessions : Ordered(r)' /\ Step(r)
<1> SUFFICES ASSUME NEW r \in Sessions PROVE Ordered(r)' /\ Step(r)
  OBVIOUS
<1>1. Calm(conn[r], conn'[r]) /\ Dull /\ UNCHANGED conn
  BY DEF vars, Calm, Dull
<1> QED BY <1>1, DullStep DEF Step, AllOrdered, Over

(* Whatever the peers send and however the threads interleave, answers are *)
(* given in the order of the requests, to requests that have been read, by *)
(* the one that is in work (http_session.cpp:42-72, 118-136).              *)
THEOREM OrderedAlways == Spec => []AllOrdered
<1>1. Init => AllOrdered
  BY InitOrdered
<1>2. Inv /\ AllOrdered /\ [Next]_vars => AllOrdered'
  BY NextOrdered, StutterOrdered DEF AllOrdered
<1> QED BY <1>1, <1>2, Invariance, PTL DEF Spec

(* Every session implements Exchange: it takes one request at a time, in   *)
(* order, answers the one it has and no other, once, and gives it up only  *)
(* when the connection is over (http_session.cpp:42-72, 118-136).          *)
THEOREM ExchangeRefinement == Spec => ExchangeSpec
<1> DEFINE Steps == \A s \in Sessions : [EX(s)!Next]_(EX(s)!vars)
<1>1. Init => \A s \in Sessions : EX(s)!Init
  BY InitOrdered
<1>2. Inv /\ AllOrdered /\ [Next]_vars => [Steps]_vars
  <2> SUFFICES ASSUME Inv, AllOrdered, Next, NEW s \in Sessions
               PROVE  [EX(s)!Next]_(EX(s)!vars)
    OBVIOUS
  <2>1. Step(s)
    BY NextOrdered
  <2>2. Still(s) => UNCHANGED EX(s)!vars
    BY DEF Still, EX!vars
  <2> QED BY <2>1, <2>2 DEF Step
<1> HIDE DEF Steps
<1>3. Spec => (\A s \in Sessions : EX(s)!Init) /\ [][Steps]_vars
  BY <1>1, <1>2, Invariance, OrderedAlways, PTL DEF Spec
<1> QED BY <1>3 DEF ExchangeSpec, Steps

(* A peer that waits for its turn gets every response whole that fits what *)
(* a socket takes at once, and nothing late (http_session.cpp:129-134).    *)
THEOREM FittingAlways == Spec => []FittingAnswersAreWhole
<1>1. AllOrdered => FittingAnswersAreWhole
  BY DEF AllOrdered, Ordered, Fit, WentOut, FittingAnswersAreWhole
<1> QED BY <1>1, OrderedAlways, PTL

-----------------------------------------------------------------------------
\* A step of something that would carry s forward, which leaves the socket and
\* the time alone.
LEMMA QuietKept ==
  ASSUME NEW s \in Sessions, QuietEnd(s), ~Nobody(s),
         conn'[s].sock = conn[s].sock, conn'[s].timedOut = conn[s].timedOut
  PROVE  QuietEnd(s)'
  BY DEF QuietEnd

\* No quiet end comes from the peer, asio or time.
LEMMA QuietWorld ==
  ASSUME TypeOK, NEW s \in Sessions, QuietEnd(s),
         Environment(s) \/ Asio(s) \/ Expire(s)
  PROVE  QuietEnd(s)'
<1>1. UNCHANGED <<th, tasks>>
  BY DEF Environment, PeerSend, PeerClose, PeerRead, Request, Asio,
         ReadCompletes, ReadFails, LateWrite, Expire
<1> USE DEF QuietEnd, Nobody, Carries, Queued, Reads
<1>2. CASE PeerSend(s) \/ PeerClose(s) \/ PeerRead(s) \/ LateWrite(s)
  BY <1>1, <1>2, PeerEffect DEF Same
<1>3. CASE ReadCompletes(s) \/ ReadFails(s)
  BY <1>3, ReadEffect DEF ReadCompletes, ReadFails, Open
<1>4. CASE Expire(s)
  BY <1>4, ExpireEffect
<1>5. ASSUME NEW t \in CpuThreads, Request(t, s) PROVE QuietEnd(s)'
  BY <1>5, OpenEffect
<1> QED BY <1>2, <1>3, <1>4, <1>5 DEF Environment, Asio

\* A handler that waits belongs to a session that goes on, or that timed out.
LEMMA QuietTakes ==
  ASSUME TypeOK, NEW s \in Sessions, SessionInv(s), QuietEnd(s), NEW t \in IoThreads,
         Accept(t, s) \/ TakeRead(t, s) \/ TakeWritten(t, s) \/ TakeTimer(t, s)
  PROVE  QuietEnd(s)'
<1>1. CASE Accept(t, s)
  BY <1>1, OpenEffect DEF QuietEnd
<1>2. CASE TakeRead(t, s) \/ TakeWritten(t, s)
  <2>1. ~Nobody(s)
    BY <1>2, TakeEffect DEF Nobody, Reads
  <2> QED BY <1>2, <2>1, TakeEffect, QuietKept
<1>3. CASE TakeTimer(t, s)
  BY <1>3, TakeEffect DEF QuietEnd, SessionInv, Timeouts
<1> QED BY <1>1, <1>2, <1>3

\* Who is in the middle of a session carries it, or times it out.
LEMMA BusyCarries ==
  ASSUME NEW s \in Sessions, SessionInv(s), NEW t \in Threads, th[t].s = s,
         th[t].pc \notin {"idle", "arm"}
  PROVE  \/ Carries(t, s) /\ ~Nobody(s) /\ conn[s].rd.st = "none"
         \/ th[t].aux = "timeout" /\ conn[s].timedOut
  BY DEF Carries, Nobody, SessionInv, Timeouts, Single, Reads

\* The thread that closes a session without a timeout was the last to carry it.
LEMMA QuietCommon ==
  ASSUME TypeOK, NEW t \in Threads, NEW s \in Sessions, th[t].s = s, SessionInv(s),
         QuietEnd(s), CommonStep(t)
  PROVE  QuietEnd(s)' /\ conn'[s].timedOut = conn[s].timedOut
<1>1. conn'[s].timedOut = conn[s].timedOut
  BY RunEffect, PostEffect, ArmEffect, CloseTestEffect, CloseCancelEffect,
     CloseDownEffect, CloseShutEffect DEF CommonStep, RunMakes, PostMakes, ArmMakes,
     CloseTestMakes, CloseCancelMakes, CloseDownMakes, CloseShutMakes, Same
<1>2. CASE Arm(t)
  <2>1. ArmMakes(t, s) /\ UNCHANGED tasks
    BY <1>2, ArmEffect DEF Arm
  <2> QED BY <1>1, <2>1 DEF ArmMakes, Leaves, Same, QuietEnd, Nobody, Carries,
          Queued, Reads
<1>3. CASE Run(t) \/ Post(t) \/ CloseTest(t) \/ CloseCancel(t) \/ CloseDown(t)
  <2>1. th[t].pc \notin {"idle", "arm"} /\ conn'[s].sock = conn[s].sock
    BY <1>3, RunEffect, PostEffect, CloseTestEffect, CloseCancelEffect,
       CloseDownEffect
       DEF RunMakes, PostMakes, CloseTestMakes, CloseCancelMakes, CloseDownMakes, Same
  <2> QED BY <1>1, <2>1, BusyCarries, QuietKept DEF QuietEnd
<1>4. CASE CloseShut(t)
  <2>1. CloseShutMakes(t, s) /\ UNCHANGED tasks
    BY <1>4, CloseShutEffect DEF CloseShut
  <2>2. \/ Carries(t, s) /\ ~Nobody(s) /\ conn[s].rd.st = "none"
        \/ conn[s].timedOut
    BY <2>1, BusyCarries DEF CloseShutMakes
  <2>3. CASE conn[s].timedOut
    BY <1>1, <2>3 DEF QuietEnd
  <2>4. CASE Carries(t, s)
    <3>1. ~Queued(s) /\ ~conn[s].written /\ ~Reads(s)
      BY <2>4 DEF SessionInv, Single
    <3>2. \A u \in Threads \ {t} : ~Carries(u, s)
      BY <2>4 DEF SessionInv, Single
    <3>3. Nobody(s)'
      BY <2>1, <3>1, <3>2 DEF CloseShutMakes, Leaves, Nobody, Carries, Queued, Reads
    <3> QED BY <1>1, <3>3 DEF QuietEnd
  <2> QED BY <2>2, <2>3, <2>4
<1> QED BY <1>1, <1>2, <1>3, <1>4 DEF CommonStep

\* While a request is read or processed only a timeout closes the socket.
LEMMA QuietWorker ==
  ASSUME TypeOK, NEW t \in Threads, NEW s \in Sessions, SessionInv(s), QuietEnd(s),
         \/ \E h \in Nat : TakeTask(t, s, h)
         \/ /\ th[t].s = s
            /\ \/ ReadFailed(t) \/ HeaderRead(t) \/ BodyArrives(t) \/ BodyFails(t)
               \/ Enqueue(t) \/ Process(t) \/ Send(t) \/ Write(t)
               \/ Rearm(t) \/ NextRequest(t)
  PROVE  /\ QuietEnd(s)' /\ conn'[s].timedOut = conn[s].timedOut
         /\ conn'[s].sock = conn[s].sock
         /\ conn[s].sock = "closed" => conn[s].timedOut
<1>1. ASSUME NEW h \in Nat, TakeTask(t, s, h)
      PROVE  ~Nobody(s) /\ UNCHANGED conn
  <2>1. <<s, h>> \in tasks /\ <<s, h>>[1] = s /\ UNCHANGED conn
    BY <1>1, TakeTaskFate DEF TakeTask, TakeTaskLeaving
  <2> QED BY <2>1 DEF Nobody, Queued
<1>2. ASSUME th[t].s = s,
             \/ ReadFailed(t) \/ HeaderRead(t) \/ BodyArrives(t) \/ BodyFails(t)
             \/ Enqueue(t) \/ Process(t) \/ Send(t) \/ Write(t)
             \/ Rearm(t) \/ NextRequest(t)
      PROVE  /\ ~Nobody(s) \/ conn[s].timedOut
             /\ conn'[s].sock = conn[s].sock /\ conn'[s].timedOut = conn[s].timedOut
  <2>1. th[t].pc \notin {"idle", "arm"}
    BY <1>2 DEF ReadFailed, HeaderRead, BodyArrives, BodyFails, BodyEnds, Enqueue,
       EnqueueThen, Process, ProcessWith, Send, SendIf, Write, Rearm, NextRequest,
       At
  <2>2. conn'[s].sock = conn[s].sock /\ conn'[s].timedOut = conn[s].timedOut
    BY <1>2, ReadFailedEffect, HeaderReadEffect, BodyArrivesEffect, BodyFailsEffect,
       EnqueueEffect, ProcessEffect, SendEffect, WriteEffect, RearmEffect,
       NextRequestEffect
       DEF ReadFailedMakes, HeaderReadMakes, BodyArrivesMakes, BodyFailsMakes,
           EnqueueMakes, ProcessMakes, SendMakes, WriteMakes, RearmMakes,
           NextRequestMakes, Same
  <2> QED BY <1>2, <2>1, <2>2, BusyCarries
<1> QED BY <1>1, <1>2, QuietKept DEF QuietEnd

-----------------------------------------------------------------------------
\* Whose turn it is has no answer yet, and all others have theirs.
LEMMA OneInTurn ==
  ASSUME TypeOK, NEW s \in Sessions, Order(s), Turns(s), ~conn[s].eager,
         NEW h \in 1 .. conn[s].sent, Kind(s, h) \in Headers, ~HasReply(s, h),
         NEW g \in 1 .. conn[s].sent, Kind(s, g) \in Headers, g # h
  PROVE  g < h /\ HasReply(s, g)
<1>1. conn[s].sent \in Nat
  BY FieldTypes DEF TypeOK
<1>2. ~(h < g)
  BY DEF Turns
<1>3. g < h
  BY <1>1, <1>2
<1> QED BY <1>3 DEF Turns

\* The framing is kept where nothing is taken and nothing begins to read.
LEMMA FramedKept ==
  ASSUME NEW s \in Sessions, Framed(s), Running,
         conn'[s].taken = conn[s].taken, conn'[s].script = conn[s].script,
         conn'[s].rd = conn[s].rd \/ conn'[s].rd.st # "ok",
         conn[s].eager => conn'[s].eager,
         \A u \in Threads : \/ th'[u] = th[u]
                            \/ /\ th'[u].pc # "body"
                               /\ ~(th'[u].pc = "read" /\ th'[u].aux = "ok")
  PROVE  Framed(s)'
  BY DEF Framed, Kind

\* No request is forgotten where what is in work stays so or is answered.
LEMMA NoneKept ==
  ASSUME NEW s \in Sessions, NoneForgotten(s),
         conn'[s].taken = conn[s].taken, conn'[s].script = conn[s].script,
         conn[s].timedOut => conn'[s].timedOut, conn[s].eager => conn'[s].eager,
         conn'[s].eager \/ conn'[s].replies = conn[s].replies,
         \A h \in 1 .. conn[s].taken :
           InWork(s, h) /\ Complete(s, h) => InWork(s, h)' \/ conn'[s].timedOut
  PROVE  NoneForgotten(s)'
<1> SUFFICES ASSUME Patient(s)', NEW h \in 1 .. conn[s].taken, Complete(s, h)'
             PROVE  HasReply(s, h)' \/ InWork(s, h)'
  BY DEF NoneForgotten
<1>1. Patient(s) /\ ~conn'[s].timedOut /\ conn'[s].replies = conn[s].replies
  BY DEF Patient
<1>2. Complete(s, h)
  BY DEF Complete, Kind
<1>3. HasReply(s, h) \/ InWork(s, h)
  BY <1>1, <1>2 DEF NoneForgotten
<1> QED BY <1>1, <1>2, <1>3 DEF HasReply

\* What is known of the end of s, of its framing and of what it has taken.
Settled(s) == QuietEnd(s) /\ Framed(s) /\ NoneForgotten(s)

\* What the peer sends and reads, and a late write, leave to the session what it
\* has taken.
LEMMA PeerFate ==
  ASSUME TypeOK, NEW s \in Sessions, Ordered(s),
         PeerSend(s) \/ PeerRead(s) \/ LateWrite(s)
  PROVE  /\ conn'[s].taken = conn[s].taken /\ conn'[s].script = conn[s].script
         /\ conn'[s].rd = conn[s].rd /\ conn'[s].timedOut = conn[s].timedOut
         /\ conn[s].eager => conn'[s].eager
         /\ conn'[s].eager \/ conn'[s].replies = conn[s].replies
<1>0. conn[s] \in Conns
  BY DEF TypeOK
<1>1. CASE PeerSend(s)
  <2> DEFINE k == conn[s].sent + 1
             waits == /\ Len(conn[s].replies) = Cardinality(HeadersSent(s))
                      /\ conn[s].unread = 0
             a == Kind(s, k) \in Headers /\ ~waits
             e == conn[s].eager \/ a
  <2>1. conn'[s] = [conn[s] EXCEPT !.sent = k, !.eager = e]
    BY <1>1, UpdateEffect DEF PeerSend
  <2>2. conn[s].eager => e
    OBVIOUS
  <2> HIDE DEF k, e
  <2> QED BY <1>0, <2>1, <2>2 DEF Conns
<1>2. CASE PeerRead(s)
  <2>1. PICK n \in 0 .. conn[s].unread - 1 : conn'[s] = [conn[s] EXCEPT !.unread = n]
    BY <1>2, UpdateEffect DEF PeerRead
  <2> QED BY <1>0, <2>1 DEF Conns
<1>3. CASE LateWrite(s)
  <2> DEFINE late == Tail(conn[s].late)
             u == conn[s].unread + 1
             p == Append(conn[s].replies,
                         [hd |-> Head(conn[s].late), len |-> 1, how |-> "stale"])
  <2>1. conn'[s] = [conn[s] EXCEPT !.late = late, !.unread = u, !.replies = p]
    BY <1>3, UpdateEffect DEF LateWrite
  <2>2. conn[s].eager
    BY <1>0, <1>3 DEF Ordered, Fit, LateWrite, Conns
  <2> HIDE DEF late, u, p
  <2> QED BY <1>0, <2>1, <2>2 DEF Conns
<1> QED BY <1>1, <1>2, <1>3

\* A header that is found was awaited: all before it have their answers.
LEMMA ReadCompletesSettled ==
  ASSUME TypeOK, Running, NEW s \in Sessions, SessionInv(s), Ordered(s), Settled(s),
         ReadCompletes(s)
  PROVE  Framed(s)' /\ NoneForgotten(s)'
<1>0. conn[s] \in Conns /\ conn[s].sent \in Nat /\ conn[s].taken \in Nat
  BY FieldTypes DEF TypeOK
<1>1. PICK h \in Wire(s) :
        /\ Kind(s, h) \in Headers
        /\ \E e \in 0 .. conn[s].sent - h :
             Update(s, [conn[s] EXCEPT !.rd = [st |-> "ok", hd |-> h, extra |-> e],
                                       !.taken = h + e])
  BY DEF ReadCompletes
<1>2. PICK e \in 0 .. conn[s].sent - h :
         conn'[s] = [conn[s] EXCEPT !.rd = [st |-> "ok", hd |-> h, extra |-> e],
                                    !.taken = h + e]
  BY <1>1, UpdateEffect
<1>3. UNCHANGED <<th, tasks, crash>> /\ conn[s].rd.st = "pending"
  BY DEF ReadCompletes
<1>4. /\ conn'[s].sent = conn[s].sent /\ conn'[s].eager = conn[s].eager
      /\ conn'[s].taken = h + e /\ conn'[s].script = conn[s].script
      /\ conn'[s].replies = conn[s].replies /\ conn'[s].rd.st = "ok"
      /\ conn'[s].rd.hd = h /\ conn'[s].rd.extra = e
  BY <1>0, <1>2 DEF Conns
<1>5. /\ h \in 1 .. conn[s].sent /\ conn[s].taken < h /\ h + e <= conn[s].sent
      /\ h + e \in Nat /\ h \in Nat
  BY <1>0 DEF Wire
<1>6. Framed(s)'
  <2>1. \A u \in Threads : th[u].s = s => ~Works(u)
    BY <1>3, Alone
  <2> QED BY <1>3, <1>4, <2>1 DEF Framed, Works
<1>7. NoneForgotten(s)'
  <2> SUFFICES ASSUME ~conn[s].eager, NEW g \in 1 .. h + e, Complete(s, g)'
               PROVE  HasReply(s, g)' \/ InWork(s, g)'
    BY <1>4 DEF NoneForgotten, Patient
  <2>1. g \in 1 .. conn[s].sent /\ Kind(s, g) \in Headers
    BY <1>0, <1>4, <1>5 DEF Complete, Kind, Headers
  <2>2. ~HasReply(s, h)
    BY <1>0, <1>5 DEF Ordered, Order, HasAnswer
  <2>3. CASE g = h
    BY <1>4, <2>3 DEF InWork
  <2>4. CASE g # h
    <3>1. HasReply(s, g)
      BY <1>1, <1>5, <2>1, <2>2, <2>4, OneInTurn DEF Ordered
    <3> QED BY <1>4, <3>1 DEF HasReply
  <2> QED BY <2>3, <2>4
<1> QED BY <1>6, <1>7

\* The peer, asio and time keep a session settled,
LEMMA WorldSettled ==
  ASSUME TypeOK, Running, NEW s \in Sessions, SessionInv(s), Ordered(s), Settled(s),
         Environment(s) \/ Asio(s) \/ Expire(s)
  PROVE  Settled(s)'
<1>0. QuietEnd(s)'
  BY QuietWorld DEF Settled
<1>1. UNCHANGED <<th, tasks, crash>>
  BY DEF Environment, PeerSend, PeerClose, PeerRead, Request, Asio,
         ReadCompletes, ReadFails, LateWrite, Expire
<1>2. CASE \/ PeerClose(s) \/ ReadFails(s) \/ Expire(s)
           \/ \E t \in CpuThreads : Request(t, s)
  <2>1. Calm(conn[s], conn'[s])
    BY <1>2, WorldCalm
  <2>2. /\ conn[s].timedOut => conn'[s].timedOut
        /\ conn'[s].rd = conn[s].rd \/ conn[s].rd.st # "ok"
    BY <1>2, PeerEffect, ReadEffect, ExpireEffect, OpenEffect DEF Same
  <2>3. Framed(s)'
    BY <1>1, <2>1, FramedKept DEF Settled, Calm
  <2>4. \A h : InWork(s, h) => InWork(s, h)'
    BY <1>1, <2>2 DEF InWork, Works
  <2>5. NoneForgotten(s)'
    BY <2>1, <2>2, <2>4, NoneKept DEF Settled, Calm
  <2> QED BY <1>0, <2>3, <2>5 DEF Settled
<1>3. CASE PeerSend(s) \/ PeerRead(s) \/ LateWrite(s)
  <2>1. \A h : InWork(s, h) => InWork(s, h)'
    BY <1>1, <1>3, PeerFate DEF InWork, Works
  <2>2. Framed(s)' /\ NoneForgotten(s)'
    BY <1>1, <1>3, <2>1, PeerFate, FramedKept, NoneKept DEF Settled
  <2> QED BY <1>0, <2>2 DEF Settled
<1> QED BY <1>0, <1>2, <1>3, ReadCompletesSettled DEF Environment, Asio, Settled

\* so does a thread that picks a handler up: the request of a read is now its own,
LEMMA TakesSettled ==
  ASSUME TypeOK, Running, NEW s \in Sessions, SessionInv(s), Ordered(s), Settled(s),
         NEW t \in IoThreads,
         Accept(t, s) \/ TakeRead(t, s) \/ TakeWritten(t, s) \/ TakeTimer(t, s)
  PROVE  Settled(s)'
<1>0. QuietEnd(s)' /\ t \in Threads /\ conn[s] \in Conns
  BY QuietTakes DEF Settled, Threads, TypeOK
<1>1. Calm(conn[s], conn'[s]) /\ conn'[s].timedOut = conn[s].timedOut
  BY TakeCalm, OpenEffect, TakeEffect
<1>2. CASE ~TakeRead(t, s)
  <2>1. Dull /\ conn'[s].rd = conn[s].rd
    BY <1>2, TakeCalm, OpenEffect, TakeEffect
  <2>2. \A h : InWork(s, h) => InWork(s, h)'
    BY <2>1 DEF InWork, Dull, Works
  <2>3. Framed(s)'
    BY <1>1, <2>1, FramedKept DEF Settled, Calm, Dull, Works
  <2>4. NoneForgotten(s)'
    BY <1>1, <2>2, NoneKept DEF Settled, Calm
  <2> QED BY <1>0, <2>3, <2>4 DEF Settled
<1>3. CASE TakeRead(t, s)
  <2> DEFINE r == conn[s].rd
             l == [Idle EXCEPT !.pc = "read", !.s = s, !.hd = r.hd,
                               !.extra = r.extra, !.aux = r.st]
  <2>1. /\ l.pc = "read" /\ l.s = s /\ l.hd = r.hd /\ l.aux = r.st
        /\ l.extra = r.extra
    <3> HIDE DEF r
    <3> QED BY DEF Idle
  <2>2. /\ Become(t, l) /\ th[t].pc = "idle" /\ UNCHANGED tasks
        /\ conn'[s].rd.st = "none"
    BY <1>3, TakeEffect DEF TakeRead, At
  <2> HIDE DEF l
  <2>3. th'[t] = l /\ \A u \in Threads \ {t} : th'[u] = th[u]
    BY <1>0, <2>2, BecomeEffect
  <2>4. \A h : InWork(s, h) => InWork(s, h)'
    BY <1>0, <2>1, <2>2, <2>3 DEF InWork, Works
  <2>5. NoneForgotten(s)'
    BY <1>1, <2>4, NoneKept DEF Settled, Calm
  <2>6. Framed(s)'
    BY <1>1, <2>1, <2>2, <2>3 DEF Settled, Framed, Calm, Kind
  <2> QED BY <1>0, <2>5, <2>6 DEF Settled
<1> QED BY <1>2, <1>3

\* and what both kinds of threads do.
LEMMA CommonSettled ==
  ASSUME TypeOK, Running, NEW t \in Threads, NEW s \in Sessions, th[t].s = s,
         SessionInv(s), Settled(s), CommonStep(t)
  PROVE  Settled(s)'
<1>1. Calm(conn[s], conn'[s]) /\ Dull
  BY CommonCalm
<1>2. QuietEnd(s)' /\ conn'[s].timedOut = conn[s].timedOut
  BY QuietCommon DEF Settled
<1>3. Framed(s)'
  BY <1>1, FramedKept DEF Settled, Calm, Dull, Works
<1>4. conn'[s].rd = conn[s].rd \/ conn[s].rd.st = "none" \/ conn[s].timedOut
  <2>1. CASE Arm(t)
    BY <2>1, ArmEffect DEF ArmMakes, Same
  <2>2. CASE ~Arm(t)
    <3>1. th[t].pc \notin {"idle", "arm"}
      BY <2>2 DEF CommonStep, Run, Post, CloseTest, CloseCancel, CloseDown, CloseShut,
         At
    <3> QED BY <3>1, BusyCarries
  <2> QED BY <2>1, <2>2
<1>5. \A h : InWork(s, h) => InWork(s, h)' \/ conn'[s].timedOut
  BY <1>1, <1>2, <1>4 DEF InWork, Dull, Works
<1>6. NoneForgotten(s)'
  BY <1>1, <1>2, <1>5, NoneKept DEF Settled, Calm
<1> QED BY <1>2, <1>3, <1>6 DEF Settled

\* A thread that moves on with a request still has it.
LEMMA WorkCarried ==
  ASSUME NEW s \in Sessions, SessionInv(s), NEW t \in Threads, th[t].s = s, Works(t),
         NEW p \in {"body", "parsed", "process", "send", "write"}, MovesOn(t, s, p)
  PROVE  \A h : InWork(s, h) => InWork(s, h)'
<1>1. th'[t].s = s /\ Works(t)' /\ th'[t].hd = th[t].hd
  BY DEF MovesOn, Works
<1>2. \A h : InWork(s, h) => h = th[t].hd
  BY OwnWork
<1> QED BY <1>1, <1>2 DEF InWork

\* The request in hand has no answer, and what was sent after it is no header.
LEMMA InTurn ==
  ASSUME TypeOK, NEW s \in Sessions, Ordered(s), ~conn[s].eager,
         NEW t \in Threads, th[t].s = s, Works(t)
  PROVE  /\ th[t].hd \in 1 .. conn[s].sent
         /\ \A g \in 1 .. conn[s].sent :
              Kind(s, g) \in Headers /\ g # th[t].hd => g < th[t].hd /\ HasReply(s, g)
<1>1. th[t].hd \in Nat /\ conn[s].sent \in Nat /\ conn[s].taken \in Nat
  BY FieldTypes DEF TypeOK, Locals
<1>2. InWork(s, th[t].hd)
  BY DEF InWork
<1>3. /\ 0 < th[t].hd /\ th[t].hd <= conn[s].taken /\ conn[s].taken <= conn[s].sent
      /\ Kind(s, th[t].hd) \in Headers /\ ~HasAnswer(s, th[t].hd)
  BY <1>1, <1>2 DEF Ordered, Order
<1>4. th[t].hd \in 1 .. conn[s].sent /\ ~HasReply(s, th[t].hd)
  BY <1>1, <1>3 DEF HasAnswer
<1> QED BY <1>3, <1>4, OneInTurn DEF Ordered

\* No more than a body comes with a header, and what is missing is all of it.
LEMMA BodyWaited ==
  ASSUME TypeOK, WellFramed, Running, NEW s \in Sessions, Ordered(s), Framed(s),
         ~conn[s].eager, NEW t \in Threads, th[t].s = s,
         th[t].pc = "read", th[t].aux = "ok", BodyNotLoaded(th[t].extra) # 0
  PROVE  conn[s].taken = th[t].hd
<1> DEFINE h == th[t].hd
           e == th[t].extra
           p == conn[s].script
<1>1. h \in Nat /\ e \in Nat /\ conn[s].sent \in Nat /\ p \in Scripts
  BY FieldTypes DEF TypeOK, Locals, Conns
<1>2. conn[s].taken = h + e
  BY DEF Framed
<1>3. /\ h \in 1 .. conn[s].sent /\ Works(t)
      /\ \A g \in 1 .. conn[s].sent : Kind(s, g) \in Headers => ~(h < g)
  <2>1. Works(t)
    BY DEF Works
  <2> QED BY <1>1, <2>1, InTurn
<1>4. h + e <= conn[s].sent /\ conn[s].sent <= Len(p)
  BY <1>2 DEF Ordered, Order
<1>5. p \in Seq(Headers \cup {"body"})
  BY <1>1, SessionAssumption
<1>6. \A k \in Nat : h < k /\ k <= h + e => p[k] = "body"
  <2> SUFFICES ASSUME NEW k \in Nat, h < k, k <= h + e PROVE p[k] = "body"
    OBVIOUS
  <2>1. k \in 1 .. conn[s].sent /\ k \in 1 .. Len(p)
    BY <1>1, <1>3, <1>4, <1>5
  <2>2. p[k] \in Headers \cup {"body"}
    BY <1>5, <2>1
  <2> HIDE DEF h, e
  <2> QED BY <1>3, <2>1, <2>2 DEF Kind
<1>7. ~(e >= 2)
  <2> SUFFICES ASSUME e >= 2 PROVE FALSE
    OBVIOUS
  <2>1. h + 1 \in Nat /\ h + 2 \in Nat /\ h < h + 1 /\ h < h + 2
        /\ h + 1 <= h + e /\ h + 2 <= h + e /\ (h + 2) - 1 = h + 1
    BY <1>1
  <2>2. p[h + 1] = "body" /\ p[h + 2] = "body"
    BY <1>6, <2>1
  <2>3. h + 2 \in 1 .. Len(p)
    <3>1. Len(p) \in Nat /\ e \in Nat /\ h \in Nat
      BY <1>1, <1>5
    <3> HIDE DEF h, e, p
    <3> QED BY <1>1, <1>4, <2>1, <3>1
  <2>4. p[(h + 2) - 1] \in {"post", "head"}
    BY <1>1, <2>2, <2>3 DEF WellFramed
  <2> QED BY <2>1, <2>2, <2>4
<1>8. e # 1
  <2>1. SizeMod \in Nat \ {0}
    BY SessionAssumption
  <2>2. BodyNotLoaded(1) = 0
    BY <2>1 DEF BodyNotLoaded
  <2> QED BY <2>2
<1> QED BY <1>1, <1>2, <1>7, <1>8

\* A failed read has brought no request, unless the socket is closed: then a
\* timeout has closed it.
LEMMA ReadFailedSettled ==
  ASSUME TypeOK, Running, NEW s \in Sessions, SessionInv(s), Settled(s),
         NEW t \in Threads, th[t].s = s, ReadFailed(t)
  PROVE  Settled(s)'
<1>1. Calm(conn[s], conn'[s]) /\ UNCHANGED tasks
  BY IoCalm DEF ReadFailed
<1>2. /\ QuietEnd(s)' /\ conn'[s].timedOut = conn[s].timedOut
      /\ conn[s].sock = "closed" => conn[s].timedOut
  BY QuietWorker DEF Settled
<1>3. (UNCHANGED th /\ ~Works(t)) \/ Drops(t)
  BY ReadFailedFate
<1>4. Framed(s)'
  BY <1>1, <1>3, FramedKept DEF Settled, Calm, Drops, Works
<1>5. CASE Works(t)
  <2>1. conn[s].sock = "closed"
    <3>1. conn[s].sock \in {"new", "open", "closed"}
      BY DEF TypeOK, Conns
    <3>2. conn[s].sock # "new" /\ ~Open(s)
      BY <1>5, ReadFailedFate, Alone
    <3> QED BY <3>1, <3>2 DEF Open
  <2> QED BY <1>2, <1>4, <2>1 DEF Settled, NoneForgotten, Patient
<1>6. CASE ~Works(t)
  <2>1. conn'[s].rd = conn[s].rd
    BY ReadFailedEffect DEF ReadFailedMakes, Same
  <2>2. \A h : InWork(s, h) => InWork(s, h)'
    BY <1>1, <1>3, <1>6, <2>1 DEF InWork, Drops, Works
  <2>3. NoneForgotten(s)'
    BY <1>1, <1>2, <2>2, NoneKept DEF Settled, Calm
  <2> QED BY <1>2, <1>4, <2>3 DEF Settled
<1> QED BY <1>5, <1>6

\* A header that is read goes on with its request, or to the read of the body it
\* has announced and not brought; a chunked one is no complete request.
LEMMA HeaderReadSettled ==
  ASSUME TypeOK, WellFramed, Running, NEW s \in Sessions, SessionInv(s), Ordered(s),
         Settled(s), NEW t \in Threads, th[t].s = s, HeaderRead(t)
  PROVE  Settled(s)'
<1>1. Calm(conn[s], conn'[s]) /\ UNCHANGED tasks
  BY IoCalm DEF HeaderRead
<1>2. QuietEnd(s)' /\ conn'[s].timedOut = conn[s].timedOut
  BY QuietWorker DEF Settled
<1>3. Works(t)
  BY HeaderReadFate DEF Works
<1>4. \A u \in Threads \ {t} : th[u].s = s => ~Works(u)
  BY <1>3, Alone
<1>5. CASE UNCHANGED th /\ ~Running'
  <2>1. \A h : InWork(s, h) => InWork(s, h)'
    BY <1>1, <1>3, <1>5, Alone DEF InWork, Works
  <2>2. NoneForgotten(s)'
    BY <1>1, <1>2, <2>1, NoneKept DEF Settled, Calm
  <2> QED BY <1>2, <1>5, <2>2 DEF Settled, Framed
<1>6. CASE Kind(s, th[t].hd) = "chunked" /\ Drops(t)
  <2>1. \A h : InWork(s, h) => ~Complete(s, h)
    BY <1>3, <1>6, OwnWork DEF Complete
  <2>2. NoneForgotten(s)'
    BY <1>1, <1>2, <2>1, NoneKept DEF Settled, Calm
  <2>3. Framed(s)'
    BY <1>1, <1>6, FramedKept DEF Settled, Calm, Drops, Works
  <2> QED BY <1>2, <2>2, <2>3 DEF Settled
<1>7. ASSUME NEW p \in {"parsed", "body"}, MovesOn(t, s, p)
      PROVE  NoneForgotten(s)'
  <2>1. \A h : InWork(s, h) => InWork(s, h)'
    BY <1>3, <1>7, WorkCarried
  <2> QED BY <1>1, <1>2, <2>1, NoneKept DEF Settled, Calm
<1>8. CASE MovesOn(t, s, "parsed")
  <2>1. Framed(s)'
    BY <1>1, <1>8, FramedKept DEF Settled, Calm, MovesOn
  <2> QED BY <1>2, <1>7, <1>8, <2>1 DEF Settled
<1>9. CASE /\ Kind(s, th[t].hd) \in {"post", "head"} /\ MovesOn(t, s, "body")
           /\ th'[t].need = BodyNotLoaded(th[t].extra) /\ th'[t].need # 0
  <2>1. ~conn[s].eager => conn[s].taken = th[t].hd
    BY <1>9, BodyWaited, HeaderReadFate DEF Settled
  <2>2. Framed(s)'
    BY <1>1, <1>3, <1>4, <1>9, <2>1, Alone DEF Framed, MovesOn, Calm, Works, Kind
  <2> QED BY <1>2, <1>7, <1>9, <2>2 DEF Settled
<1> QED BY <1>5, <1>6, <1>8, <1>9, HeaderReadFate

\* The body that arrives completes the request in hand; all others are answered.
LEMMA BodyArrivesSettled ==
  ASSUME TypeOK, Running, NEW s \in Sessions, SessionInv(s), Ordered(s), Ordered(s)',
         Settled(s), NEW t \in Threads, th[t].s = s, BodyArrives(t)
  PROVE  Settled(s)'
<1>1. /\ BodyTaken(conn[s], conn'[s], th[t].need) /\ UNCHANGED tasks /\ Works(t)
      /\ \/ UNCHANGED th /\ ~Running'
         \/ MovesOn(t, s, "parsed")
  BY BodyArrivesFate DEF Works
<1>2. QuietEnd(s)' /\ conn'[s].timedOut = conn[s].timedOut
  BY QuietWorker DEF Settled
<1>3. \A u \in Threads \ {t} : th[u].s = s => ~Works(u)
  BY <1>1, Alone
<1>4. Framed(s)'
  BY <1>1, <1>3, Alone DEF Framed, MovesOn, BodyTaken, Works
<1>5. \A h : InWork(s, h) => InWork(s, h)'
  <2>1. CASE UNCHANGED th
    BY <1>1, <2>1 DEF InWork, Works, BodyTaken
  <2>2. CASE MovesOn(t, s, "parsed")
    BY <1>1, <2>2, WorkCarried
  <2> QED BY <1>1, <2>1, <2>2
<1>6. NoneForgotten(s)'
  <2> SUFFICES ASSUME Patient(s)', NEW g \in 1 .. conn'[s].taken, Complete(s, g)'
               PROVE  HasReply(s, g)' \/ InWork(s, g)'
    BY DEF NoneForgotten
  <2>1. ~conn[s].eager
    BY <1>1 DEF Patient, BodyTaken
  <2>2. g \in 1 .. conn[s].sent
    <3>1. conn[s] \in Conns /\ th[t].need \in Nat
      BY DEF TypeOK, Locals
    <3>2. conn[s].sent \in Nat /\ conn[s].taken \in Nat
      BY <3>1, FieldTypes
    <3>3. conn'[s].taken <= conn'[s].sent
      BY DEF Ordered, Order
    <3> QED BY <1>1, <3>1, <3>2, <3>3 DEF BodyTaken
  <2>3. Kind(s, g) \in Headers
    BY <1>1 DEF Complete, Kind, Headers, BodyTaken
  <2>4. CASE g = th[t].hd
    <3>1. InWork(s, g)
      BY <1>1, <2>4 DEF InWork
    <3> QED BY <1>5, <3>1
  <2>5. CASE g # th[t].hd
    <3>1. HasReply(s, g)
      BY <1>1, <2>1, <2>2, <2>3, <2>5, InTurn
    <3> QED BY <1>1, <3>1 DEF HasReply, BodyTaken
  <2> QED BY <2>4, <2>5
<1> QED BY <1>2, <1>4, <1>6 DEF Settled

\* A request whose body does not come is not complete, unless the socket is
\* closed: then a timeout has closed it.
LEMMA BodyFailsSettled ==
  ASSUME TypeOK, Running, NEW s \in Sessions, SessionInv(s), Ordered(s),
         Settled(s), NEW t \in Threads, th[t].s = s, BodyFails(t)
  PROVE  Settled(s)'
<1>1. Calm(conn[s], conn'[s])
  BY IoCalm
<1>2. /\ QuietEnd(s)' /\ conn'[s].timedOut = conn[s].timedOut
      /\ conn[s].sock = "closed" => conn[s].timedOut
  BY QuietWorker DEF Settled
<1>3. th[t].pc = "body" /\ UNCHANGED tasks /\ Drops(t) /\ Works(t)
  BY BodyFailsFate DEF Works
<1>4. Framed(s)'
  BY <1>1, <1>3, FramedKept DEF Settled, Calm, Drops, Works
<1>5. CASE Patient(s)'
  <2>1. ~conn[s].eager
    BY <1>1, <1>5 DEF Patient, Calm
  <2>2. conn[s].taken = th[t].hd /\ Kind(s, th[t].hd) \in {"post", "head"}
    BY <1>3, <2>1 DEF Settled, Framed
  <2>3. th[t].hd \in Nat
    BY DEF TypeOK, Locals
  <2>4. ~Complete(s, th[t].hd)
    BY <2>2, <2>3 DEF Complete
  <2>5. \A h : InWork(s, h) => ~Complete(s, h)
    BY <1>3, <2>4, OwnWork
  <2>6. NoneForgotten(s)'
    BY <1>1, <1>2, <2>5, NoneKept DEF Settled, Calm
  <2> QED BY <1>2, <1>4, <2>6 DEF Settled
<1>6. CASE ~Patient(s)'
  BY <1>2, <1>4, <1>6 DEF Settled, NoneForgotten
<1> QED BY <1>5, <1>6

\* Where nothing but a timeout closes a socket, or shuts it down while another
\* thread has its request, it is open without one.
LEMMA WorkOpen ==
  ASSUME TypeOK, NEW s \in Sessions, SessionInv(s), NEW t \in Threads, th[t].s = s,
         Works(t), conn[s].sock = "closed" => conn[s].timedOut, ~conn[s].timedOut
  PROVE  Open(s) /\ ~Over(s)
<1>1. conn[s].sock \in {"new", "open", "closed"}
  BY DEF TypeOK, Conns
<1>2. conn[s].sock # "new" /\ Carries(t, s) /\ th[t].pc # "down"
  BY Alone DEF Works
<1>3. Open(s)
  BY <1>1, <1>2 DEF Open
<1>4. ~conn[s].shut
  BY <1>2, <1>3 DEF SessionInv, ShutAt, Single
<1> QED BY <1>3, <1>4 DEF Open, Over

\* The request waits in the queue from now on, unless a timeout has closed.
LEMMA EnqueueSettled ==
  ASSUME TypeOK, Running, NEW s \in Sessions, SessionInv(s), Ordered(s),
         Settled(s), NEW t \in Threads, th[t].s = s, Enqueue(t)
  PROVE  Settled(s)'
<1>1. Calm(conn[s], conn'[s])
  BY IoCalm
<1>2. /\ QuietEnd(s)' /\ conn'[s].timedOut = conn[s].timedOut
      /\ conn[s].sock = "closed" => conn[s].timedOut
  BY QuietWorker DEF Settled
<1>3. /\ Drops(t) /\ Works(t)
      /\ tasks' = IF Open(s) THEN tasks \cup {<<s, th[t].hd>>} ELSE tasks
  BY EnqueueFate DEF Works
<1>4. Framed(s)'
  BY <1>1, <1>3, FramedKept DEF Settled, Calm, Drops, Works
<1>5. \A h : InWork(s, h) => InWork(s, h)' \/ conn'[s].timedOut
  <2> SUFFICES ASSUME NEW h, InWork(s, h), ~conn[s].timedOut PROVE InWork(s, h)'
    BY <1>2
  <2>1. h = th[t].hd
    BY <1>3, OwnWork
  <2>2. Open(s)
    BY <1>2, <1>3, WorkOpen
  <2> QED BY <1>3, <2>1, <2>2 DEF InWork
<1>6. NoneForgotten(s)'
  BY <1>1, <1>2, <1>5, NoneKept DEF Settled, Calm
<1> QED BY <1>2, <1>4, <1>6 DEF Settled

\* A CPU thread that takes, processes or ends a request does not forget it.
LEMMA TaskSettled ==
  ASSUME TypeOK, Running, NEW s \in Sessions, SessionInv(s), Ordered(s),
         Settled(s), NEW t \in Threads,
         \/ \E h \in Nat : TakeTask(t, s, h)
         \/ th[t].s = s /\ (Process(t) \/ Send(t) \/ Rearm(t) \/ NextRequest(t))
  PROVE  Settled(s)'
<1>1. Calm(conn[s], conn'[s])
  BY CpuCalm
<1>2. /\ QuietEnd(s)' /\ conn'[s].timedOut = conn[s].timedOut
      /\ conn[s].sock = "closed" => conn[s].timedOut
  BY QuietWorker DEF Settled
<1>3. SUFFICES /\ \A h : InWork(s, h) => InWork(s, h)' \/ conn'[s].timedOut
               /\ \A u \in Threads : \/ th'[u] = th[u]
                                     \/ /\ th'[u].pc # "body"
                                        /\ ~(th'[u].pc = "read" /\ th'[u].aux = "ok")
  BY <1>1, <1>2, NoneKept, FramedKept DEF Settled, Calm
<1>4. ASSUME NEW h \in Nat, TakeTask(t, s, h)
      PROVE  /\ \A g : InWork(s, g) => InWork(s, g)'
             /\ \A u \in Threads : th'[u] = th[u] \/ th'[u].pc = "process"
  <2>1. /\ th[t].pc = "idle" /\ <<s, h>> \in tasks /\ tasks' = tasks \ {<<s, h>>}
        /\ th'[t].pc = "process" /\ th'[t].s = s /\ th'[t].hd = h
        /\ \A u \in Threads \ {t} : th'[u] = th[u]
    BY <1>4, TakeTaskFate
  <2>2. UNCHANGED conn
    BY <1>4 DEF TakeTask, TakeTaskLeaving
  <2>3. ~Works(t) /\ Works(t)'
    BY <2>1 DEF Works
  <2>4. \A g : InWork(s, g) => InWork(s, g)'
    <3> SUFFICES ASSUME NEW g, InWork(s, g) PROVE InWork(s, g)'
      OBVIOUS
    <3>1. CASE g = h
      BY <2>1, <2>3, <3>1 DEF InWork
    <3>2. CASE g # h
      BY <2>1, <2>2, <2>3, <3>2 DEF InWork, Works
    <3> QED BY <3>1, <3>2
  <2> QED BY <2>1, <2>4
<1>5. ASSUME th[t].s = s, Process(t)
      PROVE  /\ \A g : InWork(s, g) => InWork(s, g)'
             /\ \A u \in Threads : th'[u] = th[u] \/ th'[u].pc = "send"
  <2>1. /\ UNCHANGED <<conn, tasks>> /\ Works(t)
        /\ UNCHANGED th \/ MovesOn(t, s, "send")
    BY <1>5, ProcessFate DEF Process, ProcessWith, Works
  <2>2. CASE UNCHANGED th
    BY <2>1, <2>2 DEF InWork, Works
  <2>3. CASE MovesOn(t, s, "send")
    BY <1>5, <2>1, <2>3, WorkCarried DEF MovesOn
  <2> QED BY <2>1, <2>2, <2>3
<1>6. ASSUME th[t].s = s, Rearm(t) \/ NextRequest(t)
      PROVE  /\ \A g : InWork(s, g) => InWork(s, g)'
             /\ Dull
  <2>1. Dull
    BY <1>6, CpuCalm
  <2>2. conn'[s].rd = conn[s].rd
    BY <1>6, RearmEffect, NextRequestEffect
       DEF RearmMakes, NextRequestMakes, Same
  <2> QED BY <2>1, <2>2 DEF InWork, Dull, Works
<1>7. ASSUME th[t].s = s, Send(t)
      PROVE  /\ \A g : InWork(s, g) => InWork(s, g)' \/ conn'[s].timedOut
             /\ \A u \in Threads : th'[u] = th[u] \/ th'[u].pc = "write" \/ ~Works(u)'
  <2>1. /\ Works(t) /\ UNCHANGED <<conn, tasks>>
        /\ MovesOn(t, s, "write") \/ (~Open(s) /\ Drops(t))
    BY <1>7, SendFate DEF Works
  <2>2. CASE MovesOn(t, s, "write")
    BY <1>7, <2>1, <2>2, WorkCarried DEF MovesOn
  <2>3. CASE ~Open(s) /\ Drops(t)
    <3>1. conn[s].timedOut
      BY <1>2, <1>7, <2>1, <2>3, WorkOpen
    <3> QED BY <1>2, <2>3, <3>1 DEF Drops
  <2> QED BY <2>1, <2>2, <2>3
<1> QED BY <1>4, <1>5, <1>6, <1>7 DEF Dull, Works

\* An answer that is written is the last that was missing, and where none can be
\* written a timeout has ended the connection.
LEMMA WriteSettled ==
  ASSUME TypeOK, Running, NEW s \in Sessions, SessionInv(s), Ordered(s), Ordered(s)',
         Settled(s), NEW t \in Threads, th[t].s = s, Write(t),
         ~Over(s) /\ ~conn[s].eager => AllServed(s)'
  PROVE  Settled(s)'
<1>1. /\ QuietEnd(s)' /\ conn'[s].timedOut = conn[s].timedOut
      /\ conn[s].sock = "closed" => conn[s].timedOut
  BY QuietWorker DEF Settled
<1>2. /\ Drops(t) /\ Works(t)
      /\ IF Over(s) THEN UNCHANGED conn ELSE Writes(conn[s], conn'[s], th[t].hd)
  BY WriteFate DEF Works
<1>3. /\ conn'[s].taken = conn[s].taken /\ conn'[s].script = conn[s].script
      /\ conn'[s].rd = conn[s].rd /\ conn'[s].eager = conn[s].eager
  BY <1>2 DEF Writes
<1>4. Framed(s)'
  BY <1>2, <1>3, FramedKept DEF Settled, Drops, Works
<1>5. NoneForgotten(s)'
  <2> SUFFICES ASSUME Patient(s)', NEW g \in 1 .. conn'[s].taken, Complete(s, g)'
               PROVE  HasReply(s, g)'
    BY DEF NoneForgotten
  <2>1. AllServed(s)'
    BY <1>1, <1>2, <1>3, WorkOpen DEF Patient
  <2>2. Kind(s, g)' \in Headers
    BY DEF Complete, Headers
  <2>3. g \in 1 .. conn'[s].sent
    <3>1. conn'[s].taken <= conn'[s].sent
      BY DEF Ordered, Order
    <3>2. conn[s].sent \in Nat /\ conn[s].taken \in Nat /\ conn'[s].sent = conn[s].sent
      BY <1>2, FieldTypes DEF TypeOK, Writes
    <3> QED BY <1>3, <3>1, <3>2
  <2> QED BY <2>1, <2>2, <2>3 DEF AllServed, Kind
<1> QED BY <1>1, <1>4, <1>5 DEF Settled

\* A step of another session leaves this one as settled as it was.
LEMMA SettledElsewhere ==
  ASSUME Running, NEW s \in Sessions, Others(s), NEW r \in Sessions, r # s,
         SessionInv(r)', Settled(r)
  PROVE  Settled(r)'
<1>1. conn'[r] = conn[r]
  BY DEF Others
<1>2. /\ \A u \in Threads :
           th[u].s = r /\ (Works(u) \/ Carries(u, r)) => th'[u] = th[u]
      /\ \A u \in Threads :
           th'[u].s = r /\ (Works(u)' \/ Carries(u, r)') => th'[u] = th[u]
  BY DEF Others, Works, Carries
<1>3. \A j \in tasks \cup tasks' : j[1] = r => (j \in tasks <=> j \in tasks')
  BY DEF Others
<1>4. \A h : InWork(r, h) => InWork(r, h)'
  <2>1. \A h : <<r, h>>[1] = r
    OBVIOUS
  <2> QED BY <1>1, <1>2, <1>3, <2>1 DEF InWork, Works
<1>5. Nobody(r) => Nobody(r)'
  BY <1>1, <1>2, <1>3 DEF Nobody, Carries, Queued, Reads
<1>6. QuietEnd(r)'
  BY <1>1, <1>5 DEF Settled, QuietEnd
<1>7. NoneForgotten(r)'
  BY <1>1, <1>4, NoneKept DEF Settled
<1>8. Framed(r)'
  BY <1>1, <1>2 DEF Settled, Framed, Works, Kind
<1> QED BY <1>6, <1>7, <1>8 DEF Settled

\* The second invariant, of all sessions.
AllSettled == \A s \in Sessions : Settled(s)

\* At the beginning nothing has been read, and nothing is closed.
LEMMA InitSettled == Init => AllSettled
<1> SUFFICES ASSUME Init, NEW s \in Sessions PROVE Settled(s)
  BY DEF AllSettled
<1>1. PICK p \in Scripts : conn[s] = NewConn(p)
  BY DEF Init
<1>2. conn[s].sock = "new" /\ conn[s].rd.st = "none" /\ conn[s].taken = 0
  BY <1>1 DEF NewConn, NoRead
<1>3. \A t \in Threads : th[t].pc = "idle"
  BY DEF Init, Idle
<1> QED BY <1>2, <1>3 DEF Settled, QuietEnd, Framed, NoneForgotten

\* Every step concerns one session, and the others stay settled.
LEMMA NextSettled ==
  ASSUME WellFramed, Inv, Inv', AllOrdered, AllOrdered', AllSettled, Next
  PROVE  AllSettled'
<1>0. /\ TypeOK /\ Running
      /\ \A s \in Sessions : SessionInv(s) /\ Ordered(s) /\ Settled(s)
      /\ \A s \in Sessions : SessionInv(s)' /\ Ordered(s)'
  BY DEF Inv, Next, AllOrdered, AllSettled
<1>1. SUFFICES \E s \in Sessions : Settled(s)' /\ Others(s)
  BY <1>0, SettledElsewhere DEF AllSettled
<1>2. ASSUME NEW s \in Sessions, Environment(s) \/ Asio(s) \/ Expire(s)
      PROVE  Settled(s)' /\ Others(s)
  BY <1>0, <1>2, WorldKeeps, WorldSettled
<1>3. ASSUME NEW t \in IoThreads, IoStep(t)
      PROVE  \E s \in Sessions : Settled(s)' /\ Others(s)
  <2>1. PICK s \in Sessions : s = th[t].s
    BY <1>0 DEF TypeOK, Threads, Locals
  <2>2. t \in Threads
    BY DEF Threads
  <2>3. ASSUME NEW r \in Sessions,
               Accept(t, r) \/ TakeRead(t, r) \/ TakeWritten(t, r) \/ TakeTimer(t, r)
        PROVE  Settled(r)' /\ Others(r)
    BY <1>0, <2>3, TakesKeep, TakesSettled
  <2>4. CASE \/ ReadFailed(t) \/ HeaderRead(t)
             \/ BodyArrives(t) \/ BodyFails(t) \/ Enqueue(t)
    <3>1. Others(s)
      BY <1>0, <2>1, <2>2, <2>4, IoKeeps
    <3>2. Settled(s)'
      BY <1>0, <2>1, <2>2, <2>4, ReadFailedSettled, HeaderReadSettled,
         BodyArrivesSettled, BodyFailsSettled, EnqueueSettled
    <3> QED BY <3>1, <3>2
  <2> QED BY <1>3, <2>3, <2>4 DEF IoStep
<1>4. ASSUME NEW t \in CpuThreads, CpuStep(t)
      PROVE  \E s \in Sessions : Settled(s)' /\ Others(s)
  <2>1. PICK s \in Sessions : s = th[t].s
    BY <1>0 DEF TypeOK, Threads, Locals
  <2>2. t \in Threads
    BY DEF Threads
  <2>3. ASSUME NEW j \in tasks, TakeTask(t, j[1], j[2])
        PROVE  \E r \in Sessions : Settled(r)' /\ Others(r)
    <3>1. PICK r \in Sessions, h \in Nat : j[1] = r /\ j[2] = h
      BY <1>0 DEF TypeOK
    <3>2. TakeTask(t, r, h)
      BY <2>3, <3>1
    <3>3. Settled(r)'
      BY <1>0, <2>2, <3>2, TaskSettled
    <3>4. Others(r)
      BY <1>0, <2>2, <2>3, <3>1, CpuKeeps
    <3> QED BY <3>3, <3>4
  <2>4. CASE Process(t) \/ Send(t) \/ Rearm(t) \/ NextRequest(t)
    BY <1>0, <2>1, <2>2, <2>4, CpuKeeps, TaskSettled
  <2>5. CASE Write(t)
    <3>1. ~Over(s) /\ ~conn[s].eager => AllServed(s)'
      BY <1>0, <2>1, <2>2, <2>5, WriteOrdered
    <3> QED BY <1>0, <2>1, <2>2, <2>5, <3>1, CpuKeeps, WriteSettled
  <2> QED BY <1>4, <2>3, <2>4, <2>5 DEF CpuStep
<1>5. ASSUME NEW t \in Threads, CommonStep(t)
      PROVE  \E s \in Sessions : Settled(s)' /\ Others(s)
  <2>1. PICK s \in Sessions : s = th[t].s
    BY <1>0 DEF TypeOK, Locals
  <2> QED BY <1>0, <1>5, <2>1, CommonKeeps, CommonSettled
<1> QED BY <1>2, <1>3, <1>4, <1>5 DEF Next

\* A step that changes nothing leaves every session settled.
LEMMA StutterSettled == AllSettled /\ UNCHANGED vars => AllSettled'
  BY DEF vars, AllSettled, Settled, QuietEnd, Framed, NoneForgotten, Nobody,
     Carries, Queued, Reads, Kind, Running, Patient, Complete, HasReply, InWork,
     Works

(* Of peers that frame their requests as announced, every request that has *)
(* been read to its end is answered or in work, whatever has become of it  *)
(* in between, until a timer fires or the peer gets ahead of the session   *)
(* (http_session.cpp:48-63, 183-213, 255-272).                             *)
THEOREM SettledAlways == WellFramed => (Spec => []AllSettled)
<1>1. Init => AllSettled
  BY InitSettled
<1> SUFFICES ASSUME WellFramed PROVE Spec => []AllSettled
  OBVIOUS
<1>2. Inv /\ Inv' /\ AllOrdered /\ AllOrdered' /\ AllSettled /\ [Next]_vars
        => AllSettled'
  BY NextSettled, StutterSettled
<1> QED BY <1>1, <1>2, Invariance, OrderedAlways, PTL DEF Spec

\* At the end of a session that settles, nothing is left in work.
LEMMA SettledSafe == Inv /\ AllOrdered /\ AllSettled => PatientPeersAreAnswered
<1> SUFFICES ASSUME Inv, AllOrdered, AllSettled, NEW s \in Sessions, Patient(s),
                    conn[s].sock = "closed", Chain(s) = {},
                    NEW h \in 1 .. Len(conn[s].script), Complete(s, h)
             PROVE  HasReply(s, h)
  BY DEF PatientPeersAreAnswered
<1>0. TypeOK /\ SessionInv(s) /\ Settled(s)
  BY DEF Inv, AllSettled
<1>1. conn[s].taken \in Nat
  BY <1>0, FieldTypes DEF TypeOK
<1>2. h \in 1 .. conn[s].taken
  BY <1>1 DEF Complete
<1>3. HasReply(s, h) \/ InWork(s, h)
  BY <1>0, <1>2 DEF Settled, NoneForgotten
<1>4. Nobody(s)
  BY <1>0 DEF Settled, QuietEnd, Patient
<1>5. ~InWork(s, h)
  <2>1. \A t \in Threads : th[t].s = s => ~Works(t)
    BY <1>0, <1>4, Alone DEF Nobody
  <2>2. <<s, h>> \notin tasks
    BY <1>4 DEF Nobody, Queued
  <2>3. conn[s].rd.st # "ok"
    BY <1>4 DEF Nobody, Reads
  <2> QED BY <2>1, <2>2, <2>3 DEF InWork
<1> QED BY <1>3, <1>5

(* Of such peers no request is dropped that came in its turn: a session    *)
(* ends with every request answered that it has read completely, unless    *)
(* its timer has fired or the peer has sent a request before it had the    *)
(* response to the one before, and also when the peer has closed its side  *)
(* meanwhile (http_session.cpp:48-63, 118-136).                            *)
THEOREM NoneDropped == WellFramed => (Spec => []PatientPeersAreAnswered)
  BY SettledSafe, SettledAlways, OrderedAlways, Invariance, PTL
=============================================================================
