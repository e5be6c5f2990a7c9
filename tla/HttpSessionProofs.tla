------------------------- MODULE HttpSessionProofs -------------------------
(***************************************************************************)
(* What HttpSession keeps for any number of sessions, threads and pieces:  *)
(* its types, that a session is one chain of steps which is never          *)
(* forgotten, that a waiting one is watched by its timer, and that only a  *)
(* timeout interrupts it or leads to the two races that kill the process.  *)
(*                                                                         *)
(* Each step touches one session and one thread.  The proof says once what *)
(* a step makes of the few fields that matter (the ...Effect lemmas), then *)
(* that this keeps the invariant of its session (the ...Keeps lemmas), and *)
(* that it leaves the invariant of the others alone (Elsewhere).           *)
(***************************************************************************)
EXTENDS HttpSession, TLAPS

\* An idle thread's locals are locals.
LEMMA IdleIsLocal == Idle \in Locals /\ Idle.pc = "idle"
  BY SessionAssumption DEF Idle, Locals, Pcs

\* A session that is not accepted or connected yet is well typed.
LEMMA NewConnTypes ==
  ASSUME NEW p \in Scripts
  PROVE  NewConn(p) \in Conns
  BY SessionAssumption DEF NewConn, NoRead, Conns

\* Type correctness, at the beginning.
LEMMA InitTypes == Init => TypeOK
  <1> SUFFICES ASSUME Init PROVE TypeOK
    OBVIOUS
  <1>1. conn \in [Sessions -> Conns]
    BY NewConnTypes DEF Init
  <1>2. th \in [Threads -> Locals]
    BY IdleIsLocal DEF Init
  <1>3. Idle.s \in Sessions
    BY IdleIsLocal DEF Locals
  <1> QED BY <1>1, <1>2, <1>3 DEF Init, TypeOK, Alive

\* A step of one session and one thread keeps the types of both functions.
LEMMA UpdateTypes ==
  ASSUME TypeOK, NEW s \in Sessions, NEW c \in Conns, Update(s, c)
  PROVE  conn' \in [Sessions -> Conns]
  BY DEF Update, TypeOK

\* A thread whose new locals are well typed leaves the others alone.
LEMMA BecomeTypes ==
  ASSUME TypeOK, NEW t \in Threads, NEW l \in Locals, Become(t, l)
  PROVE  th' \in [Threads -> Locals]
  BY DEF Become, TypeOK

\* Going to another step keeps the locals well typed,
LEMMA GotoTypes ==
  ASSUME TypeOK, NEW t \in Threads, NEW p \in Pcs, Goto(t, p)
  PROVE  th' \in [Threads -> Locals]
<1>1. [th[t] EXCEPT !.pc = p] \in Locals
  BY DEF TypeOK, Locals
<1> QED BY <1>1, BecomeTypes DEF Goto

\* also with another error, status or reason in hand,
LEMMA GotoWithTypes ==
  ASSUME TypeOK, NEW t \in Threads, NEW p \in Pcs,
         NEW a \in {"error", "bye"} \cup Outcomes, GotoWith(t, p, a)
  PROVE  th' \in [Threads -> Locals]
<1>1. [th[t] EXCEPT !.pc = p, !.aux = a] \in Locals
  BY DEF TypeOK, Locals
<1> QED BY <1>1, BecomeTypes DEF GotoWith

\* and so does returning to the pool,
LEMMA ReturnTypes ==
  ASSUME TypeOK, NEW t \in Threads, Return(t)
  PROVE  th' \in [Threads -> Locals]
  BY IdleIsLocal, BecomeTypes DEF Return

\* and picking up a handler.
LEMMA EnterTypes ==
  ASSUME TypeOK, NEW t \in Threads, NEW s \in Sessions, NEW p \in Pcs,
         \/ Enter(t, s, p)
         \/ EnterWith(t, s, p, "error") \/ EnterWith(t, s, p, "timeout")
  PROVE  th' \in [Threads -> Locals]
<1>1. /\ [Idle EXCEPT !.pc = p, !.s = s] \in Locals
      /\ [Idle EXCEPT !.pc = p, !.s = s, !.aux = "error"] \in Locals
      /\ [Idle EXCEPT !.pc = p, !.s = s, !.aux = "timeout"] \in Locals
  BY IdleIsLocal DEF Locals
<1> QED BY <1>1, BecomeTypes DEF Enter, EnterWith

\* What a session's record holds.
LEMMA FieldTypes ==
  ASSUME NEW c \in Conns
  PROVE  /\ c.sent \in Nat /\ c.taken \in Nat /\ c.calls \in Nat /\ c.fired \in Nat
         /\ c.unread \in 0 .. Room /\ c.late \in Seq(Nat)
         /\ c.eager \in BOOLEAN /\ c.shut \in BOOLEAN
         /\ c.rd.hd \in Nat /\ c.rd.extra \in Nat
         /\ c.rd.st \in {"none", "pending", "ok", "aborted", "error"}
         /\ c.replies \in Seq([hd : Nat, len : Nat, how : {"whole", "part", "stale", "failed"}])
  BY DEF Conns

\* What the steps make of a session's record.
LEMMA ConnTypes ==
  ASSUME NEW c \in Conns
  PROVE  /\ CancelTimer(c) \in Conns
         /\ ArmTimer(c) \in Conns
         /\ Aborted(c) \in Conns
         /\ \A s \in Sessions : Told(s, c) \in Conns
         /\ [c EXCEPT !.sock = "open"] \in Conns
         /\ [c EXCEPT !.sock = "closed"] \in Conns
         /\ \A b \in BOOLEAN : [c EXCEPT !.shut = b] \in Conns
         /\ \A n \in 0 .. Room : [c EXCEPT !.unread = n] \in Conns
         /\ \A n \in Nat : [c EXCEPT !.taken = n] \in Conns
<1>1. CancelTimer(c) \in Conns
  BY DEF CancelTimer, Conns
<1>2. ArmTimer(c) \in Conns
  BY DEF ArmTimer, Conns
<1>3. Aborted(c) \in Conns
  BY DEF Aborted, Conns
<1>4. ASSUME NEW s \in Sessions PROVE Told(s, c) \in Conns
  <2>1. \A n \in Nat : [c EXCEPT !.calls = n] \in Conns
    BY DEF Conns
  <2>2. c.calls + 1 \in Nat
    BY FieldTypes
  <2>3. [c EXCEPT !.calls = @ + 1] \in Conns
    BY <2>1, <2>2
  <2> QED BY <2>3 DEF Told
<1>5. [c EXCEPT !.sock = "open"] \in Conns /\ [c EXCEPT !.sock = "closed"] \in Conns
  BY DEF Conns
<1>6. ASSUME NEW n \in 0 .. Room PROVE [c EXCEPT !.unread = n] \in Conns
  BY DEF Conns
<1>7. ASSUME NEW n \in Nat PROVE [c EXCEPT !.taken = n] \in Conns
  BY DEF Conns
<1>8. ASSUME NEW b \in BOOLEAN PROVE [c EXCEPT !.shut = b] \in Conns
  BY DEF Conns
<1> QED BY <1>1, <1>2, <1>3, <1>4, <1>5, <1>6, <1>7, <1>8

\* What the peer and a task that makes a client do keeps the types.
LEMMA PeerTypes ==
  ASSUME TypeOK, NEW s \in Sessions, Environment(s)
  PROVE  TypeOK'
<1>0. conn[s] \in Conns
  BY DEF TypeOK
<1>1. CASE PeerSend(s)
  <2> DEFINE k == conn[s].sent + 1
             e == conn[s].eager \/ (Kind(s, k) \in Headers /\ 
                    ~(Len(conn[s].replies) = Cardinality(HeadersSent(s)) /\ conn[s].unread = 0))
             c == [conn[s] EXCEPT !.sent = k, !.eager = e]
  <2>1. Update(s, c)
    BY <1>1 DEF PeerSend
  <2>2. e \in BOOLEAN
    BY <1>0 DEF Conns
  <2>3. c \in Conns
    <3>1. k \in Nat
      BY <1>0, FieldTypes
    <3>2. \A n \in Nat, b \in BOOLEAN :
             [conn[s] EXCEPT !.sent = n, !.eager = b] \in Conns
      BY <1>0 DEF Conns
    <3> HIDE DEF e, k
    <3> QED BY <2>2, <3>1, <3>2
  <2>4. conn' \in [Sessions -> Conns]
    <3> HIDE DEF c
    <3> QED BY <2>1, <2>3, UpdateTypes
  <2> QED BY <1>1, <2>4 DEF PeerSend, TypeOK
<1>2. CASE PeerClose(s)
  <2>1. [conn[s] EXCEPT !.peer = IF Open(s) THEN "closed" ELSE "reset"] \in Conns
    BY <1>0 DEF Conns
  <2>2. conn' \in [Sessions -> Conns]
    BY <1>2, <2>1, UpdateTypes DEF PeerClose
  <2> QED BY <1>2, <2>2 DEF PeerClose, TypeOK
<1>3. CASE PeerRead(s)
  <2>1. PICK n \in 0 .. conn[s].unread - 1 : Update(s, [conn[s] EXCEPT !.unread = n])
    BY <1>3 DEF PeerRead
  <2>2. [conn[s] EXCEPT !.unread = n] \in Conns
    <3>1. n \in 0 .. Room
      BY <1>0, FieldTypes, SessionAssumption
    <3> QED BY <1>0, <3>1, ConnTypes
  <2>3. conn' \in [Sessions -> Conns]
    BY <2>1, <2>2, UpdateTypes
  <2> QED BY <1>3, <2>3 DEF PeerRead, TypeOK
<1>4. ASSUME NEW t \in CpuThreads, Request(t, s) PROVE TypeOK'
  <2>1. [conn[s] EXCEPT !.sock = "open", !.written = TRUE] \in Conns
    BY <1>0 DEF Conns
  <2>2. conn' \in [Sessions -> Conns]
    BY <1>4, <2>1, UpdateTypes DEF Request
  <2> QED BY <1>4, <2>2 DEF Request, TypeOK
<1> QED BY <1>1, <1>2, <1>3, <1>4 DEF Environment

\* So does what asio and the operating system do, and time.
LEMMA AsioTypes ==
  ASSUME TypeOK, NEW s \in Sessions, Asio(s) \/ Expire(s)
  PROVE  TypeOK'
<1>0. conn[s] \in Conns
  BY DEF TypeOK
<1>1. CASE ReadCompletes(s)
  <2>1. PICK h \in Wire(s) : \E e \in 0 .. conn[s].sent - h :
          Update(s, [conn[s] EXCEPT !.rd = [st |-> "ok", hd |-> h, extra |-> e],
                                    !.taken = h + e])
    BY <1>1 DEF ReadCompletes
  <2>2. PICK e \in 0 .. conn[s].sent - h :
          Update(s, [conn[s] EXCEPT !.rd = [st |-> "ok", hd |-> h, extra |-> e],
                                    !.taken = h + e])
    BY <2>1
  <2>3. h \in Nat /\ e \in Nat
    BY <1>0 DEF Wire, Conns
  <2>4. [conn[s] EXCEPT !.rd = [st |-> "ok", hd |-> h, extra |-> e],
                        !.taken = h + e] \in Conns
    <3>1. \A a, b, n \in Nat :
            [conn[s] EXCEPT !.rd = [st |-> "ok", hd |-> a, extra |-> b],
                            !.taken = n] \in Conns
      BY <1>0 DEF Conns
    <3>2. h + e \in Nat
      BY <2>3
    <3> QED BY <2>3, <3>1, <3>2
  <2>5. conn' \in [Sessions -> Conns]
    BY <2>2, <2>4, UpdateTypes
  <2> QED BY <1>1, <2>5 DEF ReadCompletes, TypeOK
<1>2. CASE ReadFails(s)
  <2>1. [conn[s] EXCEPT !.rd.st = "error"] \in Conns
    BY <1>0 DEF Conns
  <2>2. conn' \in [Sessions -> Conns]
    BY <1>2, <2>1, UpdateTypes DEF ReadFails
  <2> QED BY <1>2, <2>2 DEF ReadFails, TypeOK
<1>3. CASE LateWrite(s)
  <2> DEFINE answer == [hd |-> Head(conn[s].late), len |-> 1, how |-> "stale"]
             c == [conn[s] EXCEPT !.late = Tail(@), !.unread = @ + 1,
                                  !.replies = Append(@, answer)]
  <2>1. Tail(conn[s].late) \in Seq(Nat) /\ Head(conn[s].late) \in Nat
    <3>1. conn[s].late \in Seq(Nat) /\ conn[s].late # <<>>
      BY <1>0, <1>3, FieldTypes DEF LateWrite
    <3> QED BY <3>1
  <2>2. conn[s].unread + 1 \in 0 .. Room
    <3>1. conn[s].unread \in 0 .. Room /\ conn[s].unread < Room
      BY <1>0, <1>3, FieldTypes DEF LateWrite
    <3> QED BY <3>1, SessionAssumption
  <2>3. Append(conn[s].replies, answer)
          \in Seq([hd : Nat, len : Nat, how : {"whole", "part", "stale", "failed"}])
    BY <1>0, <2>1 DEF Conns
  <2>4. c \in Conns
    <3>1. \A q \in Seq(Nat), n \in 0 .. Room,
             r \in Seq([hd : Nat, len : Nat, how : {"whole", "part", "stale", "failed"}]) :
            [conn[s] EXCEPT !.late = q, !.unread = n, !.replies = r] \in Conns
      BY <1>0 DEF Conns
    <3> QED BY <2>1, <2>2, <2>3, <3>1
  <2>5. conn' \in [Sessions -> Conns]
    BY <1>3, <2>4, UpdateTypes DEF LateWrite
  <2> QED BY <1>3, <2>5 DEF LateWrite, TypeOK
<1>4. CASE Expire(s)
  <2>1. CancelTimer(conn[s]) \in Conns
    BY <1>0, ConnTypes
  <2>2. [CancelTimer(conn[s]) EXCEPT !.fired = @ + 1, !.timedOut = TRUE] \in Conns
    <3> DEFINE d == CancelTimer(conn[s])
    <3>1. d \in Conns
      BY <2>1
    <3> HIDE DEF d
    <3>2. \A n \in Nat : [d EXCEPT !.fired = n, !.timedOut = TRUE] \in Conns
      BY <3>1 DEF Conns
    <3>3. d.fired + 1 \in Nat
      BY <3>1, FieldTypes
    <3> QED BY <3>2, <3>3 DEF d
  <2>3. conn' \in [Sessions -> Conns]
    BY <1>4, <2>2, UpdateTypes DEF Expire
  <2> QED BY <1>4, <2>3 DEF Expire, TypeOK
<1> QED BY <1>1, <1>2, <1>3, <1>4 DEF Asio


\* So does every step that only an IO thread takes.
LEMMA IoTypes ==
  ASSUME TypeOK, NEW t \in IoThreads, IoStep(t)
  PROVE  TypeOK'
<1>0. t \in Threads /\ th[t] \in Locals /\ th[t].s \in Sessions
  BY DEF TypeOK, Threads, Locals
<1> DEFINE S == th[t].s
           C == conn[S]
<1>1. C \in Conns /\ CancelTimer(C) \in Conns
  BY <1>0, ConnTypes DEF TypeOK
<1> HIDE DEF S, C
<1>2. ASSUME NEW s \in Sessions, Accept(t, s) PROVE TypeOK'
  <2>1. conn[s] \in Conns
    BY DEF TypeOK
  <2>2. conn' \in [Sessions -> Conns]
    BY <1>2, <2>1, ConnTypes, UpdateTypes DEF Accept
  <2>3. "run" \in Pcs
    BY DEF Pcs
  <2>4. th' \in [Threads -> Locals]
    BY <1>0, <1>2, <2>3, EnterTypes DEF Accept, TypeOK
  <2> QED BY <1>2, <2>2, <2>4 DEF Accept, TypeOK, Terminate
<1>3. ASSUME NEW s \in Sessions, TakeRead(t, s) PROVE TypeOK'
  <2>1. conn[s] \in Conns
    BY DEF TypeOK
  <2>2. [conn[s] EXCEPT !.rd = NoRead] \in Conns
    BY <2>1 DEF Conns, NoRead
  <2>3. conn' \in [Sessions -> Conns]
    BY <1>3, <2>2, UpdateTypes DEF TakeRead
  <2> DEFINE r == conn[s].rd
             l == [Idle EXCEPT !.pc = "read", !.s = s, !.hd = r.hd,
                               !.extra = r.extra, !.aux = r.st]
  <2>4. /\ r.hd \in Nat /\ r.extra \in Nat
        /\ r.st \in {"ok", "aborted", "error"}
    BY <1>3, <2>1, FieldTypes DEF TakeRead
  <2>5. l \in Locals
    <3> HIDE DEF r
    <3> QED BY <2>4, IdleIsLocal DEF Locals, Pcs, IoPcs
  <2>6. th' \in [Threads -> Locals]
    BY <1>0, <1>3, <2>5, BecomeTypes DEF TakeRead
  <2> QED BY <1>3, <2>3, <2>6 DEF TakeRead, TypeOK
<1>4. ASSUME NEW s \in Sessions, TakeWritten(t, s) PROVE TypeOK'
  <2>1. conn[s] \in Conns
    BY DEF TypeOK
  <2>2. [conn[s] EXCEPT !.written = FALSE] \in Conns
    BY <2>1 DEF Conns
  <2>3. conn' \in [Sessions -> Conns]
    BY <1>4, <2>2, UpdateTypes DEF TakeWritten
  <2>4. "post" \in Pcs
    BY DEF Pcs
  <2>5. th' \in [Threads -> Locals]
    BY <1>0, <1>4, <2>4, EnterTypes DEF TakeWritten
  <2> QED BY <1>4, <2>3, <2>5 DEF TakeWritten, TypeOK
<1>5. ASSUME NEW s \in Sessions, TakeTimer(t, s) PROVE TypeOK'
  <2>1. conn[s] \in Conns
    BY DEF TypeOK
  <2>2. [conn[s] EXCEPT !.fired = @ - 1] \in Conns
    <3>1. conn[s].fired - 1 \in Nat
      BY <1>5, <2>1, FieldTypes DEF TakeTimer
    <3>2. \A n \in Nat : [conn[s] EXCEPT !.fired = n] \in Conns
      BY <2>1 DEF Conns
    <3> QED BY <3>1, <3>2
  <2>3. conn' \in [Sessions -> Conns]
    BY <1>5, <2>2, UpdateTypes DEF TakeTimer
  <2>4. "close" \in Pcs
    BY DEF Pcs
  <2>5. th' \in [Threads -> Locals]
    BY <1>0, <1>5, <2>4, EnterTypes DEF TakeTimer
  <2> QED BY <1>5, <2>3, <2>5 DEF TakeTimer, TypeOK
<1>6. CASE ReadFailed(t)
  <2>1. conn' \in [Sessions -> Conns]
    BY <1>0, <1>1, <1>6, ConnTypes, UpdateTypes DEF ReadFailed, S, C
  <2>2. "close" \in Pcs
    BY DEF Pcs
  <2>3. th' \in [Threads -> Locals]
    BY <1>0, <1>6, <2>2, GotoTypes, ReturnTypes DEF ReadFailed, TypeOK
  <2> QED BY <1>0, <1>6, <2>1, <2>3 DEF ReadFailed, TypeOK, Terminate
<1>7. ASSUME NEW c \in Conns, BodyRead(t, c), UNCHANGED tasks PROVE TypeOK'
  <2>1. conn' \in [Sessions -> Conns]
    BY <1>0, <1>7, UpdateTypes DEF BodyRead
  <2>2. "parsed" \in Pcs
    BY DEF Pcs, IoPcs
  <2>3. th' \in [Threads -> Locals]
    BY <1>0, <1>7, <2>2, GotoTypes DEF BodyRead, TypeOK
  <2> QED BY <1>0, <1>7, <2>1, <2>3 DEF BodyRead, TypeOK, Terminate
<1>8. CASE HeaderRead(t)
  <2>1. th[t].hd \in Nat /\ BodyNotLoaded(th[t].extra) \in Nat
    <3>1. th[t].extra \in Nat /\ th[t].hd \in Nat
      BY <1>0 DEF Locals
    <3>2. SizeMod \in Nat \ {0}
      BY SessionAssumption
    <3> QED BY <3>1, <3>2 DEF BodyNotLoaded
  <2>3. {"close", "parsed", "body"} \subseteq Pcs
    BY DEF Pcs, IoPcs
  <2>4. [th[t] EXCEPT !.pc = "body", !.need = BodyNotLoaded(th[t].extra)] \in Locals
    BY <1>0, <2>1, <2>3 DEF Locals
  <2>5. CASE Kind(S, th[t].hd) \in {"post", "head"}
    <3>0. \/ /\ Update(S, CancelTimer(C)) /\ UNCHANGED <<tasks, th>>
             /\ Terminate("handler", S)
          \/ BodyRead(t, CancelTimer(C))
          \/ /\ Update(S, ArmTimer(CancelTimer(C))) /\ UNCHANGED crash
             /\ Become(t, [th[t] EXCEPT !.pc = "body",
                              !.need = BodyNotLoaded(th[t].extra)])
      BY <1>8, <2>5 DEF HeaderRead, S, C
    <3>6. CASE /\ Update(S, CancelTimer(C)) /\ UNCHANGED <<tasks, th>>
               /\ Terminate("handler", S)
      <4>1. conn' \in [Sessions -> Conns]
        BY <1>0, <1>1, <3>6, UpdateTypes DEF S
      <4> QED BY <1>0, <3>6, <4>1 DEF TypeOK, Terminate, S
    <3> DEFINE c == CancelTimer(C)
    <3>2. c \in Conns
      BY <1>1
    <3> HIDE DEF c
    <3>3. UNCHANGED tasks
      BY <1>8 DEF HeaderRead
    <3>4. CASE BodyRead(t, c)
      BY <1>7, <3>2, <3>3, <3>4
    <3>5. CASE /\ Update(S, ArmTimer(c)) /\ UNCHANGED crash
               /\ Become(t, [th[t] EXCEPT !.pc = "body",
                                !.need = BodyNotLoaded(th[t].extra)])
      <4>1. conn' \in [Sessions -> Conns]
        BY <1>0, <3>2, <3>5, ConnTypes, UpdateTypes DEF S
      <4>2. th' \in [Threads -> Locals]
        BY <1>0, <2>4, <3>5, BecomeTypes
      <4> QED BY <3>3, <3>5, <4>1, <4>2 DEF TypeOK
    <3> QED BY <3>0, <3>4, <3>5, <3>6 DEF c
  <2>6. CASE Kind(S, th[t].hd) \notin {"post", "head"}
    <3>1. conn' \in [Sessions -> Conns]
      BY <1>0, <1>1, <1>8, <2>6, UpdateTypes DEF HeaderRead, S, C
    <3>2. th' \in [Threads -> Locals]
      BY <1>0, <1>8, <2>3, <2>6, GotoTypes, GotoWithTypes DEF HeaderRead, S, TypeOK
    <3> QED BY <1>0, <1>8, <2>6, <3>1, <3>2 DEF HeaderRead, TypeOK, Terminate, S
  <2> QED BY <2>5, <2>6
<1>9. CASE BodyArrives(t)
  <2>1. [CancelTimer(C) EXCEPT !.taken = @ + th[t].need] \in Conns
    <3> DEFINE d == CancelTimer(C)
    <3> HIDE DEF d
    <3>1. d.taken + th[t].need \in Nat
      BY <1>0, <1>1, FieldTypes DEF Locals, d
    <3> QED BY <1>1, <3>1, ConnTypes DEF d
  <2>2. /\ BodyRead(t, [CancelTimer(C) EXCEPT !.taken = @ + th[t].need])
        /\ UNCHANGED tasks
    BY <1>9 DEF BodyArrives, C, S
  <2> QED BY <1>7, <2>1, <2>2
<1>10. CASE BodyFails(t)
  <2>1. conn' \in [Sessions -> Conns]
    BY <1>0, <1>1, <1>10, UpdateTypes DEF BodyFails, BodyEnds, S, C
  <2>2. "close" \in Pcs
    BY DEF Pcs
  <2>3. th' \in [Threads -> Locals]
    BY <1>0, <1>10, <2>2, EnterTypes DEF BodyFails, BodyEnds
  <2> QED BY <1>10, <2>1, <2>3 DEF BodyFails, BodyEnds, TypeOK
<1>11. CASE Enqueue(t)
  <2>1. conn' \in [Sessions -> Conns]
    BY <1>0, <1>1, <1>11, UpdateTypes DEF Enqueue, EnqueueThen, S, C
  <2>2. "idle" \in Pcs
    BY DEF Pcs
  <2>3. th' \in [Threads -> Locals]
    BY <1>0, <1>11, <2>2, EnterTypes DEF Enqueue, EnqueueThen
  <2>4. tasks' \subseteq Sessions \X Nat
    BY <1>0, <1>11 DEF Enqueue, EnqueueThen, TypeOK, Locals
  <2> QED BY <1>11, <2>1, <2>3, <2>4 DEF Enqueue, EnqueueThen, TypeOK
<1> QED
  BY <1>2, <1>3, <1>4, <1>5, <1>6, <1>8, <1>9, <1>10, <1>11 DEF IoStep

\* So does every step that only a CPU thread takes.
LEMMA CpuTypes ==
  ASSUME TypeOK, NEW t \in CpuThreads, CpuStep(t)
  PROVE  TypeOK'
<1>0. t \in Threads /\ th[t] \in Locals /\ th[t].s \in Sessions /\ th[t].hd \in Nat
  BY DEF TypeOK, Threads, Locals
<1>1. conn[th[t].s] \in Conns
  BY <1>0 DEF TypeOK
<1>2. ASSUME NEW j \in tasks, TakeTask(t, j[1], j[2]) PROVE TypeOK'
  <2>1. j[1] \in Sessions /\ j[2] \in Nat
    BY DEF TypeOK
  <2>2. [Idle EXCEPT !.pc = "process", !.s = j[1], !.hd = j[2]] \in Locals
    BY <2>1, IdleIsLocal DEF Locals, Pcs, CpuPcs
  <2>3. th' \in [Threads -> Locals]
    BY <1>0, <1>2, <2>2, BecomeTypes DEF TakeTask, TakeTaskLeaving
  <2> QED BY <1>2, <2>3 DEF TakeTask, TakeTaskLeaving, TypeOK
<1>3. CASE Process(t)
  <2>1. "send" \in Pcs
    BY DEF Pcs, CpuPcs
  <2>2. th' \in [Threads -> Locals]
    BY <1>0, <1>3, <2>1, GotoWithTypes DEF Process, ProcessWith, TypeOK
  <2> QED BY <1>0, <1>3, <2>2 DEF Process, ProcessWith, TypeOK, Terminate
<1>4. ASSUME NEW n \in Sizes
      PROVE  WriteSome(conn[th[t].s], th[t].hd, n) \in Conns
  <2> DEFINE c == conn[th[t].s]
             h == th[t].hd
  <2>1. c \in Conns /\ h \in Nat /\ n \in Nat
    BY <1>0, <1>1, SessionAssumption
  <2> HIDE DEF c, h
  <2>2. [c EXCEPT !.late = Append(@, h)] \in Conns
    <3>1. Append(c.late, h) \in Seq(Nat)
      BY <2>1, FieldTypes
    <3>2. \A q \in Seq(Nat) : [c EXCEPT !.late = q] \in Conns
      BY <2>1 DEF Conns
    <3> QED BY <3>1, <3>2
  <2>3. ASSUME NEW m \in Nat, m <= Room - c.unread, NEW how \in {"whole", "part"}
        PROVE  [c EXCEPT !.unread = @ + m,
                         !.replies = Append(@, [hd |-> h, len |-> n, how |-> how])]
                 \in Conns
    <3>1. c.unread + m \in 0 .. Room
      <4>1. c.unread \in 0 .. Room
        BY <2>1, FieldTypes
      <4> QED BY <4>1, <2>3, SessionAssumption
    <3>2. Append(c.replies, [hd |-> h, len |-> n, how |-> how])
            \in Seq([hd : Nat, len : Nat, how : {"whole", "part", "stale", "failed"}])
      BY <2>1, FieldTypes
    <3>3. \A u \in 0 .. Room,
             r \in Seq([hd : Nat, len : Nat, how : {"whole", "part", "stale", "failed"}]) :
            [c EXCEPT !.unread = u, !.replies = r] \in Conns
      BY <2>1 DEF Conns
    <3> QED BY <3>1, <3>2, <3>3
  <2>4. Room - c.unread \in Nat
    BY <2>1, FieldTypes, SessionAssumption
  <2> DEFINE free == Room - c.unread
             m == IF n <= free THEN n ELSE free
             how == IF n <= free THEN "whole" ELSE "part"
  <2>5. m \in Nat /\ m <= Room - c.unread /\ how \in {"whole", "part"}
    BY <2>1, <2>4
  <2>6. [c EXCEPT !.unread = @ + m,
                  !.replies = Append(@, [hd |-> h, len |-> n, how |-> how])] \in Conns
    BY <2>3, <2>5
  <2> QED BY <2>2, <2>6 DEF WriteSome, c, h
<1>9. ASSUME NEW n \in Sizes
      PROVE  Refused(conn[th[t].s], th[t].hd, n) \in Conns
  <2> DEFINE c == conn[th[t].s]
             h == th[t].hd
             q == Append(c.replies, [hd |-> h, len |-> n, how |-> "failed"])
  <2>1. c \in Conns /\ h \in Nat /\ n \in Nat
    BY <1>0, <1>1, SessionAssumption
  <2>2. q \in Seq([hd : Nat, len : Nat, how : {"whole", "part", "stale", "failed"}])
    BY <2>1, FieldTypes
  <2>3. \A r \in Seq([hd : Nat, len : Nat,
                      how : {"whole", "part", "stale", "failed"}]) :
          [c EXCEPT !.replies = r] \in Conns
    <3> HIDE DEF c
    <3> QED BY <2>1 DEF Conns
  <2>4. [c EXCEPT !.replies = q] \in Conns
    <3> HIDE DEF c, q
    <3> QED BY <2>2, <2>3
  <2> QED BY <2>4 DEF Refused
<1>5. CASE Send(t)
  <2>1. "write" \in Pcs /\ "next" \in Pcs
    BY DEF Pcs, CpuPcs
  <2>2. th' \in [Threads -> Locals]
    BY <1>0, <1>5, <2>1, GotoTypes DEF Send, SendIf
  <2> QED BY <1>5, <2>2 DEF Send, SendIf, TypeOK
<1>8. CASE Write(t)
  <2>1. conn' \in [Sessions -> Conns]
    BY <1>0, <1>4, <1>8, <1>9, UpdateTypes DEF Write, TypeOK
  <2>2. "rearm" \in Pcs
    BY DEF Pcs, CpuPcs
  <2>3. th' \in [Threads -> Locals]
    BY <1>0, <1>8, <2>2, GotoTypes DEF Write
  <2> QED BY <1>8, <2>1, <2>3 DEF Write, TypeOK
<1>6. CASE Rearm(t)
  <2>1. conn' \in [Sessions -> Conns]
    BY <1>0, <1>1, <1>6, ConnTypes, UpdateTypes DEF Rearm
  <2>2. "next" \in Pcs
    BY DEF Pcs, CpuPcs
  <2>3. th' \in [Threads -> Locals]
    BY <1>0, <1>6, <2>2, GotoTypes DEF Rearm
  <2> QED BY <1>6, <2>1, <2>3 DEF Rearm, TypeOK
<1>7. CASE NextRequest(t)
  <2>1. "close" \in Pcs /\ "run" \in Pcs
    BY DEF Pcs
  <2>2. th' \in [Threads -> Locals]
    BY <1>0, <1>7, <2>1, GotoTypes, GotoWithTypes DEF NextRequest
  <2> QED BY <1>7, <2>2 DEF NextRequest, TypeOK
<1> QED BY <1>2, <1>3, <1>5, <1>6, <1>7, <1>8 DEF CpuStep

\* So does every step that both kinds of thread take.
LEMMA CommonTypes ==
  ASSUME TypeOK, NEW t \in Threads, CommonStep(t)
  PROVE  TypeOK'
<1>0. th[t] \in Locals /\ th[t].s \in Sessions
  BY DEF TypeOK, Locals
<1>1. conn[th[t].s] \in Conns
  BY <1>0 DEF TypeOK
<1>2. {"idle", "post", "arm", "cancel", "shut", "down"} \subseteq Pcs
  BY DEF Pcs
<1>3. ASSUME NEW c \in Conns, AfterClose(t, c), UNCHANGED <<tasks, crash>>
      PROVE  TypeOK'
  <2>1. conn' \in [Sessions -> Conns]
    BY <1>0, <1>3, ConnTypes, UpdateTypes DEF AfterClose, AfterCloseFor
  <2>2. th' \in [Threads -> Locals]
    BY <1>3, ReturnTypes DEF AfterClose, AfterCloseFor
  <2> QED BY <1>3, <2>1, <2>2 DEF TypeOK
<1>4. CASE Run(t)
  <2>1. conn' \in [Sessions -> Conns]
    BY <1>0, <1>1, <1>4, ConnTypes, UpdateTypes DEF Run
  <2>2. th' \in [Threads -> Locals]
    BY <1>2, <1>4, GotoTypes, ReturnTypes DEF Run
  <2> QED BY <1>4, <2>1, <2>2 DEF Run, TypeOK
<1>5. CASE Post(t)
  <2>1. \A st \in {"pending", "error"} :
          [conn[th[t].s] EXCEPT !.rd = [NoRead EXCEPT !.st = st]] \in Conns
    BY <1>1 DEF Conns, NoRead
  <2>2. conn' \in [Sessions -> Conns]
    BY <1>0, <1>5, <2>1, UpdateTypes DEF Post
  <2>3. th' \in [Threads -> Locals]
    BY <1>2, <1>5, GotoTypes DEF Post
  <2> QED BY <1>5, <2>2, <2>3 DEF Post, TypeOK
<1>6. CASE Arm(t)
  <2>1. conn' \in [Sessions -> Conns]
    BY <1>0, <1>1, <1>6, ConnTypes, UpdateTypes DEF Arm
  <2>2. th' \in [Threads -> Locals]
    BY <1>6, ReturnTypes DEF Arm
  <2> QED BY <1>6, <2>1, <2>2 DEF Arm, TypeOK
<1>7. CASE CloseTest(t)
  <2>1. CASE Open(th[t].s)
    <3>1. th' \in [Threads -> Locals]
      BY <1>2, <1>7, <2>1, GotoTypes DEF CloseTest
    <3> QED BY <1>7, <2>1, <3>1 DEF CloseTest, TypeOK
  <2>2. CASE ~Open(th[t].s)
    BY <1>1, <1>3, <1>7, <2>2 DEF CloseTest
  <2> QED BY <2>1, <2>2
<1>8. CASE CloseCancel(t)
  <2>1. conn' \in [Sessions -> Conns]
    BY <1>0, <1>1, <1>8, ConnTypes, UpdateTypes DEF CloseCancel, TypeOK
  <2>2. th' \in [Threads -> Locals]
    BY <1>2, <1>8, GotoTypes DEF CloseCancel, TypeOK
  <2> QED BY <1>0, <1>8, <2>1, <2>2 DEF CloseCancel, TypeOK, Terminate
<1>9. CASE CloseShut(t)
  <2>1. [Aborted(conn[th[t].s]) EXCEPT !.sock = "closed"] \in Conns
    BY <1>1, ConnTypes
  <2> QED BY <1>3, <1>9, <2>1 DEF CloseShut
<1>10. CASE CloseDown(t)
  <2>1. [conn[th[t].s] EXCEPT !.shut = @ \/ Open(th[t].s)] \in Conns
    <3>1. conn[th[t].s].shut \/ Open(th[t].s) \in BOOLEAN
      BY <1>1, FieldTypes DEF Open
    <3> QED BY <1>1, <3>1, ConnTypes
  <2>2. conn' \in [Sessions -> Conns]
    BY <1>0, <1>10, <2>1, UpdateTypes DEF CloseDown
  <2>3. th' \in [Threads -> Locals]
    BY <1>2, <1>10, GotoTypes DEF CloseDown
  <2> QED BY <1>10, <2>2, <2>3 DEF CloseDown, TypeOK
<1> QED BY <1>4, <1>5, <1>6, <1>7, <1>8, <1>9, <1>10 DEF CommonStep

\* Type correctness is inductive.
LEMMA NextTypes == TypeOK /\ [Next]_vars => TypeOK'
<1> SUFFICES ASSUME TypeOK, [Next]_vars PROVE TypeOK'
  OBVIOUS
<1>1. CASE UNCHANGED vars
  BY <1>1 DEF vars, TypeOK
<1>2. CASE Next
  BY <1>2, PeerTypes, AsioTypes, IoTypes, CpuTypes, CommonTypes DEF Next
<1> QED BY <1>1, <1>2

(* Every field and local keeps its type: no timer's handler runs that is   *)
(* not due, and no more is written than a socket has room for              *)
(* (http_session.cpp:100-105, 129).                                        *)
THEOREM TypeCorrect == Spec => []TypeOK
  BY InitTypes, NextTypes, PTL DEF Spec

-----------------------------------------------------------------------------
(* The chain of a session, its timer and what an abort leads to.           *)

\* Thread t carries session s forward.
Carries(t, s) ==
  th[t].s = s /\ th[t].pc \notin {"idle", "arm"} /\ th[t].aux # "timeout"

Queued(s) == \E j \in tasks : j[1] = s
Reads(s) == conn[s].rd.st # "none"

\* Nothing will carry session s forward.
Nobody(s) ==
  /\ \A t \in Threads : ~Carries(t, s)
  /\ ~Queued(s) /\ ~Reads(s) /\ ~conn[s].written

\* At most one thread, task, read or write of session s.
Single(s) ==
  /\ \A t, u \in Threads : Carries(t, s) /\ Carries(u, s) => t = u
  /\ \A j, k \in tasks : j[1] = s /\ k[1] = s => j = k
  /\ \A t \in Threads :
       Carries(t, s) => ~Queued(s) /\ ~Reads(s) /\ ~conn[s].written
  /\ Queued(s) => ~Reads(s) /\ ~conn[s].written
  /\ Reads(s) => ~conn[s].written

\* A session starts with nobody, and a client's is called at the end of all.
Called(s) ==
  /\ conn[s].sock = "new" => Nobody(s) /\ conn[s].calls = 0
  /\ \/ conn[s].calls = 0
     \/ conn[s].calls = 1 /\ conn[s].sock = "closed" /\ Nobody(s)

AttendedAt(s) == Running /\ Open(s) => ~Nobody(s)

\* Only IO threads time out, and only to close the socket.
Timeouts(s) ==
  /\ conn[s].fired > 0 => conn[s].timedOut
  /\ \A t \in Threads :
       th[t].s = s /\ th[t].aux = "timeout" =>
         /\ t \in IoThreads /\ th[t].pc \in {"close", "cancel", "shut", "down"}
         /\ conn[s].timedOut

WatchedAt(s) ==
  /\ Running /\ Open(s) /\ Waiting(s)
  /\ \A t \in Threads : th[t].s = s => th[t].pc # "arm"
  => Watched(s)

\* Who has seen an open socket, or left one behind, finds it closed only by a
\* timeout.
InterruptedAt(s) ==
  /\ conn[s].sock = "closed"
  /\ \/ Queued(s)
     \/ \E t \in Threads :
          /\ Carries(t, s)
          /\ th[t].pc \in {"process", "send", "write", "cancel", "shut", "down"}
  => conn[s].timedOut

\* A read is aborted by a timeout that has not yet closed the socket.
AbortedAt(s) ==
  /\ Open(s)
  /\ \/ conn[s].rd.st = "aborted"
     \/ \E t \in Threads :
          th[t].s = s /\ th[t].pc = "read" /\ th[t].aux = "aborted"
  => \E u \in Threads :
       th[u].s = s /\ th[u].pc \in {"shut", "down"} /\ th[u].aux = "timeout"

\* An open socket that is shut down is so by a timeout or by the thread that
\* carries the session to its end.
ShutAt(s) ==
  /\ conn[s].sock = "new" => ~conn[s].shut
  /\ Open(s) /\ conn[s].shut =>
       \/ conn[s].timedOut
       \/ \E t \in Threads : Carries(t, s) /\ th[t].pc = "down"

SessionInv(s) ==
  /\ Single(s) /\ Called(s) /\ AttendedAt(s) /\ Timeouts(s)
  /\ WatchedAt(s) /\ InterruptedAt(s) /\ AbortedAt(s) /\ ShutAt(s)

Inv == TypeOK /\ \A s \in Sessions : SessionInv(s)

-----------------------------------------------------------------------------

\* Update changes one session.
LEMMA UpdateEffect ==
  ASSUME TypeOK, NEW s \in Sessions, NEW c, Update(s, c)
  PROVE  conn'[s] = c /\ \A r \in Sessions \ {s} : conn'[r] = conn[r]
  BY DEF Update, TypeOK

\* Become changes one thread.
LEMMA BecomeEffect ==
  ASSUME TypeOK, NEW t \in Threads, NEW l, Become(t, l)
  PROVE  th'[t] = l /\ \A u \in Threads \ {t} : th'[u] = th[u]
  BY DEF Become, TypeOK

\* The fields that matter here, after the steps that only touch the timer.
LEMMA TimerFields ==
  ASSUME NEW c \in Conns
  PROVE  /\ \A d \in {CancelTimer(c), ArmTimer(c)} :
              /\ d.sock = c.sock /\ d.rd = c.rd /\ d.written = c.written
              /\ d.fired = c.fired /\ d.calls = c.calls /\ d.timedOut = c.timedOut
              /\ d.shut = c.shut
         /\ ArmTimer(c).armed
  BY DEF CancelTimer, ArmTimer, Conns

\* The fields of a thread's new locals, for each way to write them.
LEMMA ThreadFields ==
  /\ \A l \in Locals, p \in Pcs :
       /\ [l EXCEPT !.pc = p].pc = p
       /\ [l EXCEPT !.pc = p].s = l.s /\ [l EXCEPT !.pc = p].aux = l.aux
  /\ \A l \in Locals, p \in Pcs, a \in {"error", "bye"} \cup Outcomes :
       /\ [l EXCEPT !.pc = p, !.aux = a].pc = p
       /\ [l EXCEPT !.pc = p, !.aux = a].s = l.s
       /\ [l EXCEPT !.pc = p, !.aux = a].aux = a
  /\ Idle.pc = "idle" /\ Idle.aux = "none"
  /\ \A s \in Sessions, p \in Pcs :
       /\ [Idle EXCEPT !.pc = p, !.s = s].pc = p
       /\ [Idle EXCEPT !.pc = p, !.s = s].s = s
       /\ [Idle EXCEPT !.pc = p, !.s = s].aux = "none"
       /\ \A a \in {"error", "timeout"} :
            /\ [Idle EXCEPT !.pc = p, !.s = s, !.aux = a].pc = p
            /\ [Idle EXCEPT !.pc = p, !.s = s, !.aux = a].s = s
            /\ [Idle EXCEPT !.pc = p, !.s = s, !.aux = a].aux = a
  BY DEF Locals, Idle

\* A step that concerns session s only.
Others(s) ==
  /\ \A r \in Sessions \ {s} : conn'[r] = conn[r]
  /\ \A u \in Threads :
       \/ th'[u] = th[u]
       \/ /\ th[u].pc = "idle" \/ th[u].s = s
          /\ (th'[u].pc = "idle" /\ th'[u].aux = "none") \/ th'[u].s = s
  /\ \A j \in tasks \cup tasks' : j[1] # s => (j \in tasks <=> j \in tasks')

\* The invariant of a session is kept by what concerns another one.
LEMMA Elsewhere ==
  ASSUME Running, NEW s \in Sessions, Others(s),
         NEW r \in Sessions, r # s, SessionInv(r)
  PROVE  SessionInv(r)'
<1> USE DEF Others, SessionInv
<1>1. conn'[r] = conn[r]
  OBVIOUS
<1>2. Timeouts(r)'
  BY <1>1 DEF Timeouts
<1>3. \A t \in Threads : Carries(t, r)' <=> Carries(t, r)
  BY DEF Carries
<1>4. \A j \in tasks \cup tasks' : j[1] = r => (j \in tasks <=> j \in tasks')
  OBVIOUS
<1>5. /\ Queued(r)' <=> Queued(r)
      /\ Reads(r)' <=> Reads(r)
      /\ Nobody(r)' <=> Nobody(r)
  BY <1>1, <1>3, <1>4 DEF Queued, Reads, Nobody
<1>6. Single(r)'
  BY <1>1, <1>3, <1>4, <1>5 DEF Single
<1>7. Called(r)' /\ AttendedAt(r)'
  BY <1>1, <1>5 DEF Called, AttendedAt, Open
<1>8. WatchedAt(r)'
  BY <1>1 DEF WatchedAt, Timeouts, Open, Waiting, Watched
<1>9. InterruptedAt(r)'
  BY <1>1, <1>3, <1>5 DEF InterruptedAt, Carries
<1>10. AbortedAt(r)'
  BY <1>1 DEF AbortedAt, Open
<1>11. ShutAt(r)'
  BY <1>1, <1>3 DEF ShutAt, Open, Carries
<1> QED BY <1>2, <1>6, <1>7, <1>8, <1>9, <1>10, <1>11

-----------------------------------------------------------------------------
(* What each step does to the fields and threads that matter here.         *)

\* d is c, but for the timer and what the peer does.
Same(c, d) ==
  /\ d.sock = c.sock /\ d.rd = c.rd /\ d.written = c.written
  /\ d.fired = c.fired /\ d.calls = c.calls /\ d.timedOut = c.timedOut
  /\ d.shut = c.shut

\* Thread t alone moves, to p in session s, or becomes idle.
Moves(t, s, p, aux) ==
  /\ th'[t].pc = p /\ th'[t].s = s /\ th'[t].aux = aux
  /\ \A u \in Threads \ {t} : th'[u] = th[u]

Leaves(t) ==
  /\ th'[t].pc = "idle" /\ th'[t].aux = "none"
  /\ \A u \in Threads \ {t} : th'[u] = th[u]

\* Each helper moves one thread.
LEMMA MoveEffects ==
  ASSUME TypeOK, NEW t \in Threads
  PROVE  /\ \A p \in Pcs : Goto(t, p) => Moves(t, th[t].s, p, th[t].aux)
         /\ \A p \in Pcs, a \in {"error", "bye"} \cup Outcomes :
              GotoWith(t, p, a) => Moves(t, th[t].s, p, a)
         /\ Return(t) => Leaves(t)
         /\ \A s \in Sessions, p \in Pcs :
              /\ Enter(t, s, p) => Moves(t, s, p, "none")
              /\ \A a \in {"error", "timeout"} :
                   EnterWith(t, s, p, a) => Moves(t, s, p, a)
<1>0. th[t] \in Locals
  BY DEF TypeOK
<1>1. ASSUME NEW p \in Pcs, Goto(t, p) PROVE Moves(t, th[t].s, p, th[t].aux)
  <2>1. th'[t] = [th[t] EXCEPT !.pc = p] /\ \A u \in Threads \ {t} : th'[u] = th[u]
    BY <1>1, BecomeEffect DEF Goto
  <2> QED BY <1>0, <2>1, ThreadFields DEF Moves
<1>2. ASSUME NEW p \in Pcs, NEW a \in {"error", "bye"} \cup Outcomes,
             GotoWith(t, p, a)
      PROVE  Moves(t, th[t].s, p, a)
  <2>1. /\ th'[t] = [th[t] EXCEPT !.pc = p, !.aux = a]
        /\ \A u \in Threads \ {t} : th'[u] = th[u]
    BY <1>2, BecomeEffect DEF GotoWith
  <2> QED BY <1>0, <2>1, ThreadFields DEF Moves
<1>3. ASSUME Return(t) PROVE Leaves(t)
  <2>1. th'[t] = Idle /\ \A u \in Threads \ {t} : th'[u] = th[u]
    BY <1>3, BecomeEffect DEF Return
  <2> QED BY <2>1, ThreadFields DEF Leaves
<1>4. ASSUME NEW s \in Sessions, NEW p \in Pcs, Enter(t, s, p)
      PROVE  Moves(t, s, p, "none")
  <2>1. /\ th'[t] = [Idle EXCEPT !.pc = p, !.s = s]
        /\ \A u \in Threads \ {t} : th'[u] = th[u]
    BY <1>4, BecomeEffect DEF Enter
  <2> QED BY <2>1, ThreadFields DEF Moves
<1>5. ASSUME NEW s \in Sessions, NEW p \in Pcs, NEW a \in {"error", "timeout"},
             EnterWith(t, s, p, a)
      PROVE  Moves(t, s, p, a)
  <2>1. /\ th'[t] = [Idle EXCEPT !.pc = p, !.s = s, !.aux = a]
        /\ \A u \in Threads \ {t} : th'[u] = th[u]
    BY <1>5, BecomeEffect DEF EnterWith
  <2> QED BY <2>1, ThreadFields DEF Moves
<1> QED BY <1>1, <1>2, <1>3, <1>4, <1>5

\* The peer changes nothing that the invariant speaks of.
LEMMA PeerEffect ==
  ASSUME TypeOK, NEW s \in Sessions,
         PeerSend(s) \/ PeerClose(s) \/ PeerRead(s) \/ LateWrite(s)
  PROVE  Same(conn[s], conn'[s]) /\ conn'[s].armed = conn[s].armed
<1>0. conn[s] \in Conns
  BY DEF TypeOK
<1>2. CASE PeerSend(s)
  <2> DEFINE k == conn[s].sent + 1
             waits == /\ Len(conn[s].replies) = Cardinality(HeadersSent(s))
                      /\ conn[s].unread = 0
             e == conn[s].eager \/ (Kind(s, k) \in Headers /\ ~waits)
  <2>1. Update(s, [conn[s] EXCEPT !.sent = k, !.eager = e])
    BY <1>2 DEF PeerSend
  <2> HIDE DEF k, e
  <2>2. conn'[s] = [conn[s] EXCEPT !.sent = k, !.eager = e]
    BY <2>1, UpdateEffect
  <2> QED BY <1>0, <2>2 DEF Conns, Same
<1>3. CASE PeerClose(s)
  <2>1. \E p : conn'[s] = [conn[s] EXCEPT !.peer = p]
    BY <1>3, UpdateEffect DEF PeerClose
  <2> QED BY <1>0, <2>1 DEF Conns, Same
<1>4. CASE PeerRead(s)
  <2>1. \E n : conn'[s] = [conn[s] EXCEPT !.unread = n]
    BY <1>4, UpdateEffect DEF PeerRead
  <2> QED BY <1>0, <2>1 DEF Conns, Same
<1>5. CASE LateWrite(s)
  <2> DEFINE late == Tail(conn[s].late)
             n == conn[s].unread + 1
             r == Append(conn[s].replies,
                         [hd |-> Head(conn[s].late), len |-> 1, how |-> "stale"])
  <2>1. Update(s, [conn[s] EXCEPT !.late = late, !.unread = n, !.replies = r])
    BY <1>5 DEF LateWrite
  <2> HIDE DEF late, n, r
  <2>2. conn'[s] = [conn[s] EXCEPT !.late = late, !.unread = n, !.replies = r]
    BY <2>1, UpdateEffect
  <2> QED BY <1>0, <2>2 DEF Conns, Same
<1> QED BY <1>2, <1>3, <1>4, <1>5

\* A pending read completes, with or without an error.
LEMMA ReadEffect ==
  ASSUME TypeOK, NEW s \in Sessions, ReadCompletes(s) \/ ReadFails(s)
  PROVE  /\ conn[s].rd.st = "pending" /\ conn'[s].rd.st \in {"ok", "error"}
         /\ conn'[s].sock = conn[s].sock /\ conn'[s].written = conn[s].written
         /\ conn'[s].fired = conn[s].fired /\ conn'[s].calls = conn[s].calls
         /\ conn'[s].timedOut = conn[s].timedOut
         /\ conn'[s].shut = conn[s].shut
<1>0. conn[s] \in Conns
  BY DEF TypeOK
<1>1. CASE ReadCompletes(s)
  <2>0. PICK h \in Wire(s) : \E e \in 0 .. conn[s].sent - h :
          Update(s, [conn[s] EXCEPT !.rd = [st |-> "ok", hd |-> h, extra |-> e],
                                    !.taken = h + e])
    BY <1>1 DEF ReadCompletes
  <2>1. PICK e \in 0 .. conn[s].sent - h :
          conn'[s] = [conn[s] EXCEPT !.rd = [st |-> "ok", hd |-> h, extra |-> e],
                                     !.taken = h + e]
    BY <2>0, UpdateEffect
  <2>2. conn[s].rd.st = "pending"
    BY <1>1 DEF ReadCompletes
  <2> QED BY <1>0, <2>1, <2>2 DEF Conns
<1>2. CASE ReadFails(s)
  <2>1. conn'[s] = [conn[s] EXCEPT !.rd.st = "error"]
    BY <1>2, UpdateEffect DEF ReadFails
  <2>2. conn[s].rd.st = "pending"
    BY <1>2 DEF ReadFails
  <2> QED BY <1>0, <2>1, <2>2 DEF Conns
<1> QED BY <1>1, <1>2

\* The timer fires: it is not armed any more, and a handler waits.
LEMMA ExpireEffect ==
  ASSUME TypeOK, NEW s \in Sessions, Expire(s)
  PROVE  /\ conn'[s].fired > 0 /\ conn'[s].timedOut
         /\ conn'[s].sock = conn[s].sock /\ conn'[s].rd = conn[s].rd
         /\ conn'[s].written = conn[s].written /\ conn'[s].calls = conn[s].calls
         /\ conn'[s].shut = conn[s].shut
<1>1. conn[s] \in Conns /\ CancelTimer(conn[s]) \in Conns
  BY ConnTypes DEF TypeOK
<1> DEFINE c == CancelTimer(conn[s])
<1>2. conn'[s] = [c EXCEPT !.fired = @ + 1, !.timedOut = TRUE]
  BY UpdateEffect DEF Expire
<1>3. /\ c.sock = conn[s].sock /\ c.rd = conn[s].rd /\ c.fired + 1 > 0
      /\ c.written = conn[s].written /\ c.calls = conn[s].calls
      /\ c.shut = conn[s].shut
  BY <1>1, TimerFields, FieldTypes
<1>4. c \in Conns
  BY <1>1
<1> HIDE DEF c
<1> QED BY <1>2, <1>3, <1>4 DEF Conns

\* Opening: a client connects and writes, or an acceptor has accepted.
LEMMA OpenEffect ==
  ASSUME TypeOK, NEW s \in Sessions, NEW t, Request(t, s) \/ Accept(t, s)
  PROVE  /\ conn[s].sock = "new" /\ conn'[s].sock = "open"
         /\ conn'[s].rd = conn[s].rd /\ conn'[s].fired = conn[s].fired
         /\ conn'[s].calls = conn[s].calls /\ conn'[s].timedOut = conn[s].timedOut
         /\ conn'[s].shut = conn[s].shut
         /\ Request(t, s) => conn'[s].written
         /\ Accept(t, s) => conn'[s].written = conn[s].written
<1>0. conn[s] \in Conns
  BY DEF TypeOK
<1>1. CASE Request(t, s)
  <2>1. conn'[s] = [conn[s] EXCEPT !.sock = "open", !.written = TRUE]
    BY <1>1, UpdateEffect DEF Request
  <2>2. conn[s].sock = "new" /\ IsClient(s)
    BY <1>1 DEF Request
  <2> QED BY <1>0, <2>1, <2>2 DEF Conns, Accept
<1>2. CASE Accept(t, s)
  <2>1. conn'[s] = [conn[s] EXCEPT !.sock = "open"]
    BY <1>2, UpdateEffect DEF Accept
  <2>2. conn[s].sock = "new" /\ ~IsClient(s)
    BY <1>2 DEF Accept
  <2> QED BY <1>0, <2>1, <2>2 DEF Conns, Request
<1> QED BY <1>1, <1>2

\* An IO thread takes what waits for it.
LEMMA TakeEffect ==
  ASSUME TypeOK, NEW s \in Sessions, NEW t \in IoThreads
  PROVE  /\ TakeRead(t, s) =>
              /\ conn[s].rd.st \in {"ok", "aborted", "error"}
              /\ conn'[s].rd.st = "none" /\ conn'[s].sock = conn[s].sock
              /\ conn'[s].written = conn[s].written
              /\ conn'[s].fired = conn[s].fired /\ conn'[s].calls = conn[s].calls
              /\ conn'[s].timedOut = conn[s].timedOut
              /\ conn'[s].shut = conn[s].shut
              /\ Moves(t, s, "read", conn[s].rd.st)
         /\ TakeWritten(t, s) =>
              /\ conn[s].written /\ ~conn'[s].written
              /\ conn'[s].rd = conn[s].rd /\ conn'[s].sock = conn[s].sock
              /\ conn'[s].armed = conn[s].armed
              /\ conn'[s].fired = conn[s].fired /\ conn'[s].calls = conn[s].calls
              /\ conn'[s].timedOut = conn[s].timedOut
              /\ conn'[s].shut = conn[s].shut
              /\ Moves(t, s, "post", "none")
         /\ TakeTimer(t, s) =>
              /\ conn[s].fired > 0
              /\ conn'[s].rd = conn[s].rd /\ conn'[s].sock = conn[s].sock
              /\ conn'[s].written = conn[s].written
              /\ conn'[s].calls = conn[s].calls
              /\ conn'[s].timedOut = conn[s].timedOut
              /\ conn'[s].shut = conn[s].shut
              /\ Moves(t, s, "close", "timeout")
<1>0. conn[s] \in Conns /\ t \in Threads /\ {"post", "close"} \subseteq Pcs
  BY DEF TypeOK, Threads, Pcs
<1>1. ASSUME TakeRead(t, s)
      PROVE  /\ conn[s].rd.st \in {"ok", "aborted", "error"}
             /\ conn'[s].rd.st = "none" /\ conn'[s].sock = conn[s].sock
             /\ conn'[s].written = conn[s].written
             /\ conn'[s].fired = conn[s].fired /\ conn'[s].calls = conn[s].calls
             /\ conn'[s].timedOut = conn[s].timedOut
             /\ conn'[s].shut = conn[s].shut
             /\ Moves(t, s, "read", conn[s].rd.st)
  <2>1. conn'[s] = [conn[s] EXCEPT !.rd = NoRead]
    BY <1>1, UpdateEffect DEF TakeRead
  <2>2. conn[s].rd.st \in {"ok", "aborted", "error"}
    BY <1>1 DEF TakeRead
  <2> DEFINE r == conn[s].rd
             l == [Idle EXCEPT !.pc = "read", !.s = s, !.hd = r.hd,
                               !.extra = r.extra, !.aux = r.st]
  <2>3. Become(t, l)
    BY <1>1 DEF TakeRead
  <2>4. l.pc = "read" /\ l.s = s /\ l.aux = r.st
    <3> HIDE DEF r
    <3> QED BY DEF Idle
  <2>5. th'[t] = l /\ \A u \in Threads \ {t} : th'[u] = th[u]
    <3> HIDE DEF l
    <3> QED BY <1>0, <2>3, BecomeEffect
  <2>6. Moves(t, s, "read", r.st)
    BY <2>4, <2>5 DEF Moves
  <2> QED BY <1>0, <2>1, <2>2, <2>6 DEF Conns, NoRead
<1>2. ASSUME TakeWritten(t, s)
      PROVE  /\ conn[s].written /\ ~conn'[s].written
             /\ conn'[s].rd = conn[s].rd /\ conn'[s].sock = conn[s].sock
             /\ conn'[s].armed = conn[s].armed
             /\ conn'[s].fired = conn[s].fired /\ conn'[s].calls = conn[s].calls
             /\ conn'[s].timedOut = conn[s].timedOut
             /\ conn'[s].shut = conn[s].shut
             /\ Moves(t, s, "post", "none")
  <2>1. conn'[s] = [conn[s] EXCEPT !.written = FALSE]
    BY <1>2, UpdateEffect DEF TakeWritten
  <2>2. conn[s].written /\ Moves(t, s, "post", "none")
    BY <1>0, <1>2, MoveEffects DEF TakeWritten
  <2> QED BY <1>0, <2>1, <2>2 DEF Conns
<1>3. ASSUME TakeTimer(t, s)
      PROVE  /\ conn[s].fired > 0
             /\ conn'[s].rd = conn[s].rd /\ conn'[s].sock = conn[s].sock
             /\ conn'[s].written = conn[s].written
             /\ conn'[s].calls = conn[s].calls
             /\ conn'[s].timedOut = conn[s].timedOut
             /\ conn'[s].shut = conn[s].shut
             /\ Moves(t, s, "close", "timeout")
  <2>1. conn'[s] = [conn[s] EXCEPT !.fired = @ - 1]
    BY <1>3, UpdateEffect DEF TakeTimer
  <2>2. conn[s].fired > 0 /\ Moves(t, s, "close", "timeout")
    BY <1>0, <1>3, MoveEffects DEF TakeTimer
  <2> QED BY <1>0, <2>1, <2>2 DEF Conns
<1> QED BY <1>1, <1>2, <1>3

\* From here on s is the session that t is in.
LEMMA CancelEffect ==
  ASSUME TypeOK, NEW s \in Sessions
  PROVE  /\ Update(s, CancelTimer(conn[s])) => Same(conn[s], conn'[s])
         /\ Update(s, ArmTimer(conn[s])) =>
              Same(conn[s], conn'[s]) /\ conn'[s].armed
<1>1. conn[s] \in Conns
  BY DEF TypeOK
<1> QED BY <1>1, UpdateEffect, TimerFields DEF Same

\* run_process(): a closed socket ends the session.
RunMakes(t, s) ==
  /\ th[t].pc = "run" /\ Same(conn[s], conn'[s])
  /\ IF Open(s) THEN Moves(t, s, "post", th[t].aux) ELSE Leaves(t)

\* Run does that.
LEMMA RunEffect ==
  ASSUME TypeOK, NEW t \in Threads, NEW s \in Sessions, s = th[t].s, Run(t)
  PROVE  RunMakes(t, s)
<1> USE DEF RunMakes
<1>1. "post" \in Pcs
  BY DEF Pcs
<1> QED BY <1>1, CancelEffect, MoveEffects DEF Run, At

\* A read is started, and the timer is still to be armed.
PostMakes(t, s) ==
  /\ th[t].pc = "post" /\ Moves(t, s, "arm", th[t].aux)
  /\ conn'[s].rd.st = IF Open(s) THEN "pending" ELSE "error"
  /\ conn'[s].sock = conn[s].sock /\ conn'[s].written = conn[s].written
  /\ conn'[s].fired = conn[s].fired /\ conn'[s].calls = conn[s].calls
  /\ conn'[s].timedOut = conn[s].timedOut
  /\ conn'[s].shut = conn[s].shut

\* Post does that.
LEMMA PostEffect ==
  ASSUME TypeOK, NEW t \in Threads, NEW s \in Sessions, s = th[t].s, Post(t)
  PROVE  PostMakes(t, s)
<1> USE DEF PostMakes
<1>1. "arm" \in Pcs /\ conn[s] \in Conns
  BY DEF Pcs, TypeOK
<1>2. th[t].pc = "post" /\ Moves(t, s, "arm", th[t].aux)
  BY <1>1, MoveEffects DEF Post, At
<1> DEFINE st == IF Open(s) THEN "pending" ELSE "error"
<1>3. conn'[s] = [conn[s] EXCEPT !.rd = [NoRead EXCEPT !.st = st]]
  BY UpdateEffect DEF Post
<1> HIDE DEF st
<1>4. /\ conn'[s].rd.st = st
      /\ conn'[s].sock = conn[s].sock /\ conn'[s].written = conn[s].written
      /\ conn'[s].fired = conn[s].fired /\ conn'[s].calls = conn[s].calls
      /\ conn'[s].timedOut = conn[s].timedOut
      /\ conn'[s].shut = conn[s].shut
  BY <1>1, <1>3 DEF Conns, NoRead
<1> QED BY <1>2, <1>4 DEF st

\* The timer is armed, and the thread leaves.
ArmMakes(t, s) ==
  /\ th[t].pc = "arm" /\ Leaves(t)
  /\ Same(conn[s], conn'[s]) /\ conn'[s].armed

\* Arm does that.
LEMMA ArmEffect ==
  ASSUME TypeOK, NEW t \in Threads, NEW s \in Sessions, s = th[t].s, Arm(t)
  PROVE  ArmMakes(t, s)
  BY CancelEffect, MoveEffects DEF Arm, At, ArmMakes

\* The end of close(), which has made c of the session.
LEMMA AfterCloseEffect ==
  ASSUME TypeOK, NEW t \in Threads, NEW s \in Sessions, s = th[t].s,
         NEW c \in Conns, AfterClose(t, c)
  PROVE  /\ Leaves(t)
         /\ conn'[s].sock = c.sock /\ conn'[s].rd = c.rd
         /\ conn'[s].written = c.written /\ conn'[s].fired = c.fired
         /\ conn'[s].timedOut = c.timedOut
         /\ conn'[s].shut = c.shut
         /\ IF th[t].aux = "error" THEN conn'[s].calls \in {c.calls, c.calls + 1}
                                   ELSE conn'[s] = c
<1>1. Leaves(t)
  BY MoveEffects DEF AfterClose, AfterCloseFor
<1>2. CASE th[t].aux = "error"
  <2> DEFINE d == CancelTimer(c)
  <2>1. d \in Conns /\ Same(c, d)
    BY ConnTypes, TimerFields DEF Same
  <2>2. conn'[s] = Told(s, d)
    BY <1>2, UpdateEffect DEF AfterClose, AfterCloseFor
  <2> DEFINE n == d.calls + 1
  <2>3. conn'[s] = d \/ conn'[s] = [d EXCEPT !.calls = n]
    BY <2>2 DEF Told
  <2> HIDE DEF d, n
  <2>4. CASE conn'[s] = [d EXCEPT !.calls = n]
    <3>1. /\ conn'[s].sock = d.sock /\ conn'[s].rd = d.rd
          /\ conn'[s].written = d.written /\ conn'[s].fired = d.fired
          /\ conn'[s].timedOut = d.timedOut /\ conn'[s].calls = n
          /\ conn'[s].shut = d.shut
      BY <2>1, <2>4 DEF Conns
    <3> QED BY <1>1, <1>2, <2>1, <3>1 DEF Same, n
  <2>5. CASE conn'[s] = d
    BY <1>1, <1>2, <2>1, <2>5 DEF Same
  <2> QED BY <2>3, <2>4, <2>5
<1>3. CASE th[t].aux # "error"
  BY <1>1, <1>3, UpdateEffect DEF AfterClose, AfterCloseFor
<1> QED BY <1>2, <1>3

\* close() goes on if the socket is open; else the callback may be called.
CloseTestMakes(t, s) ==
  /\ th[t].pc = "close"
  /\ \/ /\ Open(s) /\ UNCHANGED conn
        /\ Moves(t, s, "cancel", th[t].aux)
     \/ /\ ~Open(s) /\ Leaves(t)
        /\ conn'[s].sock = conn[s].sock /\ conn'[s].rd = conn[s].rd
        /\ conn'[s].written = conn[s].written
        /\ conn'[s].fired = conn[s].fired
        /\ conn'[s].timedOut = conn[s].timedOut
        /\ conn'[s].shut = conn[s].shut
        /\ IF th[t].aux = "error"
             THEN conn'[s].calls \in {conn[s].calls, conn[s].calls + 1}
             ELSE conn'[s].calls = conn[s].calls

\* CloseTest does that.
LEMMA CloseTestEffect ==
  ASSUME TypeOK, NEW t \in Threads, NEW s \in Sessions, s = th[t].s, CloseTest(t)
  PROVE  CloseTestMakes(t, s)
<1> USE DEF CloseTestMakes
<1>1. "cancel" \in Pcs /\ conn[s] \in Conns
  BY DEF Pcs, TypeOK
<1> QED BY <1>1, MoveEffects, AfterCloseEffect DEF CloseTest, At

\* socket_.cancel() aborts a pending read, and that is all.
LEMMA AbortedFields ==
  ASSUME NEW c \in Conns
  PROVE  LET d == Aborted(c) IN
         /\ d \in Conns
         /\ d.sock = c.sock /\ d.written = c.written /\ d.armed = c.armed
         /\ d.fired = c.fired /\ d.calls = c.calls /\ d.timedOut = c.timedOut
         /\ d.shut = c.shut
         /\ d.rd.st = IF c.rd.st = "pending" THEN "aborted" ELSE c.rd.st
<1> DEFINE st == IF c.rd.st = "pending" THEN "aborted" ELSE c.rd.st
<1>1. Aborted(c) \in Conns
  BY ConnTypes
<1>2. Aborted(c) = [c EXCEPT !.rd.st = st]
  BY DEF Aborted
<1>3. \A x : LET d == [c EXCEPT !.rd.st = x] IN
        /\ d.sock = c.sock /\ d.written = c.written /\ d.armed = c.armed
        /\ d.fired = c.fired /\ d.calls = c.calls /\ d.timedOut = c.timedOut
        /\ d.shut = c.shut
        /\ d.rd.st = x
  BY DEF Conns
<1> HIDE DEF st
<1>4. LET d == Aborted(c) IN
      /\ d.sock = c.sock /\ d.written = c.written /\ d.armed = c.armed
      /\ d.fired = c.fired /\ d.calls = c.calls /\ d.timedOut = c.timedOut
      /\ d.shut = c.shut
      /\ d.rd.st = st
  BY <1>2, <1>3
<1> QED BY <1>1, <1>4 DEF st

\* The pending read is aborted, or the process dies.
CloseCancelMakes(t, s) ==
  /\ th[t].pc = "cancel"
  /\ \/ /\ Open(s) /\ UNCHANGED crash
        /\ Moves(t, s, "shut", th[t].aux)
        /\ conn'[s].rd.st = IF conn[s].rd.st = "pending" THEN "aborted"
                                                  ELSE conn[s].rd.st
        /\ conn'[s].sock = conn[s].sock /\ conn'[s].armed = conn[s].armed
        /\ conn'[s].written = conn[s].written
        /\ conn'[s].fired = conn[s].fired /\ conn'[s].calls = conn[s].calls
        /\ conn'[s].timedOut = conn[s].timedOut
        /\ conn'[s].shut = conn[s].shut
     \/ /\ ~Open(s) /\ UNCHANGED <<conn, th>>
        /\ crash' = [why |-> "closed_socket", s |-> s]

\* CloseCancel does that.
LEMMA CloseCancelEffect ==
  ASSUME TypeOK, NEW t \in Threads, NEW s \in Sessions, s = th[t].s, CloseCancel(t)
  PROVE  CloseCancelMakes(t, s)
<1> USE DEF CloseCancelMakes
<1>1. "shut" \in Pcs /\ conn[s] \in Conns
  BY DEF Pcs, TypeOK
<1>2. CASE Open(s)
  <2>1. conn'[s] = Aborted(conn[s])
    BY <1>2, UpdateEffect DEF CloseCancel
  <2>2. /\ th[t].pc = "cancel" /\ UNCHANGED crash
        /\ Moves(t, s, "shut", th[t].aux)
    BY <1>1, <1>2, MoveEffects DEF CloseCancel, At
  <2> QED BY <1>1, <1>2, <2>1, <2>2, AbortedFields
<1>3. CASE ~Open(s)
  BY <1>3 DEF CloseCancel, At, Terminate
<1> QED BY <1>2, <1>3

\* A socket that is still open is shut down.
CloseDownMakes(t, s) ==
  /\ th[t].pc = "shut" /\ Moves(t, s, "down", th[t].aux)
  /\ conn'[s].shut = (conn[s].shut \/ Open(s))
  /\ conn'[s].rd = conn[s].rd /\ conn'[s].armed = conn[s].armed
  /\ conn'[s].sock = conn[s].sock /\ conn'[s].written = conn[s].written
  /\ conn'[s].fired = conn[s].fired /\ conn'[s].calls = conn[s].calls
  /\ conn'[s].timedOut = conn[s].timedOut

\* CloseDown does that.
LEMMA CloseDownEffect ==
  ASSUME TypeOK, NEW t \in Threads, NEW s \in Sessions, s = th[t].s, CloseDown(t)
  PROVE  CloseDownMakes(t, s)
<1>1. "down" \in Pcs /\ conn[s] \in Conns
  BY DEF Pcs, TypeOK
<1>2. th[t].pc = "shut" /\ Moves(t, s, "down", th[t].aux)
  BY <1>1, MoveEffects DEF CloseDown, At
<1> DEFINE b == conn[s].shut \/ Open(s)
<1>3. conn'[s] = [conn[s] EXCEPT !.shut = b]
  BY UpdateEffect DEF CloseDown
<1> HIDE DEF b
<1>4. /\ conn'[s].shut = b
      /\ conn'[s].rd = conn[s].rd /\ conn'[s].armed = conn[s].armed
      /\ conn'[s].sock = conn[s].sock /\ conn'[s].written = conn[s].written
      /\ conn'[s].fired = conn[s].fired /\ conn'[s].calls = conn[s].calls
      /\ conn'[s].timedOut = conn[s].timedOut
  BY <1>1, <1>3 DEF Conns
<1> QED BY <1>2, <1>4 DEF CloseDownMakes, b

\* The socket is closed, and the callback may be called.
CloseShutMakes(t, s) ==
  /\ th[t].pc = "down" /\ Leaves(t)
  /\ conn'[s].sock = "closed" /\ conn'[s].written = conn[s].written
  /\ conn'[s].rd.st = IF conn[s].rd.st = "pending" THEN "aborted"
                                            ELSE conn[s].rd.st
  /\ conn'[s].fired = conn[s].fired /\ conn'[s].timedOut = conn[s].timedOut
  /\ conn'[s].shut = conn[s].shut
  /\ IF th[t].aux = "error"
       THEN conn'[s].calls \in {conn[s].calls, conn[s].calls + 1}
       ELSE conn'[s].calls = conn[s].calls

\* CloseShut does that.
LEMMA CloseShutEffect ==
  ASSUME TypeOK, NEW t \in Threads, NEW s \in Sessions, s = th[t].s, CloseShut(t)
  PROVE  CloseShutMakes(t, s)
<1> USE DEF CloseShutMakes
<1>1. conn[s] \in Conns
  BY DEF TypeOK
<1> DEFINE d == Aborted(conn[s])
           c == [d EXCEPT !.sock = "closed"]
<1>2. d \in Conns
  BY <1>1, ConnTypes
<1>3. AfterClose(t, c) /\ th[t].pc = "down"
  BY DEF CloseShut, At
<1>4. /\ c \in Conns
      /\ c.sock = "closed" /\ c.rd = d.rd /\ c.written = d.written
      /\ c.fired = d.fired /\ c.calls = d.calls /\ c.timedOut = d.timedOut
      /\ c.shut = d.shut
  <2>1. c \in Conns
    BY <1>2, ConnTypes
  <2> HIDE DEF d
  <2> QED BY <1>2, <2>1 DEF Conns
<1>5. /\ d.written = conn[s].written /\ d.fired = conn[s].fired
      /\ d.calls = conn[s].calls /\ d.timedOut = conn[s].timedOut
      /\ d.shut = conn[s].shut
      /\ d.rd.st = IF conn[s].rd.st = "pending" THEN "aborted" ELSE conn[s].rd.st
  BY <1>1, AbortedFields
<1> HIDE DEF c, d
<1> QED BY <1>3, <1>4, <1>5, AfterCloseEffect

\* The error path of the read: close, tell the callback, or die.
ReadFailedMakes(t, s) ==
  /\ th[t].pc = "read"
  /\ conn'[s].sock = conn[s].sock /\ conn'[s].rd = conn[s].rd
  /\ conn'[s].written = conn[s].written /\ conn'[s].fired = conn[s].fired
  /\ conn'[s].timedOut = conn[s].timedOut
  /\ conn'[s].shut = conn[s].shut
  /\ \/ /\ conn'[s].calls = conn[s].calls /\ UNCHANGED crash
        /\ Moves(t, s, "close", "error")
     \/ /\ conn'[s].calls \in {conn[s].calls, conn[s].calls + 1}
        /\ UNCHANGED crash /\ ~Open(s) /\ Leaves(t)
     \/ /\ th[t].aux = "aborted" /\ Open(s) /\ UNCHANGED th
        /\ conn'[s].calls = conn[s].calls
        /\ crash' = [why |-> "short_read", s |-> s]

\* ReadFailed does that.
LEMMA ReadFailedEffect ==
  ASSUME TypeOK, NEW t \in Threads, NEW s \in Sessions, s = th[t].s, ReadFailed(t)
  PROVE  ReadFailedMakes(t, s)
<1> USE DEF ReadFailedMakes
<1>1. "close" \in Pcs /\ conn[s] \in Conns /\ CancelTimer(conn[s]) \in Conns
  BY ConnTypes DEF Pcs, TypeOK
<1> DEFINE c == CancelTimer(conn[s])
<1>2. Same(conn[s], c)
  BY <1>1, TimerFields DEF Same
<1>3. CASE /\ th[t].aux = "error" /\ Update(s, c) /\ Goto(t, "close")
           /\ UNCHANGED crash
  <2>1. conn'[s] = c /\ Moves(t, s, "close", "error")
    BY <1>1, <1>3, UpdateEffect, MoveEffects
  <2> QED BY <1>2, <1>3, <2>1 DEF ReadFailed, At, Same
<1>4. CASE ~Open(s) /\ Update(s, Told(s, c)) /\ Return(t) /\ UNCHANGED crash
  <2>1. conn'[s] = Told(s, c) /\ Leaves(t)
    BY <1>4, UpdateEffect, MoveEffects
  <2>2. /\ conn'[s].sock = c.sock /\ conn'[s].rd = c.rd
        /\ conn'[s].written = c.written /\ conn'[s].fired = c.fired
        /\ conn'[s].timedOut = c.timedOut
        /\ conn'[s].shut = c.shut
        /\ conn'[s].calls \in {c.calls, c.calls + 1}
    <3>1. c \in Conns
      BY <1>1
    <3> HIDE DEF c
    <3>2. conn'[s] = c \/ conn'[s] = [c EXCEPT !.calls = @ + 1]
      BY <2>1 DEF Told
    <3> QED BY <3>1, <3>2 DEF Conns
  <2> QED BY <1>2, <1>4, <2>1, <2>2 DEF ReadFailed, At, Same
<1>5. CASE /\ th[t].aux = "aborted" /\ Open(s) /\ Update(s, c)
           /\ Terminate("short_read", s) /\ UNCHANGED th
  <2>1. conn'[s] = c
    BY <1>5, UpdateEffect
  <2> QED BY <1>2, <1>5, <2>1 DEF ReadFailed, At, Same, Terminate
<1> QED BY <1>3, <1>4, <1>5 DEF ReadFailed

\* The end of a body: go on to the callback, or die of a missing object.
LEMMA BodyReadEffect ==
  ASSUME TypeOK, NEW t \in Threads, NEW s \in Sessions, s = th[t].s,
         NEW c, BodyRead(t, c)
  PROVE  /\ conn'[s] = c
         /\ \/ Moves(t, s, "parsed", th[t].aux) /\ UNCHANGED crash
            \/ UNCHANGED th /\ crash' = [why |-> "no_body", s |-> s]
<1>1. "parsed" \in Pcs
  BY DEF Pcs, IoPcs
<1> QED BY <1>1, UpdateEffect, MoveEffects DEF BodyRead, Terminate

\* The request goes on, its body is waited for with the timer armed, or it is
\* refused.
HeaderReadMakes(t, s) ==
  /\ th[t].pc = "read" /\ th[t].aux = "ok" /\ Open(s)
  /\ Same(conn[s], conn'[s])
  /\ \/ /\ UNCHANGED th
        /\ crash'.why \in {"not_impl", "bad_length", "bad_header", "handler",
                           "no_body"}
     \/ /\ UNCHANGED crash
        /\ \/ Moves(t, s, "close", "error") \/ Moves(t, s, "parsed", "ok")
           \/ Moves(t, s, "body", "ok") /\ conn'[s].armed

\* HeaderRead does that.
LEMMA HeaderReadEffect ==
  ASSUME TypeOK, NEW t \in Threads, NEW s \in Sessions, s = th[t].s, HeaderRead(t)
  PROVE  HeaderReadMakes(t, s)
<1> USE DEF HeaderReadMakes
<1>0. /\ {"close", "parsed"} \subseteq Pcs /\ conn[s] \in Conns /\ t \in Threads
      /\ th[t] \in Locals /\ SizeMod \in Nat \ {0}
  BY SessionAssumption DEF Pcs, IoPcs, TypeOK
<1>1. th[t].pc = "read" /\ th[t].aux = "ok" /\ Open(s)
  BY DEF HeaderRead, At
<1> DEFINE c == CancelTimer(conn[s])
<1>2. c \in Conns /\ Same(conn[s], c)
  BY <1>0, ConnTypes, TimerFields DEF Same
<1>3. CASE Kind(s, th[t].hd) \notin {"post", "head"}
  <2>1. conn'[s] = c
    BY <1>3, UpdateEffect DEF HeaderRead
  <2>2. \/ /\ UNCHANGED th /\ crash'.why \in {"not_impl", "bad_length", "bad_header"}
        \/ /\ UNCHANGED crash
           /\ GotoWith(t, "close", "error") \/ Goto(t, "parsed")
    BY <1>3 DEF HeaderRead, Terminate
  <2> QED BY <1>0, <1>1, <1>2, <2>1, <2>2, MoveEffects
<1>4. CASE Kind(s, th[t].hd) \in {"post", "head"}
  <2> DEFINE left == BodyNotLoaded(th[t].extra)
             l == [th[t] EXCEPT !.pc = "body", !.need = left]
  <2>0. \/ Update(s, c) /\ Terminate("handler", s) /\ UNCHANGED th
        \/ BodyRead(t, c)
        \/ Update(s, ArmTimer(c)) /\ UNCHANGED crash /\ Become(t, l)
    BY <1>4 DEF HeaderRead
  <2>5. CASE Update(s, c) /\ Terminate("handler", s) /\ UNCHANGED th
    <3>1. conn'[s] = c
      BY <2>5, UpdateEffect
    <3> QED BY <1>1, <1>2, <2>5, <3>1 DEF Terminate
  <2> HIDE DEF c
  <2>3. CASE BodyRead(t, c)
    BY <1>1, <1>2, <2>3, BodyReadEffect DEF Same
  <2>4. CASE Update(s, ArmTimer(c)) /\ UNCHANGED crash /\ Become(t, l)
    <3>1. conn'[s] = ArmTimer(c)
      BY <2>4, UpdateEffect
    <3>2. th'[t] = l /\ \A u \in Threads \ {t} : th'[u] = th[u]
      <4> HIDE DEF l
      <4> QED BY <2>4, BecomeEffect
    <3>3. Moves(t, s, "body", "ok")
      <4> HIDE DEF left
      <4> QED BY <1>0, <1>1, <3>2 DEF Moves, Locals
    <3>4. Same(c, conn'[s]) /\ conn'[s].armed
      BY <1>2, <3>1, TimerFields DEF Same
    <3> QED BY <1>1, <1>2, <2>4, <3>3, <3>4 DEF Same
  <2> QED BY <2>0, <2>3, <2>4, <2>5 DEF c
<1> QED BY <1>3, <1>4

\* The request is complete, or its body has no object.
BodyArrivesMakes(t, s) ==
  /\ th[t].pc = "body" /\ Open(s) /\ Same(conn[s], conn'[s])
  /\ \/ Moves(t, s, "parsed", th[t].aux) /\ UNCHANGED crash
     \/ UNCHANGED th /\ crash'.why = "no_body"

\* BodyArrives does that.
LEMMA BodyArrivesEffect ==
  ASSUME TypeOK, NEW t \in Threads, NEW s \in Sessions, s = th[t].s, BodyArrives(t)
  PROVE  BodyArrivesMakes(t, s)
<1> USE DEF BodyArrivesMakes
<1>1. conn[s] \in Conns /\ th[t] \in Locals
  BY DEF TypeOK
<1> DEFINE c == CancelTimer(conn[s])
           n == c.taken + th[t].need
<1>2. c \in Conns /\ Same(conn[s], c)
  BY <1>1, ConnTypes, TimerFields DEF Same
<1>3. /\ th[t].pc = "body" /\ Open(s)
      /\ BodyRead(t, [c EXCEPT !.taken = n])
  BY DEF BodyArrives, At
<1> DEFINE d == [c EXCEPT !.taken = n]
<1>4. Same(c, d)
  <2> HIDE DEF c, n
  <2> QED BY <1>2 DEF Conns, Same
<1>5. BodyRead(t, d)
  BY <1>3
<1> HIDE DEF c, d
<1>6. conn'[s] = d
  BY <1>5, BodyReadEffect
<1>7. \/ Moves(t, s, "parsed", th[t].aux) /\ UNCHANGED crash
      \/ UNCHANGED th /\ crash'.why = "no_body"
  BY <1>5, BodyReadEffect
<1> QED BY <1>2, <1>3, <1>4, <1>6, <1>7 DEF Same

\* The session is to be closed.
BodyFailsMakes(t, s) ==
  /\ th[t].pc = "body" /\ Same(conn[s], conn'[s])
  /\ Moves(t, s, "close", "error")

\* BodyFails does that.
LEMMA BodyFailsEffect ==
  ASSUME TypeOK, NEW t \in Threads, NEW s \in Sessions, s = th[t].s, BodyFails(t)
  PROVE  BodyFailsMakes(t, s)
<1> USE DEF BodyFailsMakes
<1>1. "close" \in Pcs
  BY DEF Pcs
<1> QED BY <1>1, CancelEffect, MoveEffects DEF BodyFails, BodyEnds, At

\* The request becomes a task, unless the socket is closed.
EnqueueMakes(t, s) ==
  /\ th[t].pc = "parsed" /\ Same(conn[s], conn'[s])
  /\ Moves(t, s, "idle", "none")
  /\ tasks' = IF Open(s) THEN tasks \cup {<<s, th[t].hd>>} ELSE tasks

\* Enqueue does that.
LEMMA EnqueueEffect ==
  ASSUME TypeOK, NEW t \in Threads, NEW s \in Sessions, s = th[t].s, Enqueue(t)
  PROVE  EnqueueMakes(t, s)
<1> USE DEF EnqueueMakes
<1>1. "idle" \in Pcs
  BY DEF Pcs
<1> QED BY <1>1, CancelEffect, MoveEffects DEF Enqueue, EnqueueThen, At

\* A worker takes a task, and it is in no queue any more.
LEMMA TakeTaskEffect ==
  ASSUME TypeOK, NEW t \in Threads, NEW s \in Sessions, NEW h \in Nat,
         TakeTask(t, s, h)
  PROVE  /\ th[t].pc = "idle" /\ <<s, h>> \in tasks
         /\ tasks' = tasks \ {<<s, h>>}
         /\ Moves(t, s, "process", "none") /\ UNCHANGED <<conn, crash>>
<1> DEFINE l == [Idle EXCEPT !.pc = "process", !.s = s, !.hd = h]
<1>1. Become(t, l)
  BY DEF TakeTask, TakeTaskLeaving
<1>2. l.pc = "process" /\ l.s = s /\ l.aux = "none"
  BY DEF Idle
<1>3. Moves(t, s, "process", "none")
  <2> HIDE DEF l
  <2> QED BY <1>1, <1>2, BecomeEffect DEF Moves
<1> QED BY <1>3 DEF TakeTask, TakeTaskLeaving, At

\* The handler leads to a status, or kills the process.
ProcessMakes(t, s) ==
  /\ th[t].pc = "process" /\ UNCHANGED conn
  /\ \/ UNCHANGED th /\ crash'.why = "handler"
     \/ /\ UNCHANGED crash
        /\ \E a \in Outcomes : Moves(t, s, "send", a)

\* Process does that.
LEMMA ProcessEffect ==
  ASSUME TypeOK, NEW t \in Threads, NEW s \in Sessions, s = th[t].s, Process(t)
  PROVE  ProcessMakes(t, s)
<1> USE DEF ProcessMakes
<1>1. "send" \in Pcs
  BY DEF Pcs, CpuPcs
<1>2. th[t].pc = "process" /\ UNCHANGED conn
  BY DEF Process, ProcessWith, At
<1>3. PICK a \in Outcomes :
        \/ Terminate("handler", s) /\ UNCHANGED th
        \/ GotoWith(t, "send", a) /\ UNCHANGED crash
  BY DEF Process, ProcessWith
<1>4. Terminate("handler", s) => crash'.why = "handler"
  BY DEF Terminate
<1>5. GotoWith(t, "send", a) => Moves(t, s, "send", a)
  BY <1>1, MoveEffects
<1> QED BY <1>2, <1>3, <1>4, <1>5

\* The response is to be written, or the session goes on without.
SendMakes(t, s) ==
  /\ th[t].pc = "send" /\ UNCHANGED conn
  /\ \/ Open(s) /\ Moves(t, s, "write", th[t].aux)
     \/ Moves(t, s, "next", th[t].aux)

\* Send does that.
LEMMA SendEffect ==
  ASSUME TypeOK, NEW t \in Threads, NEW s \in Sessions, s = th[t].s, Send(t)
  PROVE  SendMakes(t, s)
<1> USE DEF SendMakes
<1>1. {"write", "next"} \subseteq Pcs
  BY DEF Pcs, CpuPcs
<1> QED BY <1>1, MoveEffects DEF Send, SendIf, At

\* The response is written, which touches neither socket, read nor timer.
WriteMakes(t, s) ==
  /\ th[t].pc = "write" /\ Same(conn[s], conn'[s])
  /\ conn'[s].armed = conn[s].armed
  /\ Moves(t, s, "rearm", th[t].aux)
  /\ (\E c : Update(s, c)) \/ UNCHANGED conn

\* Write does that.
LEMMA WriteEffect ==
  ASSUME TypeOK, NEW t \in Threads, NEW s \in Sessions, s = th[t].s, Write(t)
  PROVE  WriteMakes(t, s)
<1> USE DEF WriteMakes
<1>1. "rearm" \in Pcs /\ conn[s] \in Conns
  BY DEF Pcs, CpuPcs, TypeOK
<1>2. th[t].pc = "write" /\ Moves(t, s, "rearm", th[t].aux)
  BY <1>1, MoveEffects DEF Write, At
<1>3. CASE ~Over(s)
  <2>1. PICK n \in Sizes : \/ Update(s, WriteSome(conn[s], th[t].hd, n))
                           \/ Update(s, Refused(conn[s], th[t].hd, n))
    BY <1>3 DEF Write
  <2>2. \A c \in Conns :
          \A d \in {WriteSome(c, th[t].hd, n), Refused(c, th[t].hd, n)} :
            Same(c, d) /\ d.armed = c.armed
    <3> SUFFICES ASSUME NEW c \in Conns,
                        NEW d \in {WriteSome(c, th[t].hd, n),
                                  Refused(c, th[t].hd, n)}
                 PROVE  Same(c, d) /\ d.armed = c.armed
      OBVIOUS
    <3>1. \/ \E q : d = [c EXCEPT !.late = q]
          \/ \E r : d = [c EXCEPT !.replies = r]
          \/ \E u, r : d = [c EXCEPT !.unread = u, !.replies = r]
      BY Zenon DEF WriteSome, Refused
    <3> QED BY <3>1 DEF Conns, Same
  <2>3. Same(conn[s], conn'[s]) /\ conn'[s].armed = conn[s].armed
    BY <1>1, <2>1, <2>2, UpdateEffect
  <2> QED BY <1>2, <2>1, <2>3
<1>4. CASE Over(s)
  <2>1. UNCHANGED conn
    BY <1>4 DEF Write
  <2> QED BY <1>2, <2>1 DEF Same
<1> QED BY <1>3, <1>4

\* The timer is armed for the next request.
RearmMakes(t, s) ==
  /\ th[t].pc = "rearm" /\ Same(conn[s], conn'[s]) /\ conn'[s].armed
  /\ Moves(t, s, "next", th[t].aux)

\* Rearm does that.
LEMMA RearmEffect ==
  ASSUME TypeOK, NEW t \in Threads, NEW s \in Sessions, s = th[t].s, Rearm(t)
  PROVE  RearmMakes(t, s)
<1> USE DEF RearmMakes
<1>1. "next" \in Pcs
  BY DEF Pcs, CpuPcs
<1> QED BY <1>1, CancelEffect, MoveEffects DEF Rearm, At

\* The session is to be closed or goes on with run_process().
NextRequestMakes(t, s) ==
  /\ th[t].pc = "next" /\ UNCHANGED conn
  /\ Moves(t, s, "close", "bye") \/ Moves(t, s, "run", th[t].aux)

\* NextRequest does that.
LEMMA NextRequestEffect ==
  ASSUME TypeOK, NEW t \in Threads, NEW s \in Sessions, s = th[t].s, NextRequest(t)
  PROVE  NextRequestMakes(t, s)
<1> USE DEF NextRequestMakes
<1>1. {"close", "run"} \subseteq Pcs
  BY DEF Pcs
<1> QED BY <1>1, MoveEffects DEF NextRequest, At

-----------------------------------------------------------------------------
(* Every step keeps the invariant of the session it concerns.              *)

\* The steps of the peer, asio and the timer.
LEMMA WorldKeeps ==
  ASSUME TypeOK, Running, NEW s \in Sessions, SessionInv(s),
         Environment(s) \/ Asio(s) \/ Expire(s)
  PROVE  SessionInv(s)' /\ Others(s)
<1>1. UNCHANGED <<th, tasks, crash>> /\ \E c : Update(s, c)
  BY DEF Environment, PeerSend, PeerClose, PeerRead, Request, Asio,
         ReadCompletes, ReadFails, LateWrite, Expire
<1>2. Others(s)
  BY <1>1, UpdateEffect DEF Others
<1> USE DEF SessionInv, Single, Called, AttendedAt, Timeouts, WatchedAt,
            InterruptedAt, AbortedAt, ShutAt, Nobody, Carries, Queued, Reads, Running,
            Open, Waiting, Watched
<1>3. CASE PeerSend(s) \/ PeerClose(s) \/ PeerRead(s) \/ LateWrite(s)
  BY <1>1, <1>2, <1>3, PeerEffect DEF Same
<1>4. CASE ReadCompletes(s) \/ ReadFails(s)
  BY <1>1, <1>2, <1>4, ReadEffect
<1>5. CASE Expire(s)
  BY <1>1, <1>2, <1>5, ExpireEffect
<1>6. ASSUME NEW t \in CpuThreads, Request(t, s)
      PROVE  SessionInv(s)' /\ Others(s)
  BY <1>1, <1>2, <1>6, OpenEffect
<1> QED BY <1>3, <1>4, <1>5, <1>6 DEF Environment, Asio

\* A step of a thread, in the session that it is or will be in.
LEMMA ThreadFrame ==
  ASSUME TypeOK, NEW s \in Sessions, NEW t \in Threads,
         th[t].s = s \/ th[t].pc = "idle",
         \/ UNCHANGED th \/ Leaves(t)
         \/ \E p, aux : Moves(t, s, p, aux),
         (\E c : Update(s, c)) \/ UNCHANGED conn,
         \A j \in tasks \cup tasks' : j[1] # s => (j \in tasks <=> j \in tasks')
  PROVE  Others(s)
  BY UpdateEffect DEF Others, Leaves, Moves

\* An IO thread takes what waits for it.
LEMMA TakesKeep ==
  ASSUME TypeOK, Running, NEW s \in Sessions, SessionInv(s), NEW t \in IoThreads,
         Accept(t, s) \/ TakeRead(t, s) \/ TakeWritten(t, s) \/ TakeTimer(t, s)
  PROVE  SessionInv(s)' /\ Others(s)
<1>1. t \in Threads /\ "run" \in Pcs
  BY DEF Threads, Pcs
<1>2. th[t].pc = "idle" /\ UNCHANGED tasks /\ \E c : Update(s, c)
  BY DEF Accept, TakeRead, TakeWritten, TakeTimer, At
<1>3. ASSUME Accept(t, s)
      PROVE  \/ UNCHANGED th /\ crash'.why = "peer_gone"
             \/ Moves(t, s, "run", "none") /\ UNCHANGED crash
  BY <1>1, <1>3, MoveEffects DEF Accept, Terminate
<1>4. TakeRead(t, s) \/ TakeWritten(t, s) \/ TakeTimer(t, s) => UNCHANGED crash
  BY DEF TakeRead, TakeWritten, TakeTimer
<1>5. Others(s)
  BY <1>1, <1>2, <1>3, TakeEffect, ThreadFrame
<1> USE DEF SessionInv, Single, Called, AttendedAt, Timeouts, WatchedAt,
            InterruptedAt, AbortedAt, ShutAt, Nobody, Carries, Queued, Reads, Running,
            Open, Waiting, Watched, Moves, Alive
<1>6. CASE Accept(t, s)
  BY <1>1, <1>2, <1>3, <1>5, <1>6, OpenEffect
<1>7. CASE TakeRead(t, s)
  BY <1>1, <1>2, <1>4, <1>5, <1>7, TakeEffect
<1>8. CASE TakeWritten(t, s)
  BY <1>1, <1>2, <1>4, <1>5, <1>8, TakeEffect
<1>9. CASE TakeTimer(t, s)
  BY <1>1, <1>2, <1>4, <1>5, <1>9, TakeEffect
<1> QED BY <1>6, <1>7, <1>8, <1>9

\* The steps that both kinds of thread take.
LEMMA CommonKeeps ==
  ASSUME TypeOK, Running, NEW t \in Threads, NEW s \in Sessions, th[t].s = s,
         SessionInv(s), CommonStep(t)
  PROVE  SessionInv(s)' /\ Others(s)
<1>1. UNCHANGED tasks /\ ((\E c : Update(s, c)) \/ UNCHANGED conn)
  BY DEF CommonStep, Run, Post, Arm, CloseTest, CloseCancel, CloseDown,
         CloseShut, AfterClose, AfterCloseFor
<1>2. Run(t) \/ Post(t) \/ Arm(t) \/ CloseTest(t) \/ CloseDown(t) \/ CloseShut(t)
        => UNCHANGED crash
  BY DEF Run, Post, Arm, CloseTest, CloseDown, CloseShut
<1>3. \/ UNCHANGED th \/ Leaves(t) \/ \E p, aux : Moves(t, s, p, aux)
  BY RunEffect, PostEffect, ArmEffect, CloseTestEffect, CloseCancelEffect,
     CloseDownEffect, CloseShutEffect DEF CommonStep, RunMakes, PostMakes,
     ArmMakes, CloseTestMakes, CloseCancelMakes, CloseDownMakes, CloseShutMakes
<1>4. Others(s)
  BY <1>1, <1>3, ThreadFrame
<1>5. CASE Run(t)
  <2>1. RunMakes(t, s) /\ UNCHANGED <<tasks, crash>>
    BY <1>1, <1>2, <1>5, RunEffect
  <2>2. Carries(t, s) /\ th[t].aux # "timeout"
    BY <2>1 DEF RunMakes, SessionInv, Timeouts, Carries
  <2>3. SessionInv(s)'
    BY <2>1, <2>2 DEF RunMakes, SessionInv, Single, Called,
       AttendedAt, Timeouts, WatchedAt, InterruptedAt, AbortedAt, ShutAt, Nobody,
       Carries, Queued, Reads, Running, Open, Waiting, Watched, Moves, Leaves,
       Alive, Same
  <2> QED BY <1>4, <2>3
<1>6. CASE Post(t)
  <2>1. PostMakes(t, s) /\ UNCHANGED <<tasks, crash>>
    BY <1>1, <1>2, <1>6, PostEffect
  <2>2. Carries(t, s) /\ th[t].aux # "timeout"
    BY <2>1 DEF PostMakes, SessionInv, Timeouts, Carries
  <2>3. SessionInv(s)'
    BY <2>1, <2>2 DEF PostMakes, SessionInv, Single, Called,
       AttendedAt, Timeouts, WatchedAt, InterruptedAt, AbortedAt, ShutAt, Nobody,
       Carries, Queued, Reads, Running, Open, Waiting, Watched, Moves, Leaves,
       Alive, Same
  <2> QED BY <1>4, <2>3
<1>7. CASE Arm(t)
  <2>1. ArmMakes(t, s) /\ UNCHANGED <<tasks, crash>>
    BY <1>1, <1>2, <1>7, ArmEffect
  <2>3. SessionInv(s)'
    BY <2>1 DEF ArmMakes, SessionInv, Single, Called,
       AttendedAt, Timeouts, WatchedAt, InterruptedAt, AbortedAt, ShutAt, Nobody,
       Carries, Queued, Reads, Running, Open, Waiting, Watched, Moves, Leaves,
       Alive, Same
  <2> QED BY <1>4, <2>3
<1>8. CASE CloseTest(t)
  <2>1. CloseTestMakes(t, s) /\ UNCHANGED <<tasks, crash>>
    BY <1>1, <1>2, <1>8, CloseTestEffect
  <2>2. Carries(t, s) \/ th[t].aux = "timeout"
    BY <2>1 DEF CloseTestMakes, SessionInv, Timeouts, Carries
  <2>3. conn[s].sock \in {"new", "open", "closed"}
    BY DEF TypeOK, Conns
  <2>4. SessionInv(s)'
    BY <2>1, <2>2, <2>3 DEF CloseTestMakes, SessionInv, Single, Called,
       AttendedAt, Timeouts, WatchedAt, InterruptedAt, AbortedAt, ShutAt, Nobody,
       Carries, Queued, Reads, Running, Open, Waiting, Watched, Moves, Leaves,
       Alive, Same
  <2> QED BY <1>4, <2>4
<1>9. CASE CloseCancel(t)
  <2>1. CloseCancelMakes(t, s) /\ UNCHANGED tasks
    BY <1>1, <1>2, <1>9, CloseCancelEffect
  <2>2. Carries(t, s) \/ th[t].aux = "timeout"
    BY <2>1 DEF CloseCancelMakes, SessionInv, Timeouts, Carries
  <2>3. SessionInv(s)'
    BY <2>1, <2>2 DEF CloseCancelMakes, SessionInv, Single, Called,
       AttendedAt, Timeouts, WatchedAt, InterruptedAt, AbortedAt, ShutAt, Nobody,
       Carries, Queued, Reads, Running, Open, Waiting, Watched, Moves, Leaves,
       Alive, Same
  <2> QED BY <1>4, <2>3
<1>10. CASE CloseShut(t)
  <2>1. CloseShutMakes(t, s) /\ UNCHANGED <<tasks, crash>>
    BY <1>1, <1>2, <1>10, CloseShutEffect
  <2>2. Carries(t, s) \/ th[t].aux = "timeout"
    BY <2>1 DEF CloseShutMakes, SessionInv, Timeouts, Carries
  <2>3. SessionInv(s)'
    BY <2>1, <2>2 DEF CloseShutMakes, SessionInv, Single, Called,
       AttendedAt, Timeouts, WatchedAt, InterruptedAt, AbortedAt, ShutAt, Nobody,
       Carries, Queued, Reads, Running, Open, Waiting, Watched, Moves, Leaves,
       Alive, Same
  <2> QED BY <1>4, <2>3
<1>11. CASE CloseDown(t)
  <2>1. CloseDownMakes(t, s) /\ UNCHANGED <<tasks, crash>>
    BY <1>1, <1>2, <1>11, CloseDownEffect
  <2>2. Carries(t, s) \/ th[t].aux = "timeout"
    BY <2>1 DEF CloseDownMakes, SessionInv, Timeouts, Carries
  <2>3. /\ Single(s)' /\ Called(s)' /\ AttendedAt(s)' /\ Timeouts(s)'
        /\ WatchedAt(s)' /\ InterruptedAt(s)' /\ AbortedAt(s)'
    BY <2>1, <2>2 DEF CloseDownMakes, SessionInv, Single, Called,
       AttendedAt, Timeouts, WatchedAt, InterruptedAt, AbortedAt, Nobody,
       Carries, Queued, Reads, Running, Open, Waiting, Watched, Moves
  <2>4. ShutAt(s)'
    <3>1. CASE th[t].aux = "timeout"
      BY <2>1, <3>1 DEF CloseDownMakes, SessionInv, Timeouts, ShutAt, Open
    <3>2. CASE th[t].aux # "timeout"
      <4>1. Carries(t, s)' /\ th'[t].pc = "down"
        BY <2>1, <3>2 DEF CloseDownMakes, Moves, Carries
      <4> QED BY <2>1, <4>1 DEF CloseDownMakes, SessionInv, ShutAt, Open
    <3> QED BY <3>1, <3>2
  <2> QED BY <1>4, <2>3, <2>4 DEF SessionInv
<1> QED BY <1>5, <1>6, <1>7, <1>8, <1>9, <1>10, <1>11 DEF CommonStep

\* The steps of an IO thread in the handler of a read.
LEMMA IoKeeps ==
  ASSUME TypeOK, Running, NEW t \in IoThreads, NEW s \in Sessions, th[t].s = s,
         SessionInv(s),
         \/ ReadFailed(t) \/ HeaderRead(t)
         \/ BodyArrives(t) \/ BodyFails(t) \/ Enqueue(t)
  PROVE  SessionInv(s)' /\ Others(s)
<1>0. t \in Threads
  BY DEF Threads
<1>1. (\E c : Update(s, c)) \/ UNCHANGED conn
  BY DEF ReadFailed, HeaderRead, BodyRead, BodyArrives, BodyFails, BodyEnds,
         Enqueue, EnqueueThen
<1>2. /\ ReadFailed(t) \/ HeaderRead(t) \/ BodyArrives(t) \/ BodyFails(t)
           => UNCHANGED tasks
      /\ BodyFails(t) \/ Enqueue(t) => UNCHANGED crash
  BY DEF ReadFailed, HeaderRead, BodyRead, BodyArrives, BodyFails, BodyEnds,
         Enqueue, EnqueueThen
<1>3. \/ UNCHANGED th \/ Leaves(t) \/ \E p, aux : Moves(t, s, p, aux)
  BY <1>0, ReadFailedEffect, HeaderReadEffect, BodyArrivesEffect,
     BodyFailsEffect, EnqueueEffect
     DEF ReadFailedMakes, HeaderReadMakes, BodyArrivesMakes, BodyFailsMakes,
         EnqueueMakes
<1>4. \A j \in tasks \cup tasks' : j[1] # s => (j \in tasks <=> j \in tasks')
  BY <1>0, <1>2, EnqueueEffect DEF EnqueueMakes
<1>5. Others(s)
  BY <1>0, <1>1, <1>3, <1>4, ThreadFrame
<1>6. CASE ReadFailed(t)
  <2>1. ReadFailedMakes(t, s) /\ UNCHANGED tasks
    BY <1>0, <1>1, <1>2, <1>6, ReadFailedEffect
  <2>2. Carries(t, s) /\ th[t].aux # "timeout"
    BY <1>0, <2>1 DEF ReadFailedMakes, SessionInv, Timeouts, Carries
  <2>3. conn[s].sock \in {"new", "open", "closed"}
    BY DEF TypeOK, Conns
  <2>4. SessionInv(s)'
    BY <1>0, <2>1, <2>2, <2>3 DEF ReadFailedMakes, SessionInv, Single, Called,
       AttendedAt, Timeouts, WatchedAt, InterruptedAt, AbortedAt, ShutAt, Nobody,
       Carries, Queued, Reads, Running, Open, Waiting, Watched, Moves, Leaves,
       Alive, Same
  <2> QED BY <1>5, <2>4
<1>7. CASE HeaderRead(t)
  <2>1. HeaderReadMakes(t, s) /\ UNCHANGED tasks
    BY <1>0, <1>1, <1>2, <1>7, HeaderReadEffect
  <2>2. Carries(t, s) /\ th[t].aux # "timeout"
    BY <1>0, <2>1 DEF HeaderReadMakes, SessionInv, Timeouts, Carries
  <2>3. SessionInv(s)'
    BY <1>0, <2>1, <2>2 DEF HeaderReadMakes, SessionInv, Single, Called,
       AttendedAt, Timeouts, WatchedAt, InterruptedAt, AbortedAt, ShutAt, Nobody,
       Carries, Queued, Reads, Running, Open, Waiting, Watched, Moves, Leaves,
       Alive, Same
  <2> QED BY <1>5, <2>3
<1>8. CASE BodyArrives(t)
  <2>1. BodyArrivesMakes(t, s) /\ UNCHANGED tasks
    BY <1>0, <1>1, <1>2, <1>8, BodyArrivesEffect
  <2>2. Carries(t, s) /\ th[t].aux # "timeout"
    BY <1>0, <2>1 DEF BodyArrivesMakes, SessionInv, Timeouts, Carries
  <2>3. SessionInv(s)'
    BY <1>0, <2>1, <2>2 DEF BodyArrivesMakes, SessionInv, Single, Called,
       AttendedAt, Timeouts, WatchedAt, InterruptedAt, AbortedAt, ShutAt, Nobody,
       Carries, Queued, Reads, Running, Open, Waiting, Watched, Moves, Leaves,
       Alive, Same
  <2> QED BY <1>5, <2>3
<1>9. CASE BodyFails(t)
  <2>1. BodyFailsMakes(t, s) /\ UNCHANGED <<tasks, crash>>
    BY <1>0, <1>1, <1>2, <1>9, BodyFailsEffect
  <2>2. Carries(t, s) /\ th[t].aux # "timeout"
    BY <1>0, <2>1 DEF BodyFailsMakes, SessionInv, Timeouts, Carries
  <2>3. SessionInv(s)'
    BY <1>0, <2>1, <2>2 DEF BodyFailsMakes, SessionInv, Single, Called,
       AttendedAt, Timeouts, WatchedAt, InterruptedAt, AbortedAt, ShutAt, Nobody,
       Carries, Queued, Reads, Running, Open, Waiting, Watched, Moves, Leaves,
       Alive, Same
  <2> QED BY <1>5, <2>3
<1>10. CASE Enqueue(t)
  <2>1. EnqueueMakes(t, s) /\ UNCHANGED crash
    BY <1>0, <1>1, <1>2, <1>10, EnqueueEffect
  <2>2. Carries(t, s) /\ th[t].aux # "timeout"
    BY <1>0, <2>1 DEF EnqueueMakes, SessionInv, Timeouts, Carries
  <2>3. IF Open(s)
          THEN /\ Queued(s)'
               /\ \A j \in tasks' : j[1] = s => j = <<s, th[t].hd>>
          ELSE UNCHANGED tasks
    <3>1. tasks' = IF Open(s) THEN tasks \cup {<<s, th[t].hd>>} ELSE tasks
      BY <2>1 DEF EnqueueMakes
    <3>2. \A j \in tasks : j[1] # s
      BY <1>0, <2>2 DEF SessionInv, Single, Queued
    <3>3. <<s, th[t].hd>>[1] = s
      OBVIOUS
    <3> QED BY <3>1, <3>2, <3>3 DEF Queued
  <2>4. SessionInv(s)'
    BY <1>0, <2>1, <2>2, <2>3 DEF EnqueueMakes, SessionInv, Single, Called,
       AttendedAt, Timeouts, WatchedAt, InterruptedAt, AbortedAt, ShutAt, Nobody,
       Carries, Queued, Reads, Running, Open, Waiting, Watched, Moves, Leaves,
       Alive, Same
  <2> QED BY <1>5, <2>4
<1> QED BY <1>6, <1>7, <1>8, <1>9, <1>10

\* The steps of a CPU thread, from taking a task to the next request.
LEMMA CpuKeeps ==
  ASSUME TypeOK, Running, NEW t \in CpuThreads, NEW s \in Sessions, SessionInv(s),
         \/ \E h \in Nat : TakeTask(t, s, h)
         \/ /\ th[t].s = s
            /\ Process(t) \/ Send(t) \/ Write(t) \/ Rearm(t) \/ NextRequest(t)
  PROVE  SessionInv(s)' /\ Others(s)
<1>0. t \in Threads /\ "timeout" \notin Outcomes
  BY SessionAssumption DEF Threads
<1>1. \/ UNCHANGED conn
      \/ Write(t) \/ \E c : Update(s, c)
  BY DEF TakeTask, TakeTaskLeaving, Process, ProcessWith, Send, SendIf, Rearm,
         NextRequest
<1>2. /\ Process(t) \/ Send(t) \/ Write(t) \/ Rearm(t) \/ NextRequest(t)
           => UNCHANGED tasks
      /\ Send(t) \/ Write(t) \/ Rearm(t) \/ NextRequest(t) => UNCHANGED crash
  BY DEF Process, ProcessWith, Send, SendIf, Write, Rearm, NextRequest
<1>3. CASE /\ th[t].s = s
           /\ Process(t) \/ Send(t) \/ Write(t) \/ Rearm(t) \/ NextRequest(t)
  <2>1. \/ UNCHANGED th \/ \E p, aux : Moves(t, s, p, aux)
    BY <1>0, <1>3, ProcessEffect, SendEffect, WriteEffect, RearmEffect,
       NextRequestEffect
       DEF ProcessMakes, SendMakes, WriteMakes, RearmMakes, NextRequestMakes
  <2>2. (\E c : Update(s, c)) \/ UNCHANGED conn
    BY <1>0, <1>1, <1>3, WriteEffect DEF WriteMakes
  <2>4. Others(s)
    BY <1>0, <1>2, <1>3, <2>1, <2>2, ThreadFrame
  <2>3. CASE Process(t)
    <3>1. ProcessMakes(t, s) /\ UNCHANGED tasks
      BY <1>0, <1>3, <2>3, <1>1, <1>2, ProcessEffect
    <3>2. Carries(t, s) /\ th[t].aux # "timeout"
      BY <1>0, <1>3, <3>1 DEF ProcessMakes, SessionInv, Timeouts, Carries
    <3>3. SessionInv(s)'
      BY <1>0, <1>3, <3>1, <3>2 DEF ProcessMakes, SessionInv, Single, Called,
       AttendedAt, Timeouts, WatchedAt, InterruptedAt, AbortedAt, ShutAt, Nobody,
       Carries, Queued, Reads, Running, Open, Waiting, Watched, Moves, Leaves,
       Alive, Same
    <3> QED BY <1>0, <1>2, <1>3, <2>4, <2>3, <3>3
  <2>5. CASE Send(t)
    <3>1. SendMakes(t, s) /\ UNCHANGED <<tasks, crash>>
      BY <1>0, <1>3, <2>5, <1>1, <1>2, SendEffect
    <3>2. Carries(t, s) /\ th[t].aux # "timeout"
      BY <1>0, <1>3, <3>1 DEF SendMakes, SessionInv, Timeouts, Carries
    <3>3. SessionInv(s)'
      BY <1>0, <1>3, <3>1, <3>2 DEF SendMakes, SessionInv, Single, Called,
       AttendedAt, Timeouts, WatchedAt, InterruptedAt, AbortedAt, ShutAt, Nobody,
       Carries, Queued, Reads, Running, Open, Waiting, Watched, Moves, Leaves,
       Alive, Same
    <3> QED BY <1>0, <1>2, <1>3, <2>4, <2>5, <3>3
  <2>8. CASE Write(t)
    <3>1. WriteMakes(t, s) /\ UNCHANGED <<tasks, crash>>
      BY <1>0, <1>3, <2>8, <1>1, <1>2, WriteEffect
    <3>2. Carries(t, s) /\ th[t].aux # "timeout"
      BY <1>0, <1>3, <3>1 DEF WriteMakes, SessionInv, Timeouts, Carries
    <3>3. SessionInv(s)'
      BY <1>0, <1>3, <3>1, <3>2 DEF WriteMakes, SessionInv, Single, Called,
       AttendedAt, Timeouts, WatchedAt, InterruptedAt, AbortedAt, ShutAt, Nobody,
       Carries, Queued, Reads, Running, Open, Waiting, Watched, Moves, Leaves,
       Alive, Same
    <3> QED BY <1>0, <1>2, <1>3, <2>4, <2>8, <3>3
  <2>6. CASE Rearm(t)
    <3>1. RearmMakes(t, s) /\ UNCHANGED <<tasks, crash>>
      BY <1>0, <1>3, <2>6, <1>1, <1>2, RearmEffect
    <3>2. Carries(t, s) /\ th[t].aux # "timeout"
      BY <1>0, <1>3, <3>1 DEF RearmMakes, SessionInv, Timeouts, Carries
    <3>3. SessionInv(s)'
      BY <1>0, <1>3, <3>1, <3>2 DEF RearmMakes, SessionInv, Single, Called,
       AttendedAt, Timeouts, WatchedAt, InterruptedAt, AbortedAt, ShutAt, Nobody,
       Carries, Queued, Reads, Running, Open, Waiting, Watched, Moves, Leaves,
       Alive, Same
    <3> QED BY <1>0, <1>2, <1>3, <2>4, <2>6, <3>3
  <2>7. CASE NextRequest(t)
    <3>1. NextRequestMakes(t, s) /\ UNCHANGED <<tasks, crash>>
      BY <1>0, <1>3, <2>7, <1>1, <1>2, NextRequestEffect
    <3>2. Carries(t, s) /\ th[t].aux # "timeout"
      BY <1>0, <1>3, <3>1 DEF NextRequestMakes, SessionInv, Timeouts, Carries
    <3>3. SessionInv(s)'
      BY <1>0, <1>3, <3>1, <3>2 DEF NextRequestMakes, SessionInv, Single, Called,
       AttendedAt, Timeouts, WatchedAt, InterruptedAt, AbortedAt, ShutAt, Nobody,
       Carries, Queued, Reads, Running, Open, Waiting, Watched, Moves, Leaves,
       Alive, Same
    <3> QED BY <1>0, <1>2, <1>3, <2>4, <2>7, <3>3
  <2> QED BY <1>3, <2>3, <2>5, <2>6, <2>7, <2>8
<1>4. ASSUME NEW h \in Nat, TakeTask(t, s, h)
      PROVE  SessionInv(s)' /\ Others(s)
  <2>1. /\ th[t].pc = "idle" /\ <<s, h>> \in tasks
        /\ tasks' = tasks \ {<<s, h>>}
        /\ Moves(t, s, "process", "none") /\ UNCHANGED <<conn, crash>>
    BY <1>0, <1>4, TakeTaskEffect
  <2>2. Others(s)
    BY <1>0, <2>1, ThreadFrame
  <2>3. SessionInv(s)'
    BY <1>0, <2>1 DEF SessionInv, Single, Called, AttendedAt, Timeouts,
       WatchedAt, InterruptedAt, AbortedAt, ShutAt, Nobody, Carries, Queued, Reads,
       Running, Open, Waiting, Watched, Moves
  <2> QED BY <2>2, <2>3
<1> QED BY <1>3, <1>4

-----------------------------------------------------------------------------
(* The invariant, and what it says.                                        *)

\* The invariant holds at the beginning: every session is new.
LEMMA InitInv == Init => Inv
<1> SUFFICES ASSUME Init PROVE Inv
  OBVIOUS
<1>1. TypeOK
  BY InitTypes
<1>2. ASSUME NEW s \in Sessions PROVE SessionInv(s)
  <2>1. PICK p \in Scripts : conn[s] = NewConn(p)
    BY DEF Init
  <2>2. /\ conn[s].sock = "new" /\ conn[s].rd.st = "none" /\ ~conn[s].written
        /\ conn[s].fired = 0 /\ conn[s].calls = 0 /\ ~conn[s].shut
    BY <2>1 DEF NewConn, NoRead
  <2>3. \A t \in Threads : th[t].pc = "idle" /\ th[t].aux = "none"
    BY DEF Init, Idle
  <2>4. tasks = {}
    BY DEF Init
  <2> QED BY <2>2, <2>3, <2>4 DEF SessionInv, Single, Called, AttendedAt,
       Timeouts, WatchedAt, InterruptedAt, AbortedAt, ShutAt, Nobody, Carries, Queued,
       Reads, Open, Waiting
<1> QED BY <1>1, <1>2 DEF Inv

\* Every step concerns one session, and keeps the invariant of the others.
LEMMA NextInv ==
  ASSUME Inv, Next
  PROVE  \A r \in Sessions : SessionInv(r)'
<1>0. TypeOK /\ Running /\ \A s \in Sessions : SessionInv(s)
  BY DEF Inv, Next
<1>1. SUFFICES \E s \in Sessions : SessionInv(s)' /\ Others(s)
  BY <1>0, Elsewhere
<1>2. ASSUME NEW s \in Sessions, Environment(s) \/ Asio(s) \/ Expire(s)
      PROVE  SessionInv(s)' /\ Others(s)
  BY <1>0, <1>2, WorldKeeps
<1>3. ASSUME NEW t \in IoThreads, IoStep(t)
      PROVE  \E s \in Sessions : SessionInv(s)' /\ Others(s)
  <2>1. th[t].s \in Sessions
    BY <1>0 DEF TypeOK, Threads, Locals
  <2> QED BY <1>0, <1>3, <2>1, TakesKeep, IoKeeps DEF IoStep
<1>4. ASSUME NEW t \in CpuThreads, CpuStep(t)
      PROVE  \E s \in Sessions : SessionInv(s)' /\ Others(s)
  <2>1. th[t].s \in Sessions
    BY <1>0 DEF TypeOK, Threads, Locals
  <2>2. \A j \in tasks : j[1] \in Sessions /\ j[2] \in Nat
    BY <1>0 DEF TypeOK
  <2> QED BY <1>0, <1>4, <2>1, <2>2, CpuKeeps DEF CpuStep
<1>5. ASSUME NEW t \in Threads, CommonStep(t)
      PROVE  \E s \in Sessions : SessionInv(s)' /\ Others(s)
  <2>1. th[t].s \in Sessions
    BY <1>0 DEF TypeOK, Locals
  <2> QED BY <1>0, <1>5, <2>1, CommonKeeps
<1> QED BY <1>2, <1>3, <1>4, <1>5 DEF Next

(* The invariant that all the properties below rest on, by induction: the  *)
(* steps of a session keep its part, and the part of every other session.  *)
THEOREM Invariance == Spec => []Inv
<1>1. ASSUME Inv, [Next]_vars
      PROVE  Inv'
  <2>1. CASE UNCHANGED vars
    BY <1>1, <2>1 DEF vars, Inv, TypeOK, SessionInv, Single, Called, AttendedAt,
       Timeouts, WatchedAt, InterruptedAt, AbortedAt, ShutAt, Nobody, Carries, Queued,
       Reads, Running, Open, Waiting, Watched
  <2>2. CASE Next
    BY <1>1, <2>2, NextInv, NextTypes DEF Inv
  <2> QED BY <1>1, <2>1, <2>2
<1> QED BY InitInv, <1>1, PTL DEF Spec

\* What is in the chain of a session.
LEMMA ChainMembers ==
  ASSUME NEW s \in Sessions
  PROVE  \A x : x \in Chain(s) <=>
           \/ \E t \in Threads : Carries(t, s) /\ x = <<"thread", t>>
           \/ \E j \in tasks : j[1] = s /\ x = <<"task", j>>
           \/ Reads(s) /\ x = <<"read", conn[s].rd.st>>
           \/ conn[s].written # FALSE /\ x = <<"written", s>>
  BY DEF Chain, Carriers, Carries, Reads

\* If at most one is there, the chain has at most one member;
LEMMA ChainOfOne ==
  ASSUME NEW s \in Sessions, Single(s), conn[s].written \in BOOLEAN
  PROVE  \A x, y \in Chain(s) : x = y
<1>1. TAKE x, y \in Chain(s)
<1>2. CASE \E t \in Threads : Carries(t, s) /\ x = <<"thread", t>>
  BY <1>2, ChainMembers DEF Single, Queued
<1>3. CASE \E j \in tasks : j[1] = s /\ x = <<"task", j>>
  BY <1>3, ChainMembers DEF Single, Queued
<1>4. CASE Reads(s) /\ x = <<"read", conn[s].rd.st>>
  BY <1>4, ChainMembers DEF Single, Queued
<1>5. CASE conn[s].written # FALSE /\ x = <<"written", s>>
  BY <1>5, ChainMembers DEF Single, Queued
<1> QED BY <1>2, <1>3, <1>4, <1>5, ChainMembers

\* if nobody is, it has none.
LEMMA ChainOfNobody ==
  ASSUME NEW s \in Sessions, conn[s].written \in BOOLEAN
  PROVE  Nobody(s) <=> Chain(s) = {}
<1>1. ASSUME Nobody(s) PROVE Chain(s) = {}
  BY <1>1, ChainMembers DEF Nobody, Queued
<1>2. ASSUME ~Nobody(s) PROVE Chain(s) # {}
  BY <1>2, ChainMembers DEF Nobody, Queued
<1> QED BY <1>1, <1>2

\* The properties that the runs check follow from the invariant.
LEMMA InvSafe ==
  Inv => /\ OneChain /\ Attended /\ WaitingIsWatched
         /\ OnlyTimeoutInterrupts /\ CalledOnceAtTheEnd
<1> SUFFICES ASSUME Inv
             PROVE  /\ OneChain /\ Attended /\ WaitingIsWatched
                    /\ OnlyTimeoutInterrupts /\ CalledOnceAtTheEnd
  OBVIOUS
<1>1. \A s \in Sessions : SessionInv(s) /\ conn[s].written \in BOOLEAN
  BY DEF Inv, TypeOK, Conns
<1>2. OneChain
  BY <1>1, ChainOfOne DEF OneChain, SessionInv
<1>3. Attended
  BY <1>1, ChainOfNobody DEF Attended, SessionInv, AttendedAt
<1>4. WaitingIsWatched
  BY <1>1 DEF WaitingIsWatched, SessionInv, WatchedAt
<1>5. OnlyTimeoutInterrupts
  <2> SUFFICES ASSUME NEW s \in Sessions, Over(s),
                      \/ \E j \in tasks : j[1] = s
                      \/ \E t \in CpuThreads :
                           th[t].s = s /\ th[t].pc \in {"process", "send", "write"}
               PROVE  conn[s].timedOut
    BY DEF OnlyTimeoutInterrupts
  <2>1. InterruptedAt(s) /\ Timeouts(s) /\ ShutAt(s) /\ Single(s)
    BY <1>1 DEF SessionInv
  <2>2. conn[s].sock \in {"new", "open", "closed"}
    BY DEF Inv, TypeOK, Conns
  <2>3. \/ Queued(s)
        \/ \E t \in Threads :
             Carries(t, s) /\ th[t].pc \in {"process", "send", "write"}
    BY <2>1 DEF Queued, Timeouts, Carries, Threads
  <2>4. CASE conn[s].sock = "closed"
    BY <2>1, <2>3, <2>4 DEF InterruptedAt
  <2>5. CASE conn[s].sock # "closed"
    <3>1. Open(s) /\ conn[s].shut
      BY <2>1, <2>2, <2>5 DEF Over, ShutAt, Open
    <3>2. ~\E t \in Threads : Carries(t, s) /\ th[t].pc = "down"
      BY <2>1, <2>3 DEF Single
    <3> QED BY <2>1, <3>1, <3>2 DEF ShutAt
  <2> QED BY <2>4, <2>5
<1>6. CalledOnceAtTheEnd
  BY <1>1, ChainOfNobody DEF CalledOnceAtTheEnd, SessionInv, Called
<1> QED BY <1>2, <1>3, <1>4, <1>5, <1>6

\* A step that ends the process does it as the invariant says.
LEMMA CrashStep ==
  ASSUME Inv, Next, crash'.why \in {"short_read", "closed_socket"}
  PROVE  CrashNeedsTimeout'
<1>0. TypeOK /\ Running /\ \A s \in Sessions : SessionInv(s)
  BY DEF Inv, Next
<1>1. crash' # crash
  BY <1>0 DEF Running, Alive
<1>2. PICK t \in Threads :
        (t \in IoThreads /\ ReadFailed(t)) \/ CloseCancel(t)
  <2>1. ASSUME NEW s \in Sessions, Environment(s) \/ Asio(s) \/ Expire(s)
        PROVE  FALSE
    BY <1>1, <2>1 DEF Environment, PeerSend, PeerClose, PeerRead, Request, Asio,
       ReadCompletes, ReadFails, LateWrite, Expire
  <2>2. ASSUME NEW t \in IoThreads, IoStep(t), ~ReadFailed(t)
        PROVE  FALSE
    <3>1. t \in Threads /\ th[t].s \in Sessions
      BY <1>0 DEF TypeOK, Threads, Locals
    <3>2. ~HeaderRead(t) /\ ~BodyArrives(t)
      BY <1>0, <1>1, <3>1, HeaderReadEffect, BodyArrivesEffect
         DEF HeaderReadMakes, BodyArrivesMakes
    <3>3. ~BodyFails(t) /\ ~Enqueue(t)
      BY <1>1 DEF BodyFails, BodyEnds, Enqueue, EnqueueThen
    <3>4. PICK s \in Sessions : \/ Accept(t, s) \/ TakeRead(t, s)
                                \/ TakeWritten(t, s) \/ TakeTimer(t, s)
      BY <2>2, <3>2, <3>3 DEF IoStep
    <3> QED BY <1>1, <3>4 DEF Accept, TakeRead, TakeWritten, TakeTimer, Terminate
  <2>3. ASSUME NEW t \in CpuThreads, CpuStep(t)
        PROVE  FALSE
    <3>1. t \in Threads /\ th[t].s \in Sessions
      BY <1>0 DEF TypeOK, Threads, Locals
    <3>2. ~Process(t)
      BY <1>0, <1>1, <3>1, ProcessEffect DEF ProcessMakes
    <3> QED BY <1>1, <2>3, <3>2 DEF CpuStep, TakeTask, TakeTaskLeaving, Send,
         SendIf, Write, Rearm, NextRequest
  <2>4. ASSUME NEW t \in Threads, CommonStep(t), ~CloseCancel(t)
        PROVE  FALSE
    BY <1>1, <2>4 DEF CommonStep, Run, Post, Arm, CloseTest, CloseDown, CloseShut
  <2> QED BY <2>1, <2>2, <2>3, <2>4 DEF Next, Threads
<1> DEFINE s == th[t].s
<1>3. s \in Sessions
  BY <1>0 DEF TypeOK, Locals
<1>4. SessionInv(s)
  BY <1>0, <1>3
<1> HIDE DEF s
<1>5. CASE t \in IoThreads /\ ReadFailed(t)
  <2>1. ReadFailedMakes(t, s)
    BY <1>0, <1>3, <1>5, ReadFailedEffect DEF s
  <2>2. /\ th[t].pc = "read" /\ th[t].aux = "aborted" /\ Open(s) /\ UNCHANGED th
        /\ conn'[s].timedOut = conn[s].timedOut
        /\ conn'[s].shut = conn[s].shut
        /\ crash' = [why |-> "short_read", s |-> s]
    BY <1>1, <2>1 DEF ReadFailedMakes
  <2>3. PICK u \in Threads :
          /\ th[u].s = s /\ th[u].pc \in {"shut", "down"}
          /\ th[u].aux = "timeout"
    BY <1>4, <2>2 DEF SessionInv, AbortedAt, s
  <2>4. u \in IoThreads /\ conn[s].timedOut
    BY <1>4, <2>3 DEF SessionInv, Timeouts
  <2> QED BY <1>5, <2>2, <2>3, <2>4 DEF CrashNeedsTimeout, s
<1>6. CASE CloseCancel(t)
  <2>1. CloseCancelMakes(t, s)
    BY <1>0, <1>3, <1>6, CloseCancelEffect DEF s
  <2>2. /\ th[t].pc = "cancel" /\ ~Open(s) /\ UNCHANGED <<conn, th>>
        /\ crash' = [why |-> "closed_socket", s |-> s]
    BY <1>1, <2>1 DEF CloseCancelMakes
  <2>3. conn[s].timedOut
    <3>1. conn[s].sock \in {"new", "closed"}
      BY <1>0, <1>3, <2>2 DEF TypeOK, Conns, Open
    <3>2. CASE th[t].aux = "timeout"
      BY <1>4, <3>2 DEF SessionInv, Timeouts, s
    <3>3. CASE th[t].aux # "timeout"
      BY <1>4, <2>2, <3>1, <3>3 DEF SessionInv, Called, Nobody, Carries,
         InterruptedAt, s
    <3> QED BY <3>2, <3>3
  <2> QED BY <2>2, <2>3 DEF CrashNeedsTimeout
<1> QED BY <1>2, <1>5, <1>6

(* A session is one chain of steps: never two reads on one socket, nor a   *)
(* read while a request of the session is queued, processed or written, for*)
(* any number of sessions and of threads (http_session.cpp:42-72, 151-155).*)
THEOREM OneChainAlways == Spec => []OneChain
  BY Invariance, InvSafe, PTL

(* An open session of a running process is never forgotten: some thread,   *)
(* task, read or write will carry it on (http_session.cpp:44-71, 183-213). *)
THEOREM AttendedAlways == Spec => []Attended
  BY Invariance, InvSafe, PTL

(* Whenever a session waits for its peer, its timer is armed, has fired or *)
(* is closing it (http_session.cpp:100-108, 214, 263).                     *)
THEOREM WaitingIsWatchedAlways == Spec => []WaitingIsWatched
  BY Invariance, InvSafe, PTL

(* The socket of a request that is queued, processed or being answered is  *)
(* shut down or closed by nothing but a timeout (http_session.cpp:44-46,   *)
(* 94-95, 100-104, 120-130).                                               *)
THEOREM OnlyTimeoutInterruptsAlways == Spec => []OnlyTimeoutInterrupts
  BY Invariance, InvSafe, PTL

(* A client's callback is called at most once, and when nothing will use   *)
(* its closed socket any more (http_session.cpp:138-163, 185-188).         *)
THEOREM CalledOnceAlways == Spec => []CalledOnceAtTheEnd
  BY Invariance, InvSafe, PTL

(* No thread takes an aborted read for a complete one, nor cancels a closed*)
(* socket, unless the timer of that session has fired; the former needs a  *)
(* second IO thread between cancel() and close() (http_session.cpp:83-95). *)
THEOREM CrashNeedsTimeoutAlways == Spec => []CrashNeedsTimeout
<1>1. Init => CrashNeedsTimeout
  BY DEF Init, Alive, CrashNeedsTimeout
<1>2. Inv /\ CrashNeedsTimeout /\ [Next]_vars => CrashNeedsTimeout'
  <2> SUFFICES ASSUME Inv, CrashNeedsTimeout, [Next]_vars
               PROVE  CrashNeedsTimeout'
    OBVIOUS
  <2>1. CASE UNCHANGED vars
    BY <2>1 DEF vars, CrashNeedsTimeout
  <2>2. CASE Next
    BY <2>2, CrashStep DEF CrashNeedsTimeout
  <2> QED BY <2>1, <2>2
<1> QED BY <1>1, <1>2, Invariance, PTL DEF Spec

=============================================================================
