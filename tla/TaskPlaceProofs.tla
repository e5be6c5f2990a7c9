-------------------------- MODULE TaskPlaceProofs --------------------------
(***************************************************************************)
(* Proof that a lambda given to the pool is in exactly one place at every  *)
(* moment: with its pusher, in one deque at one index, with one worker,    *)
(* done, or dropped with the deque of an erased thread.  It holds whatever *)
(* the callers do, torn constructor and unserialised stop() included: the  *)
(* deques are touched under their mutexes only, and a lambda that moves is *)
(* taken from the one place before it is put in the other.                 *)
(*                                                                         *)
(* TaskInOnePlace counts places with one set of tuples; the proof keeps    *)
(* the same fact as Placed, in terms of membership, where one index of a   *)
(* deque can be reasoned about by itself.                                  *)
(*                                                                         *)
(* The second part proves from it that the pool implements TaskPool.       *)
(***************************************************************************)
EXTENDS ThreadPoolProofs

\* What says where tasks are.
places == <<fresh, arg, queue, running, done, lost>>

\* A caller holds a lambda in push() only, a worker while it executes one.
Spare ==
  /\ \A c \in Callers :
       cpc[c] \notin {"select", "scan", "wait", "lock", "enqueue", "inline"} =>
         arg[c] = None
  /\ \A w \in Workers : wpc[w] # "running" => running[w] = None

\* Lambda t is at index k of the deque of w.
InQueue(t, w, k) == k \in 1 .. Len(queue[w]) /\ queue[w][k] = t

\* Lambda t is in no caller's hands and in no thread.
Settled(t) == t \in fresh \/ t \in done \/ t \in lost

\* Task t is somewhere ...
Somewhere(t) ==
  \/ Settled(t)
  \/ \E c \in Callers : arg[c] = t
  \/ \E w \in Workers : running[w] = t
  \/ \E w \in Workers, k \in Nat : InQueue(t, w, k)

\* ... and nowhere else.
Once(t) ==
  /\ t \in fresh => t \notin done /\ t \notin lost
  /\ t \in done => t \notin lost
  /\ \A c \in Callers : arg[c] = t =>
       /\ ~Settled(t)
       /\ \A d \in Callers : arg[d] = t => c = d
       /\ \A w \in Workers : running[w] # t
       /\ \A w \in Workers, k \in Nat : ~InQueue(t, w, k)
  /\ \A w \in Workers : running[w] = t =>
       /\ ~Settled(t)
       /\ \A v \in Workers : running[v] = t => w = v
       /\ \A v \in Workers, k \in Nat : ~InQueue(t, v, k)
  /\ \A w \in Workers, k \in Nat : InQueue(t, w, k) =>
       /\ ~Settled(t)
       /\ \A v \in Workers, j \in Nat : InQueue(t, v, j) => w = v /\ k = j

Placed == Spare /\ \A t \in Tasks : Somewhere(t) /\ Once(t)

\* At the start every lambda is fresh, and nowhere else.
LEMMA InitPlaced == Init => Placed
  BY PoolAssumption DEF Init, Placed, Spare, Somewhere, Once, Settled, InQueue

\* A step that moves no lambda keeps every lambda where it is.
LEMMA PlacedKept ==
  ASSUME Placed, UNCHANGED places, Spare'
  PROVE  Placed'
  BY DEF Placed, places, Somewhere, Once, Settled, InQueue

\* The front of a queue is taken out: what was behind it moves up.
LEMMA Taken ==
  ASSUME TypeOK, NEW w \in Workers, queue[w] # <<>>,
         queue' = [queue EXCEPT ![w] = Tail(@)]
  PROVE  /\ Head(queue[w]) \in Tasks
         /\ InQueue(Head(queue[w]), w, 1)
         /\ \A t, v, k : v \in Workers /\ k \in Nat =>
              (InQueue(t, v, k)' <=>
                 IF v = w THEN k # 0 /\ InQueue(t, w, k + 1) ELSE InQueue(t, v, k))
         /\ \A t, k : k \in Nat /\ InQueue(t, w, k) =>
              t = Head(queue[w]) \/ (k - 1 \in Nat /\ InQueue(t, w, k - 1)')
<1> DEFINE q == queue[w]
           r == queue'[w]
<1>1. q \in Seq(Tasks) /\ q # <<>> /\ r = Tail(q)
  BY DEF TypeOK
<1>2. \A v \in Workers \ {w} : queue'[v] = queue[v]
  BY DEF TypeOK
<1> HIDE DEF q, r
<1>3. /\ Len(q) \in Nat \ {0} /\ q[1] \in Tasks /\ Head(q) = q[1]
      /\ Len(r) = Len(q) - 1
      /\ \A k \in 1 .. Len(r) : r[k] = q[k + 1]
  BY <1>1
<1>4. Head(q) \in Tasks /\ InQueue(Head(q), w, 1)
  BY <1>3 DEF InQueue, q
<1>5. \A t, k : k \in Nat =>
        (InQueue(t, w, k)' <=> k # 0 /\ InQueue(t, w, k + 1))
  BY <1>3 DEF InQueue, q, r
<1>6. \A t, v, k : v \in Workers \ {w} => (InQueue(t, v, k)' <=> InQueue(t, v, k))
  BY <1>2 DEF InQueue
<1>7. ASSUME NEW t, NEW k \in Nat, InQueue(t, w, k)
      PROVE  t = Head(q) \/ (k - 1 \in Nat /\ InQueue(t, w, k - 1)')
  <2>1. k \in 1 .. Len(q) /\ q[k] = t
    BY <1>7 DEF InQueue, q
  <2>2. CASE k = 1
    BY <1>3, <2>1, <2>2
  <2>3. CASE k # 1
    <3>1. k - 1 \in Nat /\ k - 1 # 0 /\ (k - 1) + 1 = k
      BY <2>1, <2>3
    <3> QED BY <1>5, <1>7, <3>1
  <2> QED BY <2>2, <2>3
<1> QED BY <1>4, <1>5, <1>6, <1>7 DEF q

\* A task is appended to a queue.
LEMMA Appended ==
  ASSUME TypeOK, NEW w \in Workers, NEW x \in Tasks,
         queue' = [queue EXCEPT ![w] = Append(@, x)]
  PROVE  /\ Len(queue[w]) + 1 \in Nat
         /\ \A t, v, k : v \in Workers /\ k \in Nat =>
              (InQueue(t, v, k)' <=>
                 InQueue(t, v, k) \/ (t = x /\ v = w /\ k = Len(queue[w]) + 1))
<1> DEFINE n == Len(queue[w]) + 1
<1>1. queue[w] \in Seq(Tasks) /\ queue'[w] = Append(queue[w], x)
  BY DEF TypeOK
<1>2. /\ Len(queue'[w]) = n /\ Len(queue[w]) \in Nat /\ queue'[w][n] = x
      /\ \A k \in 1 .. Len(queue[w]) : queue'[w][k] = queue[w][k]
  BY <1>1
<1>3. \A v \in Workers \ {w} : queue'[v] = queue[v]
  BY DEF TypeOK
<1>4. \A t, v, k : v \in Workers /\ k \in Nat =>
        (InQueue(t, v, k)' <=> InQueue(t, v, k) \/ (t = x /\ v = w /\ k = n))
  BY <1>2, <1>3 DEF InQueue
<1>5. n \in Nat
  BY <1>2
<1> QED BY <1>4, <1>5

(* A step of push() (thread_pool.cpp:15-42), or its call, moves at most    *)
(* the lambda that it was given, to a deque or to done.                    *)
LEMMA CallerPlaced ==
  ASSUME Base, Placed, NEW c \in Callers,
         PushStep(c) \/ \E t \in Tasks : c \in Pushers /\ PushBegin(c, t)
  PROVE  Placed'
<1>0. TypeOK /\ Spare /\ \A t \in Tasks : Somewhere(t) /\ Once(t)
  BY DEF Base, Placed
<1>1. ASSUME NEW t \in Tasks, c \in Pushers, PushBegin(c, t) PROVE Placed'
  <2>1. /\ arg[c] = None /\ arg'[c] = t /\ \A d \in Callers \ {c} : arg'[d] = arg[d]
        /\ t \in fresh /\ fresh' = fresh \ {t}
        /\ UNCHANGED <<queue, running, done, lost>>
    BY <1>0, <1>1 DEF TypeOK, Spare, PushBegin, workerVars
  <2>2. Spare'
    BY <1>0, <1>1 DEF TypeOK, Spare, PushBegin, workerVars
  <2>3. ASSUME NEW u \in Tasks PROVE Somewhere(u)' /\ Once(u)'
    <3>1. Somewhere(u) /\ Once(u)
      BY <1>0
    <3> QED BY <2>1, <3>1, PoolAssumption DEF Somewhere, Once, Settled, InQueue
  <2> QED BY <2>2, <2>3 DEF Placed
<1>2. CASE InlineFinish(c)
  <2>1. /\ arg[c] \in Tasks /\ arg'[c] = None
        /\ \A d \in Callers \ {c} : arg'[d] = arg[d]
        /\ done' = done \cup {arg[c]} /\ UNCHANGED <<queue, running, fresh, lost>>
    BY <1>0, <1>2 DEF Base, TypeOK, LocalsSet, InlineFinish, workerVars
  <2>2. Spare'
    BY <1>0, <1>2 DEF TypeOK, Spare, InlineFinish, workerVars, ReturnPc
  <2>3. ASSUME NEW u \in Tasks PROVE Somewhere(u)' /\ Once(u)'
    <3>1. Somewhere(u) /\ Once(u)
      BY <1>0
    <3> QED BY <2>1, <3>1, PoolAssumption DEF Somewhere, Once, Settled, InQueue
  <2> QED BY <2>2, <2>3 DEF Placed
<1>3. CASE PushEnqueue(c)
  <2>1. PICK w \in Workers, x \in Tasks :
          /\ arg[c] = x /\ arg'[c] = None
          /\ \A d \in Callers \ {c} : arg'[d] = arg[d]
          /\ queue' = [queue EXCEPT ![w] = Append(@, x)]
          /\ UNCHANGED <<running, fresh, done, lost>>
    <3>1. threads[scan[c].least] \in Workers
      BY <1>0, <1>3 DEF Base, TypeOK, PushEnqueue, ValidIndex
    <3>2. arg[c] \in Tasks
      BY <1>3 DEF Base, LocalsSet, PushEnqueue
    <3>3. /\ arg' = [arg EXCEPT ![c] = None] /\ UNCHANGED <<running, fresh, done, lost>>
          /\ queue' = [queue EXCEPT ![threads[scan[c].least]] = Append(@, arg[c])]
      BY <1>3 DEF PushEnqueue, workerVars, taskVars
    <3>4. arg'[c] = None /\ \A d \in Callers \ {c} : arg'[d] = arg[d]
      BY <1>0, <3>3 DEF TypeOK
    <3> QED BY <3>1, <3>2, <3>3, <3>4
  <2>2. Spare'
    BY <1>0, <1>3 DEF TypeOK, Spare, PushEnqueue, workerVars
  <2> DEFINE n == Len(queue[w]) + 1
  <2>3. /\ n \in Nat
        /\ \A t, v, k : v \in Workers /\ k \in Nat =>
             (InQueue(t, v, k)' <=> InQueue(t, v, k) \/ (t = x /\ v = w /\ k = n))
    <3>1. TypeOK /\ queue' = [queue EXCEPT ![w] = Append(@, x)]
      BY <1>0, <2>1
    <3> QED BY Zenon, <3>1, Appended
  <2> HIDE DEF n
  <2>4. ASSUME NEW u \in Tasks PROVE Somewhere(u)' /\ Once(u)'
    <3>1. Somewhere(u) /\ Once(u)
      BY <1>0
    <3> QED BY <2>1, <2>3, <3>1, PoolAssumption DEF Somewhere, Once, Settled
  <2> QED BY <2>2, <2>4 DEF Placed
<1>4. CASE \/ PushInline(c) \/ PushSelect(c) \/ PushScan(c) \/ PushScanEnd(c)
           \/ PushReach(c) \/ PushLock(c) \/ PushNotify(c) \/ PushFault(c)
  <2>1. UNCHANGED places
    BY <1>4 DEF places, PushInline, PushSelect, PushScan, PushScanEnd,
       PushReach, PushLock, PushNotify, PushFault, taskVars, workerVars, callerVars
  <2>2. Spare'
    BY <1>0, <1>4 DEF TypeOK, Spare, PushInline, PushSelect, PushScan,
       PushScanEnd, PushReach, PushLock, PushNotify, PushFault, workerVars, callerVars,
       ReturnPc
  <2> QED BY <2>1, <2>2, PlacedKept
<1> QED BY <1>1, <1>2, <1>3, <1>4 DEF PushStep

(* A step of a worker (thread_pool.cpp:109-125) moves the front of its     *)
(* deque into the worker, or the lambda it executes to done.               *)
LEMMA WorkerPlaced ==
  ASSUME Base, Placed, NEW w \in Workers,
         WorkerStep(w) \/ WorkerOutrunsConstructor(w)
  PROVE  Placed'
<1>0. TypeOK /\ Spare /\ \A t \in Tasks : Somewhere(t) /\ Once(t)
  BY DEF Base, Placed
<1>1. CASE WorkerTake(w)
  <2>1. /\ queue[w] # <<>> /\ queue' = [queue EXCEPT ![w] = Tail(@)]
        /\ running[w] = None /\ running'[w] = Head(queue[w])
        /\ \A v \in Workers \ {w} : running'[v] = running[v]
        /\ UNCHANGED <<arg, fresh, done, lost>>
    BY <1>0, <1>1 DEF Base, TypeOK, Spare, WorkerLocks, WorkerTake, callerVars,
       taskVars
  <2>2. Spare'
    BY <1>0, <1>1 DEF TypeOK, Spare, WorkerTake, callerVars
  <2> DEFINE x == Head(queue[w])
  <2>3. /\ x \in Tasks /\ InQueue(x, w, 1)
        /\ \A t, v, k : v \in Workers /\ k \in Nat =>
             (InQueue(t, v, k)' <=>
                IF v = w THEN k # 0 /\ InQueue(t, w, k + 1) ELSE InQueue(t, v, k))
        /\ \A t, k : k \in Nat /\ InQueue(t, w, k) =>
             t = x \/ (k - 1 \in Nat /\ InQueue(t, w, k - 1)')
    BY <1>0, <2>1, Taken
  <2> HIDE DEF x
  <2>4. ASSUME NEW u \in Tasks PROVE Somewhere(u)' /\ Once(u)'
    <3>1. Somewhere(u) /\ Once(u)
      BY <1>0
    <3>2. Somewhere(u)'
      <4>1. CASE u = x
        BY <2>1, <4>1 DEF Somewhere, x, TypeOK
      <4>2. ASSUME u # x, NEW v \in Workers, NEW k \in Nat, InQueue(u, v, k)
            PROVE  Somewhere(u)'
        <5>1. \E j \in Nat : InQueue(u, v, j)'
          <6>1. CASE v = w
            BY <2>3, <4>2, <6>1
          <6>2. CASE v # w
            BY <2>3, <4>2, <6>2
          <6> QED BY <6>1, <6>2
        <5> QED BY <5>1, <4>2 DEF Somewhere
      <4>3. CASE Settled(u) \/ \E c \in Callers : arg[c] = u
        BY <2>1, <4>3 DEF Somewhere, Settled
      <4>4. ASSUME NEW v \in Workers, running[v] = u PROVE Somewhere(u)'
        BY <2>1, <4>4, PoolAssumption DEF Somewhere
      <4> QED BY <3>1, <4>1, <4>2, <4>3, <4>4 DEF Somewhere
    <3>3. Once(u)'
      BY <2>1, <2>3, <3>1, PoolAssumption DEF Once, Settled, x
    <3> QED BY <3>2, <3>3
  <2> QED BY <2>2, <2>4 DEF Placed
<1>2. CASE WorkerFinish(w)
  <2>1. /\ running[w] \in Tasks /\ running'[w] = None
        /\ \A v \in Workers \ {w} : running'[v] = running[v]
        /\ done' = done \cup {running[w]} /\ UNCHANGED <<queue, arg, fresh, lost>>
    BY <1>0, <1>2 DEF Base, TypeOK, LocalsSet, WorkerFinish, callerVars
  <2>2. Spare'
    BY <1>0, <1>2 DEF TypeOK, Spare, WorkerFinish, callerVars
  <2>3. ASSUME NEW u \in Tasks PROVE Somewhere(u)' /\ Once(u)'
    <3>1. Somewhere(u) /\ Once(u)
      BY <1>0
    <3> QED BY <2>1, <3>1, PoolAssumption DEF Somewhere, Once, Settled, InQueue
  <2> QED BY <2>2, <2>3 DEF Placed
<1>3. CASE \/ WorkerEnter(w) \/ WorkerTimeout(w) \/ WorkerTest(w)
           \/ WorkerOutrunsConstructor(w)
  <2>1. UNCHANGED places
    BY <1>3 DEF places, WorkerEnter, WorkerTimeout, WorkerTest,
       WorkerOutrunsConstructor, taskVars, callerVars
  <2>2. Spare'
    BY <1>0, <1>3 DEF TypeOK, Spare, WorkerEnter, WorkerTimeout, WorkerTest,
       WorkerOutrunsConstructor, callerVars
  <2> QED BY <2>1, <2>2, PlacedKept
<1> QED BY <1>1, <1>2, <1>3 DEF WorkerStep

(* A step of run(), stop() or join() (thread_pool.cpp:44-85) moves the     *)
(* front of a stopped thread's deque into the owner's push(), or drops     *)
(* whole deques.                                                           *)
LEMMA OwnerPlaced ==
  ASSUME Base, Placed, OwnerStep \/ OwnerCall
  PROVE  Placed'
<1>0. TypeOK /\ Spare /\ \A t \in Tasks : Somewhere(t) /\ Once(t)
  BY DEF Base, Placed
<1>1. CASE DrainTask
  <2>1. PICK w \in Workers :
          /\ w = Head(stopping) /\ queue[w] # <<>>
          /\ queue' = [queue EXCEPT ![w] = Tail(@)]
    BY <1>0, <1>1, RangeOfHead DEF Base, TypeOK, Stopping, DrainTask
  <2> DEFINE x == Head(queue[w])
  <2>2. /\ Owner \in Callers /\ arg[Owner] = None /\ arg'[Owner] = x
        /\ \A d \in Callers \ {Owner} : arg'[d] = arg[d]
        /\ UNCHANGED <<running, fresh, done, lost>>
    BY <1>0, <1>1, <2>1 DEF TypeOK, Spare, DrainTask, Callers, workerVars, taskVars
  <2>3. Spare'
    BY <1>0, <1>1 DEF TypeOK, Spare, DrainTask, workerVars
  <2>4. /\ x \in Tasks /\ InQueue(x, w, 1)
        /\ \A t, v, k : v \in Workers /\ k \in Nat =>
             (InQueue(t, v, k)' <=>
                IF v = w THEN k # 0 /\ InQueue(t, w, k + 1) ELSE InQueue(t, v, k))
        /\ \A t, k : k \in Nat /\ InQueue(t, w, k) =>
             t = x \/ (k - 1 \in Nat /\ InQueue(t, w, k - 1)')
    BY <1>0, <2>1, Taken
  <2> HIDE DEF x
  <2>5. ASSUME NEW u \in Tasks PROVE Somewhere(u)' /\ Once(u)'
    <3>1. Somewhere(u) /\ Once(u)
      BY <1>0
    <3>2. Somewhere(u)'
      <4>1. CASE u = x
        BY <2>2, <4>1 DEF Somewhere
      <4>2. ASSUME u # x, NEW v \in Workers, NEW k \in Nat, InQueue(u, v, k)
            PROVE  Somewhere(u)'
        <5>1. \E j \in Nat : InQueue(u, v, j)'
          <6>1. CASE v = w
            BY <2>4, <4>2, <6>1
          <6>2. CASE v # w
            BY <2>4, <4>2, <6>2
          <6> QED BY <6>1, <6>2
        <5> QED BY <5>1, <4>2 DEF Somewhere
      <4>3. CASE Settled(u) \/ \E v \in Workers : running[v] = u
        BY <2>2, <4>3 DEF Somewhere, Settled
      <4>4. ASSUME NEW d \in Callers, arg[d] = u PROVE Somewhere(u)'
        BY <2>2, <4>4, PoolAssumption DEF Somewhere
      <4> QED BY <3>1, <4>1, <4>2, <4>3, <4>4 DEF Somewhere
    <3>3. Once(u)'
      BY <2>1, <2>2, <2>4, <3>1, PoolAssumption DEF Once, Settled
    <3> QED BY <3>2, <3>3
  <2> QED BY <2>3, <2>5 DEF Placed
<1>2. CASE StopErase
  <2> DEFINE gone == Range(stopping)
             tasks == UNION {Range(queue[w]) : w \in gone}
  <2>1. UNCHANGED <<arg, running, fresh, done, wpc>>
    BY <1>2 DEF StopErase, workerVars
  <2>2. Spare'
    BY <1>0, <1>2 DEF TypeOK, Spare, StopErase, workerVars
  <2>3. CASE UNCHANGED <<queue, lost>>
    BY <2>1, <2>2, <2>3, PlacedKept DEF places
  <2>4. CASE /\ lost' = lost \cup tasks
             /\ queue' = [w \in Workers |-> IF w \in gone THEN <<>> ELSE queue[w]]
    <3>1. gone \subseteq Workers
      BY <1>0 DEF TypeOK, Range
    <3>2. \A t : t \in tasks <=> \E w \in gone, k \in Nat : InQueue(t, w, k)
      <4>1. \A t, w : w \in gone =>
              (t \in Range(queue[w]) <=> \E k \in Nat : InQueue(t, w, k))
        <5> SUFFICES ASSUME NEW w \in gone
                     PROVE  \A t : t \in Range(queue[w]) <=>
                                     \E k \in Nat : InQueue(t, w, k)
          OBVIOUS
        <5>1. DOMAIN queue[w] = 1 .. Len(queue[w]) /\ Len(queue[w]) \in Nat
          BY <1>0, <3>1 DEF TypeOK
        <5> HIDE DEF gone
        <5> QED BY <5>1 DEF InQueue, Range
      <4> QED BY <4>1
    <3>3. \A t, v, k : v \in Workers /\ k \in Nat =>
            (InQueue(t, v, k)' <=> v \notin gone /\ InQueue(t, v, k))
      BY <2>4 DEF InQueue
    <3> HIDE DEF gone, tasks
    <3>4. ASSUME NEW u \in Tasks PROVE Somewhere(u)' /\ Once(u)'
      <4>1. Somewhere(u) /\ Once(u)
        BY <1>0
      <4> QED BY <2>1, <2>4, <3>1, <3>2, <3>3, <4>1 DEF Somewhere, Once, Settled
    <3> QED BY <2>2, <3>4 DEF Placed
  <2> QED BY <1>2, <2>3, <2>4 DEF StopErase
<1>3. CASE OwnerCall \/ (OwnerStep /\ ~DrainTask /\ ~StopErase)
  <2>1. UNCHANGED places /\ UNCHANGED arg
    BY <1>3, OwnerCallKinds DEF places, OwnerStep, RunSpawn, RunAppend, StopFlag,
       StopJoin, DrainLock, DrainNext, StopReturn, JoinEnd, RunBegin, StopBegin,
       JoinBegin, taskVars, workerVars, callerVars
  <2>2. Spare'
    BY <1>0, <1>3, OwnerCallKinds DEF TypeOK, Spare, OwnerStep, RunSpawn,
       RunAppend, StopFlag, StopJoin, DrainLock, DrainNext, StopReturn, JoinEnd,
       RunBegin, StopBegin, JoinBegin, workerVars
  <2> QED BY <2>1, <2>2, PlacedKept
<1> QED BY <1>1, <1>2, <1>3

\* What is in Places.
LEMMA PlacesMembers ==
  ASSUME TypeOK, NEW t
  PROVE  \A x : x \in Places(t) <=>
           \/ \E c \in Callers : arg[c] = t /\ x = <<"caller", c>>
           \/ \E w \in Workers : running[w] = t /\ x = <<"worker", w>>
           \/ \E w \in Workers, k \in Nat :
                InQueue(t, w, k) /\ x = <<"queue", w, k>>
           \/ t \in fresh /\ x = <<"fresh">>
           \/ t \in done /\ x = <<"done">>
           \/ t \in lost /\ x = <<"lost">>
<1> DEFINE Q(w) == {<<"queue", w, k>> : k \in {k \in DOMAIN queue[w] :
                                                 queue[w][k] = t}}
<1>1. \A x : x \in {<<"caller", c>> : c \in {c \in Callers : arg[c] = t}} <=>
               \E c \in Callers : arg[c] = t /\ x = <<"caller", c>>
  OBVIOUS
<1>2. \A x : x \in {<<"worker", w>> : w \in {w \in Workers : running[w] = t}} <=>
               \E w \in Workers : running[w] = t /\ x = <<"worker", w>>
  OBVIOUS
<1>3. ASSUME NEW w \in Workers
      PROVE  \A x : x \in Q(w) <=>
               \E k \in Nat : InQueue(t, w, k) /\ x = <<"queue", w, k>>
  <2>1. DOMAIN queue[w] = 1 .. Len(queue[w]) /\ Len(queue[w]) \in Nat
    BY DEF TypeOK
  <2> QED BY <2>1 DEF InQueue
<1>4. \A x : /\ x \in {<<"fresh">> : y \in fresh \cap {t}} <=>
                  t \in fresh /\ x = <<"fresh">>
             /\ x \in {<<"done">> : y \in done \cap {t}} <=>
                  t \in done /\ x = <<"done">>
             /\ x \in {<<"lost">> : y \in lost \cap {t}} <=>
                  t \in lost /\ x = <<"lost">>
  OBVIOUS
<1>5. \A x : x \in UNION {Q(w) : w \in Workers} <=> \E w \in Workers : x \in Q(w)
  OBVIOUS
<1>6. \A x : x \in UNION {Q(w) : w \in Workers} <=>
               \E w \in Workers, k \in Nat :
                 InQueue(t, w, k) /\ x = <<"queue", w, k>>
  BY <1>3, <1>5
<1> DEFINE A == {<<"caller", c>> : c \in {c \in Callers : arg[c] = t}}
           B == {<<"worker", w>> : w \in {w \in Workers : running[w] = t}}
           C == UNION {Q(w) : w \in Workers}
           D == {<<"fresh">> : y \in fresh \cap {t}}
           E == {<<"done">> : y \in done \cap {t}}
           F == {<<"lost">> : y \in lost \cap {t}}
<1>7. \A x : x \in Places(t) <=>
        x \in A \/ x \in B \/ x \in C \/ x \in D \/ x \in E \/ x \in F
  BY Zenon DEF Places
<1> HIDE DEF A, B, C, D, E, F
<1> QED BY <1>1, <1>2, <1>4, <1>6, <1>7 DEF A, B, C, D, E, F

\* Placed says, with memberships, what TaskInOnePlace says with a set.
LEMMA PlacedInOne ==
  ASSUME TypeOK, Placed PROVE TaskInOnePlace
<1>1. SUFFICES ASSUME NEW t \in Tasks
               PROVE  \E x : Places(t) = {x}
  BY DEF TaskInOnePlace
<1>2. Somewhere(t) /\ Once(t)
  BY DEF Placed
<1>4. \E x : x \in Places(t)
  <2>1. ASSUME NEW c \in Callers, arg[c] = t PROVE \E x : x \in Places(t)
    BY <2>1, PlacesMembers
  <2>2. ASSUME NEW w \in Workers, running[w] = t PROVE \E x : x \in Places(t)
    BY <2>2, PlacesMembers
  <2>3. ASSUME NEW w \in Workers, NEW k \in Nat, InQueue(t, w, k)
        PROVE  \E x : x \in Places(t)
    BY <2>3, PlacesMembers
  <2>4. CASE Settled(t)
    BY <2>4, PlacesMembers DEF Settled
  <2> QED BY <1>2, <2>1, <2>2, <2>3, <2>4 DEF Somewhere
<1>5. ASSUME NEW x \in Places(t), NEW y \in Places(t)
      PROVE  x = y
  BY <1>2, PlacesMembers DEF Once, Settled
<1> QED BY <1>4, <1>5

\* Every step keeps every lambda in one place.
LEMMA NextPlaced == Base /\ Placed /\ [Next]_vars => Placed'
<1> SUFFICES ASSUME Base, Placed, [Next]_vars PROVE Placed'
  OBVIOUS
<1>1. CASE Next
  <2>1. Pushers \subseteq Callers
    BY DEF Callers
  <2> QED BY <1>1, <2>1, CallerPlaced, WorkerPlaced, OwnerPlaced DEF Next
<1>2. CASE UNCHANGED vars
  <2>1. Spare'
    BY <1>2 DEF Placed, Spare, vars, workerVars, callerVars
  <2> QED BY <1>2, <2>1, PlacedKept DEF vars, places, workerVars, callerVars, taskVars
<1> QED BY <1>1, <1>2

(* No interleaving of push(), the workers, run(), stop() and join() makes  *)
(* a lambda vanish or be in two places, for any number of threads, callers *)
(* and lambdas, torn constructor or not, serialised calls or not           *)
(* (thread_pool.cpp:36-39, 73-79, 119-123).                                *)
THEOREM OnePlace == Spec => []TaskInOnePlace
<1>1. Spec => [](Base /\ Placed)
  BY InitBase, NextBase, InitPlaced, NextPlaced, PTL DEF Spec
<1>2. Base /\ Placed => TaskInOnePlace
  BY PlacedInOne DEF Base
<1> QED BY <1>1, <1>2, PTL

-----------------------------------------------------------------------------
(* The pool implements TaskPool: the place of a lambda determines the      *)
(* phase TaskPool gives it, and every step moves at most one lambda to its *)
(* next phase, but for the erase of stop(), which drops all those of the   *)
(* erased threads at once.                                                 *)

\* Lambda t is executed: by a worker's thread, or by the thread in push().
Executing(t) ==
  \/ \E w \in Workers : running[w] = t
  \/ \E c \in Callers : arg[c] = t /\ cpc[c] = "inline"

\* Where a task is determines its phase.
LEMMA PhaseIs ==
  ASSUME NEW t
  PROVE  /\ Executing(t) => Phase(t) = "executing"
         /\ ~Executing(t) /\ t \in fresh \ (done \cup lost) =>
              Phase(t) = "new"
         /\ ~Executing(t) /\ t \in done \ (fresh \cup lost) =>
              Phase(t) = "done"
         /\ ~Executing(t) /\ t \in lost \ (fresh \cup done) =>
              Phase(t) = "lost"
         /\ ~Executing(t) /\ ~Settled(t) => Phase(t) = "submitted"
  BY DEF Phase, Executing, Settled

\* ... and so it does after a step.
LEMMA PhaseBecomes ==
  ASSUME NEW t
  PROVE  /\ Executing(t)' => Phase(t)' = "executing"
         /\ ~Executing(t)' /\ t \in fresh' \ (done' \cup lost') =>
              Phase(t)' = "new"
         /\ ~Executing(t)' /\ t \in done' \ (fresh' \cup lost') =>
              Phase(t)' = "done"
         /\ ~Executing(t)' /\ t \in lost' \ (fresh' \cup done') =>
              Phase(t)' = "lost"
         /\ ~Executing(t)' /\ ~Settled(t)' => Phase(t)' = "submitted"
  BY DEF Phase, Executing, Settled

\* A task that a step does not move keeps its phase.
LEMMA PhaseKept ==
  ASSUME NEW t, Executing(t)' <=> Executing(t), t \in fresh' <=> t \in fresh,
         t \in done' <=> t \in done, t \in lost' <=> t \in lost
  PROVE  Phase(t)' = Phase(t)
  BY DEF Phase, Executing

\* A step that moves one task is a step of TaskPool.
LEMMA OneMoves ==
  ASSUME NEW t \in Tasks, NEW a, NEW b, Phase(t) = a, Phase(t)' = b,
         \A u \in Tasks \ {t} : Phase(u)' = Phase(u)
  PROVE  TP!Move(t, a, b)
  BY DEF TP!Move

\* A step that moves no task is invisible.
LEMMA NoneMoves ==
  ASSUME \A u \in Tasks : Phase(u)' = Phase(u)
  PROVE  UNCHANGED [t \in Tasks |-> Phase(t)]
  OBVIOUS

\* push() (thread_pool.cpp:15-42) submits its lambda when it is entered, and
\* executes it itself when the pool is not running; its other steps move none.
LEMMA CallerRefines ==
  ASSUME Base, Placed, NEW c \in Callers,
         PushStep(c) \/ \E t \in Tasks : c \in Pushers /\ PushBegin(c, t)
  PROVE  TP!Next \/ UNCHANGED [t \in Tasks |-> Phase(t)]
<1>0. TypeOK /\ Spare /\ \A t \in Tasks : Once(t)
  BY DEF Base, Placed
<1>1. ASSUME NEW t \in Tasks, c \in Pushers, PushBegin(c, t) PROVE TP!Submit(t)
  <2>1. /\ arg[c] = None /\ arg'[c] = t /\ \A d \in Callers \ {c} : arg'[d] = arg[d]
        /\ cpc'[c] = "select" /\ \A d \in Callers \ {c} : cpc'[d] = cpc[d]
        /\ t \in fresh /\ fresh' = fresh \ {t}
        /\ UNCHANGED <<running, done, lost>>
    BY <1>0, <1>1 DEF TypeOK, Spare, PushBegin, workerVars
  <2>2. /\ ~Executing(t) /\ t \in fresh \ (done \cup lost)
        /\ ~Executing(t)' /\ ~Settled(t)'
    BY <1>0, <2>1 DEF Once, Executing, Settled
  <2>3. Phase(t) = "new" /\ Phase(t)' = "submitted"
    BY <2>1, <2>2, PhaseIs, PhaseBecomes
  <2>4. ASSUME NEW u \in Tasks \ {t} PROVE Phase(u)' = Phase(u)
    <3>1. Executing(u)' <=> Executing(u)
      BY <2>1, PoolAssumption DEF Executing
    <3> QED BY <2>1, <3>1, PhaseKept
  <2> QED BY <2>3, <2>4, OneMoves DEF TP!Submit
<1>2. CASE PushInline(c)
  <2>1. PICK t \in Tasks : t = arg[c]
    BY <1>2 DEF Base, LocalsSet, PushInline
  <2>2. /\ cpc'[c] = "inline" /\ \A d \in Callers \ {c} : cpc'[d] = cpc[d]
        /\ cpc[c] = "select" /\ UNCHANGED <<arg, running, fresh, done, lost>>
    BY <1>0, <1>2 DEF TypeOK, PushInline, workerVars, taskVars
  <2>3. ~Executing(t) /\ Executing(t)' /\ ~Settled(t)
    BY <1>0, <2>1, <2>2 DEF Once, Executing
  <2>4. Phase(t) = "submitted" /\ Phase(t)' = "executing"
    BY <2>3, PhaseIs, PhaseBecomes
  <2>5. ASSUME NEW u \in Tasks \ {t} PROVE Phase(u)' = Phase(u)
    <3>1. Executing(u)' <=> Executing(u)
      BY <2>1, <2>2 DEF Executing
    <3> QED BY <2>2, <3>1, PhaseKept
  <2> QED BY <2>4, <2>5, OneMoves DEF TP!Start, TP!Next
<1>3. CASE InlineFinish(c)
  <2>1. PICK t \in Tasks : t = arg[c]
    BY <1>3 DEF Base, LocalsSet, InlineFinish
  <2>2. /\ cpc[c] = "inline" /\ arg'[c] = None
        /\ \A d \in Callers \ {c} : cpc'[d] = cpc[d] /\ arg'[d] = arg[d]
        /\ done' = done \cup {t} /\ UNCHANGED <<running, fresh, lost>>
    BY <1>0, <1>3, <2>1 DEF TypeOK, InlineFinish, workerVars, taskVars
  <2>3. Executing(t) /\ ~Executing(t)' /\ t \in done' \ (fresh' \cup lost')
    BY <1>0, <2>1, <2>2, PoolAssumption DEF Once, Settled, Executing
  <2>4. Phase(t) = "executing" /\ Phase(t)' = "done"
    BY <2>3, PhaseIs, PhaseBecomes
  <2>5. ASSUME NEW u \in Tasks \ {t} PROVE Phase(u)' = Phase(u)
    <3>1. Executing(u)' <=> Executing(u)
      BY <2>1, <2>2, PoolAssumption DEF Executing
    <3> QED BY <2>2, <3>1, PhaseKept
  <2> QED BY <2>4, <2>5, OneMoves DEF TP!Finish, TP!Next
<1>4. CASE PushEnqueue(c)
  <2>1. /\ cpc[c] = "enqueue" /\ cpc'[c] = "notify" /\ arg'[c] = None
        /\ \A d \in Callers \ {c} : cpc'[d] = cpc[d] /\ arg'[d] = arg[d]
        /\ UNCHANGED <<running, fresh, done, lost>>
    BY <1>0, <1>4 DEF TypeOK, PushEnqueue, workerVars, taskVars
  <2>2. ASSUME NEW u \in Tasks PROVE Phase(u)' = Phase(u)
    <3>1. Executing(u)' <=> Executing(u)
      BY <2>1 DEF Executing
    <3> QED BY <2>1, <3>1, PhaseKept
  <2> QED BY <2>2, NoneMoves
<1>5. CASE \/ PushSelect(c) \/ PushScan(c) \/ PushScanEnd(c)
           \/ PushReach(c) \/ PushLock(c) \/ PushNotify(c) \/ PushFault(c)
  <2>1. /\ cpc[c] = "inline" <=> cpc'[c] = "inline"
        /\ \A d \in Callers \ {c} : cpc'[d] = cpc[d]
        /\ UNCHANGED <<running, arg, fresh, done, lost>>
    BY <1>0, <1>5 DEF TypeOK, Scans, PushSelect, PushScan, PushScanEnd, PushReach, PushLock,
       PushNotify, PushFault, ReturnPc, taskVars, workerVars, callerVars
  <2>2. ASSUME NEW u \in Tasks PROVE Phase(u)' = Phase(u)
    <3>1. Executing(u)' <=> Executing(u)
      BY <2>1 DEF Executing
    <3> QED BY <2>1, <3>1, PhaseKept
  <2> QED BY <2>2, NoneMoves
<1> QED BY <1>1, <1>2, <1>3, <1>4, <1>5 DEF PushStep, TP!Next

\* A worker (thread_pool.cpp:109-125) starts the head of its own deque and
\* finishes what it executes; waiting and testing move nothing.
LEMMA WorkerRefines ==
  ASSUME Base, Placed, NEW w \in Workers,
         WorkerStep(w) \/ WorkerOutrunsConstructor(w)
  PROVE  TP!Next \/ UNCHANGED [t \in Tasks |-> Phase(t)]
<1>0. TypeOK /\ Spare /\ \A t \in Tasks : Once(t)
  BY DEF Base, Placed
<1>1. CASE WorkerTake(w)
  <2>1. queue[w] # <<>> /\ running[w] = None
    BY <1>0, <1>1 DEF Base, Spare, WorkerLocks, WorkerTake
  <2>2. /\ Head(queue[w]) \in Tasks /\ InQueue(Head(queue[w]), w, 1)
    BY <1>0, <1>1, <2>1, Taken DEF WorkerTake
  <2>3. PICK t \in Tasks : t = Head(queue[w])
    BY <2>2
  <2>4. /\ running'[w] = t /\ \A v \in Workers \ {w} : running'[v] = running[v]
        /\ UNCHANGED <<cpc, arg, fresh, done, lost>>
    BY <1>0, <1>1, <2>3 DEF TypeOK, WorkerTake, callerVars, taskVars
  <2>5. ~Executing(t) /\ Executing(t)' /\ ~Settled(t)
    BY <1>0, <2>2, <2>3, <2>4 DEF Once, Executing
  <2>6. Phase(t) = "submitted" /\ Phase(t)' = "executing"
    BY <2>5, PhaseIs, PhaseBecomes
  <2>7. ASSUME NEW u \in Tasks \ {t} PROVE Phase(u)' = Phase(u)
    <3>1. Executing(u)' <=> Executing(u)
      BY <2>1, <2>4, PoolAssumption DEF Executing
    <3> QED BY <2>4, <3>1, PhaseKept
  <2> QED BY <2>6, <2>7, OneMoves DEF TP!Start, TP!Next
<1>2. CASE WorkerFinish(w)
  <2>1. PICK t \in Tasks : t = running[w]
    BY <1>2 DEF Base, LocalsSet, WorkerFinish
  <2>2. /\ running'[w] = None
        /\ \A v \in Workers \ {w} : running'[v] = running[v]
        /\ done' = done \cup {t} /\ UNCHANGED <<cpc, arg, fresh, lost>>
    BY <1>0, <1>2, <2>1 DEF TypeOK, WorkerFinish, callerVars
  <2>3. Executing(t) /\ ~Executing(t)' /\ t \in done' \ (fresh' \cup lost')
    BY <1>0, <2>1, <2>2, PoolAssumption DEF Once, Settled, Executing
  <2>4. Phase(t) = "executing" /\ Phase(t)' = "done"
    BY <2>3, PhaseIs, PhaseBecomes
  <2>5. ASSUME NEW u \in Tasks \ {t} PROVE Phase(u)' = Phase(u)
    <3>1. Executing(u)' <=> Executing(u)
      BY <2>1, <2>2, PoolAssumption DEF Executing
    <3> QED BY <2>2, <3>1, PhaseKept
  <2> QED BY <2>4, <2>5, OneMoves DEF TP!Finish, TP!Next
<1>3. CASE \/ WorkerEnter(w) \/ WorkerTimeout(w) \/ WorkerTest(w)
           \/ WorkerOutrunsConstructor(w)
  <2>1. UNCHANGED <<running, cpc, arg, fresh, done, lost>>
    BY <1>3 DEF WorkerEnter, WorkerTimeout, WorkerTest,
       WorkerOutrunsConstructor, taskVars, callerVars
  <2> QED BY <2>1 DEF Phase
<1> QED BY <1>1, <1>2, <1>3 DEF WorkerStep

\* stop() (thread_pool.cpp:49-80) discards the deques of the threads it erases,
\* all of them waiting there; run(), the joins and the redistribution of
\* deferred tasks move none.
LEMMA OwnerRefines ==
  ASSUME Base, Placed, OwnerStep \/ OwnerCall
  PROVE  TP!Next \/ UNCHANGED [t \in Tasks |-> Phase(t)]
<1>0. TypeOK /\ Spare /\ (\A t \in Tasks : Once(t)) /\ Owner \in Callers
  BY DEF Base, Placed, Callers
<1>1. CASE StopErase
  <2> DEFINE gone == Range(stopping)
             tasks == UNION {Range(queue[w]) : w \in gone}
  <2>1. /\ cpc[Owner] = "flag" /\ cpc'[Owner] # "inline"
        /\ \A d \in Callers \ {Owner} : cpc'[d] = cpc[d]
        /\ UNCHANGED <<arg, running, fresh, done>>
    BY <1>0, <1>1 DEF TypeOK, StopErase, workerVars
  <2>2. \A u : Executing(u)' <=> Executing(u)
    BY <2>1 DEF Executing
  <2>3. CASE UNCHANGED lost
    <3>1. \A u \in Tasks : Phase(u)' = Phase(u)
      BY <2>1, <2>2, <2>3, PhaseKept
    <3> QED BY <3>1, NoneMoves
  <2>4. CASE lost' = lost \cup tasks
    <3>1. gone \subseteq Workers
      BY <1>0 DEF TypeOK, Range
    <3>2. ASSUME NEW u \in tasks
          PROVE  u \in Tasks /\ Phase(u) = "submitted" /\ Phase(u)' = "lost"
      <4>1. PICK w \in gone : u \in Range(queue[w])
        OBVIOUS
      <4>2. w \in Workers /\ queue[w] \in Seq(Tasks)
        BY <1>0, <3>1 DEF TypeOK
      <4>3. PICK k \in 1 .. Len(queue[w]) : queue[w][k] = u
        BY <4>1, <4>2 DEF Range
      <4>4. InQueue(u, w, k) /\ u \in Tasks /\ k \in Nat
        BY <4>2, <4>3 DEF InQueue
      <4>5. ~Executing(u) /\ ~Settled(u)
        BY <1>0, <4>2, <4>4 DEF Once, Executing
      <4>6. ~Executing(u)' /\ u \in lost' \ (fresh' \cup done')
        BY <2>1, <2>2, <2>4, <4>5 DEF Settled
      <4> QED BY <4>4, <4>5, <4>6, PhaseIs, PhaseBecomes
    <3> HIDE DEF tasks, gone
    <3>3. \A u \in Tasks \ tasks : Phase(u)' = Phase(u)
      BY <2>1, <2>2, <2>4, PhaseKept
    <3>4. CASE tasks = {}
      BY <3>3, <3>4, NoneMoves
    <3>5. CASE tasks # {}
      <4>1. tasks \in SUBSET {t \in Tasks : Phase(t) = "submitted"}
        BY <3>2
      <4>2. \A u \in Tasks :
              Phase(u)' = IF u \in tasks THEN "lost" ELSE Phase(u)
        BY <3>2, <3>3
      <4>3. TP!Discard
        BY <3>5, <4>1, <4>2 DEF TP!Discard
      <4> QED BY <4>3 DEF TP!Next
    <3> QED BY <3>4, <3>5
  <2> QED BY <1>1, <2>3, <2>4 DEF StopErase
<1>2. CASE OwnerCall \/ (OwnerStep /\ ~StopErase)
  <2>1. /\ cpc[Owner] # "inline" /\ cpc'[Owner] # "inline"
        /\ \A d \in Callers \ {Owner} : cpc'[d] = cpc[d] /\ arg'[d] = arg[d]
        /\ UNCHANGED <<running, fresh, done, lost>>
    BY <1>0, <1>2, OwnerCallKinds DEF TypeOK, OwnerStep, RunSpawn, RunAppend,
       StopFlag, StopJoin, DrainLock, DrainTask, DrainNext, StopReturn, JoinEnd,
       RunBegin, StopBegin, JoinBegin, taskVars, workerVars, callerVars
  <2>2. \A u : Executing(u)' <=> Executing(u)
    BY <2>1 DEF Executing
  <2>3. \A u \in Tasks : Phase(u)' = Phase(u)
    BY <2>1, <2>2, PhaseKept
  <2> QED BY <2>3, NoneMoves
<1> QED BY <1>1, <1>2

\* The pool implements TaskPool, whatever its callers do: every lambda goes
\* from new to submitted, executing and done, each once, and the only other way
\* out is to be discarded while it waits (thread_pool.cpp:15-42, 49-80, 109-125).
THEOREM PoolRefinement == Spec => TaskPoolSpec
<1>1. Init => TP!Init
  <2>1. ASSUME Init, NEW t \in Tasks PROVE Phase(t) = "new"
    BY <2>1, PoolAssumption DEF Init, Phase
  <2> QED BY <2>1 DEF TP!Init
<1>2. Base /\ Placed /\ [Next]_vars => [TP!Next]_([t \in Tasks |-> Phase(t)])
  <2> SUFFICES ASSUME Base, Placed, [Next]_vars
               PROVE  TP!Next \/ UNCHANGED [t \in Tasks |-> Phase(t)]
    OBVIOUS
  <2>1. CASE Next
    <3>1. Pushers \subseteq Callers
      BY DEF Callers
    <3> QED BY <2>1, <3>1, CallerRefines, WorkerRefines, OwnerRefines DEF Next
  <2>2. CASE UNCHANGED vars
    BY <2>2 DEF vars, workerVars, callerVars, taskVars, Phase
  <2> QED BY <2>1, <2>2
<1>3. Spec => [](Base /\ Placed)
  BY InitBase, NextBase, InitPlaced, NextPlaced, PTL DEF Spec
<1> QED BY <1>1, <1>2, <1>3, PTL DEF Spec, TaskPoolSpec, TP!Spec
=============================================================================
