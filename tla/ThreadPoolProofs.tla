-------------------------- MODULE ThreadPoolProofs --------------------------
(***************************************************************************)
(* Machine-checked proofs about ThreadPool, for every number of workers,   *)
(* callers and tasks.                                                      *)
(*                                                                         *)
(*   TypeCorrect   Spec => []TypeOK, whatever run(), stop(), push() race   *)
(*                 with each other;                                        *)
(*   NeverFaults   with serialised callers and threads that do not outrun  *)
(*                 their constructor, no step of push() is undefined;      *)
(*   PrivateAlways, NoneLeftBehind                                         *)
(*                 for the same callers, who owns a worker and its deque.  *)
(*                                                                         *)
(* None of them is inductive alone.  Base relates the program counters to  *)
(* the data they need; Coherent relates the indices held by a push() to    *)
(* the vector, the locks and the owner's program counter; Owned says where *)
(* a worker is and who may touch it.                                       *)
(***************************************************************************)
EXTENDS ThreadPool, SequenceTheorems, TLAPS

\* A pusher never runs the owner's operations.
PusherPcs == \A p \in Pushers : cpc[p] \in PushPcs \cup {"idle", "inline"}

\* A program counter that is about to use a local finds it set.
LocalsSet ==
  /\ \A c \in Callers :
       /\ cpc[c] \in {"select", "scan", "lock", "wait", "enqueue", "inline"} =>
            arg[c] \in Tasks
       /\ cpc[c] = "wait" => scan[c].at \in Workers
  /\ \A w \in Workers : wpc[w] = "running" => running[w] \in Tasks
  /\ cpc[Owner] \in {"run", "ctor"} => todo > 0
  /\ cpc[Owner] = "ctor" => born \in Workers

\* A worker inside its critical section holds its mutex, and the queue it is
\* about to pop is not empty.
WorkerLocks ==
  \A w \in Workers :
    /\ wpc[w] \in {"locked", "taking"} => mutex[w] = w
    /\ wpc[w] = "taking" => queue[w] # <<>>

\* The first elements of threads_ are moved out one by one into `stopped',
\* whose workers have exited; elsewhere every element of threads_ is valid.
Stopping ==
  /\ \A w \in Range(stopping) : wpc[w] = "exited"
  /\ cpc[Owner] \in {"idle", "joining", "run", "ctor"} => stopping = <<>>
  /\ cpc[Owner] \in {"drained", "inline"} \cup PushPcs => stopping # <<>>
  /\ IF cpc[Owner] \in {"flag", "join"}
       THEN /\ todo <= Len(threads)
            /\ Len(stopping) <= todo
            /\ cpc[Owner] = "join" => Len(stopping) < todo
            /\ \A k \in 1 .. Len(threads) :
                 threads[k] = None <=> k <= Len(stopping)
       ELSE \A k \in 1 .. Len(threads) : threads[k] # None

Base == TypeOK /\ PusherPcs /\ LocalsSet /\ WorkerLocks /\ Stopping

-----------------------------------------------------------------------------
(* What the caller's serialisation buys.                                   *)

Disciplined == Serial /\ ~EarlyStart

Coherent ==
  /\ ~fault
  /\ (\E p \in Pushers : cpc[p] # "idle") => cpc[Owner] \in {"idle", "joining"}
  /\ cpc[Owner] \in {"drain", "drained"} \cup PushPcs => threads # <<>>
  /\ cpc[Owner] # "inline"
  /\ \A c \in Callers :
       /\ cpc[c] = "scan" => scan[c].i > 0
       /\ cpc[c] \in {"scan", "lock", "wait", "enqueue", "notify"} =>
            scan[c].least \in 1 .. Len(threads)
       /\ cpc[c] = "wait" => scan[c].at = threads[scan[c].least]
       /\ cpc[c] = "enqueue" => mutex[threads[scan[c].least]] = c

-----------------------------------------------------------------------------
(* Facts about the operators of the model.                                 *)

LEMMA RangeOfEmpty == Range(<<>>) = {}
  BY EmptySeq DEF Range

LEMMA RangeOfHead ==
  ASSUME NEW S, NEW s \in Seq(S), s # <<>>
  PROVE  Head(s) \in Range(s) /\ Head(s) \in S
<1>1. s[1] = Head(s) /\ 1 \in 1 .. Len(s)
  OBVIOUS
<1> QED BY <1>1 DEF Range

LEMMA RangeOfTail ==
  ASSUME NEW S, NEW s \in Seq(S), s # <<>>
  PROVE  /\ Tail(s) \in Seq(S)
         /\ Range(Tail(s)) \subseteq Range(s)
         /\ Range(s) = Range(Tail(s)) \cup {Head(s)}
<1>1. Tail(s) \in Seq(S) /\ Len(Tail(s)) = Len(s) - 1
  OBVIOUS
<1>2. \A k \in 1 .. Len(Tail(s)) : Tail(s)[k] = s[k + 1] /\ k + 1 \in 1 .. Len(s)
  OBVIOUS
<1>3. ASSUME NEW k \in 1 .. Len(s), k # 1
      PROVE  k - 1 \in 1 .. Len(Tail(s)) /\ s[k] = Tail(s)[k - 1]
  BY <1>1, <1>3
<1>4. s[1] = Head(s) /\ 1 \in 1 .. Len(s)
  OBVIOUS
<1>5. Range(Tail(s)) \subseteq Range(s)
  BY <1>1, <1>2 DEF Range
<1>6. Range(s) \subseteq Range(Tail(s)) \cup {Head(s)}
  <2>1. SUFFICES ASSUME NEW k \in 1 .. Len(s)
                 PROVE  s[k] \in Range(Tail(s)) \cup {Head(s)}
    BY DEF Range
  <2>2. CASE k = 1
    BY <1>4, <2>2
  <2>3. CASE k # 1
    <3>1. k - 1 \in 1 .. Len(Tail(s)) /\ s[k] = Tail(s)[k - 1]
      BY <1>3, <2>3
    <3>2. DOMAIN Tail(s) = 1 .. Len(Tail(s))
      BY <1>1
    <3> QED BY <3>1, <3>2 DEF Range
  <2> QED BY <2>2, <2>3
<1>7. Head(s) \in Range(s)
  BY <1>4 DEF Range
<1> QED
  BY <1>1, <1>5, <1>6, <1>7

\* A torn read reports some size.
LEMMA ObservedSizesAreNat ==
  ASSUME TypeOK, NEW w \in Workers
  PROVE  ObservedSizes(w) \subseteq Nat
  BY PoolAssumption DEF TypeOK, ObservedSizes

-----------------------------------------------------------------------------
(* Base holds initially and every step keeps it.  An action leaves most of *)
(* Base alone; the ones that disturb it in more than one way are broken up *)
(* into its conjuncts.                                                     *)

USE PoolAssumption DEF Callers, Statuses, WorkerPcs, CallerPcs, PushPcs,
    StopPcs, Scans, NoScan, ReturnPc, ValidIndex, workerVars, callerVars, ownerVars,
    taskVars

LEMMA InitBase == Init => Base
<1> SUFFICES ASSUME Init PROVE Base
  OBVIOUS
<1>1. TypeOK
  <2>1. threads \in Seq(Workers \cup {None}) /\ stopping \in Seq(Workers)
    BY DEF Init
  <2>2. queue \in [Workers -> Seq(Tasks)]
    BY DEF Init
  <2>3. /\ mutex \in [Workers -> Workers \cup Callers \cup {None}]
        /\ status \in [Workers -> Statuses]
        /\ wpc \in [Workers -> WorkerPcs]
        /\ running \in [Workers -> Tasks \cup {None}]
    BY DEF Init
  <2>4. cpc \in [Callers -> CallerPcs] /\ arg \in [Callers -> Tasks \cup {None}]
    BY DEF Init
  <2>5. scan \in [Callers -> Scans]
    BY DEF Init
  <2> QED BY <2>1, <2>2, <2>3, <2>4, <2>5 DEF Init, TypeOK
<1>2. PusherPcs /\ LocalsSet /\ WorkerLocks
  BY DEF Init, PusherPcs, LocalsSet, WorkerLocks
<1>3. Stopping
  BY RangeOfEmpty DEF Init, Stopping
<1> QED BY <1>1, <1>2, <1>3 DEF Base

LEMMA PushBase ==
  ASSUME Base, NEW c \in Callers, PushStep(c)
  PROVE  Base'
<1>1. CASE PushInline(c)
  BY SMTT(30), <1>1
     DEF Base, TypeOK, PusherPcs, LocalsSet, WorkerLocks, Stopping,
         PushInline, Range
<1>2. CASE InlineFinish(c)
  <2>1. TypeOK'
    BY <1>2 DEF Base, TypeOK, LocalsSet, WorkerLocks, Stopping, InlineFinish
  <2>2. PusherPcs'
    BY <1>2 DEF Base, TypeOK, PusherPcs, InlineFinish
  <2>3. LocalsSet'
    BY <1>2 DEF Base, TypeOK, LocalsSet, InlineFinish
  <2>4. WorkerLocks'
    BY <1>2 DEF Base, TypeOK, WorkerLocks, Stopping, InlineFinish
  <2>5. Stopping'
    BY <1>2 DEF Base, TypeOK, Stopping, Range, InlineFinish
  <2> QED BY <2>1, <2>2, <2>3, <2>4, <2>5 DEF Base
<1>3. CASE PushSelect(c)
  <2>1. TypeOK'
    <3>1. ObservedSizes(threads[1]) \subseteq Nat
      BY SMTT(30), <1>3, ObservedSizesAreNat DEF Base, TypeOK, PushSelect
    <3>2. PICK k \in Nat : scan' = [scan EXCEPT ![c] = [NoScan EXCEPT !.size = k]]
      BY <1>3, <3>1 DEF PushSelect
    <3>3. [NoScan EXCEPT !.size = k] \in Scans
      OBVIOUS
    <3>4. scan' \in [Callers -> Scans]
      BY <3>2, <3>3 DEF Base, TypeOK
    <3> QED BY <1>3, <3>4 DEF Base, TypeOK, PushSelect
  <2>2. PusherPcs'
    BY <1>3 DEF Base, TypeOK, PusherPcs, PushSelect
  <2>3. LocalsSet'
    BY <1>3 DEF Base, TypeOK, LocalsSet, PushSelect
  <2>4. WorkerLocks'
    BY <1>3 DEF Base, TypeOK, WorkerLocks, Stopping, PushSelect
  <2>5. Stopping'
    BY SMTT(30), <1>3 DEF Base, TypeOK, Stopping, Range, PushSelect
  <2> QED BY <2>1, <2>2, <2>3, <2>4, <2>5 DEF Base
<1>4. CASE PushScan(c)
  <2>1. TypeOK'
    <3> DEFINE i == scan[c].i
               next(s, s2) ==
                 [i |-> i + 1,
                  least |-> IF s < scan[c].size THEN i ELSE scan[c].least,
                  size  |-> IF s < scan[c].size THEN s2 ELSE scan[c].size,
                  at    |-> None]
    <3>1. ObservedSizes(threads[i]) \subseteq Nat
      <4>1. threads[i] \in Workers
        BY <1>4 DEF Base, TypeOK, PushScan
      <4> QED BY <4>1, ObservedSizesAreNat DEF Base
    <3>2. scan[c] \in Scans
      BY DEF Base, TypeOK
    <3>3. /\ cpc' = cpc \/ cpc' = [cpc EXCEPT ![c] = "lock"]
          /\ UNCHANGED <<threads, queue, mutex, status, wpc, running, arg,
                         born, stopping, todo, fresh, done, lost, fault>>
      BY <1>4 DEF PushScan
    <3>4. \/ scan' = [scan EXCEPT ![c].least = i]
          \/ \E s, s2 \in Nat : scan' = [scan EXCEPT ![c] = next(s, s2)]
      BY <1>4, <3>1 DEF PushScan
    <3>5. scan' \in [Callers -> Scans]
      <4>1. CASE scan' = [scan EXCEPT ![c].least = i]
        <5>1. [scan[c] EXCEPT !.least = i] \in Scans
          BY <3>2
        <5> QED BY <4>1, <5>1 DEF Base, TypeOK
      <4>2. CASE \E s, s2 \in Nat : scan' = [scan EXCEPT ![c] = next(s, s2)]
        <5>1. PICK s \in Nat, s2 \in Nat :
                scan' = [scan EXCEPT ![c] = next(s, s2)]
          BY <4>2
        <5>2. next(s, s2) \in Scans
          BY <3>2
        <5> QED BY <5>1, <5>2 DEF Base, TypeOK
      <4> QED BY <3>4, <4>1, <4>2
    <3>6. cpc' \in [Callers -> CallerPcs]
      BY <3>3 DEF Base, TypeOK
    <3> QED BY <3>3, <3>5, <3>6 DEF Base, TypeOK
  <2>2. PusherPcs'
    BY <1>4 DEF Base, TypeOK, PusherPcs, PushScan
  <2>3. LocalsSet'
    <3>1. /\ \A d \in Callers : cpc'[d] = "wait" => d # c /\ cpc[d] = "wait"
          /\ \A d \in Callers \ {c} : cpc'[d] = cpc[d] /\ scan'[d] = scan[d]
          /\ cpc[c] = "scan" /\ cpc'[c] \in {"scan", "lock"}
          /\ UNCHANGED <<arg, wpc, running, todo, born>>
      BY <1>4 DEF Base, TypeOK, PushScan
    <3> QED BY <3>1 DEF Base, LocalsSet
  <2>4. WorkerLocks'
    BY <1>4 DEF Base, TypeOK, WorkerLocks, Stopping, PushScan
  <2>5. Stopping'
    BY SMTT(30), <1>4 DEF Base, TypeOK, Stopping, Range, PushScan
  <2> QED BY <2>1, <2>2, <2>3, <2>4, <2>5 DEF Base
<1>5. CASE PushScanEnd(c)
  <2>1. TypeOK'
    BY <1>5 DEF Base, TypeOK, LocalsSet, WorkerLocks, Stopping, PushScanEnd
  <2>2. PusherPcs'
    BY <1>5 DEF Base, TypeOK, PusherPcs, PushScanEnd
  <2>3. LocalsSet'
    BY <1>5 DEF Base, TypeOK, LocalsSet, PushScanEnd
  <2>4. WorkerLocks'
    BY <1>5 DEF Base, TypeOK, WorkerLocks, Stopping, PushScanEnd
  <2>5. Stopping'
    BY SMTT(30), <1>5 DEF Base, TypeOK, Stopping, Range, PushScanEnd
  <2> QED BY <2>1, <2>2, <2>3, <2>4, <2>5 DEF Base
<1>6. CASE PushLock(c)
  <2>1. TypeOK'
    BY <1>6 DEF Base, TypeOK, LocalsSet, WorkerLocks, Stopping, PushLock
  <2>2. PusherPcs'
    BY <1>6 DEF Base, TypeOK, PusherPcs, PushLock
  <2>3. LocalsSet'
    BY <1>6 DEF Base, TypeOK, LocalsSet, PushLock
  <2>4. WorkerLocks'
    BY <1>6 DEF Base, TypeOK, WorkerLocks, Stopping, PushLock
  <2>5. Stopping'
    BY <1>6 DEF Base, TypeOK, Stopping, Range, PushLock
  <2> QED BY <2>1, <2>2, <2>3, <2>4, <2>5 DEF Base
<1>7. CASE PushEnqueue(c)
  <2>1. TypeOK'
    BY SMTT(30), <1>7
       DEF Base, TypeOK, LocalsSet, WorkerLocks, Stopping, PushEnqueue
  <2>2. PusherPcs'
    BY <1>7 DEF Base, TypeOK, PusherPcs, PushEnqueue
  <2>3. LocalsSet'
    BY <1>7 DEF Base, TypeOK, LocalsSet, PushEnqueue
  <2>4. WorkerLocks'
    <3> DEFINE v == threads[scan[c].least]
    <3>1. /\ v \in Workers /\ mutex[v] = c /\ wpc' = wpc
          /\ queue' = [queue EXCEPT ![v] = Append(@, arg[c])]
          /\ mutex' = [mutex EXCEPT ![v] = None]
      BY <1>7 DEF Base, TypeOK, PushEnqueue
    <3>2. wpc[v] \notin {"locked", "taking"}
      BY <3>1 DEF Base, WorkerLocks
    <3>3. \A u \in Workers : u # v => mutex'[u] = mutex[u] /\ queue'[u] = queue[u]
      BY <3>1 DEF Base, TypeOK
    <3> QED BY <3>1, <3>2, <3>3 DEF Base, WorkerLocks
  <2>5. Stopping'
    BY SMTT(30), <1>7 DEF Base, TypeOK, Stopping, Range, PushEnqueue
  <2> QED BY <2>1, <2>2, <2>3, <2>4, <2>5 DEF Base
<1>8. CASE PushNotify(c)
  <2>1. TypeOK'
    BY <1>8 DEF Base, TypeOK, LocalsSet, WorkerLocks, Stopping, PushNotify
  <2>2. PusherPcs'
    BY <1>8 DEF Base, TypeOK, PusherPcs, PushNotify
  <2>3. LocalsSet'
    BY <1>8 DEF Base, TypeOK, LocalsSet, PushNotify
  <2>4. WorkerLocks'
    BY <1>8 DEF Base, TypeOK, WorkerLocks, Stopping, PushNotify
  <2>5. Stopping'
    BY SMTT(30), <1>8 DEF Base, TypeOK, Stopping, Range, PushNotify
  <2> QED BY <2>1, <2>2, <2>3, <2>4, <2>5 DEF Base
<1>9. CASE PushFault(c)
  BY SMTT(30), <1>9
     DEF Base, TypeOK, PusherPcs, LocalsSet, WorkerLocks, Stopping, PushFault,
         Range
<1>10. CASE PushReach(c)
  <2>1. /\ threads[scan[c].least] \in Workers
        /\ scan' = [scan EXCEPT ![c].at = threads[scan[c].least]]
        /\ cpc' = [cpc EXCEPT ![c] = "wait"] /\ cpc[c] = "lock"
        /\ UNCHANGED <<threads, queue, mutex, status, wpc, running, arg, born,
                       stopping, todo, fresh, done, lost, fault>>
    BY <1>10 DEF Base, TypeOK, PushReach
  <2>2. TypeOK'
    <3>0. scan[c] \in Scans
      BY DEF Base, TypeOK
    <3> DEFINE v == threads[scan[c].least]
    <3> HIDE DEF v
    <3>3. v \in Workers
      BY <2>1 DEF v
    <3>1. [scan[c] EXCEPT !.at = v] \in Scans
      BY <3>0, <3>3
    <3>4. scan' = [scan EXCEPT ![c].at = v]
      BY <2>1 DEF v
    <3>2. scan' \in [Callers -> Scans]
      BY <3>4, <3>1 DEF Base, TypeOK
    <3> QED BY <2>1, <3>2 DEF Base, TypeOK
  <2>3. PusherPcs'
    BY <2>1 DEF Base, TypeOK, PusherPcs
  <2>4. LocalsSet'
    BY <2>1 DEF Base, TypeOK, LocalsSet
  <2>5. WorkerLocks' /\ Stopping'
    BY <2>1 DEF Base, TypeOK, WorkerLocks, Stopping
  <2> QED BY <2>2, <2>3, <2>4, <2>5 DEF Base
<1> QED BY <1>1, <1>2, <1>3, <1>4, <1>5, <1>6, <1>7, <1>8, <1>9, <1>10 DEF PushStep

LEMMA WorkerBase ==
  ASSUME Base, NEW w \in Workers,
         WorkerStep(w) \/ WorkerOutrunsConstructor(w)
  PROVE  Base'
<1>1. CASE WorkerOutrunsConstructor(w)
  <2>1. TypeOK'
    BY <1>1 DEF Base, TypeOK, LocalsSet, WorkerLocks, Stopping, WorkerOutrunsConstructor
  <2>2. PusherPcs'
    BY <1>1 DEF Base, TypeOK, PusherPcs, WorkerOutrunsConstructor
  <2>3. LocalsSet'
    BY <1>1 DEF Base, TypeOK, LocalsSet, WorkerOutrunsConstructor
  <2>4. WorkerLocks'
    BY <1>1 DEF Base, TypeOK, WorkerLocks, Stopping, WorkerOutrunsConstructor
  <2>5. Stopping'
    BY <1>1 DEF Base, TypeOK, Stopping, Range, WorkerOutrunsConstructor
  <2> QED BY <2>1, <2>2, <2>3, <2>4, <2>5 DEF Base
<1>2. CASE WorkerEnter(w)
  <2>1. TypeOK'
    <3>1. wpc' \in [Workers -> WorkerPcs]
      <4>1. \/ wpc' = [wpc EXCEPT ![w] = "locked"]
            \/ wpc' = [wpc EXCEPT ![w] = "asleep"]
        BY <1>2 DEF WorkerEnter
      <4> QED BY <4>1 DEF Base, TypeOK
    <3>2. mutex' \in [Workers -> Workers \cup Callers \cup {None}]
      <4>1. mutex' = mutex \/ mutex' = [mutex EXCEPT ![w] = w]
        BY <1>2 DEF WorkerEnter
      <4> QED BY <4>1 DEF Base, TypeOK
    <3> QED BY <1>2, <3>1, <3>2 DEF Base, TypeOK, WorkerEnter
  <2>2. PusherPcs'
    BY <1>2 DEF Base, TypeOK, PusherPcs, WorkerEnter
  <2>3. LocalsSet'
    BY <1>2 DEF Base, TypeOK, LocalsSet, WorkerEnter
  <2>4. WorkerLocks'
    BY SMTT(30), <1>2 DEF Base, TypeOK, WorkerLocks, Stopping, WorkerEnter
  <2>5. Stopping'
    <3>1. wpc[w] # "exited" /\ \A v \in Workers \ {w} : wpc'[v] = wpc[v]
      BY <1>2 DEF Base, TypeOK, WorkerEnter
    <3> QED BY <1>2, <3>1, RangeOfSeq DEF Base, TypeOK, Stopping, WorkerEnter
  <2> QED BY <2>1, <2>2, <2>3, <2>4, <2>5 DEF Base
<1>3. CASE WorkerTimeout(w)
  BY SMTT(30), <1>3
     DEF Base, TypeOK, PusherPcs, LocalsSet, WorkerLocks, Stopping,
         WorkerTimeout, Range
<1>4. CASE WorkerTest(w)
  <2>1. TypeOK'
    BY <1>4 DEF Base, TypeOK, LocalsSet, WorkerLocks, Stopping, WorkerTest
  <2>2. PusherPcs'
    BY <1>4 DEF Base, TypeOK, PusherPcs, WorkerTest
  <2>3. LocalsSet'
    BY <1>4 DEF Base, TypeOK, LocalsSet, WorkerTest
  <2>4. WorkerLocks'
    <3>1. \/ /\ wpc' = [wpc EXCEPT ![w] = "exited"]
             /\ mutex' = [mutex EXCEPT ![w] = None]
          \/ /\ wpc' = [wpc EXCEPT ![w] = "enter"]
             /\ mutex' = [mutex EXCEPT ![w] = None]
          \/ /\ wpc' = [wpc EXCEPT ![w] = "taking"] /\ queue[w] # <<>>
             /\ mutex' = mutex
      BY <1>4 DEF WorkerTest
    <3>2. wpc[w] = "locked" /\ queue' = queue
      BY <1>4 DEF WorkerTest
    <3>3. wpc \in [Workers -> WorkerPcs] /\ DOMAIN mutex = Workers
      BY DEF Base, TypeOK
    <3> QED BY <3>1, <3>2, <3>3 DEF Base, WorkerLocks
  <2>5. Stopping'
    <3>1. wpc[w] # "exited" /\ \A v \in Workers \ {w} : wpc'[v] = wpc[v]
      BY <1>4 DEF Base, TypeOK, WorkerTest
    <3> QED BY <1>4, <3>1, RangeOfSeq DEF Base, TypeOK, Stopping, WorkerTest
  <2> QED BY <2>1, <2>2, <2>3, <2>4, <2>5 DEF Base
<1>5. CASE WorkerTake(w)
  BY SMTT(30), <1>5
     DEF Base, TypeOK, PusherPcs, LocalsSet, WorkerLocks, Stopping,
         WorkerTake, Range
<1>6. CASE WorkerFinish(w)
  BY <1>6 DEF Base, TypeOK, PusherPcs, LocalsSet, WorkerLocks, Stopping,
     WorkerFinish, Range
<1> QED BY <1>1, <1>2, <1>3, <1>4, <1>5, <1>6 DEF WorkerStep

LEMMA StopEraseBase ==
  ASSUME Base, StopErase PROVE Base'
<1> DEFINE rest == SubSeq(threads, todo + 1, Len(threads))
<1>1. /\ todo \in Nat /\ todo <= Len(threads) /\ Len(threads) \in Nat
      /\ cpc[Owner] = "flag"
      /\ Len(stopping) = todo
      /\ \A k \in 1 .. Len(threads) : threads[k] = None <=> k <= todo
  BY DEF Base, TypeOK, Stopping, StopErase
<1>2. /\ rest \in Seq(Workers \cup {None})
      /\ Len(rest) = Len(threads) - todo
      /\ \A k \in 1 .. Len(rest) : rest[k] = threads[k + todo]
  BY <1>1, SubSeqProperties DEF Base, TypeOK
<1>3. \A k \in 1 .. Len(rest) : rest[k] # None
  BY <1>1, <1>2
<1>4. Range(stopping) \subseteq Workers
  BY RangeOfSeq DEF Base, TypeOK
<1>5. /\ threads' = rest
      /\ \/ rest = <<>> /\ stopping' = <<>> /\ cpc' = [cpc EXCEPT ![Owner] = "idle"]
         \/ /\ rest # <<>> /\ stopping' = stopping
            /\ cpc' = [cpc EXCEPT ![Owner] = "drain"]
  BY DEF StopErase
<1>6. /\ queue' \in [Workers -> Seq(Tasks)]
      /\ \A w \in Workers : queue'[w] = queue[w] \/ w \in Range(stopping)
  <2>1. CASE rest = <<>>
    <3>1. queue' = [w \in Workers |-> IF w \in Range(stopping) THEN <<>> ELSE queue[w]]
      BY <2>1 DEF StopErase
    <3> QED BY <3>1 DEF Base, TypeOK
  <2>2. CASE rest # <<>>
    BY <2>2 DEF StopErase, Base, TypeOK
  <2> QED BY <2>1, <2>2
<1>7. lost' \in SUBSET Tasks
  <2>1. \A w \in Range(stopping) : Range(queue[w]) \subseteq Tasks
    BY <1>4, RangeOfSeq DEF Base, TypeOK
  <2> QED BY <2>1 DEF StopErase, Base, TypeOK
<1>8. fault' \in BOOLEAN
  BY DEF StopErase, VectorRace
<1>9. stopping' \in Seq(Workers) /\ Range(stopping') \subseteq Range(stopping)
  <2>1. stopping' = <<>> \/ stopping' = stopping
    BY <1>5
  <2>2. Range(stopping') = {} \/ Range(stopping') = Range(stopping)
    BY <2>1, RangeOfEmpty
  <2>3. <<>> \in Seq(Workers) /\ stopping \in Seq(Workers)
    BY DEF Base, TypeOK
  <2> QED BY <2>1, <2>2, <2>3
<1>10. cpc' \in [Callers -> CallerPcs] /\ \A p \in Pushers : cpc'[p] = cpc[p]
  BY <1>5 DEF Base, TypeOK, CallerPcs, StopPcs
<1>11. cpc'[Owner] \in {"idle", "drain"}
  BY <1>5 DEF Base, TypeOK
<1>12. /\ UNCHANGED <<mutex, status, wpc, running, arg, scan, born, fresh, done>>
       /\ todo' = 0
  BY DEF StopErase, workerVars
<1>13. TypeOK'
  BY <1>2, <1>5, <1>6, <1>7, <1>8, <1>9, <1>10, <1>12 DEF Base, TypeOK
<1>14. PusherPcs'
  BY <1>10 DEF Base, PusherPcs
<1>15. LocalsSet'
  BY <1>10, <1>11, <1>12 DEF Base, LocalsSet
<1>16. WorkerLocks'
  BY <1>6, <1>12 DEF Base, WorkerLocks, Stopping
<1>17. Stopping'
  <2>1. cpc'[Owner] = "idle" => stopping' = <<>>
    BY <1>5, <1>11 DEF Base, TypeOK
  <2> QED BY <1>3, <1>5, <1>9, <1>11, <1>12, <2>1 DEF Base, Stopping, PushPcs
<1> QED BY <1>13, <1>14, <1>15, <1>16, <1>17 DEF Base

LEMMA OwnerBase ==
  ASSUME Base, OwnerStep
  PROVE  Base'
<1>1. CASE \E w \in Workers : RunSpawn(w)
  BY <1>1 DEF Base, TypeOK, PusherPcs, LocalsSet, WorkerLocks, Stopping,
     RunSpawn, Range
<1>2. CASE RunAppend
  <2>1. TypeOK'
    <3>1. born \in Workers /\ todo - 1 \in Nat
      BY <1>2 DEF Base, TypeOK, LocalsSet, RunAppend
    <3>2. threads' \in Seq(Workers \cup {None})
      BY <1>2, <3>1 DEF Base, TypeOK, RunAppend
    <3>3. wpc' \in [Workers -> WorkerPcs] /\ cpc' \in [Callers -> CallerPcs]
      BY <1>2, <3>1 DEF Base, TypeOK, RunAppend
    <3>4. fault' \in BOOLEAN
      BY <1>2 DEF RunAppend, VectorRace
    <3> QED BY <1>2, <3>1, <3>2, <3>3, <3>4 DEF Base, TypeOK, RunAppend
  <2>2. PusherPcs'
    BY <1>2 DEF Base, TypeOK, PusherPcs, RunAppend
  <2>3. LocalsSet'
    BY <1>2 DEF Base, TypeOK, LocalsSet, RunAppend
  <2>4. WorkerLocks'
    BY <1>2 DEF Base, TypeOK, WorkerLocks, Stopping, RunAppend
  <2>5. Stopping'
    <3>1. born \in Workers /\ stopping' = <<>>
      BY <1>2 DEF Base, LocalsSet, Stopping, RunAppend
    <3>2. cpc'[Owner] \in {"run", "idle"}
      BY <1>2 DEF Base, TypeOK, RunAppend
    <3>3. \A k \in 1 .. Len(threads') : threads'[k] # None
      BY <1>2, <3>1 DEF Base, TypeOK, Stopping, RunAppend
    <3> QED BY <3>1, <3>2, <3>3, RangeOfEmpty DEF Stopping
  <2> QED BY <2>1, <2>2, <2>3, <2>4, <2>5 DEF Base
<1>3. CASE StopFlag
  <2>1. TypeOK'
    BY <1>3 DEF Base, TypeOK, StopFlag
  <2>2. PusherPcs'
    BY <1>3 DEF Base, TypeOK, PusherPcs, StopFlag
  <2>3. LocalsSet'
    BY <1>3 DEF Base, TypeOK, LocalsSet, StopFlag
  <2>4. WorkerLocks'
    BY <1>3 DEF Base, TypeOK, WorkerLocks, StopFlag
  <2>5. Stopping'
    BY SMTT(30), <1>3 DEF Base, TypeOK, Stopping, Range, StopFlag
  <2> QED BY <2>1, <2>2, <2>3, <2>4, <2>5 DEF Base
<1>4. CASE StopJoin
  <2>1. TypeOK'
    BY SMTT(30), <1>4
       DEF Base, TypeOK, LocalsSet, WorkerLocks, Stopping, StopJoin
  <2>2. PusherPcs'
    BY <1>4 DEF Base, TypeOK, PusherPcs, StopJoin
  <2>3. LocalsSet'
    BY <1>4 DEF Base, TypeOK, LocalsSet, StopJoin
  <2>4. WorkerLocks'
    BY <1>4 DEF Base, TypeOK, WorkerLocks, Stopping, StopJoin
  <2>5. Stopping'
    BY SMTT(30), <1>4 DEF Base, TypeOK, Stopping, Range, StopJoin
  <2> QED BY <2>1, <2>2, <2>3, <2>4, <2>5 DEF Base
<1>5. CASE StopErase
  BY <1>5, StopEraseBase
<1>6. CASE DrainLock
  BY SMTT(30), <1>6
     DEF Base, TypeOK, PusherPcs, LocalsSet, WorkerLocks, Stopping, DrainLock,
         Range
<1>7. CASE DrainTask
  <2>1. TypeOK'
    BY SMTT(30), <1>7
       DEF Base, TypeOK, LocalsSet, WorkerLocks, Stopping, DrainTask
  <2>2. PusherPcs'
    BY <1>7 DEF Base, TypeOK, PusherPcs, DrainTask
  <2>3. LocalsSet'
    <3>1. stopping # <<>> /\ stopping \in Seq(Workers)
      BY <1>7 DEF Base, TypeOK, Stopping, DrainTask
    <3>2. Head(stopping) \in Workers /\ wpc[Head(stopping)] = "exited"
      BY <3>1, RangeOfHead DEF Base, Stopping
    <3>3. Head(queue[Head(stopping)]) \in Tasks
      BY <1>7, <3>2 DEF Base, TypeOK, DrainTask
    <3>4. arg'[Owner] \in Tasks /\ \A p \in Pushers : arg'[p] = arg[p] /\ cpc'[p] = cpc[p]
      BY <1>7, <3>3 DEF Base, TypeOK, DrainTask
    <3>5. cpc'[Owner] = "select"
      BY <1>7 DEF Base, TypeOK, DrainTask
    <3> QED BY <1>7, <3>4, <3>5 DEF Base, LocalsSet, DrainTask
  <2>4. WorkerLocks'
    <3>1. stopping # <<>> /\ stopping \in Seq(Workers)
      BY <1>7 DEF Base, TypeOK, Stopping, DrainTask
    <3>2. Head(stopping) \in Workers /\ wpc[Head(stopping)] = "exited"
      BY <3>1, RangeOfHead DEF Base, Stopping
    <3> QED BY <1>7, <3>2 DEF Base, TypeOK, WorkerLocks, DrainTask
  <2>5. Stopping'
    BY <1>7 DEF Base, TypeOK, Stopping, Range, DrainTask
  <2> QED BY <2>1, <2>2, <2>3, <2>4, <2>5 DEF Base
<1>8. CASE DrainNext
  <2>1. TypeOK'
    <3>1. stopping # <<>> /\ stopping \in Seq(Workers)
      BY <1>8 DEF Base, TypeOK, Stopping, DrainNext
    <3>2. Head(stopping) \in Workers /\ wpc[Head(stopping)] = "exited"
      BY <3>1, RangeOfHead DEF Base, Stopping
    <3>3. Tail(stopping) \in Seq(Workers)
      BY <3>1
    <3> QED BY <1>8, <3>2, <3>3 DEF Base, TypeOK, DrainNext
  <2>2. PusherPcs'
    BY <1>8 DEF Base, TypeOK, PusherPcs, DrainNext
  <2>3. LocalsSet'
    BY <1>8 DEF Base, TypeOK, LocalsSet, DrainNext
  <2>4. WorkerLocks'
    <3>1. stopping # <<>> /\ stopping \in Seq(Workers)
      BY <1>8 DEF Base, TypeOK, Stopping, DrainNext
    <3>2. Head(stopping) \in Workers /\ wpc[Head(stopping)] = "exited"
      BY <3>1, RangeOfHead DEF Base, Stopping
    <3> QED BY <1>8, <3>2 DEF Base, TypeOK, WorkerLocks, DrainNext
  <2>5. Stopping'
    <3>1. stopping # <<>> /\ stopping \in Seq(Workers)
      BY <1>8 DEF Base, TypeOK, Stopping, DrainNext
    <3>2. Head(stopping) \in Workers /\ wpc[Head(stopping)] = "exited"
      BY <3>1, RangeOfHead DEF Base, Stopping
    <3>3. Range(Tail(stopping)) \subseteq Range(stopping)
      BY <3>1, RangeOfTail
    <3>4. cpc'[Owner] = "drain"
      BY <1>8 DEF Base, TypeOK, DrainNext
    <3> QED BY <1>8, <3>3, <3>4 DEF Base, Stopping, DrainNext
  <2> QED BY <2>1, <2>2, <2>3, <2>4, <2>5 DEF Base
<1>9. CASE StopReturn
  BY <1>9 DEF Base, TypeOK, PusherPcs, LocalsSet, WorkerLocks, Stopping,
     StopReturn, Range
<1>10. CASE JoinEnd
  BY <1>10 DEF Base, TypeOK, PusherPcs, LocalsSet, WorkerLocks, Stopping,
     JoinEnd, Range
<1> QED BY <1>1, <1>2, <1>3, <1>4, <1>5, <1>6, <1>7, <1>8, <1>9, <1>10
     DEF OwnerStep

LEMMA OwnerCallKinds ==
  ASSUME OwnerCall
  PROVE  \/ \E n \in Nat : RunBegin(n)
         \/ \E n \in Nat : StopBegin(n)
         \/ JoinBegin
<1>1. \A i : \A n \in 1 .. i : RunBegin(n) => n \in Nat
  OBVIOUS
<1>2. \A i : \A n \in 1 .. i : StopBegin(n) => n \in Nat
  OBVIOUS
<1> QED BY <1>1, <1>2 DEF OwnerCall

LEMMA CallBase ==
  ASSUME Base, OwnerCall \/ \E p \in Pushers, t \in Tasks : PushBegin(p, t)
  PROVE  Base'
<1>1. CASE \E p \in Pushers, t \in Tasks : PushBegin(p, t)
  <2> PICK p \in Pushers, t \in Tasks : PushBegin(p, t)
    BY <1>1
  <2>1. TypeOK'
    BY DEF Base, TypeOK, PushBegin
  <2>2. PusherPcs'
    BY DEF Base, TypeOK, PusherPcs, PushBegin
  <2>3. LocalsSet'
    BY DEF Base, TypeOK, LocalsSet, PushBegin
  <2>4. WorkerLocks'
    BY DEF Base, TypeOK, WorkerLocks, PushBegin
  <2>5. Stopping'
    BY DEF Base, TypeOK, Stopping, PushBegin, Range
  <2> QED BY <2>1, <2>2, <2>3, <2>4, <2>5 DEF Base
<1>2. CASE \E n \in Nat : RunBegin(n)
  BY <1>2 DEF Base, TypeOK, PusherPcs, LocalsSet, WorkerLocks, Stopping,
     RunBegin, Range
<1>3. CASE \E n \in Nat : StopBegin(n)
  BY SMTT(30), <1>3
     DEF Base, TypeOK, PusherPcs, LocalsSet, WorkerLocks, Stopping, StopBegin,
         Range
<1>4. CASE JoinBegin
  BY <1>4 DEF Base, TypeOK, PusherPcs, LocalsSet, WorkerLocks, Stopping,
     JoinBegin, Range
<1> QED BY <1>1, <1>2, <1>3, <1>4, OwnerCallKinds

LEMMA NextBase == Base /\ [Next]_vars => Base'
<1> SUFFICES ASSUME Base, [Next]_vars PROVE Base'
  OBVIOUS
<1>1. CASE Next
  BY <1>1, PushBase, WorkerBase, OwnerBase, CallBase DEF Next
<1>2. CASE UNCHANGED vars
  BY <1>2 DEF Base, TypeOK, PusherPcs, LocalsSet, WorkerLocks, Stopping, vars
<1> QED BY <1>1, <1>2

(* Every variable keeps its type, and no operation looks at the head of an *)
(* empty queue or runs a lambda it does not have, whatever run(), stop()   *)
(* and push() race with each other (thread_pool.cpp:15-125).               *)
THEOREM TypeCorrect == Spec => []TypeOK
<1>1. Spec => []Base
  BY InitBase, NextBase, PTL DEF Spec
<1>2. Base => TypeOK
  BY DEF Base
<1> QED BY <1>1, <1>2, PTL

-----------------------------------------------------------------------------
(* With serialised callers, every index that a push() holds stays good.    *)

LEMMA InitCoherent == Init => Coherent
  BY DEF Init, Coherent

\* While a push() is under way every element of threads_ is a worker.
LEMMA AllValid ==
  ASSUME Base, Coherent, NEW c \in Callers, cpc[c] \in PushPcs
  PROVE  \A k \in 1 .. Len(threads) : threads[k] \in Workers
<1>1. cpc[Owner] \notin {"flag", "join"}
  BY DEF Coherent
<1> QED BY <1>1 DEF Base, TypeOK, Stopping

\* A step that changes no index and no mutex held by a caller keeps Coherent.
LEMMA CoherentKept ==
  ASSUME Base, Coherent, UNCHANGED <<threads, scan, cpc, fault>>,
         \A v \in Workers : mutex[v] \in Callers => mutex'[v] = mutex[v]
  PROVE  Coherent'
<1>1. ASSUME NEW c \in Callers, cpc[c] = "enqueue"
      PROVE  mutex'[threads[scan[c].least]] = c
  <2>1. scan[c].least \in 1 .. Len(threads) /\ mutex[threads[scan[c].least]] = c
    BY <1>1 DEF Coherent
  <2>2. threads[scan[c].least] \in Workers
    BY <1>1, <2>1, AllValid
  <2> QED BY <2>1, <2>2
<1> QED BY <1>1 DEF Coherent

LEMMA PushCoherent ==
  ASSUME Disciplined, Base, Coherent, NEW c \in Callers, PushStep(c)
  PROVE  Coherent'
<1>1. CASE PushInline(c)
  BY <1>1 DEF Disciplined, Base, TypeOK, PusherPcs, LocalsSet, WorkerLocks,
     Stopping, Coherent, PushInline
<1>2. CASE InlineFinish(c)
  <2>1. c \in Pushers /\ cpc' = [cpc EXCEPT ![c] = "idle"]
    BY <1>2 DEF Coherent, InlineFinish
  <2> QED BY <1>2, <2>1 DEF Base, TypeOK, PusherPcs, Coherent, InlineFinish
<1>3. CASE PushSelect(c)
  BY SMTT(30), <1>3
     DEF Disciplined, Base, TypeOK, PusherPcs, LocalsSet, WorkerLocks,
         Stopping, Coherent, PushSelect
<1>4. CASE PushScan(c)
  <2>1. /\ UNCHANGED <<threads, mutex, fault>>
        /\ \A d \in Callers \ {c} : cpc'[d] = cpc[d] /\ scan'[d] = scan[d]
        /\ cpc'[c] \in {"scan", "lock"} /\ cpc[c] = "scan"
    BY <1>4 DEF Base, TypeOK, PushScan
  <2>2. scan'[c].i > 0 /\ scan'[c].least \in 1 .. Len(threads)
    <3>1. scan[c].i \in 1 .. Len(threads) /\ scan[c].least \in 1 .. Len(threads)
      BY <1>4 DEF Base, TypeOK, Coherent, PushScan
    <3>2. scan[c] \in Scans
      BY DEF Base, TypeOK
    <3>3. CASE scan' = [scan EXCEPT ![c].least = scan[c].i]
      BY <3>1, <3>2, <3>3 DEF Base, TypeOK
    <3>4. CASE \E s, s2 : scan' = [scan EXCEPT ![c] =
                 [i |-> scan[c].i + 1,
                  least |-> IF s < @.size THEN scan[c].i ELSE @.least,
                  size  |-> IF s < @.size THEN s2 ELSE @.size,
                  at    |-> None]]
      BY <3>1, <3>2, <3>4 DEF Base, TypeOK
    <3>5. \/ scan' = [scan EXCEPT ![c].least = scan[c].i]
          \/ \E s, s2 : scan' = [scan EXCEPT ![c] =
                 [i |-> scan[c].i + 1,
                  least |-> IF s < @.size THEN scan[c].i ELSE @.least,
                  size  |-> IF s < @.size THEN s2 ELSE @.size,
                  at    |-> None]]
      BY <1>4 DEF PushScan
    <3> QED BY <3>3, <3>4, <3>5
  <2>3. \A d \in Callers \ {c} : threads'[scan'[d].least] = threads[scan[d].least]
    BY <2>1
  <2>4. cpc[Owner] \in {"idle", "joining"} \/ c = Owner
    BY <2>1 DEF Coherent
  <2>5. (\E p \in Pushers : cpc'[p] # "idle") => cpc'[Owner] \in {"idle", "joining"}
    BY <2>1, <2>4 DEF Coherent
  <2>6. cpc'[Owner] # "inline" /\ threads' # <<>>
    BY <1>4, <2>1 DEF Base, TypeOK, Coherent, PushScan
  <2> QED BY <2>1, <2>2, <2>3, <2>5, <2>6 DEF Coherent
<1>5. CASE PushScanEnd(c)
  BY <1>5 DEF Disciplined, Base, TypeOK, PusherPcs, LocalsSet, WorkerLocks,
     Stopping, Coherent, PushScanEnd
<1>6. CASE PushLock(c)
  BY SMTT(30), <1>6
     DEF Disciplined, Base, TypeOK, PusherPcs, LocalsSet, WorkerLocks,
         Stopping, Coherent, PushLock
<1>7. CASE PushEnqueue(c)
  <2> DEFINE v == threads[scan[c].least]
  <2>1. /\ UNCHANGED <<threads, scan, fault>> /\ v \in Workers /\ mutex[v] = c
        /\ mutex' = [mutex EXCEPT ![v] = None]
        /\ cpc' = [cpc EXCEPT ![c] = "notify"] /\ cpc[c] = "enqueue"
    BY <1>7 DEF Base, TypeOK, PushEnqueue
  <2>2. ASSUME NEW d \in Callers \ {c}, cpc[d] = "enqueue"
        PROVE  mutex'[threads[scan[d].least]] = d
    BY <2>1, <2>2 DEF Base, TypeOK, Coherent
  <2> QED BY <2>1, <2>2 DEF Base, TypeOK, PusherPcs, Coherent
<1>8. CASE PushNotify(c)
  BY <1>8 DEF Disciplined, Base, TypeOK, PusherPcs, LocalsSet, WorkerLocks,
     Stopping, Coherent, PushNotify
<1>9. CASE PushFault(c)
  <2>1. \A k \in 1 .. Len(threads) : threads[k] \in Workers
    BY <1>9, AllValid DEF PushFault
  <2>2. threads # <<>> => 1 \in 1 .. Len(threads)
    BY DEF Base, TypeOK
  <2>3. cpc[c] = "scan" => (scan[c].i <= Len(threads) => scan[c].i \in 1 .. Len(threads))
    BY DEF Base, TypeOK, Coherent
  <2>4. cpc[c] \in {"lock", "enqueue", "notify"} => scan[c].least \in 1 .. Len(threads)
    BY DEF Coherent
  <2>5. cpc[c] = "enqueue" => mutex[threads[scan[c].least]] = c
    BY DEF Coherent
  <2>6. cpc[c] = "wait" => ~Destroyed(scan[c].at)
    <3>1. cpc[c] = "wait" => scan[c].at \in Range(threads)
      <4>1. DOMAIN threads = 1 .. Len(threads)
        BY DEF Base, TypeOK
      <4> QED BY <4>1 DEF Coherent, Range
    <3> QED BY <3>1 DEF Destroyed
  <2> QED BY <1>9, <2>1, <2>2, <2>3, <2>4, <2>5, <2>6 DEF PushFault
<1>10. CASE PushReach(c)
  <2>1. /\ scan' = [scan EXCEPT ![c].at = threads[scan[c].least]]
        /\ cpc' = [cpc EXCEPT ![c] = "wait"] /\ cpc[c] = "lock"
        /\ UNCHANGED <<threads, mutex, fault>>
        /\ scan[c] \in Scans
    BY <1>10 DEF Base, TypeOK, PushReach
  <2>2. /\ \A d \in Callers \ {c} : cpc'[d] = cpc[d] /\ scan'[d] = scan[d]
        /\ cpc'[c] = "wait" /\ scan'[c].least = scan[c].least
        /\ scan'[c].at = threads[scan[c].least]
    BY <2>1 DEF Base, TypeOK
  <2>3. scan[c].least \in 1 .. Len(threads)
    BY <2>1 DEF Coherent
  <2>4. /\ (\E p \in Pushers : cpc'[p] # "idle") =>
             cpc'[Owner] \in {"idle", "joining"}
        /\ cpc'[Owner] \in {"drain", "drained"} \cup PushPcs => threads' # <<>>
        /\ cpc'[Owner] # "inline"
    BY <2>1, <2>2 DEF Coherent
  <2> QED BY <2>1, <2>2, <2>3, <2>4 DEF Coherent
<1> QED BY <1>1, <1>2, <1>3, <1>4, <1>5, <1>6, <1>7, <1>8, <1>9, <1>10 DEF PushStep

LEMMA WorkerCoherent ==
  ASSUME Disciplined, Base, Coherent, NEW w \in Workers,
         WorkerStep(w) \/ WorkerOutrunsConstructor(w)
  PROVE  Coherent'
<1>1. CASE WorkerOutrunsConstructor(w)
  BY <1>1 DEF Disciplined, Base, TypeOK, PusherPcs, LocalsSet, WorkerLocks,
     Stopping, Coherent, WorkerOutrunsConstructor
<1>2. CASE WorkerEnter(w)
  <2>1. /\ UNCHANGED <<threads, scan, cpc, fault>>
        /\ \A v \in Workers : mutex[v] \in Callers => mutex'[v] = mutex[v]
    BY <1>2 DEF Base, TypeOK, WorkerLocks, WorkerEnter
  <2> QED BY <2>1, CoherentKept
<1>3. CASE WorkerTimeout(w)
  BY SMTT(30), <1>3
     DEF Disciplined, Base, TypeOK, PusherPcs, LocalsSet, WorkerLocks,
         Stopping, Coherent, WorkerTimeout
<1>4. CASE WorkerTest(w)
  <2>1. /\ UNCHANGED <<threads, scan, cpc, fault>>
        /\ \A v \in Workers : mutex[v] \in Callers => mutex'[v] = mutex[v]
    BY <1>4 DEF Base, TypeOK, WorkerLocks, WorkerTest
  <2> QED BY <2>1, CoherentKept
<1>5. CASE WorkerTake(w)
  BY SMTT(30), <1>5
     DEF Disciplined, Base, TypeOK, PusherPcs, LocalsSet, WorkerLocks,
         Stopping, Coherent, WorkerTake
<1>6. CASE WorkerFinish(w)
  BY <1>6 DEF Disciplined, Base, TypeOK, PusherPcs, LocalsSet, WorkerLocks,
     Stopping, Coherent, WorkerFinish
<1> QED BY <1>1, <1>2, <1>3, <1>4, <1>5, <1>6 DEF WorkerStep

LEMMA OwnerCoherent ==
  ASSUME Disciplined, Base, Coherent, OwnerStep
  PROVE  Coherent'
<1>1. CASE \E w \in Workers : RunSpawn(w)
  BY <1>1 DEF Disciplined, Base, TypeOK, PusherPcs, LocalsSet, WorkerLocks,
     Stopping, Coherent, RunSpawn
<1>2. CASE RunAppend
  BY <1>2 DEF Disciplined, Base, TypeOK, PusherPcs, LocalsSet, WorkerLocks,
     Stopping, Coherent, RunAppend, VectorRace, PushInFlight
<1>3. CASE StopFlag
  BY <1>3 DEF Disciplined, Base, TypeOK, PusherPcs, LocalsSet, WorkerLocks,
     Stopping, Coherent, StopFlag
<1>4. CASE StopJoin
  BY <1>4 DEF Disciplined, Base, TypeOK, PusherPcs, LocalsSet, WorkerLocks,
     Stopping, Coherent, StopJoin
<1>5. CASE StopErase
  <2>1. \A c \in Pushers : cpc[c] = "idle" /\ cpc'[c] = "idle"
    BY <1>5 DEF Base, TypeOK, Coherent, StopErase
  <2>2. \/ cpc'[Owner] = "idle"
        \/ cpc'[Owner] = "drain" /\ threads' # <<>>
    BY <1>5 DEF Base, TypeOK, StopErase
  <2>3. ~fault'
    BY <1>5, <2>1 DEF Coherent, StopErase, VectorRace, PushInFlight
  <2> QED BY <2>1, <2>2, <2>3 DEF Coherent
<1>6. CASE DrainLock
  BY <1>6 DEF Disciplined, Base, TypeOK, PusherPcs, LocalsSet, WorkerLocks,
     Stopping, Coherent, DrainLock
<1>7. CASE DrainTask
  BY <1>7 DEF Disciplined, Base, TypeOK, PusherPcs, LocalsSet, WorkerLocks,
     Stopping, Coherent, DrainTask
<1>8. CASE DrainNext
  BY <1>8 DEF Disciplined, Base, TypeOK, PusherPcs, LocalsSet, WorkerLocks,
     Stopping, Coherent, DrainNext
<1>9. CASE StopReturn
  BY <1>9 DEF Disciplined, Base, TypeOK, PusherPcs, LocalsSet, WorkerLocks,
     Stopping, Coherent, StopReturn
<1>10. CASE JoinEnd
  BY <1>10 DEF Disciplined, Base, TypeOK, PusherPcs, LocalsSet, WorkerLocks,
     Stopping, Coherent, JoinEnd
<1> QED BY <1>1, <1>2, <1>3, <1>4, <1>5, <1>6, <1>7, <1>8, <1>9, <1>10
     DEF OwnerStep

LEMMA CallCoherent ==
  ASSUME Disciplined, Base, Coherent,
         OwnerCall \/ \E p \in Pushers, t \in Tasks : PushBegin(p, t)
  PROVE  Coherent'
<1>1. CASE \E p \in Pushers, t \in Tasks : PushBegin(p, t)
  BY <1>1 DEF Disciplined, Base, TypeOK, PusherPcs, LocalsSet, WorkerLocks,
     Stopping, Coherent, PushBegin
<1>2. CASE \E n \in Nat : RunBegin(n)
  BY <1>2 DEF Disciplined, Base, TypeOK, PusherPcs, LocalsSet, WorkerLocks,
     Stopping, Coherent, RunBegin, Quiet
<1>3. CASE \E n \in Nat : StopBegin(n)
  BY <1>3 DEF Disciplined, Base, TypeOK, PusherPcs, LocalsSet, WorkerLocks,
     Stopping, Coherent, StopBegin, Quiet
<1>4. CASE JoinBegin
  BY <1>4 DEF Disciplined, Base, TypeOK, PusherPcs, LocalsSet, WorkerLocks,
     Stopping, Coherent, JoinBegin
<1> QED BY <1>1, <1>2, <1>3, <1>4, OwnerCallKinds

LEMMA NextCoherent == Disciplined /\ Base /\ Coherent /\ [Next]_vars => Coherent'
<1> SUFFICES ASSUME Disciplined, Base, Coherent, [Next]_vars PROVE Coherent'
  OBVIOUS
<1>1. CASE Next
  BY <1>1, PushCoherent, WorkerCoherent, OwnerCoherent, CallCoherent DEF Next
<1>2. CASE UNCHANGED vars
  BY <1>2 DEF Coherent, vars
<1> QED BY <1>1, <1>2

(* When run() and stop() never overlap a push(), and no thread outruns its *)
(* constructor, push() never uses a stale index, never dereferences a      *)
(* moved-from worker, and never appends to a queue whose mutex it does not *)
(* hold (thread_pool.cpp:22-40).                                           *)
THEOREM NeverFaults == Disciplined => (Spec => []NoFault)
<1> SUFFICES ASSUME Disciplined PROVE Spec => []NoFault
  OBVIOUS
<1>1. Init => Base /\ Coherent
  BY InitBase, InitCoherent
<1>2. Base /\ Coherent /\ [Next]_vars => (Base /\ Coherent)'
  BY NextBase, NextCoherent
<1>3. Base /\ Coherent => NoFault
  BY DEF Coherent, NoFault
<1> QED BY <1>1, <1>2, <1>3, PTL DEF Spec
-----------------------------------------------------------------------------
(* A pool that is never stopped: its vector only grows, so that an index   *)
(* stays good although run() may reallocate the elements meanwhile.        *)

\* A push() under way has good indexes, and the mutex of the queue it fills.
Indexed ==
  \A p \in Pushers :
    /\ cpc[p] = "scan" => scan[p].i > 0
    /\ cpc[p] \in {"scan", "lock", "wait", "enqueue", "notify"} =>
         scan[p].least \in 1 .. Len(threads)
    /\ cpc[p] = "wait" => scan[p].at = threads[scan[p].least]
    /\ cpc[p] = "enqueue" => mutex[threads[scan[p].least]] = p

\* A thread has started and not entered its loop only while run() builds its
\* worker.
Outrunning ==
  \A w \in Workers : wpc[w] = "started" => cpc[Owner] = "ctor" /\ born = w

\* The owner is in none of the operations of stop().
Growing ==
  /\ cpc[Owner] \in {"idle", "run", "ctor", "joining"}
  /\ Indexed /\ Outrunning

\* Every element of a growing vector is a worker.
LEMMA GrowingValid ==
  ASSUME Base, Growing
  PROVE  \A k \in 1 .. Len(threads) : threads[k] \in Workers
  BY DEF Base, TypeOK, Stopping, Growing

\* An index that is good stays so where nobody but c moves, and where nobody
\* takes a mutex from a caller.
LEMMA IndexedKept ==
  ASSUME Base, Growing, UNCHANGED threads, NEW c,
         \A p \in Pushers \ {c} : cpc'[p] = cpc[p] /\ scan'[p] = scan[p],
         \A v \in Workers : mutex[v] \in Pushers \ {c} => mutex'[v] = mutex[v]
  PROVE  \A p \in Pushers \ {c} :
           /\ cpc'[p] = "scan" => scan'[p].i > 0
           /\ cpc'[p] \in {"scan", "lock", "wait", "enqueue", "notify"} =>
                scan'[p].least \in 1 .. Len(threads')
           /\ cpc'[p] = "wait" => scan'[p].at = threads'[scan'[p].least]
           /\ cpc'[p] = "enqueue" => mutex'[threads'[scan'[p].least]] = p
<1> SUFFICES ASSUME NEW p \in Pushers \ {c}, cpc[p] = "enqueue"
             PROVE  mutex'[threads[scan[p].least]] = p
  BY DEF Growing, Indexed
<1>1. /\ scan[p].least \in 1 .. Len(threads)
      /\ mutex[threads[scan[p].least]] = p
  BY DEF Growing, Indexed
<1> QED BY <1>1, GrowingValid

\* A push() keeps its index good, and finds no undefined behaviour.
LEMMA GrowingPush ==
  ASSUME Base, Growing, NEW c \in Pushers,
         PushStep(c) \/ \E t \in Tasks : PushBegin(c, t)
  PROVE  /\ Growing' /\ UNCHANGED fault
         /\ UNCHANGED threads /\ cpc'[Owner] = cpc[Owner]
         /\ \A w \in Workers : wpc[w] = "none" => wpc'[w] = "none"
<1>0. /\ TypeOK /\ c \in Callers /\ c # Owner /\ Pushers \subseteq Callers
      /\ scan[c] \in Scans
      /\ Len(threads) \in Nat
  BY PoolAssumption DEF Base, TypeOK, Callers
<1>1. ~PushFault(c)
  <2>1. \A k \in 1 .. Len(threads) : ValidIndex(k)
    BY GrowingValid, PoolAssumption DEF ValidIndex
  <2>2. /\ threads # <<>> => 1 \in 1 .. Len(threads)
        /\ cpc[c] = "scan" /\ scan[c].i <= Len(threads) =>
             scan[c].i \in 1 .. Len(threads)
    BY <1>0 DEF TypeOK, Growing, Indexed
  <2>3. cpc[c] = "wait" => scan[c].at \in Range(threads)
    <3>1. DOMAIN threads = 1 .. Len(threads)
      BY <1>0 DEF TypeOK
    <3> QED BY <3>1 DEF Growing, Indexed, Range
  <2> QED BY <2>1, <2>2, <2>3 DEF PushFault, Growing, Indexed, Destroyed
<1>2. /\ UNCHANGED <<threads, fault>>
      /\ \A d \in Callers \ {c} : cpc'[d] = cpc[d] /\ scan'[d] = scan[d]
      /\ \A w \in Workers : wpc[w] = "none" => wpc'[w] = "none"
      /\ \A w \in Workers : wpc'[w] = "started" => wpc[w] = "started"
      /\ UNCHANGED born
  <2>0. DOMAIN cpc = Callers /\ DOMAIN scan = Callers /\ DOMAIN wpc = Workers
    BY <1>0 DEF TypeOK
  <2>1. CASE PushInline(c)
    BY <2>0, <2>1 DEF PushInline
  <2>2. CASE InlineFinish(c)
    BY <2>0, <2>2 DEF InlineFinish
  <2>3. CASE PushSelect(c)
    BY <2>0, <2>3 DEF PushSelect
  <2>4. CASE PushScan(c)
    BY <2>0, <2>4 DEF PushScan
  <2>5. CASE PushScanEnd(c)
    BY <2>0, <2>5 DEF PushScanEnd
  <2>6. CASE PushLock(c)
    BY <2>0, <2>6 DEF PushLock, workerVars
  <2>7. CASE PushEnqueue(c)
    BY <2>0, <2>7 DEF PushEnqueue, workerVars
  <2>8. CASE PushNotify(c)
    BY <2>0, <2>8 DEF PushNotify, workerVars
  <2>9. CASE \E t \in Tasks : PushBegin(c, t)
    BY <2>0, <2>9 DEF PushBegin
  <2>10. CASE PushReach(c)
    BY <2>0, <2>10 DEF PushReach
  <2> QED BY Zenon, <1>1, <2>1, <2>2, <2>3, <2>4, <2>5, <2>6, <2>7, <2>8, <2>9, <2>10
      DEF PushStep
<1>3. \A v \in Workers : mutex[v] \in Pushers \ {c} => mutex'[v] = mutex[v]
  <2>1. CASE PushLock(c)
    BY <1>0, <2>1, PoolAssumption DEF TypeOK, PushLock, Callers
  <2>2. CASE PushEnqueue(c)
    BY <1>0, <2>2 DEF TypeOK, PushEnqueue
  <2>3. CASE UNCHANGED mutex
    BY <2>3
  <2>4. ~PushLock(c) /\ ~PushEnqueue(c) => UNCHANGED mutex
    BY <1>1 DEF PushStep, PushInline, InlineFinish, PushSelect, PushScan,
       PushScanEnd, PushReach, PushNotify, PushBegin
  <2> QED BY <2>1, <2>2, <2>3, <2>4
<1>4. /\ cpc'[c] = "scan" => scan'[c].i > 0
      /\ cpc'[c] \in {"scan", "lock", "wait", "enqueue", "notify"} =>
           scan'[c].least \in 1 .. Len(threads)
      /\ cpc'[c] = "wait" => scan'[c].at = threads[scan'[c].least]
      /\ cpc'[c] = "enqueue" => mutex'[threads[scan'[c].least]] = c
  <2>1. CASE PushInline(c) \/ InlineFinish(c) \/ \E t \in Tasks : PushBegin(c, t)
    BY <1>0, <2>1 DEF TypeOK, PushInline, InlineFinish, PushBegin, ReturnPc
  <2>2. CASE PushSelect(c)
    <3>1. scan'[c].i = 1 /\ scan'[c].least = 1
      <4>1. PICK s : scan' = [scan EXCEPT ![c] = [NoScan EXCEPT !.size = s]]
        BY <2>2 DEF PushSelect
      <4> QED BY <1>0, <4>1 DEF TypeOK
    <3>2. cpc'[c] = "scan" /\ 1 \in 1 .. Len(threads)
      BY <1>0, <2>2 DEF TypeOK, PushSelect, ValidIndex
    <3> QED BY <3>1, <3>2
  <2>3. CASE PushScan(c)
    <3>1. scan[c].i \in 1 .. Len(threads) /\ scan[c].least \in 1 .. Len(threads)
      BY <1>0, <2>3 DEF Growing, Indexed, PushScan, ValidIndex
    <3>2. cpc'[c] \in {"scan", "lock"}
      BY <1>0, <2>3 DEF TypeOK, PushScan
    <3>3. \/ scan' = [scan EXCEPT ![c].least = scan[c].i]
          \/ \E s, s2 : scan' = [scan EXCEPT ![c] =
                 [i |-> scan[c].i + 1,
                  least |-> IF s < @.size THEN scan[c].i ELSE @.least,
                  size  |-> IF s < @.size THEN s2 ELSE @.size,
                  at    |-> None]]
      BY <2>3 DEF PushScan
    <3>4. CASE scan' = [scan EXCEPT ![c].least = scan[c].i]
      BY <1>0, <3>1, <3>2, <3>4 DEF TypeOK
    <3>5. CASE \E s, s2 : scan' = [scan EXCEPT ![c] =
                 [i |-> scan[c].i + 1,
                  least |-> IF s < @.size THEN scan[c].i ELSE @.least,
                  size  |-> IF s < @.size THEN s2 ELSE @.size,
                  at    |-> None]]
      BY <1>0, <3>1, <3>2, <3>5 DEF TypeOK
    <3> QED BY <3>3, <3>4, <3>5
  <2>4. CASE PushScanEnd(c) \/ PushNotify(c)
    BY <1>0, <2>4 DEF TypeOK, PushScanEnd, PushNotify, ReturnPc, Growing, Indexed
  <2>5. CASE PushLock(c)
    <3>1. /\ scan[c].least \in 1 .. Len(threads) /\ UNCHANGED scan
          /\ threads[scan[c].least] \in Workers
      BY <2>5, GrowingValid DEF PushLock, Growing, Indexed
    <3>2. mutex' = [mutex EXCEPT ![threads[scan[c].least]] = c]
      BY <2>5 DEF PushLock, Growing, Indexed
    <3>3. cpc'[c] = "enqueue"
      BY <1>0, <2>5 DEF TypeOK, PushLock
    <3> QED BY <1>0, <3>1, <3>2, <3>3 DEF TypeOK
  <2>6. CASE PushEnqueue(c)
    BY <1>0, <2>6 DEF TypeOK, PushEnqueue, ValidIndex
  <2>7. CASE PushReach(c)
    <3>1. scan' = [scan EXCEPT ![c].at = threads[scan[c].least]]
          /\ cpc' = [cpc EXCEPT ![c] = "wait"] /\ scan[c].least \in 1 .. Len(threads)
      BY <2>7 DEF PushReach, ValidIndex
    <3>2. cpc'[c] = "wait" /\ scan'[c].least = scan[c].least
          /\ scan'[c].at = threads[scan[c].least]
      BY <1>0, <3>1 DEF TypeOK
    <3> QED BY <3>1, <3>2
  <2> QED BY <1>1, <2>1, <2>2, <2>3, <2>4, <2>5, <2>6, <2>7 DEF PushStep
<1>5. cpc'[Owner] = cpc[Owner]
  BY <1>0, <1>2 DEF Callers
<1>6. \A p \in Pushers \ {c} :
        /\ cpc'[p] = "scan" => scan'[p].i > 0
        /\ cpc'[p] \in {"scan", "lock", "wait", "enqueue", "notify"} =>
             scan'[p].least \in 1 .. Len(threads')
        /\ cpc'[p] = "wait" => scan'[p].at = threads'[scan'[p].least]
        /\ cpc'[p] = "enqueue" => mutex'[threads'[scan'[p].least]] = p
  <2>1. \A p \in Pushers \ {c} : cpc'[p] = cpc[p] /\ scan'[p] = scan[p]
    BY <1>0, <1>2
  <2> QED BY <1>2, <1>3, <2>1, IndexedKept
<1>7. Indexed'
  BY <1>2, <1>4, <1>6 DEF Indexed
<1>8. Outrunning'
  BY <1>2, <1>5 DEF Growing, Outrunning
<1> QED BY <1>2, <1>5, <1>7, <1>8 DEF Growing

\* A worker's own steps concern no index, and no mutex that a caller holds.
LEMMA GrowingWorker ==
  ASSUME Base, Growing, NEW w \in Workers, WorkerStep(w)
  PROVE  /\ Growing' /\ UNCHANGED fault
         /\ UNCHANGED threads /\ cpc'[Owner] = cpc[Owner]
         /\ \A v \in Workers : wpc[v] = "none" => wpc'[v] = "none"
<1> USE DEF WorkerStep, WorkerEnter, WorkerTimeout, WorkerTest, WorkerTake,
            WorkerFinish, callerVars
<1>1. /\ UNCHANGED <<threads, scan, cpc, fault>>
      /\ \A v \in Workers : wpc[v] = "none" => wpc'[v] = "none"
  BY DEF Base, TypeOK
<1>2. \A v \in Workers : mutex[v] \in Pushers => mutex'[v] = mutex[v]
  <2>1. \A v \in Workers : v # w => mutex'[v] = mutex[v]
    BY DEF Base, TypeOK
  <2>2. mutex[w] \in {w, None} \/ mutex'[w] = mutex[w]
    BY DEF Base, WorkerLocks
  <2>3. w \notin Pushers /\ None \notin Pushers
    BY PoolAssumption DEF Callers
  <2> QED BY <2>1, <2>2, <2>3
<1>3. Indexed'
  <2>1. Pushers \ {None} = Pushers
    BY PoolAssumption DEF Callers
  <2>2. \A p \in Pushers \ {None} : cpc'[p] = cpc[p] /\ scan'[p] = scan[p]
    BY <1>1
  <2>3. \A v \in Workers : mutex[v] \in Pushers \ {None} => mutex'[v] = mutex[v]
    BY <1>2
  <2>4. \A p \in Pushers \ {None} :
          /\ cpc'[p] = "scan" => scan'[p].i > 0
          /\ cpc'[p] \in {"scan", "lock", "wait", "enqueue", "notify"} =>
               scan'[p].least \in 1 .. Len(threads')
          /\ cpc'[p] = "wait" => scan'[p].at = threads'[scan'[p].least]
          /\ cpc'[p] = "enqueue" => mutex'[threads'[scan'[p].least]] = p
    BY <1>1, <2>2, <2>3, IndexedKept
  <2> QED BY <2>1, <2>4 DEF Indexed
<1>4. Outrunning'
  BY <1>1 DEF Base, TypeOK, Growing, Outrunning
<1> QED BY <1>1, <1>3, <1>4 DEF Growing

\* A thread that outruns its constructor ends, or does anything: but only while
\* run() builds its worker.
LEMMA GrowingOutrun ==
  ASSUME Base, Growing, NEW w \in Workers, WorkerOutrunsConstructor(w)
  PROVE  /\ Growing' /\ cpc[Owner] = "ctor"
         /\ UNCHANGED <<threads, cpc>>
         /\ \A v \in Workers : wpc[v] = "none" => wpc'[v] = "none"
<1>1. /\ UNCHANGED <<threads, scan, cpc, mutex, born>> /\ wpc[w] = "started"
      /\ \A v \in Workers : wpc[v] = "none" => wpc'[v] = "none"
      /\ \A v \in Workers : wpc'[v] = "started" => wpc[v] = "started"
  BY DEF Base, TypeOK, WorkerOutrunsConstructor, callerVars, ownerVars
<1>2. cpc[Owner] = "ctor"
  BY <1>1 DEF Growing, Outrunning
<1> QED BY <1>1, <1>2 DEF Growing, Indexed, Outrunning

\* run() only appends, which races with a push() under way and harms no index.
LEMMA GrowingOwner ==
  ASSUME Base, Growing,
         \/ \E n \in Nat : RunBegin(n)
         \/ \E w \in Workers : RunSpawn(w)
         \/ RunAppend \/ JoinBegin \/ JoinEnd
  PROVE  Growing' /\ (~RunAppend => UNCHANGED fault)
<1>0. /\ TypeOK /\ Owner \in Callers /\ Owner \notin Pushers
      /\ Pushers \subseteq Callers /\ Len(threads) \in Nat
  BY PoolAssumption DEF Base, TypeOK, Callers
<1>1. /\ UNCHANGED <<scan, mutex>> /\ (~RunAppend => UNCHANGED <<threads, fault>>)
      /\ cpc'[Owner] \in {"idle", "run", "ctor", "joining"}
      /\ \A p \in Pushers : cpc'[p] = cpc[p]
  BY <1>0 DEF TypeOK, RunBegin, RunSpawn, RunAppend, JoinBegin, JoinEnd
<1>2. Len(threads) <= Len(threads') /\ Len(threads') \in Nat
      /\ \A k \in 1 .. Len(threads) : threads'[k] = threads[k]
  <2>1. CASE RunAppend
    <3>1. threads' = Append(threads, born) /\ threads \in Seq(Workers \cup {None})
      BY <1>0, <2>1 DEF TypeOK, RunAppend
    <3>2. born \in Workers \cup {None}
      BY <1>0 DEF TypeOK
    <3> QED BY <3>1, <3>2, AppendProperties
  <2>2. CASE ~RunAppend
    BY <1>0, <1>1, <2>2
  <2> QED BY <2>1, <2>2
<1>3. Indexed'
  <2> SUFFICES ASSUME NEW p \in Pushers
               PROVE  /\ cpc[p] = "scan" => scan[p].i > 0
                      /\ cpc[p] \in {"scan", "lock", "wait", "enqueue", "notify"} =>
                           scan[p].least \in 1 .. Len(threads')
                      /\ cpc[p] = "wait" => scan[p].at = threads'[scan[p].least]
                      /\ cpc[p] = "enqueue" =>
                           mutex[threads'[scan[p].least]] = p
    BY <1>1 DEF Indexed
  <2>1. scan[p].least \in Nat
    BY <1>0 DEF TypeOK
  <2>2. /\ cpc[p] = "scan" => scan[p].i > 0
        /\ cpc[p] \in {"scan", "lock", "wait", "enqueue", "notify"} =>
             scan[p].least \in 1 .. Len(threads)
        /\ cpc[p] = "wait" => scan[p].at = threads[scan[p].least]
        /\ cpc[p] = "enqueue" => mutex[threads[scan[p].least]] = p
    BY DEF Growing, Indexed
  <2> QED BY <1>0, <1>2, <2>1, <2>2
<1>4. Outrunning'
  BY <1>0 DEF TypeOK, Growing, Outrunning, RunBegin, RunSpawn, RunAppend,
     JoinBegin, JoinEnd
<1> QED BY <1>1, <1>3, <1>4 DEF Growing
-----------------------------------------------------------------------------
(* What the destruction of a worker rests on: one that stop() took out of  *)
(* the pool has ended, is not in the vector any more, and its mutex is out *)
(* of everybody's reach but the owner's; and what push() rests on: between *)
(* two calls of the owner, a deque that holds a task is that of a worker   *)
(* of the pool, which still works and still runs.                          *)
(*                                                                         *)
(* Both hold for Disciplined callers, and follow from Owned: where each    *)
(* worker is, who may hold its mutex, and who serves its deque.            *)

\* Worker w is in the vector of the pool.
InPool(w) == \E k \in 1 .. Len(threads) : threads[k] = w

\* No worker is in the vector twice, nor there and in `stopped'; one that has
\* not been created, or is being built, is not in the vector and works.
Placement ==
  /\ \A j, k \in 1 .. Len(threads) :
       threads[j] = threads[k] /\ threads[j] # None => j = k
  /\ \A w \in Range(stopping) : ~InPool(w)
  /\ \A w \in Workers : wpc[w] = "none" \/ (cpc[Owner] = "ctor" /\ w = born) =>
       ~InPool(w) /\ status[w] = "Working" /\ wpc[w] \in {"none", "started"}
  /\ cpc[Owner] = "ctor" => wpc[born] = "started"

\* A mutex is held by the worker's own thread in its critical section, by the
\* push() that is about to append to this very queue, or by the owner.
Holders ==
  \A w \in Workers :
    /\ mutex[w] \in Workers => mutex[w] = w /\ wpc[w] \in {"locked", "taking"}
    /\ \A p \in Pushers : mutex[w] = p =>
         cpc[p] = "enqueue" /\ w = threads[scan[p].least]

\* A queue with tasks belongs to the pool or to stop(); a thread ends only when
\* its worker is stopped; a worker of the pool that is stopped is being joined.
Service ==
  \A w \in Workers :
    /\ queue[w] # <<>> => InPool(w) \/ w \in Range(stopping)
    /\ wpc[w] = "exited" => status[w] = "Stopped"
    /\ InPool(w) /\ status[w] = "Stopped" =>
         cpc[Owner] = "join" /\ w = threads[Len(stopping) + 1]

\* The inductive invariant.
Owned == Placement /\ Holders /\ Service

\* Steps that leave the vectors, and what was created, alone.
LEMMA PlacementKept ==
  ASSUME Base, Placement, UNCHANGED <<threads, stopping, status, born>>,
         \A w \in Workers :
           /\ wpc[w] \in {"none", "started"} => wpc'[w] = wpc[w]
           /\ wpc'[w] = "none" => wpc[w] = "none",
         cpc'[Owner] = "ctor" => cpc[Owner] = "ctor"
  PROVE  Placement'
  BY DEF Base, LocalsSet, Placement, InPool

\* Steps that fill no deque of a stranger and end no thread that works.
LEMMA ServiceKept ==
  ASSUME Service, UNCHANGED <<threads, stopping, status>>,
         \A w \in Workers :
           /\ queue'[w] # <<>> => queue[w] # <<>> \/ InPool(w)
           /\ wpc'[w] = "exited" => wpc[w] = "exited" \/ status[w] = "Stopped",
         cpc[Owner] = "join" => cpc'[Owner] = "join"
  PROVE  Service'
  BY DEF Service, InPool

\* Steps that move no push(), and give no mutex to anyone but a worker's own
\* thread or the owner.
LEMMA HoldersKept ==
  ASSUME Holders, UNCHANGED threads,
         \A p \in Pushers : cpc'[p] = cpc[p] /\ scan'[p].least = scan[p].least,
         \A w \in Workers :
           \/ mutex'[w] \in {None, Owner}
           \/ mutex'[w] = w /\ wpc'[w] \in {"locked", "taking"}
           \/ mutex'[w] = mutex[w] /\ wpc'[w] = wpc[w]
  PROVE  Holders'
<1>1. None \notin Workers \cup Pushers /\ Owner \notin Workers \cup Pushers
      /\ Pushers \cap Workers = {}
  BY PoolAssumption DEF Callers
<1> QED BY <1>1 DEF Holders

\* A push() (thread_pool.cpp:15-42) locks and fills the deque of a worker it
\* found in the vector, which it has kept from changing.
LEMMA PushOwned ==
  ASSUME Disciplined, Base, Coherent, Owned, NEW c \in Callers, PushStep(c)
  PROVE  Owned'
<1>0. /\ TypeOK /\ (c = Owner \/ c \in Pushers)
      /\ Placement /\ Holders /\ Service
  BY DEF Base, Owned, Callers
<1>1. /\ UNCHANGED <<threads, stopping, status, born>>
      /\ cpc[c] \in PushPcs \cup {"inline"}
  BY DEF PushStep, PushInline, InlineFinish, PushSelect, PushScan, PushScanEnd,
     PushReach, PushLock, PushEnqueue, PushNotify, PushFault, PushPcs, ownerVars
<1>7. \A w \in Workers : wpc'[w] = wpc[w] \/ (wpc[w] = "asleep" /\ wpc'[w] = "enter")
  BY <1>0 DEF TypeOK, PushStep, PushInline, InlineFinish, PushSelect, PushScan,
     PushScanEnd, PushReach, PushLock, PushEnqueue, PushNotify, PushFault,
     workerVars
<1>8. /\ \A d \in Callers \ {c} : cpc'[d] = cpc[d] /\ scan'[d] = scan[d]
      /\ cpc'[c] \in PushPcs \cup {"drained", "inline", "idle"}
  <2>1. CASE PushScan(c)
    BY <1>0, <2>1 DEF TypeOK, PushScan, PushPcs
  <2>2. CASE ~PushScan(c)
    BY <1>0, <2>2 DEF TypeOK, PushStep, PushInline, InlineFinish, PushSelect,
       PushScanEnd, PushReach, PushLock, PushEnqueue, PushNotify, PushFault,
       PushPcs, ReturnPc, callerVars
  <2> QED BY <2>1, <2>2
<1>2. Owner \in Callers /\ PushPcs \cap {"ctor", "join"} = {}
  BY DEF Callers, PushPcs
<1>3. Placement'
  BY <1>0, <1>1, <1>2, <1>7, <1>8, PlacementKept
<1>4. ASSUME NEW w \in Workers, queue'[w] # <<>> PROVE queue[w] # <<>> \/ InPool(w)
  <2>1. CASE PushEnqueue(c)
    <3>1. scan[c].least \in 1 .. Len(threads)
      BY <2>1 DEF PushEnqueue, ValidIndex
    <3>2. w = threads[scan[c].least] \/ queue'[w] = queue[w]
      BY <1>0, <2>1 DEF TypeOK, PushEnqueue
    <3> QED BY <1>4, <3>1, <3>2 DEF InPool
  <2>2. CASE ~PushEnqueue(c)
    BY <1>4, <2>2 DEF PushStep, PushInline, InlineFinish, PushSelect, PushScan,
       PushScanEnd, PushReach, PushLock, PushNotify, PushFault
  <2> QED BY <2>1, <2>2
<1>5. Service'
  BY <1>0, <1>1, <1>2, <1>4, <1>7, <1>8, ServiceKept
<1>6. Holders'
  <2>1. CASE PushLock(c)
    <3>1. PICK w \in Workers : /\ w = threads[scan[c].least]
                               /\ mutex' = [mutex EXCEPT ![w] = c]
      <4>1. scan[c].at \in Workers /\ scan[c].at = threads[scan[c].least]
        BY <2>1 DEF Base, LocalsSet, Coherent, PushLock
      <4> QED BY <4>1, <2>1 DEF PushLock
    <3>2. UNCHANGED <<threads, scan, wpc>> /\ cpc' = [cpc EXCEPT ![c] = "enqueue"]
          /\ cpc[c] = "wait"
      BY <2>1 DEF PushLock, workerVars
    <3>3. ASSUME NEW u \in Workers PROVE
            /\ mutex'[u] \in Workers =>
                 mutex'[u] = u /\ wpc'[u] \in {"locked", "taking"}
            /\ \A p \in Pushers : mutex'[u] = p =>
                 cpc'[p] = "enqueue" /\ u = threads'[scan'[p].least]
      <4>1. /\ cpc \in [Callers -> CallerPcs]
            /\ mutex \in [Workers -> Workers \cup Callers \cup {None}]
        BY <1>0 DEF TypeOK
      <4>2. CASE u = w
        BY <1>0, <3>1, <3>2, <4>1, <4>2, PoolAssumption DEF Callers
      <4>3. CASE u # w
        BY <1>0, <3>1, <3>2, <4>1, <4>3, PoolAssumption DEF Holders, Callers
      <4> QED BY <4>2, <4>3
    <3> QED BY <3>3 DEF Holders
  <2>2. CASE PushEnqueue(c)
    <3>1. PICK w \in Workers : /\ w = threads[scan[c].least]
                               /\ mutex' = [mutex EXCEPT ![w] = None]
      <4>1. threads[scan[c].least] \in Workers
        BY <1>0, <2>2 DEF TypeOK, PushEnqueue, ValidIndex
      <4> QED BY <4>1, <2>2 DEF PushEnqueue
    <3>2. UNCHANGED <<threads, scan, wpc>> /\ cpc' = [cpc EXCEPT ![c] = "notify"]
      BY <2>2 DEF PushEnqueue, workerVars
    <3>3. ASSUME NEW u \in Workers PROVE
            /\ mutex'[u] \in Workers =>
                 mutex'[u] = u /\ wpc'[u] \in {"locked", "taking"}
            /\ \A p \in Pushers : mutex'[u] = p =>
                 cpc'[p] = "enqueue" /\ u = threads'[scan'[p].least]
      <4>1. /\ cpc \in [Callers -> CallerPcs]
            /\ mutex \in [Workers -> Workers \cup Callers \cup {None}]
        BY <1>0 DEF TypeOK
      <4>2. CASE u = w
        BY <1>0, <3>1, <3>2, <4>1, <4>2, PoolAssumption DEF Callers
      <4>3. CASE u # w
        BY <1>0, <3>1, <3>2, <4>1, <4>3, PoolAssumption DEF Holders, Callers
      <4> QED BY <4>2, <4>3
    <3> QED BY <3>3 DEF Holders
  <2>3. CASE ~PushLock(c) /\ ~PushEnqueue(c)
    <3>1. UNCHANGED mutex /\ (cpc[c] # "enqueue" \/ UNCHANGED <<cpc, scan>>)
      BY <2>3 DEF PushStep, PushInline, InlineFinish, PushSelect, PushScan,
         PushScanEnd, PushReach, PushNotify, PushFault, callerVars
    <3> QED BY <1>0, <1>1, <1>7, <1>8, <3>1, PoolAssumption DEF Holders, Callers
  <2> QED BY <2>1, <2>2, <2>3
<1> QED BY <1>3, <1>5, <1>6 DEF Owned

\* A worker (thread_pool.cpp:109-125) locks its own mutex and ends only when it
\* is stopped.
LEMMA WorkerOwned ==
  ASSUME Disciplined, Base, Owned, NEW v \in Workers,
         WorkerStep(v) \/ WorkerOutrunsConstructor(v)
  PROVE  Owned'
<1>0. TypeOK /\ WorkerLocks /\ Placement /\ Holders /\ Service
  BY DEF Base, Owned
<1>1. WorkerStep(v)
  BY DEF Disciplined, WorkerOutrunsConstructor
<1>2. /\ UNCHANGED <<threads, stopping, status, born, cpc, scan>>
      /\ \A w \in Workers \ {v} : wpc'[w] = wpc[w] /\ mutex'[w] = mutex[w]
      /\ wpc[v] \notin {"none", "started"} /\ wpc'[v] # "none"
      /\ wpc'[v] = "exited" => status[v] = "Stopped"
      /\ \/ mutex'[v] = None
         \/ mutex'[v] = v /\ wpc'[v] \in {"locked", "taking"}
         \/ mutex'[v] = mutex[v] /\ wpc[v] = "running"
      /\ \A w \in Workers : queue'[w] # <<>> => queue[w] # <<>>
  BY <1>0, <1>1 DEF TypeOK, WorkerLocks, WorkerStep, WorkerEnter, WorkerTimeout,
     WorkerTest, WorkerTake, WorkerFinish, callerVars, ownerVars
<1>3. Placement'
  BY <1>0, <1>2, PlacementKept
<1>4. Service'
  BY <1>0, <1>2, ServiceKept
<1>5. Holders'
  BY <1>0, <1>2, PoolAssumption DEF Holders, Callers
<1> QED BY <1>3, <1>4, <1>5 DEF Owned

\* While the owner is in run() or stop() no push() of another thread is, so that
\* only the workers' own threads and the owner hold mutexes.
LEMMA QuietHolders ==
  ASSUME Base, Coherent, Holders, cpc[Owner] \notin {"idle", "joining"},
         \A w \in Workers : \/ mutex'[w] \in {None, Owner}
                            \/ mutex'[w] = mutex[w] /\ wpc'[w] = wpc[w]
                            \/ mutex'[w] = mutex[w] /\ wpc[w] \in {"none", "started"}
  PROVE  Holders'
<1>1. \A w \in Workers : mutex[w] \notin Pushers
  BY DEF Coherent, Holders
<1>2. None \notin Workers \cup Pushers /\ Owner \notin Workers \cup Pushers
  BY PoolAssumption DEF Callers
<1> QED BY <1>1, <1>2 DEF Holders

\* push_back (thread_pool.cpp:46) brings a worker that was nowhere and works.
LEMMA AppendOwned ==
  ASSUME Disciplined, Base, Coherent, Owned, RunAppend
  PROVE  Owned'
<1>0. TypeOK /\ Placement /\ Holders /\ Service
  BY DEF Base, Owned
<1>1. /\ cpc[Owner] = "ctor" /\ born \in Workers /\ stopping = <<>> /\ stopping' = <<>>
      /\ threads' = Append(threads, born) /\ UNCHANGED <<queue, mutex, status>>
      /\ cpc'[Owner] # "ctor"
      /\ wpc'[born] # "none" /\ (wpc'[born] = "exited" => wpc[born] = "exited")
      /\ \A w \in Workers \ {born} : wpc'[w] = wpc[w]
  <2>1. /\ cpc[Owner] = "ctor" /\ born \in Workers
        /\ stopping = <<>> /\ stopping' = <<>>
        /\ threads' = Append(threads, born) /\ UNCHANGED <<queue, mutex, status>>
    BY DEF Base, LocalsSet, Stopping, RunAppend
  <2>2. cpc'[Owner] # "ctor"
    BY <1>0 DEF TypeOK, RunAppend, Callers
  <2>3. wpc' = [wpc EXCEPT ![born] = IF @ = "started" THEN "enter" ELSE @]
    BY DEF RunAppend
  <2>4. wpc[born] # "none"
    BY <1>0, <2>1 DEF Placement
  <2> QED BY <1>0, <2>1, <2>2, <2>3, <2>4 DEF TypeOK
<1>2. ~InPool(born) /\ status[born] = "Working" /\ wpc[born] \in {"none", "started"}
  BY <1>0, <1>1 DEF Placement
<1>3. /\ Len(threads') = Len(threads) + 1 /\ threads'[Len(threads')] = born
      /\ Len(threads) \in Nat
      /\ \A k \in 1 .. Len(threads) : threads'[k] = threads[k]
  BY <1>0, <1>1 DEF TypeOK
<1>4. \A w : InPool(w)' <=> InPool(w) \/ w = born
  BY <1>3 DEF InPool
<1>5. Placement'
  <2>1. ASSUME NEW j \in 1 .. Len(threads'), NEW k \in 1 .. Len(threads'),
               threads'[j] = threads'[k], threads'[j] # None
        PROVE  j = k
    <3>1. CASE j \in 1 .. Len(threads) /\ k \in 1 .. Len(threads)
      BY <1>0, <1>3, <2>1, <3>1 DEF Placement
    <3>2. CASE j \notin 1 .. Len(threads) \/ k \notin 1 .. Len(threads)
      BY <1>2, <1>3, <2>1, <3>2 DEF InPool
    <3> QED BY <3>1, <3>2
  <2>2. Range(stopping') = {}
    BY <1>1, RangeOfEmpty
  <2>3. \A w \in Workers : wpc'[w] = "none" =>
          ~InPool(w)' /\ status'[w] = "Working"
    BY <1>0, <1>1, <1>4 DEF Placement
  <2> QED BY <1>1, <2>1, <2>2, <2>3 DEF Placement
<1>6. Holders'
  BY <1>0, <1>1, <1>2, QuietHolders
<1>7. Service'
  <2>1. ASSUME NEW w \in Workers, InPool(w)' PROVE status'[w] # "Stopped"
    BY <1>0, <1>1, <1>2, <1>4, <2>1 DEF Service
  <2> QED BY <1>0, <1>1, <1>4, <2>1 DEF Service
<1> QED BY <1>5, <1>6, <1>7 DEF Owned

\* stop() stops the worker it is about to join (thread_pool.cpp:58, 105).
LEMMA FlagOwned ==
  ASSUME Disciplined, Base, Coherent, Owned, StopFlag
  PROVE  Owned'
<1>0. TypeOK /\ Placement /\ Holders /\ Service
  BY DEF Base, Owned
<1> DEFINE k == Len(stopping) + 1
<1>1. /\ cpc[Owner] = "flag" /\ cpc'[Owner] = "join" /\ k \in 1 .. Len(threads)
      /\ threads[k] \in Workers /\ status' = [status EXCEPT ![threads[k]] = "Stopped"]
      /\ UNCHANGED <<threads, queue, mutex, stopping, wpc, born>>
  <2>1. /\ cpc[Owner] = "flag" /\ status' = [status EXCEPT ![threads[k]] = "Stopped"]
        /\ UNCHANGED <<threads, queue, mutex, stopping, wpc, born>> /\ k <= todo
    BY DEF StopFlag, workerVars, ownerVars
  <2>2. k \in 1 .. Len(threads)
    BY <1>0, <2>1 DEF Base, TypeOK, Stopping
  <2>3. threads[k] \in Workers
    BY <1>0, <2>1, <2>2 DEF Base, TypeOK, Stopping
  <2>4. cpc'[Owner] = "join"
    BY <1>0 DEF TypeOK, StopFlag, Callers
  <2> QED BY <2>1, <2>2, <2>3, <2>4
<1>2. \A w \in Workers : status'[w] = status[w] \/ (w = threads[k] /\ InPool(w))
  BY <1>0, <1>1 DEF TypeOK, InPool
<1>3. \A w : InPool(w)' <=> InPool(w)
  BY <1>1 DEF InPool
<1>4. Placement'
  BY <1>0, <1>1, <1>2, <1>3 DEF Placement
<1>5. Holders'
  BY <1>0, <1>1, QuietHolders
<1>6. Service'
  <2>1. \A w \in Workers : wpc'[w] = "exited" => status'[w] = "Stopped"
    BY <1>0, <1>1 DEF TypeOK, Service
  <2> HIDE DEF k
  <2>2. \A w \in Workers : InPool(w)' /\ status'[w] = "Stopped" => w = threads[k]
    BY <1>0, <1>1, <1>2, <1>3 DEF Service
  <2> QED BY <1>0, <1>1, <1>3, <2>1, <2>2 DEF Service, k
<1> QED BY <1>4, <1>5, <1>6 DEF Owned

\* What a sequence holds with one more element.
LEMMA RangeOfAppend ==
  ASSUME NEW S, NEW s \in Seq(S), NEW x \in S
  PROVE  Range(Append(s, x)) = Range(s) \cup {x}
<1>1. /\ DOMAIN s = 1 .. Len(s) /\ Len(s) \in Nat
      /\ DOMAIN Append(s, x) = 1 .. (Len(s) + 1)
      /\ \A k \in 1 .. Len(s) : Append(s, x)[k] = s[k]
      /\ Append(s, x)[Len(s) + 1] = x
  OBVIOUS
<1>2. 1 .. (Len(s) + 1) = (1 .. Len(s)) \cup {Len(s) + 1}
  BY <1>1
<1> QED BY <1>1, <1>2 DEF Range

\* The join moves a worker that has ended from the vector to `stopping`
\* (thread_pool.cpp:59, 106).
LEMMA JoinOwned ==
  ASSUME Disciplined, Base, Coherent, Owned, StopJoin
  PROVE  Owned'
<1>0. TypeOK /\ Placement /\ Holders /\ Service
  BY DEF Base, Owned
<1>1. PICK k \in 1 .. Len(threads), v \in Workers :
        /\ cpc[Owner] = "join" /\ cpc'[Owner] = "flag" /\ k = Len(stopping) + 1
        /\ v = threads[k] /\ threads' = [threads EXCEPT ![k] = None]
        /\ stopping' = Append(stopping, v) /\ wpc[v] = "exited"
        /\ UNCHANGED <<queue, mutex, status, wpc, born>>
  <2> DEFINE k == Len(stopping) + 1
  <2>1. cpc[Owner] = "join" /\ k \in 1 .. Len(threads) /\ threads[k] \in Workers
    BY <1>0 DEF Base, TypeOK, Stopping, StopJoin
  <2>2. /\ wpc[threads[k]] = "exited" /\ threads' = [threads EXCEPT ![k] = None]
        /\ stopping' = Append(stopping, threads[k])
        /\ UNCHANGED <<queue, mutex, status, wpc, born>>
    BY DEF StopJoin, workerVars
  <2>3. cpc'[Owner] = "flag"
    BY <1>0 DEF TypeOK, StopJoin, Callers
  <2> QED BY <2>1, <2>2, <2>3
<1>2. /\ Len(threads') = Len(threads) /\ threads'[k] = None
      /\ \A j \in 1 .. Len(threads) : j # k => threads'[j] = threads[j]
  BY <1>0, <1>1 DEF TypeOK
<1>3. Range(stopping') = Range(stopping) \cup {v}
  BY <1>0, <1>1, RangeOfAppend DEF TypeOK
<1>4. None \notin Workers
  BY PoolAssumption
<1>5. \A w \in Workers : InPool(w)' <=> InPool(w) /\ w # v
  BY <1>0, <1>1, <1>2, <1>4 DEF InPool, Placement
<1>6. Range(stopping) \subseteq Workers
  BY <1>0, RangeOfSeq DEF TypeOK
<1>7. Placement'
  <2>1. \A i, j \in 1 .. Len(threads') :
          threads'[i] = threads'[j] /\ threads'[i] # None => i = j
    BY <1>0, <1>2 DEF Placement
  <2> QED BY <1>0, <1>1, <1>3, <1>5, <1>6, <2>1 DEF Placement
<1>8. Holders'
  BY <1>0, <1>1, QuietHolders
<1>9. Service'
  <2>1. ASSUME NEW w \in Workers, InPool(w)' PROVE status'[w] # "Stopped"
    BY <1>0, <1>1, <1>5, <2>1 DEF Service
  <2> QED BY <1>0, <1>1, <1>3, <1>5, <2>1 DEF Service
<1> QED BY <1>7, <1>8, <1>9 DEF Owned

\* The erase (thread_pool.cpp:62) cuts off the front that has been emptied; the
\* deques of the workers it drops go with them.
LEMMA EraseOwned ==
  ASSUME Disciplined, Base, Coherent, Owned, StopErase
  PROVE  Owned'
<1>0. TypeOK /\ Placement /\ Holders /\ Service
  BY DEF Base, Owned
<1> DEFINE rest == SubSeq(threads, todo + 1, Len(threads))
<1>1. /\ todo \in Nat /\ todo <= Len(threads) /\ Len(threads) \in Nat
      /\ cpc[Owner] = "flag" /\ Len(stopping) = todo
      /\ \A k \in 1 .. Len(threads) : threads[k] = None <=> k <= todo
  BY DEF Base, TypeOK, Stopping, StopErase
<1>2. /\ threads' = rest /\ Len(rest) = Len(threads) - todo
      /\ \A k \in 1 .. Len(rest) : rest[k] = threads[k + todo]
  BY <1>0, <1>1, SubSeqProperties DEF TypeOK, StopErase
<1>3. UNCHANGED <<mutex, status, wpc, born>> /\ cpc'[Owner] \in {"idle", "drain"}
  BY <1>0 DEF TypeOK, StopErase, workerVars, Callers
<1> HIDE DEF rest
<1>4. \A w \in Workers : InPool(w)' <=> InPool(w)
  <2>1. ASSUME NEW w \in Workers, NEW k \in 1 .. Len(threads), threads[k] = w
        PROVE  k - todo \in 1 .. Len(rest) /\ rest[k - todo] = w
    <3>1. k > todo
      BY <1>1, <2>1, PoolAssumption
    <3>2. k - todo \in 1 .. Len(rest) /\ (k - todo) + todo = k
      BY <1>1, <1>2, <3>1
    <3> QED BY <1>2, <2>1, <3>2
  <2>2. \A k \in 1 .. Len(rest) : k + todo \in 1 .. Len(threads)
    BY <1>1, <1>2
  <2> QED BY <1>2, <2>1, <2>2 DEF InPool
<1>5. \/ stopping' = stopping /\ queue' = queue
      \/ /\ stopping' = <<>>
         /\ queue' = [w \in Workers |->
                        IF w \in Range(stopping) THEN <<>> ELSE queue[w]]
  BY DEF StopErase
<1>6. /\ Range(stopping') \subseteq Range(stopping)
      /\ \A w \in Workers : queue'[w] # <<>> =>
            InPool(w) \/ w \in Range(stopping')
  BY <1>0, <1>5, RangeOfEmpty DEF Service
<1>7. Placement'
  <2>1. \A i, j \in 1 .. Len(threads') :
          threads'[i] = threads'[j] /\ threads'[i] # None => i = j
    <3>1. \A i \in 1 .. Len(rest) : i + todo \in 1 .. Len(threads)
      BY <1>1, <1>2
    <3>2. ASSUME NEW i \in 1 .. Len(rest), NEW j \in 1 .. Len(rest),
                 rest[i] = rest[j], rest[i] # None
          PROVE  i = j
      <4>1. i + todo = j + todo
        BY <1>0, <1>2, <3>1, <3>2 DEF Placement
      <4> QED BY <1>1, <4>1
    <3> QED BY <1>2, <3>2
  <2>2. Range(stopping) \subseteq Workers
    BY <1>0, RangeOfSeq DEF TypeOK
  <2> QED BY <1>0, <1>3, <1>4, <1>6, <2>1, <2>2 DEF Placement
<1>8. Holders'
  BY <1>0, <1>1, <1>3, QuietHolders
<1>9. Service'
  BY <1>0, <1>1, <1>3, <1>4, <1>6 DEF Service
<1> QED BY <1>7, <1>8, <1>9 DEF Owned

\* run(), stop(), join() and the calls that begin keep the ownership.
LEMMA OwnerOwned ==
  ASSUME Disciplined, Base, Coherent, Owned,
         \/ OwnerStep \/ OwnerCall
         \/ \E p \in Pushers, t \in Tasks : PushBegin(p, t)
  PROVE  Owned'
<1>0. TypeOK /\ Placement /\ Holders /\ Service /\ Owner \in Callers
  BY DEF Base, Owned, Callers
<1>1. ASSUME NEW v \in Workers, RunSpawn(v) PROVE Owned'
  <2>1. /\ cpc[Owner] = "run" /\ cpc'[Owner] = "ctor" /\ born' = v
        /\ wpc[v] = "none" /\ wpc'[v] = "started"
        /\ \A w \in Workers \ {v} : wpc'[w] = wpc[w]
        /\ UNCHANGED <<threads, queue, mutex, status, stopping>>
    BY <1>0, <1>1 DEF TypeOK, RunSpawn
  <2>2. Placement'
    BY <1>0, <2>1 DEF Placement, InPool
  <2>3. Service'
    BY <1>0, <2>1, ServiceKept
  <2>4. Holders'
    BY <1>0, <2>1, QuietHolders
  <2> QED BY <2>2, <2>3, <2>4 DEF Owned
<1>2. CASE DrainLock \/ DrainTask
  <2>1. /\ UNCHANGED <<threads, stopping, status, born, wpc>>
        /\ cpc[Owner] \in {"drain", "drained"} /\ cpc'[Owner] \in {"drained", "select"}
        /\ \A w \in Workers : mutex'[w] \in {mutex[w], Owner}
    BY <1>0, <1>2 DEF TypeOK, DrainLock, DrainTask, ownerVars, workerVars
  <2>2. \A w \in Workers : queue'[w] # <<>> => queue[w] # <<>>
    BY <1>0, <1>2 DEF TypeOK, DrainLock, DrainTask
  <2>3. Placement'
    BY <1>0, <2>1, PlacementKept
  <2>4. Service'
    BY <1>0, <2>1, <2>2, ServiceKept
  <2>5. Holders'
    BY <1>0, <2>1, QuietHolders
  <2> QED BY <2>3, <2>4, <2>5 DEF Owned
<1>3. CASE DrainNext
  <2>1. /\ cpc[Owner] = "drained" /\ cpc'[Owner] = "drain" /\ stopping # <<>>
        /\ queue[Head(stopping)] = <<>> /\ stopping' = Tail(stopping)
        /\ UNCHANGED <<threads, queue, status, wpc, born>>
        /\ \A w \in Workers : mutex'[w] \in {mutex[w], None}
    BY <1>0, <1>3 DEF Base, Stopping, TypeOK, DrainNext, workerVars
  <2>2. Range(stopping) = Range(stopping') \cup {Head(stopping)}
    BY <1>0, <2>1, RangeOfTail DEF TypeOK
  <2>3. Placement'
    BY <1>0, <2>1, <2>2 DEF Placement, InPool
  <2>4. Service'
    BY <1>0, <2>1, <2>2 DEF Service, InPool
  <2>5. Holders'
    BY <1>0, <2>1, QuietHolders
  <2> QED BY <2>3, <2>4, <2>5 DEF Owned
<1>4. CASE \/ StopReturn \/ JoinEnd \/ OwnerCall
           \/ \E p \in Pushers, t \in Tasks : PushBegin(p, t)
  <2>1. /\ UNCHANGED <<threads, queue, mutex, stopping, status, born, wpc, scan>>
        /\ cpc[Owner] # "join" \/ UNCHANGED cpc[Owner]
    BY <1>0, <1>4, OwnerCallKinds, PoolAssumption DEF TypeOK, StopReturn,
       JoinEnd, RunBegin, StopBegin, JoinBegin, PushBegin, ownerVars, workerVars
  <2>2. /\ cpc'[Owner] # "ctor" \/ UNCHANGED cpc[Owner]
        /\ \A p \in Pushers : cpc[p] = "enqueue" => cpc'[p] = "enqueue"
    BY <1>0, <1>4, OwnerCallKinds, PoolAssumption DEF TypeOK, StopReturn,
       JoinEnd, RunBegin, StopBegin, JoinBegin, PushBegin, Callers
  <2>3. Placement'
    BY <1>0, <2>1, <2>2, PlacementKept
  <2>4. Service'
    BY <1>0, <2>1, ServiceKept
  <2>5. Holders'
    BY <1>0, <2>1, <2>2 DEF Holders
  <2> QED BY <2>3, <2>4, <2>5 DEF Owned
<1> QED
  BY <1>1, <1>2, <1>3, <1>4, AppendOwned, FlagOwned, JoinOwned, EraseOwned
     DEF OwnerStep

\* An empty pool owns nothing.
LEMMA InitOwned == Init => Owned
  BY RangeOfEmpty, PoolAssumption
     DEF Init, Owned, Placement, Holders, Service, InPool, Callers

\* Every step keeps the ownership.
LEMMA NextOwned ==
  Disciplined /\ Base /\ Coherent /\ Owned /\ [Next]_vars => Owned'
<1> SUFFICES ASSUME Disciplined, Base, Coherent, Owned, [Next]_vars PROVE Owned'
  OBVIOUS
<1>1. CASE Next
  BY <1>1, PushOwned, WorkerOwned, OwnerOwned DEF Next
<1>2. CASE UNCHANGED vars
  BY <1>2 DEF vars, workerVars, callerVars, ownerVars, Owned, Placement,
     Holders, Service, InPool
<1> QED BY <1>1, <1>2

\* The ownership, and the invariants it uses, hold always.
LEMMA AlwaysOwned == Disciplined => (Spec => [](Base /\ Coherent /\ Owned))
<1> SUFFICES ASSUME Disciplined PROVE Spec => [](Base /\ Coherent /\ Owned)
  OBVIOUS
<1>1. Init => Base /\ Coherent /\ Owned
  BY InitBase, InitCoherent, InitOwned
<1>2. Base /\ Coherent /\ Owned /\ [Next]_vars => (Base /\ Coherent /\ Owned)'
  BY NextBase, NextCoherent, NextOwned
<1> QED BY <1>1, <1>2, PTL DEF Spec

\* What it is to be in the vector.
LEMMA InPoolRange ==
  ASSUME TypeOK PROVE \A w : w \in Range(threads) <=> InPool(w)
<1>1. DOMAIN threads = 1 .. Len(threads)
  BY DEF TypeOK
<1> QED BY <1>1 DEF Range, InPool

\* A worker that stop() took out of the pool has ended, is in the vector no
\* more, and nobody but the owner holds its mutex, so that the erase destroys
\* no mutex in use (thread_pool.cpp:49-80), for every number of threads and
\* callers.
THEOREM PrivateAlways == Disciplined => (Spec => []StoppedWorkersArePrivate)
<1>1. Base /\ Coherent /\ Owned => StoppedWorkersArePrivate
  <2> SUFFICES ASSUME Base, Coherent, Owned, NEW w \in Range(stopping)
               PROVE  /\ wpc[w] = "exited" /\ w \notin Range(threads)
                      /\ mutex[w] \in {None, Owner}
    BY DEF StoppedWorkersArePrivate
  <2>1. wpc[w] = "exited" /\ w \notin Range(threads) /\ w \in Workers
    BY InPoolRange, RangeOfSeq DEF Base, TypeOK, Stopping, Owned, Placement
  <2>2. stopping # <<>>
    BY RangeOfEmpty
  <2>3. \A p \in Pushers : cpc[p] = "idle"
    BY <2>2 DEF Base, Stopping, Coherent
  <2>4. mutex[w] \notin Workers
    BY <2>1 DEF Owned, Holders
  <2>5. mutex[w] \notin Pushers
    BY <2>1, <2>3 DEF Owned, Holders
  <2> QED BY <2>1, <2>4, <2>5 DEF Base, TypeOK, Callers
<1> QED BY <1>1, AlwaysOwned, PTL

\* Between two calls of the owner every waiting task is in the deque of a
\* worker that is in the pool, works and has not ended: run() and stop() leave
\* no task where no thread will look (thread_pool.cpp:49-80), for every number
\* of threads, callers and tasks.
THEOREM NoneLeftBehind == Disciplined => (Spec => []NoTaskLeftBehind)
<1>1. Base /\ Coherent /\ Owned => NoTaskLeftBehind
  <2> SUFFICES ASSUME Base, Coherent, Owned, cpc[Owner] \in {"idle", "joining"},
                      NEW w \in Workers, queue[w] # <<>>
               PROVE  /\ w \in Range(threads) /\ status[w] = "Working"
                      /\ wpc[w] # "exited"
    BY DEF NoTaskLeftBehind
  <2>1. Range(stopping) = {}
    BY RangeOfEmpty DEF Base, Stopping
  <2>2. InPool(w) /\ status[w] # "Stopped" /\ wpc[w] # "exited"
    BY <2>1 DEF Owned, Service
  <2> QED BY <2>2, InPoolRange DEF Base, TypeOK, Statuses
<1> QED BY <1>1, AlwaysOwned, PTL

=============================================================================
