----------------------------- MODULE ThreadPool -----------------------------
(***************************************************************************)
(* routine::ThreadPool (include/thread_pool.hpp, source/thread_pool.cpp):  *)
(* a vector of worker threads, each with its own task queue, mutex and     *)
(* condition variable.                                                     *)
(*                                                                         *)
(*   - push() scans the queues WITHOUT any lock for the shortest one, then *)
(*     locks only the chosen worker to append, and indexes the vector anew *)
(*     for the lock, for the append and for the notification;              *)
(*   - a worker sleeps at most 100 ms on its condition variable;           *)
(*   - run(n) and stop(n) change the vector itself, which has no lock.     *)
(*                                                                         *)
(* Each action is the code between two points at which another thread can  *)
(* see or change what the code depends on.  `fault' records that a step    *)
(* has undefined behaviour (an index out of the vector, a moved-from or    *)
(* reallocated element, a queue changed without its mutex): nothing is     *)
(* said of what the program does from there on.                            *)
(***************************************************************************)
EXTENDS Naturals, Sequences, FiniteSets, Functions

CONSTANTS
  Workers,      \* identities of CpuThreadWorker objects, never reused
  Pushers,      \* the threads that call push()
  Owner,        \* the thread that calls run(), stop() and join()
  Tasks,        \* the lambdas handed to push(), each pushed once
  Endless,      \* the tasks whose body never returns
  None,         \* no worker, no task, no holder; a moved-from unique_ptr
  TornMax,      \* bound on the size a torn read of a queue can report
  Serial,       \* run/stop and push() never overlap (the caller sees to it)
  EarlyStart    \* a new thread may outrun the construction of its worker

Callers == Pushers \cup {Owner}

ASSUME PoolAssumption ==
  /\ Endless \subseteq Tasks
  /\ Owner \notin Pushers
  /\ Callers \cap Workers = {}
  /\ None \notin Workers \cup Callers \cup Tasks
  /\ TornMax \in Nat
  /\ Serial \in BOOLEAN
  /\ EarlyStart \in BOOLEAN

VARIABLES
  threads,      \* threads_: sequence of workers, None where moved from
  queue,        \* queue_ of each worker
  mutex,        \* holder of the mutex_ of each worker
  status,       \* status_ of each worker
  wpc,          \* where each worker's thread is in process_worker
  running,      \* the task each worker executes
  cpc,          \* where each caller is in push(), run(), stop() or join()
  arg,          \* the lambda parameter of each caller's push()
  scan,         \* loop index i and least_loaded_worker of each push(), and
                \* the worker at whose mutex it waits
  born,         \* the worker run() is constructing
  stopping,     \* the local vector `stopped' of stop()
  todo,         \* the counter n of run() and of stop()
  fresh,        \* tasks not pushed yet
  done,         \* tasks executed to their end
  lost,         \* tasks destroyed unexecuted by stop()
  fault         \* undefined behaviour has been reached

workerVars == <<wpc, running>>
callerVars == <<cpc, arg, scan>>
ownerVars  == <<born, stopping, todo>>
taskVars   == <<fresh, done, lost>>
vars == <<threads, queue, mutex, status, workerVars, callerVars, ownerVars,
          taskVars, fault>>

Statuses == {"Working", "Stopped"}
WorkerPcs == {"none", "started", "enter", "asleep", "locked", "taking",
              "running", "exited"}
PushPcs  == {"select", "scan", "lock", "wait", "enqueue", "notify"}
StopPcs  == {"flag", "join", "drain", "drained"}
CallerPcs == PushPcs \cup StopPcs
               \cup {"idle", "inline", "run", "ctor", "joining"}

Scans == [i : Nat, least : Nat, size : Nat, at : Workers \cup {None}]
NoScan == [i |-> 1, least |-> 1, size |-> 0, at |-> None]

TypeOK ==
  /\ threads  \in Seq(Workers \cup {None})
  /\ queue    \in [Workers -> Seq(Tasks)]
  /\ mutex    \in [Workers -> Workers \cup Callers \cup {None}]
  /\ status   \in [Workers -> Statuses]
  /\ wpc      \in [Workers -> WorkerPcs]
  /\ running  \in [Workers -> Tasks \cup {None}]
  /\ cpc      \in [Callers -> CallerPcs]
  /\ arg      \in [Callers -> Tasks \cup {None}]
  /\ scan     \in [Callers -> Scans]
  /\ born     \in Workers \cup {None}
  /\ stopping \in Seq(Workers)
  /\ todo     \in Nat
  /\ fresh    \in SUBSET Tasks
  /\ done     \in SUBSET Tasks
  /\ lost     \in SUBSET Tasks
  /\ fault    \in BOOLEAN

-----------------------------------------------------------------------------
(* Helpers.                                                                *)

\* threads_[k] can be dereferenced.
ValidIndex(k) == k \in 1 .. Len(threads) /\ threads[k] # None

\* Somebody is about to change the deque of w under its mutex.
Mutating(w) == mutex[w] # None /\ (mutex[w] = w => wpc[w] = "taking")

\* What an unlocked read of queue_.size() can return: the size, or anything
\* when the read races with a push_back or a pop_front.
ObservedSizes(w) ==
  IF Mutating(w) THEN 0 .. TornMax ELSE {Len(queue[w])}

\* Some push() is between its first and its last access to threads_.
PushInFlight == \E p \in Pushers : cpc[p] \in PushPcs

\* A push_back or an erase on threads_ that a push() races with.
VectorRace == fault' \in (IF PushInFlight THEN BOOLEAN ELSE {FALSE})

Quiet == \A p \in Pushers : cpc[p] = "idle"

\* Where push() returns to: to the drain loop of stop(), or to its caller.
ReturnPc(c) == IF c = Owner THEN "drained" ELSE "idle"

Init ==
  /\ threads  = <<>>
  /\ queue    = [w \in Workers |-> <<>>]
  /\ mutex    = [w \in Workers |-> None]
  /\ status   = [w \in Workers |-> "Working"]
  /\ wpc      = [w \in Workers |-> "none"]
  /\ running  = [w \in Workers |-> None]
  /\ cpc      = [c \in Callers |-> "idle"]
  /\ arg      = [c \in Callers |-> None]
  /\ scan     = [c \in Callers |-> NoScan]
  /\ born     = None
  /\ stopping = <<>>
  /\ todo     = 0
  /\ fresh    = Tasks
  /\ done     = {}
  /\ lost     = {}
  /\ fault    = FALSE

-----------------------------------------------------------------------------
(* ThreadPool::push(lambda), called by c.                                  *)

PushBegin(p, t) ==
  /\ cpc[p] = "idle" /\ t \in fresh
  /\ Serial => cpc[Owner] \in {"idle", "joining"}
  /\ fresh' = fresh \ {t}
  /\ arg' = [arg EXCEPT ![p] = t]
  /\ cpc' = [cpc EXCEPT ![p] = "select"]
  /\ UNCHANGED <<threads, queue, mutex, status, workerVars, scan, ownerVars,
                 done, lost, fault>>

\* Mutant: with no worker the error is logged and the lambda dropped.
InlineDropped(c) ==
  /\ cpc[c] = "select" /\ threads = <<>>
  /\ arg' = [arg EXCEPT ![c] = None]
  /\ cpc' = [cpc EXCEPT ![c] = ReturnPc(c)]
  /\ UNCHANGED <<threads, queue, mutex, status, workerVars, scan, ownerVars,
                 taskVars, fault>>

\* No worker: the lambda is executed by the calling thread itself.
PushInline(c) ==
  /\ cpc[c] = "select" /\ threads = <<>>
  /\ cpc' = [cpc EXCEPT ![c] = "inline"]
  /\ UNCHANGED <<threads, queue, mutex, status, workerVars, arg, scan,
                 ownerVars, taskVars, fault>>

InlineFinish(c) ==
  /\ cpc[c] = "inline" /\ arg[c] \notin Endless
  /\ done' = done \cup {arg[c]}
  /\ arg' = [arg EXCEPT ![c] = None]
  /\ cpc' = [cpc EXCEPT ![c] = ReturnPc(c)]
  /\ UNCHANGED <<threads, queue, mutex, status, workerVars, scan, ownerVars,
                 fresh, lost, fault>>

\* least_loaded_worker = {0, threads_[0]->queue_.size()}
PushSelect(c) ==
  /\ cpc[c] = "select" /\ ValidIndex(1)
  /\ \E s \in ObservedSizes(threads[1]) :
       scan' = [scan EXCEPT ![c] = [NoScan EXCEPT !.size = s]]
  /\ cpc' = [cpc EXCEPT ![c] = "scan"]
  /\ UNCHANGED <<threads, queue, mutex, status, workerVars, arg, ownerVars,
                 taskVars, fault>>

\* One iteration of the search: three unlocked reads of one queue (empty(),
\* size() compared, size() stored); an empty queue ends the search.
PushScan(c) ==
  LET i == scan[c].i IN
  /\ cpc[c] = "scan" /\ ValidIndex(i)
  /\ \E e, s, s2 \in ObservedSizes(threads[i]) :
       \/ /\ e = 0
          /\ scan' = [scan EXCEPT ![c].least = i]
          /\ cpc' = [cpc EXCEPT ![c] = "lock"]
       \/ /\ e # 0
          /\ scan' = [scan EXCEPT ![c] =
                        [i |-> i + 1,
                         least |-> IF s < @.size THEN i ELSE @.least,
                         size  |-> IF s < @.size THEN s2 ELSE @.size,
                         at    |-> None]]
          /\ UNCHANGED cpc
  /\ UNCHANGED <<threads, queue, mutex, status, workerVars, arg, ownerVars,
                 taskVars, fault>>

\* i reached threads_.size().
PushScanEnd(c) ==
  /\ cpc[c] = "scan" /\ scan[c].i > Len(threads)
  /\ cpc' = [cpc EXCEPT ![c] = "lock"]
  /\ UNCHANGED <<threads, queue, mutex, status, workerVars, arg, scan,
                 ownerVars, taskVars, fault>>

\* threads_[least].mutex_, the expression, is evaluated before the lock waits.
PushReach(c) ==
  /\ cpc[c] = "lock" /\ ValidIndex(scan[c].least)
  /\ scan' = [scan EXCEPT ![c].at = threads[scan[c].least]]
  /\ cpc' = [cpc EXCEPT ![c] = "wait"]
  /\ UNCHANGED <<threads, queue, mutex, status, workerVars, arg, ownerVars,
                 taskVars, fault>>

\* Mutant: the lambda is moved from before it is appended.
LockMovesLambda(c) ==
  /\ cpc[c] = "wait" /\ mutex[scan[c].at] = None
  /\ mutex' = [mutex EXCEPT ![scan[c].at] = c]
  /\ arg' = [arg EXCEPT ![c] = None]
  /\ cpc' = [cpc EXCEPT ![c] = "enqueue"]
  /\ UNCHANGED <<threads, queue, status, workerVars, scan, ownerVars,
                 taskVars, fault>>

\* The lock_guard gets the mutex of the worker that the index denoted then.
PushLock(c) ==
  /\ cpc[c] = "wait" /\ mutex[scan[c].at] = None
  /\ mutex' = [mutex EXCEPT ![scan[c].at] = c]
  /\ cpc' = [cpc EXCEPT ![c] = "enqueue"]
  /\ UNCHANGED <<threads, queue, status, workerVars, arg, scan, ownerVars,
                 taskVars, fault>>

\* queue_.push on the worker the index NOW denotes; end of the lock_guard.
PushEnqueue(c) ==
  LET w == threads[scan[c].least] IN
  /\ cpc[c] = "enqueue" /\ ValidIndex(scan[c].least)
  /\ mutex[w] = c
  /\ queue' = [queue EXCEPT ![w] = Append(@, arg[c])]
  /\ mutex' = [mutex EXCEPT ![w] = None]
  /\ arg' = [arg EXCEPT ![c] = None]
  /\ cpc' = [cpc EXCEPT ![c] = "notify"]
  /\ UNCHANGED <<threads, status, workerVars, scan, ownerVars, taskVars,
                 fault>>

\* cv_.notify_all(), after the mutex is released.
PushNotify(c) ==
  LET w == threads[scan[c].least] IN
  /\ cpc[c] = "notify" /\ ValidIndex(scan[c].least)
  /\ wpc' = [wpc EXCEPT ![w] = IF @ = "asleep" THEN "enter" ELSE @]
  /\ scan' = [scan EXCEPT ![c] = NoScan]
  /\ cpc' = [cpc EXCEPT ![c] = ReturnPc(c)]
  /\ UNCHANGED <<threads, queue, mutex, status, running, arg, ownerVars,
                 taskVars, fault>>

\* Worker w has died with the vector `stopped' of a stop() that has returned.
Destroyed(w) ==
  w \notin Range(threads) /\ cpc[Owner] \in {"idle", "run", "ctor", "joining"}

\* The accesses of push() that have undefined behaviour: a null or missing
\* element, a mutex that is gone, or a queue whose mutex is not the one that
\* was locked.
PushFault(c) ==
  /\ \/ cpc[c] = "select" /\ threads # <<>> /\ ~ValidIndex(1)
     \/ /\ cpc[c] = "scan" /\ scan[c].i <= Len(threads)
        /\ ~ValidIndex(scan[c].i)
     \/ /\ cpc[c] \in {"lock", "enqueue", "notify"}
        /\ ~ValidIndex(scan[c].least)
     \/ cpc[c] = "wait" /\ Destroyed(scan[c].at)
     \/ /\ cpc[c] = "enqueue" /\ ValidIndex(scan[c].least)
        /\ mutex[threads[scan[c].least]] # c
  /\ fault' = TRUE
  /\ UNCHANGED <<threads, queue, mutex, status, workerVars, callerVars,
                 ownerVars, taskVars>>

-----------------------------------------------------------------------------
(* CpuThreadWorker::process_worker(), the thread of worker w.              *)

\* thread_ is the first member of CpuThreadWorker, so the thread runs while
\* queue_, mutex_, cv_ and status_ still hold what the memory held before: a
\* garbage status_ can read Stopped, a garbage queue_ can read non-empty.
WorkerOutrunsConstructor(w) ==
  /\ EarlyStart /\ wpc[w] = "started"
  /\ \/ wpc' = [wpc EXCEPT ![w] = "exited"] /\ UNCHANGED fault
     \/ fault' = TRUE /\ UNCHANGED wpc
  /\ UNCHANGED <<threads, queue, mutex, status, running, callerVars, ownerVars,
                 taskVars>>

\* Lock, evaluate the predicate, and sleep (releasing the lock) if it fails.
WorkerEnter(w) ==
  /\ wpc[w] = "enter" /\ mutex[w] = None
  /\ IF queue[w] # <<>> \/ status[w] = "Stopped"
       THEN /\ wpc' = [wpc EXCEPT ![w] = "locked"]
            /\ mutex' = [mutex EXCEPT ![w] = w]
       ELSE /\ wpc' = [wpc EXCEPT ![w] = "asleep"]
            /\ UNCHANGED mutex
  /\ UNCHANGED <<threads, queue, status, running, callerVars, ownerVars,
                 taskVars, fault>>

\* Mutant: cv_.wait, which has no timeout and hears no notification of stop().
WaitForEver(w) == FALSE

\* wait_for gives up after 100 ms, with the lock, whatever the predicate.
WorkerTimeout(w) ==
  /\ wpc[w] = "asleep" /\ mutex[w] = None
  /\ wpc' = [wpc EXCEPT ![w] = "locked"]
  /\ mutex' = [mutex EXCEPT ![w] = w]
  /\ UNCHANGED <<threads, queue, status, running, callerVars, ownerVars,
                 taskVars, fault>>

\* The two tests after the wait: return, `continue', or go on to the pop.
WorkerTest(w) ==
  /\ wpc[w] = "locked"
  /\ \/ /\ status[w] = "Stopped"
        /\ wpc' = [wpc EXCEPT ![w] = "exited"]
        /\ mutex' = [mutex EXCEPT ![w] = None]
     \/ /\ status[w] # "Stopped" /\ queue[w] = <<>>
        /\ wpc' = [wpc EXCEPT ![w] = "enter"]
        /\ mutex' = [mutex EXCEPT ![w] = None]
     \/ /\ status[w] # "Stopped" /\ queue[w] # <<>>
        /\ wpc' = [wpc EXCEPT ![w] = "taking"]
        /\ UNCHANGED mutex
  /\ UNCHANGED <<threads, queue, status, running, callerVars, ownerVars,
                 taskVars, fault>>

\* Mutant: the task is copied out of the queue and not popped.
TakeWithoutPop(w) ==
  /\ wpc[w] = "taking"
  /\ running' = [running EXCEPT ![w] = Head(queue[w])]
  /\ mutex' = [mutex EXCEPT ![w] = None]
  /\ wpc' = [wpc EXCEPT ![w] = "running"]
  /\ UNCHANGED <<threads, queue, status, callerVars, ownerVars, taskVars,
                 fault>>

\* Move the front of the queue out, pop, unlock.
WorkerTake(w) ==
  /\ wpc[w] = "taking"
  /\ running' = [running EXCEPT ![w] = Head(queue[w])]
  /\ queue' = [queue EXCEPT ![w] = Tail(@)]
  /\ mutex' = [mutex EXCEPT ![w] = None]
  /\ wpc' = [wpc EXCEPT ![w] = "running"]
  /\ UNCHANGED <<threads, status, callerVars, ownerVars, taskVars, fault>>

\* task() returns, outside the lock.
WorkerFinish(w) ==
  /\ wpc[w] = "running" /\ running[w] \notin Endless
  /\ done' = done \cup {running[w]}
  /\ running' = [running EXCEPT ![w] = None]
  /\ wpc' = [wpc EXCEPT ![w] = "enter"]
  /\ UNCHANGED <<threads, queue, mutex, status, callerVars, ownerVars, fresh,
                 lost, fault>>

-----------------------------------------------------------------------------
(* ThreadPool::run(n).                                                     *)

RunBegin(n) ==
  /\ cpc[Owner] = "idle" /\ n > 0
  /\ Serial => Quiet
  /\ todo' = n
  /\ cpc' = [cpc EXCEPT ![Owner] = "run"]
  /\ UNCHANGED <<threads, queue, mutex, status, workerVars, arg, scan, born,
                 stopping, taskVars, fault>>

\* make_unique<CpuThreadWorker>: the thread starts first.
RunSpawn(w) ==
  /\ cpc[Owner] = "run" /\ wpc[w] = "none"
  /\ wpc' = [wpc EXCEPT ![w] = "started"]
  /\ born' = w
  /\ cpc' = [cpc EXCEPT ![Owner] = "ctor"]
  /\ UNCHANGED <<threads, queue, mutex, status, running, arg, scan, stopping,
                 todo, taskVars, fault>>

\* The other members are built and the worker is appended to threads_.
RunAppend ==
  /\ cpc[Owner] = "ctor"
  /\ wpc' = [wpc EXCEPT ![born] = IF @ = "started" THEN "enter" ELSE @]
  /\ threads' = Append(threads, born)
  /\ VectorRace
  /\ born' = None
  /\ todo' = todo - 1
  /\ cpc' = [cpc EXCEPT ![Owner] = IF todo = 1 THEN "idle" ELSE "run"]
  /\ UNCHANGED <<queue, mutex, status, running, arg, scan, stopping, taskVars>>

-----------------------------------------------------------------------------
(* ThreadPool::stop(n).  On an empty pool it changes nothing.              *)

StopBegin(n) ==
  /\ cpc[Owner] = "idle" /\ n > 0 /\ threads # <<>>
  /\ Serial => Quiet
  /\ todo' = IF n < Len(threads) THEN n ELSE Len(threads)
  /\ cpc' = [cpc EXCEPT ![Owner] = "flag"]
  /\ UNCHANGED <<threads, queue, mutex, status, workerVars, arg, scan, born,
                 stopping, taskVars, fault>>

\* CpuThreadWorker::stop(): status_ first, without the mutex or a notify ...
StopFlag ==
  LET k == Len(stopping) + 1 IN
  /\ cpc[Owner] = "flag" /\ k <= todo
  /\ status' = [status EXCEPT ![threads[k]] = "Stopped"]
  /\ cpc' = [cpc EXCEPT ![Owner] = "join"]
  /\ UNCHANGED <<threads, queue, mutex, workerVars, arg, scan, ownerVars,
                 taskVars, fault>>

\* Mutant: the worker is moved out of threads_ before it is copied.
JoinMoveFirst ==
  LET k == Len(stopping) + 1 IN
  /\ cpc[Owner] = "join" /\ wpc[threads[k]] = "exited"
  /\ threads' = [threads EXCEPT ![k] = None]
  /\ stopping' = Append(stopping, None)
  /\ cpc' = [cpc EXCEPT ![Owner] = "flag"]
  /\ UNCHANGED <<queue, mutex, status, workerVars, arg, scan, born, todo,
                 taskVars, fault>>

\* Mutant: the thread is detached instead of joined.
JoinDetached ==
  LET k == Len(stopping) + 1 IN
  /\ cpc[Owner] = "join"
  /\ threads' = [threads EXCEPT ![k] = None]
  /\ stopping' = Append(stopping, threads[k])
  /\ cpc' = [cpc EXCEPT ![Owner] = "flag"]
  /\ UNCHANGED <<queue, mutex, status, workerVars, arg, scan, born, todo,
                 taskVars, fault>>

\* ... then join the thread; stop() moves the worker to the local vector.
StopJoin ==
  LET k == Len(stopping) + 1 IN
  /\ cpc[Owner] = "join" /\ wpc[threads[k]] = "exited"
  /\ threads' = [threads EXCEPT ![k] = None]
  /\ stopping' = Append(stopping, threads[k])
  /\ cpc' = [cpc EXCEPT ![Owner] = "flag"]
  /\ UNCHANGED <<queue, mutex, status, workerVars, arg, scan, born, todo,
                 taskVars, fault>>

\* Mutant: the moved-from elements stay in threads_.
KeepMovedFrom ==
  /\ cpc[Owner] = "flag" /\ Len(stopping) = todo
  /\ todo' = 0
  /\ cpc' = [cpc EXCEPT ![Owner] = "drain"]
  /\ UNCHANGED <<threads, queue, mutex, status, workerVars, arg, scan, born,
                 stopping, taskVars, fault>>

\* Mutant: the tasks of the stopped workers are not pushed again.
EraseWithoutDrain ==
  /\ cpc[Owner] = "flag" /\ Len(stopping) = todo
  /\ threads' = SubSeq(threads, todo + 1, Len(threads))
  /\ todo' = 0
  /\ stopping' = <<>>
  /\ cpc' = [cpc EXCEPT ![Owner] = "idle"]
  /\ UNCHANGED <<queue, mutex, status, workerVars, arg, scan, born, taskVars,
                 fault>>

\* Erase the moved-from elements.  If no worker is left, the queues die with
\* the local vector; otherwise their tasks are pushed again.
StopErase ==
  LET rest  == SubSeq(threads, todo + 1, Len(threads))
      tasks == UNION {Range(queue[w]) : w \in Range(stopping)}
  IN
  /\ cpc[Owner] = "flag" /\ Len(stopping) = todo
  /\ threads' = rest
  /\ VectorRace
  /\ todo' = 0
  /\ IF rest = <<>>
       THEN /\ lost' = lost \cup tasks
            /\ queue' = [w \in Workers |->
                           IF w \in Range(stopping) THEN <<>> ELSE queue[w]]
            /\ stopping' = <<>>
            /\ cpc' = [cpc EXCEPT ![Owner] = "idle"]
       ELSE /\ cpc' = [cpc EXCEPT ![Owner] = "drain"]
            /\ UNCHANGED <<queue, stopping, lost>>
  /\ UNCHANGED <<mutex, status, workerVars, arg, scan, born, fresh, done>>

\* lock_guard on the next stopped worker.
DrainLock ==
  /\ cpc[Owner] = "drain" /\ stopping # <<>>
  /\ mutex[Head(stopping)] = None
  /\ mutex' = [mutex EXCEPT ![Head(stopping)] = Owner]
  /\ cpc' = [cpc EXCEPT ![Owner] = "drained"]
  /\ UNCHANGED <<threads, queue, status, workerVars, arg, scan, ownerVars,
                 taskVars, fault>>

\* Mutant: the front is copied into push() and stays in the queue.
DrainWithoutPop ==
  LET w == Head(stopping) IN
  /\ cpc[Owner] = "drained" /\ queue[w] # <<>>
  /\ arg' = [arg EXCEPT ![Owner] = Head(queue[w])]
  /\ cpc' = [cpc EXCEPT ![Owner] = "select"]
  /\ UNCHANGED <<threads, queue, mutex, status, workerVars, scan, ownerVars,
                 taskVars, fault>>

\* push(std::move(front)), with that mutex held.  The emptied front is popped
\* here, not after the push: the queue has no other reader any more.
DrainTask ==
  LET w == Head(stopping) IN
  /\ cpc[Owner] = "drained" /\ queue[w] # <<>>
  /\ arg' = [arg EXCEPT ![Owner] = Head(queue[w])]
  /\ queue' = [queue EXCEPT ![w] = Tail(@)]
  /\ cpc' = [cpc EXCEPT ![Owner] = "select"]
  /\ UNCHANGED <<threads, mutex, status, workerVars, scan, ownerVars, taskVars,
                 fault>>

DrainNext ==
  LET w == Head(stopping) IN
  /\ cpc[Owner] = "drained" /\ queue[w] = <<>>
  /\ mutex' = [mutex EXCEPT ![w] = None]
  /\ stopping' = Tail(stopping)
  /\ cpc' = [cpc EXCEPT ![Owner] = "drain"]
  /\ UNCHANGED <<threads, queue, status, workerVars, arg, scan, born, todo,
                 taskVars, fault>>

StopReturn ==
  /\ cpc[Owner] = "drain" /\ stopping = <<>>
  /\ cpc' = [cpc EXCEPT ![Owner] = "idle"]
  /\ UNCHANGED <<threads, queue, mutex, status, workerVars, arg, scan,
                 ownerVars, taskVars, fault>>

-----------------------------------------------------------------------------
(* ThreadPool::join(): blocks the owner until every worker has exited.     *)

JoinBegin ==
  /\ cpc[Owner] = "idle" /\ threads # <<>>
  /\ cpc' = [cpc EXCEPT ![Owner] = "joining"]
  /\ UNCHANGED <<threads, queue, mutex, status, workerVars, arg, scan,
                 ownerVars, taskVars, fault>>

JoinEnd ==
  /\ cpc[Owner] = "joining"
  /\ \A w \in Range(threads) : wpc[w] = "exited"
  /\ cpc' = [cpc EXCEPT ![Owner] = "idle"]
  /\ UNCHANGED <<threads, queue, mutex, status, workerVars, arg, scan,
                 ownerVars, taskVars, fault>>

-----------------------------------------------------------------------------

PushStep(c) ==
  \/ PushInline(c) \/ InlineFinish(c)
  \/ PushSelect(c) \/ PushScan(c) \/ PushScanEnd(c)
  \/ PushReach(c) \/ PushLock(c) \/ PushEnqueue(c) \/ PushNotify(c)
  \/ PushFault(c)

WorkerStep(w) ==
  \/ WorkerEnter(w) \/ WorkerTimeout(w) \/ WorkerTest(w)
  \/ WorkerTake(w) \/ WorkerFinish(w)

OwnerStep ==
  \/ \E w \in Workers : RunSpawn(w)
  \/ RunAppend \/ StopFlag \/ StopJoin \/ StopErase
  \/ DrainLock \/ DrainTask \/ DrainNext \/ StopReturn \/ JoinEnd

\* Calls the owner may make: run() no more workers than are left to create.
OwnerCall ==
  \/ \E n \in 1 .. Cardinality({w \in Workers : wpc[w] = "none"}) : RunBegin(n)
  \/ \E n \in 1 .. Cardinality(Workers) : StopBegin(n)
  \/ JoinBegin

Next ==
  /\ ~fault
  /\ \/ \E p \in Pushers, t \in Tasks : PushBegin(p, t)
     \/ \E c \in Callers : PushStep(c)
     \/ \E w \in Workers : WorkerStep(w) \/ WorkerOutrunsConstructor(w)
     \/ OwnerStep
     \/ OwnerCall

Spec == Init /\ [][Next]_vars

(***************************************************************************)
(* Fairness.  The operating system runs every thread that can run, hence   *)
(* weak fairness of each thread's next step.  A worker takes its mutex for *)
(* a few instructions at least every 100 ms, so a push() that asks for it  *)
(* finds it free again and again but not for good, and gets it (strong     *)
(* fairness).  Nobody has to call push(), run(), stop() or join().         *)
(***************************************************************************)
PushFairness(c) == /\ WF_vars(~fault /\ PushStep(c))
                   /\ SF_vars(~fault /\ PushLock(c))

\* Of a pool whose owner never calls stop(), nor push() from it.
RunFairness ==
  /\ \A w \in Workers : WF_vars(~fault /\ WorkerStep(w))
  /\ \A p \in Pushers : PushFairness(p)
  /\ WF_vars(~fault /\ OwnerStep)

Fairness == RunFairness /\ PushFairness(Owner)

FairSpec == Spec /\ Fairness

-----------------------------------------------------------------------------
(* Safety.                                                                 *)

(* Where a task is, as a set of places: with its caller, at a position of  *)
(* a queue, on a worker, or settled.                                       *)
Places(t) ==
       {<<"caller", c>> : c \in {c \in Callers : arg[c] = t}}
  \cup {<<"worker", w>> : w \in {w \in Workers : running[w] = t}}
  \cup (UNION {{<<"queue", w, k>> : k \in {k \in DOMAIN queue[w] :
                                              queue[w][k] = t}}
               : w \in Workers})
  \cup {<<"fresh">> : x \in fresh \cap {t}}
  \cup {<<"done">>  : x \in done \cap {t}}
  \cup {<<"lost">>  : x \in lost \cap {t}}

(* No interleaving of push(), the workers, and the re-distribution that    *)
(* stop() performs makes a lambda vanish or run twice: at every moment it  *)
(* is in exactly one place (thread_pool.cpp:36-39, 73-79, 119-123).        *)
TaskInOnePlace == \A t \in Tasks : \E p \in UNION {Places(u) : u \in Tasks} :
                    Places(t) = {p}

(* With run()/stop() never overlapping a push(), and a worker thread that  *)
(* does not outrun its constructor, no index push() computed without a     *)
(* lock goes stale before it is used: the mutex it locks is always that of *)
(* the queue it appends to (thread_pool.cpp:36-40).                        *)
NoFault == ~fault

(* stop() leaves no task on a worker whose thread has ended: whenever the  *)
(* owner is outside run() and stop(), a queue that holds tasks belongs to  *)
(* a worker of the pool whose thread still serves it                       *)
(* (thread_pool.cpp:57-79).                                                *)
NoTaskLeftBehind ==
  cpc[Owner] \in {"idle", "joining"} =>
    \A w \in Workers : queue[w] # <<>> =>
      w \in Range(threads) /\ status[w] = "Working" /\ wpc[w] # "exited"

(* A worker that stop() has taken out of the pool belongs to the owner     *)
(* alone: its thread has ended, no push() can reach it by an index, and    *)
(* nobody else holds its mutex, so draining its queue races with nothing   *)
(* although push() takes a second mutex meanwhile (thread_pool.cpp:57-79). *)
StoppedWorkersArePrivate ==
  \A w \in Range(stopping) :
    /\ wpc[w] = "exited" /\ w \notin Range(threads)
    /\ mutex[w] \in {None, Owner}

-----------------------------------------------------------------------------
(* Refinement and liveness.                                                *)

Phase(t) ==
  IF \/ \E w \in Workers : running[w] = t
     \/ \E c \in Callers : arg[c] = t /\ cpc[c] = "inline"
    THEN "executing"
    ELSE CASE t \in fresh -> "new"
           [] t \in done  -> "done"
           [] t \in lost  -> "lost"
           [] OTHER -> "submitted"

TP == INSTANCE TaskPool WITH phase <- [t \in Tasks |-> Phase(t)]

(* The pool implements its promise: a task is started at most once, only   *)
(* after it was pushed, is never destroyed once started, and moving it to  *)
(* another worker's queue is invisible (thread_pool.cpp:15-42, 49-80,      *)
(* 109-125).                                                               *)
TaskPoolSpec == TP!Spec

(* Every task handed to push() is executed or destroyed by stop(): the     *)
(* notification that comes after the unlock, and the status_ change that   *)
(* comes with no notification at all, are made up for by the 100 ms        *)
(* timeout of the wait (thread_pool.cpp:39-40, 105, 113).                  *)
EveryTaskSettles == TP!Settles

(* stop() returns, although CpuThreadWorker::stop() wakes nobody up        *)
(* (thread_pool.cpp:104-107).                                              *)
StopReturns == (cpc[Owner] \in StopPcs) ~> (cpc[Owner] = "idle")

-----------------------------------------------------------------------------
(* What push() says.                                                       *)

(* "Execute ThreadPool::run(size_t n) for create n threads"                *)
(* (thread_pool.cpp:17): when run() has returned, every worker of the pool *)
(* has a thread that serves its queue; only stop() ends a thread, and it   *)
(* takes the worker out of the pool (thread_pool.cpp:44-47, 97-114,        *)
(* thread_pool.hpp:23-28).                                                 *)
RunCreatesThreads ==
  cpc[Owner] \in {"idle", "joining"} =>
    \A w \in Range(threads) : wpc[w] # "exited"

=============================================================================
