----------------------------- MODULE Scheduler -----------------------------
(***************************************************************************)
(* routine::Scheduler (include/scheduler.hpp, source/scheduler.cpp): two   *)
(* ThreadPools.  Main calls run(k, m), which starts k workers in the IO    *)
(* pool, pushes k endless loops around io_context::run() to it, starts m   *)
(* workers in the CPU pool, and then calls join_threads().                 *)
(*                                                                         *)
(* A worker of the IO pool that executes a loop runs the handlers of the   *)
(* acceptor (include/net/acceptor.hpp) and of the sessions; what it gets   *)
(* from a session it hands to prepare_task(), that is to push() of the CPU *)
(* pool, from the moment its loop starts: run() may still be filling the   *)
(* CPU pool's vector then.  An io_context that is out of work stops, and   *)
(* nobody restarts it: run() then returns at once, round after round.      *)
(*                                                                         *)
(* The variables of the IO pool carry the prefix io, those of the CPU pool *)
(* have the names they have in ThreadPool.  A pool that has reached        *)
(* undefined behaviour takes no further step; what the rest of the program *)
(* does meanwhile stands for all that it could.                            *)
(***************************************************************************)
EXTENDS Naturals, Sequences, FiniteSets

CONSTANTS
  IoWorkers,    \* the workers of the IO pool: run()'s io_bound_threads
  CpuWorkers,   \* the workers of the CPU pool: run()'s cpu_bound_threads
  Main,         \* the main thread, in run() and join() of the pools
  Placer,       \* the main thread, in push() of the IO pool
  Loops,        \* while (true) context.run(), one for each IO worker
  Requests,     \* the connections of peers, each with one request
  None,
  TornMax,
  EarlyStart    \* a new thread of a pool may outrun the constructor

ASSUME SchedulerAssumption ==
  /\ IsFiniteSet(IoWorkers) /\ IoWorkers # {}
  /\ IsFiniteSet(CpuWorkers) /\ CpuWorkers # {}
  /\ Cardinality(Loops) = Cardinality(IoWorkers)
  /\ IoWorkers \cap CpuWorkers = {}
  /\ Main # Placer /\ {Main, Placer} \cap (IoWorkers \cup CpuWorkers) = {}
  /\ None \notin IoWorkers \cup CpuWorkers \cup {Main, Placer}
  /\ None \notin Loops \cup Requests
  /\ TornMax \in Nat /\ EarlyStart \in BOOLEAN

VARIABLES
  ioThreads, ioQueue, ioMutex, ioStatus, ioWpc, ioRunning, ioCpc, ioArg,
  ioScan, ioBorn, ioStopping, ioTodo, ioFresh, ioDone, ioLost, ioFault,
  threads, queue, mutex, status, wpc, running, cpc, arg, scan, born, stopping,
  todo, fresh, done, lost, fault,
  main,         \* where main is in run() and join_threads()
  accepting,    \* an async_accept is pending
  peer,         \* how far each connection has come
  stopped       \* the io_context has stopped

ioVars  == <<ioThreads, ioQueue, ioMutex, ioStatus, ioWpc, ioRunning, ioCpc,
             ioArg, ioScan, ioBorn, ioStopping, ioTodo, ioFresh, ioDone,
             ioLost, ioFault>>
cpuVars == <<threads, queue, mutex, status, wpc, running, cpc, arg, scan, born,
             stopping, todo, fresh, done, lost, fault>>
context == <<accepting, peer, stopped>>
vars == <<ioVars, cpuVars, main, context>>

\* io_thread_pool_: only main uses it.
IO == INSTANCE ThreadPool WITH
        Workers <- IoWorkers, Pushers <- {Placer}, Owner <- Main,
        Tasks <- Loops, Endless <- Loops, Serial <- TRUE,
        threads <- ioThreads, queue <- ioQueue, mutex <- ioMutex,
        status <- ioStatus, wpc <- ioWpc, running <- ioRunning, cpc <- ioCpc,
        arg <- ioArg, scan <- ioScan, born <- ioBorn, stopping <- ioStopping,
        todo <- ioTodo, fresh <- ioFresh, done <- ioDone, lost <- ioLost,
        fault <- ioFault

\* cpu_thread_pool_: main calls run() while the IO workers call push().
CPU == INSTANCE ThreadPool WITH
        Workers <- CpuWorkers, Pushers <- IoWorkers, Owner <- Main,
        Tasks <- Requests, Endless <- {}, Serial <- FALSE

MainPcs == {"start", "io", "cpu", "joining"}

TypeOK ==
  /\ IO!TypeOK /\ CPU!TypeOK /\ main \in MainPcs
  /\ accepting \in BOOLEAN /\ stopped \in BOOLEAN
  /\ peer \in [Requests -> {"away", "waiting", "reading", "handed"}]

Init ==
  /\ IO!Init /\ CPU!Init /\ main = "start"
  /\ accepting = FALSE /\ stopped = FALSE
  /\ peer = [r \in Requests |-> "away"]

-----------------------------------------------------------------------------
(* Main: async_accept(), Scheduler::run() and join_threads().              *)

\* Before run(), as in the example, or when it has returned.
AsyncAccept ==
  /\ ~accepting /\ (main = "start" \/ (main = "cpu" /\ cpc[Main] = "idle"))
  /\ accepting' = TRUE
  /\ UNCHANGED <<ioVars, cpuVars, main, peer, stopped>>

\* io_thread_pool_.run(io_bound_threads)
StartIo ==
  /\ main = "start"
  /\ IO!RunBegin(Cardinality(IoWorkers))
  /\ main' = "io"
  /\ UNCHANGED <<cpuVars, context>>

\* Mutant: the loops are pushed before the workers are started.
PlaceBeforeStart ==
  /\ main = "start" /\ ioCpc[Main] = "idle"
  /\ \E l \in Loops : IO!PushBegin(Placer, l)
  /\ UNCHANGED <<cpuVars, main, context>>

\* The next iteration of the loop that pushes the endless tasks.
PlaceLoop ==
  /\ main = "io" /\ ioCpc[Main] = "idle"
  /\ \E l \in Loops : IO!PushBegin(Placer, l)
  /\ UNCHANGED <<cpuVars, main, context>>

\* cpu_thread_pool_.run(cpu_bound_threads)
StartCpu ==
  /\ main = "io" /\ ioFresh = {}
  /\ ioCpc[Placer] = "idle" /\ ioCpc[Main] = "idle"
  /\ CPU!RunBegin(Cardinality(CpuWorkers))
  /\ main' = "cpu"
  /\ UNCHANGED <<ioVars, context>>

\* Mutant: run() returns while the CPU pool is still being filled.
JoinTooEarly ==
  /\ main = "cpu"
  /\ IO!JoinBegin
  /\ main' = "joining"
  /\ UNCHANGED <<cpuVars, context>>

\* join_threads(): io_thread_pool_.join() first.  It returns only if every IO
\* thread outran its constructor, and nothing is modelled of main after that.
JoinThreads ==
  /\ main = "cpu" /\ cpc[Main] = "idle"
  /\ IO!JoinBegin
  /\ main' = "joining"
  /\ UNCHANGED <<cpuVars, context>>

-----------------------------------------------------------------------------
(* The io_context, and an IO worker inside its run().                      *)

Serving(w) == ioRunning[w] \in Loops

\* What keeps run() from returning: operations that are pending, and handlers
\* that another worker is executing.
Work ==
  \/ accepting \/ \E r \in Requests : peer[r] = "reading"
  \/ \E w \in IoWorkers : cpc[w] # "idle"

\* run() finds no work and stops the context.
OutOfWork(w) ==
  /\ Serving(w) /\ ~stopped /\ ~Work
  /\ stopped' = TRUE
  /\ UNCHANGED <<ioVars, cpuVars, main, accepting, peer>>

Connect(r) ==
  /\ peer[r] = "away"
  /\ peer' = [peer EXCEPT ![r] = "waiting"]
  /\ UNCHANGED <<ioVars, cpuVars, main, accepting, stopped>>

\* on_accept() with no error: accept the next one; the session starts to read.
OnAccept(w, r) ==
  /\ Serving(w) /\ ~stopped /\ cpc[w] = "idle"
  /\ accepting /\ peer[r] = "waiting"
  /\ accepting' = TRUE
  /\ peer' = [peer EXCEPT ![r] = "reading"]
  /\ UNCHANGED <<ioVars, cpuVars, main, stopped>>

\* on_accept() with an error, which comes after the next async_accept().
AcceptFailsThen(w, again) ==
  /\ Serving(w) /\ ~stopped /\ cpc[w] = "idle"
  /\ accepting /\ accepting' = again
  /\ UNCHANGED <<ioVars, cpuVars, main, peer, stopped>>

\* Mutant: the error is looked at first, and returned from.
AcceptFailsForGood(w) == AcceptFailsThen(w, FALSE)

AcceptFails(w) == AcceptFailsThen(w, TRUE)

\* Scheduler::prepare_task(), called by a session's read handler.
PrepareTask(w) ==
  /\ Serving(w) /\ ~stopped
  /\ \E r \in Requests :
       /\ peer[r] = "reading" /\ CPU!PushBegin(w, r)
       /\ peer' = [peer EXCEPT ![r] = "handed"]
  /\ UNCHANGED <<ioVars, main, accepting, stopped>>

-----------------------------------------------------------------------------
(* The steps of the two pools.                                             *)

IoPoolStep ==
  /\ ~ioFault
  /\ \/ \E w \in IoWorkers : \/ IO!RunSpawn(w) \/ IO!WorkerStep(w)
                             \/ IO!WorkerOutrunsConstructor(w)
     \/ IO!RunAppend \/ IO!PushStep(Placer) \/ IO!JoinEnd
  /\ UNCHANGED <<cpuVars, main, context>>

CpuPoolStep ==
  /\ ~fault
  /\ \/ \E w \in CpuWorkers : \/ CPU!RunSpawn(w) \/ CPU!WorkerStep(w)
                              \/ CPU!WorkerOutrunsConstructor(w)
     \/ \E w \in IoWorkers : CPU!PushStep(w)
     \/ CPU!RunAppend
  /\ UNCHANGED <<ioVars, main, context>>

MainCall == StartIo \/ PlaceLoop \/ StartCpu \/ JoinThreads

\* An IO worker that runs the context.
Handler(w) == (\E r \in Requests : OnAccept(w, r)) \/ PrepareTask(w)

Next ==
  \/ AsyncAccept \/ MainCall \/ IoPoolStep \/ CpuPoolStep
  \/ \E w \in IoWorkers : OutOfWork(w) \/ AcceptFails(w) \/ Handler(w)
  \/ \E r \in Requests : Connect(r)

Spec == Init /\ [][Next]_vars

\* The pools' own fairness, main goes on, and some worker in the context's
\* run() executes what is ready.  No peer has to connect, but one that has done so
\* sends its request.
FairSpec ==
  /\ Spec /\ IO!RunFairness /\ CPU!RunFairness /\ WF_vars(MainCall)
  /\ WF_vars(\E w \in IoWorkers : Handler(w))

-----------------------------------------------------------------------------
(* Properties.                                                             *)

(* Handing out the loops and, from them, the requests makes no lambda      *)
(* vanish or run twice in either pool, although run() of the CPU pool and  *)
(* push() to it overlap and new threads may outrun their constructors, up  *)
(* to the undefined behaviour that these races may reach                   *)
(* (scheduler.cpp:23-37, 49-51).                                           *)
LambdasInOnePlace == IO!TaskInOnePlace /\ CPU!TaskInOnePlace

(* A pool can reach a fault only while run() builds a worker of it: a new  *)
(* thread may outrun its constructor, in either pool, and the vector of    *)
(* the CPU pool may move under a push().  Afterwards no index of a push()  *)
(* goes stale and no queue is changed without its mutex.  The unlocked     *)
(* reads of empty() and size() go on racing with the workers: the model    *)
(* has the values they may return, and counts no fault                     *)
(* (scheduler.cpp:23-37, thread_pool.hpp:23-28, thread_pool.cpp:16-40).    *)
FaultsOnlyAtStart ==
  [][/\ ioFault' /\ ~ioFault => main = "io" /\ ioCpc[Main] = "ctor"
     /\ fault' /\ ~fault => main = "cpu" /\ cpc[Main] = "ctor"]_vars

\* A new thread has outrun its constructor, and has ended or done worse.
Outrun == \/ ioFault \/ \E w \in IoWorkers : ioWpc[w] = "exited"
          \/ fault \/ \E w \in CpuWorkers : wpc[w] = "exited"

(* However the loops are placed, the context is served: main reaches       *)
(* join_threads(), and an IO worker runs a loop from some moment on, for   *)
(* ever, unless a thread outruns its constructor or the CPU pool faults    *)
(* (scheduler.cpp:28-33).                                                  *)
ContextIsServed ==
  <>[](\/ Outrun
       \/ /\ main = "joining" /\ ioCpc[Main] = "joining"
          /\ \E w \in IoWorkers : Serving(w))

(* A connection that comes while the server accepts, on a context that has *)
(* not stopped, is accepted, although the calls before it may have failed, *)
(* and its request is executed, by a CPU worker or by the IO worker itself *)
(* while the CPU pool is empty: from the first async_accept() on, the      *)
(* context never runs out of work.  The exceptions are those of            *)
(* ContextIsServed (acceptor.hpp:27-44, scheduler.cpp:30, 49-51,           *)
(* thread_pool.cpp:16-20).                                                 *)
ConnectionsAreServed ==
  \A r \in Requests :
    (peer[r] = "waiting" /\ accepting /\ ~stopped) ~> (r \in done \/ Outrun)

-----------------------------------------------------------------------------
(* What the log says.                                                      *)

(* "Running {} IO threads..." (scheduler.cpp:24): every one of the loops   *)
(* is eventually executed.                                                 *)
AllIoThreadsServe == \A l \in Loops : <>(\E w \in IoWorkers : ioRunning[w] = l)

=============================================================================
