-------------------------- MODULE SchedulerProofs --------------------------
(***************************************************************************)
(* Proofs about routine::Scheduler, for any number of threads, loops and   *)
(* requests: both pools keep every lambda in one place, and each of them   *)
(* can reach undefined behaviour only while run() builds a worker of it.   *)
(*                                                                         *)
(* What was proved of a ThreadPool is used twice, for the IO pool and for  *)
(* the CPU pool.  Neither is ever stopped, so its vector only grows and no *)
(* index of a push() goes stale (Growing).  Two faults are left, both      *)
(* while run() builds a worker: its thread outruns the constructor, and,   *)
(* in the CPU pool, the vector is reallocated under a push().              *)
(***************************************************************************)
EXTENDS Scheduler, FiniteSetTheorems, TLAPS

\* io_thread_pool_ with what is proved of a pool.
IOP == INSTANCE TaskPlaceProofs WITH
         Workers <- IoWorkers, Pushers <- {Placer}, Owner <- Main,
         Tasks <- Loops, Endless <- Loops, Serial <- TRUE,
         threads <- ioThreads, queue <- ioQueue, mutex <- ioMutex,
         status <- ioStatus, wpc <- ioWpc, running <- ioRunning, cpc <- ioCpc,
         arg <- ioArg, scan <- ioScan, born <- ioBorn, stopping <- ioStopping,
         todo <- ioTodo, fresh <- ioFresh, done <- ioDone, lost <- ioLost,
         fault <- ioFault

\* cpu_thread_pool_ with what is proved of a pool.
CPUP == INSTANCE TaskPlaceProofs WITH
          Workers <- CpuWorkers, Pushers <- IoWorkers, Owner <- Main,
          Tasks <- Requests, Endless <- {}, Serial <- FALSE

\* The constants of the scheduler make the constants of its pools good ones.
LEMMA IoAssumption == IOP!PoolAssumption
  BY SchedulerAssumption DEF IOP!PoolAssumption, IOP!Callers

\* The same, for the CPU pool.
LEMMA CpuAssumption == CPUP!PoolAssumption
  BY SchedulerAssumption DEF CPUP!PoolAssumption, CPUP!Callers

\* IO and IOP are the same pool: what Scheduler says with the one is true of the
\* other.
LEMMA IoSame ==
  /\ IO!Init => IOP!Init
  /\ \A n : IO!RunBegin(n) => IOP!RunBegin(n)
  /\ \A c, t : IO!PushBegin(c, t) => IOP!PushBegin(c, t)
  /\ IO!JoinBegin => IOP!JoinBegin
  /\ \A w : IO!RunSpawn(w) => IOP!RunSpawn(w)
  /\ IO!RunAppend => IOP!RunAppend
  /\ IO!JoinEnd => IOP!JoinEnd
  /\ \A c : IO!PushStep(c) => IOP!PushStep(c)
  /\ \A w : IO!WorkerStep(w) => IOP!WorkerStep(w)
  /\ \A w : IO!WorkerOutrunsConstructor(w) => IOP!WorkerOutrunsConstructor(w)
  /\ IOP!TypeOK => IO!TypeOK
  /\ IOP!TaskInOnePlace => IO!TaskInOnePlace
<1> USE DEF IO!workerVars, IOP!workerVars, IO!callerVars, IOP!callerVars,
            IO!ownerVars, IOP!ownerVars, IO!taskVars, IOP!taskVars,
            IO!Callers, IOP!Callers, IO!NoScan, IOP!NoScan, IO!ReturnPc,
            IOP!ReturnPc, IO!StopPcs, IOP!StopPcs, IO!PushPcs, IOP!PushPcs
<1>1. IO!Init => IOP!Init
  BY DEF IO!Init, IOP!Init
<1>2. \A n : IO!RunBegin(n) => IOP!RunBegin(n)
  BY DEF IO!RunBegin, IOP!RunBegin, IO!Quiet, IOP!Quiet
<1>3. \A c, t : IO!PushBegin(c, t) => IOP!PushBegin(c, t)
  BY DEF IO!PushBegin, IOP!PushBegin
<1>4. IO!JoinBegin => IOP!JoinBegin
  BY DEF IO!JoinBegin, IOP!JoinBegin
<1>5. \A w : IO!RunSpawn(w) => IOP!RunSpawn(w)
  BY DEF IO!RunSpawn, IOP!RunSpawn
<1>6. IO!RunAppend => IOP!RunAppend
  BY DEF IO!RunAppend, IOP!RunAppend, IO!VectorRace, IOP!VectorRace,
     IO!PushInFlight, IOP!PushInFlight
<1>7. IO!JoinEnd => IOP!JoinEnd
  BY DEF IO!JoinEnd, IOP!JoinEnd, IO!Range, IOP!Range
<1>8. \A c : IO!PushStep(c) => IOP!PushStep(c)
  <2>1. \A c : IO!PushInline(c) => IOP!PushInline(c)
    BY DEF IO!PushInline, IOP!PushInline
  <2>2. \A c : IO!InlineFinish(c) => IOP!InlineFinish(c)
    BY DEF IO!InlineFinish, IOP!InlineFinish
  <2>3. \A c : IO!PushSelect(c) => IOP!PushSelect(c)
    BY DEF IO!PushSelect, IOP!PushSelect, IO!ValidIndex, IOP!ValidIndex,
       IO!ObservedSizes, IOP!ObservedSizes, IO!Mutating, IOP!Mutating
  <2>4. \A c : IO!PushScan(c) => IOP!PushScan(c)
    BY DEF IO!PushScan, IOP!PushScan, IO!ValidIndex, IOP!ValidIndex,
       IO!ObservedSizes, IOP!ObservedSizes, IO!Mutating, IOP!Mutating
  <2>5. \A c : IO!PushScanEnd(c) => IOP!PushScanEnd(c)
    BY DEF IO!PushScanEnd, IOP!PushScanEnd
  <2>6. \A c : IO!PushReach(c) => IOP!PushReach(c)
    BY DEF IO!PushReach, IOP!PushReach, IO!ValidIndex, IOP!ValidIndex
  <2>7. \A c : IO!PushLock(c) => IOP!PushLock(c)
    BY DEF IO!PushLock, IOP!PushLock
  <2>8. \A c : IO!PushEnqueue(c) => IOP!PushEnqueue(c)
    BY DEF IO!PushEnqueue, IOP!PushEnqueue, IO!ValidIndex, IOP!ValidIndex
  <2>9. \A c : IO!PushNotify(c) => IOP!PushNotify(c)
    BY DEF IO!PushNotify, IOP!PushNotify, IO!ValidIndex, IOP!ValidIndex
  <2>10. \A c : IO!PushFault(c) => IOP!PushFault(c)
    BY DEF IO!PushFault, IOP!PushFault, IO!ValidIndex, IOP!ValidIndex,
       IO!Destroyed, IOP!Destroyed, IO!Range, IOP!Range
  <2> QED BY <2>1, <2>2, <2>3, <2>4, <2>5, <2>6, <2>7, <2>8, <2>9, <2>10
           DEF IO!PushStep, IOP!PushStep
<1>9. \A w : IO!WorkerStep(w) => IOP!WorkerStep(w)
  <2>1. \A w : IO!WorkerEnter(w) => IOP!WorkerEnter(w)
    BY DEF IO!WorkerEnter, IOP!WorkerEnter
  <2>2. \A w : IO!WorkerTimeout(w) => IOP!WorkerTimeout(w)
    BY DEF IO!WorkerTimeout, IOP!WorkerTimeout
  <2>3. \A w : IO!WorkerTest(w) => IOP!WorkerTest(w)
    BY DEF IO!WorkerTest, IOP!WorkerTest
  <2>4. \A w : IO!WorkerTake(w) => IOP!WorkerTake(w)
    BY DEF IO!WorkerTake, IOP!WorkerTake
  <2>5. \A w : IO!WorkerFinish(w) => IOP!WorkerFinish(w)
    BY DEF IO!WorkerFinish, IOP!WorkerFinish
  <2> QED BY <2>1, <2>2, <2>3, <2>4, <2>5
           DEF IO!WorkerStep, IOP!WorkerStep
<1>10. IOP!TypeOK => IO!TypeOK
  BY DEF IO!Scans, IOP!Scans, IO!TypeOK, IOP!TypeOK, IO!WorkerPcs, IOP!WorkerPcs, IO!CallerPcs,
     IOP!CallerPcs, IO!Statuses, IOP!Statuses
<1>11. IOP!TaskInOnePlace => IO!TaskInOnePlace
  BY DEF IO!TaskInOnePlace, IOP!TaskInOnePlace, IO!Places, IOP!Places
<1>12. \A w : IO!WorkerOutrunsConstructor(w) => IOP!WorkerOutrunsConstructor(w)
  BY DEF IO!WorkerOutrunsConstructor, IOP!WorkerOutrunsConstructor
<1> QED BY <1>1, <1>2, <1>3, <1>4, <1>5, <1>6, <1>7, <1>8, <1>9, <1>10, <1>11,
           <1>12

\* CPU and CPUP are the same pool.
LEMMA CpuSame ==
  /\ CPU!Init => CPUP!Init
  /\ \A n : CPU!RunBegin(n) => CPUP!RunBegin(n)
  /\ \A c, t : CPU!PushBegin(c, t) => CPUP!PushBegin(c, t)
  /\ CPU!JoinBegin => CPUP!JoinBegin
  /\ \A w : CPU!RunSpawn(w) => CPUP!RunSpawn(w)
  /\ CPU!RunAppend => CPUP!RunAppend
  /\ CPU!JoinEnd => CPUP!JoinEnd
  /\ \A c : CPU!PushStep(c) => CPUP!PushStep(c)
  /\ \A w : CPU!WorkerStep(w) => CPUP!WorkerStep(w)
  /\ \A w : CPU!WorkerOutrunsConstructor(w) => CPUP!WorkerOutrunsConstructor(w)
  /\ CPUP!TypeOK => CPU!TypeOK
  /\ CPUP!TaskInOnePlace => CPU!TaskInOnePlace
<1> USE DEF CPU!workerVars, CPUP!workerVars, CPU!callerVars, CPUP!callerVars,
            CPU!ownerVars, CPUP!ownerVars, CPU!taskVars, CPUP!taskVars,
            CPU!Callers, CPUP!Callers, CPU!NoScan, CPUP!NoScan, CPU!ReturnPc,
            CPUP!ReturnPc, CPU!StopPcs, CPUP!StopPcs, CPU!PushPcs,
            CPUP!PushPcs
<1>1. CPU!Init => CPUP!Init
  BY DEF CPU!Init, CPUP!Init
<1>2. \A n : CPU!RunBegin(n) => CPUP!RunBegin(n)
  BY DEF CPU!RunBegin, CPUP!RunBegin, CPU!Quiet, CPUP!Quiet
<1>3. \A c, t : CPU!PushBegin(c, t) => CPUP!PushBegin(c, t)
  BY DEF CPU!PushBegin, CPUP!PushBegin
<1>4. CPU!JoinBegin => CPUP!JoinBegin
  BY DEF CPU!JoinBegin, CPUP!JoinBegin
<1>5. \A w : CPU!RunSpawn(w) => CPUP!RunSpawn(w)
  BY DEF CPU!RunSpawn, CPUP!RunSpawn
<1>6. CPU!RunAppend => CPUP!RunAppend
  BY DEF CPU!RunAppend, CPUP!RunAppend, CPU!VectorRace, CPUP!VectorRace,
     CPU!PushInFlight, CPUP!PushInFlight
<1>7. CPU!JoinEnd => CPUP!JoinEnd
  BY DEF CPU!JoinEnd, CPUP!JoinEnd, CPU!Range, CPUP!Range
<1>8. \A c : CPU!PushStep(c) => CPUP!PushStep(c)
  <2>1. \A c : CPU!PushInline(c) => CPUP!PushInline(c)
    BY DEF CPU!PushInline, CPUP!PushInline
  <2>2. \A c : CPU!InlineFinish(c) => CPUP!InlineFinish(c)
    BY DEF CPU!InlineFinish, CPUP!InlineFinish
  <2>3. \A c : CPU!PushSelect(c) => CPUP!PushSelect(c)
    BY DEF CPU!PushSelect, CPUP!PushSelect, CPU!ValidIndex, CPUP!ValidIndex,
       CPU!ObservedSizes, CPUP!ObservedSizes, CPU!Mutating, CPUP!Mutating
  <2>4. \A c : CPU!PushScan(c) => CPUP!PushScan(c)
    BY DEF CPU!PushScan, CPUP!PushScan, CPU!ValidIndex, CPUP!ValidIndex,
       CPU!ObservedSizes, CPUP!ObservedSizes, CPU!Mutating, CPUP!Mutating
  <2>5. \A c : CPU!PushScanEnd(c) => CPUP!PushScanEnd(c)
    BY DEF CPU!PushScanEnd, CPUP!PushScanEnd
  <2>6. \A c : CPU!PushReach(c) => CPUP!PushReach(c)
    BY DEF CPU!PushReach, CPUP!PushReach, CPU!ValidIndex, CPUP!ValidIndex
  <2>7. \A c : CPU!PushLock(c) => CPUP!PushLock(c)
    BY DEF CPU!PushLock, CPUP!PushLock
  <2>8. \A c : CPU!PushEnqueue(c) => CPUP!PushEnqueue(c)
    BY DEF CPU!PushEnqueue, CPUP!PushEnqueue, CPU!ValidIndex, CPUP!ValidIndex
  <2>9. \A c : CPU!PushNotify(c) => CPUP!PushNotify(c)
    BY DEF CPU!PushNotify, CPUP!PushNotify, CPU!ValidIndex, CPUP!ValidIndex
  <2>10. \A c : CPU!PushFault(c) => CPUP!PushFault(c)
    BY DEF CPU!PushFault, CPUP!PushFault, CPU!ValidIndex, CPUP!ValidIndex,
       CPU!Destroyed, CPUP!Destroyed, CPU!Range, CPUP!Range
  <2> QED BY <2>1, <2>2, <2>3, <2>4, <2>5, <2>6, <2>7, <2>8, <2>9, <2>10
           DEF CPU!PushStep, CPUP!PushStep
<1>9. \A w : CPU!WorkerStep(w) => CPUP!WorkerStep(w)
  <2>1. \A w : CPU!WorkerEnter(w) => CPUP!WorkerEnter(w)
    BY DEF CPU!WorkerEnter, CPUP!WorkerEnter
  <2>2. \A w : CPU!WorkerTimeout(w) => CPUP!WorkerTimeout(w)
    BY DEF CPU!WorkerTimeout, CPUP!WorkerTimeout
  <2>3. \A w : CPU!WorkerTest(w) => CPUP!WorkerTest(w)
    BY DEF CPU!WorkerTest, CPUP!WorkerTest
  <2>4. \A w : CPU!WorkerTake(w) => CPUP!WorkerTake(w)
    BY DEF CPU!WorkerTake, CPUP!WorkerTake
  <2>5. \A w : CPU!WorkerFinish(w) => CPUP!WorkerFinish(w)
    BY DEF CPU!WorkerFinish, CPUP!WorkerFinish
  <2> QED BY <2>1, <2>2, <2>3, <2>4, <2>5
           DEF CPU!WorkerStep, CPUP!WorkerStep
<1>10. CPUP!TypeOK => CPU!TypeOK
  BY DEF CPU!Scans, CPUP!Scans, CPU!TypeOK, CPUP!TypeOK, CPU!WorkerPcs, CPUP!WorkerPcs, CPU!CallerPcs,
     CPUP!CallerPcs, CPU!Statuses, CPUP!Statuses
<1>11. CPUP!TaskInOnePlace => CPU!TaskInOnePlace
  BY DEF CPU!TaskInOnePlace, CPUP!TaskInOnePlace, CPU!Places, CPUP!Places
<1>12. \A w : CPU!WorkerOutrunsConstructor(w) => CPUP!WorkerOutrunsConstructor(w)
  BY DEF CPU!WorkerOutrunsConstructor, CPUP!WorkerOutrunsConstructor
<1> QED BY <1>1, <1>2, <1>3, <1>4, <1>5, <1>6, <1>7, <1>8, <1>9, <1>10, <1>11,
           <1>12

-----------------------------------------------------------------------------
(* The inductive invariant: one part for each pool, one for main and the   *)
(* io_context.                                                             *)

\* The IO pool is never stopped.  No worker of it has been created before run(),
\* and run() has filled it when main comes to the CPU pool.
IoInv ==
  /\ IOP!Base /\ IOP!Placed /\ IOP!Growing
  /\ main = "start" => \A w \in IoWorkers : ioWpc[w] = "none"
  /\ ioCpc[Main] \in {"run", "ctor"} => main = "io"

\* The CPU pool is empty before run() has come to it, never stopped, and not
\* filled any more when main joins the threads.
CpuInv ==
  /\ CPUP!Base /\ CPUP!Placed /\ CPUP!Growing
  /\ main \in {"start", "io"} =>
       cpc[Main] = "idle" /\ \A w \in CpuWorkers : wpc[w] = "none"
  /\ main = "joining" => cpc[Main] = "idle"

\* The types of what belongs to neither pool.
OwnInv ==
  /\ main \in MainPcs /\ accepting \in BOOLEAN /\ stopped \in BOOLEAN
  /\ peer \in [Requests -> {"away", "waiting", "reading", "handed"}]

\* All of it, together.
SchedulerInv == IoInv /\ CpuInv /\ OwnInv

\* At the start both pools are empty.
LEMMA InitInv == Init => SchedulerInv
<1> SUFFICES ASSUME Init PROVE SchedulerInv
  OBVIOUS
<1>1. IOP!Init /\ CPUP!Init
  BY IoSame, CpuSame DEF Init
<1>2. IOP!Base /\ IOP!Placed
  BY <1>1, IoAssumption, IOP!InitBase, IOP!InitPlaced
<1>3. CPUP!Base /\ CPUP!Placed
  BY <1>1, CpuAssumption, CPUP!InitBase, CPUP!InitPlaced
<1>4. /\ ioCpc[Main] = "idle" /\ ioCpc[Placer] = "idle"
      /\ \A w \in IoWorkers : ioWpc[w] = "none"
      /\ IOP!Growing
  <2>1. /\ ioCpc[Main] = "idle" /\ ioCpc[Placer] = "idle"
        /\ \A w \in IoWorkers : ioWpc[w] = "none"
    BY <1>1 DEF IOP!Init, IOP!Callers
  <2> QED BY <2>1 DEF IOP!Growing, IOP!Indexed, IOP!Outrunning
<1>5. /\ cpc[Main] = "idle" /\ \A p \in IoWorkers : cpc[p] = "idle"
      /\ \A w \in CpuWorkers : wpc[w] = "none"
  BY <1>1 DEF CPUP!Init, CPUP!Callers
<1>6. CPUP!Growing
  BY <1>5 DEF CPUP!Growing, CPUP!Indexed, CPUP!Outrunning
<1>7. OwnInv
  BY DEF Init, OwnInv, MainPcs
<1> QED BY <1>2, <1>3, <1>4, <1>5, <1>6, <1>7 DEF SchedulerInv, IoInv, CpuInv

\* Main never runs an operation of the pool while none is left to create.
LEMMA WholePool ==
  ASSUME NEW S, IsFiniteSet(S), S # {}, NEW f, \A w \in S : f[w] = "none"
  PROVE  Cardinality(S) \in 1 .. Cardinality({w \in S : f[w] = "none"})
<1>1. {w \in S : f[w] = "none"} = S
  OBVIOUS
<1>2. Cardinality(S) \in Nat /\ Cardinality(S) # 0
  BY FS_CardinalityType, FS_EmptySet
<1> QED BY <1>1, <1>2


\* Both instances count the same way.
LEMMA SameCardinality ==
  /\ \A S : IOP!Cardinality(S) = Cardinality(S)
  /\ \A S : CPUP!Cardinality(S) = Cardinality(S)
BY Zenon DEF IOP!Cardinality, CPUP!Cardinality, Cardinality

\* The owner of a pool whose workers are all still to be created may run() them.
LEMMA IoRun ==
  ASSUME IOP!RunBegin(Cardinality(IoWorkers)), \A w \in IoWorkers : ioWpc[w] = "none"
  PROVE  IOP!OwnerCall /\ \E n \in Nat : IOP!RunBegin(n)
<1>1. PICK n : n = Cardinality(IoWorkers)
  OBVIOUS
<1>2. n \in 1 .. Cardinality({w \in IoWorkers : ioWpc[w] = "none"})
  BY <1>1, WholePool, SchedulerAssumption
<1>3. n \in Nat
  BY <1>1, SchedulerAssumption, FS_CardinalityType
<1> QED BY <1>1, <1>2, <1>3, SameCardinality DEF IOP!OwnerCall

\* A push() of a loop, by main.
LEMMA IoPush ==
  ASSUME SchedulerInv,
         IOP!PushStep(Placer) \/ \E l \in Loops : IOP!PushBegin(Placer, l),
         main' = main
  PROVE  IoInv' /\ UNCHANGED ioFault
<1>1. IOP!Base /\ IOP!Placed /\ IOP!Growing
  BY DEF SchedulerInv, IoInv
<1>2. Placer \in IOP!Callers
  BY DEF IOP!Callers
<1>3. IOP!Base'
  <2>1. CASE IOP!PushStep(Placer)
    BY <1>1, <1>2, <2>1, IoAssumption, IOP!PushBase
  <2>2. CASE \E l \in Loops : IOP!PushBegin(Placer, l)
    BY <1>1, <2>2, IoAssumption, IOP!CallBase
  <2> QED BY <2>1, <2>2
<1>4. IOP!Placed'
  BY <1>1, <1>2, IoAssumption, IOP!CallerPlaced
<1>5. /\ IOP!Growing' /\ UNCHANGED ioFault /\ ioCpc'[Main] = ioCpc[Main]
      /\ \A w \in IoWorkers : ioWpc[w] = "none" => ioWpc'[w] = "none"
  BY <1>1, IoAssumption, IOP!GrowingPush
<1> QED BY <1>3, <1>4, <1>5 DEF SchedulerInv, IoInv

\* A step of a worker of the IO pool, or of one that outruns its constructor.
LEMMA IoWorker ==
  ASSUME SchedulerInv, NEW w \in IoWorkers,
         IOP!WorkerStep(w) \/ IOP!WorkerOutrunsConstructor(w), main' = main
  PROVE  IoInv' /\ (ioFault' # ioFault => main = "io" /\ ioCpc[Main] = "ctor")
<1>1. IOP!Base /\ IOP!Placed /\ IOP!Growing
  BY DEF SchedulerInv, IoInv
<1>2. IOP!Base' /\ IOP!Placed'
  BY <1>1, IoAssumption, IOP!WorkerBase, IOP!WorkerPlaced
<1>3. /\ IOP!Growing' /\ ioCpc'[Main] = ioCpc[Main]
      /\ UNCHANGED ioFault \/ ioCpc[Main] = "ctor"
      /\ \A v \in IoWorkers : ioWpc[v] = "none" => ioWpc'[v] = "none"
  BY <1>1, IoAssumption, IOP!GrowingWorker, IOP!GrowingOutrun
<1> QED BY <1>2, <1>3 DEF SchedulerInv, IoInv

\* A step of main in run() or join() of the IO pool.
LEMMA IoOwner ==
  ASSUME SchedulerInv,
         \/ main = "start" /\ main' = "io" /\ IOP!RunBegin(Cardinality(IoWorkers))
         \/ main' = "joining" /\ IOP!JoinBegin
         \/ /\ main' = main
            /\ \/ \E w \in IoWorkers : IOP!RunSpawn(w)
               \/ IOP!RunAppend \/ IOP!JoinEnd
  PROVE  IoInv' /\ (ioFault' # ioFault => main = "io" /\ ioCpc[Main] = "ctor")
<1>1. /\ IOP!Base /\ IOP!Placed /\ IOP!Growing
      /\ main = "start" => \A w \in IoWorkers : ioWpc[w] = "none"
      /\ ioCpc[Main] \in {"run", "ctor"} => main = "io"
  BY DEF SchedulerInv, IoInv
<1>2. CASE main = "start" /\ main' = "io" /\ IOP!RunBegin(Cardinality(IoWorkers))
  <2>1. IOP!OwnerCall /\ \E n \in Nat : IOP!RunBegin(n)
    BY <1>1, <1>2, IoRun
  <2>2. IOP!Base' /\ IOP!Placed' /\ IOP!Growing'
    BY <1>1, <2>1, IoAssumption, IOP!CallBase, IOP!OwnerPlaced, IOP!GrowingOwner
  <2>3. UNCHANGED ioFault
    BY <1>2 DEF IOP!RunBegin
  <2> QED BY <1>2, <2>2, <2>3 DEF IoInv
<1>3. CASE main' = "joining" /\ IOP!JoinBegin
  <2>1. IOP!OwnerCall
    BY <1>3 DEF IOP!OwnerCall
  <2>2. IOP!Base' /\ IOP!Placed' /\ IOP!Growing'
    BY <1>1, <1>3, <2>1, IoAssumption, IOP!CallBase, IOP!OwnerPlaced,
       IOP!GrowingOwner
  <2>3. UNCHANGED ioFault /\ ioCpc'[Main] = "joining"
    BY <1>1, <1>3 DEF IOP!JoinBegin, IOP!Base, IOP!TypeOK, IOP!Callers
  <2> QED BY <1>3, <2>2, <2>3 DEF IoInv
<1>4. CASE /\ main' = main
           /\ IOP!RunAppend \/ IOP!JoinEnd \/ \E w \in IoWorkers : IOP!RunSpawn(w)
  <2>1. IOP!OwnerStep
    BY <1>4 DEF IOP!OwnerStep
  <2>2. IOP!Base' /\ IOP!Placed' /\ IOP!Growing'
    BY <1>1, <1>4, <2>1, IoAssumption, IOP!OwnerBase, IOP!OwnerPlaced,
       IOP!GrowingOwner
  <2>3. CASE IOP!RunAppend \/ \E w \in IoWorkers : IOP!RunSpawn(w)
    <3>1. ioCpc[Main] \in {"run", "ctor"} /\ (IOP!RunAppend => ioCpc[Main] = "ctor")
      BY <2>3 DEF IOP!RunAppend, IOP!RunSpawn
    <3>2. main = "io" /\ main' = "io"
      BY <1>1, <1>4, <3>1
    <3>3. IOP!RunAppend \/ UNCHANGED ioFault
      BY <2>3 DEF IOP!RunSpawn
    <3> QED BY <2>2, <3>1, <3>2, <3>3 DEF IoInv
  <2>4. CASE IOP!JoinEnd
    <3>1. /\ ioCpc[Main] = "joining" /\ ioCpc'[Main] = "idle"
          /\ UNCHANGED <<ioWpc, ioFault>>
      BY <1>1, <2>4
         DEF IOP!JoinEnd, IOP!Base, IOP!TypeOK, IOP!Callers, IOP!workerVars
    <3> QED BY <1>1, <1>4, <2>2, <3>1 DEF IoInv
  <2> QED BY <1>4, <2>3, <2>4
<1> QED BY <1>2, <1>3, <1>4

\* Whatever main, the IO workers and the handlers do, the IO pool stays sound, and
\* a fault in it comes while main is building a worker of it.
LEMMA IoKept ==
  ASSUME SchedulerInv, [Next]_vars
  PROVE  IoInv' /\ (ioFault' # ioFault => main = "io" /\ ioCpc[Main] = "ctor")
<1>1. CASE StartIo
  BY <1>1, IoSame, IoOwner DEF StartIo
<1>2. CASE PlaceLoop
  <2>1. main' = main /\ \E l \in Loops : IOP!PushBegin(Placer, l)
    BY <1>2, IoSame DEF PlaceLoop
  <2> QED BY <2>1, IoPush
<1>3. CASE JoinThreads
  BY <1>3, IoSame, IoOwner DEF JoinThreads
<1>4. CASE IoPoolStep
  <2>1. /\ main' = main
        /\ \/ \E w \in IoWorkers : \/ IOP!RunSpawn(w) \/ IOP!WorkerStep(w)
                                   \/ IOP!WorkerOutrunsConstructor(w)
           \/ IOP!RunAppend \/ IOP!PushStep(Placer) \/ IOP!JoinEnd
    BY <1>4, IoSame DEF IoPoolStep, context
  <2> QED BY <2>1, IoPush, IoWorker, IoOwner
<1>5. CASE /\ UNCHANGED ioVars /\ (main' = "start" => main = "start")
           /\ main = "io" => main' = "io" \/ ioCpc[Main] = "idle"
  <2>1. /\ UNCHANGED <<ioThreads, ioQueue, ioMutex, ioStatus, ioWpc, ioRunning, ioCpc,
                       ioArg, ioScan, ioBorn, ioStopping, ioTodo, ioFresh, ioDone,
                       ioLost, ioFault>>
        /\ UNCHANGED IOP!vars
    BY <1>5 DEF ioVars, IOP!vars, IOP!workerVars, IOP!callerVars,
       IOP!ownerVars, IOP!taskVars
  <2>2. IOP!Base' /\ IOP!Placed'
    BY <2>1, IoAssumption, IOP!NextBase, IOP!NextPlaced DEF SchedulerInv, IoInv
  <2>3. IOP!Growing'
    BY <2>1 DEF SchedulerInv, IoInv, IOP!Growing, IOP!Indexed, IOP!Outrunning
  <2> QED BY <1>5, <2>1, <2>2, <2>3 DEF SchedulerInv, IoInv
<1>6. AsyncAccept \/ StartCpu \/ CpuPoolStep
        \/ (\E w \in IoWorkers : OutOfWork(w) \/ AcceptFails(w) \/ Handler(w))
        \/ (\E r \in Requests : Connect(r)) \/ UNCHANGED vars =>
      /\ UNCHANGED ioVars /\ (main' = "start" => main = "start")
      /\ main = "io" => main' = "io" \/ ioCpc[Main] = "idle"
  BY DEF AsyncAccept, StartCpu, CpuPoolStep, OutOfWork, AcceptFails,
     AcceptFailsThen, Handler, OnAccept, PrepareTask, Connect, vars
<1> QED BY <1>1, <1>2, <1>3, <1>4, <1>5, <1>6 DEF Next, MainCall

\* The owner of a pool whose workers are all still to be created may run() them.
LEMMA CpuRun ==
  ASSUME CPUP!RunBegin(Cardinality(CpuWorkers)), \A w \in CpuWorkers : wpc[w] = "none"
  PROVE  CPUP!OwnerCall /\ \E n \in Nat : CPUP!RunBegin(n)
<1>1. PICK n : n = Cardinality(CpuWorkers)
  OBVIOUS
<1>2. n \in 1 .. Cardinality({w \in CpuWorkers : wpc[w] = "none"})
  BY <1>1, WholePool, SchedulerAssumption
<1>3. n \in Nat
  BY <1>1, SchedulerAssumption, FS_CardinalityType
<1> QED BY <1>1, <1>2, <1>3, SameCardinality DEF CPUP!OwnerCall

\* A push() to the CPU pool, by a handler that an IO worker executes.
LEMMA CpuPush ==
  ASSUME SchedulerInv, NEW p \in IoWorkers,
         CPUP!PushStep(p) \/ \E r \in Requests : CPUP!PushBegin(p, r),
         main' = main
  PROVE  CpuInv' /\ UNCHANGED fault
<1>1. CPUP!Base /\ CPUP!Placed /\ CPUP!Growing
  BY DEF SchedulerInv, CpuInv
<1>2. p \in CPUP!Callers
  BY DEF CPUP!Callers
<1>3. CPUP!Base'
  <2>1. CASE CPUP!PushStep(p)
    BY <1>1, <1>2, <2>1, CpuAssumption, CPUP!PushBase
  <2>2. CASE \E r \in Requests : CPUP!PushBegin(p, r)
    BY <1>1, <2>2, CpuAssumption, CPUP!CallBase
  <2> QED BY <2>1, <2>2
<1>4. CPUP!Placed'
  BY <1>1, <1>2, CpuAssumption, CPUP!CallerPlaced
<1>5. /\ CPUP!Growing' /\ UNCHANGED fault /\ cpc'[Main] = cpc[Main]
      /\ \A w \in CpuWorkers : wpc[w] = "none" => wpc'[w] = "none"
  BY <1>1, CpuAssumption, CPUP!GrowingPush
<1> QED BY <1>3, <1>4, <1>5 DEF SchedulerInv, CpuInv

\* A step of a worker of the CPU pool, or of one that outruns its constructor.
LEMMA CpuWorker ==
  ASSUME SchedulerInv, NEW w \in CpuWorkers,
         CPUP!WorkerStep(w) \/ CPUP!WorkerOutrunsConstructor(w), main' = main
  PROVE  CpuInv' /\ (fault' # fault => main = "cpu" /\ cpc[Main] = "ctor")
<1>1. CPUP!Base /\ CPUP!Placed /\ CPUP!Growing /\ main \in MainPcs
  BY DEF SchedulerInv, CpuInv, OwnInv
<1>2. CPUP!Base' /\ CPUP!Placed'
  BY <1>1, CpuAssumption, CPUP!WorkerBase, CPUP!WorkerPlaced
<1>3. /\ CPUP!Growing' /\ cpc'[Main] = cpc[Main]
      /\ UNCHANGED fault \/ cpc[Main] = "ctor"
      /\ \A v \in CpuWorkers : wpc[v] = "none" => wpc'[v] = "none"
  BY <1>1, CpuAssumption, CPUP!GrowingWorker, CPUP!GrowingOutrun
<1> QED BY <1>1, <1>2, <1>3 DEF SchedulerInv, CpuInv, MainPcs

\* A step of main in run() of the CPU pool, which it is in at main = "cpu" only.
LEMMA CpuOwner ==
  ASSUME SchedulerInv,
         \/ main = "io" /\ main' = "cpu" /\ CPUP!RunBegin(Cardinality(CpuWorkers))
         \/ main' = main /\ \E w \in CpuWorkers : CPUP!RunSpawn(w)
         \/ main' = main /\ CPUP!RunAppend
  PROVE  CpuInv' /\ (fault' # fault => main = "cpu" /\ cpc[Main] = "ctor")
<1>1. CPUP!Base /\ CPUP!Placed /\ CPUP!Growing /\ main \in MainPcs
  BY DEF SchedulerInv, CpuInv, OwnInv
<1>2. CASE main = "io" /\ main' = "cpu" /\ CPUP!RunBegin(Cardinality(CpuWorkers))
  <2>1. CPUP!OwnerCall /\ \E n \in Nat : CPUP!RunBegin(n)
    BY <1>2, CpuRun DEF SchedulerInv, CpuInv
  <2>2. CPUP!Base' /\ CPUP!Placed' /\ CPUP!Growing'
    BY <1>1, <2>1, CpuAssumption, CPUP!CallBase, CPUP!OwnerPlaced,
       CPUP!GrowingOwner
  <2>3. UNCHANGED fault
    BY <1>2 DEF CPUP!RunBegin
  <2> QED BY <1>2, <2>2, <2>3 DEF CpuInv
<1>3. CASE main' = main /\ (CPUP!RunAppend \/ \E w \in CpuWorkers : CPUP!RunSpawn(w))
  <2>1. /\ cpc[Main] \in {"run", "ctor"} /\ (CPUP!RunAppend => cpc[Main] = "ctor")
        /\ CPUP!RunAppend \/ UNCHANGED fault
    BY <1>3 DEF CPUP!RunAppend, CPUP!RunSpawn
  <2>2. main = "cpu"
    BY <1>1, <2>1 DEF SchedulerInv, CpuInv, MainPcs
  <2>3. CPUP!OwnerStep
    BY <1>3 DEF CPUP!OwnerStep
  <2>4. CPUP!Base' /\ CPUP!Placed' /\ CPUP!Growing'
    BY <1>1, <1>3, <2>3, CpuAssumption, CPUP!OwnerBase, CPUP!OwnerPlaced,
       CPUP!GrowingOwner
  <2> QED BY <1>3, <2>1, <2>2, <2>4 DEF CpuInv
<1> QED BY <1>2, <1>3

\* Whatever main, the CPU workers and the handlers do, the CPU pool stays sound,
\* and a fault in it comes while main is building a worker of it.
LEMMA CpuKept ==
  ASSUME SchedulerInv, [Next]_vars
  PROVE  CpuInv' /\ (fault' # fault => main = "cpu" /\ cpc[Main] = "ctor")
<1>1. CASE StartCpu
  BY <1>1, CpuSame, CpuOwner DEF StartCpu
<1>2. CASE \E w \in IoWorkers : PrepareTask(w)
  <2>1. PICK w \in IoWorkers : PrepareTask(w)
    BY <1>2
  <2>2. main' = main /\ \E r \in Requests : CPUP!PushBegin(w, r)
    BY <2>1, CpuSame DEF PrepareTask
  <2> QED BY <2>2, CpuPush
<1>3. CASE CpuPoolStep
  <2>1. /\ main' = main
        /\ \/ \E w \in CpuWorkers : \/ CPUP!RunSpawn(w) \/ CPUP!WorkerStep(w)
                                    \/ CPUP!WorkerOutrunsConstructor(w)
           \/ \E w \in IoWorkers : CPUP!PushStep(w)
           \/ CPUP!RunAppend
    BY <1>3, CpuSame DEF CpuPoolStep, context
  <2> QED BY <2>1, CpuPush, CpuWorker, CpuOwner
<1>4. CASE UNCHANGED cpuVars /\ (main' \in {"start", "io"} => main \in {"start", "io"})
             /\ (main' = "joining" => main = "joining" \/ cpc[Main] = "idle")
  <2>1. /\ UNCHANGED <<threads, queue, mutex, status, wpc, running, cpc, arg, scan,
                       born, stopping, todo, fresh, done, lost, fault>>
        /\ UNCHANGED CPUP!vars
    BY <1>4 DEF cpuVars, CPUP!vars, CPUP!workerVars, CPUP!callerVars,
       CPUP!ownerVars, CPUP!taskVars
  <2>2. CPUP!Base' /\ CPUP!Placed'
    BY <2>1, CpuAssumption, CPUP!NextBase, CPUP!NextPlaced DEF SchedulerInv, CpuInv
  <2>3. CPUP!Growing'
    BY <2>1 DEF SchedulerInv, CpuInv, CPUP!Growing, CPUP!Indexed, CPUP!Outrunning
  <2> QED BY <1>4, <2>1, <2>2, <2>3 DEF SchedulerInv, CpuInv
<1>5. AsyncAccept \/ StartIo \/ PlaceLoop \/ JoinThreads \/ IoPoolStep
        \/ (\E w \in IoWorkers :
              OutOfWork(w) \/ AcceptFails(w) \/ \E r \in Requests : OnAccept(w, r))
        \/ (\E r \in Requests : Connect(r)) \/ UNCHANGED vars =>
      /\ UNCHANGED cpuVars /\ (main' \in {"start", "io"} => main \in {"start", "io"})
      /\ main' = "joining" => main = "joining" \/ cpc[Main] = "idle"
  BY DEF AsyncAccept, StartIo, PlaceLoop, JoinThreads, IoPoolStep, OutOfWork,
     AcceptFails, AcceptFailsThen, OnAccept, Connect, vars
<1> QED BY <1>1, <1>2, <1>3, <1>4, <1>5 DEF Next, MainCall, Handler

\* Every step leaves main and the connections in one of their states.
LEMMA OwnKept == SchedulerInv /\ [Next]_vars => OwnInv'
<1> SUFFICES ASSUME SchedulerInv, [Next]_vars PROVE OwnInv'
  OBVIOUS
<1>1. OwnInv
  BY DEF SchedulerInv
<1> QED BY <1>1
     DEF OwnInv, MainPcs, Next, MainCall, Handler, AsyncAccept, StartIo, PlaceLoop,
         StartCpu, JoinThreads, IoPoolStep, CpuPoolStep, OutOfWork, AcceptFails,
         AcceptFailsThen, OnAccept, PrepareTask, Connect, vars, context

\* The invariant holds at every moment.
LEMMA InvariantAlways == Spec => []SchedulerInv
<1>1. SchedulerInv /\ [Next]_vars => SchedulerInv'
  BY IoKept, CpuKept, OwnKept DEF SchedulerInv
<1> QED BY <1>1, InitInv, PTL DEF Spec

-----------------------------------------------------------------------------
(* The theorems.                                                           *)

(* Every variable of both pools and of the io_context keeps its type, with *)
(* any number of threads and connections (scheduler.cpp:19-51).            *)
THEOREM SchedulerTypes == Spec => []TypeOK
<1>1. SchedulerInv => TypeOK
  BY IoSame, CpuSame
     DEF SchedulerInv, IoInv, CpuInv, OwnInv, TypeOK, IOP!Base, CPUP!Base
<1> QED BY <1>1, InvariantAlways, PTL

(* run() pushes the loops, and from them IO workers push the requests to a *)
(* pool that main may still be filling: no lambda vanishes or runs twice,  *)
(* in either pool (scheduler.cpp:23-37, 49-51; thread_pool.cpp:15-42).     *)
THEOREM LambdasAlways == Spec => []LambdasInOnePlace
<1>1. ASSUME SchedulerInv PROVE LambdasInOnePlace
  <2>1. IOP!TypeOK /\ IOP!Placed /\ CPUP!TypeOK /\ CPUP!Placed
    BY <1>1 DEF SchedulerInv, IoInv, CpuInv, IOP!Base, CPUP!Base
  <2>2. IOP!TaskInOnePlace /\ CPUP!TaskInOnePlace
    BY <2>1, IoAssumption, CpuAssumption, IOP!PlacedInOne, CPUP!PlacedInOne
  <2> QED BY <2>2, IoSame, CpuSame DEF LambdasInOnePlace
<1> QED BY <1>1, InvariantAlways, PTL

(* A pool can reach undefined behaviour only while run() builds a worker   *)
(* of it: each fault of the IO pool comes in the construction of an IO     *)
(* worker, each fault of the CPU pool in that of a CPU worker, although    *)
(* requests are pushed during the latter and the pools are then used for   *)
(* ever (scheduler.cpp:23-37, thread_pool.hpp:23-28,                       *)
(* thread_pool.cpp:22-40).                                                 *)
THEOREM FaultsAtStart == Spec => FaultsOnlyAtStart
<1>1. ASSUME SchedulerInv, [Next]_vars
      PROVE  [/\ ioFault' /\ ~ioFault => main = "io" /\ ioCpc[Main] = "ctor"
              /\ fault' /\ ~fault => main = "cpu" /\ cpc[Main] = "ctor"]_vars
  BY <1>1, IoKept, CpuKept
<1> QED BY <1>1, InvariantAlways, PTL DEF FaultsOnlyAtStart, Spec
=============================================================================
