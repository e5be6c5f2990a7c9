# A TLA+ model of routine-http

routine-http is a small HTTP server library in C++20 on top of (standalone)
asio.  A `Scheduler` owns two thread pools.  Workers of the *IO pool* run
`io_context::run()`, accept connections and read requests; each request is
then handed to the *CPU pool*, whose workers run the user's handler, write the
response and start the next read on the same socket.  There are no strands and
hardly any locks: what keeps the parts apart is the order in which they hand a
session to each other.  That order, the pools below it and the routing tables
beside it are what is specified, model-checked and in part proved here.

Paths such as `thread_pool.cpp:36` are relative to `source/` or `include/`.

## 1. Inventory

| Component | State | Operations | Used by |
|---|---|---|---|
| `ThreadPool`, `CpuThreadWorker` (thread_pool.*) | vector of workers; per worker a queue, mutex, condition variable, status, thread | `run`, `stop`, `push`, `join`, the loop `process_worker` | Scheduler |
| `Scheduler` (scheduler.*) | an IO pool, a CPU pool, the io_context, router, IO timeout | `run`, `prepare_task`, `join_threads`, setters | Acceptor, HttpSession, main |
| `Acceptor` (net/acceptor.hpp) | listening socket | `async_accept`, `on_accept` | main, Scheduler's IO workers |
| `HttpSession` (net/http_session.*) | socket, timer, a buffer per read | server: `run_process`, `read_request`, `send_response`, `close`; client: `send_request`, `read_response` | Acceptor, CPU tasks |
| `RequestHandler` (request_handler.hpp) | none (user code) | `prepare_request`, `process_request` | HttpSession |
| `RouteHandler` (http/route_handler.hpp) | map of static paths, tree of dynamic ones | `add_handler`, `route` | Scheduler's router, HttpSession |
| `Request` (http/request.*) | method, path, path and query parameters, headers, body | parse, `prepare_request` | HttpSession, handlers |
| `Response`, `Headers`, bodies (http/*) | status, fields, body | handlers' setters, `prepare_response`, parsing of fields | HttpSession, handlers |
| `Parameters` (http/params.hpp) | name to value | `emplace`, `operator[]`, conversions | Request |
| path utilities (utils/utils.hpp) | none | `split_string`, `format_path` | Request, RouteHandler |

How they interact: `main` calls `Scheduler::run` and then blocks in
`join_threads`.  An IO worker executes an endless task around
`io_context::run()`; whatever handler it runs there may call `prepare_task`,
which is `push` of the CPU pool.  A CPU worker calls back into the session:
`send_response`, then `run_process`, which starts an asynchronous read whose
handler an IO worker runs.  The timer's handler runs on any IO worker at any
time.  Socket and timer are shared without synchronisation.

What is hard here, and which property answers for it:

* `push` searches for the shortest queue without a lock, and indexes the
  vector again for the lock, the append and the notification, while `run` and
  `stop` change that vector: `TaskInOnePlace` whatever happens, `NoFault` for
  callers that serialise, `FaultsOnlyAtStart` for the Scheduler.
* a worker's thread is started before the members it uses are built:
  `RunCreatesThreads`.
* `stop` moves tasks from stopped workers to others through the same `push`,
  with a mutex held: `NoTaskLeftBehind`, `StoppedWorkersArePrivate`,
  `TaskPoolSpec`.
* the notification follows the unlock, and `stop` notifies nobody:
  `EveryTaskSettles`, `StopReturns`.
* an io_context without work stops for good, and a failed accept must not be
  the last one: `ContextIsServed`, `ConnectionsAreServed`.
* a session hops between the pools; a read, a task, a timer may all hold it:
  `OneChain`, `Attended`, `PatientPeersAreAnswered`, `ExchangeSpec`.
* the timer is armed after the read was started, cancelled after it may have
  fired, and closes the socket in several steps: `WaitingIsWatched`,
  `OnlyTimeoutInterrupts`, `CrashNeedsTimeout`, `SessionsEnd`.
* one `async_write_some` is all that writes a response, from a string that may
  be gone: `FittingAnswersAreWhole`.
* a client's callback has to come once, whatever fails: `CalledOnceAtTheEnd`,
  `SessionsEnd`.
* routing must not depend on the order of an `unordered_map`, nor be changed
  by an insertion that throws: `OneParameterPerLevel`, `LatestIsReached`,
  `ThrowChangesNothing`.
* one response may be prepared, changed and prepared again:
  `ReceiverReadsLength`, `PrepareKeepsFields`.
* what one side writes the other has to read, through tables, splits and
  parsers that are written separately: `ReceiverReadsMethod`,
  `ReceiverReadsPath`, `ReceiverReadsQuery`, `ReceiverReadsFields`,
  `PlainPathIsKey`.

Some hazards no property catches, because the code has nothing against them: an
index that goes stale when `stop` overlaps a `push`, a timer that fires while a
request is processed, a second request that arrives together with the first, an
exception that nobody catches, a request line of too few parts.  The models
have them; the properties say that nothing else goes wrong, and name them as
exceptions.  PROJECT.json says so of each ("note").

## 2. Modules and how they correspond to the code

| Module | Models | Extends / instantiates |
|---|---|---|
| `TaskPool` | the promise of a pool: every lambda is executed once, or destroyed unexecuted | |
| `ThreadPool` | `ThreadPool` and `CpuThreadWorker` | `TaskPool` as `TP`, under a refinement mapping |
| `ThreadPoolProofs` | proofs about `ThreadPool`: types, indices, who owns a worker and its deque | `ThreadPool` |
| `TaskPlaceProofs` | proofs that no task is lost or doubled, and that the pool implements `TaskPool` | `ThreadPoolProofs` |
| `Scheduler` | `Scheduler::run`, `prepare_task`, `join_threads`, the io_context, the `Acceptor` | `ThreadPool` twice, as `IO` and `CPU` |
| `SchedulerProofs` | proofs about `Scheduler` | `Scheduler`; `TaskPlaceProofs` twice, as `IOP` and `CPUP` |
| `Exchange` | what a server's session promises its peer: one request at a time, in order, answered once or given up at the end | |
| `HttpSession` | `HttpSession` of a server and of a client, the accept, the timer, the peer | `Exchange` as `EX(s)`, under a refinement mapping |
| `HttpSessionProofs` | proofs about `HttpSession` | `HttpSession` |
| `ExchangeProofs` | proofs of what becomes of each request, and that a session implements `Exchange` | `HttpSessionProofs` |
| `RouteHandler` | `add_handler`, `route` | |
| `RouteHandlerProofs` | proofs about `RouteHandler` | `RouteHandler` |
| `Response` | `Response`, `Headers`, `MemoryBody`, `JsonBody` | |
| `ResponseProofs` | proofs about `Response` | `Response` |
| `Request` | a request: parsed from its lines, changed by a client, written, and parsed by the receiver; `Parameters`, the texts of utils.hpp | |
| `RequestProofs` | proofs about `Request`: what is written is what is read | `Request` |

`MCThreadPool`, `MCHttpSession`, `MCRouteHandler`, `MCResponse` and `MCRequest`
only add the values TLC needs.  Operators introduced by a comment "Mutant: ..." are
deliberately wrong variants of the definition that follows; they are not part
of any specification and serve to show that each property can be violated.

**ThreadPool.**  An action is the code between two points at which another
thread can see or change what the code depends on.  `push` is `PushBegin`,
then `PushInline` (no worker: the caller executes the lambda) or `PushSelect`,
`PushScan` once per worker, `PushScanEnd`, `PushReach` (the index is evaluated),
`PushLock` (the mutex found there is locked, perhaps after a wait),
`PushEnqueue`, `PushNotify`.  Reads of a queue that another thread is changing return any
size up to `TornMax`.  `process_worker` is `WorkerEnter` (lock, predicate,
sleep), `WorkerTimeout` (the 100 ms), `WorkerTest`, `WorkerTake`,
`WorkerFinish`; `stop` is `StopBegin`, `StopFlag`, `StopJoin`, `StopErase` and
the drain loop.  `cpc`/`wpc` are program counters, `arg` and `scan` locals of
`push`, `stopping` and `todo` locals of `stop`.  Undefined behaviour (an index
out of the vector, a moved-from element, a mutex that is gone, a queue changed
under another mutex, a vector changed under a reader) sets `fault`, and the behaviour ends there.
`EarlyStart` lets a thread run before its worker is constructed, which the
order of the members in thread_pool.hpp:23-28 allows: it finds in them whatever
the memory holds, and ends or does something undefined.

**Scheduler.**  The main thread is the owner of both pools.  As the caller of
`push` of the IO pool it is a second identity, `Placer`, since `ThreadPool`
distinguishes the owner from the pushers.  The pushers of the CPU pool are the
IO workers, and one may push as soon as its loop is running.  `accepting` is a
pending `async_accept`, which main starts before or after `run()` and
`on_accept` renews, with an error (`AcceptFails`) or without (`OnAccept`).
`EarlyStart` is that of both pools.  `peer` follows each connection to the queue
of the CPU pool.  `stopped` is the
io_context's flag: `OutOfWork` sets it when no operation is pending and no
handler executes, and nobody resets it.

**HttpSession.**  A thread has a program counter and its locals (`th`); the
threads of the two pools share the code of `run_process` and `close`
(`CommonStep`).  What belongs to a connection is a record, `conn[s]`.  An
asynchronous read is its field `rd`, from `pending` to a completion that an
idle IO thread picks up; the blocking read of a body keeps its thread in
`body`.  The timer is `armed`, and `fired` counts its handlers that can no
longer be cancelled.  `Expire` may happen whenever the timer is armed: how
long a step takes is left open.  What a peer sends is a sequence of pieces, a
header or the body that belongs to one, of which it may send any prefix at any
pace, before or after the responses, and then close.  A response is a number
of units of which the socket takes `Room` before the peer reads (`PeerRead`):
what does not fit at once is cut, and what finds no room waits in `late` until
`LateWrite` sends what then lies in its place.  Each asio call is one atomic
step, and so is each test of `is_open`.  `close` is four steps (`CloseTest`,
`CloseCancel`, `CloseDown`, `CloseShut`): after the `shutdown` the socket is still
open, but nothing more comes out of it or goes into it (`shut`, `AtEnd`, `Over`),
and another thread may close it first.  `send_response` is `Send` (the test),
`Write` (which may fail, because the connection is over since the test or the
peer refuses) and `Rearm`.  A header that the `Request` constructor cannot read
(`bad`), a length that is no number (`odd`) and a `prepare_request` that throws
end the process; so does what a handler throws, or `prepare_response`.  `crash`
records what would call
`std::terminate`, and in which session.  A session whose script begins with
`answer` is a client's: a task connects and writes (`Request`), the handler of
the write reads (`TakeWritten`), and the callback is counted in `calls`; a
response that does arrive cannot be parsed (`not_impl`).

**RouteHandler.**  A path is the sequence of its parts, a node of the tree the
sequence of the keys that lead to it; `route` is the operator `Route`.  A path
with a brace anywhere is dynamic, and only a part that begins with one is a
parameter (`Braced`).
`AddThrows` also makes the nodes that exist when the exception is thrown.

**Response.**  Values are abstracted to where they come from and a number.

**Request.**  A text is a sequence of characters, in which a parameter with its
braces, the name of a method and that of a version count as one.  `Init` is the
constructor; `EmplaceParam`, `ChangeQuery` and `SetBody` are what a user may do
to a request; `PrepareRequest` writes it into `wire`, and the properties compare
what the constructor's operators (`PathOf`, `QueryOf`, `FieldsOf`,
`MethodFromString`) make of `wire` with the request it was written from.  The
loop of `std::getline` is `Reading`, character by character.  Query parameters
and header fields lie in unordered maps, whose order is any: `PrepareRequest`
chooses one for each (`SetToSeqs`).  `Chars` are the characters that texts are
made of, which include those the code writes itself (`Symbols`).  What comes over
the wire and what a client gives is any text of them: nothing is escaped, and
what then goes wrong are exceptions that the properties name.  `made` is what
becomes of the constructor: a request, an exception (a header line too short for
`substr`), or undefined behaviour (fewer than three parts of the request line).
`back()` of an empty path is a choice (`Cuts`).  A body is a length of one digit,
or has none (`Unsized`, a `JsonBody` without a string), and then
`prepare_request` throws after it has changed the parameters.

## 3. The runs

| Run | Instance | What it shows |
|---|---|---|
| ThreadPoolSerial | 3 workers, 2 pushers, 3 tasks; callers serialised | no task is lost, duplicated or stranded, no index goes stale, and `stop` drains its workers undisturbed |
| ThreadPoolRacy | 2 workers, 2 pushers, 2 tasks, one of them endless; nothing serialised, `EarlyStart` | every task is in one place up to the first undefined step |
| ThreadPoolLive | 2 workers, 1 pusher, 2 tasks; serialised, fair | the pool implements `TaskPool`; every task settles; `stop` returns |
| ThreadPoolEarly (violation) | 2 workers, 1 pusher, 1 task; serialised, `EarlyStart` | a worker that `run` has made may have no thread |
| Scheduler | 2 IO and 2 CPU workers, 2 loops, 1 connection; fair, `EarlyStart` | no lambda is lost or doubled; undefined behaviour is confined to the moments when `run` builds a worker; unless a thread outruns its constructor, the context is served for ever, and a connection that comes while the server accepts is accepted and its request executed |
| SchedulerIoThreads (violation) | 2 IO workers, 1 CPU worker; fair | one of two loops may never run |
| HttpSessionRacy | 1 session, 2 IO and 2 CPU threads, six scripts, responses that fit or not | the safety of the chain of steps, the timer, the socket and the writes; the session implements `Exchange` |
| HttpSessionLive | 1 session, 2 IO threads, 1 CPU thread, two scripts; fair | every session ends, whatever the peer does, a client's with its callback |
| HttpSessionOneIoWait (violation) | 1 session, 1 IO thread; fair | the timeout does not end the blocking read |
| RouteHandler | 3 insertions; paths and requests of up to 3 parts | routing tables and search |
| Response | a handler with 4 keys, bodies of length up to 2, 2 dates | the length received, the fields kept |
| Request | paths of up to 5 symbols, queries of up to 4, 11 names of methods, request lines of up to 4 symbols, any 2 of 11 header lines; values with `/`, `?`, `&`, `=` and a space | what is written is what is read, with the exceptions each property names |

`CHECK_DEADLOCK FALSE` stands where the system really may stop: all tasks are
done and no thread has to call the pool again, all sessions are closed, all
handlers are added, no request was made of a line, or undefined behaviour or a
crash has ended the run.

*Bounds, and why they suffice.*  In the pool, three workers let `stop` take
one or two of them and still have one, or two to choose from, for the tasks to
move to; three tasks make queues of different lengths; two pushers race with
each other and with a worker.  `TornMax` need only be above the real lengths
for a torn read to mislead the comparison in each direction.  Two workers are
enough for `stop` to make an index of a running `push` stale.  With two IO
workers and two CPU workers the vector of the CPU pool grows under a `push`.
In a session, two threads of each pool are the least that let each kind of
handler overlap with itself; sessions share nothing but threads, so one
session among threads that may do anything at any time covers several.  The
scripts of HttpSessionRacy pass through every branch of the read: a request
with a body and a last one without, which may come together, so that
`content_length - buffer->size()` wraps; a chunked one, a HEAD with a length and
a length that is no number, each after a request that is answered; a header that
cannot be read; a client's.  Each can stop anywhere.  HttpSessionLive needs a
body that is long in coming, a request at the heels of a body, and a client.
With `Room` 1 and `Sizes` 1 and 2 a
response fits, is cut, or, for a peer that does not read, has to wait.
`SizeMod` stands for 2^64 and is larger than any script, so that a
difference wraps exactly if the code's does.  In the routes, three insertions
are what a literal that hides a parameter below it takes.  Five symbols of a
path hold two parts with a repeated or final separator, a repeated part, and a
parameter; four of a query an empty, a repeated and a valueless field; four of a
request line too few parts, and an empty one that counts.  The
header lines are one in order and ten that lack a space, a value, an end or a
colon, have one too many, announce a length, name the agent or end the
header; any two of them in sequence.  The connection of the Scheduler run is one
because connections meet only in the CPU pool, whose pushes ThreadPool's own
runs multiply.
`EarlyStart` is FALSE where something is said that it makes false: a pool whose
threads have ended executes nothing, which ThreadPoolEarly shows, and the
liveness properties of the Scheduler run except it (`Outrun`).  The threads of a session's pool, and the workers, pushers and
(where none is endless) tasks of a pool are interchangeable, and are declared
as symmetric where only safety is checked.

*Fairness, and why the code justifies it.*  The operating system runs every
thread that can run: weak fairness for each thread's next step.  A mutex is
held for a few instructions, but a worker comes back to it every 100 ms, so
that a `push` finds it free again and again and not for good: strong fairness
for `PushLock`, and for nothing else.  asio reports a completed read, and time
passes until a timer that stays armed expires: weak fairness.  In the
Scheduler, some worker that is in the context's `run()` executes a handler that
is ready: weak fairness of `Handler` for all of them together, since asio
promises nothing about which.  A peer that has connected there sends its
request; otherwise peers, the tasks that may become clients, and the threads
that may call the pool owe nothing.

## 4. Where the code and what is said of it part

* `SchedulerIoThreads`.  `push` takes a worker with an empty queue for idle
  even when it executes an endless loop.  `run(k, m)` pushes k loops to k
  workers; if the first has been taken when the second is pushed, both go to
  the first worker and one worker idles.  (With one IO thread this cannot
  happen.)
* `ThreadPoolEarly`.  `thread_` is the first member of a worker, and its thread
  runs before `status_` is initialised.  If it reads `Stopped` there it ends, and
  `run` appends a worker that never executes what is pushed to it, against
  "create n threads" (thread_pool.cpp:17).
* `HttpSessionOneIoWait`.  The rest of a body is read with a blocking call on
  an IO thread.  The timer armed for it needs an IO thread to run its handler.
  With one, the set-up of the readme, a peer that announces a body and does not
  send it is never timed out.

Seen in the source and not made into runs: the result of `prepare_request` is discarded
and the request queued, against request_handler.hpp:18; a null result of `process_request`
is answered with 500, while request_handler.hpp:26 says that the request is
queued again; a request that comes before the CPU pool has a worker is
executed by the IO thread, against request_handler.hpp:25 (`PushInline` in the
Scheduler run); `HeaderField::operator==` compares values where headers.hpp:38
says keys; `io_timeout_ms_` is stored and never read, and a session uses 1000
ms where example1.cpp:100 speaks of 5000; a handler that inserts
`Content-Length` in capitals makes the response carry two lengths, which is why
`ReceiverReadsLength` is checked for keys in lower case (`SameCase`); a request
made of lines that announce a length is written with that length and the right
one, in this order; a request line of fewer than three parts is indexed all the
same (request.cpp:17, 24), and a value with a space, which a client may set,
writes such a line; a `JsonBody` without a string has no size, and
`prepare_request` throws; the rest of a body is a difference that wraps when the
next request has come with it (http_session.cpp:255), and the session then waits
for its timer; a header line that ends with its colon makes the constructor
throw, one without a space or a final `\r` loses a character, and a key of one
character is not found; values of parameters are written
without escapes; a context that is out of work stops, and the `while (true)`
around `run()` then spins without restarting it; what has arrived of a second
request together with the first is dropped with the buffer, which is why
`PatientPeersAreAnswered` excepts peers that send ahead; a target
with a query keeps its first `/` and so never matches a static path; `route`
does not go back when a literal key leads nowhere (`NothingShadows`).

## 5. What is proved

**ThreadPoolProofs**, for all finite or infinite sets of workers, pushers and
tasks, from `PoolAssumption` (the identities are disjoint, the flags Boolean).

* `TypeCorrect`: `Spec => []TypeOK`, with every race allowed.  `TypeOK` is not
  inductive: `Tail(queue[w])` and `threads[k]` have the types claimed only
  because of where the threads are.  `Base` adds that the locals a program
  counter is about to use are set (`LocalsSet`), that a worker in its critical
  section has its mutex and, before the pop, a task (`WorkerLocks`), and which
  elements of the vector are moved from while `stop` runs (`Stopping`).
* `NeverFaults`: `Disciplined => (Spec => []NoFault)`, where `Disciplined` says
  that `run` and `stop` do not overlap a `push` and that no thread outruns its
  constructor.  `Coherent` relates the index a `push` holds to the length of
  the vector, its mutex to the worker the index denotes, and its existence to
  what the owner is doing.  Without `Disciplined` the theorem is false: the
  Scheduler run reaches `fault` during the start.
* `PrivateAlways` and `NoneLeftBehind`:
  `Disciplined => (Spec => []StoppedWorkersArePrivate)`, and the same for
  `NoTaskLeftBehind`.  Neither is inductive.  `Owned` says where each worker is
  (in the vector once, taken out, not created yet: `Placement`), who can hold
  its mutex (its own thread in the critical section, the `push` that has
  selected it, the owner: `Holders`), and that a deque with tasks has someone to
  empty it (`Service`): that a thread ends only after the flag is set, and the
  flag is set only on a worker that is being joined and is then drained.
  Without `Disciplined` both are false, as TLC shows under the constants of
  ThreadPoolRacy: a `push` may hold the mutex of the worker that `stop` takes
  out, and a thread that outruns its constructor ends before its worker works.

**TaskPlaceProofs**, from the same assumption and with every race allowed.

* `OnePlace`: `Spec => []TaskInOnePlace`.  `Placed` says the same with
  memberships, index by index (`Somewhere`, `Once`), and `Spare` adds what makes
  it inductive: a caller outside `push` and a worker that is not executing
  hold no lambda that an assignment would overwrite.  `Taken` and `Appended` say
  what a pop and a push do to every index of the deques.  `Base` is needed too:
  it is the mutex held that makes the popped deque not empty.
* `PoolRefinement`: `Spec => TaskPoolSpec`, the safety part of the abstract
  specification.  `Placed` makes the phase of a task a function of the state
  although it is looked up in many places; each step then moves at most one task
  on, or discards those of one deque.

**HttpSessionProofs**, for all sets of sessions, threads, scripts and sizes,
from `SessionAssumption` (the two pools share no thread, a socket has some
room, and no script is as long as sizes are wide).

* `TypeCorrect`: `Spec => []TypeOK`.
* `OneChainAlways`, `AttendedAlways`, `WaitingIsWatchedAlways`,
  `OnlyTimeoutInterruptsAlways`, `CalledOnceAlways`: none of these is inductive,
  and all follow from one invariant, `SessionInv(s)`.  That a chain has one
  member (`Single`) is kept only because a thread or task that carries a session
  excludes a read and vice versa; that it has one at all (`AttendedAt`) because
  a socket is closed before its last carrier leaves; that the callback comes
  once (`Called`) because it is called by the last carrier.  A timer's threads
  stand outside the chain: `Timeouts` says that they are IO threads which only
  close, and after a timeout.  `InterruptedAt` is stronger than the property: it
  also covers threads that have tested the socket and not closed it yet.
* `CrashNeedsTimeoutAlways`, from the same invariant: an aborted read on an open
  socket means that an IO thread, after a timeout, is between `cancel()` and
  `close()` of it (`AbortedAt`); that a socket is shut down and still open means
  a timeout, or that the last carrier is about to close it (`ShutAt`).  This one is about a step, the last.

The argument is local: each step changes one session and one thread.  What a
step makes of the fields that matter is said once (the `...Effect` lemmas);
then it keeps `SessionInv` of its session (`...Keeps`), and of no other session
does anything change but idle threads and tasks that are not its own
(`Elsewhere`).

**ExchangeProofs**, from the same assumption, on top of `SessionInv`.

* `ExchangeRefinement`: `Spec => ExchangeSpec`, and `FittingAlways`:
  `Spec => []FittingAnswersAreWhole`.  Both follow from `Ordered(s)`: what is
  answered was read before (`Order`), the request in work comes after all that
  are answered, and a peer that waits has emptied the socket of the earlier
  responses when it sends the next request (`Fit`, `Turns`).  That a response
  which fits is never cut is a fact about `unread` at the moment of the write,
  which the peer made 0 several steps before; one that failed was refused by a
  peer that has closed (`WentOut`).
* `NoneDropped`: `WellFramed => (Spec => []PatientPeersAreAnswered)`.  The
  property has two exceptions, a timer that has fired and a peer that has sent a
  request before it had the last response.  `Settled(s)`
  says that every request which has been read completely is answered or in work
  (`NoneForgotten`), that what is in hand beside a header is its body
  (`Framed`), and that a socket which no timeout closed has nobody left
  (`QuietEnd`).  `WellFramed` is about the peer: it sends a body only after a
  header that announces one.  The code does not check it.  Of a second body that
  comes with the first, `content_length - buffer->size()` wraps
  (http_session.cpp:255), the read of the remainder can only fail, and the
  request is dropped (TLC finds this with the script `<<"post", "body",
  "body">>`); so the hypothesis cannot go.  Every script of the runs
  satisfies it.

**SchedulerProofs**, for all finite sets of workers and all sets of requests,
from `SchedulerAssumption` (there is a worker in each pool, and `run(k, m)` has
one loop for each of its k workers).

* `SchedulerTypes`: `Spec => []TypeOK`; `LambdasAlways`:
  `Spec => []LambdasInOnePlace`; `FaultsAtStart`: `Spec => FaultsOnlyAtStart`.
  The proofs about a pool are used for both, instantiated.  Neither
  is `Disciplined`: threads may outrun their constructors, and IO workers push
  to the CPU pool while main runs it.  What holds of both is `Growing` (in
  `ThreadPoolProofs`): a pool that nobody stops only appends to its vector, so
  that no index of a `push` goes stale.  Two faults are left, the thread that
  outruns its constructor and the reallocation under a `push`, and both need that
  main is building a worker of that pool.

**RouteHandlerProofs**, for all sets of paths and requests, of any length, from
`RouteAssumption` (`None` is neither a handler nor a path).

* `OneParameter`: `Spec => []OneParameterPerLevel`.
* `StrongGuarantee`: `Spec => ThrowChangesNothing`.  Both need that the nodes
  are closed under prefixes (`Tree`): a conflict at a level means that the
  level exists, hence so does the path down to it, and the nodes made before
  the exception are not new.
* `RouteTypes`: `Spec => []TypeOK`; `MatchesAlways`: `Spec => []RoutesMatch`;
  `ReachedAlways`: `Spec => []LatestIsReached`.  `Routing` adds what the two
  containers hold: a path leads to a handler that was added with it (`Stored`),
  and to the last one (`LatestStored`).  Where the search of `route` ends is
  shown part by part from the root (`WalkFits`, `WalkFollows`): what it has
  reached fits the parts so far, and it stays on a path that matches, because
  with `OneParameterPerLevel` the parameter it finds at a level is the only one.
  The step from one part to all is `Climb`, which the library's theorem on the
  order of the naturals yields for sets of numbers.  `WalkExists` shows that the
  recursion of `Walk` defines a function at all.

**ResponseProofs**, for all keys and values that a handler may write.

* `ResponseTypes`: `Spec => []TypeOK`; `FieldsAreKept`:
  `Spec => PrepareKeepsFields`, of the step that throws as well.
* `LengthIsRead`: `NoOtherCase => (Spec => []ReceiverReadsLength)`.
  `NoOtherCase` says that the handler writes `content-length`, if at all, as
  `prepare_response` does: keys are compared as they are when a response is
  written, and in lower case when it is read (section 4).

**RequestProofs**, for all sets of characters and of raw requests, values and
keys of any length, from `RequestAssumption`.

* `MethodIsRead`, `PathIsRead`, `QueryIsRead`, `FieldsAreRead`: `Spec => []` of
  `ReceiverReadsMethod`, `ReceiverReadsPath`, `ReceiverReadsQuery` and
  `ReceiverReadsFields`, for every order of the two maps; `RequestTypes`
  and `PlainPathAlways`: of `TypeOK` and `PlainPathIsKey`.  `RequestAssumption`
  asks of texts only that they are made of `Chars`; the characters that the code
  does not escape are hypotheses of the properties, where a reader sees them.

None is inductive: what is read depends on where a separator cannot be, in
members that other steps change.  `IInv` says that: no `?` in the path (that of
a plain target has no `/` too many, `Clean`), no `&` in the query, none of the
separators in what fills the path, and keys of fields that can be found again
(`IsHeader`: two characters or more, in lower case, no `:` behind the second and
no `\r` at the beginning); and that what was written is what would be written
now (`WireInv`), which it stays when `prepare_request` adds the parameters that
it has asked for, since an empty one and a missing one are written alike
(`EmptyIsMissing`).

From there on it is about texts, of any length.  The library's induction
theorems cannot be instantiated here, so that `Climb` and `SeqClimb` state
induction over numbers and over sequences for sets.  With them it is shown that
the functions which `FlattenSeq`, `Reading` and `Counting` choose exist, and how
each grows by one element (`FlattenAppend`, `TokensAppend`, `CountingIs`); that
a delimiter between two texts separates their tokens (`TokensConcat`,
`SplitConcat`); that splitting undoes joining (`SplitJoin`), and reads what
`prepare_request` writes part by part (`SplitEnded`), which is where a path with
parameters needs `LastIsUnique`; that the first `?`, `=` and `:` are the ones
written (`FindBehind`, `LineIsRead`); and that emplacing all elements of a map,
in any order, makes the same map (`EmplaceSame`).

A leaf that expands a `CHOOSE` or a recursive function is given to Zenon alone,
which treats them by their definitions; that such a function exists is proved,
never assumed.

*Only model-checked*: all liveness properties, `EveryTaskSettles`,
`StopReturns`, `ContextIsServed`, `ConnectionsAreServed` and `SessionsEnd`
(`ENABLED` and fairness are beyond the prover), so that of `TaskPool` and
`Exchange` the safety part is what is proved.  Every invariant and every action
property that a passing run checks is a theorem.

## 6. What is not modelled

* the parsing constructor of `Response`, which throws "Not impl": a client's
  session ends there (`not_impl`);
* the duration of timeouts (`set_timeout`): a timer may fire at any time;
* data races inside asio objects, which are not safe to share: a call is
  taken for atomic; and one `Response_ptr` that a handler returns for two
  requests, so that two threads prepare it at once;
* what follows an exception that nobody catches, from a handler, a body
  conversion or asio: the process ends;
* a pool stopped or joined by one of its own tasks, which nothing in the
  repository does;
* `FileBody` (declared, not implemented), the version of a request (stored and
  never used), conversions of parameters to floating point and boolean;
* the tables of header names, versions and states and the other enumerations
  (http/types.hpp), which are names only; `utils/benchmark.hpp`, the example and
  the build.

## 7. Plan

The order follows importance: the pool, because all else runs on it; the
session, where the threads meet; then the pure parts.

1. *Done*: `TaskPool`, `ThreadPool`; `Scheduler` with the io_context and the
   acceptor; `HttpSession` of a server and of a client, with partial and late
   writes, and `Exchange`, which it implements; `RouteHandler`, `Response`,
   `Request` with its query, header lines and conversions; the theorems above.
2. *Model next*: sessions over the queues of the CPU pool instead of one bag of
   tasks, which would show how long a session waits behind others.
3. *Prove next*: that a session over those queues implements the session that is
   proved about here, from `PoolRefinement`; then every theorem about sessions
   carries over.  Of the properties that are checked now, only liveness is left.
