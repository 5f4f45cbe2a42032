# TLA+ specifications of Fuyao-benchmarks

Fuyao-benchmarks is a set of serverless applications and micro-benchmarks that
run on the Fuyao FaaS framework.  An application is a set of *functions*:
shared objects with the entry points `faas_create_func_worker`,
`faas_func_call` and `faas_destroy_func_worker`, which call each other through
`invoke_func_fn` and keep state only in memcached, Redis and MongoDB.  The
framework itself is a submodule that is not part of the repository.

All paths below are relative to `Experiments/`.

## 1. The system

### The review application (`02`)

```
 front end  ComposeReview            ThreadPool(4), 3 jobs, waits for all
   |-- UploadMovieId1  (memcached + MongoDB: title -> movie id)
   |      |-- UploadMovieId3 --.
   |      `-- UploadRating3  --|
   |-- UploadText1   -- UploadText3     --|-->  ComposeReviewHandler::Upload
   `-- UploadUniqueId1 -- UploadUniqueId3 '       memcached: counter + components
                                                  `-- last one: StoreReview4 (MongoDB)
```

| part | state it keeps | operations | what makes it correct |
|---|---|---|---|
| Client pool, `02/common/ClientPool.h` | `_pool` (free clients), `_curr_pool_size`, mutex, condition variable; one per process, shared by all its function workers | `Pop` (take, create, or wait with a deadline), `Push`, `Remove` | a client has one owner and the size counts the clients (until an unlocked `push_back` races); no wake-up is lost; `Pop` always returns and gives up only when there is nothing to be had |
| Thread pool, `02/common/ThreadPool.h` (= `11/common/ThreadPool.h`) | task queue, `stop`, mutex, condition variable | worker loop, `enqueue`, destructor | an accepted task runs exactly once, also during destruction; the destructor returns, after the tasks |
| Front end, `02/src/0_ComposeReviewService` | the jobs of the running call | `faas_func_call`, `invoke` | tasks do not outlive the jobs they point to; the answer is 0 exactly if all jobs succeeded; a call returns |
| Compose-review service, `02/src/3_ComposeReviewService` | none of its own: counter and components of each request in memcached | `Upload` (four kinds), `ComposeAndUpload` | the counter never runs ahead of the components; a review is complete and stored once; if nothing fails for a request it is stored; no client of the pool leaks |
| Review storage, `02/src/4_ReviewStorageService` | MongoDB collection `review` | `StoreReview` | (part of the above) |
| Movie-id service, `02/src/1_MovieIdService` | memcached cache of a MongoDB collection | `UploadMovieId`, `RegisterMovieId` | only ids registered for a title are cached or sent on; a registered title is found, and not registered again |
| Text and unique-id services, `02/src/1_TextService`, `02/src/1_UniqueIdService` | none | one upload each | forwarded exactly once; ids are unique |
| Rating service, `02/src/2_RatingService` | two Redis counters | not on the path of a review: `UploadMovieId` calls `UploadRating3` itself | – |
| The application as a whole | all of the above | a request, and the same request again | what the answer says of the storage, and until which failure; the movie id of a review is a registered one; every request is answered |
| User, user-review and movie-review services, `ReadReview4` | none | stubs | – |

### The other experiments

| part | state it keeps | operations | what makes it correct |
|---|---|---|---|
| Long chain, `06` | the workers a chain holds, the length in the payload | front end: start a chain, parse the answer; back end: lower the length and invoke itself, pass the answer up | a chain has the length that was asked for and gives its workers back; chains never all wait for each other |
| RDMA scaling test, `10/rdma_scale_src` | server: globals with the infos of the current connection, its queue pairs; client threads: queue pair, infos, barrier, descriptors | connect, exchange infos over TCP, connect the queue pairs, barrier, writes, append to `record.log` | queue pairs are connected in pairs; nobody writes before they are (but for one); every process ends; every thread's latencies get recorded |
| FINRA, `11` | as the review front end | fan-out over the thread pool to as many audits as the request says | as the review front end |
| FINRA, `05` | none | five calls one after the other, a sum | – |
| RDMA latency, `00` | as `10`, with one client thread | | – |
| `01` communication methods, `07` ML pipeline, `14` TCP benchmark | none between calls | forward or process a payload | – |
| `08` multiple fan-out | the jobs of the call | fan-out with one thread per job | as `11` |
| `03` social network | – | stubs ("not available") | – |
| `04` Python worker | – | demonstration of an external package | – |
| `09` Pheromone client | – | client of another system, with that system's headers and generated code | – |

Left aside as vendored or generated: `deps`, `07/include` (TensorFlow, Eigen,
protobuf and their dependencies, more than 1.3 million lines), every
`http_parser.[ch]`, `09/common` (headers of Anna and Pheromone), `09/src-gen`.
They make up all but a few thousand lines of the repository, so the share of the
repository that the models stand for is small; of the programs written for it,
what keeps state or runs concurrently is modelled.

### What is hard here

Threads: the client pool is used by all workers of a process and signals its
condition variable after unlocking; one of its error paths touches the deque
without the lock; the thread pool is shut down while callers enqueue.  Lifetimes:
tasks hold raw pointers to jobs on the caller's stack.  Distribution: four
functions in four processes coordinate through a counter in a cache that may
refuse a request, apply it and lose the reply, or drop the key; uploads may be
repeated; errors of the last step are not reported.  Nesting: the functions of a
chain hold one worker each while they wait for another one of the same kind.
Shared process state: the RDMA server serves its clients through globals, a
failed exchange ends a whole process, and the threads of a client share its file
descriptors.  `PROJECT.json` lists these
hazards with the line where each one bites and the property that would notice.

## 2. The modules

| module | models | state | composed with |
|---|---|---|---|
| `BoundedPool` | what a client pool promises | who owns which client | implemented by `ClientPool` |
| `ClientPool` | `ClientPool<TClient>` | deque, size, live clients, one program counter and one client per thread, which push_backs raced | `BoundedPool` by refinement |
| `ThreadPool` | `ThreadPool` | queue, `stop`, one program counter and one task per worker, progress of the destructor, tasks done and refused | instantiated by `FanOut` |
| `FanOut` | `ComposeReview.cpp` of `02`, `marginBalance.cpp` of `11` | the pool's state, the current call, its number of jobs and loop index, live jobs, `succeed`, answers | conjoins its steps with those of `ThreadPool` |
| `ReviewBoard` | what the compose-review service promises | components that arrived, reviews posted | implemented by `ComposeReview` |
| `ComposeReview` | `ComposeReviewHandler.h` with memcached, the pool (as `BoundedPool` specifies it) and the review collection | counter and components per request, clients held, one program counter, loop index and draft per call, answers, stored reviews | `ReviewBoard` by refinement |
| `MovieIdService` | `MovieIdHandler.h` with memcached and the collection `movie-id` | documents, cached ids, one program counter, `movie_id_str`, `ret1` and answer per call, and what was registered when a call began | instantiated by `MediaReview` |
| `MediaReview` | the application from the front end to the storage | the state of `MovieIdService` and `ComposeReview`, the answer to each attempt, how often something was lost | instantiates both and joins the calls of one service to the other's answers |
| `FunctionChain` | `front_end.cpp` and `back_end.cpp` of `06` with the engine's workers | for each front worker what its chain does, the length asked for and in the payload, the back workers it holds, `ret`, the answer | |
| `RdmaScale` | `rdma_rc_client.cpp` and `rdma_rc_server.cpp` of `10`, `Socket` of its `utils.h` | processes that exited, one program counter, peer and log descriptor per client thread, descriptor 0 per process, what is in the connections, the server's program counter, globals and queue pairs | |
| `MCComposeReview`, `MCMovieIdService`, `MCMediaReview`, `MCRdmaScale` | – | sets of calls and threads for TLC | |
| `ClientPoolProofs`, `ThreadPoolProofs`, `FanOutProofs`, `ComposeReviewProofs`, `MovieIdServiceProofs`, `MediaReviewProofs`, `FunctionChainProofs`, `RdmaScaleProofs` | – | theorems | `FanOutProofs` instantiates `ThreadPoolProofs`, `MediaReviewProofs` instantiates `ComposeReviewProofs` and `MovieIdServiceProofs` |

### How steps correspond to code

*ClientPool, ThreadPool.*  What runs between taking the mutex and releasing it
(or waiting, which releases it) is one action.  Whatever comes after an unlock is
a separate action of the same thread: `NotifyOne`, `Connect`, the workers'
`WorkerFinish`, the destructor's `DestroyNotify` and `DestroyJoin`.  Wake-ups may
be spurious.  `wait_until` has a deadline that may pass at any moment; after it
the predicate is evaluated once more (`TimedoutResume`), as the standard library
does.  The `catch` block of `Connect` calls `push_back` without the lock, which
is a data race if another `push_back` overlaps: `RepushBegin` and `RepushEnd`
bracket it, `MarkOverlap` records an overlap, and then (`RacedPush`) elements may
be missing at the end of the deque, a slot may hold the one client or the other,
or both push_backs used one slot and both were counted, so that the deque has an
element that nobody wrote: any address, also that of a client which a thread is
using or which was deleted.  `MaxStale` bounds how often the last happens.  What
such an element does once it is used is outside the model.  `threw`, `removed`
and `raced` are history: whether a `Connect` has thrown, whether `Remove` was
called, and whether a `push_back` ran into an unlocked one.  `BoundedPool` has
the step too (`Break`) and promises nothing after it.

*FanOut.*  One action per turn of each loop.  `Invoke` is the whole task: the
call of the downstream function with either outcome (any return value but -1
counts as success, `ComposeReview.cpp:89`), the write through the job pointer, the return to
the worker loop.  `CallReturn` destroys the jobs.  `EnqueueJob` includes the
construction of the job and `ThreadPool!Enqueue`.

*ComposeReview.*  One action per request to memcached (which serves requests
atomically), per call of the client pool, and for the call of `StoreReview4`.
The value of a component is the call that uploaded it.  A memcached request
that fails may or may not have been served; the failure takes the code's error
path, with its push of the client.  `Upload` answers 0 whatever
`ComposeAndUpload` returns, as in the code.  The steps of the calls are `Next`; that a key may be dropped at any
time as well (they live `MMC_EXP_TIME` = 10 s) is `LossyNext`, which `MediaReview` and
the proofs use.  What `Spec`, the service while memcached keeps the keys, promises and
`LossySpec` does not is thus visible in each theorem.  The four entry points differ only
in the field they copy; they are the `op` of a call.  The fall-through of `case
UploadMovieId` into `default` has no effect.  `StoreReview` is the insertion of
one document, or an error before it ("storage").

*MovieIdService.*  One action per request to memcached or MongoDB, with the
`Pop` and `Push` of the client before and after it, and one for each end of the
two calls of functions.  A failed query looks like an empty one (`mongoc_cursor_next`
is false in both cases): `RegisterFind` then goes on to the insert, `Find` gives
up.  A `Set` that fails is logged and nothing more.  The rating is sent whatever
became of the movie id.  The attribute `movie_id` is in every document, because
`RegisterMovieId` writes them all.

*MediaReview.*  A client sends a request, waits for the answer, and may send it
again with the same `req_id`.  `Submit` starts the three jobs of an attempt and
`FrontReturn` gives its answer when each has returned or its invocation failed; how the thread pool runs
the jobs in between, and that the jobs live that long, is what `FanOut` checks.
`CallMovieId` and `CallRating` are the two ends of the calls of the movie-id
service, and what is called (`UploadMovieId`, `UploadRating`, `UploadText`,
`UploadUniqueId`) begins in a step of its own.  Everything else is a step of one
of the two services as its module defines it, with all its failures and a pool
of `PoolSize` clients.  Two things are counted in `lost` and bounded by `MaxLost`:
a key of the review expires (`DropReviewKey`), and an invocation comes back with
an error of its own while the function it called was not reached, still runs or
is yet to run.

*FunctionChain.*  The chain of a front worker is its stack of back workers and
what the innermost function is doing: waiting for a worker (`invoking`), running
(`called`), or looking at what `invoke_func_fn` returned (`replied`).  `BackCall`
is `faas_func_call` of the back end up to the nested call, `BackReply` the rest.
The engine gives any free worker to any waiting invocation, or fails it.  The
front end parses the output before it looks at `ret`, and a failed call leaves
the output pointer unset: parsing it throws, finds a number, or ends the process,
so `FrontReply` has all three outcomes.  The chain length is an `int` that only
goes down, from at most 128, so it does not overflow.

*RdmaScale.*  A client thread's steps are those that another thread or process
can tell apart: `Connect`, `SendInfo`, `ReadReply`, `Arrive` (the queue pair is
brought up and the thread goes to the barrier, which opens for the last one),
`OneSided`, the three calls of `output_result`, and the end of `worker_fn`.  Each
read may come up short, because TCP is a stream, which is an `exit(-1)` of the
process.  `delete shared_memory_` takes a pointer that nobody has set
(`prepare_rdma_info` has it by value), so `EndWorker` may also end the process.
The server's loop has four steps; it answers (`SendReply`) before it brings its
queue pair up (`BuildChannel`).  `close(client_fd_)` of `~Socket` is `close(0)`:
`connect` returns 0.  No `socket()` of the process comes after that, because all
its threads have passed the barrier, so descriptor 0 can only become a
`record.log`.

## 3. What TLC checks

| run | instance | shows |
|---|---|---|
| `client_pool` | 3 threads, 2 clients (1 at the start), constructor and `Connect` throw, `Remove` used, push_backs race | no wake-up is lost; `Pop` returns, and gives up only when there is nothing to be had; until two push_backs run into each other, a client has one owner, the size counts the clients, and the pool implements `BoundedPool` (`ImplementsBoundedPool`) |
| `thread_pool` | 2 workers, 2 callers, 3 tasks, destructor | each accepted task runs exactly once, no lost wake-up, the destructor returns after draining the queue |
| `fan_out` | 2 calls of 0, 1 or 3 jobs on 2 workers | jobs outlive their tasks (`JobsOutliveTasks`), the verdict is right and stays right (`VerdictIsFinal`), calls return |
| `upload_retries` | `Text` twice, 4 clients, everything may fail | no client leaks; until an upload is repeated there is at most one review (`OneReviewPerRequest`); the counter counts components and not uploads, reviews are complete, `ReviewBoard` is implemented (`ImplementsReviewBoard`); if nothing fails for the request its uploads lead to a review (`UploadsLeadToReview`), and if all were answered with 0 it is stored (`AckMeansStored`) |
| `compose_twice` | `Text` twice, no failure | *violation*: see below |
| `movie_faults` | 2 uploads and 2 registrations of a title, 1 of another; everything but MongoDB may fail, keys are lost | only ids registered for a title are cached or sent on; a registered title is not registered again by a later call |
| `register_race` | 2 registrations of a title | *violation*: see below |
| `media_retry` | 2 attempts and the registration of their title; MongoDB, the pools and the storage fail, the cache of titles loses keys, 2 clients for the uploads | an attempt answered with 0 has its review stored unless an upload or the composing failed (`SuccessMeansStored`), attempts that all failed for their title have stored none (`FailureMeansNothingStored`) |
| `media_losses` | 1 attempt; everything fails in both services, a key of the review expires or an invocation fails by itself | the same two until the first loss; at most one review (`SentOnceStoredOnce`), a stored review has a registered movie id (`StoredMovieIsRegistered`) and the attempt is answered (`AttemptAnswered`), whatever fails |
| `function_chain` | 2 chains of up to 3 functions over 5 workers; lengths 0 and 4 are refused, invocations fail | the depth of a chain fits its length, chains do not get stuck, requests are answered |
| `rdma_scale` | 2 client processes with 2 threads and 1, one server; reads come up short, processes exit | queue pairs are connected in pairs, at most the last one is behind when the writes begin, every client process ends |
| `record_lost` | 1 client process with 3 threads | *violation*: see below |

Every property of a passing run has a mutant: a variant of one action with a
plausible bug (a dropped guard, a missing notification, an off-by-one) under
which TLC reports the property violated.

**The three violations.**  The comment at `ComposeReviewHandler.h:220` says "If
this thread is the last one uploading the review components, it is in charge of
compose the request".  (1) `ComposerUploaded`: a repeated upload that stored
nothing reads the counter; if it is at `NUM_COMPONENTS` it composes the review
too, so the review is stored a second time by a call that uploaded none of its
components.  (2) `TitleRegisteredOnce`: `RegisterMovieId` checks "if the
username has existed in the database" (`MovieIdHandler.h:196`; it is the title
that is looked for) and inserts the title in a second request, and no index makes
titles unique: two overlapping registrations both find nothing, both insert and
are both answered with 0.  Uploads of the title then get either id.
`RegistrationExcludesLater` says what the check does achieve.  (3) `RecordsKept`:
`~Socket` is "closing the connected socket" (`10/utils/utils.h:185`) but closes
what `connect` returned, descriptor 0.  The first thread of a client to end
closes stdin, a second one gets descriptor 0 for its `record.log`, a third one
closes it under its hands, and the write that follows fails unnoticed.

More consequences of the code that no run states.  What an answer says of the
storage has an end.  When the counter of a request expires (`MMC_EXP_TIME`)
between two uploads it starts again at 0: all four uploads are answered with 0
and none composes.  When `ComposeAndUpload` fails, `Upload` answers 0 all the
same.  When an upload fails at its `incr`, its component is stored and never
counted, so repeating the request is answered with 0 and stores nothing.  And
when the `incr` was served but its reply lost, the client is told -1 and the
review may be stored by another upload.  `AckMeansStored`, `SuccessMeansStored`
and `FailureMeansNothingStored` name these as their conditions: `Undisturbed`,
`NoUploadFailed` and `lost = 0`.  Two push_backs that run into each other
(`ClientPool.h:276`) may lose a client or give one to two threads, which is the
condition `~raced` of the properties of the pool.
Last, chains get stuck when
`EnoughWorkers` does not hold: the test of `bench/intra-node/function_chain` has
4 front and 128 back workers and chains of 32, which is 4 * 31 = 124 < 128; with
the lengths 64 and 128 that `chain.lua` also offers, requests at the same time may
take all workers and wait for each other.

**Bounds.**  `client_pool` has more threads than clients, so threads wait, time
out and are woken; there is one address more than clients may exist, so that an
object can be created at a fresh or at a reused address.  `thread_pool` has more
tasks than workers and two callers, so that notifications overlap.  `fan_out`
has calls with more jobs than workers, with fewer and with none, and a second
call that reuses the pool.  The
`ComposeReview` runs have one request: requests share nothing but the pool, and
the proofs cover any number.  In `upload_retries` four clients for five calls
let a call find the pool empty and all of one request be served at the same time; keys
expire in `media_losses`, whose four uploads compete for two clients while they do.
`movie_faults` has a title with two
registrations and two uploads, which is what a race needs, and a second title to
confuse it with.  In `media_retry` the first
attempt can fail for want of the title, or because MongoDB or a pool did, and leave its
text and unique id behind for the second; nothing is lost in it and memcached does not
fail for the uploads, which keeps two attempts within reach of TLC (770,000 states).
`media_losses` has everything and one loss with one attempt: a second attempt, or a second
registration, is beyond TLC's reach there and is covered by the theorems.  `MaxStale` is 1:
after one slot that nobody wrote the deque is arbitrary anyway.
`function_chain` has one worker less than two chains of three
would take, so chains do wait, and one more than `EnoughWorkers` asks to exceed.
Three threads in two processes are enough for a barrier that somebody waits at
while another process comes in between; `record_lost` needs three threads in one
process, one for each part in the loss.  `NumWrites` is 1 for 50000: a write
changes nothing else.

**Deadlock.**  The runs of `ThreadPool`, `ComposeReview`,
`MovieIdService`, `MediaReview` and `RdmaScale` end when the pool has
been joined, all calls have been made or the processes have ended, and
`FunctionChain` when its front workers have crashed, which is why they do not
check for deadlock; `AttemptAnswered`, `DestructorReturns`,
`AcceptedTaskRuns`, `ProcessEnds` and `RequestAnswered` say there that nobody is
stuck.  `ClientPool` is checked for deadlock.  `FanOut` ends with
its last call, but its workers can always wake up spuriously.

**Fairness.**  `ClientPool`: a thread that is inside `Pop` or `Push` keeps
running (weak), and the deadline of `wait_until`, an absolute time that a
spurious wake-up does not move, passes (strong).  Nobody is assumed to call
`Pop` or to give a client back.  `ThreadPool` and `FanOut`: a worker at the mutex
gets it in the end even if spurious wake-ups keep sending it back to sleep
(strong), a started task ends (weak: `invoke_func_fn` answers, with a result or
an error), a caller that enqueued reaches its `notify_one`, a destructor that was
entered goes on.  Nobody is assumed to enqueue or to destroy.  `ComposeReview`:
a call that was started keeps running (weak); none is assumed to be started.  `MediaReview`: as long as
an attempt waits for its answer, what was called for it keeps running (weak); nobody
is assumed to send a request or to register the title, and what nobody waits for may
stop.  `FunctionChain`: a function that has its worker runs
(weak), and an invocation that waits while workers become free again and again
gets one (strong: the engine queues them); the engine is not assumed to give up
on an invocation, its time-out being an hour (`timeoutAsMsForDRC`).  `RdmaScale`:
the threads and the server run (weak); that polling for a completion ends is part
of `OneSided`, since the network card reports an error if the peer does not
answer.

## 4. What is proved

TLAPS checks, for every value of the constants that satisfies the `ASSUME`s:

* `ClientPoolProofs`: `TypeCorrect`, `Ownership`, `Accounting`, that is
  `TypeOK`, `ExclusiveOwnership` and `PoolAccounting` for any number of threads and
  addresses and any sizes `MinPoolSize <= MaxPoolSize`, with throwing
  constructors, throwing `Connect`s, unlocked `push_back`s and `Remove`.
  `ExclusiveOwnership` and `PoolAccounting` are about the time until two push_backs
  run into each other (`raced`), and so is the lower bound of `_curr_pool_size`;
  its upper bound, the types and `GiveUpOnlyWhenExhausted` hold after that, too
  (`NoLostWakeup` ends with the first throw already).
  The inductive invariant is `Basic`, which every step preserves (the types, that a
  thread past `Pop` has an address in hand, `NoCatch`: while `Connect` does not
  throw nobody is in the catch block, and that an overlap is on record), and
  `~raced => Core`, the two properties.
  These need each other: that the deque has no client twice keeps the
  cardinality of the live clients equal to `_curr_pool_size` when one is removed,
  and `_curr_pool_size` is not negative only because it is that
  cardinality.  Lemmas on the elements of a tail and of an append
  carry the sequence reasoning, one lemma per kind of step the rest.
  `PoolRefined` shows from the same invariant that the pool implements
  `BoundedPool`.  `WakeupKept` is `NoLostWakeup`: while somebody sleeps, a client is
  only ever added to the deque by a thread that goes on to `notify_one`, and one
  that is woken takes a client or finds that another has taken it.
  `GivesUpExhausted` is `GiveUpOnlyWhenExhausted`: a thread goes to sleep with the
  pool at its limit, and only `Remove` takes it from there (`FullWhileWaiting`).  The point of
  the refinement that is not bookkeeping is the bound (`RoomForOne`): the threads
  that hold a client, with the one that is about to, have distinct live clients,
  and of these there are `_curr_pool_size`.
* `ComposeReviewProofs`: `TypeCorrect`, `CounterSound`, `Completeness`, that is
  `TypeOK`, `CounterNeverAhead` and `ReviewsComplete` for any requests, any set of calls
  (any number of repetitions), any pool and any failures.  The argument: a call that is
  about to increment owns the component it stored (`CountsOwn`), so each
  increment can be charged to a different component; hence a counter at
  `NUM_COMPONENTS` means that all components are there, a call past that point
  finds each of them (`ComposesAll`), and its draft is complete when it stores it.
  The last two are theorems of `Spec`, where memcached keeps its keys; the types are
  kept under `LossySpec`.
  `BoardRefined` draws from the same invariant that the service implements
  `ReviewBoard`: an add is an arrival or a stutter, the insert of a review is a
  `Post` (its components are all there by `ComposesAll`) or, when a repeated
  upload composed again, a stutter.  `ClientsReturned` is `NoClientLeak`, which is
  inductive given the types, with keys dropped too.
  `AckStored` is `AckMeansStored`.  Its invariant (`Smooth(r)`, for a request for which
  nothing has failed so far, whatever fails for others)
  is the other half of the counter: every component whose upload is past the
  increment was counted (`CounterComplete`), so together with `CounterNeverAhead` the
  counter is exact; the upload that brought it to `NUM_COMPONENTS` is a composer
  (`LastComposes`), and a composer that is done has stored the review, or something
  failed.  A request once disturbed stays so (`StaysDisturbed`), so a step has to
  preserve `Smooth(r)` only if nothing fails in it.
  That a component in memcached, in a draft or in a review was uploaded under its
  name by a call that is past its add (`Origin`) needs no such condition.
  `AtMostOneReview` is `OneReviewPerRequest`, until an upload is repeated and with keys
  dropped at any time.  The
  counter may then start again and bears no relation to the components, so the
  argument is about calls: the counter is at most the number of calls of the request
  that are past their increment, whichever way they went (`CounterBelowPast`).
  Without repetition, when a call sees the counter at four, calls for all four
  components are past it (`FullHouse`): no composer was there before, and one that came
  later would be a repetition (`ComposerIsLast`); and a composer stores once
  (`StoredByComposer`).
* `MovieIdServiceProofs`: `TypeCorrect`, `IdsRegistered` and `LaterRefused`, that is
  `TypeOK`, `OnlyRegisteredIds` and `RegistrationExcludesLater`, for any titles, ids,
  calls and failures.  Documents are never removed, so an id that was read stays
  registered.  For the second, a call between its query and its insert knows that
  none of the registrations answered before it began has its title (`InsertSafe`).
* `ThreadPoolProofs`: `TypeCorrect`, `OnePlace`, `Drained` and `WakeupKept`, that is
  `TypeOK`, `TaskInOnePlace`, `DestructorDrains` and `NoLostWakeup`, for any callers and
  tasks and at least one worker.  The inductive invariant adds to the types and
  `TaskInOnePlace` that a running worker has a task (`RunsTask`) and what the progress of
  the destructor says about the workers (`Stopping`): a worker exits only with
  `stop` set and the queue empty, and nothing is enqueued after that, so the queue
  is still empty when all have exited.  That needs a worker: a pool constructed with
  none would be destroyed with its tasks in the queue (`Worker # {}` in the
  `ASSUME`; the code makes 4 and 80).  `WakeupKept` counts: each step changes the
  length of the queue, the workers at the mutex and the callers about to notify by
  at most one, and while a worker sleeps never to the disadvantage of the queue.
* `FanOutProofs`: `JobsOutlive` and `VerdictHolds`, that is `JobsOutliveTasks` and
  `VerdictIsFinal`, for any numbers of workers (at least one), calls and jobs.  The
  pool is not looked into again: `UsesThreadPool` shows that a front end is a caller
  as `ThreadPool` allows it (`Spec => Pool!Spec`), and the pool's invariant is taken over from
  `ThreadPoolProofs`.  What is added is that calls come one after the other
  (`InSequence`) and that the jobs alive are those the current call has made, the
  first of which have run when it is waiting for its futures (`JobsExist`).  When the
  loop over the futures ends all jobs of the call have run, and a task that has run is
  neither queued nor running (`TaskInOnePlace`), so none is left to use a job that is
  destroyed or to change a result that was reported.
* `MediaReviewProofs`: `SuccessStored`, `FailureStoresNothing`, `StoredOnce` and
  `MovieRegistered`, that is `SuccessMeansStored`, `FailureMeansNothingStored`,
  `SentOnceStoredOnce` and `StoredMovieIsRegistered`, for any number of attempts, any registrations of the title,
  any pool size, any failures of both services and any losses (the first two under the
  conditions that they state).  Every step of the application is a step of
  each service or leaves it alone (`UsesCompose`, `UsesMovie`: `Spec => Compose!LossySpec`,
  `Spec => Movie!Spec`), so the invariants of `ComposeReviewProofs` and
  `MovieIdServiceProofs` hold in it: that of `LossySpec` (`LossyInv`) in every case, and
  that of `Spec` (`SmoothInv`) until the first loss, since up to there no key of the
  review was dropped.
  What is added is what holds whatever is lost (`Sequential`; `Begun`: nothing of an
  attempt runs before it was sent, and a movie id is sent on only when there is one) and
  how, until the first loss, the front end, the movie-id job and
  its two uploads keep step (`InStep`): the job ends with both uploads
  done, or with none of them begun.  An answer 0 then means that the four uploads of the
  attempt are done and, because earlier attempts were answered and later ones not
  sent, that no upload is running, which is where `AckMeansStored` applies.  An attempt that
  failed although none of its uploads did has uploaded no MovieId, and a review needs one
  (`ReviewsComplete`, `Origin`).
* `FunctionChainProofs`: `ChainTypes`, `ChainDepth` and `NeverStuck`, that is
  `TypeOK`, `DepthMatchesLength` and `NoStuckChains`, for any numbers of
  front and back workers and any lengths.  The inductive invariant is the types,
  `DepthMatchesLength`, and that a worker is in one place of one chain
  (`WorkerServesOne`), which is what the engine is assumed to do (`Dispatch`).
  For `NeverStuck`, a chain that waits for a worker is at most
  `Longest - 1` deep, by its depth and what its payload still asks for.  If all
  chains wait and no worker is free, every worker has a place in
  `Front \X 1 .. Longest - 1`; there are fewer places than workers, so two workers
  share one, which cannot be (`StuckFree`).
* `RdmaScaleProofs`: `ScaleTypes`, `Paired` and `AtMostOneBehind`, that is `TypeOK`,
  `QueuesPaired` and `OneQueueBehind`, for any processes and threads.  The server
  keeps the socket and the peer's info in globals; the invariant says that a
  connection is in one place (`ServedOnce`), what the globals hold at each of the server's
  steps (`ServerKnows`), that the queue pair announced to a thread is connected to it
  or is the one being built (`Announced`), and that a thread past the barrier has its info, and
  so have the other threads of its process (`Exchanged`).

The assumptions on constants are those of the `ASSUME`s (finite sets of threads,
addresses and calls, `MinPoolSize <= MaxPoolSize`, at least one worker and one
attempt, and that the values which stand for "none" are none of the calls, tasks or
ids); TLC evaluates them in every run of the module.  Where a proof module
instantiates another one, the assumptions of the latter are proved for the instance
(`PoolAssumed`, `ComposeAssumed`, `MovieAssumed`).

Every invariant and both refinements that the runs check are proved.  Only
model-checked: liveness (`PopReturns`, `AcceptedTaskRuns`, `DestructorReturns`,
`CallReturns`, `UploadsLeadToReview`, `AttemptAnswered`, `RequestAnswered`,
`ProcessEnds`), which the proof system does not handle under fairness.

## 5. What is not modelled

The destructor of the client pool (never called), its RPC traces, logging, the
configuration and index creation helpers, the stubs, the straight-line
benchmarks, and the framework: `invoke_func_fn` is a call that answers with a
result or an error.  Payloads and their copies into fixed-size buffers are
outside the models.  An exception thrown by the JSON library or by `enqueue`
leaves the function; the pools of the front end are never stopped, so the latter
does not happen there.

The TCP benchmark (`14`), `05`, `01` and `07` do one thing after the other and keep
nothing between calls.  `08` is the fan-out of `11` with a thread per job.  The
key-value client, triggers and lattices under `09/common` belong to Anna and
Pheromone and have no caller here.  What the engine, the gateway and the RDMA
library do is not in the repository: they appear as external actions, by what the
code sees of them.

## 6. Plan

Done, in this order: the client pool and what it promises, the thread pool, the
fan-out of the front ends, the compose-review service and what it promises, the
movie-id service, the application end to end, the function chain, the RDMA
scaling test.  The theorems about the application rest on those about its services.

Left are the safety facts behind the liveness properties, stated without fairness:
that whoever waits waits for somebody who can move (a call for a queued or running
task, an attempt for a job that has not returned, a client thread for the server).
