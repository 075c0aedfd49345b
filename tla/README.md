# Atlas I/O in TLA+

Atlas I/O moves the file I/O of several storage engines (RocksDB instances)
into one daemon. Each client process shares three POSIX shared-memory segments
with the daemon: a ring of requests, a ring of responses and a data region.
This directory models that system in TLA+, checks it with TLC on small
instances and proves with TLAPS, for every value of the constants, the safety
invariants that the passing runs check and the four refinements between its modules
(`InBounds` for the allocator alone, others under the conditions in the table of section 4).
What is left to TLC is liveness, and what goes wrong where the code breaks a promise.

Paths below are relative to the repository.

## 1. Inventory

| Part | State | Operations | Interacts with |
|---|---|---|---|
| **SPSC ring** `atlas-protocol/src/spsc.rs` | shared `magic`, `capacity`, `head`, `tail`, `slots`; private `local_tail`/`cached_head` of the producer, `local_head`/`cached_tail` of the consumer | `init_in_place`, `attach`, `Producer::new`, `push`, `Consumer::new`, `pop` | the two processes that map it |
| **Wire protocol** `atlas-protocol/src/lib.rs` | `IoRequest`, `IoResponse` as plain bytes; sizes and segment names | constructors, `set_path`/`path_str`, `io_op`, `io_priority` | carried by the rings |
| **Client library** `atlas-client/src/{lib,file,channel}.rs` | next request id, the channel, the bump allocator of the data region, open handles | `open`, `read`/`read_with`, `write`/`write_with`, `sync`, `close`, `alloc`, `send_request`, `create`, `connect` | pushes requests, pops responses, reads and writes the region |
| **Service channel** `atlas-service/src/channel.rs` | consumer of the request ring, producer of the response ring, the region | `join`, `poll_request`, `send_response` | one per client, owned by the loop |
| **Service loop and fd table** `atlas-service/src/service.rs` | `channels`, `fd_table`, `next_fd`, `running` | `register`, `run`, `execute_round`, `handle_open`, `handle_close`, `prepare_*`, `send_*_responses` | polls channels, drives the pipeline and the executor |
| **Pipelines, batch engine, scheduler** `pipeline.rs`, `batch.rs`, `scheduler.rs` | pending requests; three priority queues | `add`, `is_empty`, `drain`; `add`, `drain_merged`; `enqueue_all`, `drain` | between polling and `execute_round` |
| **POSIX executor** `executor.rs` | none | `open`, `close`, `execute_batch` | `pread`, `pwrite`, `fsync` |
| **io_uring executor** `executor.rs` (mod `uring`) | submission and completion queues | `open`, `close`, `execute_batch` in chunks | the kernel |
| **Daemon** `main.rs` | `STOP`, `running` | signal handler, watcher thread, registration at start | starts and stops the loop |
| **C FFI, RocksDB Env** `atlas-client/src/ffi.rs`, `atlas-client/cpp/` | one shared `AtlasClient`; append offset of each writable file | the `Env` and file virtual functions | threads of RocksDB call the client |

What makes it hard, and what would make each part correct:

* **Ring.** Two processes, no lock, wrapping counters, stale cached counters,
  Release/Acquire pairs. Correct: no data race on a slot; every value comes out
  once, in order; a full or an empty ring is reported only when it is one; a
  process that dies and comes back finds the ring in order.
* **Client and service channel.** One outstanding call per channel keeps the
  ring short and the region free of overlap. Correct: every call gets the
  response to its own request, with its own bytes, exactly once.
* **Service loop.** One thread for all clients; opens and closes are executed
  at once, the rest later with the descriptor looked up earlier. Correct: no
  client ever acts on the file of another, no descriptor leaks, no request is
  lost, one client cannot hold up the others, a stop loses no answer.
* **Pipelines.** Requests of one round are reordered by priority, and requests of
  one channel to one file are merged. Correct: every request is in exactly one
  operation, a merged operation gives each requester its own bytes, priority
  order holds among operations, and nothing of it can be seen by the callers.
* **Executors.** A batch may complete in any order; io_uring does it in chunks and finds
  results again by `user_data`. Correct: every operation gets its own result, nothing
  of a call is left in the queues, an fsync covers what was acknowledged before it, and
  clients cannot see the order.
* **Allocator.** Lock-free, several threads, `u32` sums, never told what is free. Correct: a
  slot lies in the region, and threads get disjoint slots until the region starts over.
* **RocksDB Env.** Several threads, one client, no lock; an append offset kept in the
  file object; close in two places. Correct: a file is its appends, a handle is closed
  once, a call returns.
* **Daemon life.** Stop, crash, restart by a supervisor over surviving segments.
* **Startup.** Segments are created by two processes in two phases.

## 2. Modules

```
SpscRing ----implements---> FifoChannel             (checked and proved)
   ^ SpscRingProofs

Protocol, Storage, Pipeline <-- PipelineProofs
   ^
AtlasClient   AtlasService
      \         /
      AtlasSystem ---implements---> AtlasIO         (checked and proved, as long
   ^ AtlasSystemProofs <-- AtlasIOProofs             as the daemon does not crash)

UringExecutor ----implements---> ExecutorContract   (checked and proved, until a
   ^ UringExecutorProofs                             kernel call fails; AtlasService
                                                     allows every order it does)
DataRegion <---implements--- EnvShim                (proved)
                                ^ EnvShimProofs, on DataRegion too

BatchedPipeline (the pipeline alone, every batch)   ChannelSetup (start-up)
   ^ BatchedPipelineProofs                             ^ ChannelSetupProofs
```

| Module | Models | State and actions |
|---|---|---|
| `SpscRing` | `push`, `pop`, `Producer::new`, `Consumer::new` | One action per load, store or slot access; the orderings of the atomics are definitions (`TailStore`, `TailLoad`, ...), and a happens-before set for each end says which slots it may touch. An Acquire load may return any value between the one last seen and the newest. `head`, `tail`, `slots` are memory; `localTail`, `cachedHead`, `localHead`, `cachedTail` are the fields of the two ends. Counters are taken modulo `Modulus` (2^64 in the code). A slot is written over an interval, during which it holds `Torn`. |
| `FifoChannel` | what the ring promises | A bounded FIFO: `Call`, `Send` (the push takes effect), `Abandon` (the producer died before that), `Recv`. |
| `Protocol` | `IoRequest`, `IoResponse`, the memory shared by a client and the daemon | `reqRing`, `respRing` (FIFOs, justified by the refinement above), `region`. |
| `AtlasClient` | the five calls and `send_request` | `Call`, `PushRequest`, `PopResponse` of each client, the allocator in `AllocStart`; `quota` is the number of calls a client makes. |
| `AtlasService` | `run`, `execute_round`, every handler, `execute_batch`, stop, crash, restart | Two queues follow a round: `ops` (drained) and `batch` (prepared, each entry `todo` until performed). `Pread`, `Pwrite`, `Fsync` take any entry, which covers the order of both executors. `outbox` holds responses about to be pushed, one per step, so that clients interleave everywhere. |
| `Storage` | the kernel as the code uses it (external) | `files`, `durable`, `openFile`; lowest free descriptor, short transfers, errors. |
| `Pipeline` | `PassThrough`, `Batched`, `drain_merged`, the scheduler | Pure operators from the pending sequence to the drained one. |
| `BatchedPipeline` | the pipeline alone | Requests arrive one by one in any mix, then are drained; several of one channel may be pending, which a pipelining client would produce. |
| `AtlasSystem` | clients and daemon together | Interleaving of all the above; the daemon runs with either pipeline, may be told to stop, and may crash and be restarted up to `MaxCrashes` times. Up to `MaxDeaths` clients die where they are (`Die`); nobody tells the daemon. |
| `AtlasIO` | what an application relies on | Each call takes effect once, atomically, on the file behind its handle, between the call and its return. |
| `ChannelSetup` | `PreparedChannel::create`, `connect`, `ServiceChannel::join`, `register` | One action per system call or atomic access, so that the two processes interleave between `shm_open`, `ftruncate`, `mmap` and the magic. `Ask`, `Answer` and `Receive` are what then travels over the rings: in which segment a request or an answer is, and which process it is from or for; segments keep both when processes die. |
| `UringExecutor` | `IoUringExecutor` | `sq`, `flight`, `cq` are the queues and what the kernel works on. A call (`CallBatch`, `CallSingle`) pushes, enters the kernel (`Enter`), waits and takes completions (`TakeOne`, `TakeAll`, the latter with the next chunk). `EnterFails` (the kernel takes the first entries only, or none; `refused` remembers it) and `Interrupted` are the errors that `.ok()` drops. |
| `ExecutorContract` | what the service relies on | Each operation of a call is performed once, between call and return, in any order; the call returns the outcomes. |
| `DataRegion` | `alloc` | One step per access to the shared counter (`Load`, `Exchange`, `ExchangeFails`), with `u32` sums. `held` and `laps` record who uses which slot, and how often the region started over. |
| `EnvShim` | `AtlasEnv`, its two file classes, the C functions they call | `objects` are the file objects with `fd_` and `offset_`. A thread is in one method (`call`, `pc`): allocate, fill and number the request (`Submit`), `Push`, `PopResponse`, then the rest of the method (`Finish`). The daemon is `Serve` or `ServeFails`. `shared` becomes true when two threads are in `send_request` at a time. |
| `*Proofs` | | The theorems of section 4. |

`MC*.tla` give functions to constants that a `.cfg` cannot write.

### Where a model is coarser than the code

* A request ring and a response ring in `AtlasSystem` are FIFO sequences. The
  ring itself is modelled access by access in `SpscRing` and shown to implement
  that FIFO. `capacity` and `magic` appear only in `ChannelSetup`.
* Contents are sequences of a few values; an offset or a length is a small
  number. Lengths fit the region, in every module. The code does not check that: `alloc`
  hands out a slot `(0, n)` for a longer one too, the client copies into it and the daemon
  reads it. No caller in the repository asks for such a length. `O_CREAT` and the cut of a
  path at 255 bytes are left out; `O_TRUNC` is in `EnvShim` only, where files are opened
  for writing. Undefined operation bytes are left out: no client can produce one.
* Applications use the virtual fds their own client was given. `read`, `write`, `sync` and
  `close` take any `u64` (`atlas-client/src/lib.rs`), and the daemon looks it up in one table
  for all clients without asking whose it is (`service.rs:133`, `154`, `175`, `232`): what
  `Isolation` says of handles holds of clients that behave so.
* `mmap` has no step of its own in `ChannelSetup`: where it is refused, the call after it
  (`init`) is, and the segment it leaves behind has its size and no magic, as in the code.
* A failing `open` answers `EMFILE`, a failing transfer `EIO`; callers do not
  tell errors apart.
* Request ids count per client in `AtlasSystem`. The code draws them from one counter
  per client process, as `EnvShim` does, and compares them only within a channel.
* A crash of the daemon discards everything private to it, between any two
  steps. The kernel, files and segments survive.
* A daemon that has stopped is the end of a behaviour: the descriptors it leaves to
  the kernel are not cleared, and it is not started again.
* Two threads of RocksDB in one ring end race on its memory. `EnvShim` keeps each push
  and each pop a whole step even then: what it shows to go wrong goes wrong in the
  best case. Its daemon performs one request at a time, as `AtlasIO` does.
* `UringExecutor` leaves out the single `pread`, `pwrite` and `fsync`, which the service never
  calls and which are the same code as `close`. A completion is "ok" or "error".
* Reads of `STOP` through the watcher thread are one step (`Signal`): the flag
  is only polled.

## 3. Checks

| Run | Question | Properties |
|---|---|---|
| `ring` | Is the ring a race-free FIFO over wrapping counters, with either end restarted anywhere, and do a waiting producer and a polling consumer make progress once restarts end? | `RaceFree`, `IInv` (the invariant of the proof, types included), `ImplementsFifo`, `PushCompletes`, `Delivered` |
| `pipeline` | Does every batch of up to the bounded length come out complete, merged soundly and in order? | `FanOut`, `Slices`, `MergesClasses`, `PriorityOrder`, `StreamedPayload` |
| `system_safety` | Clients and a daemon with either pipeline that executes a batch in any order and may be told to stop: what is every step allowed to do, and can an application tell the whole from atomic calls? | `TypeOK`, `Conserved`, `Isolation`, `StopsClean`, `ImplementsIO` |
| `system_crash` | What survives a crash of the daemon and the death of a client at any point? Do calls return, does the daemon stop, is a request left in its ring answered by the next daemon? | `AtMostOnce`, `AnswersMatch`, `NeverBlocked`, `FdTableExact`, `CallsReturn`, `ShutdownCompletes`, `ServedAfterRestart` |
| `setup_orders` | Client and daemon started, killed and restarted in any order: do they meet in the right, initialised segments, and does waiting end? | `TypeOK`, `Paired`, `FreshResponses`, `RingsReady`, `ConnectReturns`, `RegistrationEnds` |
| `uring` | Batches larger than the queue, mixed with single calls, completed in any order: does each operation get its own result? | `TypeOK`, `OwnUntilFault`, `NothingLeftBehind`, `SyncedIsDurable`, `ImplementsContract`, `CallReturns` |
| `env` | Two threads of RocksDB on one client: are allocations sound, and, while the threads do not overlap in `send_request`, files, handles and calls? | `TypeOK` (with `AllocInv`, the invariant of the proof), `InBounds`, `LapDisjoint`, `FileIsAppends`, `HandlesOwned`, `ReturnsUnlessShared` |
| `restart_fds` (violation) | Virtual fds over a restart | `Isolation` |
| `short_write` (violation) | `data_len` of a write | `DataLenActual` |
| `setup_attach` (violation) | `attach` before `ftruncate` | `AttachMapped` |
| `uring_interrupted` (violation) | A kernel call whose error is dropped | `ResultsOwn` |
| `env_threads` (violation) | Two threads in `send_request` | `Returns` |

What the less obvious properties say:

* `ImplementsIO` is the main one: with the refinement mapping of `AtlasSystem`
  (`CallOf`, `handle`, `given`), every behaviour of rings, rounds and batches is
  one of `AtlasIO`, where a call is atomic. A call takes effect when its
  response is decided, which for reads, writes and syncs is the system call in the
  executor, long before the client sees it.
* `Conserved` counts the places that hold a request or its response (rings,
  pending, operations with all their sources, batch, outbox): exactly one
  for a client that waits. `AtMostOnce` is what is left of it across a crash.
* `Isolation` relates the descriptor captured by `prepare_*` to the file its client
  opened, at the time the executor uses it: between the two, other operations of
  the round open and close descriptors, and the kernel reuses numbers.
* `Paired` and `FreshResponses` speak of the documented start order only (`inOrder`). Outside
  it they fail: a client leaves a request in its ring, it and the daemon die; the next daemon
  attaches that ring; a new client starts and unlinks the names; the daemon creates the new
  response ring, answers the old request into it, and as ids start at 1 in each process the new
  client may take the answer for its own. What rules that out in order is that no client starts while
  the daemon registers.
* `FreshResponses` is about what is in a ring, not about who made it: `answers` carries the
  process each answer is for, through requests and answers left behind by the dead.
* `ConnectReturns` accepts a timeout as a return: the model has no clock, so the tries may
  always be used up before a slow daemon comes to this instance.
* `StreamedPayload`: a merged write stores the own bytes of each of its requests where
  the payloads lie in the data region as the ranges lie in the file. Where they do not, the
  first payload is read on (`batch.rs:94`), see section 5.
* `OwnUntilFault`, `NothingLeftBehind` and `SyncedIsDurable` stop at the first kernel call
  that fails: from then on the code gives no such promise, see section 5.
* `CallReturns`: a call returns, or, only after a refused submission, ends in the panic of
  `executor.rs:177` (section 5). Any other panic violates it, as does waiting for ever. An
  interrupted wait leaves nothing in the submission queue and causes no panic.
* `LapDisjoint` stops where the region starts over: the allocator is not told what is
  in use, and relies on slots being given back within a lap. Section 5 says what comes
  of it with several threads.
* `FileIsAppends` allows for the writes the kernel cut short and the daemon answers as
  complete (`short_write`), and for nothing else.

### Bounds

* `SpscRing`: `N = 2`, `Modulus = 6`, so that counters wrap after three laps of the ring
  and slot 0 is met again with another counter; two payloads. Counters wrap, so pushes, pops
  and restarts need no bound, and the run is of the complete state space. The proofs
  remove the bounds on `N`, `Modulus` and payloads.
* `BatchedPipeline`: every sequence of three requests over two channels, one virtual
  fd, three offsets and two lengths, which covers ranges that are apart,
  adjacent, overlapping, nested and equal, across and within channels. The proofs are
  about rounds of any length.
* `AtlasSystem`: two clients. `system_safety` has three calls of one against one of the
  other, enough for a descriptor to be closed and reused within a round, and two each, so that
  operations of both are in one batch and are executed in either order. Paths are
  interchangeable there (`PathSymmetry`). `system_crash` has two calls against one, one crash
  and one death; liveness is checked, so it has no symmetry.
  `RegionSize = 3` with `IoLen = 2` makes the allocator wrap at the second
  allocation. `RingCapacity = 1` makes a full ring the normal case. `RealFds` has
  three descriptors, and `open` may fail whether or not one is free. `MaxFd = 4` is
  the number of all calls, so it never keeps an `open` from getting a virtual fd. The
  proofs are for any number of clients, calls, crashes and deaths.
* `ChannelSetup`: one instance, three starts of the client and two of the daemon (an
  old process meets a new one, and a segment that is neither the first nor the
  last exists), two attempts of `connect` (200 in the code), any call may fail.
  `setup_attach` has two instances and one start each. In a segment there is one request, and one answer, of each process, as
  a second would not tell more.
* `UringExecutor`: a queue of two, batches of up to three (two chunks, the last one not
  full), four operations in all, so that a call follows one that may have left something
  behind, and one failure of the kernel call. The proofs remove these bounds.
* `EnvShim`: two threads, a region of three units and lengths of one and two (every
  second allocation starts over), `Modulus = 8` for the counter, one path, four calls, one
  failure. Four calls are enough to open, append after a failed append, and close; or
  for two threads to read at once while a slot of the lap no longer fits.
* System, start-up, executor and shim really stop (all calls or starts used up, the daemon
  told to stop), so their runs state `CHECK_DEADLOCK FALSE`; ring and pipeline never
  do, and theirs check for deadlock.

### Fairness

`LiveSpec` of `AtlasSystem` has weak fairness of the daemon's loop and of each client that
lives and is inside a call: both are threads that spin or yield and are never blocked, so a
scheduler that runs every runnable thread is all that is assumed. No fairness is put on
calls (an application need not call), on deaths nor on the signal. A call may wait for ever
if the daemon is told to stop, or crashes while it holds the request: a client has
no timeout, hence `~running` and the premise of `CallsReturn`. `Recover` is weakly
fair: `docs/src/usage/running.md:41` runs the daemon under `Restart=on-failure`.

`LiveSpec` of `ChannelSetup` has weak fairness of a process that is inside
`create`, `connect` or registration; starts, deaths and the decision to
connect have none.

`LiveSpec` of `SpscRing` has weak fairness of each step of both ends and assumes that
processes do not restart for ever. For `PushRefresh` and `PopReload` fairness says that a
repeated load does not return an old value for ever: a store becomes visible to another core
in finite time.

`LiveSpec` of `UringExecutor` has weak fairness of the service thread inside a call and of the
kernel, which completes what it accepted (regular files; the code sets no timeout).

`LiveSpec` of `EnvShim` has weak fairness of threads inside a call and of the daemon, and
strong fairness of the `compare_exchange_weak` of each thread: a thread that tries
again and again succeeds. `alloc` is lock-free, not wait-free, and the code relies on that.

## 4. Proofs

All of the following holds for every value of the constants, under the assumptions
named; the runs show the same formulas on small instances. Assumptions are on constants
only: ring and region are not empty, offsets, lengths and descriptors are
naturals, a transfer fits the region (`ProtocolAssumption`, `ClientAssumption`,
`StorageAssumption`, `ServiceAssumption`, `EnvAssumption`, `SetupAssumption`,
`BatchAssumption`), and those discussed below.

| Module | Theorem | Statement |
|---|---|---|
| `AtlasSystemProofs` | `Invariance` | `Spec => []IInv` |
| | `Types` | `Spec => []TypeOK` |
| | `NothingLost` | `Spec => [](crashes = 0 => Conserved)`: each waiting call is in exactly one place |
| | `NeverTwice` | `Spec => []AtMostOnce`: in at most one, over any crashes, restarts and deaths |
| | `AnswersToTheCall` | `Spec => []AnswersMatch`: a client only ever meets the answer to its call |
| | `NoSpin` | `Spec => []NeverBlocked`: the daemon never waits for room in a response ring |
| | `NoLeak` | `Spec => []FdTableExact`: table and open descriptors agree, none is shared |
| | `Isolated` | `Spec => [](crashes = 0 => Isolation)` |
| | `NothingAbandoned` | `Spec => [](crashes = 0 => StopsClean)` |
| `AtlasIOProofs` | `Implements` | `Spec /\ [](crashes = 0) => ImplementsIO`: every call takes effect once and atomically |
| `PipelineProofs` | `BatchedDrainLists` | a drain of requests of different channels hands out each of them, unmerged, once |
| `BatchedPipelineProofs` | `BatchInvariance` | `Spec => []Inv` |
| | `AnswersEachOnce` | `Spec => []FanOut` |
| | `SlicesFit` | `Spec => []Slices` |
| | `MergesExactly` | `Spec => []MergesClasses`: one pass over the sorted requests finds the transitive closure |
| | `InPriorityOrder` | `Spec => []PriorityOrder` |
| | `StoresStreams` | `Spec => []StreamedPayload` |
| `SpscRingProofs` | `Invariance` | `Spec => []IInv` |
| | `TypeCorrect` | `Spec => []TypeOK` |
| | `RaceFreedom` | `Spec => []RaceFree`: no access to a slot overlaps a write to it, and every read is ordered after the write it reads |
| | `RefinesFifo` | `Spec => ImplementsFifo`: every execution of the ring is one of a bounded FIFO |
| `ChannelSetupProofs` | `SetupTypes` | `Spec => []TypeOK` |
| | `SetupReady` | `Spec => []RingsReady`: a ring in use has its size and its magic |
| | `SetupFresh` | `Spec => []FreshResponses`: in the documented order, whatever is in a connected client's response ring answers a request of its own process |
| | `SetupPaired` | `Spec => []Paired`: in the documented order both ends map the same segments |
| `UringExecutorProofs` | `UringInvariance` | `Spec => []UringInv` |
| | `UringTypes` | `Spec => []TypeOK`, also after a kernel call failed |
| | `OwnResults` | `Spec => []OwnUntilFault` |
| | `ChunksFit` | `Spec => []FitsUntilRefused`: a chunk has room in the queue until the kernel refuses a submission (in the runs, part of `CallReturns`) |
| | `QueuesEmptied` | `Spec => []NothingLeftBehind` |
| | `FsyncDurable` | `Spec => []SyncedIsDurable` |
| | `RefinesContract` | `Spec => ImplementsContract`: every step is a step of `ExecutorContract` or invisible to it |
| `EnvShimProofs` | `AllocInvariance` | `AllocSpec => []AllocInv` |
| | `AllocInBounds` | `AllocSpec => []InBounds`: a slot ends within the region, if its length fits the region |
| | `AllocDisjoint` | `AllocSpec => []LapDisjoint`: slots in use that overlap are of different laps |
| | `ShimAllocates` | `Spec => AllocSpec`: however the threads of RocksDB interleave, they use the allocator as specified |
| | `ShimDisjoint` | `Spec => []LapDisjoint`, from the two above |
| | `ShimTypes` | `Spec => []TypeOK` |
| | `ShimFiles` | `Spec => []FileIsAppends` |
| | `ShimHandles` | `Spec => []HandlesOwned` |

**System.** `IInv` of `AtlasSystemProofs` says where things can be. Whatever is in a ring or
a queue is the request, or an answer to the request, of the current call of its client
(`Holds`); no queue has two things of one client (`QueuesApart`), nor have two queues
(`StagesApart`); and the clients that have something somewhere are those that wait, all of
them unless a crash lost some (`OnTheWay`). `Phases` says which queues are empty in which phase
of the loop. `Conserved`, `AtMostOnce` and `AnswersMatch` are read off these. For `Isolation`,
`TableExact` makes the table one-to-one onto the open descriptors, and `Ownership` follows a
virtual fd: it is in the handles of one client or in an answer on its way to it, the
descriptor behind it is open on the file that client asked for, and a prepared operation
holds that descriptor. A close in the same round cannot take it away, as its client has one
call only and that is the prepared one. After a crash the numbers start over and `Ownership` is lost
(section 5), so it is stated for `crashes = 0`. All of it needs one fact of the pipeline:
requests of different channels are never merged, so a drain hands out each of them on its
own (`BatchedDrainLists`; likewise for `PassThrough`).

**Atomic calls.** `Implements` shows that each step of `AtlasSystem` is a step of `AtlasIO` or
invisible to it. A call has taken effect once its answer is decided: the answers on their way
(`Mail`) and those that the performed entries of the batch will be given (`Verdicts`). The map
is well defined because a client has at most one decision (from `IInv`). A system call of the
executor is the effect of one call, and of no other as there is one entry for each client; open
and close take effect in the round; the pop of the response is the return. Polling, draining,
preparing and sending are invisible.

**Batches.** In `BatchedPipeline` a channel may have many requests in a round, and merging
matters. The proof describes the result of the pass by a split of the sorted requests into
intervals (`Splits`, `Group`): within one, each request begins no later than the end of an
earlier one; behind it, none of the same channel and fd begins before or at the end of any (`GroupsApart`,
from the order by offset). So the members of an interval are connected, and nothing else
touches them: `OneClass`. The reference computes the closure by reaching one step further
at a time; each step adds a request or is the last, so as many steps as requests are enough
(`ClassIs`). A unit of the merged range is in the first request of the interval that ends
behind it, since that one begins no later than an end before it (`GroupUnits`). `Deals` says that a sequence of operations hands out a
set of requests, each once; it holds of each of the parts a drain is concatenated from, and
of their concatenation.

**Induction.** The library's induction rules take a predicate as parameter, which the provers
cannot instantiate. `LeastNat` and `NatInSet` of `PipelineProofs` state them over sets of
numbers: what is to be shown for every `n` is that a set which contains 0 and
successors contains `Nat`. That the recursive functions in `Pipeline` (`Merged`) and in
`BatchedPipeline` (`Class`, `Allocated`) satisfy their defining equations is proved that way too.
Sorting needs none: `Arranged` places an element by how many are before it.

**Start-up.** The invariant of `ChannelSetupProofs` says what each call of the two programs has left
behind. `ClientSegments` and `ServiceSegments` tell, for each point of `create` and `join`,
which names exist, what size and magic the segment behind a mapping has, and who made it.
Segments only grow: a segment that was sized or marked stays so (`Extended`), also when its name
is gone, so what a process knows of its mapping survives whatever the other does.
`Order` is for `inOrder` only: while the daemon registers nothing is created, and the segments
it serves are the latest of their names, until a new client unlinks the response ring, which is
how that client notices that it has to wait. For `FreshResponses` the segments have ages
(`born`, which no step reads). `Births`: a request ring is as old as its client, and as long as
the daemon has not given a client a response ring (`Unmet`), all of those are older. `Mail`: a
request is in the ring of its own sender, and an answer in a ring as young as the living client
is to that client. An answer could break it only if the daemon served an old request ring
with a new response ring, which `Order` excludes.

**Ring.** The only assumption is `RingAssumption`: `N > 0`, `2N <= Modulus` and `N` divides
`Modulus`. In the code `N` is a power of two (asserted by `init_in_place` and `attach`)
and `Modulus = 2^64`. `RaceFree` is not inductive: it does not know where the stale
caches are, nor why a cached counter still vouches for a slot. `IInv` adds that,
along the circle of counters, `cachedHead <= head <= localHead <= cachedTail <= tail
<= localTail` with no two more than `N` apart (`Occupancy`, `ProducerView`,
`ConsumerView`, as distances modulo `Modulus`); that the slots from head to tail
hold whole payloads, including the ones being moved (`SlotsView`); and that the
slots an end may touch without another load are in its happens-before set
(`OrderView`). The arithmetic of distances modulo `Modulus` is in a handful of lemmas
at the front. Each action is a lemma of its own. `RefinesFifo` maps the abstract queue
to the values from `head` to `tail`; the store of the tail is the abstract push and the
store of the head the abstract pop.

**Allocator.** `RegionAssumption`: the region and the lengths are below half of the range of
the counter (2 GiB; the region of an instance has 64 MiB). Without it the `u32` sum of
`channel.rs:100` may wrap and the test there admits a slot that ends behind the region.
`LapDisjoint` is not inductive: `AllocInv` adds that no sum overflows (`NoOverflow`: the
counter stays below half of its range) and that the slots of the current lap lie below the counter (`BelowOffset`), so that the next one cannot
meet them. That an `Exchange` succeeds only if the counter is the one loaded is what makes
the slot computed before it still valid; the counter may have gone round in between, which
does no harm as the value is all that counts.

`InBounds` is about lengths that fit the region (`RegionAssumption`); the code does not
compare, so what is proved of the bounds is proved of callers that keep to that.

**RocksDB shim.** `EnvShim` extends `DataRegion`, and the proof shows that each of its steps is
one of `AllocNext` or leaves the allocator alone. Nothing about `send_request` is needed:
the allocator is sound also when threads overlap there. `EnvInv` has two parts that hold
always: `Shapes` (types, what a call refers to exists, a request stays in its slot) and
`Apartness` (a file object is changed by one thread at a time, which RocksDB grants, and
offsets stay within the modelled files). The third, `Turn`, holds while no two threads were in
`send_request` at a time: the thread in it has its request in the ring or its answer (`InTurn`); each
handle of the daemon belongs to one object, or to the answer that will make one, until the
answer to its close (`Handles`); a file holds what was appended, the position behind it is the
offset of its object, and an append that is answered and not yet returned is accounted for
(`Written`); and the payload of an append is still in its slot when the daemon reads it
(`Copies`). `env_threads` shows that the condition cannot be dropped.

**io_uring executor.** `UringAssumption` says only that the queue has room for one entry. The
invariant says what a completion count alone does not: before the kernel is entered the
chunk, the whole chunk and nothing else is in the submission queue (`Pushed`); afterwards
every operation of it is with the kernel or has exactly one completion, the two add up
to the size of the chunk, and no tag occurs twice (`Submitted`). So when as many completions
are there as were waited for, nothing is in flight, and the completion with the tag of an
operation is its own. `Idle` says that the next call starts with empty queues, which is
what lets `open` and `close` take whatever completion comes first. `Honest` ties a
status to its effect, for an fsync to all that was acknowledged: nothing is acknowledged
while a batch is in progress, so an fsync may be performed before or after the writes of
its own batch. All of this is conditional on `faults = 0`; the run `uring_interrupted` shows
that it cannot be otherwise. `ChunksFit` needs less, `Emptied`: until a submission is refused,
entering the kernel leaves nothing in the submission queue, whatever the waits after it; the
chunk pushed next has the whole of it, and `ChunkEnd` cuts it to that. Types survive a fault: `WellFormed` bounds the queues and says that
nothing is in them that was not asked for. `RefinesContract` maps the outcome of an operation to its
result, or to its completion while the kernel call lasts: a completion is `Perform`, the last
chunk of a call is `Return`, entering the kernel and the chunks between are invisible.

Model-checked only:

* All liveness: `PushCompletes`, `Delivered`, `CallsReturn`, `ShutdownCompletes`,
  `ServedAfterRestart`, `ConnectReturns`, `RegistrationEnds`, `CallReturns`,
  `ReturnsUnlessShared`. The prover has neither fairness nor `ENABLED`.
* What fails, in the runs of section 5: a counterexample needs no proof.
* That the sequences in `AtlasSystem` stand for `SpscRing` is two theorems side by side
  (`RefinesFifo`, and `AtlasSystem` over FIFOs), not one about a composed module.

## 5. Disagreements with the documentation

Each has a run that shows it.

1. **A restarted daemon hands out virtual fds from 1 again** (`service.rs:30`),
   over rings that survive, while clients keep the old numbers: a write to an
   old handle goes to the file another client opened. `service.md:38` promises
   isolation; `running.md:41` restarts the daemon. Run `restart_fds`.
2. **`data_len` of a write is the length asked for** (`service.rs:212`), not "Bytes
   actually read/written" (`protocol.md:32`). Run `short_write`.
3. **`connect` may read behind the end of a segment.** The daemon creates the response
   ring with `shm_open` and sizes it with a later `ftruncate`; a client that opens
   it in between gets SIGBUS in `attach` (`channel.rs:165`) where the retry loop
   and `spsc.rs:85-90` foresee an error. Also in the documented order. Run
   `setup_attach`.
4. **The io_uring executor ignores a kernel call that fails** (`executor.rs:180`, `140`):
   an operation that was not waited for keeps the result 0 it was created with, which
   the service reads as success, and its completion answers a later `open` or `close`.
   `executor.rs:27` says the result slot is filled in by `execute_batch`. Run
   `uring_interrupted`.
5. **Two threads of RocksDB may wait for ever.** `AtlasEnv` shares one client among all its
   files (`atlas_env.cpp:11`, `67`, `81`), without a lock; in `send_request` each thread pops
   and drops the response of the other (`channel.rs:212-217`). `client.md:20` says that a
   call blocks until the daemon responds, as RocksDB's `Env` expects. Run `env_threads`.

Seen on the way, without a run:

* **A running daemon registers nobody.** `main.rs:43-54` joins the instances once, before the loop.
  `ClientChannel::create`, "for when service is already running" (`channel.rs:199`), unlinks
  and creates the segments and then waits 200 tries (`channel.rs:163`) for a response ring that
  nobody makes. `getting-started.md:16-21` starts the daemon first too; `running.md:20` says that
  this fails. `ChannelSetup` has `Registering` only after `StartService`.
* **A refused submission may end the daemon.** Its entries stay in the queue, the next chunk is
  pushed behind them, and when they do not fit together `expect` panics (`executor.rs:177`), where
  the comment above it says that chunking guarantees the room. `UringExecutor` reaches it as
  `mode = "panicked"`.
* **A merged write takes all its bytes from behind the first payload.** `batch.rs:94` keeps the
  `data_offset` of the request with the lowest offset, and those of the others are not used;
  `batching.md:32` merges adjacent writes without a condition. It takes two writes of one
  channel outstanding, and the clients in the repository send one at a time.
* **The region starts over under a slow call.** `alloc` goes back to 0 when the next slot does not
  fit at the end (`channel.rs:101`), whatever is in use there. With two threads of `EnvShim` in a
  region of three, one may hold unit 1 of lap 0 while the other is given 0 and 1 of lap 1,
  although the region has room for both, which is all that `tuning.md:23` asks of its size.
* A merged operation has the priority of its first source by offset (`batch.rs:94`). Nothing
  in the repository can tell: the client library sends every read and write as `High`.
* A `join` that fails after creating the response ring (`atlas-service/src/channel.rs:122`)
  leaves it behind: the client connects to a daemon that does not serve it.
* The allocator does not check a length against the region (`channel.rs:100-103`).

## 6. Not modelled

* **Benches and tests**: drivers.
* **C FFI**, apart from the calls the shim makes: conversions of results to `i64` and `i32`,
  paths that are not UTF-8, `atlas_client_destroy`, which the shim never calls.
* **Creation of the io_uring instance**, and the single `pread`, `pwrite` and `fsync` of that
  executor, which the service does not call.
* **Lengths above the region** and paths above 255 bytes (cut by `set_path`).
* **Kernel, memory, RocksDB**: external. Storage is modelled from how the code
  uses it.
* Performance, `spin_loop` counts, thread pinning and formatting.

## 7. Plan

Done: every component of section 1 but the ones of section 6 modelled and checked; every
safety invariant of the passing runs and the refinements proved.

Left, in the order of what it would add:

1. A composition of `AtlasSystem` with `SpscRing` in place of its FIFO sequences: the
   refinement of the ring is proved, that it may be used twice for each client is
   argued here only by the rings sharing no state.
2. `ImplementsIO` over a crash, for an `AtlasIO` that may forget calls and handles: what an
   application can rely on after `Restart=on-failure` is now stated by `AtMostOnce`,
   `AnswersMatch` and `FdTableExact` separately.
3. A daemon that reclaims the descriptors of a dead client, should the code learn to.
