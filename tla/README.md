# A verification project for ActiveBSP

ActiveBSP is a C++ library of *active objects over BSP*: a program creates
actors on groups of MPI processes, calls their methods asynchronously, receives
a first-class **future** for every call, passes futures to other calls, gets
their values and releases them. This directory holds TLA+ modules that model
the runtime, TLC configurations that check them on small instances, and TLAPS
proofs of the properties that matter most.

All paths below are relative to `src/src/ActiveBSP/` unless they say otherwise.

## 1. The system

### 1.1 Processes and threads

Rank 0 runs the program. Every other rank is an *actor process* and runs

* a **management thread** (`ActorServer::run`, `src/management/ActorServer.cpp`),
  which receives the messages of tag 0 from any process, one at a time, and
  serves each to its end before it receives the next;
* while an actor lives there, a **worker thread** (`ActorWorker::handler`,
  `src/worker/ActorWorker.cpp`). On the first process of the actor, its *head*,
  it runs `master_loop`: take a request, execute it, publish its result. On the
  others, the *slaves*, it runs `slave_loop`: receive a function id broadcast by
  the head and execute that SPMD function with it.

The threads of one process share the request queue, a result store with its own
mutex and condition variable, and the key counter. Processes share nothing: they
exchange messages of tag 0 (to a management thread) and tag 1 (answers to
whoever asked: the program, or a worker that uses a future or a proxy). The
answers carry no key; a caller that asked process `a` takes the next message of
tag 1 from `a`.

### 1.2 Inventory

| Component | State | Operations | What makes it correct |
|---|---|---|---|
| Futures and active calls (`Proxy.hpp`, `Future.hpp`, `LazyFutureData*`, `LazyResultPublisher`, `FutureKeyManager`) | futures held with their data, next key of a process | `active_call`, `get`, `release`, passing a future on, `publishResult` | the value obtained is the one of the future's call; no caller waits for ever; released data is freed |
| Management thread, future tables (`ActorServer`) | `_futureDataStore`, `_pendingFutureRequests`, `_askedFutureDelete` | `handleCallActorMessage`, `handleGetFutureData`, `handleReleaseFutureMessage`, `registerFuture` | every question has exactly one answer, in every order of question, result and release |
| Management thread, result parts (`ActorServer`, `DataStore`) | `_dataStore` with its mutex and condition variable, `_pendingResultRequests` | `handleGetResultPartsMessage`, `handleStoreResultMessage`, `handleReleaseResultPartMessage`, `checkDvPartRequired`, `readStoredResult` of the worker | every requested piece is sent, once, when its part is there; keys are free when a part is stored; the store's mutex is given back |
| Management thread, prefetch | `_askedFetch`, the parts prepared in the store | `handlePrefetchMessage`, `handleFetchMessage`, `fetchDv`, `checkFutureRequired`, `handleStoreResultPartMessage` | a prefetch that was asked for completes, with the bytes of the vector |
| Request queue (`SharedMemoryRequestQueue`) | deque, mutex, condition variable | `postMessage`, `getNextMessage`, `isEmpty`, `getNPendingRequests` | no lost wakeup, nothing taken from an empty queue, first in first out |
| Worker (`ActorWorker`, `SharedMemoryMasterProxy`) | the request being executed | `master_loop`, `slave_loop`, `destroyActor` | requests are executed once, in order; the worker ends when told to |
| Actor life cycle (`createActiveObject`, `destroyObject`, `ThreadedActorWorkerProxy`, `activebsp.cpp`) | `_actorWorkerProxy`, thread handles, BSP barriers | create, call, destroy, finalize | a stop meets the actor it was meant for; no call is lost; every operation and the program end |
| Distributed vectors (`vector_distribution`, `block_distribution`, `Actor.hpp`, `dv_get_part`, `block_distribute`) | descriptors: process, key, size and offset of every part | distribute, register a part, gather the descriptor, read a range, release | ranges tile the vector; a read returns the bytes it asked for, whatever the order of parts and questions |
| Process allocation (`ContiguousProcessAllocator`) | next process, processes left | `allocate` | no process is given twice |
| Image processing example (`src/src/examples/imgproc`) | files of the disk actor, hash table of the database | store, load, compress, insert, save, in pipelines of asynchronous calls | what is loaded is what was stored; a compressed image does not depend on the number of processes; every image is in the saved database once |
| Relay and prefetch examples (`src/src/examples/relayvector`, `prefetch`) | | the actors that copy and produce vectors | they are the users of `ResultParts` and `Prefetch` |
| Message formats, MPI communicator | buffers | send, receive, buffer ownership | a message read is the message written; a buffer kept is not reused |
| Serialization, declaration macros, registry, BSPlib wrapper, direct futures | | | sequential glue, see section 7 |

Interactions: the program and the workers *call* a management thread by a message
of tag 0 and block for tag 1; the management thread *posts* to its worker
through the request queue; the worker *sends itself* (to its own management
thread) the results of its requests and, on a slave, the stop of the actor; head
and slaves meet in broadcasts and barriers.

### 1.3 What is hard

* Question, result and release of one future reach the management thread in any
  order; two askers, a release before the result, and a worker asking its own
  process are all legal.
* Answers without a key on a shared tag.
* Blocking everywhere: a worker blocks in `get`, a management thread blocks in
  `pthread_join`, head and slaves block in `bsp_sync`, the program blocks in
  every operation.
* A stop reaches the head from the program and the slaves from themselves, while
  the next creation comes from the program.
* Mutexes and condition variables used by hand, twice: the request queue and the
  result store.
* Pieces of a vector are sent as its parts become available, on one tag and
  without a key, to a reader whose receives are in a fixed order.
* A prefetch spans four management threads, one of which may not know the vector
  yet.
* Integer divisions and conversions, and a descriptor copied as raw memory.

`PROJECT.json` lists each hazard at its line with the properties that would
catch it, and says which ones have no property yet.

## 2. Modules

| Module | What it is |
|---|---|
| `ActiveObjects` | abstract specification: logs of calls resolved in order, values seen only when resolved |
| `Futures` | the runtime of calls, futures and releases; implements `ActiveObjects` |
| `FuturesProofs` | TLAPS: the inductive invariant of `Futures`: who is owed which answer |
| `PipelineProofs` | TLAPS: the order of calls in `Futures`, who is served, no cycle of waiting workers, and the refinement of `ActiveObjects` |
| `RequestFifo` | abstract specification of the request queue: each operation one step |
| `RequestQueue` | the queue with its mutex and condition variable; implements `RequestFifo` |
| `RequestQueueProofs` | TLAPS: all safety properties of the queue and the refinement |
| `Lifecycle` | creation, use, destruction of actors of several processes, end of the program |
| `LifecycleProofs` | TLAPS: the inductive invariant of `Lifecycle` and all its safety properties |
| `SequenceFacts` | TLAPS: facts about `Append`, `Tail` and `\o` that several proofs use |
| `Distribution` | operators: division of a vector, pieces of a read, descriptors in memory, process allocation |
| `DistributionFacts` | TLAPS: facts about the operators of `Distribution`: ranges, the loop that skips parts, pieces, gathers |
| `DistributionProofs` | TLAPS: ranges, gathers and allocations, for any number of processes and parts |
| `DataStore` | operators: the store of parts, with the assertions of the code |
| `ResultParts` | distributed vectors that are made, read and released; EXTENDS `Distribution` and `DataStore` |
| `ResultPartsProofs` | TLAPS: the keys of parts never meet, no data is unexpected, released parts are there |
| `Prefetch` | prefetching a vector between two actors; EXTENDS `Distribution` and `DataStore` |
| `ImagePipeline` | the image processing program; EXTENDS `Distribution` |
| `MCFutures`, `MCRequestQueue`, `MCLifecycle`, `MCDistribution`, `MCResultParts`, `MCPrefetch`, `MCImagePipeline` | instances for TLC |

### 2.1 `Futures`

State: `mgmt[c][a]` and `reply[a][c]` are the messages of tag 0 and 1 under way,
one FIFO per sender, receiver and tag, which is MPI's guarantee and no more.
`wait[c]` is the question a caller is blocked on. `nextKey`, `queue`, `store`,
`pending`, `askedDelete` are the variables of the same role in the code;
`worker[a]` is where `master_loop` is; `ticketOf` and `data` are the futures
the program holds and their data. `released` and `calls` are history variables,
used by properties only.

| Action | Code |
|---|---|
| `ActiveCall`, `ReceiveKey` | `ProxyBase::active_call`, before and after the response code |
| `GetFuture`, `ReceiveData` | `Future::get` on a future without data |
| `ReleaseFuture` | `FutureBase::release` |
| `HandleCall` | `handleCallActorMessage`: take a key, post the request, answer |
| `ServeGet`, `DeferGet` | the two branches of `handleGetFutureData` |
| `HandleRelease` | `handleReleaseFutureMessage` |
| `ForgetResult`, `StoreResult` | the early return of `registerFuture`, and the rest of it |
| `TakeRequest` ... `Publish` | one round of `master_loop`, with the function's own `get` and `release` |

Abstractions. The data of a call is its *ticket* (the number of the call), so a
value tells which call it comes from. Functions are of four kinds: return a value;
get the future given; get it and release it; not registered (the error result).
Sends do not block (small messages; the runtime itself relies on it when a worker
sends to its own management thread). Sends of one handler and the handler's table
updates are one step: the management thread is the only one to touch its tables.

### 2.2 `RequestQueue`

Every pthread call is a step. `pthread_cond_wait` releases the mutex and blocks
in one step; it ends by a signal or spuriously and takes the mutex again. The
runtime has one poster per queue; the model takes any set of them, which is more
general. `size` is the number the worker was last told by `getNPendingRequests`,
less what it took since: the answer a caller of `hasRequest` relies on.

### 2.3 `Lifecycle`

`proxy[p]` is `_actorWorkerProxy`, `server[p]` where the management thread is
(serving, joining in `handleStopActorMessage`, joining in the clean-up at the end
of `run`, at the final barrier), `thread[n][p]` where the worker of actor `n` at
`p` is, `syncs[n][p]` the number of BSP barriers it has entered, `functions` the
broadcast function ids. An operation of the program is two steps, sending and
receiving the response code. A call or stop that finds no actor goes through a
null pointer in the code; in the model that management thread takes no further
step, and `ActorIsThere` says that it never happens.

The constant `Overtaking` is the one assumption about MPI. A slave sends a stop
*to itself* just before the last barrier; the program's next message to that slave
is sent causally later but by another sender, and MPI does not order the two.
On the processes of `Overtaking` they may be received in either order, which is
what the standard promises; on the others they are taken to be received in the
order they were sent, an assumption the code makes and nothing enforces.

The program creates an actor only on processes that carry no live actor: a
precondition that the code leaves to the program and does not check.

### 2.4 `Distribution` and `DataStore`

Pure operators, used by the actions of the other modules. `Beg` and `End` are
`div_range` with the conversions between `int` and `unsigned long` it makes, for an
`int` of any width (`IntMax`). `Piece` is what `dv_get_part` and `fetchDv` compute
for one part. `Buf`, `GatheredBuf` and `GetPart` are a descriptor as words of memory:
`parts_offset` is the size of an `int`, the compiler aligns the parts to eight
bytes, and the gather copies from and to places four bytes before the parts; the
model shows that this loses the high word of the last offset and nothing else.

`DataStore` keeps the assertions of the code as `Can...` operators. An action takes
an operation of the store only if its assertion holds (the process ends otherwise),
and an invariant says that it always does.

### 2.5 `ResultParts`

The program distributes vectors (`block_distribute`), calls an actor that copies a
vector as `fetch_dv` of the relay example does, reads vectors and releases them.
A byte is the pair of the vector it was distributed in and its place there, so that
a byte at a wrong place is seen.

| Action | Code |
|---|---|
| `AskDistribute`, `HandleDistribute`, `StoreParts` | `block_distribute`, before, in and after the head's answer |
| `ProgramGet`, `StartFetch` | `dv_get_part` called by the program, by each process of an actor |
| `ReadLocal`, `SpuriousWakeup` | `readStoredResult`, one look at the store with the mutex; a wait that ends for no reason |
| `AskPieces`, `ReceivePiece` | the questions to the other processes, and one receive |
| `StoreAndRegister`, `EndFetch` | `store_result`, `register_result_part`, then `gather_distr_parts` at the head |
| `HandleStore`, `CheckDvPartRequired` | `handleStoreResultMessage`, which gives the mutex back between the two |
| `HandleGet` | `handleGetResultPartsMessage`, with its early return that leaves the mutex locked (`wedged`) |
| `HandleRelease` | `handleReleaseResultPartMessage` |

`PartsPerProc`, `LastFirst` and `Misdeclared` are what the program may do: register
several parts per process, store them in another order than it registers them,
declare a part larger than it is. A vector is released when it was read and no call
needs it: releasing earlier is an error of the program that the code does not check.
`Groups` are actors that may `Share` processes: those live one after the other
(`CanLive`, since a process has one `_actorWorkerProxy`). An actor that is destroyed has
ended its calls; the parts it holds stay in the store. `HasDescriptor` says when a descriptor can
be had: its registration and the question for it (`registerFutureData`, `getFutureData`) are left
out, but the head sends the registration to itself behind its own `STORE`s, so that these are
handled before.

### 2.6 `Prefetch`

| Action | Code |
|---|---|
| `CallProduce`, `RegisterPart`, `EndProduce` | `produce_dv` of the prefetch example: call, parts of the processes, result of the head |
| `AskPrefetch` | `ProxyBase::prefetch` |
| `PrefetchAtHead`, `PrefetchAtSlave`, `EndGather` | `handlePrefetchMessage`; the head is blocked in the gather of keys between its two steps |
| `FetchNow`, `FetchLater`, `FetchAtSlave` | `handleFetchMessage`; at a slave the descriptor comes by a broadcast |
| `HandleRegister` | `registerFuture` and `checkFutureRequired`, which serves a fetch kept for the future |
| `HandleStorePart` | `handleStoreResultPartMessage` |

The number of a vector stands for its keys. A management thread takes the next message of any
sender (`MPI_ANY_SOURCE`), so a request may overtake what a worker sent its own process. The
program may produce vectors of different numbers of elements, and prefetch any future it has at
any time: before it is resolved, a second time, and the future of another prefetch. Where an
assertion of the code then fails (`AssertionFails`), the job is `aborted`; no
action follows. Releases are not in this module.

### 2.7 `ImagePipeline`

Here the distributed vectors are used: `ImgStore`, `MonochromeCompressor` and
`ImageDatabase`, called asynchronously by the commands of the program. A call is one
step, since its supersteps give one outcome whatever the order of the processes; the
calls of the three actors interleave. Byte arithmetic is kept: the ranges of
rows, the header in front of the first part, the averages that overwrite the pixels
they come from, the slots of the hash table. The averages of doubles are taken as
exact, and the hash function is a constant.

## 3. Runs

| Run | Question and answer |
|---|---|
| `futures_safety` | Three calls on two actors, `get` and `release` by the program and the functions in every order. Each blocked process is owed exactly one answer, and the right one (`ExactlyOneAnswerOwed`, `AnswersMatch`); results are registered once and in key order (`PipelineOrder`); nobody is listed beside data that is there or will never come (`ListedWillBeServed`); a result serves everyone listed, also if it was released meanwhile (`ResultServesListed`); workers that are given futures of their own and of each other's actors never wait in a cycle (`NoWaitCycle`). |
| `futures_live` | With fair threads the runtime implements `ActiveObjects`, callers are answered (`CallersReturn`), released data does not stay. The only way a `get` does not return is a use after release, characterised by `UsedAfterRelease`. |
| `request_queue` | Every interleaving of two posters and the worker with spurious wakeups. |
| `lifecycle_groups` | Actors on overlapping lists of three processes created, called, destroyed, created again, the program ending at any time; functions may ask their own management thread. An operation fails to return only when the management thread joins a worker that waits for it (`JoinsAsker`): destroying an actor while one of its requests gets a future of the actor itself blocks for ever. Deadlock is not checked because that state is part of the run. The actor of a single process (rank 3) is checked under any delivery order. |
| `lifecycle_overtaking` | *Expected violation*, section 6. |
| `distribution` | The operators over bounded inputs: ranges of vectors up to twice the range of an `int` (claimed for sizes that are an `int`), reads of every range of every partition, gathers with offsets below, at and above a word, every sequence of allocations. |
| `result_parts` | Every order of stores, questions and releases with two actors that share no process and two vectors. A read returns what it asked for (`ReadsAreRight`), the keys counted down by management threads and up by workers never meet (`KeysAreFree`), a part that is released is there (`ReleasedAreThere`), no reader is sent more than it has receives for (`NoUnexpectedData`), and a read returns unless a request out of bounds left the store of a process locked (`ReadsReturn`). What actors in turn on one process do to keys and to requests that stay in the table is in section 6. |
| `parts_order` | *Expected violation*, section 6. |
| `prefetch` | Vectors of two and of three elements of two bytes, prefetches before, during and after the production, two of one future, and prefetches of prefetched vectors, between actors of two processes each. Every prefetch completes unless an assertion fails (`PrefetchCompletes`); bytes arrive for parts that are prepared and have room for them (`PartsArePrepared`); the data to push is missing in two cases and no other (`DataIsThere`): at a slave that has not handled its own store yet, and of a vector that is itself an incomplete prefetch; where the bytes are divided as the elements were, the right bytes come (`PrefetchedAlikeIsTheVector`). |
| `keys_meet`, `prefetch_sizes` | *Expected violations*, section 6. |
| `images` | Every command with one to three processes for the disk and the database and one or two for the compressor, two images among three. What is loaded is what was stored when the files of all processes but the last have one size (`LoadedIsStored`); the small image is that of one process working on a copy (`CompressedIsRight`); the saved database has every image once (`SavedOnce`, without the sequential insertion into several processes, which puts too much from the head). |

Bounds. Three calls are enough for a future of one actor to be passed to another
and its result back to the first, for two askers to be listed for one future, and
for a release to fall before, between and after them; two actors give both the
actor that asks itself and the one that asks the other. That is said of `futures_safety`, where
workers of both actors can wait at once; `futures_live` has two calls (of more kinds) and asks
only what two calls can show: that an answer, once owed, comes. The queue runs with three
requests for each of two posters: it becomes empty, single and longer, repeatedly.
Two actors in a row on overlapping lists of up to three processes
give reuse of a process as head after slave and slave after head; one call each,
plain, SPMD or asking, is enough to have a request in front of an exit request.
In `result_parts` two vectors of two bytes on actors of two and of one process give
the reader that has a part itself, the one that needs two processes and the copy of a
vector that is not there yet; in `parts_order` a slave with two
parts is enough; in `prefetch` three vectors give one production and two
prefetches of it, or one of the other; two elements of two bytes are divided among two processes
as their bytes are (2 and 2), three are not (4 and 2 bytes, but 3 and 3). `images` uses images of three by three pixels
made two by two, so that the last row and column of squares are cut, and a hash
that makes images meet. `IntMax` is 15 (63 for the images): small enough to go
past it. Every passing run ends with the complete state space.

Deadlock is checked in `request_queue`. In the others the program may stop: it
makes a bounded number of calls and need not end, and an operation whose assertion
fails or that waits for a locked store has no next step.

## 4. Fairness

Weak fairness for each thread: the operating system schedules every thread, and a
blocked caller takes an answer that has arrived (`WF` of the management step, the
worker step, the receiving step). In `RequestQueue` taking the lock has strong
fairness for the worker's next `getNextMessage`: `master_loop` comes back to ask
whatever else it does with the queue. In `ResultParts` and `Prefetch` each management thread, each worker
and the program's wait in a read are weakly fair; a spurious wakeup is not needed for
any read to return. Nothing obliges the program to call, get,
release, destroy or finalize, nothing obliges a poster to post, and a spurious
wakeup is never obliged to happen.

## 5. Proofs

Theorems hold for every value of the constants that satisfies the named
assumptions of the modules (disjoint names, natural bounds, kinds of requests;
ranks are natural numbers, as MPI numbers them).

**`FuturesProofs`.** `ExactlyOneAnswerOwed` and `AnswersMatch` are not inductive.
`IndInv` adds: a worker is blocked exactly on the future of its request
(`WorkerInv`); a question is the last message of its sender, who is blocked on it
(`ChannelInv`); a listed process is listed once, and neither its question nor an
answer is under way (`PendingInv`); an answer goes to a process blocked on its
sender (`ReplyInv`); a blocked process is owed something (`OwedInv`); every call
takes one key (`KeyInv`); queued, running, sent and stored results belong to the
call of their key (`ValueInv`); the program asks only for futures it holds
(`HoldsInv`). The central point is that a process asks one question at a time and
sends nothing after it before the answer arrives: that is why answers need no key.
`Inductive` proves `Spec => []IndInv`, with one lemma for each action and
conjunct; `TypeCorrect`, `OneAnswer`, `RightAnswer` follow.

**`RequestQueueProofs`.** `QueueInductive` proves `IndInv`: types, `MutexHeld`,
`PushInv`, `PopsNonEmpty`, `NoLostWakeup`, `ToldIsThere`. `NoLostWakeup` rests on
`MutexHeld` (`QueueMutex`): the worker sees the queue empty and starts to wait under the mutex
under which a poster pushes and signals. `QueueImplementsFifo` proves that every
step is a step of `RequestFifo` or leaves its variables alone.

**`PipelineProofs`.** `PipelineInv`, on top of `IndInv`: the keys of an actor lie in
order in its queue, at its worker and in what it sends itself, each at one place, and
everything below has been registered (`PipelineOrder`); a release that is waiting for a
result is for a key that has not come (`ReleaseInv`); the future a call is given has a
key that was handed out (`ArgumentInv`); nobody is listed beside data (`ListedInv`); an
answer to a `get` comes from an executed call (`ServedInv`). Since the queue is first in
first out, the worker executes one request at a time and a process's messages to itself
are received in the order they were sent, every key is registered once and after the
smaller ones (`CallsInOrder`). `ListedAreServed` follows, and `ResultsServe` is the
action property: the step that registers a result answers everyone listed. `Refinement`
proves `ImplementsActiveObjects`: a call is made abstractly when the management thread
takes it, resolved when the worker sends its result, and seen when the data is received;
every other step changes nothing that `ActiveObjects` shows. The step that needs the
invariant is the reception: the value received is one that was resolved.

`WorkersDoNotWaitInCycles` proves `NoWaitCycle` for any number of actors and calls. The program
makes one call at a time and can pass on only futures whose keys it was told, so a call is
given futures of calls with smaller tickets, and the calls an actor has accepted have growing
tickets (`TicketOrderInv`). A worker that waits waits for a call made before its own, and
that call's actor is, by its queue, at a call made no later. In a set of waiting workers the one
whose call has the least ticket (the order of the naturals is well-founded) waits for none of them.

**`DistributionFacts`, `DistributionProofs`.** `DivRangeTiles`: for every size that is an
`int` and every number of processes the ranges of `div_range` follow each other from 0 to
the size and differ by at most one, conversions included. `GatherKeepsParts`: the gather
that copies four bytes off keeps every part of every process, provided the last offset of
each is below a word, for any numbers of processes and parts; the argument goes word by
word through the memory of the descriptor. `ChosenFacts`, `PiecesAtFacts` and their
companions say that a loop that skips some parts keeps the others in order. These stand in
`DistributionFacts`, since `ResultPartsProofs` needs them too. `AllocatorGivesOnce` is an
induction over the requests: what is given lies below the next process.
`RangesAlwaysTile` and `AlwaysGatheredInOrder` are the same facts as invariants of
`MCDistribution`, whose bounds are arbitrary here.

**`LifecycleProofs`.** `LifeInductive` proves `LifeInv`. Its parts: nothing is kept of an
actor that was not created (`UncreatedInv`); living actors have disjoint processes
(`GroupInv`); a worker runs only where the proxy is its actor's (`ThreadInv`); the number
of barriers a slave has entered is the head's less the function ids it has not received,
the last of which is the one that ends it (`SyncInv`); a process sends itself at most one
message, and a slave that has left has its stop under way or served (`SelfInv`);
what a management thread joins (`ServerInv`); what the program waits for and what has
become of it (`ProgramInv`), and what each of its messages will find (`ClientInv`); calls
made are calls executed, running, queued or sent (`CountInv`); a destroyed actor has
ended everywhere (`DestroyedInv`). The seven safety properties of the run follow. The
theorems have one hypothesis, `SlavesInOrder`: a process that is a slave of some actor is
not in `Overtaking`. It is used at one place, the creation that reaches a process whose
slave has left: there the stop the slave sent itself must have been received. Heads may be
overtaken, so for actors of one process the theorems assume nothing. Without the
hypothesis `ActorIsThere` is false (`lifecycle_overtaking`).

**`ResultPartsProofs`.** `KeysNeverMeet` proves `KeysAreFree` for every set of actors,
vectors and parts per process. The invariant `KeyInv` follows a key from where it is given to where it is kept: the head of an actor
counts down, so what it gave is negative and above `localKey`; a process counts up, so what
it took is at least zero and below `nextKey`; only the program sends keys of the first kind
and only the process itself keys of the second (`SentInv`, `StoredInv`). A key is at one
place: in a descriptor on its way to the program (`NewInv`, `ApartInv`), in one message, or
in the store (`OnceInv`). The counter of a head starts at -1 in every process, so two
heads that give keys to one process give the same ones. The theorem therefore has one
hypothesis, `SameHead`: the actors that live on a process one after the other have the same
head. Without it `KeysAreFree` is false (`keys_meet`, section 6). The lemmas about `Chosen`
and `SendAll` say what a loop of sends adds to each channel.

`NothingUnexpected` proves `NoUnexpectedData` under the same hypothesis, and section 6 shows
that without it the property is false. Answers carry no
key, so a piece too many would be taken for the next one. What makes this hard is that
`checkDvPartRequired` serves the requests listed for a part and leaves them listed: the
reader may be idle, or at another read, by then. Nothing but the keys keeps such a request
from being served again: where heads do not change on a process, a key that was given is not
given again, also after its part is released, so no part is stored under it a second time.
`ReadInv`, on top of
`KeyInv`, says so: a known key was given and is not in an answer on its way (`KnownInv`);
no part is in two descriptors or twice in one (`PartsApart`); an unfinished vector
has one actor and no descriptor (`JobInv`); a reader that is not yet receiving is going to
ask for exactly the pieces it wants (`ReaderInv`); a question on its way is the only one
of its reader at that process, and no answer is before it (`AskInv`); a request listed
for a part *that is still to be served* belongs to a reader that waits for that part and is listed once (`ListedInv`; of the
stale requests it says nothing); at most one stored part is still to be
checked for requests (`CheckInv`). `CountInv` adds up: the pieces on their way and those not yet sent
are at most the receives the reader has left. Each step moves a piece from one side to the
other, and the difficult one is the stored part, which turns `NotYet` pieces into answers.
The count is a
cardinality and not a sum over the sequence, and that keeps it within reach of the prover.

`ReleasesFindTheirParts` proves `ReleasedAreThere`. The program releases a vector that somebody
read, but each process of an actor reads a part of it only, and a process that answered a
question keeps no trace of it. `PlaceInv` follows what a reader learns: a
receiving reader has found all its own parts stored (`LocalInv`), and with `CountInv`
one that has received its last piece leaves every part it met stored; while an actor copies
a vector, the processes that have made their part keep this for their range (`FetchInv`;
`BusyInv` and `WholeInv` say who reads what); when all have, their ranges cover the vector
(`RangesCover`, from `DivRangeTiles`), so every part with bytes is stored (`SeenInv`). A
release is sent once for each part, and keys do not come again, so the part stays until
the release comes (`LeavingInv`). The ranges cover the vector only if `div_range` can
count its elements, hence the second invariant `SizeInv(E)`: a copy grows by at most what
one process misdeclares, and a copy comes after what it is a copy of. The theorem has
the hypotheses `SameHead` and `Small(E)`, that is `N + MaxVectors * E <= IntMax` for some
bound `E` of `Misdeclared`; the run has `E = 1`. Beyond an `int` the ranges are wrong and
the property is not claimed.

**Only model-checked.**

* Liveness: beyond the prover.
* `PiecesFillTheBuffer` counts the bytes that any number of pieces write, and
  `ReadsAreRight` follows those bytes from the parts of one vector to the parts of its
  copies; `PrefetchedAlikeIsTheVector` does the same for a prefetch. The theorems above
  follow the messages and the parts, not their bytes.
* `PartsArePrepared` and `DataIsThere` of `Prefetch`: the invariant they need follows one fetch
  through three management threads and was not written.
* The invariants of `ImagePipeline`: their averages are folds over sets (an induction
  over data), and `SavedOnce` compares them.

## 6. Findings

`lifecycle_overtaking`. `destroyObject` is answered by the head once all workers
have passed the last barrier. Each slave has by then sent itself
`StopActorMessage(false)` (`src/shmem/SharedMemoryMasterProxy.cpp:36`), but its
management thread receives with `MPI_ANY_SOURCE`
(`src/mpi/MPIActorCommunicator.cpp:53`) and may receive the program's next
creation first. The late stop then joins the worker of the new actor, and a later
stop finds no actor. The tests reuse processes at once
(`src/src/tests/func/test_func_DistrVector.cpp:236` and `:243`). With actors of
one process, or when self-sent messages are not overtaken (both in
`lifecycle_groups`), this does not happen.

`parts_order`. `dv_get_part` posts its receives in the order of the parts, "to receive
all parts into buffer at right position" (`src/mpi/MPIActorCommunicator.cpp:311`), but
all pieces of one process come on one tag in the order they are sent, and a piece whose
part is not stored yet is sent later than one that is
(`src/management/ActorServer.cpp:277`). A *slave* with two parts that stores the second first
sends its management thread the second, then the first. The descriptor is registered at the head,
and nothing orders it behind these two messages: the slave's management thread may receive
the reader's question (`MPI_ANY_SOURCE`) between them, answers the second piece at once and the
first later, and the two are exchanged. The parts of a head are safe: it registers the
descriptor by a message behind them on the same channel and tag (`registerFutureData`), and
nobody has the descriptor before that was handled (`HasDescriptor`). One part per process, which
is what `register_single_part_result` makes, is safe too (`result_parts`).

`prefetch_sizes`. `fetchDv` sends the first bytes of its part for offset 0 of the
wanted part (`src/management/ActorServer.cpp:615`), whatever range is wanted. The part
to prepare is a range of the bytes (`include/Proxy.hpp:42`), the producer's part a range of
the elements. Whenever the two divisions differ the prefetched vector has wrong bytes, while the
prefetch example compares it with the original
(`src/src/examples/prefetch/src/main.cpp:482`): between actors of different numbers of
processes, and between equal ones too unless all processes have the same number of elements. The
trace has three elements of two bytes on two processes.

`keys_meet`. `handleDistributeVectorMessage` takes the keys of the parts of all processes
of the actor from a counter of the head's process, which starts at -1 everywhere
(`src/management/ActorServer.cpp:430`, `include/management/ActorServer.h:74`). A process
that is given to a second actor, under another head, gets the same keys again while parts
distributed on the first actor are still in its store: the assertion of `storePartMessage`
fails (`src/future/DataStore.cpp:30`), or, compiled without assertions, readers of the
second vector get bytes of the first. The trace distributes a vector on an actor of
processes 1 and 2, then one on an actor of processes 3 and 2. `KeysNeverMeet` shows that
keys do not meet in any other way.

The keys have a second consequence. `checkDvPartRequired` serves the requests that were kept for
a part and leaves them in the table (`src/management/ActorServer.cpp:371`). When the part is
released and an actor under another head gives its key again, the next part stored under it is sent
to the reader of the released one as well, which takes it for the first piece of its next read
from this process. `MCResultParts` gives this as a violation of `NoUnexpectedData` with
`Groups <- ThreeInTurn`, `N = 2`, `MaxVectors = 3`, `Misdeclared = {0}` and the other constants of
`MCResultParts_heads.cfg`; no run of the project repeats it. `NothingUnexpected` shows that
with one head per process, or with actors that share none, it does not happen.

Two assertions of the prefetch fail in `MCPrefetch`, with `aborted` as the outcome. A future that
is not resolved yet is prefetched a second time (`src/management/ActorServer.cpp:542`); nothing in
`ProxyBase::prefetch` prevents it. And `fetchDv` looks for bytes that are not there: the
comment says "just print a warning if not" (`src/management/ActorServer.cpp:602`), the code
asserts (`:608`). `DataIsThere` says when: at a slave that has not handled its own store yet,
which is overtaken by the request, and for the future of a prefetched vector, which is registered
before its bytes come and can be prefetched at once. (`DataIsThere` without either of its last two
disjuncts is violated in the run `prefetch`.)

While looking for an invariant for `ReleasedAreThere` TLC showed a case that the run's
bounds do not have: with fewer elements than processes some parts have no bytes, nobody asks
for them, and the program can release a copied vector before the process that holds such a
part has taken its own message that stores it. The assertion of `removePart`
(`src/future/DataStore.cpp:160`) then fails. `ReleasedAreThere` excepts parts without bytes.

Properties with a stated condition show limits of the same kind: the high word
of a last offset (`GatheredInOrder`), vectors of more elements than an `int` counts
(`RangesTile`), a division of bytes that is not that of the elements
(`PrefetchedAlikeIsTheVector`), an assertion of the prefetch (`PrefetchCompletes`), uneven files (`LoadedIsStored`), sequential insertion (`SavedOnce`), a
store left locked (`ReadsReturn`), a joined worker that asks (`OperationsReturn`).

## 7. Not modelled

* **Serialization, declaration macros, registry**: templates and preprocessor glue
  without control of their own.
* **BSPlib wrapper** (`src/src/NewActiveBSPonMPIWrapper`): a thin layer over an
  external library; its barrier is a step of `Lifecycle`.
* **Direct futures**: a transport that no factory creates. `storePartVector` of the
  store, which nothing calls, and the variant of `broadcast_dv` behind
  `BROADCASTDV_OPT`, which is 0.
* **Buffers**: the byte layout of messages and who owns a send or receive buffer
  (a stored result keeps the buffer of its message; `dv_release` sends asynchronously
  from messages on the stack). Messages are values here.
* **Synchronous sends**: every send is taken as buffered. With a rendezvous for large
  messages the blocking sends of `fetchDv` between management threads can wait for each
  other.
* **Calls, creations and destructions by functions of actors**, and a worker that
  calls `block_distribute` (its answer comes on the tag of its own management thread).
* **`isHead` before the worker has started**, and the release of a future with a fetch
  asked for it: they join two modules. `Prefetch` has no release at all.
* **The relay's buffer**: `bsp_fetch_dv` makes it `r_v_size / nprocs` long, which is too short for
  the first processes when the division leaves a remainder; `StartFetch` takes it as long as the range.
* In the image example: the search of an image, `loadDb`, files that cannot be
  opened, `loadImageSeq` with files of different sizes (the processes disagree on the
  places and on the number of barriers), more processes of the compressor than rows.
* Logging and timing, the other examples, benchmarks and vendored code.

## 8. Plan

1. Proofs for `Prefetch`: `PartsArePrepared` and `DataIsThere`, with an invariant on the one
   fetch of a future: asked for, prepared, sent, complete.
2. Join `ResultParts` and `Prefetch`: a release of a future with a fetch asked for it,
   and `isHead` before the worker has started.
3. `ReadsAreRight` for vectors with one part per process, where a piece needs no fold.
