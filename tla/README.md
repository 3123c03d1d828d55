# TLA+ models and proofs for cpplearning

The repository is a collection of C++ programs. Some of them are exercises of a
few lines; others have the concurrency, the failure handling or the manual
memory management that tests reach badly. This directory models the second kind
in TLA+, checks the models with TLC on small instances, and proves the most
important results for every instance with TLAPS.

Paths below are relative to `src/`. `PROJECT.json` gives, for every definition
that models code, the lines it stands for.

1. [The system](#1-the-system)
2. [What is modelled, and how](#2-what-is-modelled-and-how)
3. [What the runs check](#3-what-the-runs-check)
4. [Fairness](#4-fairness)
5. [What is proved](#5-what-is-proved)
6. [What disagreed with a comment](#6-what-disagreed-with-a-comment)
7. [What is not modelled](#7-what-is-not-modelled)
8. [Plan](#8-plan)
9. [Running everything](#9-running-everything)

## 1. The system

### ThreadPool (`net/threadpool.h`, and a copy in `net/main2.cpp:170-244`)

*State.* A `std::queue` of closures, a vector of threads, one mutex, one
condition variable, an atomic `stop_`.

*Operations.* The worker loop; `enqueue` (lock, throw if `stop_`, push, unlock,
`notify_one`); the destructor (`stop_ = true`, `notify_all`, join everybody).

*Who uses it.* `fd/src/fd4.cpp`, whose tasks enqueue further tasks, and the echo
server, whose tasks are connections.

*What is hard.* The destructor stores `stop_` and notifies without the mutex, so
both can fall between any two instructions of a critical section. `notify_one`
comes after the unlock, so a wakeup is under way while the queue changes.
Workers leave one at a time while other tasks still submit.

*Correct when.* No accepted task is lost, run twice or overtaken; no worker
sleeps on queued work that nobody else is coming for; the destructor returns,
and only over a drained queue; the intake closes once it began.

### The directory search (`fd/src/`)

`fd.cpp` and `fd2.cpp` recurse in one thread. `fd3.cpp` has workers around a
queue of directories (`DirQueue`), a counter `pending_work`, and a main thread
that sleeps on its own condition variable. `fd4.cpp` makes each directory a task
of `ThreadPool` and main polls `active_tasks`. All four share `is_ignored`,
`--max-depth` and the pattern. `fd3.cpp.cpp` is an unfinished stub that is not
built.

*State.* The counter, the queue, each thread's position in its directory, the
results, the mutexes.

*What is hard.* Termination detection: main must move on neither before the last
directory is searched (it destroys the mutex and the counter the workers use)
nor never. A counter that is raised too late, a notification sent too early, a
directory that throws halfway: each breaks it, in interleavings a test on a fast
disk does not meet.

*Correct when.* The counter is exact; main moves on only when nothing is queued
or running; it does move on; the threaded programs print what the recursive one
would, each entry once.

### EchoServer, EchoClient, Socket (`net/echoServer.h`, `net/echoClient.h`, `net/socket.h`; copies in `net/main2.cpp`)

*State.* The listening socket, `running_`, `active_connections_`, a
`ThreadPool` with one task per connection; the client's socket.

*Operations.* `start` (the accept loop), `handle_client` on a worker, `stop` from
any thread, the destructor; `connect` and `send_message` of the client.

*What is hard.* A worker belongs to a connection until the client leaves, so
connected clients exhaust the pool; `stop()` closes the listening socket but
wakes nobody who is blocked in `accept` or `recv`; a connection travels through
a local, a closure, the queue and a worker, each of which could leak it; every
`send` and `recv` may move a part; a client may die between its message and the
echo.

*Correct when.* Every connection is in one place and closed once; the counter is
the number of handlers; an echo is what was sent; an accepted client is served;
the server stops.

### MemoryPool (`mempool/fixedsizepool.cpp`)

*State.* A free list threaded through the chunks, the blocks, a count.
*Operations.* `allocate`, `construct`, `deallocate`, `destroy`, the destructor.
*What is hard.* The link lies in the memory the object will overwrite; `T`'s
constructor and destructor may use the pool; a constructor may throw.
*Correct when.* A chunk is free or handed out, never both; the count is exact;
no block is taken while a chunk is free. `MemoryPool2` in the same file does not
compile.

### MyVector (`datastructure/myvector.cpp`)

*State.* Raw storage, a size, a capacity.
*Operations.* push, emplace, pop, resize, reserve, shrink, clear, copy, move,
swap, access.
*What is hard.* Which slot is raw, alive, moved from or destroyed after a long
sequence of legal calls; arguments that alias an element; a copy assignment
that throws half way, also when the vector assigned to is empty.
*Correct when.* Exactly the slots below the size are alive, no buffer has two
owners, and the elements are those of a sequence.

### Sorting (`sort/main.cpp`)

Two quick sorts, with two partition schemes, four merge sorts, heap sort, three
insertion sorts. *State:* the array, the locals of a loop, the stack of recursive
calls. *Hard:* the boundaries of the recursions and of the bottom-up passes, which
run wins an equal key, and two scans that check no bound and rely on what lies in
the array to stop them. *Correct when:* the result is
the ordered permutation of the input, and equal keys stay in the order of the
input, or not, as the sort is known for; three of the merge sorts differ there
from what the repository says of them (section 6).

### gRPC file server (`grpc/fileserver/`)

*State.* Files on the server's disk; one open stream for each call in progress.
*Operations.* upload, download, list, delete, on a pool of gRPC threads.
*What is hard.* Two uploads of one name; a download during an upload or a
delete; a stream cut midway, which the server takes for its end; reads and
writes whose failure nobody looks at; a full stream whose writer waits; no
deadline.
*Correct when.* A file that was reported as stored is one client's upload, a
download that succeeds is the file or a beginning of it, and every call ends.

### The small programs

`hello/resource_usage_random.cpp` (a thread that grows and shrinks an
allocation towards a random target), `include/tool.h` (`print`, which locks for
each argument), `common/gutils.cpp` (`glob_to_regex`), `common/zfs.cpp` and
`fd/src/finder.cpp` (copying files), `hello/` (samples of language features),
`hello/win/`, `json/`, `grpc/helloworld/` (samples of libraries).

### How they interact

```
 fd.cpp, fd2.cpp  -- recursion ------------------.
 fd3.cpp  -- worker --> DirQueue (mutex + cv)     >-- is_ignored, DepthAllows
          `- main ----> worker_cv                /
 fd4.cpp  -- fd_search_threaded ----------------'
          `- enqueue -> ThreadPool <- enqueue -- EchoServer <- sockets -- EchoClient

 fileserver/client.cpp -- gRPC streams -- fileserver/server.cpp -- files
```

`MemoryPool`, `MyVector` and the sorts are used by nothing but their own demos.

## 2. What is modelled, and how

| Module | Models | Kind |
|---|---|---|
| `TaskExecutor` | what a thread pool promises | abstract specification |
| `ThreadPool` | `net/threadpool.h` | detailed, refines `TaskExecutor` |
| `FileTree` | the directory tree, `is_ignored`, depth, the recursive search | constants and operators |
| `FileSearch` | what every fd program promises | abstract specification |
| `Fd4Search` | `fd4.cpp` on top of `ThreadPool` | composition, refines `FileSearch` |
| `DirQueue` | class `DirQueue` of `fd3.cpp` | operations used by `Fd3Search` |
| `Fd3Search` | `worker` and `fd_search_enhanced` of `fd3.cpp` | composition, refines `FileSearch` |
| `EchoServer` | `echoServer.h`, `echoClient.h`, `socket.h` on top of `ThreadPool` | composition |
| `ChunkAllocator` | what a pool of chunks promises | abstract specification |
| `MemoryPool` | `MemoryPool<T>` of `fixedsizepool.cpp` | detailed, refines `ChunkAllocator` |
| `SeqVector` | what vector operations do to the elements | abstract specification |
| `MyVector` | `myvector.cpp`, slot by slot | detailed, its defined steps refine `SeqVector` |
| `FileService` | `fileserver/server.cpp` and `client.cpp` | both ends and the streams between |
| `SortArray` | the array, the locals and the stack of calls of `sort/main.cpp` | state shared by the next four |
| `ExchangeSorts` | `quickSort`, `quickSortH`, `heapSort` | actions |
| `MergeSorts` | `mergeSort` and the three bottom-up merge sorts | actions |
| `InsertionSorts` | the three insertion sorts | actions |
| `Sorting` | the choice of a sort and an array, and the properties | composition |
| `MC*` | small instances | TLC |
| `*_proofs` | theorems | TLAPS |

### ThreadPool

The variables are the members of the class plus one program counter per thread
and role: `wpc` for the worker loop, `epc` for a call of `enqueue`, `dpc` for the
destructor. `submitted` and `done` are history.

A critical section is one action when nothing it reads can change under it. It
is split where the destructor can come between, since the destructor takes no
lock. That gives three windows:

* `park`: a worker has evaluated its predicate to false, holds the mutex, and
  has not blocked yet (`threadpool.h:29-31`);
* `push`: `enqueue` has tested `stop_` and not pushed yet (`:67-68`);
* `notify`: `enqueue` has released the mutex and not notified yet (`:69-70`).

`TakeTask` needs no split: once the queue is seen non-empty a store of `stop_`
changes nothing. `condition_variable::wait` may wake spuriously (`SpuriousWake`)
and `notify_one` wakes any one waiter. A closure that throws is caught by the
worker and counts as finished. A thread that has not been started by the
operating system yet is one that has not left `loop`.

A task may be enqueued once (`Fresh`): a task stands for one submission, and two
submissions of the same function are two tasks.

### FileTree, FileSearch

A tree is given by constants. `Entries(d)` is what `directory_iterator` yields.
A directory in `Faulty` may throw `filesystem_error` at any point of its
iteration. `is_ignored` is a *set* of possible answers: the function builds a
`string_view` from a temporary string that is destroyed before the first rule is
tried, so as soon as there is a rule the answer is arbitrary. `skipped` and
`failed` record, as history, what was decided; `Reported(skipped, failed)` is
then what the recursive `fd_search` reports under the same decisions, defined
without recursion as the least closed set of directories.

`FileSearch` reports entries of that set one at a time, each once, and ends only
when all of them have been reported. Its `found` is the sequence of entries in
the order of reporting, which the threaded programs map their `results` to, so
an entry printed twice would be no step of it.

### Fd4Search

Extends `ThreadPool`. A task of the pool is a call
`fd_search_threaded(dir, ..., current_depth)`, the pair `<<dir, current_depth>>`.
Every action is an action of the pool taken with what the search does in it
(`StartItem`, `EnqueueChild`, `PushChild`, `EnqueueReturns`, `FinishItem`,
`Idle`, `Wake`, `DestroyPool`) or an action of the search that leaves the pool
alone. main takes part twice: it makes the first call itself, so it is one of
the threads that scan and enqueue, and then it polls.

The order in the code is kept: the counter goes up before the child is enqueued
(`fd4.cpp:146`) and down as the last thing of the call (`:164`), on the
exceptional path too. The order in which a directory yields its entries, and the
order in which its subdirectories are enqueued, are arbitrary.

### DirQueue, Fd3Search

Everything in `DirQueue` happens with its mutex held, so each of its critical
sections is an action. `pending_work` is changed outside every lock; main tests
it and the queue one after the other (`EvalPending`, `EvalEmpty`) with
`worker_mtx` held, and a worker that wants to notify must wait for that mutex
(`Signal` is disabled while `mpc = "empty"`). Between `fetch_sub` and the
notification a worker is in `signal`.

### EchoServer

Extends `ThreadPool`. A task of the pool is a connection, named by its client,
since the closure that `start` enqueues owns the `Socket`. As in `Fd4Search`,
every step is a step of the pool taken with what the server does in it (`Hand`,
`HandPush`, `Handed`, `HandlerStart`, `HandlerEnd`, `Idle`, `Wake`, `Destroy`) or
one that leaves the pool alone.

| In the model | In the code |
|---|---|
| `apc`, `accepted` | the thread in `start`: makes the socket, binds and listens, stores `running_`, then tests it, sits in `accept`, holds the new socket, enqueues it |
| `fd` | the descriptor in `server_socket_`: none, made, listening |
| `stopper`, `running_` | a thread in `stop()`, split between the store and the close |
| `hpc[w]`, `buffer[w]` | `handle_client`: the test of `running_`, `recv`, `send_all`, the guard's destructor |
| `cpc[c]`, `sent`, `got` | `run_client_test`: `connect`, then `send_message` for each message |
| `backlog`, `inbound`, `outbound`, `open` | the kernel (external): connections not accepted, bytes under way, descriptors |

The kernel may complete any `send` and `recv` partly. A connection exists before
`accept` returns it; `close` of the listening descriptor wakes no `accept` in
progress and, once that is over, resets what waits; closing with bytes unread
resets the peer, which may lose what it has not read; sending to a client that
is gone succeeds into nothing, fails, or raises `SIGPIPE`, which ends the
process. `stop()` from another thread is public and no demo uses it.

The behaviour begins with the call of `start`. Each of its calls may fail, which
leads to the destructor. A `stop()` may come between any two of them. One
that closes the socket before `listen` makes `start` fail; one that comes between
`listen` and `running_.store(true)` (`echoServer.h:86`) is overwritten by that
store, and `start` then tries the closed socket for ever, with `accept` returning
at once. A client of `Mortal` may be killed, or fall silent without leaving.

### MemoryPool, ChunkAllocator

`next[c]` is the link in the first bytes of chunk `c`; handing `c` out turns it
into `Junk`. `calls` is the stack of constructors and destructors that run, each
of which may call the pool again. `lost` and `wasted` record the chunk of a
constructor that threw and the block that `blocks_.push_back` could not record.
`Carve` writes the links of a new block in one assignment, which is what the
loop at `:106-111` leaves. The refinement maps `holders` to the number of owners
of each chunk (client, constructor, destructor, nobody).

### MyVector, SeqVector

A buffer is a sequence of slots, `Raw` where no object lives. `trivial` chooses
once whether `T` is like `int` or like `std::string`. An operation computes the
new vector and the undefined behaviour it meets; the first one sets `fault` and
ends the behaviour. An operation whose argument may be an element of the vector
itself is an action of its own (`PushOwn`, `ResizeOwn`): the reallocation frees
the buffer the reference points into (`:76`, and `:108` before `:112`).
`data.from` remembers how the buffer was obtained:
`::operator new`, `new T[]` (the copy assignment), or freed (`gone`, a copy
assignment whose `new T[]` threw). When the vector assigned to had no buffer, that
throw leaves a null pointer under the other vector's size and capacity (`Lost`):
nothing is freed there, and whatever uses an element uses memory at an address
near zero. The assignment of an element may throw too (`CopyFirst` with fewer
elements assigned than read). `At` is `at(size())`, the one index that the test
at `:143` lets through and should not: the slot after the last element, or memory
after a full buffer.

The model speaks of the slots a vector has now. `reallocate` (`:191-201`) moves or
copies the elements and frees the old buffer without destroying the objects in it,
so their lifetimes are never ended: those objects leave the model with their
buffer.

### FileService

A call has a record with the state of both its ends and of the stream: `cpc` for
the client's function, `spc` for the server's handler, `up` and `down` for the
messages under way, `half` after `WritesDone`, `cut` when the connection broke,
`told` for the ends that know of it. A break drops the end of what is under way in
each direction, and each end hears of it in its own time (`Learn`): until then the
client goes on reading its local file into nothing, and the handler waits in
`Read`. A stream holds `Window` messages; a `Write` to a full one blocks until the
other end reads, returns, or the break is heard of, and the client leaves its loop
only at the end of its file or when `Write` returned false (`client.cpp:58-78`).

Reads and writes of files fail where nobody looks. `bad` is an `ofstream` after a
failed write, which takes no more (the handler's in an upload, `server.cpp:60`; the
client's in a download, `client.cpp:114`); a failed `close` counts as a failed
write of the last chunk. `torn` records that the handler's `read` failed, which
ends its loop with OK like the end of the file (`server.cpp:98`, `:118`), or that
the `directory_iterator` or `file_size` threw for any reason but a deleted entry
(`ListFails`, `server.cpp:131-143`).

A file is a sequence of chunks tagged with the upload that wrote them; a name
stands for a file, so a deleted file still exists for the handlers that have it
open, and an upload of an existing name truncates the file others have open.
A file that is there when the server starts is known by its name, so two names
never start with one file; the code has no operation that makes a second name
for a file. `Written` is `ofstream::write` at the handler's own position: it overlays, and
fills a gap with zeros. `disturbed` records the calls whose file another call
opened for writing or deleted meanwhile.

### Sorting

The initial state chooses the array and one of the ten functions (`by`); from
there every behaviour is that function's execution, one action per round of a
loop, per recursive call and per return. An element is `[key, id]`: the code
compares keys only, and `id`, the place in the input, shows what became of equal
keys. Indices begin at 1. `low`, `mid`, `high`, `i`, `j`, `key` stand for the
locals of those names of the function that runs (`high` is the size of the heap
in `heapSort`, and `low`, `high` are `left`, `right` of the binary search); `out` is
`tmp`.

`calls` is the stack of calls still to be made. `quickSort` and `mergeHelper` do
nothing after a call but make the next one or merge, so a frame is a range, or a
range with its middle for the merge that follows two calls.

| In the model | In the code |
|---|---|
| `QuickCall` ... `PartitionEnd` | `quickSort` and `partition` (`:24-50`) |
| `HoareStart`, `ScanUp`, `ScanDown`, `HoareSwap`, `HoareReturn` | `partitonHoare` and `quickSortH` (`:8-23`, `:51-57`) |
| `HeapBuild`, `HeapExtract`, `HeapifyDown` | `heapSort` and `heapify` (`:245-292`) |
| `HelperHalves`, `HelperMerge` | `mergeHelper` (`:194-204`) |
| `Segment`, `EndOfPass` | the loops of the bottom-up sorts (`:98-102`, `:139-143`, `:165-168`) |
| `TakeLeft`, `TakeRight`, `WriteBack` | `merge` and the merges inside the loops (`:69-90`, `:109-131`, `:145-157`, `:169-189`) |
| `LeastStep`, `LeastEnd` | the search for the sentinel (`:335-344`) |
| `Hold`, `HoldBinary`, `Bisect`, `Shift`, `Insert` | the insertion loops (`:294-358`) |

Three guards carry what the four merge sorts differ in: `MorePasses` and
`MoreSegments` (the bounds of the loops), `LeftEnd` (how a short segment is cut
into two runs) and `LeftWins` (the comparison). Two of the bottom-up sorts fill
`tmp` in a pass and copy it back at its end. The model copies each segment back
when it is merged, which no merge of the pass can tell, since segments are
disjoint and cover the array. An index outside the array stops TLC.

`mergeBottom` computes the number of its segments as `ceil(n / (float)step)`
(`main.cpp:166`). `MoreSegments` computes it exactly, which is what the code does
as long as a float holds the length: `SortAssumption` has `MaxLen <= ExactFloat`,
2^24.

## 3. What the runs check

| Run | Instance | States | Shows |
|---|---|---|---|
| `pool` | 2 workers, 3 tasks | 2304 | all properties of `ThreadPool`, refinement and liveness |
| `pool_stop` | the same | - | the destructor can hang (violation, section 6) |
| `fd4` | main, 2 workers, 7 nodes, depth limit 2 | 10838 | all properties of `Fd4Search` |
| `fd4_rules` | the same, one rule | - | a rule may be disobeyed (violation, section 6) |
| `fd3` | 2 workers, the same tree | 52955 | all properties of `Fd3Search`, no deadlock |
| `echo` | 1 worker, 2 clients with 2 messages of 2 bytes, one may die or fall silent | 231381 | all properties of `EchoServer` |
| `mempool` | 3 blocks of 2 chunks, nesting depth 2 | 121564 | all properties of `MemoryPool` |
| `vector` | 2 vectors, 2 values, capacity up to 3 | 161889 | all properties of `MyVector` |
| `vector_raw` | 1 vector | - | `resize` assigns to raw memory (violation, section 6) |
| `files` | 2 calls of any kind, 1 name, up to 2 chunks, a window of 1, the connection of one call may break | 293554 | all properties of `FileService` |
| `files_success` | 1 call | - | a refused upload is reported as a success (violation, section 6) |
| `sorts` | all arrays of up to 6 elements over 3 keys, each of the 10 sorts | 291849 | all properties of `Sorting` |

*Bounds.* Two workers are the least with which one can sleep, or leave, while
the other works, and both can race for one task. Three tasks give one running,
one queued and one being submitted at once. The tree has a chain longer than
`--max-depth`, a directory on the limit (reported, not entered), siblings, a
directory with an entry of each kind that may throw after any of them, and a
rule, so that any entry may be skipped. With one worker and two clients the
second connection waits in the pool's queue behind the first; two messages of
two bytes are cut in every way, within a message and between two. Three blocks
let the list run empty and grow twice and one block be wasted; a block of two
has a first and a last chunk, and depth two is a constructor inside a
constructor or a destructor. Capacities 0 to 3 are the cases of the growth rule,
1 being the one where it rounds to itself. Two calls give every pair of
operations; two chunks give a whole file, a file with a short end, and a call
interrupted between chunks; a window of one makes both sides wait, and fills with
the first chunk. One call of the two meets a broken connection: calls share
nothing but the files, so what a break does to a call and to the other calls'
files shows with one. Six elements
are no power of two and leave a short segment and a segment with no right run in
the bottom-up sorts; three keys force repetitions.

### Properties of ThreadPool

* `NoLostWakeup`: while a worker sleeps, the queue is no longer than the number
  of workers awake plus the notifications still to be sent.
* `ExactlyOnePlace`: an accepted task is in the queue once, or with one worker,
  or done.
* `DrainedWhenDead`: the destructor returns only when everything accepted has
  been run, including what running tasks added after `stop_`.
* `IntakeCloses` (action property): after `stop_` the first moment the mutex is
  free ends the intake. Before it, one more task may still get in: the one whose
  `enqueue` had tested `stop_`.
* `AcceptedTaskRuns` (liveness).
* `HangsOnlyInTheWindow` (liveness): the destructor returns in every execution
  in which no worker stands in the window when `notify_all` runs.
* `ImplementsExecutor`: started in order of submission, one worker each, closed
  when quiet.

### Properties of the searches

* `ActiveCounts`, `PendingCounts`: the counter is exactly the number of
  directories queued, being searched, or counted and not queued yet.
* `QuietAfterPoll`, `QuietAtFinish`: when main moves on, nobody is left who could
  touch what it destroys.
* `NoLostSignal` (fd3): main sleeps on a counter of zero only while some worker
  has still to notify it.
* `NoSleepingOnWork` (fd3): queued directories are not left to sleepers alone.
* `ImplementsSearch`: what is reported is what the recursive search reports, each
  entry once, and the end comes after the last of them.
* `SearchPrints` (fd4: main passes its polling loop), `SearchEnds` (fd3: every
  worker is joined).

### Properties of EchoServer

* `ConnectionsAccounted`: an open descriptor is with the acceptor, in the queue,
  or with one handler, and in one of these only; the counter is the number of
  handlers; a destroyed server has none left.
* `EchoExact`: what the client has read, followed by what is on its way back, in
  the handler's buffer and on its way in, is what it sent, in order and once.
* `ServesToTheEnd`: a handler gives up a connection of a running server only
  when its client is gone, and only a client that died can turn an echo into a
  `SIGPIPE`.
* `ClientsServed` (liveness): without `stop`, deaths and silent clients every
  client gets all its echoes, also with fewer workers than clients.
* `EndsUnlessInAccept` (liveness): after `stop()`, or a `start` that failed, the
  server ends, unless the acceptor stays in `accept`; or the `stop()` came before
  `start` stored `running_` and is overwritten (`:86`); or a handler stays in
  `recv` with a client that is silent, so that the join waits for it; or a
  `SIGPIPE` kills the process; or the pool's destructor meets the window of
  `pool_stop`.

### Properties of MemoryPool

* `FreeListExact`: the free chunks are the least set closed under the links from
  the head, and no set of them is without a way out: the list holds exactly what
  nobody holds and has no cycle.
* `CountExact`: `allocated_count_` counts what is out, lost chunks included.
* `Footprint`: the blocks are never more than the largest demand needed.
* `ImplementsAllocator`: a chunk is given out only while nobody has it.

### Properties of MyVector

* `OneOwner`: no buffer belongs to two vectors.
* `LivesExact`: until `pop_back` or the copy assignment runs, the slots of a
  vector below its size live and no other. It says nothing of the objects that
  `reallocate` leaves in the buffer it frees.
* `FaultHasCause` (action property): which operation can be undefined, for which
  `T`, after what. It states the faults of the code and excludes all others; a
  freed buffer is read in three ways only, `push_back` or `resize` with an own
  element, and any use after a copy assignment that threw; memory outside a buffer
  is used by `at(size())` of a full vector, by the `pop_back` of the only element,
  and after a copy assignment to an empty vector threw.
* `ElementsAsSequence` (action property): a defined operation that returns changes
  the elements as the operation of `SeqVector` does, as long as every element is
  one that somebody wrote (a copy assignment that threw leaves others).

### Properties of FileService

* `UploadKept`: an upload reported as a success, by a client no other call
  disturbed, is on the disk whole and under its name.
* `DownloadWhole`: a successful undisturbed download is a beginning of the file,
  and all of it unless the server failed to read the file or the client to write
  its own, both of which the code takes for success.
* `MixedByOverlap`: a file holds chunks of two uploads only if they overlapped.
* `ListFailsByDelete`: a listing says NOT_FOUND only when a file was deleted
  while it ran, or the directory or an entry could not be read.
* `EveryCallEnds` (liveness): no call has a deadline, and each one ends at both
  ends, also when the stream is full and whichever end hears first of a break.

These state what the code does guarantee. The word "undisturbed" is the point:
without it each of them is false, for the server has no lock on a name.

### Properties of Sorting

* `Sorts`: a permutation, ascending for the eight functions that promise it,
  descending for `heapSort`, whose heap has the smallest element on top; and the
  scan of `insertionSortWithSentinel` (`:352`), which checks no bound, stays in
  the array.
* `TieOrder`: `mergeSortIterativeDS` and the two plain insertion sorts leave equal
  keys in the order of the input; `mergeSort` and `mergeBottomModifyByAI` leave them
  in exactly the opposite order, because they take from the right run on equal
  keys (`:73`, `:148`). Of `mergeBottom` neither is true: it cuts a short last
  segment inside an ordered run (`:168`), and then both orders occur.
* `HoareSplits`: both scans of `partitonHoare` (`:13-18`) stay in the array, and
  what `quickSortH`, which leaves one element where that partition returned, does
  achieve: everything around it is in order.
* `Returns` (liveness): no scan, search or pass goes on for ever.

Deadlock is checked for `fd3`, where the end of the program is an explicit
stuttering step. It is not for the other runs: a destroyed pool takes no step and
one whose destructor hangs takes none either; a stopped server may sit in
`accept`; a memory pool may have lost every chunk; nothing follows an undefined
operation, the last call of the file service, or a sort.

## 4. Fairness

Weak fairness of each thread's steps: the scheduler of the operating system runs
a thread that can run, and a lock that is free is eventually obtained. That is
all `ThreadPool` and `Fd3Search` assume, with the assumption that a closure
returns (`Finish`). Nobody is obliged to call `enqueue`, and no spurious wakeup
is owed to anybody.

`Fd4Search` also assumes that spurious wakeups come to an end. There a worker's
fairness is weak fairness of `StartItem \/ Idle`, and a worker that is woken and
goes back to sleep for ever would satisfy it while it keeps missing the task it
competes for.

`EchoServer` assumes weak fairness of the acceptor, of the thread in `stop`, of
the destructor, of each worker's handler and of each client (a client goes on
with its messages, as `run_client_test` does), except the clients of
`Mortal`, who may fall silent, and that `accept` does not fail for ever and spurious
wakeups end. `ClientsServed` has the fairness of all clients as a premise. Nobody
is obliged to call `stop` or to die.

`FileService` assumes weak fairness of each call's client and of its handler, and
that gRPC tells each end of a broken connection at last (`Hears`), not when. The
gRPC thread pool is taken to be as large as the number of calls. Nobody is
obliged to make a call, and a connection need not break.

`Sorting` assumes that the one thread there is takes its next step.

The other specifications have no liveness and no fairness.

## 5. What is proved

TLAPS checks every theorem for all values of the constants under the named
assumptions: `PoolAssumption` (finitely many workers, distinct names),
`TreeAssumption` (the constants are a finite tree with depths), the two
`ItemsAssumption`s (the work items the trees need are in the type),
`EchoAssumption` (positive sizes), `ChunkAssumption` (a block has a chunk, and
a null pointer is no address of one), `VectorAssumption` (finitely many vectors,
a value that marks raw memory) `ServiceAssumption` (a stream holds at least
one message; calls, names and "no call" are distinct) and `SortAssumption` (keys
are integers, the longest input has a length that a float holds, 2^24 at most).

### ThreadPool_proofs

`IInv` is the inductive invariant: `TypeOK`, `MutexHeld` (who is inside a split
critical section holds the mutex, and nobody else), `Locals` (what each program
point knows: the queue is empty in `park`, `stop_` is set in `exit`) and
`SomebodyLeft` (while something is queued some worker has not left). `TypeOK`
alone says nothing about the windows: that the queue is still empty when a worker
in `park` goes to sleep holds because `MutexHeld` keeps every `push` out until
then, and that a queue is never left to workers that have all gone
(`DrainedWhenDead`) needs `SomebodyLeft`, for the worker that pushes last is
itself still there.

| Theorem | Result |
|---|---|
| `TypeCorrect` | `Spec => []TypeOK` |
| `Invariance` | `Spec => []IInv` |
| `Places` | `Spec => []ExactlyOnePlace` |
| `Drained` | `Spec => []DrainedWhenDead` |
| `Intake` | `Spec => IntakeCloses` |
| `Wakeups` | `Spec => []NoLostWakeup`, by counting: each step changes the three cardinalities by at most one, and never the wrong way |
| `Implementation` | the pool implements `TaskExecutor` when it has a worker |

### The tree: Explored

The part of the refinements that is about the tree and not about threads. It
stands at the head of `Fd4Search_proofs` and of `Fd3Search_proofs`.
`Explored` relates five sets: directories that were started, directories that are
known and not started, entries that are open (in a started directory, not yet
read), and what was found, skipped and failed. Each known directory is an entry
of a started one, within the depth and not skipped, and each entry of a started
directory that did not fail is open, skipped, or dealt with. The lemmas
`ExploredStart`, `ExploredSkip`, `ExploredVisit` and `ExploredFail` show that the
four things a search does keep this, in any order and however they interleave.
`KnownIsSearched` is the half that limits what is reported: every started or known
directory is in each set closed under the recursion, for otherwise one of those
that are not, nearest to the root, would have its parent there (the induction is
on the depth, as a minimum of a set of natural numbers). `AllIsFound` is the half
that completes it: with nothing known or open the started directories are
themselves closed under the recursion, so the recursive search visits no other.

### Fd4Search_proofs

A step of the search is a step of the pool (`StepIsPoolStep`), given that each
child is a legal task: `Carried` says that every call has the depth of its
directory and works on that directory's entries, and `Link` ties the program
counters of the search to the pool's. So `SearchUsesPool` holds, and with it
every theorem above. On top of it the counting argument: one step per action,
each moving at most one thread or item between the three counted places.
A count of zero makes all three empty, and then no step of the search is enabled,
which is `QuietAfterPoll`. That the counter stays a natural number, the type of
`active`, follows from the count and not the other way round, which is why
`StepFInv` leaves that case open and `StepSearchInv` closes it.

| Theorem | Result |
|---|---|
| `SearchInvariance` | `Fd4Spec => []SInv` |
| `SearchTypeCorrect` | `Fd4Spec => []Fd4TypeOK` |
| `SearchCounts` | `Fd4Spec => []ActiveCounts` |
| `SearchQuiet` | `Fd4Spec => []QuietAfterPoll` |
| `SearchUsesPool` | `Fd4Spec => Spec` |
| `ProgressInvariance` | `Fd4Spec => []Progress` |
| `DirectoriesEnqueuedOnce` | `Fd4Spec => []EnqueuesFresh` |
| `SearchImplements` | `Fd4Spec => ImplementsSearch` |

`Progress` instantiates `Explored` for the pool: a
directory is known while a thread holds it, in `subdirs` or in the argument of an
`enqueue` it has not finished, or while it is queued; an entry is open while it is
in some thread's `left`. `Apart` says that no directory is in two of these places
and no two calls work on one directory, which is what makes an entry read by one
thread gone from `Opened`. The poll loop ends with a count of zero, so with
`Known` and `Opened` empty, which is where everything has been reported.
`DirectoriesEnqueuedOnce` shows that the precondition `Fresh` of the pool's
`enqueue`, that a closure is submitted once, never holds the search back: the
model loses no behaviour to it.

### Fd3Search_proofs

The same counting for `pending_work`. `QuietSinceZero` strengthens
`QuietAtFinish` to begin where main has seen the counter at zero and has still to
look at the queue; it makes the second half of main's predicate superfluous and
is what shows that main never goes to sleep there with the counter at zero, the
one step that `NoLostSignal` could not survive.

| Theorem | Result |
|---|---|
| `SearchInvariance` | `Spec => []IInv` |
| `TypeCorrect`, `Counts`, `Signals`, `Quiet` | its parts, for `TypeOK`, `PendingCounts`, `NoLostSignal`, `QuietAtFinish` |
| `Sleepers` | `Spec => []NoSleepingOnWork` |
| `ProgressInvariance` | `Spec => []Progress` |
| `SearchImplements` | `Spec => ImplementsSearch` |

`Progress` is `Explored` for the queue: here a worker holds at most one directory,
the entry it is asking about or pushing, and the start directory is known and not
yet started, for main pushes it before any worker runs. The search ends when main
finds the queue empty, and there `QuietSinceZero` leaves nothing known or open.

### EchoServer_proofs

`StepIsPoolStep` is the composition: each action is one of the pool's or leaves
the pool's variables alone, which gives `EchoUsesPool`. `ConnectionsAccounted`
needs more than its own statement: the link between the program counters of the
server and of the pool (`Linked`, with the pool's own invariant in `EInv`), and
that what waits in the backlog was never accepted before (`Once`), since nothing
else keeps a connection from being in the queue and with the acceptor at the
same time. The count of handlers is a cardinality that `HandlerStart` and
`HandlerEnd` change by one (`HandlersCounted`).

| Theorem | Result |
|---|---|
| `Connections` | `EchoSpec => []ConnectionsAccounted` |
| `EchoUsesPool` | `EchoSpec => Spec`, so the pool's theorems hold in the server |
| `WireInvariance` | `EchoSpec => []Wire` |
| `EchoIsExact` | `EchoSpec => []EchoExact` |
| `Serves` | `EchoSpec => []ServesToTheEnd` |

`Wire` is the invariant of the bytes. `EchoExact` speaks of four pieces of one
stream (read, on the way back, in the handler's buffer, on the way in), of which
a partial send or receive moves a piece. Instead of a concatenation, `Reads` and
`Flows` say of each piece which interval of the client's stream it is, counted
from `Mid`, so that a cut of a piece is a cut of an interval. Who holds the third
piece depends on where the connection is: with a handler, or with nobody
(`Flow(c, <<>>)`). `Turns` says that a client that sends has read the whole echo
of its previous message, which is why an empty buffer and an empty stream at a
client that receives mean that its echo is complete. `Leaves` adds what
`ServesToTheEnd` needs: a client that left without dying has read everything or
was cut off from the server, so no handler still owes it a byte.

### MemoryPool_proofs

The invariant is `TypeOK /\ Owned /\ Listed /\ Counted /\ Footprint`. `Owned`: what
is out lies in recorded blocks and has one owner. `Listed` is `FreeListExact`
with two conjuncts that make it inductive: no free chunk links to the head, and
no two link to the same chunk. Without them a pop might leave a chunk that is
reached by no path, or by two. `Counted` relates blocks, free chunks and chunks
that are out by cardinality. The list is described without walking it, by closed
sets, so that a pop or a push adds or removes one element of each closed set
(`PopKeeps`, `PushKeeps`). Carving a block is the one place that needs an
induction over the chunks; it is done by a least counterexample
(`LeastElement`, from the well-foundedness of `<`).

| Theorem | Result |
|---|---|
| `PoolInvariance` | `Spec => []IInv` |
| `ListIsExact`, `CountIsExact`, `BlocksAreNeeded` | its parts, for `FreeListExact`, `CountExact`, `Footprint` |
| `PoolAllocates` | `Spec => ImplementsAllocator` |

### MyVector_proofs

The invariant `VectorInv` is `OneOwner` and `LivesExact` with the type of a vector
and the conjunct that a buffer from `new T[]`, or a null pointer with a
capacity (`Copied`), is there only after a copy assignment. Each operation is treated
as the code builds it, from reallocating, filling, destroying, and taking over
another vector's buffer, with one lemma for what each part leaves of a vector
(`SettledSound`, `DestroyedSound`, ...). The address that `operator new` returns
is one no vector has (`FreshId`, by the pigeon hole principle), which is why
finitely many vectors are assumed. `FaultsHaveCauses` goes through the operations
and shows for each that a fault it meets is one of those listed;
`ElementsFollowSequence` maps each operation to the one of `SeqVector`.

The attempt to prove `FaultHasCause` showed that the first model did not have
`resize(n, v[k])`, which reads a freed buffer like `push_back(v[k])`. `ResizeOwn`
is that operation, and the property now names it.

| Theorem | Result |
|---|---|
| `VectorInvariance` | `Spec => []VectorInv` |
| `BuffersHaveOneOwner` | `Spec => []OneOwner` |
| `ObjectsLiveExactly` | `Spec => []LivesExact` |
| `FaultsHaveCauses` | `Spec => FaultHasCause` |
| `ElementsFollowSequence` | `Spec => ElementsAsSequence` |

### FileService_proofs

`FInv` is `Types /\ Placed /\ Alone /\ Marked /\ Marks` and, for each call,
`General`, `Sending`, `Kept`, `Receiving` and `Listing`. TLC checked it as an
invariant on the instance of `MCFileService` and with a second name.

* `Placed`: a name stands for a file that was there under that name or that an
  upload of that name made, and a call's open file is one of these. So calls with
  one file have one name, the lemma `SameName`.
* `Alone`: while a call is not `disturbed`, no other handler writes to a file of
  its name, and the name still stands for its file. This is the frame condition
  of everything below: a step of another call leaves an undisturbed call's file
  as it is, or it disturbs that call.
* `Sending`, `Kept`: the chunks in the stream are the ones after those the
  handler counted, the last being short when the client stopped at the end of its
  file; and what an undisturbed handler wrote without an error is a prefix of the
  client's file without a short chunk. That the handler returns OK with the whole
  file, and never before, needs `cut`: an intact stream holds everything that was
  sent and not counted, and a broken one lets the client see no success. A broken
  connection is what makes the invariant long, because the handler takes it for
  the end of the file and only the client can tell.
* `Receiving`: what a download wrote is a beginning of the file as it was opened,
  whatever failed; and as long as no read or write has, it is followed by what is
  in the stream, up to the handler's position.
* `Marked`, `Marks`: a short chunk is the last of its file; a chunk belongs to a
  call whose file this is, and when it is not the only maker of chunks there, it
  has been disturbed or its bytes are garbled.
* `Listing`: a name the iterator yielded and that is gone was deleted meanwhile,
  and the deletion disturbed the listing; any other failure marks it `torn`.

One lemma per operation (`UploadChunkStep`, ...) shows that it keeps `FInv`;
`Quiet` treats the steps that touch no file. Messages and files are sequences of
any length.

The proof needed that two names never stand for one file. The first model allowed
any initial directory; the files of the server's root are known by their own
names now.

| Theorem | Result |
|---|---|
| `FilesInvariance` | `Spec => []FInv` |
| `UploadsAreKept` | `Spec => []UploadKept` |
| `DownloadsAreWhole` | `Spec => []DownloadWhole` |
| `MixedByOverlapOnly` | `Spec => []MixedByOverlap` |
| `ListingsFailByDelete` | `Spec => []ListFailsByDelete` |

### Sorting_proofs

There is no induction over data here: the sorts are loops, and `SInv` is the
conjunction of their loop invariants, proved step by step for arrays of up to
2^24 elements over any integer keys.

* `Kept`, `KeepsOrder`: the members of the array are those of the input, and
  for the two plain insertion sorts equal keys are in the order of the input. Both are false
  while an insertion sort holds an element apart and moves others over its place,
  so they speak of `Held`, the array with that element put into the gap. Every step
  then exchanges two places of `Held`, or leaves it alone, or writes a merged run
  back (`ExchangeHeld`, `InsertionHeld`, `MergeHeld`). An exchange that such an insertion
  sort makes is of neighbours out of order.
* `QuickInv`: two places are in order unless a pending call, or the partition that
  runs, has both in its range (`OrderedAround`). The pending ranges are disjoint
  (`Apart`, `Clear`) and do not hold the place that Hoare's partition returned
  (`Fit`), so what moves inside one leaves the order around it (`Shuffled`). With no
  call pending the array is in order.
* `HoareInv`: why the unchecked scans stop. In the first round the pivot itself is
  in front of both; after an exchange the elements exchanged are. That the returned
  index is below the last place, so that the right part is not empty, comes from the
  middle being rounded down.
* `HeapInv`: a heap but for the nodes still to be built and the one `heapify` is at,
  whose children are not below its parent (`Sinking`); what has been taken lies
  behind the heap in descending order (`Taken`). `TopIsLeast` is the one argument
  over the tree: of the nodes smaller than the top, the first would have a greater
  parent.
* `MergeInv`: `out` is what the two indices have passed, in order, and nothing in it
  is behind anything still to be taken (`Merged`). The order is `Ahead`: by key,
  and for the three merge sorts of which `TieOrder` speaks by place in the input
  among equal keys, upwards or downwards as the sort takes ties. That the merge of
  two runs so ordered is so ordered needs to know where their elements come from:
  each in the left run comes from a place before each in the right run. `Sources`
  says that of the halves of `mergeHelper`, `Blocks` of the segments of a bottom-up
  pass, whose runs keep to their own blocks of the input; `Fresh` says the input
  starts out that way.
* `HelperInv`: what the stack of `mergeHelper` promises. `Settled(a, S, l, h, q)` says
  that after the first `q` calls of the stack `S` the range `l .. h` is in order:
  one of them has it as its range and no later one touches it, or it is in order
  now and none touches it. Each merge on the stack has both of its halves settled
  by the calls before it, and the whole array is settled by the whole stack.
* `BottomUpInv`: two places are in order unless a run ends between them (`Runs`).
  Run ends (`Boundary`) are the multiples of `2 * size` before the next segment and
  of `size` from there on. `SegmentRuns` shows that the three ways to cut a short
  segment all give two ordered runs, `PassEnds` that skipping a lone run is right,
  and `OneRun` that each of the three bounds on the number of passes is large enough.
* `InsertionInv`: the prefix is in order but for the gap, and what has been moved is
  greater than the held element. For the sentinel, the first element is no greater
  than any, which stops the scan at 1.

TLC checked the conjuncts of `SInv` as invariants on the instance of `MCSorting`
with arrays of up to 5 elements, the quantifier of `Multiple` bounded. The first
model computed each sort by a recursive operator in one step; about it nothing
could be proved, and it did not show an index that leaves the array in a scan as a
state of its own. The present one makes the code's steps.

| Theorem | Result |
|---|---|
| `SortInvariance` | `Spec => []SInv` |
| `SortsSort` | `Spec => []Sorts` |
| `TiesAreOrdered` | `Spec => []TieOrder` |
| `HoareIsSafe` | `Spec => []HoareSplits` |

### Only model-checked

Liveness (`AcceptedTaskRuns`, `HangsOnlyInTheWindow`, `SearchPrints`,
`SearchEnds`, `ClientsServed`, `EndsUnlessInAccept`, `EveryCallEnds`, `Returns`) is out
of the prover's reach, for it needs `ENABLED`. Every invariant, every action property
and every refinement that a passing run checks is a theorem.

## 6. What disagreed with a comment

* **The stop signal can be missed** (run `pool_stop`). `net/main2.cpp:189` says
  "Wait for task or stop signal". The destructor (`main2.cpp:213-214`,
  `threadpool.h:47-48`) stores `stop_` and notifies without the mutex. A worker
  that has just found nothing to do, but has not blocked yet, misses both and
  never wakes; `join` never returns. `HangsOnlyInTheWindow` shows that there is
  no other way for the destructor to hang. fd4 can meet it too, after it has
  printed its results.
* **A rule can be disobeyed** (run `fd4_rules`). `fd4.cpp:72` says "Check if a
  path matches any .gitignore rule". `path_view` (`:74`) is a view of a
  temporary that is gone when the rules are tried. The same line is in `fd.cpp`,
  `fd2.cpp` and `fd3.cpp`.
* **`resize` assigns to memory without objects** (run `vector_raw`).
  `myvector.cpp:194` says of memory from `::operator new` that it is for
  placement new and cannot be assigned to. `resize` (`:112`) assigns to it, and
  so does the copy constructor (`:25`).
* **A refused upload is a success** (run `files_success`). When the server cannot
  create the file it answers `success = false` with status OK
  (`server.cpp:51-54`). The client tests the status only (`client.cpp:82`),
  prints "Upload successful: " (`:83`) and returns true.

One disagreement is stated, and proved, by a property that passes. **Merge sort is
not stable here**: `sort/readme.org:10` says of merge sort that it is a stable
algorithm, in which the relative place of equal elements does not change. Of the
four merge sorts only `mergeSortIterativeDS` is. `mergeSort` and
`mergeBottomModifyByAI` compare with `<` and so take the right run on equal keys,
which reverses every set of equal elements, and `mergeBottom` mixes them
(`TieOrder`). With plain integers, as in `main`, nobody can see it.

Further faults of the code are stated as what they are by passing properties, or
excepted by them:

* `FaultHasCause`: `pop_back` destroys the wrong slot; the copy assignment frees
  with the wrong operator; `push_back` or `resize` with an own element;
  `at(size())` passes its test (`myvector.cpp:143`); a copy assignment to an empty
  vector whose `new T[]` throws leaves a null pointer under a size and a capacity
  (`:38-41`).
* `LivesExact` leaves out the objects in the buffer that `reallocate` frees, which
  are never destroyed (`:191-201`): a leak for a `T` that owns something.
* `ServesToTheEnd`: `SIGPIPE`. `EndsUnlessInAccept`: a `stop()` that wakes nobody in
  `accept` or `recv`, and one that `start` overwrites (`echoServer.h:86`).
* `DownloadWhole`: "Download successful" although the client could not write or
  close its file (`client.cpp:114`, `:122`) or the server not read its own
  (`server.cpp:98`, `:118`).
* `ListFailsByDelete`: "Directory not found" for whatever the iterator or
  `file_size` throws (`server.cpp:131`, `:142-143`).
* `Sorts`: `heapSort` is descending, while the comments at
  `sort/main.cpp:280-286` speak of the largest element. `HoareSplits`: `quickSortH`
  does not sort, for the element at the place Hoare's partition returned is in
  neither recursive call.
* `SortAssumption`: the float in `mergeBottom`'s number of segments
  (`sort/main.cpp:166`). For 2^24 + 1 elements it drops the last segment, and
  `arr = tmp` puts a 0 in the place of the last element.

## 7. What is not modelled

Of the 30671 lines of C++ the repository counts, 25526 are the vendored
`thirdparty/nlohmann/json.hpp`, which is not this project's code. The models
cover the rest's logic; the share of all lines that `map` names is small for
that reason.

*Whole parts.*

* `fd3.cpp.cpp` is a stub. `MemoryPool2` does not compile. `hello/win/`, `json/`,
  `grpc/helloworld/` are samples of libraries. `finder.cpp` and `zfs.cpp` read
  lines and copy files in one thread.
* `hello/`: language samples of a few lines. `resource_usage_random.cpp` is a
  load generator without an exit. `print` of `tool.h` locks for each argument,
  so lines of two threads mix; nothing depends on it.
* `glob_to_regex` and RE2: the decision of a rule is arbitrary in the model, for
  the reason given under `FileTree`, so how patterns are translated changes
  nothing the searches do.

*Left out of modelled parts.*

* Weak memory: the models are sequentially consistent. The counters of the
  searches use relaxed or default orders; the results are ordered by mutexes.
* Exceptions other than those the code handles: `bad_alloc`, or an exception
  from RE2, leaves `fd_search_threaded` without its `fetch_sub`. A `std::thread`
  constructor that throws ends the program.
* Neither demo of `net/` compiles with GCC 12: `std::function` wants a copyable
  closure and `Socket` can only be moved. The model follows the source.
* `EchoServer`: messages shorter than the client's buffer of 1024 bytes, and not
  empty; buffers of the kernel that are never full, so that `send_message` and
  `handle_client` cannot block each other; the number of a descriptor that
  `stop()` closed, which the kernel may give to a connection while `accept` is
  still called with it; a second call of `start`; the lifetime of `running_` and
  `active_connections_`, which are declared after the pool and so destroyed
  before its destructor joins the workers that still use them (the model lets
  them keep their last values); a `main` that returns over a joinable
  `server_thread`.
* `FileService`: buffering inside the file streams (a write that fails is seen
  at once or never; a read that fails in the middle of a chunk counts as failing
  before it), sub-directories, a crash of the server. A read error of the client's
  local file ends the upload as the end of that file does, and the file counts as
  that long.
* `MyVector`: calls that throw, except in the copy assignment, and the objects in a
  buffer that was freed. `MemoryPool`: alignment and sizes of chunks.
* `Sorting`: `heapify2` (called by nothing), `insertionSort`'s effect on its
  caller (it has none, for it takes a copy), arrays of more than 2^24 elements,
  and the pivot index of `partitonHoare` for a range that does not begin at 0:
  `quickSortH` calls it for the whole array only.
* Parsing of the command line, timing, printed statistics.

## 8. Plan

In order of importance. All of it is done.

1. `ThreadPool`, `TaskExecutor`: the component everything concurrent rests on.
2. `FileTree`, `FileSearch`, `Fd4Search`: its most demanding client.
3. `DirQueue`, `Fd3Search`: the other termination protocol.
4. Theorems on the three of them.
5. `EchoServer` on `ThreadPool`, with `Connections` and `EchoUsesPool` proved.
6. `MemoryPool` and `ChunkAllocator`, proved.
7. `MyVector` and `SeqVector`.
8. `FileService`.
9. `Sorting`.
10. Proof of `EchoExact` and `ServesToTheEnd`.
11. Proofs of the safety properties of `MyVector` and of `FileService`.
12. Proof of `ImplementsSearch` for fd4 and fd3, on lemmas about the tree that
    both share.
13. `Sorting` again, step by step, with its three properties proved.

## 9. Running everything

```
tlc -workers 2 -config MCThreadPool.cfg MCThreadPool      # seconds
tlc -workers 2 -config MCFd4Search.cfg MCFd4Search        # seconds
tlc -workers 2 -config MCFd3Search.cfg MCFd3Search        # under a minute
tlc -workers 2 -config MCEchoServer.cfg MCEchoServer      # two to three minutes
tlc -workers 2 -config MCMemoryPool.cfg MCMemoryPool      # under a minute
tlc -workers 2 -config MCMyVector.cfg MCMyVector          # a minute
tlc -workers 2 -config MCFileService.cfg MCFileService    # two minutes
tlc -workers 2 -config MCSorting.cfg MCSorting            # seconds
tlapm ThreadPool_proofs.tla                               # about a minute each
tlapm Fd4Search_proofs.tla
tlapm Fd3Search_proofs.tla
tlapm EchoServer_proofs.tla
tlapm MemoryPool_proofs.tla
tlapm MyVector_proofs.tla                                 # two minutes
tlapm FileService_proofs.tla                              # nine minutes
tlapm Sorting_proofs.tla                                  # six minutes
```

The four violation runs, `MCThreadPoolStop.cfg`, `MCFd4Rules.cfg`,
`MCMyVectorRaw.cfg` and `MCFileServiceClient.cfg`, end with a counterexample.
