# A verification development for turbolib

turbolib is a C++11 support library: threads and queues, socket servers over
UDP, TCP and UDT, vector clocks, a crit-bit tree and a merkle tree, a Kademlia
routing table, consistent hashing, crash-safe files, HTTP messages, codecs, and
assorted helpers; with the lock-free queue, the concurrent hash map and the HTTP
parser that it carries along and rests on (`src/third_party_lib`). This directory holds TLA+ models of its parts, the TLC
runs that check them, and TLAPS proofs of what matters most. Paths below are
relative to the root of the repository (`src/lib/...`, `test/lib/...`).

## 1. The system

### Components

| component | code | state it keeps | operations |
|---|---|---|---|
| monitor | `concurrent/monitor.h` | `_flag`, `_cancelled`, a condition variable | `wait`, `wait_for`, `notify_one`, `notify_all`, `signal_all`, `cancel` |
| thread pool | `concurrent/thread_pool.h` | `_running` (a count that `stop()` makes negative), the threads, two monitors, a lock-free queue | `start`, `stop`, `execute`, `try_execute`, the workers' `run` |
| deadline thread | `concurrent/deadline_thread.h` | `_shutdown`, a priority queue of jobs, a monitor, one thread | `schedule`, `schedule_repeat`, `shutdown`, `run` |
| other executors | `concurrent/SimpleExecutor.h`, `ThreadSpawningExecutor.h` | none | `execute` |
| pooled server | `socket/PooledSocketServer.h`, `socket/SimplePool.h` | `_running`, the listening socket, two epoll sets, endpoint -> handle map, acceptor, readers, write helper | `start`, `stop`, `accept`, `run`, `writeReady`, `getWriter`, `waitForWriter` |
| stateless and acceptor servers | `socket/StatelessSocketServer.h`, `socket/StreamSocketAcceptorServer.h` | `_running`, one socket, threads | `start`, `stop`, `run`, `getWriter` |
| sockets and byte streams | `socket/*_socket.*`, `udt_socket/*`, `socket/*ByteStream*` | a file descriptor | wrappers of system calls |
| version vectors | `vector_clock/bounded_version_vector.h`, `bounded_time_vector.h` | a bounded deque of clocks, newest first | `increment`, `compare`, `merge` |
| crit-bit and merkle trees | `merkle_tree/*.h` | a binary tree over key bits; hashes in the merkle tree's branches | `insert`, `remove`, `find`, `lower_bound`, `enumerate`, `top`, `diff` |
| routing table | `kademlia/routing_table.h` | 8*sizeof(hash) buckets by distance from an origin | `set_origin`, `insert`, `erase`, `find`, `random`, iteration |
| consistent hashing | `consistent_hashing/*.h` | an ordered map | `operator[]`, `remove`, `find`, `lower_bound`, `upper_bound`, circular iteration |
| files | `file/File.cpp`, `ConfigFile.cpp`, `StateSaver.h` | the file system | `save`, `load`, `rename`, `remove` |
| HTTP parser | `third_party_lib/http_parser/*` | a state of some sixty, flags, counts of letters, marks of open data | `http_parser_execute`, `http_parser_parse_url`, callbacks |
| HTTP messages | `http/HttpParser.cpp`, `HttpResponse.*`, `HttpByteStream.cpp` | callbacks that are static in each thread; a response's status and body; whether a header was written | `parse`, the `setOn*` callbacks, `write`, `reset` |
| connection map | `third_party_lib/libcuckoo/cuckoohash_map.hh` | buckets of slots, an array of spinlocks, the hashpower, counters | `find`, `insert`, `upsert`, `update`, `erase`, `rehash`, `reserve`, `clear`, iteration with all locks |
| task queue | `third_party_lib/concurrentqueue/concurrentqueue.h` | a list of producers; of each its counters, blocks and index of blocks; a free list, a table from threads to producers, tokens | `enqueue`, `try_enqueue`, `try_dequeue`, their bulk forms and those with tokens |
| codecs | `serialize/base64.cpp`, `http/Url.cpp`, `serialize/str.h`, `str_join.h` | none | encode, decode, split, join, the parts of a URL |
| hash | `third_party_lib/crypto_base/tiger.c` | a context: the blocks so far, what is left of the last one, a length | `tiger_init`, `tiger_update`, `tiger_end` |
| helpers | `util/*`, `time/*`, `system/*`, `crypto/*`, mocks | little or none | |

### How they interact

A thread pool and a deadline thread own monitors and call each other only
through tasks. A pooled server owns threads of its own and a `SimplePool`; its
callbacks run on its reader threads, `getWriter` on anybody's. The merkle tree
is a crit-bit tree with a hook (`onchange`) that `insert` and `remove` call for
the branches they passed. `ConfigFile` and `StateSaver` go through `File::save`.
`HttpResponse` owns an `HttpParser`, whose callbacks go through static
thread-local function objects that all parsers of a thread share. A thread
pool's tasks lie in a `ConcurrentQueue`; `SimplePool` keeps connections in a
`cuckoohash_map`, whose `upsert` decides which of two connections to a peer stays.

### What is hard

* **Concurrency**: monitors whose `notify_one` leaves no trace, pools that are
  stopped while threads are starting, a deadline thread that computes its
  sleep and goes to sleep in two steps, servers whose `_running` is a plain
  `bool` and whose connections arrive while `stop()` closes the pool.
* **Crashes**: `File::save` claims durability; a crash may come between any two
  of its system calls.
* **Lock-free and fine-grained locking**: the queue's consumers claim items by
  counters that may run ahead of what there is, and look blocks up in an index
  that the producer replaces meanwhile; blocks come back through a free list
  with reference counts; the map gives up its locks to look for room, and finds
  another table when it comes back.
* **Input cut anywhere**: a message reaches the parser in buffers that end
  within any token, and is to mean the same.
* **Bounded data**: version vectors forget their oldest clocks, and merge keeps
  an order of recency by moving list elements under a changing index.
* **Pointer structures**: the hashes of a merkle tree must be right after every
  insertion and removal, on the path that changed and nowhere else.

What makes each component correct, in a sentence:

* monitor: a signal is never lost and releases whoever waits.
* thread pool: each task at most once, none after `stop()`, `stop()` returns.
* deadline thread: no job early, none after `shutdown()`, jobs in deadline
  order, none slept through, `shutdown()` returns.
* pooled server: every connection that is open is listened to as long as the
  server runs, its end is told once and last, and `stop()` returns.
* version vectors: comparison agrees with causality, merge is an upper bound.
* crit-bit tree: a search tree whose operations agree with a set; merkle tree:
  a branch's hash is the XOR of its leaves' and `diff` finds a difference when
  there is one.
* files: a crash leaves the old or the new contents, a save that returned true
  survives, and a load has one save's contents.
* HTTP: however a stream is cut, the listener hears all of it, in order, up to
  the error that says what is wrong with it; a response hears of nothing else.
* connection map: each call takes effect at once, and no key is lost or doubled.
* task queue: what a thread adds comes out once and in order; no block is lost,
  or in two places; nobody is told of nothing when there is something and
  nobody in the way.
* codecs, hash: what is put in comes out, however it is cut.
* routing table, hash ring: agree with a set; lookup finds the successor.

## 2. The plan

Modules, in the order they are written, the most important behaviour first.

| step | modules | of | state |
|---|---|---|---|
| 1 | `Monitor`, `MonitorUse` | `concurrent/monitor.h`: a value with its operations, and threads that use it | done, proved |
| 2 | `ThreadPool` (extends `Monitor`), `TaskExecutor` | the pool with its two monitors; the abstract executor it implements | done, proved |
| 3 | `DeadlineThread` (extends `Monitor`) | the scheduler, against a clock | done, proved |
| 4 | `FileSave` | `File::save` and `load` on a file system that crashes | done, proved |
| 5 | `VersionVector`, `VersionNetwork` | version and time vectors as functions, and in use by replicas | done |
| 6 | `CritBit`, `MerkleTree` | the tree as a function of nodes, against the entries put into it; hashes kept by `onchange`; two trees asking each other by `diff` | done |
| 7 | `RoutingTable`, `HashRing` | buckets by distance, the circular walk | done |
| 8 | `PooledServer`, `LoopServer` | the server's threads around one `SimplePool`; the servers without a pool | done |
| 9 | `HttpLetters`, `HttpParser`, `HttpUrl`, `HttpByteStream`, `HttpMessages`, `HttpCallbacks` | the parser, against the messages its streams carry; responses in several threads | done |
| 10 | `CuckooMap`, `AtomicMap` | the map of connections; the map of atomic calls it implements | done |
| 11 | `TakeCounts`, `ImplicitQueue`, `ExplicitQueue`, `TaskQueues` | both kinds of producers; the queues, one for each producer, that they implement | done |
| 12 | `BlockFreeList`, `ProducerHash`, `ProducerTokens` | what the producers share | done, proved |
| 13 | `Serialize`, `Url`, `ConfigFile`, `Tiger` | what is encoded, saved or hashed | done |
| 14 | `PooledServer_proofs`; theorems on `MonitorUse`, in `HttpCallbacks` | connections nobody listens to, the end told last; signals; responses in several threads | done, proved |
| 15 | `BlockFreeList_proofs`, `ProducerHash_proofs` | no block has two owners; no thread two producers, no table is full; no two tokens one producer, no search misses one | done, proved |
| 16 | `ImplicitQueue_proofs` | that the queue's counters agree and that a lone consumer finds what there is, for any number of threads | done, proved |
| 17 | proofs of `ExplicitQueue`, `RoutingTable` | the same of producers with a token, whose counters are the same; no bucket has an entry of another | not begun |

Theorems worth proving beyond those of section 3: that what a consumer finds in
the index of blocks is its block (`FindsItsBlock`), from which the queue's
refinement would follow; that a merkle tree's hashes are right after every
change of a leaf (over an abstract tree, since what a recursive definition
computes cannot be proved here); that no bucket of the routing table holds an
entry of another one.

The number of runs is kept to some dozen, one for each question, each short
enough to be repeated on every change. Parts that are an object and its
operations, and have nothing to do with each other, share a run, whose `Init`
picks the one that moves while the others stay as they were created: the run
`structures` (monitor, version vectors, trees, tables, rings, the threads'
producers, codecs, configurations, hashes), and likewise `threads` (the pool, the
deadline thread), `streams` (files, HTTP), `servers` and `containers`. Properties of parts that move in turn are joined under one name
there (say `PeersFound` for the routing table's three and the ring's one); each
is stated, and explained, in its own module. A module that has theorems about a
part is extended by the module of its run, or instantiated there, so that what TLC
checks is the definition that is proved: `MCThreads` extends `ThreadPool`,
`MCStreams` extends `FileSave` and, through `MCHttp`, `HttpCallbacks`, `MCServers` extends `PooledServer`, `MCContainers` extends
`BlockFreeList` and `TakeCounts`, and `MCStructures` extends `ProducerHash`. Of
modules that are only instantiated (`DeadlineThread`, `ImplicitQueue`,
`ProducerTokens`) the assumptions are operators, and hypotheses of their theorems:
`DeadlineAssumption` in `MCThreads` and `PartsAssumption` in `MCContainers` say that
they hold of the parts of those runs, and TLC evaluates them.
In `streams` TLC tells states of the files apart by what their references lead to
(`StreamsView`), since the numbers of inodes and the contents of one nobody refers
to make no difference to what follows.
Disagreements with the repository's documents have a run each.

## 3. What is modelled

The runs `threads`, `streams`, `structures`, `servers` and `containers` pass; `pool_lost_task`, `file_bare_name`, `version_merge`,
`server_stale`, `http_head`, `containers_resized` and `queue_index_full` find
counterexamples. Where a run needs no more than values for the constants, its
`.cfg` gives them and there is no module `MC...`.

Names in the modules are the source's where there is one. Each operation of
the code is an action, or several: one for every point at which another
thread, or a crash, can come in between. Definitions called a variant are the same operation with a plausible mistake in it; they
belong to no specification, and each is what one property is there to notice.

### Monitor, MonitorUse

A monitor is a value `[flag, cancelled, waiting]`, the last being the threads
in the condition variable. `wait()` tests `_flag` and enters the condition
variable in one critical section, so each of its outcomes (`TakeFlag`,
`Block`) is one step; a notified thread leaves `waiting` at once and returns
by a step of its own, when it has the lock. `notify_one` takes any waiting
thread and changes nothing if there is none: it sets no flag. `signal_all` and
`cancel` set the flag, which the next `wait()` takes.

`MonitorUse` is threads that call everything in any order. In run
`structures` there are three of them: as long as no `wait()` has taken a signal, nobody is blocked
(`SignalNotLost`, in `SignalsKept` with the next two); whoever waited when a signal came returns
(`SignalReleasesAll`, for fairness of the steps of a thread that can get the
lock, and of nothing else); no `wait()` answers true from a `cancel` to the
next signal (`CancelIsFinal`). Three threads are one to signal and two that
compete for the flag; everything else about a monitor is symmetric in them.

*Proved*, in `ThreadPool_proofs`, for any number of threads: `MonitorTypes`,
`NoSignalLost` and `CancelHeard`. The invariant is `OwedInv`: a signal nobody
has received is still in the flag, and as long as the flag is set no `wait()`
blocks, for it is tested and the blocking done in one critical section.

### ThreadPool, TaskExecutor

| code | actions |
|---|---|
| `start()` 57-66 | `StartFindsRunning`, `StartBegins`, `Spawn`, `StartWaits`, `StartNotified`, `StartGivesUp`, `StartReturns` |
| `stop()` 68-78 | `Stop`, `StopSignals`, `StopJoins` |
| `execute()`, `try_execute()` 80-92 | `Execute`, `ExecuteNotifies` |
| `run()` 99-117 | `Announce`, `SignalReady`, `Loop`, `Wait`, `WaitReturns`, `CheckWoken`, `Dequeue`, `FindEmpty`, `BeginTask`, `DropTask`, `FinishTask` |
| `try_dequeue()`, `concurrentqueue.h` 1085-1121 | `ComePast`, `Dequeue`, `FindEmpty` |

`running` is `_running`, an atomic that `++` and the store in `stop()` change;
`queue` is the lock-free queue as its documentation has it, each producer's
elements in order and none between producers (which `ItemsInOrder` of
`containers` shows of its detail). `try_dequeue` looks at the producers one
after another (`passed` has those it has come past) and answers false when it
has come past all, though something was queued behind it meanwhile. The order
in which it looks, by sizes and then along the list, is left open. A producer
whose last element another consumer is still counted in for may look empty
(`LooksEmpty`); the model lets it look so until that consumer's search ends,
which is longer than the queue does. `pc`, `ctl` and `prod` are where
workers, the controller and producers are. `phase`, `submitted`, `ran` and
`result` are history.

`TaskExecutor` is what the pool promises: a task is begun at most once, never
after `stop()` has been called, given up only because of `stop()`, and nothing
runs once `stop()` has returned. The refinement mapping `StageOf` computes a
task's stage from where it is. It does not promise that a task is ever begun.

* `threads`, the pool: two workers, two producers, two tasks. Two producers make two queues
  and two `notify_one` that may meet; two tasks are one for a worker that has
  already run one while another waits; and there are exactly as many workers
  as one `start()` spawns. Besides `IsExecutor`: a task is in one place,
  `_running` stays below one after `stop()` although workers still count up
  (`LifeIsTrue`),
  `start()` answers true only with all workers up and sits out its ten seconds
  only for one that is missing. Under fairness, while a worker is looking for
  tasks, or has been notified, a task that no search has come past is taken
  (`AwakeWorkerDrains`), and `stop()` of an idle pool
  returns. That is what `run()` guarantees, and it is less than one would like:
* `pool_lost_task` is a counterexample. A worker that has come past a producer,
  or has found the queue empty, has not entered the condition variable yet, and
  `notify_one` leaves no trace: what is queued there meanwhile waits for the
  next task.
* `IdleStopReturns` says less than that `stop()` returns, which it need not:
  `signal_all` sets one flag; of two workers on their way into `wait()`, one
  takes it and the other sleeps, and `stop()` joins it for ever.

*Fairness*: every thread that can step steps (`WF` of each worker's `run()`, of
the controller's current call, of a producer's `notify_one`): threads of one
process under a preemptive scheduler, tasks that return, a `wait_for` that
ends. Nobody has to call anything, and no spurious wakeup is owed.

*Proved*, for any number of workers, producers and tasks:

* `TypeCorrect`, and `TasksInOnePlace` by `TaskInv` (what is in a queue, in
  hand or run has been submitted, in one place), with one lemma for each way
  a task moves: into a queue, from it into a hand, out of a hand.
* `NoneComesPast`, the step on which `AwakeWorkerDrains` rests: a task that is
  queued where no search under way has been (`Ahead`) stays so until it is
  taken. A search comes past a producer that is empty, or that another search
  under way has come past; neither is so of the task's.
* For a pool of one life, `OneLife`: as many workers as one `start()` spawns.
  `StopFinal`, `StartTruthful` and `StopQuiet` follow from
  `LifeInv`, whose core is `CountInv`: while the pool is open `_running` and the workers that have
  yet to count up are `_numThreads` together, and after `stop()` they come to
  at most -1. That is why `stop()` stores `-1 - _numThreads`; `StopIsFinal`
  alone says nothing of the increments to come and is not inductive.
  `StartNeverStranded` adds `ReadyInv`: when all have signalled, `start()`
  finds the flag.
* `PoolIsExecutor`: also of one life, `Spec => IsExecutor`. A step that moves a
  task is the abstract step of that task (`RefineTaskSteps`), every other step
  leaves the mapping alone (`StillPlaces`, `RefineStill`).

`OneLife` is needed: with a second `start()` after a failed one there are more
workers than `-1 - _numThreads` leaves room for.

### DeadlineThread

| code | actions |
|---|---|
| `schedule()`, `schedule_repeat()` 126-140 | `Schedule`, `Push`, `Notify`; the wrapper's own call, on the worker, is `Finish`, `PushAgain` |
| `shutdown()` 72-78 | `Shutdown`, `StopNotifies`, `StopJoins` |
| `run()`, `waitForWork()`, `doWork()` 80-124 | `Loop`, `ComputeInterval`, `Wait`, `TimedOut`, `WaitReturns`, `DoWork`, `Take`, `TakeNothing` |

Time is a number of grains, several to the millisecond, that moves between any
two steps; `Millis` cuts as `duration_cast` does. Bounds: `MaxTime` stops the
clock, `Horizon` the deadlines, so that what is scheduled comes due before
the clock stops. `Forever` stands for the 49 days (`~0` ms) that
`waitForWork()` sleeps on an empty queue; it is beyond the clock.

* `threads`, the deadline thread: two schedulers, a job and a repeating one, one stopper, two
  grains to the millisecond, deadlines up to one millisecond. Two grains make
  the cut of a duration visible; two jobs come due together, or in either
  order; a second caller of `shutdown()`, whom `exchange` turns away, changes nothing,
  and is left to the proofs. No job is a millisecond
  early (`BegunInTime`), doubled, or lost when it
  repeats (`JobsKept`); at most one begins after `shutdown()` and none after it
  has joined (`BegunInTime`). Under fairness: a worker
  on its way through `doWork()` runs what there is, a sleeping one is woken
  for a new job, and `shutdown()` of a sleeping worker returns.
* `SleeperIsWoken` is of a worker that sleeps already: `waitForWork()` computes
  its interval in one critical section and goes to sleep in another. A job
  scheduled between the two is slept over, for the interval of the queue that
  was seen: 49 days if it was empty.

*Fairness* is as for the pool, and the clock moves.

*Proved*, for any jobs, schedulers, stoppers, grain and bounds that satisfy
`SchedulerAssumption`: `TypeCorrect`;
`NeverEarly` and `LateJob` by `RunInv`, with the arithmetic of the cut in
`DueSoon`; `JobsInOnePlace` and
`RepeatsStay` by `PlaceInv`, which adds that what is anywhere has been
scheduled, so that a fresh job is nowhere.

### FileSave

`save()` is `OpenTemp`, `WriteChunk`, `CloseTemp`, `SyncTemp`, `Rename`,
`SyncDirectory` (`file/File.cpp` 31-51, and `flush`, `dirname`); `load()` is
`OpenFile`, `ReadChunk`, `ReadFails`, `CloseFile` (53-70). The file system is
external: a directory and inodes, in memory and on disk, with write-back at any
time, `fsync`, atomic renaming, directory changes that reach the disk in order,
calls that `Fail`, and a `Crash` between any two steps after which there is
what was on disk. A content is two chunks, so that half of one, or
parts of two, can be told from a whole. `dirname` cuts a name at its last slash,
and `path` is which of three kinds the file's name is: with a directory, in the
root (whose `dirname` is empty, so that `save()` answers false), or with no
slash.

* `streams`, the files: four inodes (the file, the temporary, the one an open
  descriptor still reads, and one that is on disk only), two contents, names of
  all three kinds. The file, seen or after a crash, holds all of what one
  `save()` was given (`OldOrNew`). A `load()` has parts of one save only, and
  all of it unless an `fread` failed (`LoadOfOneSave`): the loop takes a failed
  one for the end of the file, and `load()` then returns true with a part. What
  is on disk never goes back behind an acknowledged save that is there
  (`NeverBack`), and if the name has a slash such a save is there as soon as
  `save()` has returned true (`DurableWithSlash`).
* `file_bare_name`: a name without a slash is its own `dirname`, so that the file
  is flushed again and the directory never: an acknowledged save does not
  survive (`Durable`), against the comment in `save()`.

*Proved*, for any contents, inodes and kinds of names: all four of these
properties. `FileIsWhole` and `LoadedOfOneSave` by `NamesInv` (no name but the
temporary's leads to the inode being written) and `ContentInv` (what is in an
inode, by what is known of it). `DiskNeverBack` by `AckInv`: where the running
system's directory differs from the disk's, it shows the acknowledged contents or
something tried since, so that a write-back can put nothing else there; this
holds of bare names too. `SaveIsDurable` from the same step (`BackStep`) and from
`AcksFact`, that only the flush of the directory acknowledges: that step is where
the kind of name matters, and the run `file_bare_name` shows that its exception
is needed.

One `save()` at a time is modelled: two share a temporary, which the hazards list.

### VersionVector, VersionNetwork

`VersionVector` has `increment`, `compare` and `merge` of
`bounded_version_vector.h` as functions of sequences of clocks, the cut of full
versions (`findEnd`) and the interlacing (`reorient`) included. An insertion
beyond the end has no result (`Undefined`). `VersionNetwork` is replicas that
write, take over a copy that is newer, and merge: the library's callers, not
its code. `known`, the writes in each copy, is what the vectors are about.

It also has `bounded_time_vector.h`, whose `compare` and `merge` are the
same code over clocks of a time and a count: it has its own `increment`, and
packs the two into one number, which is ordered as `clockLessThan` orders them.

* In `structures`: three replicas of two writes, with limits 3 and 4, and with
  times that any replica's clock may show in any order. A comparison
  says exactly whose copy has writes that the other lacks, from either side
  (`ComparesWrites`). With limit 3 versions are full, and
  compared without their older half: the interesting case. With limit 4
  they are merged too, and what a merge gives compares as the union. The run
  merges only with room and only where `merge()` is defined: merged full
  versions lose the order that `findEnd` cuts by and may compare `EQUAL` to
  others that differ, and with more writers than the limit a forgotten key
  starts again at 1. The count of a time vector has two values, just enough
  for a replica's two writes: one that wraps (an `unsigned short` in the code)
  makes a newer write look older.
* `version_merge`: `merge()` erases a clock and inserts by an index into the
  list as it was before: `[1:1 2:1]` merged with `[2:1 1:2]` inserts beyond
  the end.
`increment()` keeps an iterator over `push_front()`, which C++ does not allow of
a deque; here it is the clock that was found. In libstdc++ that is so until the
chunks of the deque move: with `std::string` keys the 37th increment erases a
clock that is not there.

There is nothing here for the proof system yet: the operators are folds over
sequences.

### CritBit, MerkleTree

`CritBit` has the loops of `critbit_tree.h` as operators on a tree `[root,
child, hash, leaf]`. A node is named by the bits its leaves have in common: a
leaf by its key, a branch by the bits before its critical one, which is what
`byte` and `otherbits` encode. No operation looks at a node's address, so the
name is as good, and a stale one shows: a node that is not where its name says
makes `HoldsEntries` false. `insert` and `remove` include their hook into
`merkle_tree.h`, the branches pushed and `onchange()` over them in the deque's
order. A hash is a set and `^` the symmetric difference: a hash function
without collisions, whose sums do not cancel either. A key that is a string
ends in zeros for ever, as `calculateDirection` reads it.

`MerkleTree` is two trees, each with what its owner has put into it
(`entries`, history), and what they tell each other. `Asked` is the exchange
that the tests and the comments in `merkle_tree.h` describe: every location of
an answer is asked about in turn, of the other side, until nothing is new.

In `structures`: five of the eight keys of three bits, which make trees with
one branch below another on either side and with missing bits between them;
one side has two values for a key, so that both can have a key and differ.

* `HoldsEntries`, `HashesRight` (in `TreesTrue`): after any insertions, removals
  and clears the tree is one, holds the entries in order, and the hash of each
  branch is that of the entries under it.
* `DiffExact`, `AnswersFit` (in `DiffsTrue`, with the next two): asked about a part of the other tree, `diff()`
  says that there is no difference exactly when there is none, an exchange of
  a key when both have it with different values, everything when it has
  nothing; wherever the walk ends, the two trees having unlike shapes.
* `EveryDifferenceFound`: whoever asks first about everything, each entry that
  only one side has lies in a location that ends with a request for data. It
  needs the third location of an answer (`Children`), the one asked about with
  the answering side's hash: without it a branch that only one side has goes
  unseen.
* `TopsDiffer`: begun from both sides' `top()`, a difference is noticed. From
  one side's it need not be: `top()` names the tree by the key 0 and the
  number of bits its keys share, so a tree whose keys all begin with 1 is
  asked about in the wrong place.
* `EnumerationExact` (in `TreesTrue`): from a key of the tree to another `enumerate()` finds
  just what there is in between. For other bounds it does not: of 000 and
  001, the range to 100 gives only the first, because the last leaf before a
  bound is looked for under the left child of the branch where the walk ended,
  not at the end of the subtree; the start likewise.

Not modelled: allocation that fails, which leaves pushed branches behind for
the next change, and an `enumerate()` that its function stops.

### RoutingTable

`routing_table.h` with values that are their own hash, of three bits. An
iterator is a list's number and a place in the list, `Settled` is
`iterate_until_valid_or_end`. `_origin` is not initialized, so `Init` leaves
it open; `SetOrigin` is of an empty table, as in all uses: later it would
leave values in the lists of the old origin. `ManyValues` is the 100 above
which `random()` looks into a bucket first, here 2, and both branches occur.
`PeersFound` of `structures` is three things here, and the ring's one below. `FindsMembers`: the table finds what has been inserted and not erased, and
counts it. `WalksOutward`: iteration meets each value once, the nearer lists
first, over any number of empty ones. `RandomIsFair`: `random()` returns a
value if there is one and can return any.

### HashRing

`hash_ring.h` over `circular_map.h`: six places, five keys of which two share a
place, so that rings of none, one and many occur. `WalksAround` (in `PeersFound`): from
`lower_bound`, `upper_bound` and `find`, a walk meets each place once, in the
order in which they lie ahead of where it began, and ends.

### PooledServer, LoopServer

`PooledServer` has a step for each call on a socket, a set of sockets or the
pool, and for each access to the plain `bool _running`.

| code (`socket/PooledSocketServer.h`, `SimplePool.h`) | actions |
|---|---|
| `start()`, `stop()` | `StartFails`, `Start`, `Stop`, `ReleaseReads`, `ReleaseWrites`, `CloseSocket`, `CloseAll`, `Clear`, `Join` |
| `accept()` | `AcceptorLoops`, `Accept`, `AcceptorInserts`, `AcceptorAdds` |
| `run()` | `ReaderWaits`, `Receive`, `ReaderRemoves`, `ReaderCloses`, `ReaderErases`, `ReaderInserts` |
| `writeReady()`, `waitForWriter()` | `HelperWaits`, `HelperCalls`, `HelperRemoves`, `WaitForWriter` |
| `getWriter()` | `GetWriter`, `Connect`, `ClientInserts`, `Drop`, `ClientAdds` |

libudt is external: connections are offered, open, broken (the peer is gone) or
closed (here), a set reports its members with something to receive. What
`getpeername()` says of a socket that is not connected any more is any address
(`Stray`), since the code leaves it uninitialised.

* `servers` has three parts: a server with one connection accepted and one that
  a client makes to the same peer; a server with one connection that somebody
  waits to write to; and the servers without a pool, with two threads. Together
  that is each pair of threads that share something. No connection is open that
  nobody listens to (`AllListened`); a connection's end is told once and last
  (`EndIsLast`); what arrives is read (`ArrivalsSeenTo`), and every `stop()`
  returns (`StopsReturn`). The properties say "with one reader", the default:
  two may be given the same ready connection, and then one blocks in `recv()`
  with the connection's message gone, past `stop()`.
* `server_stale`: `close()` asks a socket that it has just closed whom it
  connected to, erases another entry than the connection's or none, and
  `getWriter()` later hands out the dead one and closes its own.

`LoopServer` is `StatelessSocketServer` and `StreamSocketAcceptorServer`: a
failed `recv()` is tried again, a failed `accept()` ends its thread while the
server stays up, which `ArrivalsTaken` has to except.

*Proved*, in `PooledServer_proofs`, for every set of connections, peers and
clients and every finite set of readers: `TypeCorrect`, `EveryListened` and
`EndToldOnce`. The assumptions are that socket numbers are natural numbers (the
reads of a `wait()` are gone through from the lowest on) and `None` is none of
them, that readers are finitely many, and that the connections somebody waits to
write to are connections.
Three invariants carry it. `HandsInv`: a thread holds a connection exactly
between the call that gives it one and the one that sees to it. `LifeInv`, for
`EveryListened`: before `start()` nothing is under way, while the server runs
`_readSet` is not released, and what `run()` has found without a message is not
open any more, so that neither a failing `add()` nor the removal of a connection
from the set leaves one open that nobody reads; that a removed one may have been
open when the set reported it is why its state has to be followed from `wait()`
on. `PlaceInv` and `ReaderInv`, for `EndToldOnce`: a connection is in one place
(not begun, with the acceptor, with one client, or past them), so that what is
added to the set was never in it and its end was never told; and what the one
reader tells the end of is neither in the set any more nor left in what it has
yet to read.

*Fairness*: the server's threads, and `stop()` once called, go on. Nobody has to
call `start()`, `stop()` or `getWriter()`, a peer need not send, and a call need
not fail as long as its socket is good.

### HttpLetters, HttpParser, HttpMessages, HttpUrl

`HttpParser` is `http_parser_execute` with an action for each of its states (or
group of states that do the same), a letter at a time, over a stream that
`ParseBuffer` cuts anywhere. A letter stands for itself where the code tells it
apart; a word of which only the beginning is compared alone is cut there (`"c"`,
`"o"`, `"n"`, `"t"`, `"ent-length"`), so that other words that begin alike are
still tried. `MaxHeader` (80K in the code) is 90 letters and `MaxLength` (2^64 -
1) is 255, so that both limits are passed.

`HttpMessages` says what is expected, without the parser: a message has parts, is
written in letters (`Wire`), and is heard as a list of calls (`MessageHeard`).
The run's streams are put together of messages, or are a stream that breaks a
rule with the error that says which. They hold every method, every way to say
how long a body is (a length, chunks, the connection's end, none), trailers,
upgrades, folded and empty values, words that begin like known ones,
three messages in a row, and every error but those no input can cause.

* `Delivered`: however it is cut, the listener hears what is in the stream, in
  order, each part whole when the next one begins, and the error is the right one.
* `Asserted`: the assertions in the code; and a listener that refuses is heard
  no more (`RefusalEnds`).
* `NoLetterForEver`: a letter is looked at again only in a later state of a
  fixed order. With deadlock checked, that makes each call return, without any
  fairness.
* `PartsRight`: `http_parser_parse_url` on every URL of up to four letters more
  than none or `a://b`, and on those put together of parts; and texts through
  `Url` (below).

`http_head`: a listener that returns 1 from `on_headers_complete`, as for the
answer to a HEAD, is to hear of no body (`NoBodyIfSkipped`, from
`http_parser.h:73`). It does, of the first letters of the next answer:
`F_SKIPBODY` is the seventh bit of a field of six (`Flagged`, `FlagBits`). No
stream of the run `streams` has such a listener. Not modelled: the parser's pausing, which nothing in the repository uses.

### HttpByteStream, HttpCallbacks

`HttpByteStream` writes a response in chunks; what it writes is parsed again in
`streams`, where it must mean what was written. What the inner stream answers is
ignored: it may take a part of the header, of a chunk's length, of its data or of
its end (`Taken`), and the rest is written all the same. The streams
`WrittenShort` have each of these: the peer's parser counts what follows as
data and ends in an error, or, when the header breaks off in the status, takes
it for a response of another form. `HttpCallbacks` is responses that
are constructed and parsed in two threads: the callbacks are static in each
thread, so that what is parsed in it goes to the one constructed there last.
`ResponsesApart` holds of responses that are used only until the next one is
constructed in their thread, which the comments `TODO` of both classes admit.
It is proved, in the module itself (`StayApart`), for any number of threads,
responses and messages: both callbacks of a thread are always those of the one
constructed there last (`BoundToLatest`), so that one parsed where it is the
latest is the only one that changes.

### CuckooMap, AtomicMap

One action for each time a lock is taken and for what is done with all of those
needed; a search looks at one slot at a time, as the code locks for each. The
partial key's part in the second bucket is `TagOf`, an odd number, so that the
two buckets of a key always differ. All locks are there from the start
(`LOCK_ARRAY_GRANULARITY` is 0); memory is sequentially consistent, and the
counters, one pair for each core in the code, are read as one number.

* `containers`, part crowded: one slot to a bucket and a table that is full for
  a new key, so that keys move, in a path of one or several, or the table
  doubles; with erasing, clearing and iterating threads in between. Part roomy:
  a table that is rehashed and reserved, up and down. Two threads, three calls.
* `MapIsAtomic`: each call takes effect in one step of `AtomicMap` between its
  call and its return. `KeysFound` is two things. `KeysAtHome`: no key is lost
  or doubled on its way, nor anywhere but in its buckets; while the table
  doubles, by the old hashpower in those not moved yet. `HoldsBuckets`: the
  assertions of `run_cuckoo()`.
* `containers_resized`: `rehash()` does not take `expansion_lock_`, and a
  doubling that is under way goes on by the old hashpower.

`upsert()`'s inner insertion does not ask for the load factor before it doubles;
and a move compares with a key by its hash: the model has both as they are.

### TakeCounts, ImplicitQueue, ExplicitQueue, TaskQueues

A producer's items have numbers that wrap (`Wrap`, 16 for 2^64); its consumers
share three counters. `TakeCounts` is that part, the same for both kinds:
`LoadCounts`, `Check`, `Commit`, `Verify`, `CountExcessOut`, `Claim`. `ImplicitQueue` (of a
thread) and `ExplicitQueue` (of a token) have the blocks and the index of
blocks, each access that another thread can see being a step. Single and bulk
calls share their actions, a single one being of one item; where the code of the
two differs in what can be seen (a single insertion constructs its item before
it exposes its block) the items are constructed at the later point, since
nobody looks at a cell before the tail is moved.

* In `containers`: one thread that adds and two that take, and two that add and
  one that takes, without a token; and one that adds with a token and two that
  take. Blocks of two items and an index of two slots, so that four items need
  a larger one; numbers begin at 0 and at 15, so that they wrap with the first
  item; calls that may not allocate, memory that runs out and copies that throw.
* `ItemsInOrder`: `TaskQueues`, a queue for each producer, is implemented: an item
  claimed is the consumer's from there on, though it is moved later.
* `CountsSettle`: whatever consumers promise themselves and give back, the head
  stays right. `FindsItsBlock`: the block that a consumer finds, in an index
  that may be out of date or have had its slots used anew, is its item's.
  `BlocksAccounted`: no block is lost or in two places, and the destructor
  destroys what is left and nothing else. `AloneFinds`: who has nobody in the
  way is not told that the queue is empty when it is not; with others, one may
  be, as the documentation of the queue says.
* `queue_index_full`: a bulk insertion with a token that fails keeps the blocks
  it got in the ring, but gives back their slots in the index; when the blocks
  are used, slots are overwritten that a consumer still needs. `containers`
  ends where that may begin (`GoesOn`); a call that throws leaves its
  blocks behind with their flags reset, as if all items were still there, so that
  they are never "available for next time", as the comment there has it.

The counters that lie too far apart (`Full`) need more than half of all numbers
in the queue, which the bounds do not reach. The free list is a set in
`ImplicitQueue`, which `BlockFreeList` justifies.

*Proved*, in `ImplicitQueue_proofs`, for any finite set of consumers, any list
of producers, any blocks and any calls: `QueueTypes`, `QueueCounts` (that
`CountsSettle` always holds) and `QueueAloneFinds`. Their hypothesis,
`QueueAssumption`, is that fewer items are added than half of what the counters
count to, and that no more are asked for: with 64 bits, years of use.
(Without it the comparisons of the code mean nothing, as it says.)

* A counter is taken as the number of steps from where it began (`Since`),
  which under the hypothesis does not come around: `Whole` turns `%` into
  plain sums and `circular_less_than` into `<`. That the optimistic count has
  not come around either, though consumers count themselves in for
  nothing, is because each call tries each producer once: `AskedInv` counts
  what the consumers that may yet try one (`Yet`) could ask for.
* `CountInv` is `CountsSettle` over `Since`, with the sum over the consumers
  under way as the cardinality of a set of pairs (`Total`), one for each item
  asked for; the lemmas on `Total` say what a change of one consumer's
  number makes of it. It also says that what consumers know they will have
  (`Grant`) is there. That is not inductive: why is there an item for whoever
  has looked, when others counted in before have yet to look, or have found
  too little and have yet to count themselves out?
* `SeenInv` answers it. What consumers are counted in for lies apart, in the order in
  which they counted themselves in, whether or not it is there (`Apart`). One who
  has yet to look either has its items even if all those before it find theirs
  (`Ahead`), or will find itself beyond them, whatever the overcommit that it
  read, which only can have grown since.
* `AloneInv`: a consumer that is alone and has nothing so far is before a
  producer that has something, or has one in what is left of its list; the
  counters it reads say so, since nobody else changes the head.

`ExplicitQueue` shares `TakeCounts`; there, the same two properties are model-checked.

### BlockFreeList, ProducerHash, ProducerTokens

`BlockFreeList` is the lock-free list of free blocks with its reference counts.
It begins empty, every block in use by some thread, and whoever has emptied a
block gives it back (`Add`), often another thread than took it. What is on the
list (`OnList`) is what every set of blocks holds that has the head and goes
along with `next`; the same as what a walk would meet, without recursion. In
`containers`, two threads and three blocks: a block that leaves and comes back
between the two reads of a thread, with another in between. `BlocksApart`: no
block is taken twice or falls between two threads.

*Proved*, in `BlockFreeList_proofs`, for any finite set of threads and any
blocks: `TypeCorrect`, `CountsRight` and `NoBlockTwice`. `BlocksApart` alone is
not inductive, since nothing in it says why the head a thread moves to is still
what came next. `FreeInv` adds: the list is straight, each block leading to one
that nothing else on it leads to, and what a thread about to move the head saw
next is next (`ListInv`); a block is on the list, in somebody's
hands, or waits for the last who counts on it, and in one of these only
(`PlaceInv`); and `freeListRefs` is the number of threads that count on the block
and one more if the list refers to it, with the flag set exactly while it waits
(`RefsInv`). So what a thread counts on cannot be put on the list again until it
counts itself out, and `next` of it is what it was when it was read: there is no
ABA. The lemmas `TakenOff`, `PutOn` and `LinkedOff` say what a changed head or
`next` makes of the list.

`ProducerHash` is the table from threads to producers, of two slots at first and
doubled while others look into it or add to it. In `structures`, three threads,
two of which begin at the same slot, and two tables. `ProducersKnown` is two
things: a thread finds its own producer in whichever table (`OwnProducer`), and
every table has a free slot (`SlotFree`), on which the end of a search relies.
The new capacity is found in the code by a loop that doubles it until it
suffices, and said here by what holds where the loop ends (`IsNewCapacity`).

*Proved*, in `ProducerHash_proofs`, for any finite set of threads, any hashes
and any number of tables: `TypeCorrect`, `OneProducerEach`, `NeverFull` and
`ProducersFound`. Two invariants carry it.

* `OwnInv`: what is in a slot is its key's producer, and every slot between
  where the key's hash points and its own is taken (`Way`), so that a search
  that goes on while slots are taken comes past it, whatever is added meanwhile;
  a thread's key is in no table newer than those it has yet to search
  (`SearchOK`), and neither in the one it is about to add it to nor in a newer
  one (`PlaceOK`).
* `RoomInv`: `SlotFree` alone says nothing of threads that have found room and
  have yet to take their slot, and the count is counted down again when memory
  runs out, so that two threads may be told the same number. Counted threads can
  be given ranks, such that no more than `k` of them have rank `k` or less, and
  such that a thread that is in a table, or about to be, has a rank below three
  quarters of the table's size. So no table ever has more keys than that.

`ProducerTokens` is the list of producers, tokens that take over what others
gave up, and the rotation of consumers. In `containers` (`TokensRight`): no two
tokens share a producer; a consumer that finds nothing has tried every producer
there was, none twice; consumers that got their places while no producer was
being added are at different ones. What a producer answers is any number here.
The run makes three calls with tokens; four were checked once (3.8 million
states).

*Proved*, at the end of `ProducerHash_proofs`, for any finite set of tokens, any
consumers, and any producers there are at first: `TokensAreRight`, which is all
four parts of `TokensRight`. The module refers to `ProducerTokens` as `T`, with
variables of other names where `ProducerHash` has its own. `TokensInv` adds to
`TokensRight`:

* `ListOK`: the list holds no producer twice, and its length is ahead of it by
  those that are counted and yet to be added;
* `TokensOK`: what a token has, is about to have or has marked is in the list;
* `CallOK`: what a consumer read of the list is what the list still ends with
  (`Ends`), and a search that has found nothing has tried, one after another
  around that end, those from the token's producer on to the one that is next
  (`Round`). So it comes back to where it began only after all of them
  (`WalkDistinct`), however the list has grown meanwhile;
* `PlacesOK`: a token's place is `lastKnownGlobalOffset - initialOffset` modulo
  the list's length, the first time (`FirstMod`) and after each rotation,
  whether `delta` was reduced or not (`PlaceMod`).

The proof corrected the model. `PlacesApart` used to make an exception only of
producers that are added *after* consumers got their places. A consumer that
gets its place between a producer's being counted and its being added computes it
modulo a length that the list does not have yet, and may end up beside
another: with four consumers, TLC finds that too. `grown` now says whether a
place was given at such a time. Nothing goes wrong then but the spreading of
consumers: every search still comes past every producer.

`initialOffset` and `globalExplicitConsumerOffset` have 32 bits in the code and
no bound here. A list whose length is no power of two is spread anew, not wrongly
searched, when one of them wraps; `PlacesApart` says nothing about that.

### Serialize, Url, ConfigFile, Tiger

Functions over sequences, and what they promise of every short one, which
`MCStructures` enumerates (`CodecsRight`): `decode`
undoes `encode`, takes what is whole of an encoding that breaks off, and keeps
the order of equally long texts, which is what the alphabet is for; `split` cuts
at every delimiter and `join` undoes it; a text encoded into a URL's path and
parameters comes out of them. `ConfigFile` is settings saved, loaded and
forgotten by a restart: a loaded value ends at its first `=`, and loading adds
to what is there (`SettingsKept`). `Tiger` is a message hashed in pieces, with
`compress` a function that forgets nothing: the digest is that of the whole, as
`tiger_impl`, "the original implementation" next to it, cuts it. Sizes are
those around a block of 64 and the 56 that leave room for the length.

### Only model-checked, and not modelled

Liveness (under fairness), the refinements of the map and of the queue, and the
seven counterexamples rest on TLC alone, as do the version vectors, the trees,
the routing table, the ring, the parser, the queue's blocks, all of
`ExplicitQueue` and the codecs.
Liveness is out of the prover's reach. So is what the operators of the trees, of
the version vectors and of the codecs compute: they are recursive over data, and
would need an induction that the installed provers cannot do. The parser is so
many cases over sequences of letters that only its states' order could be
proved; the map uses bitwise operators, which the prover does not know. What the
index of blocks holds, and the counters of `ExplicitQueue` are within reach, and
not done.

Parts that are listed as `not_modelled` in `PROJECT.json` have no state of
their own, or are not used: single system calls (sockets, byte streams), mocks,
DCCP (not built), one-line executors, the vendored formatting library and
option parser. Not modelled within the modelled parts: the constructor of
`deadline_thread`, which starts its thread before the members it uses are
constructed; jobs and tasks that call back into `shutdown()` or `stop()`; the
limit of memory behind `try_execute()`; clocks that are set back; descriptors
leaked by a failed `flush()`; moving and swapping whole queues, and the weak
memory orders of the queue, all of whose accesses are in one order here; the
map's iterators but for a walk forward.
