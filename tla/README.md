# A TLA+ development of tdutils

tdutils is the utility library of TDLib: C++ headers and sources under `td/utils`,
their tests under `test`. Three things in it are hard. It has a concurrency kit
(lock-free queues, two schemes of memory reclamation, worker parking, pollable
queues, pools with weak pointers, buffers read by one thread while another writes
them) whose tests are stress tests that sample interleavings. It has descriptors
that three parties touch (the owner, the poll thread or the thread of a completion
port, the kernel), on five pollers and two systems. And it has code that reads
what came from outside or from an earlier run of the program (parsers, encodings,
log files, lock files). The development models all three, and the containers and
processors around them.

## 1. Inventory

| Component | State it keeps | Operations | Interacts with | What is hard | What makes it correct |
|---|---|---|---|---|---|
| `HazardPointers` | per thread: `hazard_` slots, `to_delete_` | `Holder`, `protect`, `clear`, `retire` | `MpmcQueue`, `ConcurrentHashMap` | a node retired between load and store; a scan that reads the slots one by one | a protected object is not deleted; no leak, no double delete; bounded garbage |
| `EpochBasedMemoryReclamation` | `epoch_`; per thread: epoch and idle bit, three bags | `lock`, `unlock`, `retire`, `retire_sync` | users of `Locker` | stale epochs, threads that stop helping | what a locked thread loaded is not deleted; `retire_sync` ends and leaves nothing |
| `MpmcQueue`, `MpmcQueueOld` | list of blocks: tickets, slots, `next`; `write_pos_`, `read_pos_` | `push`, `try_pop`, `pop` | `HazardPointers` | tickets taken before values; helping; a node reclaimed while reachable | every value popped once; an empty answer is true; no deleted node is touched |
| `MpmcSleepyWaiter`, `MpmcEagerWaiter` | state word, mutex, stack of sleepers, slots | `wait`, `stop_wait`, `notify`, `close` | worker threads | notify decides on counters that change at once; spurious wake-ups | a lost wake-up never leaves work waiting; the class's CHECKs |
| `StealingQueue` | ring, `head_`, `tail_` | `local_push`, `local_pop`, `steal` | owner, thieves, global queue | a thief copies while the owner overwrites | every item leaves exactly once |
| `MpscPollableQueue`, `SpinLock`, `EventFd`, `PollQueue`, SPSC queues | two vectors or a chain of rings, `wait_state_`, event fd | put, flush, wait, get | poll loop | signals outside the lock, parity protocol | a reader told to wait is woken; values arrive in order |
| `ObjectPool`, `SharedObjectPool`, `MpscLinkQueue` | generations, counters, free lists | create, alloc, copy, reset, release | threads | a weak pointer that outlives its object; the last reference dropped by any thread | what is alive is one's own object, and nothing is lost |
| `ConcurrentHashMap` | table of atomic keys and values, migration state | `insert`, `find` | `HazardPointers` | migration races insertions | one value a key, nothing lost, calls end |
| `AtomicRead`, `CancellationToken`, `ThreadIdGuard`, thread locals, `ThreadSafeCounter`, `TsList` | version; flag; ids; cells; ring | read, lock; cancel; register; add; put, remove, get | threads | torn reads, ids used again, an unlocked look at `parent` | a read is of one write; live threads have their own ids and cells; the ring is a ring |
| Chain buffers, `BufferSlice`, `BufferBuilder`, `SharedSlice` | counted blocks, `begin_`, `end_`, `has_writer_` | append, read, slice, build, convert | `ByteFlow`, `BufferedFd` | the writer leaves between two loads; a writer goes on in a block with slices | the reader sees a prefix and, at the end, everything; bytes under a slice do not change |
| `ByteFlow`, `Gzip`, AES-CTR flow | flow buffers, flags, watermarks | wake-up, read, write, close | chain buffers | wake-ups passed on or not | the sink gets what the row computes, and the row ends |
| `PollFlags`, `PollableFd`, pollers, `SocketFd`, `UdpSocketFd`, `ServerSocketFd` | flags in two parts, lists, queues, reference counts | subscribe, run, read, write, send, accept, close | kernel, owner, poll thread, port | flags raised while they are cleared; completions after close; numbers of descriptors used again | no edge, flag or datagram is lost; objects outlive their completions |
| `OrderedEventsProcessor`, `ChangesProcessor`, flood control, `TimedStat` | windows of results or of times | `add`, `finish`, `add_event`, `get_wakeup_at` | – | arrays erased from the front; boundaries of windows | in order, once; never more than the limit, never a needless wait |
| `KHeap`, `DecTree`, `Container`, `Enumerator`, `Hints` | containers | insert, fix, erase, reset, search | timers, users of ids | long sequences of calls | agree with sets and maps |
| `JsonBuilder`, `Parser`, TL serialization, texts, `uint128`, `bits` | cursors, buffers | encode, decode, store, parse | – | damaged input, zero, the last byte, wrapping | what is written is read back; no byte outside is read |
| `FileLog`, `TsFileLog`, `MemoryLog`, file locks, `atomic_write_file`, `path.cpp` | files, rings, `locked_files` | append, rotate, lock, write, walk, remove | file system, other processes | partial writes, crashes, two processes | messages whole and in order; one holder; the path has whole data |
| Crypto and random numbers, platform, addresses, vocabulary types, formatting, tables | none or local | wrappers | OpenSSL, OS | – | section 9 |

`PROJECT.json` lists every source file of `td/utils` under a component, with its
status, and every hazard at its line with the properties that cover it.

## 2. Modelling conventions

* In the concurrent models one step is one atomic access to shared memory, or one
  critical section, or one call of the system; local computation joins the access
  before it. Steps interleave: sequential consistency. Weaker orders are outside the
  models; the one place where that might matter is the hazard that has no property
  (`MpmcWaiter.h:35`).
* Pointers are members of small sets; an address that was freed may be handed out
  again. Data is a number, or a piece. Code outside `src/` (kernels, Winsock, zlib,
  the file system) is marked external in the map and does whatever it may do.
* Operations that only compute are operators, and the states of such a module are its
  inputs: an input grows by one symbol of an alphabet, or is taken from a set, and the
  invariants compare the code's operators with reference definitions on each.
* A definition called a mutant is a plausible mistake in the definition that follows it.
  It takes no part in any specification: a property is shown to fail when the
  definition is replaced by its mutant.
* Components that do not interact share a run. The MC module instantiates each with
  variables `v1, v2, ...` (or, where something is proved about an instance, with variables of
  its own); a behaviour is of the one named by the variable `part`, a
  property of the run is a conjunction of `part = "X" => X!Property`, and the fairness
  of a component is assumed while it is the part that runs. The properties themselves
  are stated, with their comments, in the component's module. A module with several
  components of one kind (`EventOrders`, `Containers`, `LogSinks`, `UdpSocket`,
  `Conversions`) does the same with a variable `kind`.
* An MC module extends one component of its run (`MCPools` extends `AtomicRead`, `MCStreams`
  `SharedSlice`, `MCDescriptors` `PolledSocket`, `MCData` `AtomicFile`, `MCSync`
  `EpochReclamation`, `MCQueues` `MpscPollableQueue`), and instantiates the others; what it
  adds has the prefix `MC`.
* Proofs about a component that has a run of its own, that an MC module extends, or that stands
  alone, are at the end of the component's module, after its specification and properties
  (`HazardStress`, `StealingQueue`, `SharedSlice`, `AtomicFile`, `PolledSocket`). Proofs about the components of an
  MC module are in a module that extends it (`SyncProofs` about `MCSync`, `QueueProofs` about
  `MCQueues`), or are the second half of the MC module (`MCPools`); what they prove of the extended
  component, they prove for every value of its constants, and of the instances for every value
  of the constants of the MC module.
* The map names the operations and the larger helpers. A small helper whose lines are all
  among those of the operations that use it is covered by their rows.

## 3. The modules

### Reclamation: HazardPointers, HazardStress, EpochReclamation (SyncProofs)

`HazardPointers` is the class with one slot per thread: `hazard[t]`, `toDelete[t]`, the
locals of the scan in `retire()` (`todo`, `cand`, `idx`) and of `do_protect` (`saved`,
`loaded`). Its operations are operators without pc, for every client: `ProtectBegin`,
`ProtectChanged`, `ProtectStores`, `StoreHazard`, `RetireBegin`, `ScanStep`, `ScanDone`.
`HazardStress` composes it with the threads of `test/HazardPointers.cpp`. The test bounds
garbage by `threads_n * threads_n`; the model bounds a thread by `2 * (N - 1)`, which is what
the code gives: a scan keeps an object only for a slot that held it, and a slot may be
read holding one object early in a scan and another one late.

`EpochReclamation` is the class with the client of its test. `loc` and `idle` are the packed
epoch of a thread, `bags`, `bagI`, `skip` and `checked` its fields; `pin` is auxiliary: the value
of `epoch_` when the thread last published an epoch. `EpochHolds` is the conjunction of its
safety properties.

### Queues: MpmcQueue, StealingQueue, FifoChannel, EventFd, MpscPollableQueue, PollQueue (QueueProofs)

`MpmcQueue` extends `HazardPointers`. `node[n]` holds a block's tickets (`w`, `r`), slots (`data`)
and `next`. `push` is `PushBegin, Protect, PushClaim, PushSet | PushNext, (PushAlloc, PushLink,
PushSwing | PushHelp), PushEnd`; `try_pop` is `PopBegin, Protect, PopPeekWrite, PopPeekRead,
PopPeekNext, PopClaim, PopGet | PopNext, PopAdvance, PopRetire, PopScan, PopEnd`. `OldSpec` is
`MpmcQueueOld`, the same list around `MpmcQueueBlock`, whose readers take tickets without end
when a block is full and has no next: `MaxReads` bounds them. A thread that touches a
deleted node is `Stray`; the model takes the outcome in which a write is lost and a read
finds nothing.

`StealingQueue` is the ring with owner, thieves and the loop of its test. Each slot a thief
copies is a step, so that the owner can overwrite the ring under it. `MCSync` has its two instances.

`FifoChannel` is the abstract specification of both pollable queues. `MpscPollableQueue`
implements it with `queue <- readerVector \o writerVector`, `PollQueue` with the values between
the reader's position and the published positions of the writer. `EventFd` is the counter
of an eventfd. The calls of `writer_update` inside `writer_put` publish a full block without a
look at `wait_state_`, because `SPSCChainQueue::writer_flush` is not virtual: `WriterPublish` and
`FlushPublish` differ.

### Waiters: WaiterClient, MpmcSleepyWaiter, MpmcEagerWaiter (SyncProofs)

`WaiterClient` is the test's use: writers publish a unit of work and call `notify()`; readers
look, `wait()` or `stop_wait()`, and take the unit by compare_exchange. The branch
`yield_cnt++ < 10 && false` of the sleepy waiter is dead and not modelled. `sleepers` is the
vector `sleepers_`: `Enlist` pushes at its end, `Pop` takes the last, `Delist` erases the one it
finds. The rounds of the eager waiter are constants; its condition variable may wake a thread spuriously.

### Pools and what threads share: ObjectPool, SharedObjectPool, ConcurrentHashMap, AtomicRead, CancellationToken, ThreadLocals, TsList

`ObjectPool`: every atomic operation on `head_` and `generation` is a step, a write of the data
takes two, and a read between them sees `Torn`: a weak pointer reads first and asks
afterwards. `SharedObjectPool` includes its `MpscLinkQueue`: `PopAll` is the exchange, `Turn` one
round of the loop of `Reader::add` that reverses what was taken, `Link` its end (`adding` has the
three local pointers), while other threads push. `FreeIsFifo` says that freed Raws
come back in the order of their release, whatever step the reversal is at. `ConcurrentHashMap` has the walk over slots as one
step up to the call of its function, and each load, exchange and chunk of the migration
as steps of their own; `won` remembers what an insertion was told. `AtomicRead` copies
word by word. `ThreadLocals` follows `ThreadPthread::run_thread`: guard,
objects, cells of a counter, in the order they are constructed and destroyed.
`CancellationToken` numbers the flags that sources make; `raws` of them exist.
`TsList` has the region under its lock as one step and each unlocked look at `parent` before it
(`validate`, `empty`, the end of `put`) as another; a node's thread does one operation at a time on
the nodes it owns, and `get()` of any thread may come between any two steps (section 6). A CHECK that
fails ends the behaviour at the step "failed".

### Streams: ChainBuffer, BufferSlices, SharedSlice, ByteFlow

`ChainBuffer`: one thread appends, another reads, syncs, copies iterators and lets go of
nodes; `end_` and `has_writer_` are separate loads. `BufferSlices`: blocks cut from a common one,
slices, a writer that goes on appending, `BufferBuilder` in place and queued; `seen` remembers
what each slice read first. `SharedSlice`: slices of blocks whose count is `refs`, handed from
thread to thread, and turned from shared to unique: the count is asked in one step
(`AskUnique`), and another moves the block (`TakeOver`) or copies it (`Copy`). `ByteFlow`: rows of flows; AES negates a byte, deflate adds 100, and zlib is any
stream of that kind that lets out as much as it likes.

### Descriptors: PollableFd, PolledSocket, IocpSocket, UdpSocket, ServerSocket, KQueueChanges

`PollableFd` is a record (`to_write`, `flags`, the lock, the observer) with its operators.
`PolledSocket` has kernel, poll thread, owner and application around one stream socket;
`kind` is the poller: edges for epoll and kqueue, levels for poll and select. EAGAIN and the
clearing of the flag are two steps. `IocpSocket`, and the Windows kinds of `UdpSocket` and
`ServerSocket`, have the thread of `Iocp::loop` that runs completions in the order of the
port's queue beside the owner; `pending` holds what Winsock still works on, and an object is
`alive` while its count is positive. Two marks in them are history: `missed`, of output whose
`write()` posted nothing because `loop_write` had looked and not set its flag yet, and `failed`, of a
send that failed since the last look. The posix kind of `UdpSocket` has its batches over
`VectorQueue` and the error queue. `KQueueChanges` has the change list over descriptors
that are closed and whose numbers come back.

### Data: EventOrders, Containers, Json, Tl, Conversions

`EventOrders`: both processors with the arrays they erase from the front, and both flood
controls with a clock. `Containers`: `KHeap` as an array whose nodes know their place, `DecTree` with
its priorities, `Container` with generations (three of them, so that they wrap) and types, `Enumerator`, `Hints` with the two
indices of words and transliterations. `Json`: the two decoders (`do_json_decode`,
`do_json_skip`), the scopes that write, the getters of fields. `Tl`: the storer that computes the length,
the one that stores, the parser over the bytes or over damaged ones. `Conversions`: of texts
(base64, base32, UTF-8, zero runs, numbers, hexadecimal, words, URLs, file names) and of
numbers (the emulated 128-bit numbers against the compiler's, bit scans, `pq_factorize`).

### Files: LogSinks, FileLock, AtomicFile, Directories

`LogSinks`: a `FileLog` per thread id under `TsFileLog`, with partial writes, rotation by size,
on request (`lazy_rotate`) and at once (`FileLog::rotate`, which truncates the file without
renaming it; `cut` is the history of what was in it), and restarts; and the ring of `MemoryLog`.
`FileLog::rotate` is called through `TsLog`, under whose lock no append is under way (`logging.h:313`).
`FileLock`: `locked_files` between threads and the system's lock between programs, with tries
and crashes, for callers like `write_file` that open the file, lock it, and close it whether they
got the lock or not. The system's lock is of the process on POSIX, where any close of the file by any
thread of the process drops it (`dropped`), and of the handle on Windows. A holder whose write fails
closes the file and leaves its entry in `locked_files` (`Leave`, `left`).
`AtomicFile`: a file written as `.tmp`, synced, renamed; the machine may crash and what is
not synced may be lost. `Directories`: walks, `rmrf` and `mkpath` at once on one tree.

## 4. The runs

| Run | Instance | Shows |
|---|---|---|
| `HazardStress` | 2 threads, 1 pointer, 5 addresses, symmetric | protection, ownership, bounded garbage |
| `MCQueues` | Mpsc: 2 writers of 3 values; Poll: 3 values, rings of 2, positions modulo 4; Mpmc: blocks of 1 slot, 1 writer and 2 readers over 3 addresses (Old: 2 addresses, 2 late tickets), and 2 threads that both push | both pollable queues are channels and a waiting reader has its signal; no use after free, conservation, honest empty; everything put is taken |
| `MCQueuesTwoWriters` | Mpmc with 2 writers, 1 reader | **violation** (section 6) |
| `MCQueuesIdleFlush` | Poll with 1 value and idle flushes | **violation** (section 6) |
| `MCSync` | Sleepy: 3 workers and 1 unit, 2 workers and 3 units; Eager: 2 workers, 2 writers; Epoch: 2 threads, 2 rounds and 1 round, 3 addresses; Stealing: 2 threads, rings of 4 and 6 items, so that they overflow, and 3 threads, rings of 2 and 4 items, so that two thieves meet at one queue | counters and CHECKs of the waiters, no lost wake-up; protection by epochs; no queue outgrows its ring, every item is in one place until it is got; everyone finishes |
| `MCPools` | 2 readers of 2 words and 3 writes; 2 storages and 3 objects; 3 threads at a pool of 3 Raws with 3 allocations; 3 threads at a map that grows; 2 sources and 2 tokens; 2 threads with 4 starts; 3 nodes of 2 threads | reads of one write, weak pointers, free lists, agreement on a key, ids, cells, rings, tokens; calls and reads end |
| `MCPoolsListCheck` | 3 nodes of 2 threads of a `TsList` | **violation** (section 6) |
| `MCStreams` | 3 bytes in nodes of 2; 3 blocks with 5 calls; 2 threads and 3 shared blocks; four rows of flows, with watermarks and a size limit | the reader's bytes are the writer's, slices do not change, the sink gets what the row computes, rows end |
| `MCDescriptors` | 4 pollers with 2 pieces in, 2 out and a kernel that takes 1 before the peer reads; Windows sockets with 2 writes; UDP with 3 packets out, 2 in, 1 error; 3 connections; 2 descriptor numbers and 4 nodes at kqueue | no edge or flag lost, order of datagrams, lifetime of completion objects, nothing fatal in the change list; data moves and closed objects go |
| `MCData` | all inputs of up to 3–8 symbols of alphabets with every case; windows and containers of up to 6 elements; a container of 2 slots with 3 generations, 3 creations and 1 generation that wraps; 2 logs, 3 messages, 1 rotation on request of either kind, 1 crash; 2 programs of 2 threads at one lock, on POSIX and on Windows, 3 calls, 1 crash; 2 atomic writes, 1 crash (any number: section 7); pairs of walks on four trees | section 3's Data and Files modules against their definitions |
| `MCDataOverlap` | atomic writes of 2 programs that overlap | **violation** (section 6) |
| `MCDataUtf16` | texts cut to UTF-16 lengths | **violation** (section 6) |

Why the bounds suffice: blocks of one slot (1024 in the code) make every push link a block
and every second look retire one; fewer addresses than allocations force reuse; three
workers are the least with one searching, one on its way to sleep and one asleep; rings of
two fill up and positions modulo 4 wrap; a table of the map migrates while two threads
insert one key; the arrays of the processors are erased, because thresholds are 1 instead
of 5 or 4; with room for one piece and two to write, a writer meets a full kernel buffer and EAGAIN; numbers have
8 bits and ports go up to 100, so that a port can be too large and a number can wrap; `Byte` is 4, so strings have one, two and four bytes of length; words of
4 bits carry and borrow in every way. Positions, generations and epochs are otherwise
unbounded in the models and bounded by the number of calls. The constants that scale down
a number of the code are named for what they stand for (`Kept`, `Small`, `Threshold`, `Tries`).

Deadlock is not checked where a behaviour really ends (all calls made, nothing more to
read): all the runs that hold several parts. That nobody is left waiting in those is the question of
their liveness properties. `HazardStress` checks deadlock: its threads go on for ever, as they exchange,
retire and clear again, so a state without a successor would be an error.

Reductions: addresses are symmetric in `HazardStress`; in `MCQueues`, and for the thieves in `MCSync` (`FirstTakes`),
threads and addresses that differ in nothing are taken in one order (the conjuncts in `MCInit` and `MCNext`).
`DescriptorsMove` and `FilesMove` number what has to end over all the components of their run, since one of them
runs at a time: one leads-to a number, and not one a component, is what TLC has to follow.

## 5. Fairness

Weak fairness of the step of each thread, poll thread, completion thread or owner: the
scheduler runs every thread that can take a step. The lock-free parts need no more.
Strong fairness is assumed of a thread that keeps trying the spin lock of `MpscPollableQueue`
(`TakesLock`); of the wake-ups, the consumer and the closing of a row of flows, which callers
repeat until they get through; and of a UDP send that the kernel may put off but not for
ever. The kernel completes what was cancelled by a close (`close_flag /\ Fails`), and a
peer of a stream socket reads. Timeouts, spurious wake-ups, new packets, writes, crashes and errors are
allowed and never relied on. The liveness of `MpmcEagerWaiter` is an invariant, `NoLostWakeup`.

## 6. Findings

`MCQueuesTwoWriters` (`MpmcQueue.h:374`). `push()` links the new node and only then moves
`write_pos_`. Between the two a reader may drain the old node, move `read_pos_` and retire
the node `write_pos_` still points at. A second writer that stores its hazard pointer
after the scan has passed its slot finds `write_pos_` unchanged and takes the node for
protected; it is deleted under it and its value is lost. With one writer all
properties hold. `MpmcQueueOld` does the same with two writers and a third reader.

`MCQueuesIdleFlush` (`queue.h:346`). `writer_flush()` remembers the state it saw as the one that had
its signal, also when it published nothing. The reader consumes the idle signal, finds
nothing and waits; the next flush publishes a value and gives no signal. A client that
flushes only what it has put is safe (`MCQueues`).

`MCDataOverlap` (`filesystem.cpp:78`). Two overlapping calls of `atomic_write_file`: the second call opens
the file `.tmp` with Truncate before it has the lock, and so empties the inode that the first one has
written and synced and is about to rename. The path then names an empty file, and the second call, which
gets the lock of that inode, writes the path itself in place.

`MCPoolsListCheck` (`TsList.h:70`). A node's thread reads `parent` without the lock, in `remove()`, a move or at
the end of `put()`, and takes the lock afterwards to check the links. A `get()` of another thread between the two
unlinks the node, and "CHECK(!ListNode::empty() || is_root)" ends the program. The same look before the locked
part of a move would tie the two nodes into a ring of their own. `LinksHold` says that the ring is right up to
that CHECK, and that the CHECK fails of nodes that `get()` has taken and of no others. The repository has no
such caller: `TsListConcurrent` (`test/List.cpp`) never calls `get()`, and nothing else uses the class.

`MCDataUtf16` (`utf8.h:75`). `utf8_utf16_truncate` decrements an unsigned length twice for a surrogate
pair; at 1 it wraps and nothing is cut.

Observed while the modules were written; the models say where they leave the case out:

* `ObjectPool.h`: the move assignment of `OwnerPtr` does not release what it replaces. The model moves only
  into empty owners.
* `TsList.h:66`: `parent` is read without the lock while `get()` may store it, which is a data race. The model lets such a
  read return a value that `parent` has at that moment, and `lock()`, which reads `parent` up to three times, use the
  one that `empty()` has seen.
* `Container.h:46`: `reset_id()` does not look whether the generation overflows, as `erase()` does. At the last one the
  id in use gets generation 0 (it is 0 itself for the first slot and type 0), and further calls bring back ids that were
  given out before, against "All ids are unique" and "All ids are non-zero" (`Container.h:11-12`). It takes 2^24 calls on
  one slot. `ContainersHold` asks for unique ids of every slot until its generation has wrapped so (`wrapped`), and holds
  with any number of `erase()`.
* `FileLog.cpp:86`: `FileLog::rotate()` opens `path_` with Truncate and does not rename it, so that what the file holds is
  lost unless somebody has moved it before, as `test/log.cpp:59` does not. `NothingTruncated` says that nothing else
  is lost, and nothing in any other way.
* `FileFd.cpp:354`: a thread that did not get a lock is told so because its process has it, and then closes its
  descriptor of the file: on POSIX that drops the lock of the process, and another program may lock the path beside the holder.
  `OneHolder` allows a second holder in exactly that case. A caller whose write fails after the lock (`filesystem.cpp:82-85`)
  leaves the path in `locked_files`, and no thread of the process gets the lock again.
* `ConcurrentHashTable.h`: `find()` may return 0 or the migrate value for a key that is claimed and not yet
  written; `ResultsAgree` speaks of what insertions and later lookups return.
* `AesCtrByteFlow.h:35`: what is unread beyond one chunk when the input is closed is lost.
* `SocketFd.cpp:202-208` on Windows: a `write()` that appends after the second `sync_with_writer` of `loop_write` and reads
  `is_write_waiting_` before it is set posts nothing (`write_finish` does not take the lock for that look). Its output
  stalls until the next `write()`, if there is one. `RestIsKnown` has this as one of two exceptions, with its mark
  `missed`, and says that the flag is then set, so that the next `write()` does send it. `StdStreams.cpp` on Windows counts
  its reference after it has posted the operation.
* `SocketFd.cpp`, `UdpSocketFd.cpp` and `ServerSocketFd.cpp` on Windows: when a send or an accept fails, at once or by its completion,
  nothing sends or accepts again, and output waits for ever, unless an owner has already decided to notify the port.
  The mark `failed` of `RestIsKnown` and `NoLostSend` is set by the failure and cleared by the next look at the queue.
* `KQueue.cpp`, `Select.cpp`, `Poll.cpp`: `Poll::clear` clears only its array; `Select` does not look at the result of
  `select()`.
* `FileLog`: if somebody else removes the file, the next rotation is fatal.
* `path.cpp`: two concurrent `rmrf` may abort one of them, and sockets and links keep their directory.
* `JsonBuilder`: `json_string_decode` takes half a surrogate pair, and storing it comes to an
  `UNREACHABLE()`; `JsonObjectScope << JsonRaw` writes no comma; a scope that was moved from or left explicitly writes its
  closing bracket again.
* `HttpUrl.cpp:77-131` rejects every bracketed IPv6 host, because the brackets are not among the characters of a host; the text
  after the digits of a port is overlooked, and a port that does not fit an int wraps (4294967376 is 80) and is
  accepted. `UrlsAreExact` states what is accepted so, apart from the code.
* `base64.cpp:274-296`: `base32_decode` ("TODO check padding") accepts one character more than `base32_encode` writes, if its
  bits are zero, and otherwise only what that writes; `Base32IsExact` states it bit by bit.
* `Hints`: a word of mixed alphabets is not found by its own spelling.
* `uint128_emulated::divmod_signed` negates the least int64.
* `BufferSlices` does not have the uniqueness of a slice; `SharedSlice` has it. `SubscribedIsKept` asks that one of the two
  filters of a subscribed descriptor is in the list or in the kernel. An `add` from inside the callback of
  `OrderedEventsProcessor`, and its `clear`, are not modelled.

## 7. What is proved

**`HazardStress`**, for every number of threads, nodes and addresses: `TypeCorrect`;
`ProtectedIsLiveCorrect` (between the return of `protect()` and the next store to the slot the
object exists); `OwnedOnceCorrect` (every existing object is linked, in one thread's hands, or
in one `to_delete_`, and never in two places). Neither is inductive. `IInv` adds `AheadOK`: if a
protected object is in the `to_delete_` of a thread in the middle of a scan, it is not the
candidate of the scan, or the scan has not yet passed the slot that protects it. It holds
because `protect()` re-reads the pointer after its store: an object still linked then is retired
later, by a scan that starts later. `PassOK`, `LinkedOK`, `FreshOK`, `RetiredOK`, `HeldOK`,
`LiveOK` and `NoLeak` say which objects a thread at each place may hold. `BoundedGarbageCorrect`
(a thread outside `retire()` has at most `2 * (N - 1)` objects in its `to_delete_`) counts
*claims*: during a scan another thread has one on an unexamined object for what its slot holds
and one for what it has loaded and not yet stored, each of which may still make the scan keep
one object. `KeptOK`: kept objects and claims together are at most `2 * (N - 1)`. A step that
keeps an object spends the claim of the slot it has just read, a store moves a claim from the
loaded pointer to the slot, and no step makes a claim, because what is in `to_delete_` can no
longer be loaded.

**`QueueProofs`** about `MpscPollableQueue`, for every set of writers and number of values: `TypeCorrect`
(with it, that `reader_wait_nonblock` never comes to its `UNREACHABLE()`),
`WaitsForASignalCorrect` (a reader that was told to wait has its signal, or a writer is about to
give it), `ImplementsChannel` (`Spec => Channel!Spec`). `IInv` says who holds the lock at which
place (`LockOK`), that the third round never comes (`AgainOK`), that the reader swaps only when
it has nothing left (`VectorOK`), and that a writer under the lock has a value to put (`PutOK`).

**`QueueProofs`** about `PollQueue`, for every number of values, size of the rings, width of the
positions and number of tries: `PollHoldsCorrect` (types, with them that a slot of a ring is read
only after it was written, and `WaitsForASignal`: a reader in its wait has its event, or there is
nothing unread, unless the writer has not come to the end of a flush). `PollOK` asks that a ring
is smaller than what the positions count to, and `~IdleFlush` that the writer flushes only what it
has put: with idle flushes the statement is false (section 6). The invariant measures every
position of a block from the one the writer has last seen the reader at. From there the
published position of the reader, its own, the one it has seen of the writer, the published
and the own position of the writer follow each other (`OrderOK`, `RoomOK`), all within one ring, so
that wrapping does not change the order; `DistIs`, `UpIs` and `DistOrders` are the lemmas about
positions modulo their width. `DataOK`: an unwritten slot is one the writer has not come to, in its
first round. `ChainOK`: all blocks but the last are closed, and only the first and the last may be
empty. `SignalOK` is the argument against the lost signal. `TellsOK`: if a reader that is going to
wait has missed something, the event is there or the writer has not flushed it yet. `ToldOK`: if
the writer takes the reader for told (`wWait = waitState`), there is something unread, and the
event is there or the reader has taken it and is on a look that will find what it was for.
`PublishedOK`: a flush that began in the present wait and is past its publication has published
something; this is what an idle flush breaks.

**`StealingQueue`**, for every number of threads, size of the rings, set of items and whatever an
item makes: `StealingHoldsCorrect` (`Fits`: no queue holds more than its ring; `EachOnce`: an item
that was made is in one place, a queue between its head and tail, a thread's list or hand, the
global queue, or has been got, and once). What a thief has copied is in two places until its
compare_exchange of `head_` decides; the invariant counts it where the queue has it. `Thief`: as
long as `head_` is what the thief has read, what it has copied is still what the queue holds there.
It holds because the owner writes only at its tail, which is less than a ring ahead of `head_`, and
positions less than a ring apart have different slots (`ModEq`). The cardinality of the places of
an item changes with a step by at most one, and the invariant `EachOnce` itself says that the
places a step could confuse were empty. The hypothesis `StealingOK` is what the module asks of its
constants; under it `SyncProofs` has the same, for every value of the constants, of the instance with
several thieves in `MCSync` (`StealingHoldsCorrect`, of the specification that the run checks; `ThievesStay`).

**`SyncProofs`** about `EpochReclamation`, for every number of threads and rounds, every set of nodes and
every skip: `TypeCorrect`, `LoadedIsLiveCorrect` (what a locked thread loaded exists),
`EpochHeldBackCorrect`, `BagsOwnCorrect` (each node is linked, held, or in one bag of one
thread), `NothingLeftCorrect` and their conjunction `EpochHoldsCorrect`. The invariant is about
stamps. `StampOK`: what a thread publishes is not newer than `pin`, the epoch in which it did
so. `CheckedOK`: those a check has passed are idle or have published in the current epoch, so
that the epoch never is two ahead of a thread that is not idle (`EpochHeldBack`). `AgeOK` puts
the two together: of the three bags of a thread, the one a reader's node is in says how many
epochs that thread has published since the node was unlinked, and the bag that is cleared next
would need an epoch the reader holds back.

**`SyncProofs`** about the waiters, for every number of workers, writers and units of work, and
of the rounds of the eager waiter: `WaitersHoldCorrect`. Of `MpmcSleepyWaiter` it states
`StateCounts` (`state_` counts the parked and the searching threads in every state), `SlotChecks`
and `CloseChecks` (no CHECK of `wait()`, `stop_wait()` and `close()` fails) and `MainInvariant`
(while work is left and no writer is on its way to notify, some worker is not blocked); of
`MpmcEagerWaiter` its types and `NoLostWakeup`, spurious wake-ups included. `SleepOK`: a worker that
has gone to sleep is in `sleepers_`, or taken out by a notifier that will unpark it, or unparked,
and exactly one of the three. `MutexOK`: the list a notifier looked at under the mutex stays as it
is until it pops. `WorkOK` is the argument against the lost wake-up: work that is left has a
writer still inside `notify()`, or a worker that will look at the work again before it rests. The
hard step is the writer that returns because somebody is searching: by `StateCounts` that
somebody exists, and it has to take itself off `searching` with the same addition that puts it in
`parked`, after which it looks at the work once more. Of the
eager one `WorkOK` says that while untold work is left nobody is said to be asleep, and the worker
that has the claim has not looked in vain since it made it. The counting lemmas (`Joins`, `Leaves`, `Recount`, `Tally`) say how a list and
the cardinality of the searching threads change with one worker. The hypotheses `SleepyThreadsOK` and
`EagerThreadsOK` are that the threads are a finite, nonempty set of workers and a set of writers apart from it. That the
work published is at most what all writers publish is a sum over a set; it is proved by
counting the pairs of a writer and one of its units (`Units`, `UnitsGrow`).

**`MCPools`** about `AtomicRead`, for every number of readers, words and writes: `ReadsOneWrite`. The invariant
has two parts. `ValueInv`: while the version is even all words are of the last write; while it
is odd the words that are written are of the next. `ReaderInv`: as long as the version is the
one a reader began with, the words it has copied are of the write that had ended then. A version
that differs never comes back, because it only grows; so a reader that ends has copied under one
even version.

**`MCPools`** about `ObjectPool`, for every number of threads, storages and objects:
`ObjectsHoldCorrect` (a weak pointer that is alive reads its own object, and every storage is in
the free list or with one thread). `PoolOK` asks that one thread at most creates, as in
the code's own words, and that a null pointer is no storage. `OnList` is the free list, the least set
that `head` is in and `next` does not lead out of (`Below`). `CallOK` is the argument against the
ABA of a pop: only the thread that creates takes storages out of the list, so what it has read as
`head` is still on it, and the `next` it has read of that is the present one; a storage comes back
to the head only through a push of a thread that holds it. `PlacedOK`: no storage is at once on
the list and in a hand, or in two hands. `ListOK`: the list ends. `WeakOK`: a weak pointer of the
present generation has an owner and was taken from the object that is there.

**`MCPools`** about `SharedObjectPool` over `MpscLinkQueue`, for every number of threads, Raws and
allocations: `SharedHoldCorrect` (a SharedPtr refers to the object it was made for, the free queue
holds the freed Raws in the order of the pushes, and every Raw is referred to, on its way to the
queue, or on it, in one place only). `CountOK`: `ref_cnt_` is the number of pointers to a Raw and
of the assignments that will make one, each counted before it lets go of the old (`HeldBy`;
`RefsMove`, `CountIs` and `CountMove` say how the number follows a step). `AliveOK`: each of them is to
the object that is there, which nobody can destroy because its count is not zero. `WayOK` and
`FreeOK`: a Raw on its way to the queue belongs to one thread, and has no count; `SomewhereOK`:
a count of zero always puts it on that way or on the queue. `Shared!FreeIsFifo` cuts the freed Raws at
three places: what the reader has, what `add` has still to turn, what it has turned, what is on the
stack. The lists are functions of places (`Up`, `Down`), a step moves one cut or one end
(`PushFifo`, `ExchangeFifo`, `TurnFifo`, `LinkFifo`, `ReadFifo`), and so the reversal needs no induction:
the invariant of its loop is a part of the invariant of the system. The push needs no argument against the ABA:
`next_` of the node that is pushed is what the exchange compares with (`WayOK`), and what is under
it is not looked at. `PtrsOK` asks that a null pointer is no Raw and that the threads are finitely many.

**`MCPools`** about `ThreadLocals`, for every number of threads, slots and starts, when the counters
have more cells than there are threads: `LocalsHoldCorrect` (ids of running threads differ, a cell
is clean when a thread gets it, and the sum is near the counter). `IdsInv`: the ids up to
`max_thread_id_` are those of running threads and the unused ones. `CellsInv`: a cell nobody has is
zero, and one that somebody has is what he has counted. `SumInv` speaks of the function of
prefix sums of the cells (`Sums`), of which one change of a cell moves the later ones by one: what the
reader has summed is near the prefix it has passed, but for what was subtracted meanwhile. That the least
unused id is well defined (`LeastNumber`) is the well-foundedness of the naturals.

**`MCPools`** about `TsList` and `CancellationToken`, for every number of nodes, owners, sources,
tokens and flags: `LinksHoldCorrect` (the ring read either way round is the elements put and not yet
taken, in order, a node outside is linked to itself, and a CHECK fails only of one that `get()` has taken; a
token is uncancelled exactly while one source holds its flag, and sources share none). `IsRing` has
the nodes of the ring as a function of their places. `RingOut` and `RingIn` are `ListNode::remove`
and `put_unsafe` on it: the places behind the node move by one, and nothing else changes. Every operation of
the list is one or the other, and a move is both. `get()` comes at any time, so a node of the list that a thread
is working on may leave it before every step; `RemovesInv` keeps what survives that: the nodes are the thread's own,
the one a move goes to is in no list, and a failed CHECK is of a node outside. `TokenInv`: a flag is set exactly when it was made and
no source holds it.

**`SharedSlice`**, for every number of threads, blocks and writes: `SliceHoldsCorrect` (the
bytes under a shared slice are those it was made with, and the count of a block is the number of
slices of it). `UniqueOK` (who holds a unique slice holds the block alone) and `TurningOK` (a
thread that was told 1 by the count is the only holder of its block until it has turned its
slice) rest on the equality of `refs` with a cardinality; `Recount` and `Holders` are the lemmas
about it.

**`PolledSocket`**, for every poller, number of pieces and size of the kernel's buffer:
`SocketKeepsCorrect` (flags in `to_write` have a wake-up under way; on edge-triggered pollers a
sleeping owner without a wake-up has the flag for everything the kernel has ready; a close
without an error comes after everything was read). `EdgeOK` follows an edge from `ready` through
the event of the poll thread and `to_write` to the flags of the owner: what the kernel has is on
its way or in the flags. Once the owner has seen EAGAIN its flag, which is about to be cleared,
no longer counts: what the kernel got since is on its way, and survives because only what the
owner has read into its flags is cleared. `LockOK` says who may hold the lock of `PollFlags`,
`CloseOK` and `CountOK` which pieces were read at a close.

**`AtomicFile`**, for every number of writers, tries and crashes, when calls do not overlap
(`~Concurrent`; section 6 says what happens when they do): `AtomicWriteCorrect` (the path has
the whole data of one call, before and after a crash and whatever order the file system writes
back in, and a call that returns OK has put its own data there). This is an invariant and an
action property. `PathsOK`: the inodes the path names, in memory and on the disk, are whole in
memory and on the disk; `TmpOK`: the inode named `.tmp` is not one of them; `CallOK`: a call
past its sync has the whole data in the inode it is about to rename, on the disk too.

The assumptions are those of the modules' constants (a positive number of threads, "none",
"nobody" and the root are not addresses, threads or nodes, bounds are natural numbers, sets of
threads are finite where they are counted) and the hypotheses named above. Every inductive invariant was
checked by TLC on small instances first.

Only model-checked, and why:

* liveness of every component (`SyncFinishes`, `StreamsMove`, `FilesMove` and the like):
  fairness and ENABLED are beyond the prover;
* `Json`, `Tl`, `Conversions`, `Containers`, `EventOrders`, `Directories`, `ByteFlow`: what they
  compute is defined by recursion over strings, sequences or trees, and a proof would be an
  induction over data: the induction theorems of the library take an operator as a parameter,
  which no prover here can instantiate. (What is about a set of naturals can still be proved from
  the fact that it has a least element.) The same holds for `ChainBuffer` and `BufferSlices` as far as the reader's bytes are
  a concatenation over a chain;
* `MpmcQueue`: its safety fails with two writers (section 6);
* that `PollQueue` is a channel (the first conjunct of `QueuesMove`): what is unread is a
  concatenation over the chain, again an induction;
* `ConcurrentHashMap`, `FileLock`, `LogSinks` and the other sockets: within reach, not done.

## 8. What is left of the plan

1. Proofs: `ConcurrentHashMap`, `FileLock` (`OneHolder`), and `MpmcQueue` with one writer.
2. `destroy()` of the queues, `TlBufferParser`, `for_each` of the map beside insertions.
3. An `add` from inside the callback of `OrderedEventsProcessor`.

## 9. Not modelled, and why

* `crypto.cpp` beyond `pq_factorize`, `Random`, hash functions: what they compute is OpenSSL's or a
  mixing function with no property but its table.
* `unicode.cpp`, MIME types: generated tables of ranges; a model of a table is the table.
* `as<>`, `Slice`, `Status`, `Span`, `optional`, `unique_ptr` and other vocabulary types: one assignment each.
* Formatting, logging of text, options: text for people.
* `port/` wrappers of one system call (`Clocks`, `FileFd` reads and writes beyond the logs, `IPAddress`,
  `Stat`, `signals`, `wstring_convert`), `RwMutex`, `Context`: no state beside the system's.
* `gc()` of `MpmcQueue`: `retire()` without a node, which `HazardStress` has (`Gc`).
* Weak memory orders.
* The test runner and the generators of the build.
