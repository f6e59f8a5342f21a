# A TLA+ verification of ustevent

ustevent is a C++ library of fibers over threads: a `Context` runs handlers as
Boost fibers in one or several threads, other threads post work to it, and the
`net` part turns epoll events into blocking-looking stream operations. This
directory models its concurrent core, checks the models with TLC and proves
what matters most with TLAPS.

All paths below are relative to `src/src/ustevent/`.

## 1. Inventory

| Component | State | Operations | What is hard | What makes it correct |
|---|---|---|---|---|
| `MpscRingBuffer` (`core/detail`) | `_producer_barrier`, `_end`, `_consumer_barrier`, `Worker::_seen/_registered` | `acquire`, `produce`, `consume`, `release`, registering | lock-free, wraps, two locks in single bits, offsets that recur | ranges never overlap, nothing unwritten is read, nothing is skipped, assertions hold |
| `ContextTaskQueue`, `ContextOperation` | the ring, `_poped`, `_consumed`, a writer per thread | `push`, `pop`, deallocator, `doPerform` | records released later and elsewhere than they are popped; retry while full | a FIFO; each task once; records intact; pushes return |
| `Context` | `_strategies`, `_done`, `_done_cv`, `_barrier`, the queue | `run`, `post`, `dispatch`, `call`, `terminate` | push, notify, sleep and terminate in any order | no lost wakeup or termination; tasks run, in order |
| `ContextStrategy`, `BlockingContextStrategy` | `_ready_queue`, `_notified`, `_suspend_cv` | construction, `awakened`, `pick_next`, `suspend_until`, `notify`, stealing | stealing fibers of a running thread; being notified while under construction | pinned fibers stay; the scheduler never runs dry |
| `NetContext`, `MultiplexingContextStrategy` | the pending signal, `_signal_fd` in the epoll set | `run`, `onSuspended`, `onNotified` | a signal that is pending is not sent again, an edge comes once | no notification gets stuck |
| The waiting list (debug build), `FiberDebugInfo` | `_waiting_fibers_head/_tail`, links in the fibers | recording, erasing | fibers yield, end and are stolen in between | each list holds the fibers that wait for that thread |
| `BasicBarrier` | `_count`, `_generation` | `wait` | reuse, spurious wakeups | nobody early, nobody left behind |
| `BasicSemaphore` | `_atomic_count`, `_count` | `notify`, `reset`, `wait`, `waitUntil` | fast and slow path disagree for a while; timeouts; reset | no pass without a permit, no lost wakeup |
| `ListQueue`, `ListNodeAllocator`, `ObjectPool` | linked list, free list | `enqueue`, `dequeue`, allocate, return | lock-free exchange of the tail, free list shared with producers | FIFO, each node has one owner |
| `AppendOnlyArray` | buckets, `_size` | `emplace`, `at` | publication order, bucket arithmetic | an index below `size()` is constructed |
| `SpinMutex` | queue of waiting nodes | `lock`, `unlock` | hand-over in a queue lock | exclusion, hand-over |
| `ObjectScopedThreadLocalStorage` | indices, values per thread and object | `get`, return on thread or object death | either may die first; index reuse | each value returned once |
| `CallStack` | `_s_top` per thread | push, `contains` | frames that are gone | `isRunningInThis()` tells the truth |
| `EpollSelector`, `EventObject`, `EventOperation` | epoll set, semaphores per object, interruption flags | wait for events, notify, retry, time out, interrupt | edges that come once, timeouts racing events | an event is not lost; an interrupt reaches its operation |
| Streams, connections, `TcpSocket` | position in a buffer, flags of shutdown, descriptor | read and write, some or all; shutdown, close | partial transfers, shutdown and close at any time, descriptors used again | each byte once, in order; operations end; descriptors and registrations have one owner |
| `TcpDialer`, `TcpListener` | `_is_connecting`, socket, `_is_listening` | `connect`, `accept`, interrupt, close | a second connect while one is in progress; several connections in one edge | one attempt at a time; no connection forgotten |
| `IpAddress`, `TcpAddress` | bytes in network order | parsing, `toV6`, `toV4`, comparison, binding and reporting | two families, caller's buffers of any size | an address remains the one that was written |
| `Buffers`, wrappers, macros | - | - | - | - |

How they interact. Another thread calls `Context::post`: `ContextTaskQueue::push`
writes a record into the ring and `_notify(0)` wakes strategy 0. A strategy
thread that has no ready fiber is asked by Boost.Fiber to `suspend_until`: it
pops one record and makes a fiber of it, or sleeps in `onSuspended`: on a
condition variable, or in a `NetContext` in `epoll_wait`, which a signal ends. The fiber
moves the handler out of the ring, gives the record back and runs the handler,
which may itself post, dispatch (new fibers of the same thread) or terminate.
Idle strategies steal unpinned fibers of others. `run` first meets the other
threads at the barrier and then waits on `_done_cv` until `terminate`. In the
net part an event notifies a semaphore on which the fiber of an operation waits.

The hazards of the code, each at its line and with the properties that would
show it going wrong, are listed under `hazards` in `PROJECT.json`.

## 2. Modules

| Module | Models | Composed with |
|---|---|---|
| `MpscRingBuffer` | the ring, one action per access to shared memory | - |
| `TaskFifo` | what a queue promises (abstract) | - |
| `ContextTaskQueue` | `push`, `pop`, `doPerform` | extends `MpscRingBuffer`, implements `TaskFifo` |
| `Context` | `Context`, `ContextStrategy`, `BlockingContextStrategy` and, external, the fiber scheduler | uses what `ContextTaskQueue` shows |
| `NetContext` | `NetContext`, `MultiplexingContextStrategy`, the signal of `EpollSelector` | extends `Context`, in place of the blocking strategy |
| `WaitingList` | the list of waiting fibers of the debug build | - |
| `BasicBarrier` | the barrier of `run()` | its result is used by `Context` |
| `PermitCounter` | what a semaphore promises (abstract) | - |
| `BasicSemaphore` | the semaphore of threads and fibers | implements `PermitCounter` until a reset |
| `ListNodeAllocator` | nodes and free list of the linked lists | - |
| `ListQueue` | `SpscListQueue`, `SpmcListQueue` | extends `ListNodeAllocator`, implements `TaskFifo` |
| `ObjectPool` | the pool of objects | extends `ListNodeAllocator` |
| `AppendOnlyArray`, `SpinMutex`, `ThreadLocalStorage` | the class of the same name (`ObjectScopedThreadLocalStorage`) | - |
| `ReactorStream` | reading, writing, `shutdown()` and `interrupt()` of a connection down to `epoll_wait` | the semaphores are those of `PermitCounter` |
| `Sockets` | descriptors, registrations and notifiers of connections | - |
| `Dialer`, `Listener` | `TcpDialer`, `TcpListener` | - |
| `Addresses` | `IpAddress`, `TcpAddress`, the addresses of `TcpSocket` | - |
| `SocketsProofs`, `StreamProofs` | theorems | extend their component (`StreamProofs`: `ReactorStream`) |
| `ContextTaskQueueProofs` | theorems about the ring and the queue | extends `ContextTaskQueue` |
| `SynchronizationProofs` | theorems | extends `BasicBarrier` and `BasicSemaphore` |
| `ContextProofs` | theorems about `Context` and `NetContext` | extends `MCContext` |
| `ListProofs` | theorems about the nodes, the free list and the queue | extends `ListQueue` |
| `UtilitiesProofs` | theorems about the parts of `MCUtilities` | extends it, instantiates `ListProofs` for each queue and for the pool |
| `ConnectionsProofs` | theorems about the parts of `MCConnections` | extends it, instantiates `SocketsProofs` twice |
| `MCMpscRingBuffer` | the symmetry set | extends its component |
| `MCContextTaskQueue`, `MCContext`, `MCSynchronization`, `MCReactorStream`, `MCUtilities`, `MCConnections` | several instances side by side | extend or instantiate their components |

In the last row the initial state picks the part that runs, and the variables of
the others do not change. The parts share nothing, so that interleaving them
would show no more. Each property there is that of the component, of its part.
What the parts are instances of is given in the configuration or, where nothing is
proved about it, in the module.

### MpscRingBuffer

Variables have the names of the code's members (`producer_barrier`, `end`,
`consumer_barrier`, `seen`, `registered`); `next`, `size`, `c_next`, `c_ready`
are locals of `acquire()` and `consume()`. `acquire()` is `AcquireCall`,
`LoadNext` (`_getStableNext`), `LockSeen`, `CheckRoom`, `Swap`/`SwapFails`,
`UnlockSeen`, and when it wraps `SetEnd`, `UnlockNext`. `consume()` is
`ConsumeLoadNext`, one `ScanWorker` per worker (the code goes through them by
index; any order is allowed here), then `ConsumeWrap` and `ConsumeRewind`, which
start over, or `ConsumeReturn`. `cells` (who may touch each byte), `stale` and
`stale_cas` are history: they influence no step.

Offsets are numbers with one lock bit (`WRAP_LOCK_BIT`), as in the code. The
wrap counter is absent because in the code it is always 0:
`_setWrapCounter()` changes its own copy (finding 1 below).

### ContextTaskQueue and TaskFifo

`push()` is `PushCall`, the steps of `acquire()`, `PushWrite`, `PushProduce`,
with `PushRetry` when there is no room. `pop()` is `PopBuffered` inside a
consumed range, or `PopConsume` and `PopConsumed`. `DoPerform` is the fiber that
releases the record and runs the handler. A record is its owner, number and
length; the bytes of the buffer remember which record was written over them.
`Fifo` maps the records reserved and not performed to `TaskFifo`'s queue.

### Context

A fiber is a record: `Main` (the one that called `run()`), `Dispatcher` (the
library's), `Task(n)` for the n-th posted task, `Child(n)` and `Rest(n)` for
what its handler starts and for the handler itself after `dispatch()`. `spc` is
where a strategy thread is: from the barrier to the loop of the dispatcher
(`dispatch`, `look`, `suspend`, `on_suspended`, `asleep`) and back to a fiber
(`start`, `handler`, `tail`). `PickNext` takes the youngest fiber of the own
queue, `Steal` the oldest of another one if it is not pinned. `Terminate` and
`TerminateNotify` are separate because the flag is set under the lock and
`notify_all()` comes later.

`run()` makes its strategy in two steps: `Enter` is the constructor of the base
class, which makes the strategy known to all threads, and `Construct` the rest.
A notification in between may or may not end the program (`crashed`), and then
nothing happens any more; the properties are of runs that go on, and
`EveryPostRuns` is the one that does not except this (finding 4).

A handler may `Sleep`: its fiber waits, and when its time has come (`TimeComes`,
in the order of `due`) the thread wakes from its timed wait (`WakeUp`) and the
Dispatcher makes the fiber ready (`RemoteReady`). Real time is left out: any
sleeper may be the next.

`post()` on the own Context has a stray line, `Context.hpp:37`, naming a
function which does not exist; the model takes line 38, which repeats it with
the right name.

### NetContext

The steps of `Context`, except that the idle thread sleeps in `epoll_wait`.
`notified` is the signal pending for the thread, `edge` the signalfd in epoll's
list of ready descriptors, where it comes when the signal becomes pending
(`WithSignals`). `SelectSignal` takes it from there and `ReadSignal` takes the
signal away; `SelectTimeout` and `SelectOther` are the other ends of the wait.

### WaitingList

`Record` and `Erase` are `_recordBacktrace()` and `_eraseBacktrace()` as functions
of the links. The actions are the ways in which a fiber gives up its thread or
becomes ready: `Suspend`, `Yield`, `Terminate`, `StartPost`, `StartDispatch`,
`Awakened`, and the `Dispatcher` that steals. `waits` is history: who waits, in
which order.

### BasicBarrier, BasicSemaphore, PermitCounter

Each step under the mutex is one action; a blocked thread wakes by a
notification, spuriously, or (semaphore, `Impatient`) by timeout. The
semaphore's `fast_*` and `slow_*` variables are history. `Counter` maps the
initial count and `_atomic_count` to the permits of `PermitCounter`, and the
threads in `wait()` to its number of waiters: this is the semaphore that
`ReactorStream` builds on.

### ListNodeAllocator, ListQueue, ObjectPool

One action per access to `_tail`, `_head`, the free list and the links. `out` and
`node` are locals. `alloc()` holds the free list by leaving null in
`_free_list_tail`, looks at the successor, and either takes the node or puts it
back and makes a chunk (`AllocGrow`), whose rest it appends in two steps
(`AllocLink`, as `FreeExchange` and `FreeLink` of `free()`). `ListQueue` adds
`enqueueSp()`, and `dequeueSc()`, `dequeueMc()` and `dequeueMcWeak()` of several
consumers; its values are numbered in the order they enter.

### AppendOnlyArray, SpinMutex, ThreadLocalStorage

`emplace()` is `EmplaceIndex` to `EmplacePublish`; two threads may both allocate a
bucket, and one discards its own. `SpinMutex` is one lock with one node per
thread. In `ThreadLocalStorage` what the code does under `s_mutex` is one action;
`returns` counts how often each value went to the return function.

### ReactorStream

`pc` of a direction is where the operation in `EventOperation::perform()` is:
`is_open`, `try` (the system call), `suspend` (about to take the semaphore),
`wait`. One fiber per direction, one thread: fibers switch only in a wait, and
`Select` runs when none is ready. `pending` says that epoll will report the
descriptor at the next `epoll_wait`, once for all that has happened since
(edge-triggered). The peer sends, reads and closes at any time; `shutdown()` and
`interrupt()` come from another thread. Bytes are numbered, so that the buffer
shows which of them a read stored where.

### Sockets, Dialer, Listener

`Sockets` has the kernel's table of descriptors and epoll's list of interest as
external state, and follows what `EventObject`, `TcpSocket` and their
destructors, moves and error paths do to them. `Dialer` is `connect()` with its
`finally`, between threads that share the dialer, and `interrupt()`. `Listener` is
`accept()` in the fibers of one thread, with the two counters of the semaphore;
its calls are single steps here, since `BasicSemaphore` has them in detail.

### Addresses

An address is its family and bytes. A caller parses or makes one, converts it,
gives it to a socket and reads it back; buffers of the caller have any size
around the limits. `Undefined` is what `toV4()` may leave when it copies beyond its
result; nothing is claimed of it. `host` and `port` are history: what the caller
wrote.

### Properties

Each module defines the promises of its component one by one, and joins those
that hold in the same states into an invariant with `Inv` in its name:
`BytesInv` (who may touch the bytes of the ring), `RecordsInv` (popped records
are intact, both cursors agree), `BarrierInv`, `SemaphoreInv`, `ContextInv`,
`PickNextFindsAll`, `NetInv`, `PoolInv`, `ArrayInv`, `MutexInv`, `StorageInv`,
`WaitingInv`, `AddressInv`, `StreamInv`, `ConnectionsInv`, `SocketsInv`, `DialerInv`,
`ListenerInv`, `NoConnectionIsMissed` (a listener with one acceptor: it does not wait
beside a connection), and `AssertionsHold` for the assertions of the ring. The parts
are defined above the conjunction, each with its comment; they are the names used below.

### Faulty variants

Before some definitions stands a variant of it with a comment "Faulty: ...". No
action uses it. It is the definition as a plausible slip in the code would make
it, and putting it in the definition's place makes the property it is listed
with fail: evidence that the property speaks about the code.

## 3. Runs

| Run | Instance | Shows |
|---|---|---|
| `ring_two` | 2 producers, 6 bytes, ranges of 2 and 3, unbounded laps | reserved, published and consumed ranges never overlap wrongly, nothing is skipped, the code's assertions hold, and the inductive invariant holds |
| `queue_two` | large: 2 producers, 6 bytes, records of 2 and 3, 2 pushes each; small: records of 2 | large: the queue is the FIFO until a stale swap, popped records are intact, both cursors agree; small: every task begun is performed |
| `queue_stale_swap` | 2 producers, 5 bytes, 3 pushes each | violation: finding 1 |
| `synchronization` | barrier: 4 threads, 3 rounds; semaphore: 2 waiters (1 impatient) and 2 notifiers, 2 calls each, 1 permit at first, 1 reset; `ListQueue`: 2 consumers, 4 values; `AppendOnlyArray`: 2 writers, 2 elements each | nobody passes early, everybody passes; no pass without a permit, no stranded permit, one counter of permits, and every wait returns when none times out and nobody resets; every value is dequeued, every element published |
| `context` | 1 strategy thread, blocking or in a NetContext; 2 posters, 2 tasks, handlers that sleep | no lost wakeup, no signal stays unseen, order, tasks run, terminate ends `run()` |
| `context_two` | 2 strategies, 1 poster, 2 tasks | no lost termination, no dry scheduler, strategies exist before they are looked at |
| `context_double_pop` | 2 strategies, 1 poster, 1 task of 2 bytes | violation: finding 2 |
| `context_window` | 1 strategy, 1 poster, 1 task | violation: finding 4 |
| `utilities` | `ListQueue` with 2 consumers and 5 values, and with 1 and 6; a pool of 3 threads; 2 writers of 3 elements and a reader; 3 threads at the `SpinMutex`, 2 locks each; 2 threads and 3 objects with values; 2 waiting lists and 3 fibers; 7 hosts, 4 ports and buffers of 6 sizes | FIFO and false means empty; a node is given out once; published elements are complete; exclusion; values are returned once and never seen by another object; the list has those that wait; addresses keep their meaning |
| `streams` | reading: 3 bytes, 2 calls of size 2, timeouts; writing: one call of size 2 into a buffer of 1 | no input event is lost, reads count their bytes, a shutdown ends the operations |
| `connections` | descriptors: 1 thread with 5 sockets on 3 descriptors, 2 threads with 4 on 2; dialer: 2 callers, 2 calls each, 2 interrupts; listener: 1 fiber and 4 connections, 3 fibers and 3 connections | open connections keep descriptor and registration, nothing leaks; one attempt at a time; no connection is missed, `close()` ends `accept()` |
| `stream_read_all` | one `read()` of 2 bytes after the other | violation: finding 3 |

Why the bounds are enough. In the ring everything turns on where a range ends relative
to the end of the buffer and to the consumer: sizes 2 and 3 in 6 bytes give ranges that
end before, at and after the end at every offset, a full and an empty ring in each lap,
and two producers of which one wraps while the other holds a range of the old lap. The
number of laps is unbounded. `ring_two` is followed only up to a stale swap
(`NoStaleSwap`), which is what the properties assume; `queue_two` goes on after it (its
four records are 8 to 12 bytes in 6, so that it does happen), and its properties are of
what comes before. Two waiters and two notifiers are needed for each race of the
semaphore, and a second call of each for reuse. Four threads and three rounds let a
thread of the barrier be a round ahead of two others. One strategy thread with two
posters has every order of push, notify and sleep, and two tasks let one handler sleep
while the other is posted; two strategy threads are needed for stealing and for
`notify_all`. `context_two` stops (`NotOverReleased`) where a record has been released
twice (finding 2), because the model of the queue does not say what the ring does from
there. In `Context` the ring does not wrap (`FirstLapAssumption`): wrapping is the
subject of the modules below it.

In the list queue a node must be dequeued, freed and enqueued again while another thread
still looks at it: chunks of 2 or 3 nodes and 5 or 6 values give several such rounds,
with two consumers contending for the tail. Three elements use two buckets, and the
first of the second one is what two writers race for. A lock needs three threads to have
one in front of and one behind a thread that comes. The storage needs two objects after
each other with one index, and a third to empty the vectors. Three fibers that wait for
one thread have one in the middle of its list, and a second thread can steal it as soon
as it is ready. The hosts are two IPv4 addresses, the mapped form of one, and IPv6
addresses that have one byte of that prefix wrong or several; the ports show the order
of their bytes. A read of 2 bytes that come as 1 and 2 has a partial transfer and one
beyond it; the writer blocks after one byte. Two descriptors for four sockets are used
again while their last owners are being destroyed.

Deadlock checking is off where the system may stop: all threads have made their
bounded calls, or sleep with nothing to do; a thread may wait for ever in
`SpinMutex` (see below); a ring may be stuck after a stale swap.

### Fairness

Weak fairness of every thread that is not blocked: the operating system runs it.
Handlers return, and the time of one that sleeps comes. Nobody has to post, call
or terminate, and no socket of a NetContext has to have an event. In
`synchronization` all threads come to the barrier, the notifiers of the semaphore
make all their calls, the producer of `ListQueue` enqueues all its values while
somebody tries to dequeue, and the writers of `AppendOnlyArray` append all their
elements. In `streams` the thread of the Context runs and a
`shutdown()` that was begun goes on; the peer does what it likes and a timeout
need not come. Strong fairness is assumed of:

- `PushSwap`: the step is enabled only while the barrier still has the value
  read; a `compare_exchange_weak` does not fail spuriously for ever, and a
  producer is not overtaken every time, with finitely many pushes;
- `ScanWorker` of a worker: `_getStableSeen()` re-reads a word that a producer
  which retries locks and unlocks again and again; it is assumed not to read the
  locked value every time;
- `AcceptStep` of the fiber that serves: a fiber that is ready gets the thread in
  its turn, and only finitely many others (interrupts, `close()`) come before it.

## 4. Proofs

All constants are arbitrary, subject to the named assumptions: those of the modules,
and those that a theorem states itself. Each theorem is about the behaviours of a
specification without fairness. Where components stand side by side in an MC module,
most theorems say the same of the component alone and of that module, whose property
the run checks: a step of the module is a step of the part that runs.

**`ContextTaskQueueProofs`**, first of the ring (any set of producers, any capacity
above 0, sizes up to the capacity, the lock bit above all offsets, the markers of
`cells` distinct from producers). `RingInv` says that until the first stale swap there
is a `stop` for which `Core(stop)` holds. `Shape(stop)` is the heart: the bytes in use
are those from `consumer_barrier` to the next free offset or, when that is behind the
consumer, up to `stop` and from 0 on. `stop` cannot simply be `end`: between the swap
that wraps and `SetEnd`, and between `ConsumeWrap` and `ConsumeRewind`, `end` does not
tell. `ProducersInv` says what `_seen` reveals and that room once checked stays until a
swap that is not stale; `ScanInv` that a worker the consumer has already looked at
cannot hold a range below the value it is about to return without being accounted for.
There is a lemma per action; from the invariant follow

- `BytesSafety`: reserved bytes have one owner, consumed ones are written, and
  nothing is skipped;
- `Assertions`: the code's `assert`s about barriers and `_end` hold;
- `SwapSafety`: every swap that is not stale reserves free bytes only;
- `OneProducerSafety`: with one producer no swap is stale, so this holds without
  a condition.

Then of the queue (the same; records of any of the sizes). The bytes of the ring say
nothing of the order of the records, and the order nothing of the bytes. `QueueInv`
joins them: until the first stale swap there are a `stop` as before and a function `at`,
the offset that the swap of each record found, with `QueueCore(stop, at)`. The records
that are reserved and not performed lie one behind the other from the consumer's barrier
to the next free offset (`LayoutInv`), each is written and published or belongs to a
thread that has yet to do so (`ContentInv`), and every offset at which `consume()` may
stop is one between two records (`EdgesInv`). `at` exists and is not computed: a
function of the sequence of records would need an induction over it.

- `QueueInvariant`: `QueueInv` holds;
- `RecordsSafety`: both cursors agree, and a record that was popped stays as it was
  written until it is released;
- `FifoRefinement`: until the first stale swap every step is one of `TaskFifo` or
  leaves it as it is: each record is performed once, in the order of the swaps;
- `OneThreadFifo`: with one posting thread the queue implements `TaskFifo` without a
  condition.

**`SynchronizationProofs`** (barrier: any finite non-empty set of threads, any number
of rounds). `GenerationsInv` is inductive: it counts the threads that arrived in this
generation (`CountsArrivals`) and says that a thread inside came in this generation
or in the one before (`Rounds`). `BarrierSafety`: nobody returns from the k-th wait
before all have called it.

The semaphore (any finite sets of waiters and notifiers, any initial count):
`SemaphoreInv` is inductive and has three parts. `BoundsInv` bounds each path
by its own permits; timeouts and resets only lower the counters. `CountsAgree` says
that until the first reset `_atomic_count` below zero is `_count` plus what the
notifiers are about to add, less the waits on the slow path: this needs the number of
threads at a place, hence `ThreadsAreFinite`. `EnoughAreAwake` says that `_count`
never exceeds the threads that look at it without being woken and the wakeups on
their way, unless nobody is blocked or `notify_all()` comes. From it follow

- `SemaphoreSafety`: no more waits succeed than permits exist;
- `StrandedPermitSafety`: no permit lies beside a blocked thread;
- `CounterRefinement`: until the first reset every step is one of `PermitCounter` or
  leaves it as it is. `EnoughAreAwake` is not enough for this: that a wait on the
  slow path does not overtake a permit is `CountsAgree`.

**`ContextProofs`** (any number of threads and posters, tasks within the first lap,
blocking or polling). `SleepInv` is inductive. Besides the types it has
`Registered` (a thread that has begun is in `_strategies`, and all have begun once
one is past the barrier), `SchedulerInv` (the Dispatcher is ready while another
fiber runs, and suspends only when none is), `WakeupInv` (from the failing `pop()`
on, a task that is there comes with a notification) and `TerminationInv` (a main
fiber that `notify_all()` handed over is looked at, or its thread is notified).
The wakeup is claimed where the thread sleeps, but broken earlier: hence the
invariant begins at `on_suspended`. From it follow

- `WakeupSafety`: thread 0 never sleeps beside a task without a notification;
- `TerminationSafety`: after `terminate()` no thread sleeps without one;
- `PickNextSafety`: `pick_next()` finds the strategies of all threads, and a
  fiber to switch to, whatever is stolen.

They hold with finding 2 too: none of them relies on a record being popped once.

The same of a `NetContext`, whose threads sleep in `epoll_wait()`: the steps of the
selector keep `SleepInv`, and for all others the lemmas above are used as they are,
since a step with signals is a step of `Context`. `SignalInv` adds to `SignalsArrive`
that a signal about to be read has no event left: otherwise reading it would leave an
event without a signal.

- `SignalsSafety`: no signal stays pending without an event that has it read;
- `NetContextSafety`: what `WakeupSafety`, `TerminationSafety` and `PickNextSafety`
  say, of a `NetContext`.

With one thread, of either kind, `OrderInv` is inductive too: `pop()` is called only
when nothing is ready, hence one fiber at most is between `pop()` and `release()`, and
it is that of the record popped last.

- `OrderSafety`: handlers begin in the order of the posts, each once, and `release()`
  stays behind `pop()`. With two threads this is false (finding 2).

**`ListProofs`** (any threads, any number of nodes and values, chunks of two nodes or
more: of one, `alloc()` would take the address of a node beyond it). The free list is a
sequence of nodes that exists and is not computed: a recursive function that walks along
the links could not be proved about.

The allocator. `FreeListInv` is inductive: there is a `list` for which
`IsFreeList(list)` holds. Its nodes are different, none is out or in a hand
(`OnePlace`), and every node that was made is somewhere (`SomePlace`). A link may lag
behind the list: a node that was put behind `_free_list_head` is not linked in yet while
a thread is between `FreeExchange` and `FreeLink` or has a chunk to append.
`LinksAreDue` says that each link that lags is what one of the threads will write next,
and `LinksLead` that all others lead to the next node. `ListEnds` says which node the
tail and the head are while a thread holds the tail. There is a lemma per step, stated
of the allocator's steps alone, and lemmas (`OutsideKeeps`, `GiveBackKeeps`,
`OutIsLeftAlone`) for what the structure above may do with nodes that are out.

The queue. `QueueInd` is inductive: besides `FreeListInv` there is a sequence `q`, from
the dummy to the last node, for which `IsQueue(q)` holds. Its nodes are out and linked one
after the other (`QueueLinks`), their values are those that entered and were not taken, in
that order (`ValuesInOrder`), and `_tail` is the first of them unless a consumer has it
(`QueueEnds`); who has a node that is in no list is in `QueueOwn`. `_head` is the last
node except while the producer is about to move it: then the node it still names
may have been dequeued and freed by a consumer. This harms nothing,
since only the producer reads `_head`, and the invariant had to leave it out.

- `ListQueueSafety`: `QueueInd` holds, a `dequeue()` that finds no successor of the
  dummy has found an empty queue, and the queue implements `TaskFifo`.

**`UtilitiesProofs`** has seven parts.

- `MutexSafety` (any threads but the value that stands for none). That the threads in
  line form one line is not visible in the links, which are set one after the other.
  `LockInv` says that as long as it is somebody's turn, or nobody is there (`LineMoves`),
  the threads have an order (`LineOrder`) with which all links agree: the owner is first
  and `_tail` last. A line that `unlock()` has left stopped (section 5) never moves again,
  and of it only `LineHolds` is claimed: one thread at most has its turn.
- `StorageSafety` (any threads; any numbers of objects and values). `IndicesHold`: an
  index belongs to one living object or is available once; `GettersHold`: what a thread
  in `get()` relies on; `ValuesHold`: each value that was not returned is in the slot of
  its object in its thread, also between the two assignments that put it there. That the
  last object finds the vectors as long as the indices is a count: the indices of the
  others would not fit into fewer.
- `WaitingSafety` (any threads and fibers; the marks of main fibers and of list heads are
  no fibers). `PlacesHold`: a fiber runs, is ready or waits, in one place of one thread;
  `LinksHold`: the links are those of the sequence of the waiting ones. A fiber that is
  recorded twice or erased by two threads would break the first.
- `AddressSafety` (hosts of four and sixteen bytes, ports of sixteen bits). `AddressInd`:
  what is held or bound means the host, and its port is in network order. The
  lemmas about the prefix of mapped addresses (`MappedOfV4`, `V4OfMapped`,
  `SameMeansSame`) say that it can be added and taken off, and that `operator==()`
  compares what the addresses mean, for all of them.
- `QueueSafety`, `QueueIsFifo` state `ListQueueSafety` for the two instances of the run
  and for their composition. The variables of the queue are shared by the part with two
  consumers and the part with one, and `ImplementsFifo` is stated with the bound of the
  second; that this bound is not the smaller one (`QueueValues <= SingleValues`) is
  assumed for the composition.
- `PoolSafety` (any threads, any size of the chunks and number of nodes). `PoolInd` is
  `FreeListInv` and that the nodes out are those of the objects in use, those of the threads
  that have just been given one, and the dummy, which the pool leaves alone.
  `EveryNodeIsSomewhere` follows the links, and those that a thread has yet to store, from
  the tail of the free list; `PoolWalk` shows that these nodes are those of `list`.
- `ArraySafety` (any writers, readers and number of buckets). `TwofoldIs` shows that the
  powers of two exist, `PlaceOf` and `PlacesDiffer` that each index has one place in one
  bucket and no other index has it. `ArrayInd`: installed buckets are different
  allocations of the right size (`BucketsHold`); a writer has an index that is not
  published and that no other writer has (`NumbersHold`); the bucket that a writer
  allocated is nobody else's until it is installed (`OwnBucketsHold`), so that
  installing it hides no element; and what was assigned is where `at()` looks for it
  (`ElementsHold`).

**`SocketsProofs`, `ConnectionsProofs`** (any numbers of sockets and descriptors, any
threads). `SocketInd` is inductive whoever closes: each socket, each notifier and each
descriptor that is open has one owner (`OneOwner`, `NotifiersAreOwned`,
`FilesAreOwned`), and a registration points to a notifier in use that watches it
(`InterestIsLive`). The pool has a notifier for whoever needs one because there are as
many as sockets. For one thread that leaves `close()` to destructors, `OneThreadInd`
follows a destructor through its two closes and the deregistration in between.

- `SocketsSafety`: epoll leads to notifiers in use only, and no descriptor leaks;
- `ConnectionsSafety`: in one thread, a connection keeps its descriptor and its
  registration;
- `DialerSafety` (any callers): an attempt is alone as long as none meets another, and
  the dialer is ready for the next after each;
- `ConnectionsCount` (any acceptors, whoever closes): every connection is accepted once,
  lost with an error, or in the backlog;
- `ListenerSafety` (closed in the thread of the acceptors): an `accept()` has the
  listener it uses. With another thread that closes it has not (section 5);
- `OneAcceptorSafety`: one acceptor that does not time out is not left beside a
  connection. Two acceptors can be (section 5).
- `ServerSafety` (any number of connections and interrupts): the same of a fiber that
  accepts again and again until it is closed. `ServingInd` ties the state of the
  listener to where `close()` is, and the two counters of the semaphore to whether the
  fiber waits.

**`StreamProofs`** (any sizes, operations, calls, timeouts and interrupts).

- `StreamSafety`: a reader does not wait beside input that nobody will report, as long
  as no wait has timed out, and a read counts its bytes. The reason is in `StreamInd`: a
  fiber that has looked at the socket holds the thread until it waits (`ThreadIsHeld`),
  so that `select()` cannot take the edge in between.

The provers here cannot use an induction theorem. `LeastExists` (a set of numbers has a
least one, from the facts about finite sets) takes its place: the least counterexample
of a statement about all numbers is not 0 and its predecessor is none. In this way
`TwofoldIs` shows that the recursive function it is about exists, and `PoolWalk` follows
the free list.

Only model-checked:

- everything temporal with fairness (`BegunTasksArePerformed`,
  `EverybodyLeavesBarrier`, `EverybodyPassesSemaphore`, `PostedTasksRun`,
  `TerminateEndsRun`, `EverythingIsTaken`, `EverythingIsPublished`, `ReadGoesOn`,
  `ShutdownEndsOperations`, `EveryConnectionIsAccepted`, `CloseEndsAccept`): liveness
  and `ENABLED` are outside this prover.

Every invariant and every action property of the passing runs, and each refinement, is
stated by a theorem above.

## 5. Findings

1. **Stale swap** (`queue_stale_swap`). `MpscRingBuffer.h:114`:
   `_setWrapCounter()` takes the offset by value, so the counter that is to make
   an offset of one lap differ from the same offset of the next is lost. A
   producer that is delayed between its check and its `compare_exchange_weak`
   while the ring goes round succeeds on the old value and reserves bytes in
   use. The comment in `acquire()` promises "We cannot go beyond the
   _consumer_barrier offset or catch up with it." What follows is worse than a
   shared byte: with 7 bytes and two pushes by each of two threads the task at
   the beginning of the ring is stepped over, a later one is performed in its
   place, and the consumer's barrier leaves the buffer (`ImplementsFifo` without
   its condition fails). A real ring is much larger than its records, so the
   delay needed is a lap of many records.
2. **Double pop** (`context_double_pop`). All threads of a Context pop through
   one cursor made for a single consumer. A thread that pops before the fiber of
   the record popped by another has started gets the same record again: the
   handler runs twice and `assert(released_written <= _capacity)` in `release()`
   can fail. `PerformedInOrder` and the queue's properties are therefore claimed
   for one strategy thread.
3. **`read()` forgets its position** (`stream_read_all`).
   `ReactorSyncReadStream.hpp:79`: the lambda that receives has copies of
   `next_buffer` and `next_size`. After a partial read the next bytes go to the
   beginning of the buffer again, and as many as the whole size may come.
   `write()` copies `next_data` likewise (`ReactorSyncWriteStream.hpp:79`) and
   sends the beginning of the data once more.

4. **Notified before it is constructed** (`context_window`).
   `ContextStrategy.cpp:18` enters the strategy in `_strategies` in the constructor
   of the base class; `Context::_notify()` calls its virtual `onNotified()`, which is
   still pure then, or uses the members of the derived class before they exist.
   The tests start `run()` in a thread and post at once (`TestContext.cpp:21`, `26`)
   and expect all handlers to have run (`37`).

Observed while modelling. The models have these behaviours; the properties are
stated so that they do not depend on them.

- Semaphore: a `waitUntil()` that times out leaves the count one lower, and a
  later notification pays for it. In `EventOperation.hpp:61` this means that a read
  after one that timed out can sleep through the event of its data. `reset()` with
  blocked waiters forgets them.
- Context: a `call()` overtaken by `terminate()` never returns; only strategy 0 is
  notified of a post; a record of more than half the capacity may never find room.
- `EpollSelector.cpp:69` (`else if`): one edge for input and output notifies the
  reader only; a writer waiting for space can sleep on beside a writable socket.
- `EpollSelector.cpp:67`: one edge of a listener is one notification, however many
  connections it stands for: of two fibers in `accept()` one can sleep beside a
  connection. `close()` notifies once and leaves the second one waiting.
- `TcpListener.cpp:231`: a `close()` from another thread takes the socket and the
  address away under an `accept()` (`RemoteClose = TRUE` in `Listener`).
- `TcpSocket.cpp:110`: `close()` keeps the descriptor when it succeeds, and the
  destructors close the number again. `KeepsItsDescriptor` is of connections that
  are destroyed without `close()`.
- `EventObject.hpp:26`: the destructor closes the descriptor before it deregisters
  it; a second thread that gets the number in between loses its registration.
  `StaysRegistered` is of one thread.
- `TcpDialer.cpp:76`: a `connect()` that loses the race returns neither an error
  nor a connection, and resets the flag of the one in progress.
  `TcpSocket.cpp:171`: `SO_ERROR` is 0 during the handshake, so that `connect()`
  returns before it has ended. `TcpDialer.cpp:240`: `interrupt()` may meet a socket
  that has no notifier.
- `interrupt()` of a stream sets the flag of an operation of its own; the waiting
  one is notified, finds its own flag unset and tries again. A `read()` that has
  waited returns `EAGAIN` at the end of the stream (`TcpSocket.cpp:289`).
- `SpinMutex::unlock()` does nothing when a successor is queued already: the
  successor spins for ever. `MutualExclusion` is what is left.
- `IpAddress.cpp:244` and `259`: `toV4()` copies the 16 bytes of an IPv6 address,
  from its last four on, into the 4 of an IPv4 address.
- `IpAddress.cpp:97`: `string()` returns a view of an array of its own frame.
- `AppendOnlyArray.h:12` says at most 2^33 - 1 elements; the 32 buckets hold
  2^32 - 1, and `emplace()` does not check.

## 6. Abstractions and what is left out

- Memory is sequentially consistent. The orders in the code are acquire/release
  around the barriers and `_seen`; reorderings they allow are not modelled.
- Registering a worker stores `_seen` and then `_registered`; the model takes
  both at once. A failing `acquire()` gives its worker back in the step that
  finds out.
- Boost.Fiber is external: its dispatcher loop, remote ready queue and condition
  variables are modelled from how `ContextStrategy` uses them.
- A handler does at most one of post, dispatch, sleep, terminate; `terminate()` is
  called once. What threads do with a Context after `run()` has returned, its
  destruction, and the fibers left over then, are not modelled: `CallStack` keeps
  a pointer into a frame that is gone and `~Context()` does not wait for the threads
  in `run()`, so that what happens there is undefined.
- Each producer of the ring has a worker of its own. `MpscRingBuffer.cpp:36` does
  not check that there are enough.
- A thread has one `NetContext` at a time, which its constructor checks
  (`NetContext.cpp:23`).
- Contention on mutexes: a critical section is one step.
- `ListQueue::enqueueMp()` is left out: it does not compile. The list of chunks,
  which only the destructor reads, is left out.
- `EpollSelector.cpp:179` calls `allocate()` of a pool whose function is `alloc()`;
  the model takes it as that.
- The kernel (descriptors, epoll, the TCP peer and handshake) is external. Errors
  of a socket other than its end are left out. Names, scopes and `string()` of
  addresses are left out; so are `listen()` and the options of a socket, which keep
  nothing that the library reads. Following a null
  pointer is not modelled beyond the state in which it would happen.
- Everything marked not_modelled in `PROJECT.json`, with its reason there.

## 7. Plan

1. `TypeOK` of the parts that no invariant includes, as theorems of their own.
2. The end of a Context: `CallStack`, destruction, and the workers of a ring when
   threads come and go, as far as the code defines what happens.
3. Memory orders: which of the steps that are atomic here rest on more than
   acquire and release.
