---------------------------- MODULE MCUtilities ----------------------------
(***************************************************************************)
(* The containers and the storage of core/concurrency and core/detail, the *)
(* waiting lists of the strategies and the addresses of net/, which stand  *)
(* for themselves, side by side.  They share nothing, so that an           *)
(* interleaving of two of them shows no more than each alone: the initial  *)
(* state picks the part that runs.  Variables of the same name, as pc, are *)
(* those of that part; the variables of the others stay Absent.            *)
(***************************************************************************)
EXTENDS Integers, Sequences

CONSTANTS
    Threads, MaxLocks,                  \* of SpinMutex; ListQueue and ObjectPool have the same threads
    Producer, Consumer,                 \* ListQueue: two of them
    QueueChunk, QueueNodes, QueueValues,        \* with several consumers
    SingleChunk, SingleNodes, SingleValues,     \* with one
    PoolChunk, PoolNodes,               \* ObjectPool
    Writers, Readers, MaxElements,      \* AppendOnlyArray
    Buckets,
    Users, MaxObjects, MaxValues,       \* ThreadLocalStorage: threads that use the objects
    Strategies, Workers,                \* WaitingList: threads and fibers
    V4Hosts, V6Hosts, Ports, Sizes,     \* Addresses
    NULL

VARIABLES
    part,                                                   \* what runs
    pc, tail,
    link, free_head, free_tail, created, node, succ, out,   \* lists
    head, data, entered, taken,                             \* ListQueue
    objects,                                                \* ObjectPool
    next_index, size, array, memory, calls, index, bucket,  \* AppendOnlyArray
    appended, read,
    locked, next, prev, locks,                              \* SpinMutex
    s_id, s_available, s_owners, s_thread_locals, alive,    \* ThreadLocalStorage
    my_index, slots, object, made, owner_of, returns,
    running, queue, waits, woken, started, last,            \* WaitingList
    host, port, ip, tcp, fd, bound, answer                  \* Addresses

nodeGroup == <<link, free_head, free_tail, created, node, succ, out>>
queueGroup == <<head, data, entered, taken>>
arrayGroup == <<next_index, size, array, memory, calls, index, bucket, appended, read>>
mutexGroup == <<locked, next, prev, locks>>
storageGroup == <<s_id, s_available, s_owners, s_thread_locals, alive, my_index, slots,
                  object, made, owner_of, returns>>
waitingGroup == <<running, queue, waits, woken, started, last>>
addressGroup == <<host, port, ip, tcp, fd, bound, answer>>
pairGroup == <<waitingGroup, addressGroup>>
vars == <<part, pc, tail, nodeGroup, queueGroup, objects, arrayGroup, mutexGroup, storageGroup,
          pairGroup>>

-----------------------------------------------------------------------------
\* One producer, the others are consumers; nodes are made in chunks and used
\* again.
Queue == INSTANCE ListQueue
            WITH AllocSize <- QueueChunk, MaxNodes <- QueueNodes, MaxValues <- QueueValues

\* One consumer, which may use dequeueSc().
Single == INSTANCE ListQueue
            WITH Threads <- {Producer, Consumer}, AllocSize <- SingleChunk,
                 MaxNodes <- SingleNodes, MaxValues <- SingleValues

Pool == INSTANCE ObjectPool WITH AllocSize <- PoolChunk, MaxNodes <- PoolNodes

\* Writers race for the first buckets while readers look at what is published.
Array == INSTANCE AppendOnlyArray WITH MaxCalls <- MaxElements

Mutex == INSTANCE SpinMutex

\* Objects and threads that come and go.
Storage == INSTANCE ThreadLocalStorage WITH Threads <- Users

-----------------------------------------------------------------------------
Absent == <<>>

\* Fibers of these threads that yield, wait, end and are stolen.
Waiting == INSTANCE WaitingList WITH Pinned <- "pinned", NULL <- Absent

Loopback == <<127, 0, 0, 1>>
Zeros(n) == [i \in 1..n |-> 0]

\* Addresses that are mapped, nearly mapped and not mapped.
SomeV4Hosts == {Loopback, Zeros(4)}
SomeV6Hosts == {Zeros(16), Zeros(10) \o <<255, 255>> \o Loopback,
                Zeros(10) \o <<255, 254>> \o Loopback,
                <<1>> \o Zeros(9) \o <<255, 255>> \o Loopback,
                Zeros(12) \o Loopback}

Address == INSTANCE Addresses

NoNodes ==
    /\ link = Absent /\ free_head = Absent /\ free_tail = Absent /\ created = Absent
    /\ node = Absent /\ succ = Absent /\ out = Absent
NoQueue == head = Absent /\ data = Absent /\ entered = Absent /\ taken = Absent
NoObjects == objects = Absent
NoArray ==
    /\ next_index = Absent /\ size = 0 /\ array = Absent /\ memory = Absent /\ calls = Absent
    /\ index = Absent /\ bucket = Absent /\ appended = Absent /\ read = Absent
NoMutex == locked = Absent /\ next = Absent /\ prev = Absent /\ locks = Absent
NoStorage ==
    /\ s_id = Absent /\ s_available = Absent /\ s_owners = Absent /\ s_thread_locals = Absent
    /\ alive = Absent /\ my_index = Absent /\ slots = Absent /\ object = Absent
    /\ made = Absent /\ owner_of = Absent /\ returns = Absent
NoWaiting ==
    /\ running = Absent /\ queue = Absent /\ waits = Absent /\ woken = Absent
    /\ started = Absent /\ last = Absent
NoAddress ==
    /\ host = Absent /\ port = Absent /\ ip = Absent /\ tcp = Absent
    /\ fd = Absent /\ bound = Absent /\ answer = Absent
NoPair == NoWaiting /\ NoAddress

Init ==
    \/ part = "queue" /\ Queue!Init /\ NoObjects /\ NoArray /\ NoMutex /\ NoStorage /\ NoPair
    \/ part = "single" /\ Single!Init /\ NoObjects /\ NoArray /\ NoMutex /\ NoStorage /\ NoPair
    \/ part = "pool" /\ Pool!Init /\ tail = Absent /\ NoQueue /\ NoArray /\ NoMutex /\ NoStorage /\ NoPair
    \/ /\ part = "array" /\ Array!Init
       /\ tail = Absent /\ NoNodes /\ NoQueue /\ NoObjects /\ NoMutex /\ NoStorage /\ NoPair
    \/ part = "mutex" /\ Mutex!Init /\ NoNodes /\ NoQueue /\ NoObjects /\ NoArray /\ NoStorage /\ NoPair
    \/ /\ part = "storage" /\ Storage!Init
       /\ tail = Absent /\ NoNodes /\ NoQueue /\ NoObjects /\ NoArray /\ NoMutex /\ NoPair
    \/ /\ part = "waiting" /\ Waiting!Init
       /\ pc = Absent /\ tail = Absent /\ NoNodes /\ NoQueue /\ NoObjects /\ NoArray
       /\ locked = Absent /\ locks = Absent /\ NoStorage /\ NoAddress
    \/ /\ part = "address" /\ Address!Init
       /\ pc = Absent /\ tail = Absent /\ NoNodes /\ NoQueue /\ NoObjects /\ NoArray
       /\ NoMutex /\ NoStorage /\ NoWaiting

Step ==
    \/ part = "queue" /\ Queue!Next /\ UNCHANGED <<objects, arrayGroup, mutexGroup, storageGroup, pairGroup>>
    \/ part = "single" /\ Single!Next /\ UNCHANGED <<objects, arrayGroup, mutexGroup, storageGroup, pairGroup>>
    \/ part = "pool" /\ Pool!Next /\ UNCHANGED <<tail, queueGroup, arrayGroup, mutexGroup, storageGroup, pairGroup>>
    \/ /\ part = "array" /\ Array!Next
       /\ UNCHANGED <<tail, nodeGroup, queueGroup, objects, mutexGroup, storageGroup, pairGroup>>
    \/ part = "mutex" /\ Mutex!Next /\ UNCHANGED <<nodeGroup, queueGroup, objects, arrayGroup, storageGroup, pairGroup>>
    \/ /\ part = "storage" /\ Storage!Next
       /\ UNCHANGED <<tail, nodeGroup, queueGroup, objects, arrayGroup, mutexGroup, pairGroup>>
    \/ /\ part = "waiting" /\ Waiting!Next
       /\ UNCHANGED <<pc, tail, nodeGroup, queueGroup, objects, arrayGroup, locked, locks, storageGroup, addressGroup>>
    \/ /\ part = "address" /\ Address!Next
       /\ UNCHANGED <<pc, tail, nodeGroup, queueGroup, objects, arrayGroup, mutexGroup, storageGroup, waitingGroup>>

Next == Step /\ UNCHANGED part

Spec == Init /\ [][Next]_vars

-----------------------------------------------------------------------------
\* ListQueue: every value is taken once, in the order in which it was linked
\* in, also when its node was used before.  (In the other parts both sequences
\* are empty.)
ImplementsFifo == Single!ImplementsFifo

\* ListQueue: a dequeue answers false only if the queue was empty when it
\* looked, never because its node has been given to somebody else meanwhile.
FalseMeansEmpty == [][part = "queue" => Queue!FindsWhatIsThere]_vars

\* ObjectPool: no node is lost and none is in two places, in each state of the
\* two-step appends and of the chunk that is linked in.
PoolInv == part = "pool" => Pool!PoolInv

\* AppendOnlyArray: whatever is below size() is there and is what was appended,
\* and at() returns it, while writers append and install buckets.
ArrayInv == part = "array" => Array!ArrayInv

\* SpinMutex: two threads never have the lock; those that come to it line up
\* one behind the other, and a thread that spins is the one its predecessor
\* will wake, as long as that one has not come to the lock again.
MutexInv == part = "mutex" => Mutex!MutexInv

\* ThreadLocalStorage: an index is not given out twice, a value goes to the
\* return function once, in whatever order its object and its thread die, and
\* get() returns a value that was made for this object in this thread.
StorageInv == part = "storage" => Storage!StorageInv

\* WaitingList: the list of each strategy holds exactly the fibers that gave up
\* its thread and wait, in that order and linked both ways, wherever fibers
\* yield, end and are stolen in between.
WaitingInv == part = "waiting" => Waiting!WaitingInv

\* Addresses: along any way through the conversions, an address and its port
\* remain those that the caller wrote, and equality across the two families is
\* that of the addresses meant.
AddressInv == part = "address" => Address!AddressInv
=============================================================================
