--------------------------- MODULE MpscRingBuffer ---------------------------
(***************************************************************************)
(* The lock-free multi-producer single-consumer byte ring that carries     *)
(* posted tasks to a Context (core/detail/MpscRingBuffer.{h,cpp}).         *)
(*                                                                         *)
(* Every producer thread owns one Worker.  acquire() reserves a contiguous *)
(* range by a compare-and-swap on _producer_barrier, produce() publishes   *)
(* it; the consumer learns from the workers' _seen offsets up to where the *)
(* ring is completely written.  A range that does not fit before the end   *)
(* of the buffer starts again at 0; _end then remembers where the data of  *)
(* the old lap stops.                                                      *)
(*                                                                         *)
(* One action is one access to shared memory, under sequential             *)
(* consistency.  Loads of a location nobody else writes are merged with    *)
(* the next access, and a failing acquire() gives its Worker back in the   *)
(* step that finds out: the consumer can only spin in between.             *)
(***************************************************************************)
EXTENDS Integers, FiniteSets

CONSTANTS
    Producers,      \* the threads that own a Worker
    Capacity,       \* _capacity, in bytes
    Sizes,          \* the sizes acquire() is called with
    WRAP_LOCK_BIT,  \* the lock bit, above every offset
    Free, Ready     \* what a byte is while no producer may write to it

ASSUME CapacityAssumption == Capacity \in Nat \ {0}

\* acquire() of more than _capacity returns false without touching anything.
ASSUME SizesAssumption == Sizes \subseteq 1..Capacity

ASSUME LockBitAssumption ==
    WRAP_LOCK_BIT \in Nat /\ WRAP_LOCK_BIT > Capacity + 1

ASSUME CellAssumption == Free # Ready /\ Free \notin Producers /\ Ready \notin Producers

\* All bits except the lock bit: "no offset", larger than every index.
MAX_OFFSET == WRAP_LOCK_BIT - 1

(***************************************************************************)
(* Offsets are numbers, as in the code.  The wrap counter of an offset is  *)
(* left out: _setWrapCounter() takes the offset by value, so no offset     *)
(* ever has a counter other than 0.                                        *)
(***************************************************************************)
IsLocked(offset) == offset >= WRAP_LOCK_BIT

LockWrapBit(offset) ==
    IF IsLocked(offset) THEN offset ELSE offset + WRAP_LOCK_BIT

UnlockWrapBit(offset) ==
    IF IsLocked(offset) THEN offset - WRAP_LOCK_BIT ELSE offset

MinOffset(a, b) == IF a <= b THEN a ELSE b

VARIABLES
    producer_barrier,   \* _producer_barrier: the next free offset
    end,                \* _end: where the old lap stops, or MAX_OFFSET
    consumer_barrier,   \* _consumer_barrier: the first unreleased offset
    seen,               \* Worker::_seen of every producer
    registered,         \* the producers whose Worker::_registered is true
    pc,                 \* where each producer is
    next,               \* local of acquire(): the barrier it has read
    size,               \* argument of acquire()
    c_pc,               \* where the consumer is
    c_next,             \* local of consume(): the barrier it has read
    c_ready,            \* local of consume(): smallest interesting _seen
    c_scan,             \* the workers consume() has not looked at yet
    c_held,             \* bytes returned by consume() and not released
    cells,              \* who may touch each byte of _buffer (history)
    stale,              \* producers whose `next' predates the last swap
    stale_cas           \* producers whose swap succeeded all the same

producerVars == <<seen, registered, pc, next, size>>
consumerVars == <<consumer_barrier, c_pc, c_next, c_ready, c_scan, c_held>>
historyVars == <<cells, stale, stale_cas>>
vars == <<producer_barrier, end, producerVars, consumerVars, historyVars>>

Offsets == 0..(Capacity - 1)

\* A `seen' that acquire() or produce() may leave in a Worker.
Stable == Offsets \cup {MAX_OFFSET}

Init ==
    /\ producer_barrier = 0
    /\ end = MAX_OFFSET
    /\ consumer_barrier = 0
    /\ seen = [p \in Producers |-> 0]
    /\ registered = {}
    /\ pc = [p \in Producers |-> "new"]
    /\ next = [p \in Producers |-> 0]
    /\ size = [p \in Producers |-> 0]
    /\ c_pc = "idle"
    /\ c_next = 0
    /\ c_ready = MAX_OFFSET
    /\ c_scan = {}
    /\ c_held = 0
    /\ cells = [c \in Offsets |-> Free]
    /\ stale = {}
    /\ stale_cas = {}

-----------------------------------------------------------------------------
(* Producers.                                                              *)

\* registerWorker(): the index of a Worker is never used again.
Register(p) ==
    /\ pc[p] = "new"
    /\ seen' = [seen EXCEPT ![p] = MAX_OFFSET]
    /\ registered' = registered \cup {p}
    /\ pc' = [pc EXCEPT ![p] = "idle"]
    /\ UNCHANGED <<producer_barrier, end, next, size, consumerVars, historyVars>>

\* ~MpscRingBufferWriter(): the thread ends.
Unregister(p) ==
    /\ pc[p] = "idle"
    /\ registered' = registered \ {p}
    /\ pc' = [pc EXCEPT ![p] = "gone"]
    /\ UNCHANGED <<producer_barrier, end, seen, next, size, consumerVars, historyVars>>

AcquireCall(p, s) ==
    /\ pc[p] = "idle"
    /\ size' = [size EXCEPT ![p] = s]
    /\ pc' = [pc EXCEPT ![p] = "load_next"]
    /\ UNCHANGED <<producer_barrier, end, seen, registered, next, consumerVars, historyVars>>

\* _getStableNext(): spins while the barrier is locked.
LoadNext(p) ==
    /\ pc[p] = "load_next"
    /\ ~IsLocked(producer_barrier)
    /\ next' = [next EXCEPT ![p] = producer_barrier]
    /\ stale' = stale \ {p}
    /\ pc' = [pc EXCEPT ![p] = "lock_seen"]
    /\ UNCHANGED <<producer_barrier, end, seen, registered, size, consumerVars, cells, stale_cas>>

LockSeen(p) ==
    /\ pc[p] = "lock_seen"
    /\ seen' = [seen EXCEPT ![p] = LockWrapBit(next[p])]
    /\ pc' = [pc EXCEPT ![p] = "check"]
    /\ UNCHANGED <<producer_barrier, end, registered, next, size, consumerVars, historyVars>>

\* Faulty variants stand before some definitions.  No action uses them: they
\* are what a slip in the code would make of the definition, and each breaks
\* a property below.

\* The offset the barrier is to get: locked when the range starts again at 0.
Target(n, s) ==
    IF n + s < Capacity THEN n + s
    ELSE IF n + s > Capacity THEN LockWrapBit(s) ELSE 0

\* Faulty: no check on the part of the range after wrapping.
NoRoomBeforeWrap(n, s, written) == n < written /\ n + s >= written

\* Faulty: no check when the consumer is in the old lap.
NoRoomAfterWrap(n, s, written) ==
    n + s >= Capacity /\ UnlockWrapBit(Target(n, s)) >= written

\* The range would reach the consumer from behind, before or after wrapping.
NoRoom(n, s, written) ==
    \/ n < written /\ n + s >= written
    \/ n + s >= Capacity /\ UnlockWrapBit(Target(n, s)) >= written

\* Loads _consumer_barrier; acquire() returns false when there is no room.
CheckRoom(p) ==
    /\ pc[p] = "check"
    /\ IF NoRoom(next[p], size[p], consumer_barrier)
       THEN /\ seen' = [seen EXCEPT ![p] = MAX_OFFSET]
            /\ pc' = [pc EXCEPT ![p] = "idle"]
       ELSE /\ pc' = [pc EXCEPT ![p] = "swap"]
            /\ UNCHANGED seen
    /\ UNCHANGED <<producer_barrier, end, registered, next, size, consumerVars, historyVars>>

\* Where the bytes that acquire() returns begin.
Start(p) == IF next[p] + size[p] > Capacity THEN 0 ELSE next[p]
Slot(p) == Start(p)..(Start(p) + size[p] - 1)

\* compare_exchange_weak() succeeds.  The history variables record who owns
\* the bytes from here on and whose `next' is no longer the latest value.
Swap(p) ==
    /\ pc[p] = "swap"
    /\ producer_barrier = next[p]
    /\ producer_barrier' = Target(next[p], size[p])
    /\ pc' = [pc EXCEPT ![p] = "unlock_seen"]
    /\ cells' = [c \in Offsets |-> IF c \in Slot(p) THEN p ELSE cells[c]]
    /\ stale' = (stale \cup {q \in Producers : pc[q] \in {"lock_seen", "check", "swap"}}) \ {p}
    /\ stale_cas' = stale_cas \cup (stale \cap {p})
    /\ UNCHANGED <<end, seen, registered, next, size, consumerVars>>

\* It fails, spuriously or because the barrier has moved: acquire() starts over.
SwapFails(p) ==
    /\ pc[p] = "swap"
    /\ pc' = [pc EXCEPT ![p] = "load_next"]
    /\ UNCHANGED <<producer_barrier, end, seen, registered, next, size, consumerVars, historyVars>>

UnlockSeen(p) ==
    /\ pc[p] = "unlock_seen"
    /\ seen' = [seen EXCEPT ![p] = UnlockWrapBit(seen[p])]
    /\ pc' = [pc EXCEPT ![p] = IF IsLocked(Target(next[p], size[p])) THEN "set_end" ELSE "acquired"]
    /\ UNCHANGED <<producer_barrier, end, registered, next, size, consumerVars, historyVars>>

SetEnd(p) ==
    /\ pc[p] = "set_end"
    /\ end' = next[p]
    /\ pc' = [pc EXCEPT ![p] = "unlock_next"]
    /\ UNCHANGED <<producer_barrier, seen, registered, next, size, consumerVars, historyVars>>

UnlockNext(p) ==
    /\ pc[p] = "unlock_next"
    /\ producer_barrier' = UnlockWrapBit(Target(next[p], size[p]))
    /\ pc' = [pc EXCEPT ![p] = "acquired"]
    /\ UNCHANGED <<end, seen, registered, next, size, consumerVars, historyVars>>

Produce(p) ==
    /\ pc[p] = "acquired"
    /\ seen' = [seen EXCEPT ![p] = MAX_OFFSET]
    /\ pc' = [pc EXCEPT ![p] = "idle"]
    /\ cells' = [c \in Offsets |-> IF c \in Slot(p) THEN Ready ELSE cells[c]]
    /\ UNCHANGED <<producer_barrier, end, registered, next, size, consumerVars, stale, stale_cas>>

-----------------------------------------------------------------------------
(* The consumer.  Nobody else writes _consumer_barrier, so it also stands  *)
(* for consume()'s local copy `written'.                                   *)

ConsumeLoadNext ==
    /\ c_pc \in {"idle", "again"}
    /\ ~IsLocked(producer_barrier)
    /\ c_next' = producer_barrier
    /\ IF producer_barrier = consumer_barrier
       THEN c_pc' = "idle" /\ UNCHANGED <<c_ready, c_scan>>
       ELSE c_pc' = "scan" /\ c_ready' = MAX_OFFSET /\ c_scan' = Producers
    /\ UNCHANGED <<producer_barrier, end, producerVars, consumer_barrier, c_held, historyVars>>

\* One worker of the loop, in any order; _getStableSeen() spins while locked.
ScanWorker(p) ==
    /\ c_pc = "scan"
    /\ p \in c_scan
    /\ p \in registered => ~IsLocked(seen[p])
    /\ c_scan' = c_scan \ {p}
    /\ c_ready' = IF p \in registered /\ seen[p] >= consumer_barrier
                  THEN MinOffset(seen[p], c_ready)
                  ELSE c_ready
    /\ UNCHANGED <<producer_barrier, end, producerVars, consumer_barrier, c_pc, c_next, c_held, historyVars>>

LapEnd == MinOffset(Capacity, end)

\* Faulty: _end is not forgotten.
ConsumeWrapKeepsEnd ==
    /\ c_pc = "scan"
    /\ c_scan = {}
    /\ c_next < consumer_barrier
    /\ c_ready = MAX_OFFSET
    /\ consumer_barrier = LapEnd
    /\ c_pc' = "rewind"
    /\ UNCHANGED <<producer_barrier, end, producerVars, consumer_barrier, c_next, c_ready, c_scan, c_held, historyVars>>

\* Faulty: the old lap is left while a producer still writes to it.
ConsumeWrapEarly ==
    /\ c_pc = "scan"
    /\ c_scan = {}
    /\ c_next < consumer_barrier
    /\ consumer_barrier = LapEnd
    /\ end' = MAX_OFFSET
    /\ c_pc' = "rewind"
    /\ UNCHANGED <<producer_barrier, producerVars, consumer_barrier, c_next, c_ready, c_scan, c_held, historyVars>>

\* All of the old lap is consumed: forget _end, then start again at 0.
ConsumeWrap ==
    /\ c_pc = "scan"
    /\ c_scan = {}
    /\ c_next < consumer_barrier
    /\ c_ready = MAX_OFFSET
    /\ consumer_barrier = LapEnd
    /\ end' = MAX_OFFSET
    /\ c_pc' = "rewind"
    /\ UNCHANGED <<producer_barrier, producerVars, consumer_barrier, c_next, c_ready, c_scan, c_held, historyVars>>

ConsumeRewind ==
    /\ c_pc = "rewind"
    /\ consumer_barrier' = 0
    /\ c_pc' = "again"
    /\ UNCHANGED <<producer_barrier, end, producerVars, c_next, c_ready, c_scan, c_held, historyVars>>

\* consume() returns the bytes up to the first offset not fully written.
ConsumeReturn ==
    /\ c_pc = "scan"
    /\ c_scan = {}
    /\ ~(c_next < consumer_barrier /\ c_ready = MAX_OFFSET /\ consumer_barrier = LapEnd)
    /\ LET limit == IF c_next < consumer_barrier THEN LapEnd ELSE c_next
       IN  c_held' = MinOffset(c_ready, limit) - consumer_barrier
    /\ c_pc' = IF c_held' = 0 THEN "idle" ELSE "holding"
    /\ UNCHANGED <<producer_barrier, end, producerVars, consumer_barrier, c_next, c_ready, c_scan, historyVars>>

Release(bytes) ==
    /\ c_pc = "holding"
    /\ LET released_written == consumer_barrier + bytes
       IN  consumer_barrier' = IF released_written = Capacity THEN 0 ELSE released_written
    /\ c_held' = c_held - bytes
    /\ c_pc' = IF c_held' = 0 THEN "idle" ELSE "holding"
    /\ cells' = [c \in Offsets |->
                    IF c \in consumer_barrier..(consumer_barrier + bytes - 1) THEN Free ELSE cells[c]]
    /\ UNCHANGED <<producer_barrier, end, producerVars, c_next, c_ready, c_scan, stale, stale_cas>>

-----------------------------------------------------------------------------
AcquireStep(p) ==
    \/ LoadNext(p) \/ LockSeen(p) \/ CheckRoom(p) \/ Swap(p) \/ SwapFails(p)
    \/ UnlockSeen(p) \/ SetEnd(p) \/ UnlockNext(p)

ProducerStep(p) ==
    \/ Register(p)
    \/ Unregister(p)
    \/ \E s \in Sizes : AcquireCall(p, s)
    \/ AcquireStep(p)
    \/ Produce(p)

ConsumeStep ==
    \/ ConsumeLoadNext
    \/ \E p \in Producers : ScanWorker(p)
    \/ ConsumeWrap
    \/ ConsumeRewind
    \/ ConsumeReturn

ConsumerStep ==
    \/ ConsumeStep
    \/ \E bytes \in 1..c_held : Release(bytes)

Next ==
    \/ \E p \in Producers : ProducerStep(p)
    \/ ConsumerStep

Spec == Init /\ [][Next]_vars

-----------------------------------------------------------------------------
(* Properties.  A swap by a producer in `stale' is the ABA problem: the    *)
(* barrier went once around the ring and came back to the offset the       *)
(* producer had read, and the room it checked is not there any more.  The  *)
(* wrap counter is meant to make such a swap fail (see the note on         *)
(* offsets); the properties hold of every behaviour without one.           *)
NoStaleSwap == stale_cas = {}

PcValues == {"new", "idle", "gone", "load_next", "lock_seen", "check", "swap",
             "unlock_seen", "set_end", "unlock_next", "acquired"}

TypeOK ==
    /\ producer_barrier \in Offsets \cup {LockWrapBit(o) : o \in 1..Capacity}
    /\ end \in Stable
    /\ consumer_barrier \in Offsets
    /\ seen \in [Producers -> Stable \cup {LockWrapBit(o) : o \in Offsets}]
    /\ registered \subseteq Producers
    /\ pc \in [Producers -> PcValues]
    /\ next \in [Producers -> Offsets]
    /\ size \in [Producers -> Sizes \cup {0}]
    /\ c_pc \in {"idle", "again", "scan", "rewind", "holding"}
    /\ c_next \in Offsets
    /\ c_ready \in Stable
    /\ c_scan \subseteq Producers
    /\ c_held \in 0..Capacity
    /\ cells \in [Offsets -> Producers \cup {Free, Ready}]
    /\ stale \subseteq Producers
    /\ stale_cas \subseteq Producers

\* The type invariant of the ring, for behaviours without a stale swap.
TypeInvariant == NoStaleSwap => TypeOK

Reserving(p) == pc[p] \in {"unlock_seen", "set_end", "unlock_next", "acquired"}
Held == consumer_barrier..(consumer_barrier + c_held - 1)

\* acquire() hands out bytes that nobody else writes until produce(): from
\* the swap on they are the producer's, also while the range wraps.
WritersOwnTheirBytes ==
    NoStaleSwap => \A p \in Producers : Reserving(p) => \A c \in Slot(p) : cells[c] = p

\* consume() returns only bytes that were written and published, and they
\* stay so until release(), whatever the producers do meanwhile.
ReaderGetsWrittenBytes ==
    NoStaleSwap /\ c_pc = "holding" => \A c \in Held : cells[c] = Ready

\* "We cannot go beyond the _consumer_barrier offset or catch up with it":
\* a swap only reserves bytes that are free, that is unused or released.
ReservesFreeBytes ==
    [][\A p \in Producers : Swap(p) => \A c \in Slot(p) : cells[c] = Free]_vars

ReservesFreeBytesUnlessStale ==
    [][\A p \in Producers : Swap(p) /\ stale_cas' = {} => \A c \in Slot(p) : cells[c] = Free]_vars

\* When the barriers meet the consumer has everything: consume() never steps
\* over a range that a slow producer still holds or has published.
NothingIsSkipped ==
    NoStaleSwap /\ producer_barrier = consumer_barrier => \A c \in Offsets : cells[c] = Free

\* The bytes of the ring change hands as they should: nobody writes into a
\* reserved range but its owner, nothing is read that was not published, and
\* nothing published is passed over.
BytesInv == WritersOwnTheirBytes /\ ReaderGetsWrittenBytes /\ NothingIsSkipped

\* The assertions of acquire() on wrapping: the previous lap is consumed.
AssertionsOfAcquire ==
    NoStaleSwap => \A p \in Producers :
        /\ pc[p] = "set_end" => consumer_barrier <= next[p] /\ end = MAX_OFFSET
        /\ pc[p] = "idle" => seen[p] = MAX_OFFSET

\* The assertions of consume() and release().
AssertionsOfConsumer ==
    NoStaleSwap =>
        /\ c_pc = "scan" => c_ready >= consumer_barrier
        /\ c_pc = "scan" /\ c_scan = {} /\ c_next < consumer_barrier =>
                c_ready > c_next /\ MinOffset(c_ready, LapEnd) >= consumer_barrier
        /\ c_pc = "holding" =>
                consumer_barrier <= end /\ consumer_barrier + c_held <= Capacity

\* No assertion of acquire(), consume() and release() on the barriers and _end
\* fails.
AssertionsHold == AssertionsOfAcquire /\ AssertionsOfConsumer

-----------------------------------------------------------------------------
(* The inductive invariant behind these properties.                        *)

\* The next free offset, also while a producer has it locked.
Top == UnlockWrapBit(producer_barrier)

\* Producers whose range starts again at 0 and is not published yet.
Wrapping(p) == Reserving(p) /\ next[p] + size[p] > Capacity

\* What _seen tells about a producer, and that the room a producer has
\* checked stays there until it swaps, unless its offset is stale.
ProducersInv ==
    \A p \in Producers :
        /\ p \in registered <=> pc[p] \notin {"new", "gone"}
        /\ pc[p] \in {"idle", "gone"} => seen[p] = MAX_OFFSET
        /\ pc[p] \in {"load_next", "lock_seen"} => seen[p] = MAX_OFFSET \/ IsLocked(seen[p])
        /\ pc[p] \in {"check", "swap", "unlock_seen"} => seen[p] = LockWrapBit(next[p])
        /\ pc[p] \in {"set_end", "unlock_next", "acquired"} => seen[p] = next[p]
        /\ pc[p] \notin {"new", "idle", "gone"} => size[p] \in Sizes
        /\ pc[p] \in {"lock_seen", "check", "swap"} /\ p \notin stale => next[p] = producer_barrier
        /\ pc[p] = "swap" /\ p \notin stale => ~NoRoom(next[p], size[p], consumer_barrier)
        /\ pc[p] \in {"set_end", "unlock_next"} => Wrapping(p)
        /\ Reserving(p) /\ ~Wrapping(p) => next[p] + size[p] <= Capacity

\* A byte belongs to a producer exactly while it is in the range it reserved.
OwnersInv ==
    \A p \in Producers : \A c \in Offsets :
        cells[c] = p <=> Reserving(p) /\ c \in Slot(p)

\* The bytes in use are those from the consumer to the next free offset; if
\* that is behind the consumer, to `stop' and from 0 on.  `stop' is what
\* _end records, except while _end is being set or taken back.
Shape(stop) ==
    /\ \A c \in Offsets :
          cells[c] # Free <=> IF Top < consumer_barrier
                              THEN (consumer_barrier <= c /\ c < stop) \/ c < Top
                              ELSE consumer_barrier <= c /\ c < Top
    /\ Top < consumer_barrier => consumer_barrier <= stop
    /\ consumer_barrier <= Top => end = MAX_OFFSET /\ ~IsLocked(producer_barrier)
    /\ ~IsLocked(producer_barrier) /\ Top < consumer_barrier /\ c_pc # "rewind" => stop = LapEnd
    /\ IsLocked(producer_barrier) => \E p \in Producers : Wrapping(p) /\ pc[p] # "acquired"
    /\ \A p \in Producers : Wrapping(p) =>
          /\ Top < consumer_barrier
          /\ stop = next[p]
          /\ c_pc # "rewind"
          /\ pc[p] \in {"unlock_seen", "set_end"} => end = MAX_OFFSET
          /\ pc[p] \in {"unlock_next", "acquired"} => end = next[p]
          /\ pc[p] = "acquired" => ~IsLocked(producer_barrier)
          /\ pc[p] # "acquired" => producer_barrier = LockWrapBit(size[p])
    /\ c_pc = "rewind" =>
          /\ Top < consumer_barrier
          /\ stop = consumer_barrier
          /\ end = MAX_OFFSET
          /\ ~IsLocked(producer_barrier)

\* What consume() knows while it looks at the workers: a worker that it has
\* looked at and that still holds a range below the limit is in `ready'.
ScanInv(stop) ==
    c_pc = "scan" =>
        /\ c_ready >= consumer_barrier
        /\ c_next < consumer_barrier =>
              ~IsLocked(producer_barrier) /\ c_next <= Top /\ Top < consumer_barrier
        /\ c_next >= consumer_barrier =>
              c_next <= IF Top < consumer_barrier THEN stop ELSE Top
        /\ \A p \in Producers \ c_scan :
              /\ Reserving(p)
              /\ consumer_barrier <= next[p]
              /\ c_next < consumer_barrier \/ next[p] < c_next
              => c_ready <= next[p]

HoldInv ==
    /\ c_pc = "holding" =>
          /\ c_held > 0
          /\ consumer_barrier + c_held <= Capacity
          /\ \A c \in Held : cells[c] = Ready
    /\ c_pc # "holding" => c_held = 0

Core(stop) ==
    TypeOK /\ ProducersInv /\ OwnersInv /\ Shape(stop) /\ ScanInv(stop) /\ HoldInv

RingInv == NoStaleSwap => \E stop \in 0..Capacity : Core(stop)
=============================================================================
