-------------------------- MODULE ContextTaskQueue --------------------------
(***************************************************************************)
(* The queue of tasks posted to a Context by other threads                 *)
(* (core/detail/ContextTaskQueue.{h,hpp,cpp} and ContextOperation.h), on   *)
(* top of the ring buffer.  push() reserves room for a record, writes it   *)
(* and publishes it, retrying for as long as the ring has no room.  pop()  *)
(* takes the next record of the range consume() returned last, or consumes *)
(* again.  The fiber that performs a task gives its record back before it  *)
(* invokes the handler.                                                    *)
(*                                                                         *)
(* One thread runs the Context: it pops only when it has no ready fiber,   *)
(* so the fiber of a popped task starts, and releases its record, before   *)
(* the next pop.                                                           *)
(***************************************************************************)
EXTENDS MpscRingBuffer, Sequences

CONSTANT MaxPushes      \* bound: how often each thread calls push()

ASSUME MaxPushesAssumption == MaxPushes \in Nat

VARIABLES
    pushing,    \* threads inside push()
    pushes,     \* calls of push() so far, by thread
    filled,     \* threads that have written their record
    memory,     \* _buffer: the record whose bytes are at each offset
    poped,      \* _poped, as an offset into _buffer
    consumed,   \* _consumed, likewise
    current,    \* the popped record whose fiber has not started
    reserved,   \* records in the order of their swaps (history)
    performed   \* records in the order their handlers run (history)

pushVars == <<pushing, pushes, filled, memory>>
popVars == <<poped, consumed, current, performed>>
queueVars == <<vars, pushVars, popVars, reserved>>

\* _buffer is zeroed when it is allocated.
Blank == [by |-> Free, nr |-> 0, length |-> 0]

QueueInit ==
    /\ Init
    /\ pushing = {}
    /\ pushes = [p \in Producers |-> 0]
    /\ filled = {}
    /\ memory = [c \in Offsets |-> Blank]
    /\ poped = 0
    /\ consumed = 0
    /\ current = Blank
    /\ reserved = <<>>
    /\ performed = <<>>

-----------------------------------------------------------------------------
(* push() *)

\* The first _writers.get() of a thread makes its writer.
GetWriter(p) ==
    /\ pushes[p] < MaxPushes
    /\ Register(p)
    /\ UNCHANGED <<pushVars, popVars, reserved>>

PushCall(p, s) ==
    /\ p \notin pushing
    /\ pushes[p] < MaxPushes
    /\ AcquireCall(p, s)
    /\ pushing' = pushing \cup {p}
    /\ pushes' = [pushes EXCEPT ![p] = @ + 1]
    /\ UNCHANGED <<filled, memory, popVars, reserved>>

\* Faulty: push() gives up when there is no room.  (Faulty variants are what
\* a slip in the code would make of the next definition; no action uses them.)
PushRetryGivesUp(p) ==
    /\ p \in pushing
    /\ pc[p] = "idle"
    /\ pushing' = pushing \ {p}
    /\ UNCHANGED <<vars, pushes, filled, memory, popVars, reserved>>

\* acquire() returned false: yield and try again.
PushRetry(p) ==
    /\ p \in pushing
    /\ AcquireCall(p, size[p])
    /\ UNCHANGED <<pushVars, popVars, reserved>>

Record(p) == [by |-> p, nr |-> pushes[p], length |-> size[p]]

\* Reserving decides the order of the tasks.
PushSwap(p) ==
    /\ Swap(p)
    /\ reserved' = Append(reserved, Record(p))
    /\ UNCHANGED <<pushVars, popVars>>

PushAcquire(p) ==
    /\ LoadNext(p) \/ LockSeen(p) \/ CheckRoom(p) \/ SwapFails(p)
       \/ UnlockSeen(p) \/ SetEnd(p) \/ UnlockNext(p)
    /\ UNCHANGED <<pushVars, popVars, reserved>>

PushWrite(p) ==
    /\ pc[p] = "acquired"
    /\ p \notin filled
    /\ memory' = [c \in Offsets |-> IF c \in Slot(p) THEN Record(p) ELSE memory[c]]
    /\ filled' = filled \cup {p}
    /\ UNCHANGED <<vars, pushing, pushes, popVars, reserved>>

PushProduce(p) ==
    /\ p \in filled
    /\ Produce(p)
    /\ pushing' = pushing \ {p}
    /\ filled' = filled \ {p}
    /\ UNCHANGED <<pushes, memory, popVars, reserved>>

\* The thread ends and its writer with it.
DropWriter(p) ==
    /\ p \notin pushing
    /\ Unregister(p)
    /\ UNCHANGED <<pushVars, popVars, reserved>>

-----------------------------------------------------------------------------
(* pop() and the deallocator *)

\* Faulty: the cursor does not move on.
TakeRecordAgain(base) == current' = memory[base] /\ poped' = base

TakeRecord(base) ==
    /\ current' = memory[base]
    /\ poped' = base + memory[base].length

PopBuffered ==
    /\ current = Blank
    /\ poped < consumed
    /\ TakeRecord(poped)
    /\ UNCHANGED <<vars, pushVars, consumed, performed, reserved>>

PopConsume ==
    /\ current = Blank
    /\ poped >= consumed
    /\ ConsumeLoadNext \/ (\E p \in Producers : ScanWorker(p)) \/ ConsumeWrap \/ ConsumeRewind
    /\ UNCHANGED <<pushVars, popVars, reserved>>

\* Faulty: _consumed is the length of the range, not its end.
PopConsumedLength ==
    /\ current = Blank
    /\ poped >= consumed
    /\ ConsumeReturn
    /\ IF c_held' = 0
       THEN UNCHANGED <<poped, consumed, current>>
       ELSE consumed' = c_held' /\ TakeRecord(consumer_barrier)
    /\ UNCHANGED <<pushVars, performed, reserved>>

PopConsumed ==
    /\ current = Blank
    /\ poped >= consumed
    /\ ConsumeReturn
    /\ IF c_held' = 0
       THEN UNCHANGED <<poped, consumed, current>>
       ELSE consumed' = consumer_barrier + c_held' /\ TakeRecord(consumer_barrier)
    /\ UNCHANGED <<pushVars, performed, reserved>>

\* doPerform(): move the handler out, give the record back, run the handler.
DoPerform ==
    /\ current # Blank
    /\ Release(current.length)
    /\ performed' = Append(performed, current)
    /\ current' = Blank
    /\ UNCHANGED <<pushVars, poped, consumed, reserved>>

-----------------------------------------------------------------------------
PushStep(p) ==
    \/ PushRetry(p) \/ PushSwap(p) \/ PushAcquire(p) \/ PushWrite(p) \/ PushProduce(p)

PopStep == PopBuffered \/ PopConsume \/ PopConsumed \/ DoPerform

QueueNext ==
    \/ \E p \in Producers :
          \/ GetWriter(p)
          \/ \E s \in Sizes : PushCall(p, s)
          \/ PushStep(p)
          \/ DropWriter(p)
    \/ PopStep

(***************************************************************************)
(* The operating system runs every thread.  A weak compare-and-swap does   *)
(* not fail spuriously for ever, and the consumer, which re-reads a locked *)
(* _seen in a loop, does not miss every unlocked moment of it: both need   *)
(* strong fairness, since the step is enabled only now and then.           *)
(***************************************************************************)
QueueFairness ==
    /\ \A p \in Producers :
          /\ WF_queueVars(PushStep(p))
          /\ SF_queueVars(PushSwap(p))
          /\ SF_queueVars(PopConsume /\ ScanWorker(p))
    /\ WF_queueVars(PopStep)

QueueSpec == QueueInit /\ [][QueueNext]_queueVars

FairQueueSpec == QueueSpec /\ QueueFairness

-----------------------------------------------------------------------------
Tasks == [by : Producers, nr : 1..MaxPushes, length : Sizes]

Fifo == INSTANCE TaskFifo
            WITH waiting <- SubSeq(reserved, Len(performed) + 1, Len(reserved))

\* The queue is a FIFO: every task that reserved its place is performed
\* exactly once and in the order of the reservations, however the producers
\* interleave and wherever the ring wraps, for as long as no producer reserves
\* with an offset from an earlier round.
ImplementsFifo ==
    Fifo!FifoInit /\ [][NoStaleSwap' => [Fifo!FifoNext]_(Fifo!fifoVars)]_queueVars

\* A record is intact from the time pop() returns it until its fiber gives
\* it back: no producer writes over it (doPerform() moves the handler out of
\* the ring before the deallocator releases it).
PoppedRecordIsIntact ==
    NoStaleSwap /\ current # Blank =>
        \A c \in consumer_barrier..(consumer_barrier + current.length - 1) : memory[c] = current

\* pop()'s cursor and the ring agree: what is popped and not released is the
\* current record, what is consumed and not popped is what remains.
CursorsAgree ==
    NoStaleSwap /\ c_pc = "holding" =>
        /\ consumed = consumer_barrier + c_held
        /\ poped = consumer_barrier + current.length

\* Every task that a thread has begun to push is performed.
AllBegunArePerformed ==
    \A p \in Producers : \A k \in 1..pushes[p] :
        \E i \in DOMAIN performed : performed[i].by = p /\ performed[i].nr = k

\* What pop() hands out and the deallocator takes back fits the ring, and is
\* untouched in between.
RecordsInv == CursorsAgree /\ PoppedRecordIsIntact
=============================================================================
