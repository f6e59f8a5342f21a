-------------------------- MODULE MCSynchronization --------------------------
(***************************************************************************)
(* What threads wait for: the barrier and the semaphore, with the          *)
(* constants of the configuration, and small instances of the list queue   *)
(* and of the array, each with fair threads.  They share nothing; the      *)
(* initial state picks the part that runs.  The variables of the barrier   *)
(* and of the semaphore keep their initial values in the other parts,      *)
(* those of the queue and the array stay Absent.                           *)
(***************************************************************************)
EXTENDS BasicBarrier, BasicSemaphore, Sequences

CONSTANTS t1, t2, t3    \* threads of the queue and of the array

VARIABLES
    part,                                                       \* what runs
    pc,
    link, free_head, free_tail, created, node, succ, out,       \* lists
    head, tail, data, entered, taken,                           \* ListQueue
    next_index, size, array, memory, calls, index, bucket,      \* AppendOnlyArray
    appended, read

queueGroup == <<link, free_head, free_tail, created, node, succ, out, head, tail, data, entered, taken>>
arrayGroup == <<next_index, size, array, memory, calls, index, bucket, appended, read>>
allVars == <<part, barrierVars, vars, pc, queueGroup, arrayGroup>>

\* One producer and two consumers.
Queue == INSTANCE ListQueue
            WITH Threads <- {t1, t2, t3}, Producer <- t1, AllocSize <- 3, MaxNodes <- 11, MaxValues <- 4

\* Two writers race for the first buckets while a reader looks on.
Array == INSTANCE AppendOnlyArray
            WITH Writers <- {t1, t2}, Readers <- {t3}, MaxCalls <- 2, Buckets <- 3

-----------------------------------------------------------------------------
Absent == <<>>

NoQueue ==
    /\ link = Absent /\ free_head = Absent /\ free_tail = Absent /\ created = Absent
    /\ node = Absent /\ succ = Absent /\ out = Absent
    /\ head = Absent /\ tail = Absent /\ data = Absent /\ entered = Absent /\ taken = Absent
NoArray ==
    /\ next_index = Absent /\ size = Absent /\ array = Absent /\ memory = Absent /\ calls = Absent
    /\ index = Absent /\ bucket = Absent /\ appended = Absent /\ read = Absent

AllInit ==
    /\ BarrierInit /\ Init
    /\ \/ part \in {"barrier", "semaphore"} /\ pc = Absent /\ NoQueue /\ NoArray
       \/ part = "queue" /\ Queue!Init /\ NoArray
       \/ part = "array" /\ Array!Init /\ NoQueue

\* A step of one part.
InBarrier(step) == part = "barrier" /\ step /\ UNCHANGED <<part, vars, pc, queueGroup, arrayGroup>>
InSemaphore(step) == part = "semaphore" /\ step /\ UNCHANGED <<part, barrierVars, pc, queueGroup, arrayGroup>>
InQueue(step) == part = "queue" /\ step /\ UNCHANGED <<part, barrierVars, vars, arrayGroup>>
InArray(step) == part = "array" /\ step /\ UNCHANGED <<part, barrierVars, vars, queueGroup>>

AllNext == InBarrier(BarrierNext) \/ InSemaphore(Next) \/ InQueue(Queue!Next) \/ InArray(Array!Next)

\* BarrierFairness and Fairness, and the same for the threads of the queue and
\* of the array: the producer enqueues all values and somebody always tries to
\* dequeue, writers make all their calls.
AllFairness ==
    /\ \A t \in Threads : WF_allVars(InBarrier(ArriveLast(t) \/ ArriveEarly(t) \/ BlockAgain(t) \/ Leave(t)))
    /\ \A n \in Notifiers : WF_allVars(InSemaphore(NotifyStep(n)))
    /\ \A w \in Waiters : WF_allVars(InSemaphore(WaitStep(w)))
    /\ WF_allVars(InQueue(Queue!ProducerStep))
    /\ \A c \in {t2, t3} : WF_allVars(InQueue(Queue!DequeueStep(c)))
    /\ WF_allVars(InQueue(\E c \in {t2, t3} : Queue!DequeueMc(c)))
    /\ \A t \in {t1, t2} : WF_allVars(InArray(Array!EmplaceStep(t)))

AllSpec == AllInit /\ [][AllNext]_allVars /\ AllFairness

-----------------------------------------------------------------------------
\* BasicBarrier: no thread stays in wait() for ever when all come, in every
\* round.
EverybodyLeavesBarrier == part = "barrier" => EverybodyLeaves

\* BasicSemaphore: when the notifications make up for all waits, and nobody
\* times out or resets, everybody returns from every wait().
EverybodyPassesSemaphore == part = "semaphore" => EverybodyPasses

\* ListQueue: every value is dequeued.  A consumer that found the queue empty
\* gives the tail back, and nobody spins for ever on a null tail.
EverythingIsTaken == part = "queue" ~> part = "queue" /\ Queue!AllTaken

\* AppendOnlyArray: every emplace() returns; the waiting for the elements before
\* it ends.
EverythingIsPublished == part = "array" ~> part = "array" /\ Array!AllReturned
=============================================================================
