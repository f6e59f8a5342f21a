----------------------------- MODULE ListQueue -----------------------------
(***************************************************************************)
(* The linked queue behind SpscListQueue and SpmcListQueue                 *)
(* (core/concurrency/detail/ListQueue.{h,hpp}): one producer, one or more  *)
(* consumers.  The node at _tail is a dummy, its successor holds the       *)
(* oldest value; a consumer that shares the queue keeps _tail to itself by *)
(* leaving null there.  A dequeued dummy goes to the free list, from which *)
(* the producer takes its nodes.                                           *)
(*                                                                         *)
(* A try of dequeueMc() or dequeueMcWeak() that finds null changes nothing *)
(* and is no step here.                                                    *)
(***************************************************************************)
EXTENDS ListNodeAllocator, Sequences

CONSTANTS
    Producer,   \* the one of Threads that calls enqueueSp()
    MaxValues   \* bound: how many values are enqueued

Consumers == Threads \ {Producer}

VARIABLES
    head,       \* _head
    tail,       \* _tail
    data,       \* ListNode::_data
    entered,    \* values in the order they were linked in (history)
    taken       \* values in the order consumers moved them out (history)

queueVars == <<head, tail, data, entered, taken>>
vars == <<allocatorVars, queueVars>>

Init ==
    /\ AllocatorInit
    /\ head = 1
    /\ tail = 1
    /\ data = [n \in Nodes |-> 0]
    /\ entered = <<>>
    /\ taken = <<>>

-----------------------------------------------------------------------------
(* enqueueSp(): the values are numbered. *)

Enqueue ==
    /\ pc[Producer] = "idle"
    /\ Len(entered) < MaxValues
    /\ Goto(Producer, "alloc")
    /\ UNCHANGED <<link, free_head, free_tail, created, node, succ, out, queueVars>>

EnqueueData ==
    /\ pc[Producer] = "allocated"
    /\ data' = [data EXCEPT ![node[Producer]] = Len(entered) + 1]
    /\ Goto(Producer, "enqueue_link")
    /\ UNCHANGED <<link, free_head, free_tail, created, node, succ, out, head, tail, entered, taken>>

\* From here on consumers see the value.
EnqueueLink ==
    /\ pc[Producer] = "enqueue_link"
    /\ link' = [link EXCEPT ![head] = node[Producer]]
    /\ entered' = Append(entered, Len(entered) + 1)
    /\ Goto(Producer, "enqueue_head")
    /\ UNCHANGED <<free_head, free_tail, created, node, succ, out, head, tail, data, taken>>

\* Faulty variants are what a slip in the code would make of the definition
\* that follows them; no action uses them.  Faulty: _head stays where it is.
EnqueueKeepsHead ==
    /\ pc[Producer] = "enqueue_head"
    /\ Finish(Producer)
    /\ UNCHANGED <<link, free_head, free_tail, created, out, queueVars>>

EnqueueHead ==
    /\ pc[Producer] = "enqueue_head"
    /\ head' = node[Producer]
    /\ Finish(Producer)
    /\ UNCHANGED <<link, free_head, free_tail, created, out, tail, data, entered, taken>>

-----------------------------------------------------------------------------
(* dequeueMc() and dequeueMcWeak(), and dequeueSc() of a single consumer *)

Take(c, left) ==
    /\ pc[c] = "idle"
    /\ tail # Null
    /\ node' = [node EXCEPT ![c] = tail]
    /\ tail' = left
    /\ Goto(c, "dequeue_look")
    /\ UNCHANGED <<link, free_head, free_tail, created, succ, out, head, data, entered, taken>>

DequeueMc(c) == Take(c, Null)

DequeueSc(c) == Consumers = {c} /\ Take(c, tail)

DequeueLook(c) ==
    /\ pc[c] = "dequeue_look"
    /\ succ' = [succ EXCEPT ![c] = link[node[c]]]
    /\ Goto(c, "dequeue_found")
    /\ UNCHANGED <<link, free_head, free_tail, created, node, out, queueVars>>

\* Faulty: _tail is not put back.
DequeueEmptyKeepsTail(c) ==
    /\ pc[c] = "dequeue_found"
    /\ succ[c] = Null
    /\ Finish(c)
    /\ UNCHANGED <<link, free_head, free_tail, created, out, queueVars>>

\* Nothing there: false.
DequeueEmpty(c) ==
    /\ pc[c] = "dequeue_found"
    /\ succ[c] = Null
    /\ tail' = node[c]
    /\ Finish(c)
    /\ UNCHANGED <<link, free_head, free_tail, created, out, head, data, entered, taken>>

DequeueMove(c) ==
    /\ pc[c] = "dequeue_found"
    /\ succ[c] # Null
    /\ taken' = Append(taken, data[succ[c]])
    /\ Goto(c, "dequeue_tail")
    /\ UNCHANGED <<link, free_head, free_tail, created, node, succ, out, head, tail, data, entered>>

\* The node of the value is the new dummy, the old one is freed.
DequeueTail(c) ==
    /\ pc[c] = "dequeue_tail"
    /\ tail' = succ[c]
    /\ out' = out \ {node[c]}
    /\ Goto(c, "free")
    /\ UNCHANGED <<link, free_head, free_tail, created, node, succ, head, data, entered, taken>>

-----------------------------------------------------------------------------
ProducerStep ==
    \/ Enqueue \/ EnqueueData \/ EnqueueLink \/ EnqueueHead
    \/ AllocStep(Producer) /\ UNCHANGED queueVars

DequeueStep(c) ==
    \/ DequeueLook(c) \/ DequeueEmpty(c) \/ DequeueMove(c) \/ DequeueTail(c)
    \/ FreeStep(c) /\ UNCHANGED queueVars

ConsumerStep(c) == DequeueMc(c) \/ DequeueSc(c) \/ DequeueStep(c)

Next == ProducerStep \/ \E c \in Consumers : ConsumerStep(c)

Spec == Init /\ [][Next]_vars

-----------------------------------------------------------------------------
\* The queue implements a FIFO: every value is taken once, in the order in
\* which it was linked in, also when its node was used before.
Fifo == INSTANCE TaskFifo
            WITH Tasks <- 1..MaxValues,
                 waiting <- SubSeq(entered, Len(taken) + 1, Len(entered)),
                 performed <- taken

ImplementsFifo == Fifo!FifoSpec

\* A dequeue answers false only if the queue was empty when it looked, never
\* because the node it looks at has been given to somebody else meanwhile.
FindsWhatIsThere ==
    \A c \in Consumers : DequeueLook(c) /\ link[node[c]] = Null => Len(taken) = Len(entered)

\* Every value has been dequeued.
AllTaken == Len(taken) = MaxValues
=============================================================================
