------------------------- MODULE ListNodeAllocator -------------------------
(***************************************************************************)
(* The nodes of the lock-free lists                                        *)
(* (core/concurrency/detail/ListNodeAllocator.{h,hpp}).  Free nodes are in *)
(* a linked list of their own: free() appends at _free_list_head, alloc()  *)
(* takes from _free_list_tail, which it holds (by leaving null there)      *)
(* while it looks.  The last node of the list is never given out; when     *)
(* there is no other, alloc() makes a chunk of nodes, keeps the first and  *)
(* appends the rest.                                                       *)
(*                                                                         *)
(* One action is one access to shared memory, under sequential             *)
(* consistency.  The list of chunks, which only the destructor reads, is   *)
(* left out.  The modules that use the allocator start an alloc() by       *)
(* sending a thread to "alloc" and find its node when it is "allocated".   *)
(***************************************************************************)
EXTENDS Integers

CONSTANTS
    Threads,    \* the threads that use the allocator
    AllocSize,  \* _alloc_size, at least 2
    MaxNodes    \* bound: how many nodes there can be

Nodes == 1..MaxNodes
Null == 0

VARIABLES
    link,       \* ListNode::_next
    free_head,  \* _free_list_head
    free_tail,  \* _free_list_tail
    created,    \* how many nodes have been made
    pc,         \* where each thread is
    node,       \* local: the node a thread works with
    succ,       \* local: the `next' or `prev_head' it has read
    out         \* nodes given out and not given back (history)

allocatorVars == <<link, free_head, free_tail, created, pc, node, succ, out>>

\* Node 1 is the first node of the list that the allocator is for, node 2
\* that of the free list.
AllocatorInit ==
    /\ link = [n \in Nodes |-> Null]
    /\ free_head = 2
    /\ free_tail = 2
    /\ created = 2
    /\ pc = [t \in Threads |-> "idle"]
    /\ node = [t \in Threads |-> Null]
    /\ succ = [t \in Threads |-> Null]
    /\ out = {1}

Goto(t, place) == pc' = [pc EXCEPT ![t] = place]

\* A call returns; its locals are gone.
Finish(t) ==
    /\ Goto(t, "idle")
    /\ node' = [node EXCEPT ![t] = Null]
    /\ succ' = [succ EXCEPT ![t] = Null]

-----------------------------------------------------------------------------
(* alloc() *)

\* _tryDequeueFreeList(): spins until it has the tail.
AllocTake(t) ==
    /\ pc[t] = "alloc"
    /\ free_tail # Null
    /\ node' = [node EXCEPT ![t] = free_tail]
    /\ free_tail' = Null
    /\ Goto(t, "alloc_look")
    /\ UNCHANGED <<link, free_head, created, succ, out>>

AllocLook(t) ==
    /\ pc[t] = "alloc_look"
    /\ succ' = [succ EXCEPT ![t] = link[node[t]]]
    /\ Goto(t, "alloc_put")
    /\ UNCHANGED <<link, free_head, free_tail, created, node, out>>

\* The last node stays in the list.
AllocPutBack(t) ==
    /\ pc[t] = "alloc_put"
    /\ succ[t] = Null
    /\ free_tail' = node[t]
    /\ Goto(t, "alloc_grow")
    /\ UNCHANGED <<link, free_head, created, node, succ, out>>

AllocAdvance(t) ==
    /\ pc[t] = "alloc_put"
    /\ succ[t] # Null
    /\ free_tail' = succ[t]
    /\ Goto(t, "alloc_clear")
    /\ UNCHANGED <<link, free_head, created, node, succ, out>>

\* _next of the node that alloc() returns is null.
AllocClear(t) ==
    /\ pc[t] = "alloc_clear"
    /\ link' = [link EXCEPT ![node[t]] = Null]
    /\ out' = out \cup {node[t]}
    /\ Goto(t, "allocated")
    /\ UNCHANGED <<free_head, free_tail, created, node, succ>>

\* A chunk: the first node is kept, the others are chained downwards and the
\* second becomes the head of the free list.
AllocGrow(t) ==
    /\ pc[t] = "alloc_grow"
    /\ created + AllocSize <= MaxNodes
    /\ link' = [n \in Nodes |-> IF n \in (created + 3)..(created + AllocSize) THEN n - 1 ELSE link[n]]
    /\ node' = [node EXCEPT ![t] = created + 1]
    /\ succ' = [succ EXCEPT ![t] = free_head]
    /\ free_head' = created + 2
    /\ created' = created + AllocSize
    /\ Goto(t, "alloc_link")
    /\ UNCHANGED <<free_tail, out>>

AllocLink(t) ==
    /\ pc[t] = "alloc_link"
    /\ link' = [link EXCEPT ![succ[t]] = node[t] + AllocSize - 1]
    /\ out' = out \cup {node[t]}
    /\ Goto(t, "allocated")
    /\ UNCHANGED <<free_head, free_tail, created, node, succ>>

-----------------------------------------------------------------------------
(* free() of node[t] *)

\* Faulty variants are what a slip in the code would make of the definition
\* that follows them; no action uses them.  Faulty: _next is not cleared.
FreeKeepsNext(t) ==
    /\ pc[t] = "free"
    /\ Goto(t, "free_give")
    /\ UNCHANGED <<link, free_head, free_tail, created, node, succ, out>>

FreeClear(t) ==
    /\ pc[t] = "free"
    /\ link' = [link EXCEPT ![node[t]] = Null]
    /\ Goto(t, "free_give")
    /\ UNCHANGED <<free_head, free_tail, created, node, succ, out>>

\* Faulty: a load instead of an exchange.
FreeReadsHead(t) ==
    /\ pc[t] = "free_give"
    /\ succ' = [succ EXCEPT ![t] = free_head]
    /\ Goto(t, "free_link")
    /\ UNCHANGED <<link, free_head, free_tail, created, node, out>>

FreeExchange(t) ==
    /\ pc[t] = "free_give"
    /\ succ' = [succ EXCEPT ![t] = free_head]
    /\ free_head' = node[t]
    /\ Goto(t, "free_link")
    /\ UNCHANGED <<link, free_tail, created, node, out>>

FreeLink(t) ==
    /\ pc[t] = "free_link"
    /\ link' = [link EXCEPT ![succ[t]] = node[t]]
    /\ Finish(t)
    /\ UNCHANGED <<free_head, free_tail, created, out>>

-----------------------------------------------------------------------------
AllocStep(t) ==
    \/ AllocTake(t) \/ AllocLook(t) \/ AllocPutBack(t) \/ AllocAdvance(t)
    \/ AllocClear(t) \/ AllocGrow(t) \/ AllocLink(t)

FreeStep(t) == FreeClear(t) \/ FreeExchange(t) \/ FreeLink(t)

AllocatorTypeOK ==
    /\ link \in [Nodes -> Nodes \cup {Null}]
    /\ free_head \in Nodes
    /\ free_tail \in Nodes \cup {Null}
    /\ created \in Nodes
    /\ node \in [Threads -> Nodes \cup {Null}]
    /\ succ \in [Threads -> Nodes \cup {Null}]
    /\ out \subseteq Nodes
=============================================================================
