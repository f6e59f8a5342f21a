----------------------------- MODULE ObjectPool -----------------------------
(***************************************************************************)
(* The pool of objects that threads share (core/concurrency/ObjectPool.hpp)*)
(* An object is the _data of a node, so a thread holds nodes; alloc() and  *)
(* free() are those of the allocator.  Any thread may free any object.     *)
(***************************************************************************)
EXTENDS ListNodeAllocator

VARIABLE objects    \* the objects that are in use

vars == <<allocatorVars, objects>>

Init == AllocatorInit /\ objects = {}

Alloc(t) ==
    /\ pc[t] = "idle"
    /\ Goto(t, "alloc")
    /\ UNCHANGED <<link, free_head, free_tail, created, node, succ, out, objects>>

Allocated(t) ==
    /\ pc[t] = "allocated"
    /\ objects' = objects \cup {node[t]}
    /\ Finish(t)
    /\ UNCHANGED <<link, free_head, free_tail, created, out>>

Free(t, n) ==
    /\ pc[t] = "idle"
    /\ n \in objects
    /\ objects' = objects \ {n}
    /\ out' = out \ {n}
    /\ node' = [node EXCEPT ![t] = n]
    /\ Goto(t, "free")
    /\ UNCHANGED <<link, free_head, free_tail, created, succ>>

InAllocator(t) == AllocStep(t) \/ FreeStep(t)

Step(t) ==
    \/ Alloc(t)
    \/ Allocated(t)
    \/ \E n \in objects : Free(t, n)
    \/ InAllocator(t) /\ UNCHANGED objects

Next == \E t \in Threads : Step(t)

Spec == Init /\ [][Next]_vars

-----------------------------------------------------------------------------
\* The nodes of the free list, from its tail on.  While a thread holds the
\* tail, the list begins at the node that it has in its hands, or after it.
TakenBy(t) == pc[t] \in {"alloc_look", "alloc_put"}

FreeListStart ==
    IF free_tail # Null THEN free_tail
    ELSE node[CHOOSE t \in Threads : TakenBy(t)]

\* Nodes that a thread is putting into the free list, or has just taken.
InHand(t) ==
    CASE pc[t] \in {"free", "free_give", "alloc_clear", "allocated"} -> {node[t]}
      [] pc[t] = "alloc_link" -> {node[t]}
      [] OTHER -> {}

\* The last link that a chain of exchanges has not stored yet: where a thread
\* goes on when FreeLink or AllocLink is still to come.
Hops ==
    [n \in Nodes |->
        IF link[n] # Null THEN link[n]
        ELSE IF \E t \in Threads : pc[t] = "free_link" /\ succ[t] = n
             THEN node[CHOOSE t \in Threads : pc[t] = "free_link" /\ succ[t] = n]
        ELSE IF \E t \in Threads : pc[t] = "alloc_link" /\ succ[t] = n
             THEN node[CHOOSE t \in Threads : pc[t] = "alloc_link" /\ succ[t] = n] + AllocSize - 1
        ELSE Null]

FreeList ==
    LET hops == Hops
        last[k \in 0..MaxNodes] ==
            IF k = 0 THEN FreeListStart
            ELSE IF last[k - 1] = Null THEN Null ELSE hops[last[k - 1]]
    IN  {last[k] : k \in 0..MaxNodes} \ {Null}

\* No node is lost and none is in two places: every node that was made is
\* in the free list, in the hands of one thread, or in use, in each state of
\* the two-step appends and of the chunk that is linked in.
EveryNodeIsSomewhere ==
    LET hands == UNION {InHand(t) : t \in Threads}
        free == FreeList
    IN  /\ free \cup hands \cup objects = 2..created
        /\ free \cap hands = {} /\ free \cap objects = {} /\ hands \cap objects = {}
        /\ \A t, u \in Threads : t # u => InHand(t) \cap InHand(u) = {}
        /\ free_head \in free

\* The types of the variables.
TypeOK == AllocatorTypeOK /\ objects \subseteq Nodes

\* The pool's nodes are all accounted for.
PoolInv == TypeOK /\ EveryNodeIsSomewhere
=============================================================================
