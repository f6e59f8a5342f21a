----------------------------- MODULE SpinMutex -----------------------------
(***************************************************************************)
(* SpinMutex (core/detail/SpinMutex.cpp): a queue lock.  _tail is the node *)
(* of the last thread in line; a thread links itself behind its            *)
(* predecessor and spins on its own node.  Every thread has one node, for  *)
(* every mutex it locks; this module has one mutex.                        *)
(***************************************************************************)
EXTENDS Integers

CONSTANTS
    Threads,
    MaxLocks    \* bound: calls of lock() and try_lock() of each thread

None == "none"

VARIABLES
    tail,       \* _tail
    locked,     \* _locked of each thread's node
    next,       \* _next of each thread's node
    pc,         \* where each thread is
    prev,       \* local `prev_node'
    locks       \* calls of lock() and try_lock() of each thread

nodeVars == <<tail, locked, next>>
vars == <<nodeVars, pc, prev, locks>>

Init ==
    /\ tail = None
    /\ locked = [t \in Threads |-> TRUE]
    /\ next = [t \in Threads |-> None]
    /\ pc = [t \in Threads |-> "idle"]
    /\ prev = [t \in Threads |-> None]
    /\ locks = [t \in Threads |-> 0]

Goto(t, place) == pc' = [pc EXCEPT ![t] = place]

Begin(t) ==
    /\ pc[t] = "idle"
    /\ locks[t] < MaxLocks
    /\ locks' = [locks EXCEPT ![t] = @ + 1]

-----------------------------------------------------------------------------
(* lock() *)

\* Faulty variants are what a slip in the code would make of the definition
\* that follows them; no action uses them.  Faulty: _tail is loaded, and the
\* thread does not put itself there.
LockWithoutExchange(t) ==
    /\ Begin(t)
    /\ prev' = [prev EXCEPT ![t] = tail]
    /\ Goto(t, IF tail = None THEN "critical" ELSE "set")
    /\ UNCHANGED nodeVars

LockExchange(t) ==
    /\ Begin(t)
    /\ prev' = [prev EXCEPT ![t] = tail]
    /\ tail' = t
    /\ Goto(t, IF tail = None THEN "critical" ELSE "set")
    /\ UNCHANGED <<locked, next>>

LockSet(t) ==
    /\ pc[t] = "set"
    /\ locked' = [locked EXCEPT ![t] = TRUE]
    /\ Goto(t, "link")
    /\ UNCHANGED <<tail, next, prev, locks>>

LockLink(t) ==
    /\ pc[t] = "link"
    /\ next' = [next EXCEPT ![prev[t]] = t]
    /\ Goto(t, "spin")
    /\ UNCHANGED <<tail, locked, prev, locks>>

LockSpin(t) ==
    /\ pc[t] = "spin"
    /\ ~locked[t]
    /\ Goto(t, "critical")
    /\ UNCHANGED <<nodeVars, prev, locks>>

TryLock(t) ==
    /\ Begin(t)
    /\ IF tail = None
       THEN tail' = t /\ Goto(t, "critical")
       ELSE UNCHANGED <<tail, pc>>
    /\ UNCHANGED <<locked, next, prev>>

-----------------------------------------------------------------------------
(* unlock() *)

\* When a successor has already linked itself, unlock() is over.
UnlockLooks(t) ==
    /\ pc[t] = "critical"
    /\ Goto(t, IF next[t] = None THEN "swap" ELSE "idle")
    /\ UNCHANGED <<nodeVars, prev, locks>>

UnlockSwap(t) ==
    /\ pc[t] = "swap"
    /\ IF tail = t
       THEN tail' = None /\ Goto(t, "idle")
       ELSE UNCHANGED tail /\ Goto(t, "hand")
    /\ UNCHANGED <<locked, next, prev, locks>>

UnlockHands(t) ==
    /\ pc[t] = "hand"
    /\ next[t] # None
    /\ locked' = [locked EXCEPT ![next[t]] = FALSE]
    /\ Goto(t, "clear")
    /\ UNCHANGED <<tail, next, prev, locks>>

UnlockClears(t) ==
    /\ pc[t] = "clear"
    /\ next' = [next EXCEPT ![t] = None]
    /\ Goto(t, "idle")
    /\ UNCHANGED <<tail, locked, prev, locks>>

-----------------------------------------------------------------------------
Lock(t) == LockExchange(t) \/ LockSet(t) \/ LockLink(t) \/ LockSpin(t)

Unlock(t) == UnlockLooks(t) \/ UnlockSwap(t) \/ UnlockHands(t) \/ UnlockClears(t)

Next == \E t \in Threads : Lock(t) \/ TryLock(t) \/ Unlock(t)

Spec == Init /\ [][Next]_vars

-----------------------------------------------------------------------------
Inside == {"critical", "swap"}

\* Threads that have the lock: from the end of lock() until unlock() has given
\* it away.
Holders == {t \in Threads : pc[t] \in Inside}

\* Two threads never have the lock.
MutualExclusion == \A t, u \in Holders : t = u

\* Threads that come to the lock line up one behind the other: no two have the
\* same predecessor to link themselves to.
LineIsSingle ==
    \A t, u \in Threads : pc[t] \in {"set", "link"} /\ pc[u] \in {"set", "link"} /\ t # u =>
        prev[t] # prev[u]

\* A thread that spins is the one its predecessor will wake, as long as that
\* one has not come to the lock again.
SpinnersAreLinked ==
    \A t \in Threads : pc[t] = "spin" /\ locked[t] /\ pc[prev[t]] \in Inside \cup {"hand"} =>
        next[prev[t]] = t

\* The line of threads at the lock, with the holder at its head.
MutexInv == MutualExclusion /\ LineIsSingle /\ SpinnersAreLinked
=============================================================================
