---------------------------- MODULE WaitingList ----------------------------
(***************************************************************************)
(* The list of the fibers that wait, which each strategy of a Context with *)
(* DEBUG_ON keeps: pick_next() appends the debug info of the fiber that    *)
(* gives up the thread, awakened() removes it (core/ContextStrategy.cpp,   *)
(* core/FiberDebugInfo.h).  The list is linked through the debug infos     *)
(* themselves, which live as long as their fiber, from a head of its own;  *)
(* only the thread of the strategy touches it, but a fiber that is ready   *)
(* may move to another strategy.                                           *)
(*                                                                         *)
(* Pinned stands for the fibers of each thread that are pinned to it, the  *)
(* main fiber and the dispatcher: they are never in the list.              *)
(***************************************************************************)
EXTENDS Integers, SequencesExt

CONSTANTS
    Strategies,
    Workers,    \* fibers made by Fiber::start()
    Pinned,
    NULL

ListHead(s) == <<s>>    \* _waiting_fibers_head
Infos == Workers \cup {ListHead(s) : s \in Strategies}

VARIABLES
    running,    \* the fiber that has each thread
    queue,      \* the workers in _ready_queue, oldest first
    waits,      \* the workers that wait, in the order in which they gave up the thread (history)
    woken,      \* those of them that another thread has woken
    started,    \* workers that Fiber::start() has made
    next, prev, \* _next and _prev of the debug infos
    last        \* _waiting_fibers_tail

linkVars == <<next, prev, last>>
vars == <<running, queue, waits, woken, started, linkVars>>

Links == [next |-> next, prev |-> prev, last |-> last]

Init ==
    /\ running = [s \in Strategies |-> Pinned]
    /\ queue = [s \in Strategies |-> <<>>]
    /\ waits = [s \in Strategies |-> <<>>]
    /\ woken = {}
    /\ started = {}
    /\ next = [i \in Infos |-> NULL]
    /\ prev = [i \in Infos |-> NULL]
    /\ last = [s \in Strategies |-> ListHead(s)]

-----------------------------------------------------------------------------
(* The list of strategy s, as a function of its links. *)

SetLinks(links) == next' = links.next /\ prev' = links.prev /\ last' = links.last

\* _recordBacktrace(): append f.
Record(links, s, f) ==
    [next |-> [links.next EXCEPT ![links.last[s]] = f],
     prev |-> [links.prev EXCEPT ![f] = links.last[s]],
     last |-> [links.last EXCEPT ![s] = f]]

\* Take f out from between its neighbours.
Unlink(links, f) ==
    [links EXCEPT
        !.next = [@ EXCEPT ![links.prev[f]] = links.next[f], ![f] = NULL],
        !.prev = [i \in Infos |-> IF i = f THEN NULL ELSE IF i = links.next[f] THEN links.prev[f] ELSE @[i]]]

\* Faulty variants are what a slip in the code would make of the definition
\* that follows them; no action uses them.  Faulty: the tail is not moved.
EraseKeepsTail(links, s, f) ==
    IF links.prev[f] = NULL /\ links.next[f] = NULL THEN links ELSE Unlink(links, f)

\* _eraseBacktrace(): remove f, if it is linked.
Erase(links, s, f) ==
    IF links.prev[f] = NULL /\ links.next[f] = NULL
    THEN links
    ELSE [Unlink(links, f) EXCEPT
            !.last = IF links.next[f] = NULL THEN [@ EXCEPT ![s] = links.prev[f]] ELSE @]

-----------------------------------------------------------------------------
\* pick_next() finds `victim' for a worker that gives up the thread: the
\* youngest worker of the queue, or the dispatcher, which is always ready.
Victim(s, victim) ==
    \/ victim = Pinned /\ UNCHANGED queue
    \/ /\ queue[s] # <<>>
       /\ victim = queue[s][Len(queue[s])]
       /\ queue' = [queue EXCEPT ![s] = SubSeq(@, 1, Len(@) - 1)]

Active(s) == running[s] \in Workers

Runs(s, f) == running' = [running EXCEPT ![s] = f]

\* A worker suspends itself.
Suspend(s) ==
    /\ Active(s)
    /\ \E victim \in Workers \cup {Pinned} : Victim(s, victim) /\ Runs(s, victim)
    /\ SetLinks(Record(Links, s, running[s]))
    /\ waits' = [waits EXCEPT ![s] = Append(@, running[s])]
    /\ UNCHANGED <<woken, started>>

\* A worker yields: it is recorded, another fiber runs, and that makes the
\* worker ready again.
Yield(s) ==
    /\ Active(s)
    /\ \/ /\ Runs(s, Pinned)
          /\ queue' = [queue EXCEPT ![s] = Append(@, running[s])]
       \/ /\ queue[s] # <<>>
          /\ Runs(s, queue[s][Len(queue[s])])
          /\ queue' = [queue EXCEPT ![s][Len(queue[s])] = running[s]]
    /\ SetLinks(Erase(Record(Links, s, running[s]), s, running[s]))
    /\ UNCHANGED <<waits, woken, started>>

\* The function of a worker returns: setTerminated(), and pick_next() does not
\* record the worker.  Then it is destroyed.
Terminate(s) ==
    /\ Active(s)
    /\ \E victim \in Workers \cup {Pinned} : Victim(s, victim) /\ Runs(s, victim)
    /\ UNCHANGED <<waits, woken, started, linkVars>>

\* The dispatcher picks a worker of its own thread, or steals the oldest one of
\* another thread.
Dispatcher(s) ==
    /\ running[s] = Pinned
    /\ \/ queue[s] # <<>> /\ \E f \in Workers : Victim(s, f) /\ Runs(s, f)
       \/ /\ queue[s] = <<>>
          /\ \E t \in Strategies : /\ queue[t] # <<>>
                                   /\ Runs(s, queue[t][1])
                                   /\ queue' = [queue EXCEPT ![t] = Tail(@)]
    /\ UNCHANGED <<waits, woken, started, linkVars>>

\* Fiber::start() with launch::post: the new worker is ready.
StartPost(s, f) ==
    /\ f \notin started
    /\ started' = started \cup {f}
    /\ queue' = [queue EXCEPT ![s] = Append(@, f)]
    /\ SetLinks(Erase(Links, s, f))
    /\ UNCHANGED <<running, waits, woken>>

\* With launch::dispatch: it runs at once, and the one that starts it is ready.
StartDispatch(s, f) ==
    /\ f \notin started
    /\ Active(s)
    /\ started' = started \cup {f}
    /\ Runs(s, f)
    /\ queue' = [queue EXCEPT ![s] = Append(@, running[s])]
    /\ SetLinks(Erase(Links, s, running[s]))
    /\ UNCHANGED <<waits, woken>>

Waiters(s) == {waits[s][i] : i \in 1..Len(waits[s])}

\* Another thread wakes a worker: it is handed to the scheduler of its thread.
Wake(f) ==
    /\ \E s \in Strategies : f \in Waiters(s)
    /\ woken' = woken \cup {f}
    /\ UNCHANGED <<running, queue, waits, started, linkVars>>

\* awakened(): the dispatcher finds a worker that was handed over, or a fiber of
\* the same thread wakes it.
Awakened(s, f) ==
    /\ f \in woken => running[s] = Pinned
    /\ woken' = woken \ {f}
    /\ \E i \in DOMAIN waits[s] : waits[s][i] = f /\ waits' = [waits EXCEPT ![s] = RemoveAt(@, i)]
    /\ queue' = [queue EXCEPT ![s] = Append(@, f)]
    /\ SetLinks(Erase(Links, s, f))
    /\ UNCHANGED <<running, started>>

Next ==
    \/ \E s \in Strategies : Suspend(s) \/ Yield(s) \/ Terminate(s) \/ Dispatcher(s)
    \/ \E s \in Strategies, f \in Workers : StartPost(s, f) \/ StartDispatch(s, f) \/ Awakened(s, f)
    \/ \E f \in Workers : Wake(f)

Spec == Init /\ [][Next]_vars

-----------------------------------------------------------------------------
\* The types of the variables.
TypeOK ==
    /\ running \in [Strategies -> Workers \cup {Pinned}]
    /\ \A s \in Strategies : queue[s] \in Seq(Workers) /\ waits[s] \in Seq(Workers)
    /\ woken \subseteq Workers /\ started \subseteq Workers
    /\ next \in [Infos -> Workers \cup {NULL}]
    /\ prev \in [Infos -> Infos \cup {NULL}]
    /\ last \in [Strategies -> Infos]

\* The list of a strategy is linked, in both directions, from its head to its
\* tail, and holds the workers that gave up its thread and wait, in that order.
ListsTheWaiting ==
    \A s \in Strategies :
        LET list == <<ListHead(s)>> \o waits[s] IN
        /\ \A i \in 1..Len(waits[s]) : next[list[i]] = list[i + 1] /\ prev[list[i + 1]] = list[i]
        /\ last[s] = list[Len(list)]
        /\ next[last[s]] = NULL

\* A worker that does not wait is in no list: it may be destroyed, or stolen
\* and wait for another thread.
OthersAreNotLinked ==
    \A f \in Workers :
        (\A s \in Strategies : f \notin Waiters(s)) => next[f] = NULL /\ prev[f] = NULL

\* The waiting lists, wherever fibers yield, wait, end and are stolen.
WaitingInv == TypeOK /\ ListsTheWaiting /\ OthersAreNotLinked
=============================================================================
