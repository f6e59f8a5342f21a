------------------------------ MODULE Context ------------------------------
(***************************************************************************)
(* A Context and the threads that run it: Context::run/post/dispatch/call/ *)
(* terminate (core/Context.{h,hpp,cpp}), the scheduling of fibers by       *)
(* ContextStrategy and the sleep of an idle thread in                      *)
(* BlockingContextStrategy.                                                *)
(*                                                                         *)
(* Other threads push tasks into the remote queue and notify strategy 0.   *)
(* Each strategy thread has two fibers of its own: Main, which called      *)
(* run(), and the Dispatcher of the fiber library, which looks for ready   *)
(* fibers and otherwise asks the strategy to suspend: the strategy then    *)
(* pops one task and starts a fiber for it, or sleeps until it is          *)
(* notified.  The fiber that performs a task releases its record in the    *)
(* ring before it runs the handler.  A handler may sleep: its thread then   *)
(* wakes up in time.                                                       *)
(*                                                                         *)
(* push() and pop() are one step each: ContextTaskQueue shows that the     *)
(* ring delivers records in the order of their reservations.  Tasks are    *)
(* numbered in that order; the ring does not wrap within the bounds.       *)
(***************************************************************************)
EXTENDS Integers, Sequences

CONSTANTS
    ThreadNum,      \* thread_num: how many threads call run()
    Posters,        \* other threads that use the Context
    BlockingFlag,   \* "BLOCKING" or "POLLING"
    MaxTasks,       \* bound: how many tasks are posted from outside
    RecordSize,     \* bytes of a record in the ring
    Capacity        \* bytes of the ring

ASSUME ThreadNumAssumption == ThreadNum \in Nat \ {0}
ASSUME BlockingFlagAssumption == BlockingFlag \in {"BLOCKING", "POLLING"}
ASSUME FirstLapAssumption == /\ MaxTasks \in Nat /\ RecordSize \in Nat /\ Capacity \in Nat
                             /\ MaxTasks * RecordSize < Capacity

Strategies == 0..(ThreadNum - 1)
TaskNumbers == 1..MaxTasks

(***************************************************************************)
(* Fibers.  Main and Dispatcher are pinned to their thread.  Task(n)       *)
(* performs the n-th posted task, Child(n) is a fiber its handler starts,  *)
(* Rest(n) is the handler that goes on after a dispatch() or a sleep.      *)
(***************************************************************************)
Main == [kind |-> "main", nr |-> 0]
Dispatcher == [kind |-> "dispatcher", nr |-> 0]
Task(n) == [kind |-> "task", nr |-> n]
Child(n) == [kind |-> "child", nr |-> n]
Rest(n) == [kind |-> "rest", nr |-> n]
Fibers == {Main, Dispatcher} \cup [kind : {"task", "child", "rest"}, nr : TaskNumbers]

VARIABLES
    strategies, \* the strategies entered in _strategies
    spc,        \* where each strategy thread is
    ready,      \* _ready_queue, oldest fiber first
    remote,     \* threads whose main fiber was woken from another thread
    sleeping,   \* the handlers that sleep in each thread
    due,        \* those of them whose time has come, in that order
    current,    \* the active fiber
    notified,   \* BlockingContextStrategy::_notified
    done,       \* _done
    tpc,        \* where terminate() is
    pushed,     \* number of tasks pushed
    released,   \* records released: _consumer_barrier in records
    poped,      \* _poped, in records
    consumed,   \* _consumed, in records
    ppc,        \* where each poster is
    task,       \* the task a poster has pushed last
    performed,  \* tasks in the order their handlers start
    finished,   \* tasks whose handler has returned
    crashed     \* a strategy was used before its constructor had run

sleepVars == <<sleeping, due>>
scheduleVars == <<spc, ready, current, sleepVars>>
queueVars == <<released, poped, consumed>>
posterVars == <<pushed, ppc, task>>
terminateVars == <<remote, notified, done, tpc>>
historyVars == <<performed, finished>>
vars == <<strategies, scheduleVars, queueVars, posterVars, terminateVars, historyVars, crashed>>

Init ==
    /\ strategies = {}
    /\ spc = [s \in Strategies |-> "new"]
    /\ ready = [s \in Strategies |-> <<>>]
    /\ remote = {}
    /\ sleeping = [s \in Strategies |-> {}]
    /\ due = [s \in Strategies |-> <<>>]
    /\ current = [s \in Strategies |-> Main]
    /\ notified = [s \in Strategies |-> FALSE]
    /\ done = FALSE
    /\ tpc = "none"
    /\ pushed = 0 /\ released = 0 /\ poped = 0 /\ consumed = 0
    /\ ppc = [p \in Posters |-> "idle"]
    /\ task = [p \in Posters |-> 0]
    /\ performed = <<>>
    /\ finished = {}
    /\ crashed = FALSE

-----------------------------------------------------------------------------
(* Threads outside the Context. *)

\* _postTaskFromRemote(): the push.  `then' is where the caller goes on.
Push(p, then) ==
    /\ ppc[p] = "idle"
    /\ pushed < MaxTasks
    /\ pushed' = pushed + 1
    /\ task' = [task EXCEPT ![p] = pushed + 1]
    /\ ppc' = [ppc EXCEPT ![p] = then]
    /\ UNCHANGED <<strategies, scheduleVars, terminateVars, queueVars, historyVars, crashed>>

\* post() or dispatch() from a thread that does not run this Context.
Post(p) == Push(p, "post_notify")

\* call() posts a packaged task and waits for its result.
Call(p) == Push(p, "call_notify")

\* onNotified() of the strategies in `set'.
OnNotified(set) ==
    notified' = [s \in Strategies |-> notified[s] \/ (s \in set /\ BlockingFlag = "BLOCKING")]

\* onNotified() of the strategies in `set', on behalf of a poster.
NotifyStrategies(p, set) ==
    /\ ppc[p] \in {"post_notify", "call_notify"}
    /\ OnNotified(set)
    /\ ppc' = [ppc EXCEPT ![p] = IF @ = "post_notify" THEN "idle" ELSE "call_wait"]
    /\ UNCHANGED <<strategies, scheduleVars, remote, done, tpc, queueVars, pushed, task, historyVars>>

\* Faulty variants are what a slip in the code would make of the definition
\* that follows them; no action uses them.  Faulty: nobody is notified.
NotifyNobody(p) == NotifyStrategies(p, {}) /\ UNCHANGED crashed

\* _notify(0): nothing to do before strategy 0 has entered itself.  It does so
\* before it is constructed: onNotified() is still a pure virtual function, or
\* it works on members without a value (a mutex, the handle of a thread), and
\* the program may crash.
Notify(p) ==
    IF spc[0] = "constructing"
    THEN NotifyStrategies(p, {}) /\ crashed' \in BOOLEAN
    ELSE NotifyStrategies(p, strategies \cap {0}) /\ UNCHANGED crashed

CallReturns(p) ==
    /\ ppc[p] = "call_wait"
    /\ task[p] \in finished
    /\ ppc' = [ppc EXCEPT ![p] = "idle"]
    /\ UNCHANGED <<strategies, scheduleVars, terminateVars, queueVars, pushed, task, historyVars, crashed>>

\* terminate() under _done_mutex.
Terminate ==
    /\ tpc = "none"
    /\ done' = TRUE
    /\ tpc' = "notify_all"
    /\ UNCHANGED <<strategies, scheduleVars, remote, notified, queueVars, posterVars, historyVars, crashed>>

\* The threads whose main fiber waits on _done_cv.
Waiting == {s \in Strategies : spc[s] \notin {"new", "constructing", "barrier", "returned"}}

\* Each waiting main fiber is handed to its scheduler, the strategies in `set'
\* are notified.
NotifyAll(set) ==
    /\ tpc = "notify_all"
    /\ tpc' = "done"
    /\ remote' = remote \cup Waiting
    /\ OnNotified(set)
    /\ UNCHANGED <<strategies, scheduleVars, done, queueVars, posterVars, historyVars, crashed>>

\* Faulty: only strategy 0 is notified.
TerminateNotifyFirst == NotifyAll(Waiting \cap {0})

\* _done_cv.notify_all(): each scheduler notifies its strategy.
TerminateNotify == NotifyAll(Waiting)

-----------------------------------------------------------------------------
(* A strategy thread. *)

Goto(s, place) == spc' = [spc EXCEPT ![s] = place]

\* run(): the constructor of the base class enters the strategy in _strategies.
Enter(s) ==
    /\ spc[s] = "new"
    /\ strategies' = strategies \cup {s}
    /\ Goto(s, "constructing")
    /\ UNCHANGED <<ready, current, sleepVars, terminateVars, queueVars, posterVars, historyVars, crashed>>

\* The strategy is complete, and the fiber library gives it the fibers that
\* are ready: the Dispatcher.
Construct(s) ==
    /\ spc[s] = "constructing"
    /\ ready' = [ready EXCEPT ![s] = <<Dispatcher>>]
    /\ Goto(s, "barrier")
    /\ UNCHANGED <<strategies, current, sleepVars, terminateVars, queueVars, posterVars, historyVars, crashed>>

\* _barrier.wait() returns when every thread has come.
LeaveBarrier(s, place) ==
    /\ spc[s] = "barrier"
    /\ \A t \in Strategies : spc[t] \notin {"new", "constructing"}
    /\ Goto(s, place)
    /\ UNCHANGED <<strategies, ready, current, sleepVars, terminateVars, queueVars, posterVars, historyVars, crashed>>

\* Faulty: the wait on _done_cv has no predicate.
PassBarrierIgnoresDone(s) == LeaveBarrier(s, "pick")

\* The main fiber waits on _done_cv, unless the Context is terminated already.
PassBarrier(s) == LeaveBarrier(s, IF done THEN "returned" ELSE "pick")

\* A fiber gets the thread.  The main fiber runs again only after
\* terminate(): run() returns.
Resume(s, fiber) ==
    /\ current' = [current EXCEPT ![s] = fiber]
    /\ Goto(s, CASE fiber = Main -> "returned"
                 [] fiber = Dispatcher -> "dispatch"
                 [] fiber.kind = "rest" -> "tail"
                 [] OTHER -> "start")

\* pick_next(): the youngest fiber of the thread's own queue, for a fiber that
\* has stopped or for the Dispatcher, which becomes ready itself.
PickNext(s) ==
    /\ spc[s] \in {"pick", "look"}
    /\ ready[s] # <<>>
    /\ Resume(s, ready[s][Len(ready[s])])
    /\ ready' = [ready EXCEPT ![s] = SubSeq(@, 1, Len(@) - 1)
                                        \o (IF spc[s] = "look" THEN <<Dispatcher>> ELSE <<>>)]
    /\ UNCHANGED <<strategies, sleepVars, terminateVars, queueVars, posterVars, historyVars, crashed>>

\* The Dispatcher makes the fibers that other threads woke ready, then those
\* that have slept long enough.
RemoteReady(s) ==
    /\ spc[s] = "dispatch"
    /\ remote' = remote \ {s}
    /\ due' = [due EXCEPT ![s] = <<>>]
    /\ ready' = [ready EXCEPT ![s] = @ \o (IF s \in remote THEN <<Main>> ELSE <<>>) \o due[s]]
    /\ Goto(s, "look")
    /\ UNCHANGED <<strategies, current, sleeping, notified, done, tpc, queueVars, posterVars, historyVars, crashed>>

\* The oldest fiber of another strategy, if it is not in `kept'.
StealUnless(s, t, kept) ==
    /\ spc[s] = "look"
    /\ ready[s] = <<>>
    /\ t # s
    /\ ready[t] # <<>>
    /\ Head(ready[t]) \notin kept
    /\ Resume(s, Head(ready[t]))
    /\ ready' = [ready EXCEPT ![t] = Tail(@), ![s] = <<Dispatcher>>]
    /\ UNCHANGED <<strategies, sleepVars, terminateVars, queueVars, posterVars, historyVars, crashed>>

\* Faulty: a pinned fiber may be stolen too.
StealPinned(s, t) == StealUnless(s, t, {})

\* pick_next() steals, but no pinned fiber.
Steal(s, t) == StealUnless(s, t, {Main, Dispatcher})

\* pick_next() has found nothing, not even after some random tries to steal.
PickNothing(s) ==
    /\ spc[s] = "look"
    /\ ready[s] = <<>>
    /\ Goto(s, "suspend")
    /\ UNCHANGED <<strategies, sleepVars, ready, current, terminateVars, queueVars, posterVars, historyVars, crashed>>

\* pop() returns a task, `step' tasks further in a range that it has consumed.
LaunchAfter(s, step) ==
    /\ spc[s] = "suspend"
    /\ \/ /\ poped < consumed
          /\ poped' = poped + step
          /\ UNCHANGED consumed
       \/ /\ poped >= consumed
          /\ released < pushed
          /\ poped' = released + 1
          /\ consumed' = pushed
    /\ ready' = [ready EXCEPT ![s] = Append(@, Task(poped'))]
    /\ Goto(s, "dispatch")
    /\ UNCHANGED <<strategies, current, sleepVars, terminateVars, released, posterVars, historyVars, crashed>>

\* Faulty: pop() does not advance _poped within a consumed range.
LaunchPostedTaskAgain(s) == LaunchAfter(s, 0)

\* suspend_until(): pop() returns a task, a new fiber becomes ready.
LaunchPostedTask(s) == LaunchAfter(s, 1)

\* suspend_until(): pop() returns false, onSuspended() is called.
NoPostedTask(s) ==
    /\ spc[s] = "suspend"
    /\ poped >= consumed
    /\ released >= pushed
    /\ Goto(s, IF BlockingFlag = "BLOCKING" THEN "on_suspended" ELSE "dispatch")
    /\ UNCHANGED <<strategies, sleepVars, ready, current, terminateVars, queueVars, posterVars, historyVars, crashed>>

\* onSuspended(), under _suspend_mutex: wait on _suspend_cv unless the
\* predicate holds.
Suspend(s, predicate) ==
    /\ spc[s] = "on_suspended"
    /\ notified' = [notified EXCEPT ![s] = FALSE]
    /\ Goto(s, IF predicate THEN "dispatch" ELSE "asleep")
    /\ UNCHANGED <<strategies, ready, current, sleepVars, remote, done, tpc, queueVars, posterVars, historyVars, crashed>>

\* Faulty: a notification that came before the wait is forgotten.
OnSuspendedForgets(s) == Suspend(s, FALSE)

OnSuspended(s) == Suspend(s, notified[s])

\* The wait on _suspend_cv ends, when a fiber of the thread sleeps at the time
\* at which it has to go on.
WakeUp(s) ==
    /\ spc[s] = "asleep"
    /\ notified[s] \/ due[s] # <<>>
    /\ notified' = [notified EXCEPT ![s] = FALSE]
    /\ Goto(s, "dispatch")
    /\ UNCHANGED <<strategies, ready, current, sleepVars, remote, done, tpc, queueVars, posterVars, historyVars, crashed>>

\* The time of a sleeping handler comes.
TimeComes(s, n) ==
    /\ n \in sleeping[s]
    /\ sleeping' = [sleeping EXCEPT ![s] = @ \ {n}]
    /\ due' = [due EXCEPT ![s] = Append(@, Rest(n))]
    /\ UNCHANGED <<strategies, spc, ready, current, terminateVars, queueVars, posterVars, historyVars, crashed>>

\* A new fiber runs.  For a posted task doPerform() releases the record first.
Perform(s) ==
    /\ spc[s] = "start"
    /\ IF current[s].kind = "task"
       THEN /\ released' = released + 1
            /\ performed' = Append(performed, current[s].nr)
            /\ Goto(s, "handler")
       ELSE Goto(s, "tail") /\ UNCHANGED <<released, performed>>
    /\ UNCHANGED <<strategies, sleepVars, ready, current, terminateVars, poped, consumed, posterVars, finished, crashed>>

\* The handler calls post() on its own Context: a new fiber becomes ready.
PostLocal(s) ==
    /\ spc[s] = "handler"
    /\ ready' = [ready EXCEPT ![s] = Append(@, Child(current[s].nr))]
    /\ Goto(s, "tail")
    /\ UNCHANGED <<strategies, sleepVars, current, terminateVars, queueVars, posterVars, historyVars, crashed>>

\* The handler calls dispatch() on its own Context: the new fiber runs at
\* once, the handler is ready.
DispatchLocal(s) ==
    /\ spc[s] = "handler"
    /\ ready' = [ready EXCEPT ![s] = Append(@, Rest(current[s].nr))]
    /\ Resume(s, Child(current[s].nr))
    /\ UNCHANGED <<strategies, sleepVars, terminateVars, queueVars, posterVars, historyVars, crashed>>

\* The handler sleeps: another fiber of its thread runs.
Sleep(s) ==
    /\ spc[s] = "handler"
    /\ sleeping' = [sleeping EXCEPT ![s] = @ \cup {current[s].nr}]
    /\ Goto(s, "pick")
    /\ UNCHANGED <<strategies, ready, current, due, terminateVars, queueVars, posterVars, historyVars, crashed>>

\* The handler calls terminate() on its own Context.
TerminateLocal(s) ==
    /\ spc[s] = "handler"
    /\ tpc = "none"
    /\ done' = TRUE
    /\ tpc' = "local"
    /\ Goto(s, "notify_all")
    /\ UNCHANGED <<strategies, sleepVars, ready, current, remote, notified, queueVars, posterVars, historyVars, crashed>>

\* Its notify_all(): the main fiber of this thread becomes ready directly.
TerminateNotifyLocal(s) ==
    /\ spc[s] = "notify_all"
    /\ tpc' = "done"
    /\ ready' = [ready EXCEPT ![s] = Append(@, Main)]
    /\ remote' = remote \cup (Waiting \ {s})
    /\ OnNotified(Waiting \ {s})
    /\ Goto(s, "tail")
    /\ UNCHANGED <<strategies, sleepVars, current, done, queueVars, posterVars, historyVars, crashed>>

\* The handler returns and its fiber ends.
HandlerReturns(s) ==
    /\ spc[s] \in {"handler", "tail"}
    /\ finished' = IF current[s].kind = "child" THEN finished ELSE finished \cup {current[s].nr}
    /\ Goto(s, "pick")
    /\ UNCHANGED <<strategies, sleepVars, ready, current, terminateVars, queueVars, posterVars, performed, crashed>>

-----------------------------------------------------------------------------
SchedulerStep(s) ==
    \/ Enter(s) \/ Construct(s) \/ PassBarrier(s) \/ RemoteReady(s) \/ PickNext(s)
    \/ (\E t \in Strategies : Steal(s, t)) \/ PickNothing(s) \/ LaunchPostedTask(s) \/ NoPostedTask(s)

\* What differs from one kind of strategy to the other.
SuspendStep(s) == OnSuspended(s) \/ WakeUp(s)

HandlerStep(s) ==
    \/ Perform(s) \/ PostLocal(s) \/ DispatchLocal(s) \/ Sleep(s)
    \/ TerminateLocal(s) \/ TerminateNotifyLocal(s) \/ HandlerReturns(s)

OutsideStep ==
    \/ \E p \in Posters : Post(p) \/ Call(p) \/ Notify(p) \/ CallReturns(p)
    \/ Terminate \/ TerminateNotify
    \/ \E s \in Strategies, n \in TaskNumbers : TimeComes(s, n)

Next ==
    /\ ~crashed
    /\ \/ OutsideStep
       \/ \E s \in Strategies : SchedulerStep(s) \/ SuspendStep(s) \/ HandlerStep(s)

\* The operating system runs every thread that is not blocked, time passes, and
\* handlers return.  Nobody has to post, to call or to terminate.
Fairness ==
    /\ \A p \in Posters : WF_vars(~crashed /\ (Notify(p) \/ CallReturns(p)))
    /\ WF_vars(~crashed /\ TerminateNotify)
    /\ \A s \in Strategies :
        /\ WF_vars(~crashed /\ (SchedulerStep(s) \/ SuspendStep(s) \/ HandlerStep(s)))
        /\ \A n \in TaskNumbers : WF_vars(~crashed /\ TimeComes(s, n))

Spec == Init /\ [][Next]_vars

FairSpec == Spec /\ Fairness

-----------------------------------------------------------------------------
\* The types of the variables.  Two threads may count past MaxTasks.
AnyFibers == [kind : {"main", "dispatcher", "task", "child", "rest"}, nr : Nat]

Places == {"new", "constructing", "barrier", "pick", "dispatch", "look", "suspend", "on_suspended", "asleep",
           "read", "start", "handler", "notify_all", "tail", "returned"}

TypeOK ==
    /\ strategies \subseteq Strategies
    /\ spc \in [Strategies -> Places]
    /\ ready \in [Strategies -> Seq(AnyFibers)]
    /\ due \in [Strategies -> Seq(AnyFibers)]
    /\ current \in [Strategies -> AnyFibers]
    /\ remote \subseteq Strategies
    /\ sleeping \in [Strategies -> SUBSET Nat]
    /\ notified \in [Strategies -> BOOLEAN]
    /\ ppc \in [Posters -> {"idle", "post_notify", "call_notify", "call_wait"}]
    /\ pushed \in Nat /\ released \in Nat /\ poped \in Nat /\ consumed \in Nat
    /\ task \in [Posters -> Nat]
    /\ done \in BOOLEAN /\ crashed \in BOOLEAN
    /\ tpc \in {"none", "notify_all", "local", "done"}

\* A strategy thread sleeps beside a pushed task only while the notification
\* is on its way: pop() fails, the task is pushed and notified, and only then
\* does the thread reach the wait of onSuspended().
NoLostWakeup ==
    spc[0] = "asleep" /\ released < pushed =>
        notified[0] \/ \E p \in Posters : ppc[p] \in {"post_notify", "call_notify"}

\* After terminate() no thread sleeps without having been notified, wherever
\* in its loop notify_all() caught it.
NoLostTermination ==
    tpc = "done" => \A s \in Strategies : spc[s] = "asleep" => notified[s]

\* A fiber that stops always finds another one in the ready queue of its
\* thread: pick_next() of a blocked or finished fiber must not return null.
ReadyQueueNeverRunsDry ==
    \A s \in Strategies : spc[s] \in {"pick", "start", "handler", "notify_all", "tail"} => ready[s] # <<>>

\* release() asserts released_written <= _capacity: no record is given back
\* that was not consumed.
ReleaseStaysInBuffer == released * RecordSize <= Capacity

\* The module says what pop() does only up to here: two threads may pop the
\* same record and release it twice, and then _consumer_barrier has passed
\* _producer_barrier.  Behaviours are followed up to that point.
NotOverReleased == released <= pushed

\* Handlers of posted tasks start exactly once, in the order of the posts.
PerformedInOrder == performed = [i \in 1..Len(performed) |-> i]

\* The states of a Context with one strategy thread: tasks run once, in order.
ContextInv == TypeOK /\ PerformedInOrder /\ released <= pushed

\* pick_next() looks into the strategies of all threads without a check: none
\* is missing when the first thread schedules.
StrategiesAreThere ==
    \A s \in Waiting : strategies = Strategies

\* What pick_next() relies on, in every thread: the others' strategies are
\* there, and stealing has left it a fiber to switch to.
PickNextFindsAll == StrategiesAreThere /\ ReadyQueueNeverRunsDry

\* A posted task is performed, unless the Context is terminated first.
PostedTasksRun ==
    \A t \in TaskNumbers : pushed >= t ~> t \in finished \/ done \/ crashed

\* terminate() ends run() in every thread, also in one that is not in it yet.
TerminateEndsRun == done ~> crashed \/ \A s \in Strategies : spc[s] = "returned"

\* What the tests rely on, which start run() in a thread and post at once: the
\* tasks run.
EveryPostRuns ==
    \A t \in TaskNumbers : pushed >= t ~> t \in finished \/ done

-----------------------------------------------------------------------------
(* The inductive invariant, for any number of threads. *)

Has(queue, fiber) == \E i \in 1..Len(queue) : queue[i] = fiber

\* A thread that has begun is registered, and all have begun when one of them
\* is past the barrier.
Registered ==
    /\ \A s \in Strategies : spc[s] # "new" => s \in strategies
    /\ \A s \in Waiting, t \in Strategies : spc[t] # "new"

\* The Dispatcher of a thread is ready while another fiber runs, and it suspends
\* the thread only when no fiber is ready.
SchedulerInv ==
    \A s \in Strategies :
        /\ spc[s] \in {"barrier", "pick", "start", "handler", "notify_all", "tail"} => Has(ready[s], Dispatcher)
        /\ spc[s] \in {"suspend", "on_suspended", "asleep"} => ready[s] = <<>>
        /\ spc[s] \in {"on_suspended", "asleep"} => BlockingFlag = "BLOCKING"

Notifying == {p \in Posters : ppc[p] \in {"post_notify", "call_notify"}}

\* A task that thread 0 has not seen when it found the queue empty comes with a
\* notification.
WakeupInv ==
    spc[0] \in {"on_suspended", "asleep"} /\ released < pushed => notified[0] \/ Notifying # {}

\* After terminate() the main fiber of a thread is handed over or ready, and a
\* thread that has not looked at what is handed over yet is notified.
TerminationInv ==
    /\ tpc # "none" \/ (\E s \in Strategies : spc[s] = "notify_all") => done
    /\ tpc # "done" => remote = {}
    /\ tpc = "done" => \A s \in Waiting : s \in remote \/ Has(ready[s], Main)
    /\ BlockingFlag = "BLOCKING" =>
        \A s \in remote : spc[s] \in {"look", "suspend", "on_suspended", "asleep"} => notified[s]

SleepInv == TypeOK /\ Registered /\ SchedulerInv /\ WakeupInv /\ TerminationInv
=============================================================================
