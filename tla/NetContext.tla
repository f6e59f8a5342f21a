----------------------------- MODULE NetContext -----------------------------
(***************************************************************************)
(* A NetContext: a Context whose only strategy, a                          *)
(* MultiplexingContextStrategy, sleeps in the epoll_wait() of an           *)
(* EpollSelector (net/NetContext.cpp, net/MultiplexingContextStrategy.cpp, *)
(* net/detail/linux/EpollSelector.cpp).                                    *)
(*                                                                         *)
(* A notification is the signal SIGUSR2, sent to the thread, which blocks  *)
(* it: `notified' says that it is pending.  A signal that is pending       *)
(* already is not sent again.  A signalfd makes it an event of epoll, in   *)
(* edge-triggered mode: epoll_wait() reports it once for each signal that  *)
(* becomes pending, and the thread then reads the signal off.              *)
(***************************************************************************)
EXTENDS Context

VARIABLE edge   \* the signalfd is in the ready list of epoll

netVars == <<vars, edge>>

NetInit == Init /\ edge = [s \in Strategies |-> FALSE]

-----------------------------------------------------------------------------
\* What Context says of a step, where the kernel puts the signalfd into the
\* ready list of epoll when the signal becomes pending.
WithSignals(step) ==
    /\ step
    /\ edge' = [s \in Strategies |-> edge[s] \/ (notified'[s] /\ ~notified[s])]

\* onSuspended(): the timeout is at least a millisecond for a fiber that sleeps,
\* and epoll_wait() begins.
Select(s) ==
    /\ spc[s] = "on_suspended"
    /\ Goto(s, "asleep")
    /\ UNCHANGED <<strategies, ready, current, sleepVars, terminateVars, queueVars, posterVars, historyVars,
                   crashed, edge>>

\* epoll_wait() returns with the event of the signalfd; `then' is where the
\* thread goes on.
SignalEvent(s, then) ==
    /\ spc[s] = "asleep"
    /\ edge[s]
    /\ edge' = [edge EXCEPT ![s] = FALSE]
    /\ Goto(s, then)
    /\ UNCHANGED <<strategies, ready, current, sleepVars, terminateVars, queueVars, posterVars, historyVars, crashed>>

\* Faulty: the signal is not read.
SelectSignalUnread(s) == SignalEvent(s, "dispatch")

SelectSignal(s) == SignalEvent(s, "read")

\* epoll_wait() returns without it: the time of a fiber has come.
SelectTimeout(s) ==
    /\ spc[s] = "asleep"
    /\ ~edge[s]
    /\ due[s] # <<>>
    /\ Goto(s, "dispatch")
    /\ UNCHANGED <<strategies, ready, current, sleepVars, terminateVars, queueVars, posterVars, historyVars,
                   crashed, edge>>

\* epoll_wait() returns without it: a socket has an event, or the wait was
\* interrupted.
SelectOther(s) ==
    /\ spc[s] = "asleep"
    /\ ~edge[s]
    /\ Goto(s, "dispatch")
    /\ UNCHANGED <<strategies, ready, current, sleepVars, terminateVars, queueVars, posterVars, historyVars,
                   crashed, edge>>

\* _readSignal()
ReadSignal(s) ==
    /\ spc[s] = "read"
    /\ notified' = [notified EXCEPT ![s] = FALSE]
    /\ Goto(s, "dispatch")
    /\ UNCHANGED <<strategies, ready, current, sleepVars, remote, done, tpc, queueVars, posterVars, historyVars,
                   crashed, edge>>

-----------------------------------------------------------------------------
SelectStep(s) == Select(s) \/ SelectSignal(s) \/ SelectTimeout(s) \/ ReadSignal(s)

NetNext ==
    /\ ~crashed
    /\ \/ WithSignals(OutsideStep)
       \/ \E s \in Strategies : WithSignals(SchedulerStep(s) \/ HandlerStep(s)) \/ SelectStep(s) \/ SelectOther(s)

NetSpec == NetInit /\ [][NetNext]_netVars

-----------------------------------------------------------------------------
\* A pending signal is on its way to the thread: it is in the ready list of
\* epoll or about to be read.  A signal that stayed pending otherwise would
\* swallow all notifications to come.
SignalsArrive ==
    \A s \in Strategies : notified[s] <=> edge[s] \/ spc[s] = "read"
=============================================================================
