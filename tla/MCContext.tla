----------------------------- MODULE MCContext -----------------------------
(***************************************************************************)
(* A Context with a BlockingContextStrategy and a NetContext, each with    *)
(* one thread.  The initial state picks the one that runs.                 *)
(***************************************************************************)
EXTENDS NetContext

VARIABLE part

partVars == <<part, netVars>>

AllInit == part \in {"blocking", "net"} /\ NetInit

InBlocking(step) == part = "blocking" /\ step /\ UNCHANGED <<part, edge>>
InNet(step) == part = "net" /\ step /\ UNCHANGED part

AllNext == InBlocking(Next) \/ InNet(NetNext)

Runs(inBlocking, inNet) == ~crashed /\ (InBlocking(inBlocking) \/ InNet(inNet))

\* Fairness of Context, and the same for the NetContext, in which no socket has
\* to have an event.
AllFairness ==
    /\ \A p \in Posters :
        WF_partVars(Runs(Notify(p) \/ CallReturns(p), WithSignals(Notify(p) \/ CallReturns(p))))
    /\ WF_partVars(Runs(TerminateNotify, WithSignals(TerminateNotify)))
    /\ \A s \in Strategies :
        /\ WF_partVars(Runs(SchedulerStep(s) \/ SuspendStep(s) \/ HandlerStep(s),
                            WithSignals(SchedulerStep(s) \/ HandlerStep(s)) \/ SelectStep(s)))
        /\ \A n \in TaskNumbers : WF_partVars(Runs(TimeComes(s, n), WithSignals(TimeComes(s, n))))

AllSpec == AllInit /\ [][AllNext]_partVars /\ AllFairness

-----------------------------------------------------------------------------
\* NetContext: no notification gets stuck in a signal that nobody reads.
NetInv == part = "net" => SignalsArrive
=============================================================================
