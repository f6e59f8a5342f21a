------------------------- MODULE MCContextTaskQueue -------------------------
(***************************************************************************)
(* Instances of ContextTaskQueue for TLC.  QueueSpec, with the constants   *)
(* of the configuration, is checked for safety; beside it, such a ring     *)
(* with records of one length is checked for liveness.  The initial state  *)
(* picks one of the two.                                                   *)
(***************************************************************************)
EXTENDS ContextTaskQueue

VARIABLE part

Small == INSTANCE ContextTaskQueue WITH Capacity <- 6, Sizes <- {2}

bothVars == <<part, queueVars>>

BothInit == (part = "large" /\ QueueInit) \/ (part = "small" /\ Small!QueueInit)

BothNext ==
    /\ (part = "large" /\ QueueNext) \/ (part = "small" /\ Small!QueueNext)
    /\ UNCHANGED part

\* QueueFairness of the small instance.
BothFairness ==
    /\ \A p \in Producers :
          /\ WF_bothVars(part = "small" /\ Small!PushStep(p) /\ UNCHANGED part)
          /\ SF_bothVars(part = "small" /\ Small!PushSwap(p) /\ UNCHANGED part)
          /\ SF_bothVars(part = "small" /\ Small!PopConsume /\ Small!ScanWorker(p) /\ UNCHANGED part)
    /\ WF_bothVars(part = "small" /\ Small!PopStep /\ UNCHANGED part)

BothSpec == BothInit /\ [][BothNext]_bothVars /\ BothFairness

\* Every task that a thread begins to push is performed in the end: push()
\* gets its room however often it retries, and pop() its record.
BegunTasksArePerformed == part = "small" ~> part = "small" /\ Small!AllBegunArePerformed
=============================================================================
