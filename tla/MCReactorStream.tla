-------------------------- MODULE MCReactorStream --------------------------
(***************************************************************************)
(* Two instances of ReactorStream for TLC, of which the initial state      *)
(* picks one: a connection that is mostly read, with the constants of the  *)
(* configuration, and one that is mostly written.                          *)
(***************************************************************************)
EXTENDS ReactorStream

VARIABLE part

Writing == INSTANCE ReactorStream
                WITH ReadCalls <- {"some"}, MaxReads <- 1, StreamLength <- 1,
                     WriteCalls <- {"some", "all"}, MaxWrites <- 1

bothVars == <<part, vars>>

BothInit == part \in {"reading", "writing"} /\ Init

BothNext ==
    /\ (part = "reading" /\ Next) \/ (part = "writing" /\ Writing!Next)
    /\ UNCHANGED part

\* Fairness of the two; its actions do not depend on the constants that differ.
BothFairness ==
    /\ WF_bothVars(UNCHANGED part /\ (Transfer \/ Select \/ \E e \in Events : IsOpen(e) \/ Suspend(e) \/ Resume(e)))
    /\ WF_bothVars(UNCHANGED part /\ spc # "open" /\ ShutdownStep)

BothSpec == BothInit /\ [][BothNext]_bothVars /\ BothFairness
=============================================================================
