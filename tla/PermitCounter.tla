--------------------------- MODULE PermitCounter ---------------------------
(***************************************************************************)
(* What a semaphore promises to the threads that wait on it: permits are   *)
(* counted and a wait takes one in advance.  While the count is below 0,   *)
(* as many of the threads that wait stay as the count says; the others     *)
(* pass.  A wait that times out does not give back what it took.           *)
(***************************************************************************)
EXTENDS Integers

VARIABLES
    permits,    \* the initial count and the notifications, minus the waits
    waiting,    \* how many threads are in wait()
    passes      \* waits that succeeded

counterVars == <<permits, waiting, passes>>

Notify == permits' = permits + 1 /\ UNCHANGED <<waiting, passes>>

WaitBegins == permits' = permits - 1 /\ waiting' = waiting + 1 /\ UNCHANGED passes

PassesAtOnce ==
    permits >= 1 /\ permits' = permits - 1 /\ passes' = passes + 1 /\ UNCHANGED waiting

Passes ==
    waiting > -permits /\ waiting > 0 /\ waiting' = waiting - 1 /\ passes' = passes + 1 /\ UNCHANGED permits

TimesOut == waiting > 0 /\ waiting' = waiting - 1 /\ UNCHANGED <<permits, passes>>

CounterNext == Notify \/ WaitBegins \/ PassesAtOnce \/ Passes \/ TimesOut
=============================================================================
