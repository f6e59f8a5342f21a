---------------------------- MODULE BasicBarrier ----------------------------
(***************************************************************************)
(* The reusable barrier at which the threads of a Context meet before they *)
(* start scheduling (core/detail/BasicBarrier.{h,hpp}).  wait() runs under *)
(* _mutex except while it is blocked on _cv, so it has three steps: the    *)
(* arrival, a wakeup of the condition variable, and the check of the       *)
(* predicate that follows a wakeup.                                        *)
(***************************************************************************)
EXTENDS Integers, FiniteSets

CONSTANTS
    Threads,    \* the threads that use the barrier
    MaxRounds   \* bound: how often each of them calls wait()

ASSUME ThreadsAssumption == IsFiniteSet(Threads) /\ Threads # {}
ASSUME MaxRoundsAssumption == MaxRounds \in Nat

\* As many threads as the barrier was made for (Context::_barrier).
Threshold == Cardinality(Threads)

VARIABLES
    missing,    \* _count: arrivals missing in this generation
    generation, \* _generation
    place,      \* where each thread is
    gen,        \* local of wait(): the generation the thread arrived in
    rounds      \* how often wait() has returned, by thread

barrierVars == <<missing, generation, place, gen, rounds>>

BarrierInit ==
    /\ missing = Threshold
    /\ generation = 0
    /\ place = [t \in Threads |-> "out"]
    /\ gen = [t \in Threads |-> 0]
    /\ rounds = [t \in Threads |-> 0]

\* The last thread opens the barrier: the count starts again and the threads in
\* `woken' wake up.
Open(t, woken) ==
    /\ place[t] = "out"
    /\ rounds[t] < MaxRounds
    /\ missing - 1 = 0
    /\ gen' = [gen EXCEPT ![t] = generation]
    /\ generation' = generation + 1
    /\ missing' = Threshold
    /\ place' = [u \in Threads |-> IF u \in woken THEN "woken" ELSE place[u]]
    /\ rounds' = [rounds EXCEPT ![t] = @ + 1]

AtBarrier == {u \in Threads : place[u] = "blocked"}

\* Faulty variants are what a slip in the code would make of the definition
\* that follows them; no action uses them.  Faulty: one waiting thread is woken,
\* not all.
ArriveLastWakesOne(t) == \E u \in AtBarrier : Open(t, {u})

\* notify_all() wakes the others.
ArriveLast(t) == Open(t, AtBarrier)

ArriveEarly(t) ==
    /\ place[t] = "out"
    /\ rounds[t] < MaxRounds
    /\ missing - 1 # 0
    /\ gen' = [gen EXCEPT ![t] = generation]
    /\ missing' = missing - 1
    /\ place' = [place EXCEPT ![t] = "blocked"]
    /\ UNCHANGED <<generation, rounds>>

\* A condition variable may wake without a notification.
BarrierWakesUp(t) ==
    /\ place[t] = "blocked"
    /\ place' = [place EXCEPT ![t] = "woken"]
    /\ UNCHANGED <<missing, generation, gen, rounds>>

BlockAgain(t) ==
    /\ place[t] = "woken"
    /\ gen[t] = generation
    /\ place' = [place EXCEPT ![t] = "blocked"]
    /\ UNCHANGED <<missing, generation, gen, rounds>>

\* A thread that has the mutex again after a wakeup leaves.
Pass(t) ==
    /\ place' = [place EXCEPT ![t] = "out"]
    /\ rounds' = [rounds EXCEPT ![t] = @ + 1]
    /\ UNCHANGED <<missing, generation, gen>>

\* Faulty: every wakeup lets the thread pass.
LeaveOnWakeup(t) == place[t] = "woken" /\ Pass(t)

\* The generation is over.
Leave(t) == place[t] = "woken" /\ gen[t] # generation /\ Pass(t)

Wait(t) ==
    ArriveLast(t) \/ ArriveEarly(t) \/ BarrierWakesUp(t) \/ BlockAgain(t) \/ Leave(t)

BarrierNext == \E t \in Threads : Wait(t)

\* The operating system runs every thread that is not blocked.
BarrierFairness == \A t \in Threads : WF_barrierVars(ArriveLast(t) \/ ArriveEarly(t) \/ BlockAgain(t) \/ Leave(t))

BarrierSpec == BarrierInit /\ [][BarrierNext]_barrierVars

FairBarrierSpec == BarrierSpec /\ BarrierFairness

-----------------------------------------------------------------------------
BarrierTypeOK ==
    /\ missing \in 1..Threshold
    /\ generation \in Nat
    /\ place \in [Threads -> {"out", "blocked", "woken"}]
    /\ gen \in [Threads -> Nat]
    /\ rounds \in [Threads -> Nat]

Calls(t) == IF place[t] = "out" THEN rounds[t] ELSE rounds[t] + 1

\* Nobody returns from its k-th wait() before everybody has called wait() k
\* times, also when fast threads are in the next round while slow ones have
\* not left this one.
NobodyPassesEarly == \A t, u \in Threads : rounds[t] <= Calls(u)

\* No thread stays in wait() for ever when all come, in every round.
EverybodyLeaves == <>(\A t \in Threads : rounds[t] = MaxRounds)

-----------------------------------------------------------------------------
(* The inductive invariant.  A thread outside has returned once for every  *)
(* generation; a thread inside came in the current generation and is       *)
(* counted, or in the one before, which it may leave.                      *)
Arrived == {t \in Threads : place[t] # "out" /\ gen[t] = generation}

CountsArrivals == missing + Cardinality(Arrived) = Threshold

Rounds ==
    \A t \in Threads :
        /\ place[t] = "out" => rounds[t] = generation
        /\ place[t] # "out" => rounds[t] = gen[t] /\ gen[t] \in {generation, generation - 1}

GenerationsInv == BarrierTypeOK /\ CountsArrivals /\ Rounds

\* Nobody passes wait() early, in any round; and what that rests on: the count
\* is that of the missing threads, and no thread is more than a round ahead.
BarrierInv == GenerationsInv /\ NobodyPassesEarly
=============================================================================
