------------------------ MODULE SynchronizationProofs ------------------------
(***************************************************************************)
(* The barrier and the semaphore, for any finite sets of threads.          *)
(*                                                                         *)
(* Barrier, with any number of rounds: GenerationsInv is inductive.  The   *)
(* number of missing arrivals and the set of threads that arrived in this  *)
(* generation add up to the threshold, so the last arrival finds everybody *)
(* else in the current generation.                                         *)
(*                                                                         *)
(* Semaphore, with any initial count and any number of calls, timeouts and *)
(* resets included: it never lets more waits pass than it has permits      *)
(* (_atomic_count bounds what the fast path may hand out, _count what the  *)
(* slow path may), it leaves no permit beside a blocked thread, and until  *)
(* a reset it counts permits as PermitCounter does.  SemaphoreInv is       *)
(* inductive.                                                              *)
(***************************************************************************)
EXTENDS BasicBarrier, BasicSemaphore, FiniteSetTheorems, TLAPS

-----------------------------------------------------------------------------
(* Barrier *)

\* A barrier is made for at least one thread (the constructor asserts it).
LEMMA ThresholdType == Threshold \in Nat /\ Threshold >= 1
<1>1. Threshold \in Nat
  BY ThreadsAssumption, FS_CardinalityType DEF Threshold
<1>2. Threshold # 0
  BY ThreadsAssumption, FS_EmptySet DEF Threshold
<1> QED
  BY <1>1, <1>2

\* Arrived is a finite set of at most Threshold threads.
LEMMA ArrivedFinite == IsFiniteSet(Arrived) /\ Cardinality(Arrived) \in Nat
<1>1. Arrived \subseteq Threads
  BY DEF Arrived
<1> QED
  BY <1>1, ThreadsAssumption, FS_Subset, FS_CardinalityType

\* The initial state satisfies the invariant.
LEMMA GenerationsInit == BarrierInit => GenerationsInv
<1> SUFFICES ASSUME BarrierInit PROVE GenerationsInv
  OBVIOUS
<1>1. BarrierTypeOK
  BY ThresholdType DEF BarrierInit, BarrierTypeOK
<1>2. CountsArrivals
  <2>1. Arrived = {}
    BY DEF BarrierInit, Arrived
  <2> QED
    BY <2>1, FS_EmptySet, ThresholdType DEF BarrierInit, CountsArrivals
<1>3. Rounds
  BY DEF BarrierInit, Rounds
<1> QED
  BY <1>1, <1>2, <1>3 DEF GenerationsInv

\* When one arrival is missing, everybody but the caller has arrived.
LEMMA LastArrival ==
    ASSUME GenerationsInv, NEW t \in Threads, place[t] = "out", missing = 1
    PROVE  \A u \in Threads \ {t} : place[u] # "out" /\ gen[u] = generation
<1>1. Cardinality(Arrived) = Threshold - 1
  BY ThresholdType, ArrivedFinite DEF GenerationsInv, CountsArrivals
<1>2. IsFiniteSet(Threads \ {t}) /\ Cardinality(Threads \ {t}) = Threshold - 1
  BY ThreadsAssumption, FS_RemoveElement DEF Threshold
<1>3. Arrived \subseteq Threads \ {t}
  BY DEF Arrived
<1>4. Arrived = Threads \ {t}
  BY <1>1, <1>2, <1>3, FS_Subset
<1> QED
  BY <1>4 DEF Arrived

\* Every step keeps the invariant.
LEMMA GenerationsStep == GenerationsInv /\ [BarrierNext]_barrierVars => GenerationsInv'
<1> SUFFICES ASSUME GenerationsInv, [BarrierNext]_barrierVars PROVE GenerationsInv'
  OBVIOUS
<1> USE DEF GenerationsInv
<1>1. ASSUME NEW t \in Threads, ArriveLast(t) PROVE GenerationsInv'
  <2>1. missing = 1
    BY <1>1 DEF ArriveLast, Open, AtBarrier, BarrierTypeOK
  <2>2. \A u \in Threads \ {t} : place[u] # "out" /\ gen[u] = generation
    BY <1>1, <2>1, LastArrival DEF ArriveLast, Open, AtBarrier
  <2>3. BarrierTypeOK'
    BY <1>1, ThresholdType DEF ArriveLast, Open, AtBarrier, BarrierTypeOK
  <2>4. Rounds'
    BY <1>1, <2>2 DEF ArriveLast, Open, AtBarrier, BarrierTypeOK, Rounds
  <2>5. Arrived' = {}
    BY <1>1, <2>2 DEF ArriveLast, Open, AtBarrier, BarrierTypeOK, Arrived
  <2>6. CountsArrivals'
    BY <1>1, <2>5, FS_EmptySet, ThresholdType DEF ArriveLast, Open, AtBarrier, CountsArrivals, Threshold
  <2> QED
    BY <2>3, <2>4, <2>6
<1>2. ASSUME NEW t \in Threads, ArriveEarly(t) PROVE GenerationsInv'
  <2>1. BarrierTypeOK'
    BY <1>2, ThresholdType DEF ArriveEarly, BarrierTypeOK
  <2>2. Rounds'
    BY <1>2 DEF ArriveEarly, BarrierTypeOK, Rounds
  <2>3. Arrived' = Arrived \cup {t} /\ t \notin Arrived
    BY <1>2 DEF ArriveEarly, BarrierTypeOK, Arrived
  <2>4. Cardinality(Arrived') = Cardinality(Arrived) + 1
    BY <2>3, ArrivedFinite, FS_AddElement
  <2>5. CountsArrivals'
    BY <1>2, <2>4, ArrivedFinite, ThresholdType DEF ArriveEarly, CountsArrivals, BarrierTypeOK, Threshold
  <2> QED
    BY <2>1, <2>2, <2>5
<1>3. ASSUME NEW t \in Threads, BarrierWakesUp(t) \/ BlockAgain(t) PROVE GenerationsInv'
  <2>1. BarrierTypeOK' /\ Rounds'
    BY <1>3 DEF BarrierWakesUp, BlockAgain, BarrierTypeOK, Rounds
  <2>2. Arrived' = Arrived
    BY <1>3 DEF BarrierWakesUp, BlockAgain, BarrierTypeOK, Arrived
  <2>3. CountsArrivals'
    BY <1>3, <2>2 DEF BarrierWakesUp, BlockAgain, CountsArrivals, Threshold
  <2> QED
    BY <2>1, <2>3
<1>4. ASSUME NEW t \in Threads, Leave(t) PROVE GenerationsInv'
  <2>1. BarrierTypeOK' /\ Rounds'
    BY <1>4 DEF Leave, Pass, BarrierTypeOK, Rounds
  <2>2. Arrived' = Arrived
    BY <1>4 DEF Leave, Pass, BarrierTypeOK, Arrived
  <2>3. CountsArrivals'
    BY <1>4, <2>2 DEF Leave, Pass, CountsArrivals, Threshold
  <2> QED
    BY <2>1, <2>3
<1>5. CASE UNCHANGED barrierVars
  BY <1>5 DEF barrierVars, BarrierTypeOK, Rounds, CountsArrivals, Arrived, Threshold
<1> QED
  BY <1>1, <1>2, <1>3, <1>4, <1>5 DEF BarrierNext, Wait

\* No thread returns from its k-th wait() before every thread has called it
\* k times, for every number of threads: the threads of a Context all have
\* their strategy registered before one of them starts to schedule.
THEOREM BarrierSafety == BarrierSpec => []BarrierInv
<1>1. GenerationsInv => BarrierInv
  BY DEF BarrierInv, GenerationsInv, BarrierTypeOK, Rounds, NobodyPassesEarly, Calls
<1> QED
  BY <1>1, GenerationsInit, GenerationsStep, PTL DEF BarrierSpec

-----------------------------------------------------------------------------
(* Semaphore *)

\* Every step of notify() keeps the invariant.
LEMMA NotifyKeepsInv ==
    ASSUME BoundsInv, NEW n \in Notifiers, NotifyStep(n)
    PROVE  BoundsInv'
<1> USE CountAssumption DEF BoundsInv, TypeOK, PathsInv, PermitsBound, callVars, permitVars, passVars
<1>1. CASE NotifyFast(n)
  BY <1>1 DEF NotifyFast, FetchAdd
<1>2. CASE NotifyCount(n)
  BY <1>2 DEF NotifyCount
<1>3. CASE NotifyOne(n)
  <2>1. wpc' \in [Waiters -> {"idle", "locked", "blocked"}]
    BY <1>3 DEF NotifyOne, WakeOneOf, Blocked
  <2> QED
    BY <1>3, <2>1 DEF NotifyOne, WakeOneOf
<1> QED
  BY <1>1, <1>2, <1>3 DEF NotifyStep

\* Every step of reset() keeps the invariant: 0 is within both bounds.
LEMMA ResetKeepsInv ==
    ASSUME BoundsInv, NEW n \in Notifiers, ResetStep(n)
    PROVE  BoundsInv'
<1> USE CountAssumption DEF BoundsInv, TypeOK, PathsInv, PermitsBound, callVars, permitVars, passVars
<1>1. CASE Reset(n)
  BY <1>1, BoundsAssumption DEF Reset
<1>2. CASE ResetCount(n)
  BY <1>2 DEF ResetCount
<1>3. CASE ResetNotify(n)
  BY <1>3 DEF ResetNotify
<1> QED
  BY <1>1, <1>2, <1>3 DEF ResetStep

\* Every step of wait() and waitUntil() keeps the invariant.  A timeout takes
\* one off _count without a pass, which only widens the bound.
LEMMA WaitKeepsInv ==
    ASSUME BoundsInv, NEW w \in Waiters,
           WaitStep(w) \/ SpuriousWakeup(w) \/ WaitTimesOut(w)
    PROVE  BoundsInv'
<1> USE CountAssumption DEF BoundsInv, TypeOK, PathsInv, PermitsBound, callVars, permitVars, passVars
<1>1. CASE WaitFast(w)
  BY <1>1 DEF WaitFast, Return
<1>2. CASE WaitSlow(w)
  BY <1>2 DEF WaitSlow
<1>3. CASE WaitPass(w)
  BY <1>3 DEF WaitPass, TakePermit, Return
<1>4. CASE WaitBlock(w)
  BY <1>4 DEF WaitBlock
<1>5. CASE SpuriousWakeup(w)
  BY <1>5 DEF SpuriousWakeup
<1>6. CASE WaitTimesOut(w)
  BY <1>6 DEF WaitTimesOut, Return
<1> QED
  BY <1>1, <1>2, <1>3, <1>4, <1>5, <1>6 DEF WaitStep

LEMMA BoundsPreserved == BoundsInv /\ [Next]_vars => BoundsInv'
<1> SUFFICES ASSUME BoundsInv, [Next]_vars PROVE BoundsInv'
  OBVIOUS
<1>1. CASE Next
  BY <1>1, NotifyKeepsInv, ResetKeepsInv, WaitKeepsInv DEF Next
<1>2. CASE UNCHANGED vars
  BY <1>2 DEF BoundsInv, TypeOK, PathsInv, PermitsBound, vars, callVars, permitVars, passVars
<1> QED
  BY <1>1, <1>2

-----------------------------------------------------------------------------
(* How many threads are where. *)

LEMMA NumberIsNat ==
    ASSUME NEW T, IsFiniteSet(T), NEW f, DOMAIN f = T, NEW places
    PROVE  NumberAt(f, places) \in Nat
<1> DEFINE at == {x \in T : f[x] \in places}
<1>1. IsFiniteSet(at) /\ Cardinality(at) \in Nat
  BY FS_Subset, FS_CardinalityType
<1> QED
  BY <1>1 DEF NumberAt

\* One thread goes somewhere else.
LEMMA OneMoves ==
    ASSUME NEW T, IsFiniteSet(T), NEW f, DOMAIN f = T, NEW g, DOMAIN g = T,
           NEW x \in T, \A y \in T \ {x} : g[y] = f[y], NEW places
    PROVE  /\ (g[x] \in places <=> f[x] \in places) => NumberAt(g, places) = NumberAt(f, places)
           /\ g[x] \in places /\ f[x] \notin places => NumberAt(g, places) = NumberAt(f, places) + 1
           /\ g[x] \notin places /\ f[x] \in places => NumberAt(g, places) = NumberAt(f, places) - 1
<1> DEFINE others == {y \in T : y # x /\ f[y] \in places}
           At(h) == {y \in T : h[y] \in places}
<1>1. IsFiniteSet(others) /\ x \notin others /\ Cardinality(others) \in Nat
  BY FS_Subset, FS_CardinalityType
<1>2. Cardinality(others \cup {x}) = Cardinality(others) + 1
  BY <1>1, FS_AddElement
<1>3. At(f) = IF f[x] \in places THEN others \cup {x} ELSE others
  OBVIOUS
<1>4. At(g) = IF g[x] \in places THEN others \cup {x} ELSE others
  OBVIOUS
<1>5. NumberAt(f, places) = Cardinality(At(f)) /\ NumberAt(g, places) = Cardinality(At(g))
  BY DEF NumberAt
<1> HIDE DEF others, At
<1> QED
  BY <1>1, <1>2, <1>3, <1>4, <1>5

\* A thread of notify(), or of wait(), moves.
LEMMA NotifierMoves ==
    ASSUME TypeOK, TypeOK', NEW n \in Notifiers, \A m \in Notifiers \ {n} : npc'[m] = npc[m], NEW places
    PROVE  /\ (npc'[n] \in places <=> npc[n] \in places) => NumberAt(npc', places) = NumberAt(npc, places)
           /\ npc'[n] \in places /\ npc[n] \notin places => NumberAt(npc', places) = NumberAt(npc, places) + 1
           /\ npc'[n] \notin places /\ npc[n] \in places => NumberAt(npc', places) = NumberAt(npc, places) - 1
<1>1. DOMAIN npc = Notifiers /\ DOMAIN npc' = Notifiers
  BY DEF TypeOK
<1> QED
  BY <1>1, OneMoves, ThreadsAreFinite

LEMMA WaiterMoves ==
    ASSUME TypeOK, TypeOK', NEW w \in Waiters, \A v \in Waiters \ {w} : wpc'[v] = wpc[v], NEW places
    PROVE  /\ (wpc'[w] \in places <=> wpc[w] \in places) => NumberAt(wpc', places) = NumberAt(wpc, places)
           /\ wpc'[w] \in places /\ wpc[w] \notin places => NumberAt(wpc', places) = NumberAt(wpc, places) + 1
           /\ wpc'[w] \notin places /\ wpc[w] \in places => NumberAt(wpc', places) = NumberAt(wpc, places) - 1
<1>1. DOMAIN wpc = Waiters /\ DOMAIN wpc' = Waiters
  BY DEF TypeOK
<1> QED
  BY <1>1, OneMoves, ThreadsAreFinite

LEMMA NumbersAreNat ==
    ASSUME TypeOK, NEW places
    PROVE  NumberAt(npc, places) \in Nat /\ NumberAt(wpc, places) \in Nat
<1>1. DOMAIN wpc = Waiters /\ DOMAIN npc = Notifiers
  BY DEF TypeOK
<1> QED
  BY <1>1, NumberIsNat, ThreadsAreFinite

LEMMA NextNumberIsNat ==
    ASSUME TypeOK', NEW places
    PROVE  NumberAt(wpc', places) \in Nat
<1>1. DOMAIN wpc' = Waiters
  BY DEF TypeOK
<1> QED
  BY <1>1, NumberIsNat, ThreadsAreFinite

-----------------------------------------------------------------------------
(* Until the first reset() the two counts agree. *)

LEMMA NotifyKeepsAgreement ==
    ASSUME TypeOK, TypeOK', CountsAgree, NEW n \in Notifiers, NotifyStep(n)
    PROVE  CountsAgree'
<1> DEFINE inside == {"locked", "blocked"}
<1>0. NumberAt(wpc, inside) \in Nat /\ NumberAt(npc, {"count"}) \in Nat
  BY NumbersAreNat
<1>1. CASE NotifyFast(n)
  <2>1. /\ npc[n] = "idle" /\ atomic_count' = atomic_count + 1
        /\ npc' = [npc EXCEPT ![n] = IF atomic_count < 0 THEN "count" ELSE "idle"]
        /\ UNCHANGED <<count, wpc, resets>>
    BY <1>1 DEF NotifyFast, FetchAdd
  <2>2. NumberAt(npc', {"count"}) = NumberAt(npc, {"count"}) + (IF atomic_count < 0 THEN 1 ELSE 0)
    <3>1. CASE atomic_count < 0
      BY <1>0, <2>1, <3>1, NotifierMoves DEF TypeOK
    <3>2. CASE ~(atomic_count < 0)
      <4>1. npc' = npc
        BY <2>1, <3>2 DEF TypeOK
      <4> QED
        BY <1>0, <3>2, <4>1
    <3> QED
      BY <3>1, <3>2
  <2> QED
    BY <1>0, <2>1, <2>2, CountAssumption DEF CountsAgree, TypeOK
<1>2. CASE NotifyCount(n)
  <2>1. /\ npc[n] = "count" /\ count' = count + 1
        /\ npc' = [npc EXCEPT ![n] = "notify_one"]
        /\ UNCHANGED <<atomic_count, wpc, resets>>
    BY <1>2 DEF NotifyCount, callVars
  <2>2. NumberAt(npc', {"count"}) = NumberAt(npc, {"count"}) - 1
    BY <2>1, <1>0, NotifierMoves DEF TypeOK
  <2> QED
    BY <1>0, <2>1, <2>2, CountAssumption DEF CountsAgree, TypeOK
<1>3. CASE NotifyOne(n)
  <2>1. /\ npc[n] = "notify_one" /\ npc' = [npc EXCEPT ![n] = "idle"]
        /\ UNCHANGED <<atomic_count, count, resets>>
    BY <1>3 DEF NotifyOne, WakeOneOf, callVars
  <2>2. NumberAt(npc', {"count"}) = NumberAt(npc, {"count"})
    BY <2>1, <1>0, NotifierMoves DEF TypeOK
  <2>3. NumberAt(wpc', inside) = NumberAt(wpc, inside)
    <3>1. CASE UNCHANGED wpc
      BY <3>1
    <3>2. ASSUME NEW w \in Waiters, wpc[w] = "blocked", wpc' = [wpc EXCEPT ![w] = "locked"]
          PROVE  NumberAt(wpc', inside) = NumberAt(wpc, inside)
      BY <1>0, <3>2, WaiterMoves DEF TypeOK
    <3> QED
      BY <1>3, <3>1, <3>2 DEF NotifyOne, WakeOneOf, Blocked
  <2> QED
    BY <1>0, <2>1, <2>2, <2>3, CountAssumption DEF CountsAgree, TypeOK
<1> QED
  BY <1>1, <1>2, <1>3 DEF NotifyStep

LEMMA ResetKeepsAgreement ==
    ASSUME TypeOK, TypeOK', CountsAgree, NEW n \in Notifiers, ResetStep(n)
    PROVE  CountsAgree'
BY DEF ResetStep, Reset, ResetCount, ResetNotify, CountsAgree, TypeOK, callVars

LEMMA WaitKeepsAgreement ==
    ASSUME TypeOK, TypeOK', CountsAgree, NEW w \in Waiters, WaitStep(w) \/ SpuriousWakeup(w) \/ WaitTimesOut(w)
    PROVE  CountsAgree'
<1> DEFINE inside == {"locked", "blocked"}
<1>0. NumberAt(wpc, inside) \in Nat /\ NumberAt(npc, {"count"}) \in Nat
  BY NumbersAreNat
<1>1. CASE WaitFast(w)
  <2>1. /\ atomic_count >= 1 /\ atomic_count' = atomic_count - 1 /\ wpc[w] = "idle"
        /\ wpc' = [wpc EXCEPT ![w] = "idle"] /\ UNCHANGED <<count, npc, resets>>
    BY <1>1 DEF WaitFast, Return
  <2>2. NumberAt(wpc', inside) = NumberAt(wpc, inside)
    BY <1>0, <2>1, WaiterMoves DEF TypeOK
  <2> QED
    BY <1>0, <2>1, <2>2, CountAssumption DEF CountsAgree, TypeOK
<1>2. CASE WaitSlow(w)
  <2>1. /\ atomic_count < 1 /\ atomic_count' = atomic_count - 1 /\ wpc[w] = "idle"
        /\ wpc' = [wpc EXCEPT ![w] = "locked"] /\ UNCHANGED <<count, npc, resets>>
    BY <1>2 DEF WaitSlow, callVars
  <2>2. NumberAt(wpc', inside) = NumberAt(wpc, inside) + 1
    BY <1>0, <2>1, WaiterMoves DEF TypeOK
  <2> QED
    BY <1>0, <2>1, <2>2, CountAssumption DEF CountsAgree, TypeOK
<1>3. CASE WaitPass(w) \/ WaitTimesOut(w)
  <2>1. /\ wpc[w] \in inside /\ count' = count - 1
        /\ wpc' = [wpc EXCEPT ![w] = "idle"] /\ UNCHANGED <<atomic_count, npc, resets>>
    BY <1>3 DEF WaitPass, TakePermit, WaitTimesOut, Return
  <2>2. NumberAt(wpc', inside) = NumberAt(wpc, inside) - 1
    BY <1>0, <2>1, WaiterMoves DEF TypeOK
  <2> QED
    BY <1>0, <2>1, <2>2, CountAssumption DEF CountsAgree, TypeOK
<1>4. CASE WaitBlock(w) \/ SpuriousWakeup(w)
  <2>1. PICK target \in inside :
          wpc[w] \in inside /\ wpc' = [wpc EXCEPT ![w] = target] /\ UNCHANGED <<atomic_count, count, npc, resets>>
    BY <1>4 DEF WaitBlock, SpuriousWakeup, callVars
  <2>2. NumberAt(wpc', inside) = NumberAt(wpc, inside)
    BY <1>0, <2>1, WaiterMoves DEF TypeOK
  <2> QED
    BY <1>0, <2>1, <2>2, CountAssumption DEF CountsAgree, TypeOK
<1> QED
  BY <1>1, <1>2, <1>3, <1>4 DEF WaitStep

-----------------------------------------------------------------------------
(* Somebody is on the way for each permit in _count. *)

LEMMA NotifyKeepsAwake ==
    ASSUME TypeOK, TypeOK', EnoughAreAwake, NEW n \in Notifiers, NotifyStep(n)
    PROVE  EnoughAreAwake'
<1> DEFINE L == NumberAt(wpc, {"locked"})
           N == NumberAt(npc, {"notify_one"})
<1>0. L \in Nat /\ N \in Nat /\ count \in Int
  BY NumbersAreNat DEF TypeOK
<1>1. npc[n] # "notify_all" /\ \A m \in Notifiers \ {n} : npc'[m] = npc[m]
  BY DEF NotifyStep, NotifyFast, FetchAdd, NotifyCount, NotifyOne, WakeOneOf, TypeOK
<1>2. CASE NotifyFast(n)
  <2>1. PICK target \in {"idle", "count"} :
          npc[n] = "idle" /\ npc' = [npc EXCEPT ![n] = target] /\ UNCHANGED <<count, wpc>>
    BY <1>2 DEF NotifyFast, FetchAdd
  <2>2. NumberAt(npc', {"notify_one"}) = N
    BY <1>0, <2>1, NotifierMoves DEF TypeOK
  <2> QED
    BY <1>0, <1>1, <2>1, <2>2 DEF EnoughAreAwake, Blocked
<1>3. CASE NotifyCount(n)
  <2>1. /\ npc[n] = "count" /\ npc' = [npc EXCEPT ![n] = "notify_one"]
        /\ count' = count + 1 /\ UNCHANGED wpc
    BY <1>3 DEF NotifyCount
  <2>2. NumberAt(npc', {"notify_one"}) = N + 1
    BY <1>0, <2>1, NotifierMoves DEF TypeOK
  <2> QED
    BY <1>0, <1>1, <2>1, <2>2 DEF EnoughAreAwake, Blocked
<1>4. CASE NotifyOne(n)
  <2>1. npc[n] = "notify_one" /\ npc' = [npc EXCEPT ![n] = "idle"] /\ UNCHANGED count
    BY <1>4 DEF NotifyOne, WakeOneOf
  <2>2. NumberAt(npc', {"notify_one"}) = N - 1
    BY <1>0, <2>1, NotifierMoves DEF TypeOK
  <2>3. CASE Blocked = {} /\ UNCHANGED wpc
    BY <2>3 DEF EnoughAreAwake, Blocked
  <2>4. ASSUME NEW w \in Blocked, wpc' = [wpc EXCEPT ![w] = "locked"] PROVE EnoughAreAwake'
    <3>1. w \in Waiters /\ wpc[w] = "blocked"
      BY <2>4 DEF Blocked
    <3>2. NumberAt(wpc', {"locked"}) = L + 1
      BY <1>0, <2>4, <3>1, WaiterMoves DEF TypeOK
    <3> QED
      BY <1>0, <1>1, <2>1, <2>2, <2>4, <3>2 DEF EnoughAreAwake
  <2> QED
    BY <1>4, <2>3, <2>4 DEF NotifyOne, WakeOneOf
<1> QED
  BY <1>2, <1>3, <1>4 DEF NotifyStep

LEMMA ResetKeepsAwake ==
    ASSUME TypeOK, TypeOK', EnoughAreAwake, NEW n \in Notifiers, ResetStep(n)
    PROVE  EnoughAreAwake'
<1>1. CASE Reset(n)
  <2>1. PICK target \in {"idle", "reset"} :
          npc[n] = "idle" /\ npc' = [npc EXCEPT ![n] = target] /\ UNCHANGED <<count, wpc>>
    BY <1>1 DEF Reset
  <2>2. NumberAt(npc', {"notify_one"}) = NumberAt(npc, {"notify_one"})
    BY <2>1, NotifierMoves DEF TypeOK
  <2> QED
    BY <2>1, <2>2 DEF EnoughAreAwake, Blocked, TypeOK
<1>2. CASE ResetCount(n)
  BY <1>2 DEF ResetCount, EnoughAreAwake, TypeOK
<1>3. CASE ResetNotify(n)
  BY <1>3 DEF ResetNotify, EnoughAreAwake, Blocked
<1> QED
  BY <1>1, <1>2, <1>3 DEF ResetStep

LEMMA WaitKeepsAwake ==
    ASSUME TypeOK, TypeOK', EnoughAreAwake, NEW w \in Waiters, WaitStep(w) \/ SpuriousWakeup(w) \/ WaitTimesOut(w)
    PROVE  EnoughAreAwake'
<1> DEFINE L == NumberAt(wpc, {"locked"})
<1>0. L \in Nat /\ NumberAt(npc, {"notify_one"}) \in Nat /\ count \in Int
  BY NumbersAreNat DEF TypeOK
<1>1. UNCHANGED npc
  BY DEF WaitStep, WaitFast, WaitSlow, WaitPass, TakePermit, WaitBlock, SpuriousWakeup, WaitTimesOut
<1>2. CASE WaitFast(w)
  <2>1. UNCHANGED wpc /\ UNCHANGED count
    BY <1>2 DEF WaitFast, Return, TypeOK
  <2> QED
    BY <1>1, <2>1 DEF EnoughAreAwake, Blocked
<1>3. CASE WaitSlow(w) \/ SpuriousWakeup(w)
  <2>1. wpc[w] # "locked" /\ wpc' = [wpc EXCEPT ![w] = "locked"] /\ UNCHANGED count
    BY <1>3 DEF WaitSlow, SpuriousWakeup
  <2>2. NumberAt(wpc', {"locked"}) = L + 1
    BY <1>0, <2>1, WaiterMoves DEF TypeOK
  <2>3. Blocked = {} => Blocked' = {}
    BY <2>1 DEF Blocked, TypeOK
  <2> QED
    BY <1>0, <1>1, <2>1, <2>2, <2>3 DEF EnoughAreAwake
<1>4. CASE WaitPass(w) \/ WaitTimesOut(w)
  <2>1. /\ wpc[w] \in {"locked", "blocked"} /\ wpc' = [wpc EXCEPT ![w] = "idle"]
        /\ count' = count - 1
    BY <1>4 DEF WaitPass, TakePermit, WaitTimesOut, Return
  <2>2. NumberAt(wpc', {"locked"}) \in {L, L - 1}
    BY <1>0, <2>1, WaiterMoves DEF TypeOK
  <2>3. Blocked = {} => Blocked' = {}
    BY <2>1 DEF Blocked, TypeOK
  <2> QED
    BY <1>0, <1>1, <2>1, <2>2, <2>3 DEF EnoughAreAwake
<1>5. CASE WaitBlock(w)
  <2>1. wpc' = [wpc EXCEPT ![w] = "blocked"] /\ count <= 0 /\ UNCHANGED count
    BY <1>5 DEF WaitBlock
  <2>2. NumberAt(wpc', {"locked"}) \in Nat
    BY NextNumberIsNat
  <2> QED
    BY <1>0, <1>1, <2>1, <2>2 DEF EnoughAreAwake
<1> QED
  BY <1>2, <1>3, <1>4, <1>5 DEF WaitStep

-----------------------------------------------------------------------------
LEMMA InitInv == Init => SemaphoreInv
<1> SUFFICES ASSUME Init PROVE SemaphoreInv
  OBVIOUS
<1>1. BoundsInv
  BY CountAssumption DEF Init, BoundsInv, TypeOK, PathsInv, PermitsBound
<1>2. NumberAt(wpc, {"locked", "blocked"}) = 0 /\ NumberAt(npc, {"count"}) = 0
  <2>1. {w \in DOMAIN wpc : wpc[w] \in {"locked", "blocked"}} = {} /\ {n \in DOMAIN npc : npc[n] \in {"count"}} = {}
    BY DEF Init
  <2> QED
    BY <2>1, FS_EmptySet DEF NumberAt
<1>3. CountsAgree /\ EnoughAreAwake
  BY <1>2, CountAssumption DEF Init, CountsAgree, EnoughAreAwake, Blocked
<1> QED
  BY <1>1, <1>3 DEF SemaphoreInv

\* No wait() or waitUntil() succeeds without a permit of its own, the counts of
\* the two paths are one until a reset(), and for each permit that a blocked
\* thread might take somebody is on the way, whatever is called when.
THEOREM SemaphoreSafety == Spec => []SemaphoreInv
<1>1. SemaphoreInv /\ [Next]_vars => SemaphoreInv'
  <2> SUFFICES ASSUME SemaphoreInv, [Next]_vars PROVE SemaphoreInv'
    OBVIOUS
  <2> USE DEF SemaphoreInv
  <2>1. TypeOK /\ TypeOK'
    BY BoundsPreserved DEF BoundsInv
  <2>2. CASE Next
    BY <2>1, <2>2, BoundsPreserved, NotifyKeepsAgreement, ResetKeepsAgreement, WaitKeepsAgreement,
       NotifyKeepsAwake, ResetKeepsAwake, WaitKeepsAwake DEF Next
  <2>3. CASE UNCHANGED vars
    <3>1. CountsAgree' /\ EnoughAreAwake'
      BY <2>3 DEF vars, callVars, CountsAgree, EnoughAreAwake, Blocked, NumberAt
    <3> QED
      BY <3>1, BoundsPreserved
  <2> QED
    BY <2>2, <2>3
<1> QED
  BY <1>1, InitInv, PTL DEF Spec

\* No permit in _count is left beside a blocked thread with nobody on the way to
\* take it or to wake the thread.
THEOREM StrandedPermitSafety == Spec => []NoStrandedPermit
<1>1. SemaphoreInv => NoStrandedPermit
  <2> SUFFICES ASSUME SemaphoreInv, count > 0, Blocked # {},
                      \A n \in Notifiers : npc[n] \notin {"notify_one", "notify_all"}
               PROVE  \E w \in Waiters : wpc[w] = "locked"
    BY DEF NoStrandedPermit
  <2>1. TypeOK
    BY DEF SemaphoreInv, BoundsInv
  <2>2. NumberAt(npc, {"notify_one"}) = 0
    <3>1. {n \in DOMAIN npc : npc[n] \in {"notify_one"}} = {}
      BY <2>1 DEF TypeOK
    <3> QED
      BY <3>1, FS_EmptySet DEF NumberAt
  <2>3. NumberAt(wpc, {"locked"}) # 0
    BY <2>1, <2>2, NumbersAreNat DEF SemaphoreInv, EnoughAreAwake, TypeOK
  <2>4. {w \in DOMAIN wpc : wpc[w] \in {"locked"}} # {}
    BY <2>3, FS_EmptySet DEF NumberAt
  <2> QED
    BY <2>1, <2>4 DEF TypeOK
<1> QED
  BY <1>1, SemaphoreSafety, PTL

-----------------------------------------------------------------------------
(* The semaphore is one counter of permits until a reset(). *)

LEMMA StepCounts ==
    ASSUME SemaphoreInv, TypeOK', Next, resets' = 0
    PROVE  Counter!CounterNext \/ UNCHANGED Counter!counterVars
<1> DEFINE W == NumberAt(wpc, {"locked", "blocked"})
<1> USE CountAssumption DEF Counter!counterVars
<1>1. TypeOK /\ resets \in Nat /\ CountsAgree
  BY DEF SemaphoreInv, BoundsInv, TypeOK
<1>2. W \in Nat /\ NumberAt(npc, {"count"}) \in Nat /\ fast_passes + slow_passes \in Nat
  BY <1>1, NumbersAreNat DEF TypeOK
<1>3. ASSUME NEW n \in Notifiers, NotifyStep(n)
      PROVE  Counter!CounterNext \/ UNCHANGED Counter!counterVars
  <2>1. CASE NotifyFast(n)
    BY <1>1, <2>1 DEF NotifyFast, FetchAdd, passVars, Counter!CounterNext, Counter!Notify, TypeOK
  <2>2. CASE NotifyCount(n)
    BY <2>2 DEF NotifyCount, passVars
  <2>3. CASE NotifyOne(n)
    <3>1. UNCHANGED <<atomic_count, passVars>>
      BY <2>3 DEF NotifyOne, WakeOneOf
    <3>2. W' = W
      <4>1. ASSUME NEW w \in Waiters, wpc[w] = "blocked", wpc' = [wpc EXCEPT ![w] = "locked"]
            PROVE  W' = W
        BY <1>1, <1>2, <4>1, WaiterMoves DEF TypeOK
      <4> QED
        BY <2>3, <4>1 DEF NotifyOne, WakeOneOf, Blocked
    <3> QED
      BY <3>1, <3>2 DEF passVars
  <2> QED
    BY <1>3, <2>1, <2>2, <2>3 DEF NotifyStep
<1>4. ASSUME NEW n \in Notifiers PROVE ~ResetStep(n)
  BY <1>1 DEF ResetStep, Reset, ResetCount, ResetNotify, CountsAgree, callVars
<1>5. ASSUME NEW w \in Waiters, WaitStep(w) \/ SpuriousWakeup(w) \/ WaitTimesOut(w)
      PROVE  Counter!CounterNext \/ UNCHANGED Counter!counterVars
  <2>1. CASE WaitFast(w)
    <3>1. UNCHANGED wpc
      BY <1>1, <2>1 DEF WaitFast, Return, TypeOK
    <3>2. Counter!PassesAtOnce
      BY <1>1, <2>1, <3>1 DEF WaitFast, Counter!PassesAtOnce, TypeOK
    <3> QED
      BY <3>2 DEF Counter!CounterNext
  <2>2. CASE WaitSlow(w)
    <3>1. W' = W + 1
      BY <1>1, <1>2, <2>2, WaiterMoves DEF WaitSlow, TypeOK
    <3>2. Counter!WaitBegins
      BY <1>1, <2>2, <3>1 DEF WaitSlow, passVars, Counter!WaitBegins, TypeOK
    <3> QED
      BY <3>2 DEF Counter!CounterNext
  <2>3. CASE WaitPass(w) \/ WaitTimesOut(w)
    <3>1. wpc[w] \in {"locked", "blocked"} /\ wpc' = [wpc EXCEPT ![w] = "idle"]
      BY <2>3 DEF WaitPass, TakePermit, WaitTimesOut, Return
    <3>2. W' = W - 1 /\ W' \in Nat
      <4>1. W' = W - 1
        BY <1>1, <1>2, <3>1, WaiterMoves DEF TypeOK
      <4>2. W' \in Nat
        BY NextNumberIsNat
      <4> QED
        BY <4>1, <4>2
    <3>3. CASE count > 0
      <4>1. UNCHANGED atomic_count /\ (fast_passes + slow_passes)' = fast_passes + slow_passes + 1
        <5>1. UNCHANGED <<atomic_count, fast_passes>> /\ slow_passes' = slow_passes + 1
          BY <2>3, <3>3 DEF WaitPass, TakePermit, WaitTimesOut
        <5> QED
          BY <1>1, <5>1 DEF TypeOK
      <4>2. resets = 0
        BY <2>3 DEF WaitPass, TakePermit, WaitTimesOut
      <4>3. W > -(InitialCount + atomic_count)
        BY <1>1, <1>2, <3>3, <4>2 DEF CountsAgree, TypeOK
      <4>4. Counter!Passes
        BY <1>2, <3>2, <4>1, <4>3 DEF Counter!Passes
      <4> QED
        BY <4>4 DEF Counter!CounterNext
    <3>4. CASE ~(count > 0)
      <4>1. UNCHANGED <<atomic_count, fast_passes, slow_passes>>
        BY <2>3, <3>4 DEF WaitPass, WaitTimesOut
      <4>2. Counter!TimesOut
        BY <1>2, <3>2, <4>1 DEF Counter!TimesOut
      <4> QED
        BY <4>2 DEF Counter!CounterNext
    <3> QED
      BY <3>3, <3>4
  <2>4. CASE WaitBlock(w) \/ SpuriousWakeup(w)
    <3>1. PICK target \in {"locked", "blocked"} :
            wpc[w] \in {"locked", "blocked"} /\ wpc' = [wpc EXCEPT ![w] = target]
      BY <2>4 DEF WaitBlock, SpuriousWakeup
    <3>2. W' = W
      BY <1>1, <1>2, <3>1, WaiterMoves DEF TypeOK
    <3> QED
      BY <2>4, <3>2 DEF WaitBlock, SpuriousWakeup, passVars
  <2> QED
    BY <1>5, <2>1, <2>2, <2>3, <2>4 DEF WaitStep
<1> QED
  BY <1>3, <1>4, <1>5 DEF Next

\* Until the first reset() the two paths are one counter of permits: every step
\* is one of PermitCounter, or none to it.
THEOREM CounterRefinement == Spec => CountsPermits
<1>1. SemaphoreInv /\ [Next]_vars => [resets' = 0 => [Counter!CounterNext]_(Counter!counterVars)]_vars
  BY StepCounts, BoundsPreserved DEF SemaphoreInv, BoundsInv
<1> QED
  BY <1>1, SemaphoreSafety, PTL DEF Spec, CountsPermits
=============================================================================
