--------------------------- MODULE BasicSemaphore ---------------------------
(***************************************************************************)
(* The counting semaphore (core/detail/BasicSemaphore.{h,hpp}, behind      *)
(* thread::Semaphore and fiber::Semaphore).  _atomic_count is the fast     *)
(* path: only a wait() that finds it below 1, and the notify() that finds  *)
(* it below 0, use _count, the mutex and the condition variable.  The      *)
(* initial count is in _count, so the first waits take the slow path too.  *)
(*                                                                         *)
(* waitUntil() is wait() of a thread in Impatient, which may time out; it  *)
(* takes one off _count even then.                                         *)
(***************************************************************************)
EXTENDS Integers, FiniteSets, Functions

CONSTANTS
    Waiters,        \* threads that call wait() or waitUntil()
    Impatient,      \* those of them that call waitUntil()
    Notifiers,      \* threads that call notify() or reset()
    InitialCount,   \* argument of the constructor
    MaxWaits,       \* bound: calls of wait() by each waiter
    MaxNotifies,    \* bound: calls of notify() by each notifier
    MaxResets       \* bound: calls of reset()

ASSUME ThreadsAreFinite == IsFiniteSet(Waiters) /\ IsFiniteSet(Notifiers)
ASSUME ImpatientAssumption == Impatient \subseteq Waiters
ASSUME CountAssumption == InitialCount \in Nat
ASSUME BoundsAssumption == MaxWaits \in Nat /\ MaxNotifies \in Nat /\ MaxResets \in Nat

VARIABLES
    atomic_count,   \* _atomic_count
    count,          \* _count
    wpc,            \* where each waiter is
    npc,            \* where each notifier is
    waits,          \* waits each waiter has returned from
    notifies,       \* calls of notify() by each notifier
    resets,         \* calls of reset()
    fast_permits,   \* permits that notify() put into _atomic_count (history)
    slow_permits,   \* permits that notify() put into _count (history)
    fast_passes,    \* waits that took the fast path (history)
    slow_passes     \* waits that found _count above 0 (history)

callVars == <<waits, notifies, resets>>
permitVars == <<fast_permits, slow_permits>>
passVars == <<fast_passes, slow_passes>>
vars == <<atomic_count, count, wpc, npc, callVars, permitVars, passVars>>

Init ==
    /\ atomic_count = 0
    /\ count = InitialCount
    /\ wpc = [w \in Waiters |-> "idle"]
    /\ npc = [n \in Notifiers |-> "idle"]
    /\ waits = [w \in Waiters |-> 0]
    /\ notifies = [n \in Notifiers |-> 0]
    /\ resets = 0
    /\ fast_permits = 0 /\ slow_permits = 0
    /\ fast_passes = 0 /\ slow_passes = 0

-----------------------------------------------------------------------------
(* notify() and reset() *)

\* _atomic_count.fetch_add(1): done, unless `somebody_waits'.
FetchAdd(n, somebody_waits) ==
    /\ npc[n] = "idle"
    /\ notifies[n] < MaxNotifies
    /\ atomic_count' = atomic_count + 1
    /\ npc' = [npc EXCEPT ![n] = IF somebody_waits THEN "count" ELSE "idle"]
    /\ notifies' = [notifies EXCEPT ![n] = @ + 1]
    /\ fast_permits' = IF somebody_waits THEN fast_permits ELSE fast_permits + 1
    /\ UNCHANGED <<count, wpc, waits, resets, slow_permits, passVars>>

NotifyFast(n) == FetchAdd(n, atomic_count < 0)

\* Under _mutex.
NotifyCount(n) ==
    /\ npc[n] = "count"
    /\ count' = count + 1
    /\ slow_permits' = slow_permits + 1
    /\ npc' = [npc EXCEPT ![n] = "notify_one"]
    /\ UNCHANGED <<atomic_count, wpc, callVars, fast_permits, passVars>>

Blocked == {w \in Waiters : wpc[w] = "blocked"}

\* _cv.notify_one() wakes one of the threads in `waiting', if there is one.
WakeOneOf(n, waiting) ==
    /\ npc[n] = "notify_one"
    /\ npc' = [npc EXCEPT ![n] = "idle"]
    /\ \/ waiting = {} /\ UNCHANGED wpc
       \/ \E w \in waiting : wpc' = [wpc EXCEPT ![w] = "locked"]
    /\ UNCHANGED <<atomic_count, count, callVars, permitVars, passVars>>

\* Faulty variants are what a slip in the code would make of the definition
\* that follows them; no action uses them.  Faulty: nobody is notified.
NotifyNone(n) == WakeOneOf(n, {})

NotifyOne(n) == WakeOneOf(n, Blocked)

\* _atomic_count.exchange(0): done, unless somebody waits.
Reset(n) ==
    /\ npc[n] = "idle"
    /\ resets < MaxResets
    /\ atomic_count' = 0
    /\ npc' = [npc EXCEPT ![n] = IF atomic_count < 0 THEN "reset" ELSE "idle"]
    /\ resets' = resets + 1
    /\ UNCHANGED <<count, wpc, waits, notifies, permitVars, passVars>>

ResetCount(n) ==
    /\ npc[n] = "reset"
    /\ count' = 0
    /\ npc' = [npc EXCEPT ![n] = "notify_all"]
    /\ UNCHANGED <<atomic_count, wpc, callVars, permitVars, passVars>>

ResetNotify(n) ==
    /\ npc[n] = "notify_all"
    /\ npc' = [npc EXCEPT ![n] = "idle"]
    /\ wpc' = [w \in Waiters |-> IF w \in Blocked THEN "locked" ELSE wpc[w]]
    /\ UNCHANGED <<atomic_count, count, callVars, permitVars, passVars>>

-----------------------------------------------------------------------------
(* wait() and waitUntil() *)

Return(w) ==
    /\ wpc' = [wpc EXCEPT ![w] = "idle"]
    /\ waits' = [waits EXCEPT ![w] = @ + 1]

\* _atomic_count.fetch_sub(1) finds a permit.
WaitFast(w) ==
    /\ wpc[w] = "idle"
    /\ waits[w] < MaxWaits
    /\ atomic_count >= 1
    /\ atomic_count' = atomic_count - 1
    /\ fast_passes' = fast_passes + 1
    /\ Return(w)
    /\ UNCHANGED <<count, npc, notifies, resets, permitVars, slow_passes>>

\* It finds none: go on under _mutex.
WaitSlow(w) ==
    /\ wpc[w] = "idle"
    /\ waits[w] < MaxWaits
    /\ atomic_count < 1
    /\ atomic_count' = atomic_count - 1
    /\ wpc' = [wpc EXCEPT ![w] = "locked"]
    /\ UNCHANGED <<count, npc, callVars, permitVars, passVars>>

\* A thread that has the mutex takes a permit off _count.
TakePermit(w) ==
    /\ wpc[w] = "locked"
    /\ count' = count - 1
    /\ slow_passes' = slow_passes + 1
    /\ Return(w)
    /\ UNCHANGED <<atomic_count, npc, notifies, resets, permitVars, fast_passes>>

\* Faulty: a wakeup is taken for a permit.
WaitPassOnWakeup(w) == TakePermit(w)

\* The predicate of the wait holds, at first or after a wakeup.
WaitPass(w) == count > 0 /\ TakePermit(w)

WaitBlock(w) ==
    /\ wpc[w] = "locked"
    /\ count <= 0
    /\ wpc' = [wpc EXCEPT ![w] = "blocked"]
    /\ UNCHANGED <<atomic_count, count, npc, callVars, permitVars, passVars>>

SpuriousWakeup(w) ==
    /\ wpc[w] = "blocked"
    /\ wpc' = [wpc EXCEPT ![w] = "locked"]
    /\ UNCHANGED <<atomic_count, count, npc, callVars, permitVars, passVars>>

\* wait_until() gives up, in which case it returns whether the predicate holds.
WaitTimesOut(w) ==
    /\ w \in Impatient
    /\ wpc[w] = "blocked"
    /\ count' = count - 1
    /\ slow_passes' = IF count > 0 THEN slow_passes + 1 ELSE slow_passes
    /\ Return(w)
    /\ UNCHANGED <<atomic_count, npc, notifies, resets, permitVars, fast_passes>>

-----------------------------------------------------------------------------
NotifyStep(n) == NotifyFast(n) \/ NotifyCount(n) \/ NotifyOne(n)
ResetStep(n) == Reset(n) \/ ResetCount(n) \/ ResetNotify(n)
WaitStep(w) == WaitFast(w) \/ WaitSlow(w) \/ WaitPass(w) \/ WaitBlock(w)

Next ==
    \/ \E n \in Notifiers : NotifyStep(n) \/ ResetStep(n)
    \/ \E w \in Waiters : WaitStep(w) \/ SpuriousWakeup(w) \/ WaitTimesOut(w)

Spec == Init /\ [][Next]_vars

\* The operating system runs every thread that is not blocked, and the
\* notifiers make all their calls.
Fairness ==
    /\ \A n \in Notifiers : WF_vars(NotifyStep(n))
    /\ \A w \in Waiters : WF_vars(WaitStep(w))

FairSpec == Spec /\ Fairness

-----------------------------------------------------------------------------
\* The types of the variables.
TypeOK ==
    /\ atomic_count \in Int /\ count \in Int
    /\ wpc \in [Waiters -> {"idle", "locked", "blocked"}]
    /\ npc \in [Notifiers -> {"idle", "count", "notify_one", "reset", "notify_all"}]
    /\ waits \in [Waiters -> Nat]
    /\ notifies \in [Notifiers -> Nat]
    /\ resets \in Nat
    /\ fast_permits \in Nat /\ slow_permits \in Nat
    /\ fast_passes \in Nat /\ slow_passes \in Nat

\* No wait() returns without a permit, on either path, whatever notify(),
\* reset() and waits that time out do meanwhile: there are never more
\* successful waits than the initial count and the notifications so far.
PermitsBound == fast_passes + slow_passes <= InitialCount + fast_permits + slow_permits

\* No wakeup is lost: when _count has a permit and a thread is blocked, some
\* thread is on its way to take it or to wake the blocked one.
NoStrandedPermit ==
    count > 0 /\ Blocked # {} =>
        \/ \E w \in Waiters : wpc[w] = "locked"
        \/ \E n \in Notifiers : npc[n] \in {"notify_one", "notify_all"}

NumberAt(pc, places) == Cardinality({x \in DOMAIN pc : pc[x] \in places})

Counter == INSTANCE PermitCounter
                WITH permits <- InitialCount + atomic_count,
                     waiting <- NumberAt(wpc, {"locked", "blocked"}),
                     passes <- fast_passes + slow_passes

\* Until the first reset() the two paths together are one counter of permits,
\* timeouts included: no wait overtakes the notifications, although the count
\* of a permit is on its way from one path to the other for a while.
CountsPermits ==
    [][resets' = 0 => [Counter!CounterNext]_(Counter!counterVars)]_vars

\* No wait() has timed out and no reset() was called.
Undisturbed ==
    resets = 0 /\ fast_passes + slow_passes = SumFunction(waits)

\* When the notifications make up for all waits, and nobody times out or
\* resets, everybody returns from every wait().
EverybodyPasses ==
    []Undisturbed => <>[](\A w \in Waiters : waits[w] = MaxWaits)

-----------------------------------------------------------------------------
(* The inductive invariant. *)

\* Each path hands out its own permits.  Timeouts and resets only ever lower
\* the counters below these bounds.
PathsInv ==
    /\ fast_passes <= fast_permits
    /\ atomic_count <= fast_permits - fast_passes
    /\ slow_passes <= InitialCount + slow_permits
    /\ count <= InitialCount + slow_permits - slow_passes

BoundsInv == TypeOK /\ PathsInv /\ PermitsBound

\* Until the first reset() the two counts agree: what _atomic_count is below 0
\* are the waits on the slow path, apart from those for which a permit is in
\* _count or about to be put there.
CountsAgree ==
    resets = 0 =>
        /\ \A n \in Notifiers : npc[n] \notin {"reset", "notify_all"}
        /\ (IF atomic_count < 0 THEN atomic_count ELSE 0) + NumberAt(wpc, {"locked", "blocked"}) + InitialCount
                = count + NumberAt(npc, {"count"})

\* For each permit in _count that a blocked thread might take, somebody is on
\* the way.
EnoughAreAwake ==
    \/ Blocked = {}
    \/ \E n \in Notifiers : npc[n] = "notify_all"
    \/ count <= NumberAt(wpc, {"locked"}) + NumberAt(npc, {"notify_one"})

\* No wait() passes without a permit, the two counts are one, and no permit is
\* left beside a blocked thread.
SemaphoreInv == BoundsInv /\ CountsAgree /\ EnoughAreAwake
=============================================================================
