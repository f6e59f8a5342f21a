--------------------------- MODULE ContextProofs ---------------------------
(***************************************************************************)
(* For any number of threads and posters: no thread of a Context sleeps    *)
(* beside a posted task or after terminate() without a notification, and   *)
(* pick_next() finds the strategies and fibers that it relies on.  A       *)
(* Context whose threads sleep in an EpollSelector keeps this, and no      *)
(* signal stays pending unread.  In one thread, tasks run in the order of  *)
(* their posts.                                                            *)
(***************************************************************************)
EXTENDS MCContext, SequenceTheorems, TLAPS

(* Queues of fibers. *)

LEMMA FiberTypes ==
    /\ Main \in AnyFibers /\ Dispatcher \in AnyFibers /\ Main # Dispatcher
    /\ \A n \in Nat : /\ Task(n) \in AnyFibers /\ Child(n) \in AnyFibers /\ Rest(n) \in AnyFibers
                      /\ Main \notin {Task(n), Child(n), Rest(n)}
                      /\ Dispatcher \notin {Task(n), Child(n), Rest(n)}
BY DEF Main, Dispatcher, Task, Child, Rest, AnyFibers

LEMMA AppendHas ==
    ASSUME NEW q \in Seq(AnyFibers), NEW e \in AnyFibers
    PROVE  /\ Append(q, e) \in Seq(AnyFibers)
           /\ Has(Append(q, e), e)
           /\ \A f : Has(q, f) => Has(Append(q, e), f)
<1>1. Len(Append(q, e)) = Len(q) + 1 /\ Len(q) \in Nat
  OBVIOUS
<1>2. \A i \in 1..Len(q) : Append(q, e)[i] = q[i]
  OBVIOUS
<1>3. Append(q, e)[Len(q) + 1] = e
  OBVIOUS
<1> QED
  BY <1>1, <1>2, <1>3 DEF Has

LEMMA ConcatHas ==
    ASSUME NEW q \in Seq(AnyFibers), NEW r \in Seq(AnyFibers), NEW f
    PROVE  /\ q \o r \in Seq(AnyFibers)
           /\ Has(q, f) => Has(q \o r, f)
           /\ Has(r, f) => Has(q \o r, f)
<1>1. /\ Len(q \o r) = Len(q) + Len(r) /\ Len(q) \in Nat /\ Len(r) \in Nat
      /\ \A i \in 1..Len(q) : (q \o r)[i] = q[i]
      /\ \A i \in 1..Len(r) : (q \o r)[Len(q) + i] = r[i]
  BY ConcatProperties
<1>2. ASSUME NEW i \in 1..Len(r), r[i] = f PROVE Has(q \o r, f)
  <2>1. Len(q) + i \in 1..Len(q \o r) /\ (q \o r)[Len(q) + i] = f
    BY <1>1, <1>2
  <2> QED
    BY <2>1 DEF Has
<1> QED
  BY <1>1, <1>2 DEF Has

LEMMA FrontIs ==
    ASSUME NEW q \in Seq(AnyFibers), q # <<>>
    PROVE  /\ SubSeq(q, 1, Len(q) - 1) \in Seq(AnyFibers)
           /\ Len(q) \in Nat \ {0} /\ q[Len(q)] \in AnyFibers
           /\ Len(SubSeq(q, 1, Len(q) - 1)) = Len(q) - 1
           /\ \A i \in 1..(Len(q) - 1) : SubSeq(q, 1, Len(q) - 1)[i] = q[i]
<1>1. Len(q) \in Nat \ {0} /\ \A i \in 1..Len(q) : q[i] \in AnyFibers
  BY EmptySeq
<1> DEFINE n == Len(q) - 1
<1>2. n \in Int /\ \A i \in 1..n : q[i] \in AnyFibers
  BY <1>1
<1>3. /\ SubSeq(q, 1, n) \in Seq(AnyFibers)
      /\ Len(SubSeq(q, 1, n)) = IF 1 <= n THEN n - 1 + 1 ELSE 0
      /\ \A i \in 1..n - 1 + 1 : SubSeq(q, 1, n)[i] = q[1 + i - 1]
  BY <1>2, SubSeqProperties
<1>4. Len(SubSeq(q, 1, n)) = n /\ \A i \in 1..n : SubSeq(q, 1, n)[i] = q[i]
  <2>1. n \in Nat /\ 1..n - 1 + 1 = 1..n /\ \A i \in 1..n : 1 + i - 1 = i
    BY <1>1
  <2> HIDE DEF n
  <2>2. (IF 1 <= n THEN n - 1 + 1 ELSE 0) = n
    BY <2>1
  <2> QED
    BY <1>3, <2>1, <2>2
<1> QED
  BY <1>1, <1>3, <1>4

LEMMA FrontHas ==
    ASSUME NEW q \in Seq(AnyFibers), q # <<>>
    PROVE  /\ SubSeq(q, 1, Len(q) - 1) \in Seq(AnyFibers)
           /\ q[Len(q)] \in AnyFibers
           /\ \A f : Has(q, f) /\ q[Len(q)] # f => Has(SubSeq(q, 1, Len(q) - 1), f)
<1> DEFINE front == SubSeq(q, 1, Len(q) - 1)
<1>1. ASSUME NEW f, NEW i \in 1..Len(q), q[i] = f, q[Len(q)] # f PROVE Has(front, f)
  <2>1. i \in 1..Len(front) /\ front[i] = f
    BY <1>1, FrontIs
  <2> HIDE DEF front
  <2> QED
    BY <2>1 DEF Has
<1> QED
  BY <1>1, FrontIs DEF Has

LEMMA TailHas ==
    ASSUME NEW q \in Seq(AnyFibers), q # <<>>
    PROVE  /\ Tail(q) \in Seq(AnyFibers) /\ Head(q) \in AnyFibers
           /\ \A f : Has(q, f) /\ Head(q) # f => Has(Tail(q), f)
<1>1. Len(q) \in Nat \ {0} /\ Head(q) = q[1] /\ Head(q) \in AnyFibers
  BY EmptySeq
<1>2. /\ Tail(q) \in Seq(AnyFibers)
      /\ Len(Tail(q)) = Len(q) - 1
      /\ \A i \in 1..(Len(q) - 1) : Tail(q)[i] = q[i + 1]
  BY <1>1, HeadTailProperties
<1>3. ASSUME NEW f, NEW i \in 1..Len(q), q[i] = f, Head(q) # f PROVE Has(Tail(q), f)
  <2>1. i # 1 /\ i - 1 \in 1..Len(Tail(q)) /\ Tail(q)[i - 1] = f
    BY <1>1, <1>2, <1>3
  <2> QED
    BY <2>1 DEF Has
<1> QED
  BY <1>1, <1>2, <1>3 DEF Has

LEMMA EmptyHasNot == \A f : ~Has(<<>>, f)
BY DEF Has

LEMMA OnlyDispatcher ==
    <<Dispatcher>> \in Seq(AnyFibers) /\ Has(<<Dispatcher>>, Dispatcher)
BY FiberTypes DEF Has

-----------------------------------------------------------------------------
(* The types. *)

LEMMA InitTypes == Init => TypeOK
<1>1. <<>> \in Seq(AnyFibers)
  BY EmptySeq
<1>2. Main \in AnyFibers
  BY FiberTypes
<1>3. ASSUME Init PROVE TypeOK
  <2>1. /\ ready \in [Strategies -> Seq(AnyFibers)] /\ due \in [Strategies -> Seq(AnyFibers)]
        /\ current \in [Strategies -> AnyFibers]
    BY <1>1, <1>2, <1>3 DEF Init
  <2>2. spc \in [Strategies -> Places] /\ notified \in [Strategies -> BOOLEAN]
    BY <1>3 DEF Init, Places
  <2>3. sleeping \in [Strategies -> SUBSET Nat] /\ task \in [Posters -> Nat]
    BY <1>3 DEF Init
  <2> QED
    BY <1>3, <2>1, <2>2, <2>3 DEF Init, TypeOK
<1> QED
  BY <1>3

LEMMA ResumeTypes ==
    ASSUME TypeOK, NEW s \in Strategies, NEW fiber \in AnyFibers, Resume(s, fiber)
    PROVE  /\ current' \in [Strategies -> AnyFibers]
           /\ spc' \in [Strategies -> Places]
BY DEF TypeOK, Resume, Goto, Places

LEMMA ResumePlaces ==
    ASSUME TypeOK, NEW s \in Strategies, NEW fiber, Resume(s, fiber)
    PROVE  /\ spc'[s] \in {"returned", "dispatch", "tail", "start"}
           /\ fiber = Main => spc'[s] = "returned"
           /\ fiber = Dispatcher => spc'[s] = "dispatch"
           /\ \A u \in Strategies \ {s} : spc'[u] = spc[u]
<1> DEFINE place == CASE fiber = Main -> "returned"
                      [] fiber = Dispatcher -> "dispatch"
                      [] fiber.kind = "rest" -> "tail"
                      [] OTHER -> "start"
<1>1. spc' = [spc EXCEPT ![s] = place]
  BY DEF Resume, Goto
<1>2. place \in {"returned", "dispatch", "tail", "start"}
  OBVIOUS
<1>3. (fiber = Main => place = "returned") /\ (fiber = Dispatcher => place = "dispatch")
  BY DEF Main, Dispatcher
<1> HIDE DEF place
<1> QED
  BY <1>1, <1>2, <1>3 DEF TypeOK

LEMMA OutsideTypes == TypeOK /\ OutsideStep => TypeOK'
<1> SUFFICES ASSUME TypeOK, OutsideStep PROVE TypeOK'
  OBVIOUS
<1> USE DEF TypeOK
<1>1. ASSUME NEW p \in Posters, Post(p) \/ Call(p) PROVE TypeOK'
  <2>1. PICK then \in {"post_notify", "call_notify"} : Push(p, then)
    BY <1>1 DEF Post, Call
  <2>2. pushed' \in Nat /\ task' \in [Posters -> Nat] /\ ppc' \in [Posters -> {"idle", "post_notify", "call_notify", "call_wait"}]
    BY <2>1 DEF Push
  <2> QED
    BY <2>1, <2>2 DEF Push, scheduleVars, sleepVars, terminateVars, queueVars
<1>2. ASSUME NEW p \in Posters, Notify(p) PROVE TypeOK'
  BY <1>2 DEF Notify, NotifyStrategies, OnNotified, scheduleVars, sleepVars, queueVars
<1>3. ASSUME NEW p \in Posters, CallReturns(p) PROVE TypeOK'
  BY <1>3 DEF CallReturns, scheduleVars, sleepVars, terminateVars, queueVars
<1>4. ASSUME Terminate \/ TerminateNotify PROVE TypeOK'
  BY <1>4 DEF Terminate, TerminateNotify, NotifyAll, OnNotified, Waiting,
              scheduleVars, sleepVars, queueVars, posterVars
<1>5. ASSUME NEW s \in Strategies, NEW n \in TaskNumbers, TimeComes(s, n) PROVE TypeOK'
  <2>1. n \in Nat
    BY FirstLapAssumption DEF TaskNumbers
  <2>2. Append(due[s], Rest(n)) \in Seq(AnyFibers)
    BY <2>1, FiberTypes, AppendHas
  <2> QED
    BY <1>5, <2>2 DEF TimeComes, terminateVars, queueVars, posterVars
<1> QED
  BY <1>1, <1>2, <1>3, <1>4, <1>5 DEF OutsideStep

LEMMA SchedulerTypes ==
    ASSUME TypeOK, NEW s \in Strategies, SchedulerStep(s) \/ SuspendStep(s)
    PROVE  TypeOK'
<1> USE DEF TypeOK, sleepVars, terminateVars, queueVars, posterVars
<1>1. ASSUME \/ Enter(s) \/ PassBarrier(s) \/ PickNothing(s) \/ NoPostedTask(s)
             \/ OnSuspended(s) \/ WakeUp(s)
      PROVE TypeOK'
  BY <1>1 DEF Enter, PassBarrier, LeaveBarrier, PickNothing, NoPostedTask, OnSuspended, Suspend, WakeUp,
              Goto, Places
<1>2. ASSUME Construct(s) PROVE TypeOK'
  BY <1>2, OnlyDispatcher DEF Construct, Goto, Places
<1>3. ASSUME RemoteReady(s) PROVE TypeOK'
  <2>1. <<>> \in Seq(AnyFibers) /\ <<Main>> \in Seq(AnyFibers)
    BY FiberTypes, EmptySeq
  <2>2. \A q \in {<<>>, <<Main>>} : ready[s] \o q \o due[s] \in Seq(AnyFibers)
    BY <2>1, ConcatHas
  <2> QED
    BY <1>3, <2>1, <2>2 DEF RemoteReady, Goto, Places
<1>4. ASSUME PickNext(s) PROVE TypeOK'
  <2>1. /\ ready[s][Len(ready[s])] \in AnyFibers
        /\ SubSeq(ready[s], 1, Len(ready[s]) - 1) \in Seq(AnyFibers)
    BY <1>4, FrontHas DEF PickNext
  <2>2. \A q \in {<<>>, <<Dispatcher>>} : SubSeq(ready[s], 1, Len(ready[s]) - 1) \o q \in Seq(AnyFibers)
    BY <2>1, OnlyDispatcher, EmptySeq, ConcatHas
  <2>3. current' \in [Strategies -> AnyFibers] /\ spc' \in [Strategies -> Places]
    BY <1>4, <2>1, ResumeTypes DEF PickNext
  <2> QED
    BY <1>4, <2>2, <2>3 DEF PickNext
<1>5. ASSUME NEW t \in Strategies, Steal(s, t) PROVE TypeOK'
  <2>1. Head(ready[t]) \in AnyFibers /\ Tail(ready[t]) \in Seq(AnyFibers)
    BY <1>5, TailHas DEF Steal, StealUnless
  <2>2. current' \in [Strategies -> AnyFibers] /\ spc' \in [Strategies -> Places]
    BY <1>5, <2>1, ResumeTypes DEF Steal, StealUnless
  <2> QED
    BY <1>5, <2>1, <2>2, OnlyDispatcher DEF Steal, StealUnless
<1>6. ASSUME LaunchPostedTask(s) PROVE TypeOK'
  <2>1. poped' \in Nat /\ consumed' \in Nat
    BY <1>6 DEF LaunchPostedTask, LaunchAfter
  <2>2. Append(ready[s], Task(poped')) \in Seq(AnyFibers)
    BY <2>1, FiberTypes, AppendHas
  <2> QED
    BY <1>6, <2>1, <2>2 DEF LaunchPostedTask, LaunchAfter, Goto, Places
<1> QED
  BY <1>1, <1>2, <1>3, <1>4, <1>5, <1>6 DEF SchedulerStep, SuspendStep

LEMMA HandlerTypes ==
    ASSUME TypeOK, NEW s \in Strategies, HandlerStep(s)
    PROVE  TypeOK'
<1> USE DEF TypeOK, sleepVars, terminateVars, queueVars, posterVars
<1>1. current[s].nr \in Nat
  BY DEF AnyFibers
<1>2. ASSUME TerminateLocal(s) \/ HandlerReturns(s) PROVE TypeOK'
  BY <1>2 DEF TerminateLocal, HandlerReturns, Goto, Places
<1>6. ASSUME Perform(s) PROVE TypeOK'
  <2>1. released' \in Nat
    BY <1>6 DEF Perform
  <2>2. spc' \in [Strategies -> Places]
    BY <1>6 DEF Perform, Goto, Places
  <2> QED
    BY <1>6, <2>1, <2>2 DEF Perform
<1>7. ASSUME Sleep(s) PROVE TypeOK'
  <2>1. sleeping' \in [Strategies -> SUBSET Nat]
    BY <1>1, <1>7 DEF Sleep
  <2> QED
    BY <1>7, <2>1 DEF Sleep, Goto, Places
<1>3. ASSUME PostLocal(s) PROVE TypeOK'
  <2>1. Append(ready[s], Child(current[s].nr)) \in Seq(AnyFibers)
    BY <1>1, FiberTypes, AppendHas
  <2> QED
    BY <1>3, <2>1 DEF PostLocal, Goto, Places
<1>4. ASSUME DispatchLocal(s) PROVE TypeOK'
  <2>1. Append(ready[s], Rest(current[s].nr)) \in Seq(AnyFibers)
    BY <1>1, FiberTypes, AppendHas
  <2>2. current' \in [Strategies -> AnyFibers] /\ spc' \in [Strategies -> Places]
    BY <1>1, <1>4, FiberTypes, ResumeTypes DEF DispatchLocal
  <2> QED
    BY <1>4, <2>1, <2>2 DEF DispatchLocal
<1>5. ASSUME TerminateNotifyLocal(s) PROVE TypeOK'
  <2>1. Append(ready[s], Main) \in Seq(AnyFibers)
    BY FiberTypes, AppendHas
  <2> QED
    BY <1>5, <2>1 DEF TerminateNotifyLocal, OnNotified, Waiting, Goto, Places
<1> QED
  BY <1>2, <1>3, <1>4, <1>5, <1>6, <1>7 DEF HandlerStep

LEMMA TypesPreserved == TypeOK /\ [Next]_vars => TypeOK'
<1>1. TypeOK /\ UNCHANGED vars => TypeOK'
  BY DEF TypeOK, vars, scheduleVars, sleepVars, queueVars, posterVars, terminateVars
<1> QED
  BY <1>1, OutsideTypes, SchedulerTypes, HandlerTypes DEF Next

-----------------------------------------------------------------------------
(* The barrier: nobody schedules before all strategies are there. *)

\* The steps of a thread that is past the barrier.
LoopStep(s) ==
    \/ RemoteReady(s) \/ PickNext(s) \/ (\E t \in Strategies : Steal(s, t)) \/ PickNothing(s)
    \/ LaunchPostedTask(s) \/ NoPostedTask(s) \/ SuspendStep(s) \/ HandlerStep(s)

LEMMA LoopPlaces ==
    ASSUME TypeOK, NEW s \in Strategies, LoopStep(s)
    PROVE  /\ UNCHANGED strategies
           /\ s \in Waiting
           /\ \E place \in Places \ {"new", "constructing", "barrier"} :
                spc' = [spc EXCEPT ![s] = place]
<1> USE DEF Places, Waiting
<1>1. ASSUME NEW fiber, Resume(s, fiber)
      PROVE  \E place \in Places \ {"new", "constructing", "barrier"} : spc' = [spc EXCEPT ![s] = place]
  BY <1>1 DEF Resume, Goto
<1>2. ASSUME PickNext(s) \/ (\E t \in Strategies : Steal(s, t)) \/ DispatchLocal(s)
      PROVE  /\ UNCHANGED strategies
             /\ spc[s] \in {"pick", "look", "handler"}
             /\ \E fiber : Resume(s, fiber)
  BY <1>2 DEF PickNext, Steal, StealUnless, DispatchLocal
<1>3. ASSUME \/ RemoteReady(s) \/ PickNothing(s) \/ LaunchPostedTask(s) \/ NoPostedTask(s)
             \/ SuspendStep(s)
      PROVE  /\ UNCHANGED strategies
             /\ spc[s] \in {"dispatch", "look", "suspend", "on_suspended", "asleep"}
             /\ \E place \in {"dispatch", "look", "suspend", "on_suspended", "asleep"} :
                  spc' = [spc EXCEPT ![s] = place]
  BY <1>3 DEF RemoteReady, PickNothing, LaunchPostedTask, LaunchAfter, NoPostedTask,
              SuspendStep, OnSuspended, Suspend, WakeUp, Goto
<1>4. ASSUME \/ Perform(s) \/ PostLocal(s) \/ Sleep(s) \/ TerminateLocal(s) \/ TerminateNotifyLocal(s)
             \/ HandlerReturns(s)
      PROVE  /\ UNCHANGED strategies
             /\ spc[s] \in {"start", "handler", "notify_all", "tail"}
             /\ \E place \in {"pick", "handler", "notify_all", "tail"} : spc' = [spc EXCEPT ![s] = place]
  BY <1>4 DEF Perform, PostLocal, Sleep, TerminateLocal, TerminateNotifyLocal, HandlerReturns, Goto
<1>5. CASE PickNext(s) \/ (\E t \in Strategies : Steal(s, t)) \/ DispatchLocal(s)
  BY <1>1, <1>2, <1>5
<1>6. CASE \/ RemoteReady(s) \/ PickNothing(s) \/ LaunchPostedTask(s) \/ NoPostedTask(s)
           \/ SuspendStep(s)
  BY <1>3, <1>6
<1>7. CASE \/ Perform(s) \/ PostLocal(s) \/ Sleep(s) \/ TerminateLocal(s) \/ TerminateNotifyLocal(s)
           \/ HandlerReturns(s)
  BY <1>4, <1>7
<1> QED
  BY <1>5, <1>6, <1>7 DEF LoopStep, HandlerStep

\* No step from outside moves a thread.
LEMMA OutsidePlaces == OutsideStep => UNCHANGED <<strategies, spc, ready, current>>
BY DEF OutsideStep, Post, Call, Push, Notify, NotifyStrategies, CallReturns, Terminate, TerminateNotify,
       NotifyAll, TimeComes, scheduleVars

LEMMA StepCases ==
    ASSUME [Next]_vars
    PROVE  \/ OutsideStep \/ UNCHANGED vars
           \/ \E s \in Strategies : Enter(s) \/ Construct(s) \/ PassBarrier(s) \/ LoopStep(s)
BY DEF Next, SchedulerStep, LoopStep

LEMMA RegisteredPreserved == TypeOK /\ Registered /\ [Next]_vars => Registered'
<1> SUFFICES ASSUME TypeOK, Registered, [Next]_vars PROVE Registered'
  OBVIOUS
<1> USE DEF Registered, Waiting
<1>1. ASSUME OutsideStep \/ UNCHANGED vars PROVE Registered'
  BY <1>1, OutsidePlaces DEF vars, scheduleVars
<1>2. ASSUME NEW s \in Strategies, Enter(s) PROVE Registered'
  BY <1>2 DEF Enter, Goto, TypeOK
<1>3. ASSUME NEW s \in Strategies, Construct(s) PROVE Registered'
  BY <1>3 DEF Construct, Goto, TypeOK
<1>4. ASSUME NEW s \in Strategies, PassBarrier(s) PROVE Registered'
  BY <1>4 DEF PassBarrier, LeaveBarrier, Goto, TypeOK
<1>5. ASSUME NEW s \in Strategies, LoopStep(s) PROVE Registered'
  <2>1. PICK place \in Places \ {"new", "constructing", "barrier"} : spc' = [spc EXCEPT ![s] = place]
    BY <1>5, LoopPlaces
  <2>2. UNCHANGED strategies /\ s \in Waiting
    BY <1>5, LoopPlaces
  <2> QED
    BY <2>1, <2>2 DEF TypeOK
<1> QED
  BY <1>1, <1>2, <1>3, <1>4, <1>5, StepCases

-----------------------------------------------------------------------------
(* The ready queues. *)

LEMMA SchedulerPreserved == TypeOK /\ SchedulerInv /\ [Next]_vars => SchedulerInv'
<1> SUFFICES ASSUME TypeOK, SchedulerInv, [Next]_vars PROVE SchedulerInv'
  OBVIOUS
<1> USE DEF SchedulerInv
<1>1. ASSUME OutsideStep \/ UNCHANGED vars PROVE SchedulerInv'
  BY <1>1, OutsidePlaces DEF vars, scheduleVars
<1>2. ASSUME NEW s \in Strategies, Enter(s) \/ PassBarrier(s) PROVE SchedulerInv'
  BY <1>2 DEF Enter, PassBarrier, LeaveBarrier, Goto, TypeOK
<1>3. ASSUME NEW s \in Strategies, Construct(s) PROVE SchedulerInv'
  BY <1>3, OnlyDispatcher DEF Construct, Goto, TypeOK
<1>4. ASSUME NEW s \in Strategies, RemoteReady(s) PROVE SchedulerInv'
  BY <1>4 DEF RemoteReady, Goto, TypeOK
<1>5. ASSUME NEW s \in Strategies, PickNext(s) PROVE SchedulerInv'
  <2> DEFINE q == SubSeq(ready[s], 1, Len(ready[s]) - 1)
             picked == ready[s][Len(ready[s])]
  <2>1. /\ ready[s] \in Seq(AnyFibers) /\ ready[s] # <<>>
        /\ ready' = [ready EXCEPT ![s] = q \o (IF spc[s] = "look" THEN <<Dispatcher>> ELSE <<>>)]
        /\ spc[s] \in {"pick", "look"}
        /\ Resume(s, picked)
    BY <1>5 DEF PickNext, TypeOK
  <2>2. q \in Seq(AnyFibers) /\ (Has(ready[s], Dispatcher) /\ picked # Dispatcher => Has(q, Dispatcher))
    BY <2>1, FrontHas
  <2>3. spc'[s] \in {"returned", "dispatch", "tail", "start"} /\ (picked = Dispatcher => spc'[s] = "dispatch")
    BY <2>1, ResumePlaces
  <2>4. picked # Dispatcher => Has(ready'[s], Dispatcher)
    <3>1. CASE spc[s] = "look"
      <4>1. ready'[s] = q \o <<Dispatcher>>
        BY <2>1, <3>1 DEF TypeOK
      <4> QED
        BY <2>2, <4>1, OnlyDispatcher, ConcatHas
    <3>2. CASE spc[s] = "pick"
      <4>1. ready'[s] = q \o <<>>
        BY <2>1, <3>2 DEF TypeOK
      <4> QED
        BY <2>2, <3>2, <4>1, EmptySeq, ConcatHas
    <3> QED
      BY <2>1, <3>1, <3>2
  <2>5. \A u \in Strategies \ {s} : spc'[u] = spc[u] /\ ready'[u] = ready[u]
    BY <2>1, ResumePlaces DEF TypeOK
  <2> QED
    BY <2>3, <2>4, <2>5
<1>6. ASSUME NEW s \in Strategies, NEW t \in Strategies, Steal(s, t) PROVE SchedulerInv'
  <2>1. /\ s # t /\ ready[t] \in Seq(AnyFibers) /\ ready[t] # <<>>
        /\ Head(ready[t]) # Dispatcher
        /\ ready'[t] = Tail(ready[t]) /\ ready'[s] = <<Dispatcher>>
        /\ \A u \in Strategies \ {s, t} : ready'[u] = ready[u]
        /\ Resume(s, Head(ready[t]))
    BY <1>6 DEF Steal, StealUnless, TypeOK
  <2>2. Has(ready[t], Dispatcher) => Has(ready'[t], Dispatcher)
    BY <2>1, TailHas
  <2>3. /\ spc'[s] \in {"returned", "dispatch", "tail", "start"}
        /\ \A u \in Strategies \ {s} : spc'[u] = spc[u]
    BY <2>1, ResumePlaces
  <2> QED
    BY <2>1, <2>2, <2>3, OnlyDispatcher
<1>7. ASSUME NEW s \in Strategies, PickNothing(s) \/ NoPostedTask(s) \/ OnSuspended(s) \/ WakeUp(s)
      PROVE  SchedulerInv'
  BY <1>7, BlockingFlagAssumption DEF PickNothing, NoPostedTask, OnSuspended, Suspend, WakeUp, Goto, TypeOK
<1>8. ASSUME NEW s \in Strategies, LaunchPostedTask(s) PROVE SchedulerInv'
  BY <1>8 DEF LaunchPostedTask, LaunchAfter, Goto, TypeOK
<1>9. ASSUME NEW s \in Strategies, Perform(s) \/ Sleep(s) \/ TerminateLocal(s) \/ HandlerReturns(s)
      PROVE  SchedulerInv'
  BY <1>9 DEF Perform, Sleep, TerminateLocal, HandlerReturns, Goto, TypeOK
<1>10. ASSUME NEW s \in Strategies, PostLocal(s) \/ DispatchLocal(s) \/ TerminateNotifyLocal(s)
       PROVE  SchedulerInv'
  <2>1. PICK fiber \in AnyFibers : ready' = [ready EXCEPT ![s] = Append(@, fiber)]
    <3>1. current[s].nr \in Nat
      BY DEF TypeOK, AnyFibers
    <3> QED
      BY <1>10, <3>1, FiberTypes DEF PostLocal, DispatchLocal, TerminateNotifyLocal
  <2>2. Has(ready[s], Dispatcher)
    BY <1>10 DEF PostLocal, DispatchLocal, TerminateNotifyLocal
  <2>4. Has(ready'[s], Dispatcher)
    <3>1. ready[s] \in Seq(AnyFibers) /\ ready'[s] = Append(ready[s], fiber)
      BY <2>1 DEF TypeOK
    <3> QED
      BY <2>2, <3>1, AppendHas
  <2>3. /\ spc'[s] \in {"returned", "dispatch", "tail", "start"}
        /\ \A u \in Strategies \ {s} : spc'[u] = spc[u]
    BY <1>10 DEF PostLocal, DispatchLocal, TerminateNotifyLocal, Resume, Goto, TypeOK
  <2> QED
    BY <2>1, <2>3, <2>4 DEF TypeOK
<1> QED
  BY <1>1, <1>2, <1>3, <1>4, <1>5, <1>6, <1>7, <1>8, <1>9, <1>10, StepCases
  DEF LoopStep, SuspendStep, HandlerStep

-----------------------------------------------------------------------------
(* A posted task wakes thread 0. *)

LEMMA ZeroIsAStrategy == 0 \in Strategies
BY ThreadNumAssumption DEF Strategies

LEMMA WakeupPreserved ==
    TypeOK /\ Registered /\ SchedulerInv /\ WakeupInv /\ [Next]_vars => WakeupInv'
<1> SUFFICES ASSUME TypeOK, Registered, SchedulerInv, WakeupInv, [Next]_vars PROVE WakeupInv'
  OBVIOUS
<1> USE ZeroIsAStrategy DEF WakeupInv, Notifying
<1>1. ASSUME NEW p \in Posters, Post(p) \/ Call(p) PROVE WakeupInv'
  BY <1>1 DEF Post, Call, Push, TypeOK
<1>2. ASSUME NEW p \in Posters, Notify(p) PROVE WakeupInv'
  <2>1. CASE spc[0] \in {"on_suspended", "asleep"}
    <3>1. 0 \in strategies /\ BlockingFlag = "BLOCKING"
      BY <2>1 DEF Registered, SchedulerInv
    <3> QED
      BY <1>2, <2>1, <3>1 DEF Notify, NotifyStrategies, OnNotified
  <2>2. CASE spc[0] \notin {"on_suspended", "asleep"}
    BY <1>2, <2>2 DEF Notify, NotifyStrategies, scheduleVars
  <2> QED
    BY <2>1, <2>2
<1>3. ASSUME NEW p \in Posters, CallReturns(p) PROVE WakeupInv'
  BY <1>3 DEF CallReturns, scheduleVars, terminateVars, queueVars, TypeOK
<1>4. ASSUME Terminate \/ TerminateNotify PROVE WakeupInv'
  BY <1>4 DEF Terminate, TerminateNotify, NotifyAll, OnNotified, scheduleVars, queueVars, posterVars
<1>5. ASSUME NEW s \in Strategies, NEW n \in TaskNumbers, TimeComes(s, n) PROVE WakeupInv'
  BY <1>5 DEF TimeComes, terminateVars, queueVars, posterVars
<1>6. ASSUME NEW s \in Strategies,
             \/ Enter(s) \/ Construct(s) \/ PassBarrier(s) \/ RemoteReady(s) \/ PickNothing(s)
             \/ LaunchPostedTask(s) \/ OnSuspended(s) \/ WakeUp(s) \/ NoPostedTask(s)
      PROVE  WakeupInv'
  BY <1>6 DEF Enter, Construct, PassBarrier, LeaveBarrier, RemoteReady, PickNothing, LaunchPostedTask,
              LaunchAfter, OnSuspended, Suspend, WakeUp, NoPostedTask, Goto, TypeOK,
              terminateVars, queueVars, posterVars
<1>7. ASSUME NEW s \in Strategies, PickNext(s) \/ (\E t \in Strategies : Steal(s, t)) \/ DispatchLocal(s)
      PROVE  WakeupInv'
  BY <1>7 DEF PickNext, Steal, StealUnless, DispatchLocal, Resume, Goto, TypeOK,
              terminateVars, queueVars, posterVars
<1>8. ASSUME NEW s \in Strategies, Perform(s) PROVE WakeupInv'
  <2>1. released' \in {released, released + 1} /\ UNCHANGED <<pushed, notified, ppc>>
    BY <1>8 DEF Perform, terminateVars, posterVars
  <2>2. s # 0 => spc'[0] = spc[0]
    BY <1>8 DEF Perform, Goto, TypeOK
  <2>3. spc'[s] \in {"handler", "tail"}
    BY <1>8 DEF Perform, Goto, TypeOK
  <2> QED
    BY <2>1, <2>2, <2>3 DEF TypeOK
<1>9. ASSUME NEW s \in Strategies,
             PostLocal(s) \/ Sleep(s) \/ TerminateLocal(s) \/ TerminateNotifyLocal(s) \/ HandlerReturns(s)
      PROVE  WakeupInv'
  BY <1>9 DEF PostLocal, Sleep, TerminateLocal, TerminateNotifyLocal, HandlerReturns, OnNotified, Goto,
              TypeOK, terminateVars, queueVars, posterVars
<1>10. ASSUME UNCHANGED vars PROVE WakeupInv'
  BY <1>10 DEF vars, scheduleVars, queueVars, posterVars, terminateVars
<1> QED
  BY <1>1, <1>2, <1>3, <1>4, <1>5, <1>6, <1>7, <1>8, <1>9, <1>10, StepCases
  DEF LoopStep, SuspendStep, HandlerStep, OutsideStep

-----------------------------------------------------------------------------
(* terminate() reaches every thread. *)

LEMMA TerminationPreserved ==
    TypeOK /\ SchedulerInv /\ TerminationInv /\ [Next]_vars => TerminationInv'
<1> SUFFICES ASSUME TypeOK, SchedulerInv, TerminationInv, [Next]_vars PROVE TerminationInv'
  OBVIOUS
<1> USE DEF TerminationInv, Waiting
<1>1. ASSUME NEW p \in Posters, Post(p) \/ Call(p) \/ Notify(p) \/ CallReturns(p) PROVE TerminationInv'
  BY <1>1 DEF Post, Call, Push, Notify, NotifyStrategies, OnNotified, CallReturns, TypeOK,
              scheduleVars, terminateVars
<1>2. ASSUME Terminate PROVE TerminationInv'
  BY <1>2 DEF Terminate, scheduleVars
<1>3. ASSUME TerminateNotify PROVE TerminationInv'
  BY <1>3 DEF TerminateNotify, NotifyAll, OnNotified, scheduleVars, TypeOK
<1>4. ASSUME NEW s \in Strategies, NEW n \in TaskNumbers, TimeComes(s, n) PROVE TerminationInv'
  BY <1>4 DEF TimeComes, terminateVars
<1>5. ASSUME NEW s \in Strategies, Enter(s) PROVE TerminationInv'
  BY <1>5 DEF Enter, Goto, TypeOK, terminateVars
<1>6. ASSUME NEW s \in Strategies, Construct(s) PROVE TerminationInv'
  BY <1>6 DEF Construct, Goto, TypeOK, terminateVars
<1>7. ASSUME NEW s \in Strategies, PassBarrier(s) PROVE TerminationInv'
  BY <1>7 DEF PassBarrier, LeaveBarrier, Goto, TypeOK, terminateVars
<1>8. ASSUME NEW s \in Strategies, RemoteReady(s) PROVE TerminationInv'
  <2> DEFINE woken == IF s \in remote THEN <<Main>> ELSE <<>>
  <2>1. /\ ready'[s] = ready[s] \o woken \o due[s]
        /\ ready[s] \in Seq(AnyFibers) /\ woken \in Seq(AnyFibers) /\ due[s] \in Seq(AnyFibers)
        /\ s \in remote => Has(woken, Main)
    BY <1>8, FiberTypes, EmptySeq DEF RemoteReady, TypeOK, Has
  <2> HIDE DEF woken
  <2>2. /\ ready[s] \o woken \in Seq(AnyFibers)
        /\ Has(ready[s], Main) => Has(ready[s] \o woken, Main)
        /\ Has(woken, Main) => Has(ready[s] \o woken, Main)
    BY <2>1, ConcatHas
  <2>3. Has(ready[s] \o woken, Main) => Has(ready'[s], Main)
    BY <2>1, <2>2, ConcatHas
  <2> QED
    BY <1>8, <2>1, <2>2, <2>3 DEF RemoteReady, Goto, TypeOK
<1>9. ASSUME NEW s \in Strategies, PickNext(s) PROVE TerminationInv'
  <2> DEFINE q == SubSeq(ready[s], 1, Len(ready[s]) - 1)
             picked == ready[s][Len(ready[s])]
             rest == IF spc[s] = "look" THEN <<Dispatcher>> ELSE <<>>
  <2>1. /\ ready[s] \in Seq(AnyFibers) /\ ready[s] # <<>>
        /\ ready'[s] = q \o rest /\ rest \in Seq(AnyFibers)
        /\ Resume(s, picked)
    BY <1>9, OnlyDispatcher, EmptySeq DEF PickNext, TypeOK
  <2>2. q \in Seq(AnyFibers) /\ (Has(ready[s], Main) /\ picked # Main => Has(q, Main))
    BY <2>1, FrontHas
  <2>3. Has(ready[s], Main) /\ picked # Main => Has(ready'[s], Main)
    BY <2>1, <2>2, ConcatHas
  <2>4. /\ spc'[s] \in {"returned", "dispatch", "tail", "start"}
        /\ picked = Main => spc'[s] = "returned"
        /\ \A u \in Strategies \ {s} : spc'[u] = spc[u]
    BY <2>1, ResumePlaces
  <2>5. /\ spc[s] \in {"pick", "look"} /\ UNCHANGED <<remote, notified, done, tpc>>
        /\ \A u \in Strategies \ {s} : ready'[u] = ready[u]
    BY <1>9 DEF PickNext, TypeOK, terminateVars
  <2> QED
    BY <2>3, <2>4, <2>5 DEF TypeOK
<1>10. ASSUME NEW s \in Strategies, NEW t \in Strategies, Steal(s, t) PROVE TerminationInv'
  <2>1. /\ s # t /\ ready[t] \in Seq(AnyFibers) /\ ready[t] # <<>> /\ ready[s] = <<>>
        /\ Head(ready[t]) # Main /\ spc[s] = "look"
        /\ ready'[t] = Tail(ready[t])
        /\ \A u \in Strategies \ {s, t} : ready'[u] = ready[u]
        /\ Resume(s, Head(ready[t]))
        /\ UNCHANGED <<remote, notified, done, tpc>>
    BY <1>10 DEF Steal, StealUnless, TypeOK, terminateVars
  <2>2. Has(ready[t], Main) => Has(ready'[t], Main)
    BY <2>1, TailHas
  <2>3. /\ spc'[s] \in {"returned", "dispatch", "tail", "start"}
        /\ \A u \in Strategies \ {s} : spc'[u] = spc[u]
    BY <2>1, ResumePlaces
  <2>4. ~Has(ready[s], Main)
    BY <2>1, EmptyHasNot
  <2> QED
    BY <2>1, <2>2, <2>3, <2>4 DEF TypeOK
<1>11. ASSUME NEW s \in Strategies, PickNothing(s) \/ NoPostedTask(s) PROVE TerminationInv'
  BY <1>11 DEF PickNothing, NoPostedTask, Goto, TypeOK, terminateVars
<1>12. ASSUME NEW s \in Strategies, OnSuspended(s) \/ WakeUp(s) PROVE TerminationInv'
  BY <1>12 DEF OnSuspended, Suspend, WakeUp, Goto, TypeOK
<1>13. ASSUME NEW s \in Strategies, LaunchPostedTask(s) \/ PostLocal(s) \/ DispatchLocal(s)
       PROVE  TerminationInv'
  <2>1. current[s].nr \in Nat /\ (LaunchPostedTask(s) => poped' \in Nat)
    BY DEF TypeOK, AnyFibers, LaunchPostedTask, LaunchAfter
  <2>2. PICK fiber \in AnyFibers : ready' = [ready EXCEPT ![s] = Append(@, fiber)]
    BY <1>13, <2>1, FiberTypes DEF LaunchPostedTask, LaunchAfter, PostLocal, DispatchLocal
  <2>3. Has(ready[s], Main) => Has(ready'[s], Main)
    <3>1. ready[s] \in Seq(AnyFibers) /\ ready'[s] = Append(ready[s], fiber)
      BY <2>2 DEF TypeOK
    <3> QED
      BY <3>1, AppendHas
  <2>4. /\ spc[s] \in {"suspend", "handler"}
        /\ spc'[s] \in {"returned", "dispatch", "tail", "start"}
        /\ \A u \in Strategies \ {s} : spc'[u] = spc[u] /\ ready'[u] = ready[u]
        /\ UNCHANGED <<remote, notified, done, tpc>>
    BY <1>13, <2>2 DEF LaunchPostedTask, LaunchAfter, PostLocal, DispatchLocal, Resume, Goto, TypeOK,
                       terminateVars
  <2> QED
    BY <2>3, <2>4 DEF TypeOK
<1>14. ASSUME NEW s \in Strategies, Perform(s) \/ Sleep(s) \/ HandlerReturns(s) PROVE TerminationInv'
  BY <1>14 DEF Perform, Sleep, HandlerReturns, Goto, TypeOK, terminateVars
<1>15. ASSUME NEW s \in Strategies, TerminateLocal(s) PROVE TerminationInv'
  BY <1>15 DEF TerminateLocal, Goto, TypeOK
<1>16. ASSUME NEW s \in Strategies, TerminateNotifyLocal(s) PROVE TerminationInv'
  <2> DEFINE others == Waiting \ {s}
  <2>1. /\ ready[s] \in Seq(AnyFibers) /\ ready'[s] = Append(ready[s], Main)
        /\ \A u \in Strategies \ {s} : ready'[u] = ready[u] /\ spc'[u] = spc[u]
        /\ spc'[s] = "tail"
    BY <1>16 DEF TerminateNotifyLocal, Goto, TypeOK
  <2>2. Has(ready'[s], Main)
    BY <2>1, FiberTypes, AppendHas
  <2>3. /\ done /\ done' /\ tpc' = "done"
        /\ remote' = remote \cup others
    BY <1>16 DEF TerminateNotifyLocal
  <2>4. \A u \in Strategies : notified'[u] <=> notified[u] \/ (u \in others /\ BlockingFlag = "BLOCKING")
    BY <1>16 DEF TerminateNotifyLocal, OnNotified
  <2>5. \A u \in Strategies \ {s} : spc[u] \notin {"new", "constructing", "barrier", "returned"} => u \in others
    OBVIOUS
  <2>6. others \subseteq Strategies \ {s} /\ remote \subseteq Strategies
    BY DEF TypeOK
  <2> HIDE DEF others
  <2> QED
    BY <2>1, <2>2, <2>3, <2>4, <2>5, <2>6
<1>17. ASSUME UNCHANGED vars PROVE TerminationInv'
  BY <1>17 DEF vars, scheduleVars, terminateVars
<1> QED
  BY <1>1, <1>2, <1>3, <1>4, <1>5, <1>6, <1>7, <1>8, <1>9, <1>10, <1>11, <1>12, <1>13, <1>14, <1>15, <1>16,
     <1>17, StepCases
  DEF LoopStep, SuspendStep, HandlerStep, OutsideStep

-----------------------------------------------------------------------------
LEMMA InitInv == Init => SleepInv
<1>1. Init => Registered /\ SchedulerInv /\ WakeupInv /\ TerminationInv
  BY ZeroIsAStrategy DEF Init, Registered, SchedulerInv, WakeupInv, TerminationInv, Waiting
<1> QED
  BY <1>1, InitTypes DEF SleepInv

LEMMA SleepInvariant == Spec => []SleepInv
<1>1. SleepInv /\ [Next]_vars => SleepInv'
  BY TypesPreserved, RegisteredPreserved, SchedulerPreserved, WakeupPreserved, TerminationPreserved
  DEF SleepInv
<1> QED
  BY <1>1, InitInv, PTL DEF Spec

\* No posted task is left beside a sleeping thread without a notification on
\* its way, for any number of threads and posters.
THEOREM WakeupSafety == Spec => []NoLostWakeup
<1>1. SleepInv => NoLostWakeup
  BY DEF SleepInv, WakeupInv, NoLostWakeup, Notifying
<1> QED
  BY <1>1, SleepInvariant, PTL

\* terminate() leaves no thread asleep without a notification, wherever in its
\* loop each of them is, for any number of threads.
THEOREM TerminationSafety == Spec => []NoLostTermination
<1>1. SleepInv => NoLostTermination
  BY EmptyHasNot DEF SleepInv, SchedulerInv, TerminationInv, NoLostTermination, Waiting
<1> QED
  BY <1>1, SleepInvariant, PTL

\* pick_next() finds the strategies of all threads and, where it must, a fiber,
\* whatever the other threads steal, for any number of threads.
THEOREM PickNextSafety == Spec => []PickNextFindsAll
<1>1. SleepInv => PickNextFindsAll
  <2>1. SleepInv => StrategiesAreThere
    BY DEF SleepInv, TypeOK, Registered, StrategiesAreThere
  <2>2. SleepInv => ReadyQueueNeverRunsDry
    BY EmptyHasNot DEF SleepInv, SchedulerInv, ReadyQueueNeverRunsDry
  <2> QED
    BY <2>1, <2>2 DEF PickNextFindsAll
<1> QED
  BY <1>1, SleepInvariant, PTL

-----------------------------------------------------------------------------
(* Threads that sleep in an EpollSelector *)

\* The steps of the selector, which take the place of SuspendStep.
SelectorStep(s) == SelectStep(s) \/ SelectOther(s)

\* A pending signal is in the ready list of epoll or about to be read, and not
\* both: then reading it would leave an event without a signal.
SignalInv ==
    /\ edge \in [Strategies -> BOOLEAN]
    /\ \A s \in Strategies : /\ notified[s] <=> edge[s] \/ spc[s] = "read"
                             /\ ~(edge[s] /\ spc[s] = "read")

\* The inductive invariant of both parts.
AllInv == SleepInv /\ (part = "net" => SignalInv)

-----------------------------------------------------------------------------
(* What the two kinds of strategies have in common. *)

LEMMA SleepPreserved == SleepInv /\ [Next]_vars => SleepInv'
BY TypesPreserved, RegisteredPreserved, SchedulerPreserved, WakeupPreserved, TerminationPreserved
DEF SleepInv

LEMMA SelectorPlaces ==
    ASSUME TypeOK, NEW s \in Strategies, SelectorStep(s)
    PROVE  /\ UNCHANGED <<strategies, ready, current, due, sleeping, remote, done, tpc, queueVars, posterVars,
                          crashed>>
           /\ \A u \in Strategies \ {s} : spc'[u] = spc[u] /\ notified'[u] = notified[u]
           /\ spc[s] \in {"on_suspended", "asleep", "read"}
           /\ spc'[s] \in {"asleep", "read", "dispatch"}
           /\ spc'[s] = "asleep" => spc[s] = "on_suspended"
           /\ spc'[s] # "dispatch" => notified'[s] = notified[s]
           /\ spc' \in [Strategies -> Places] /\ notified' \in [Strategies -> BOOLEAN]
<1> USE DEF Goto, TypeOK, Places, sleepVars, terminateVars
<1>1. CASE Select(s)
  BY <1>1 DEF Select
<1>2. CASE SelectSignal(s)
  BY <1>2 DEF SelectSignal, SignalEvent
<1>3. CASE SelectTimeout(s)
  BY <1>3 DEF SelectTimeout
<1>4. CASE ReadSignal(s)
  BY <1>4 DEF ReadSignal
<1>5. CASE SelectOther(s)
  BY <1>5 DEF SelectOther
<1> QED
  BY <1>1, <1>2, <1>3, <1>4, <1>5 DEF SelectorStep, SelectStep

LEMMA SelectorKeepsSleepInv ==
    ASSUME SleepInv, NEW s \in Strategies, SelectorStep(s)
    PROVE  SleepInv'
<1> USE SelectorPlaces DEF SleepInv
<1>1. TypeOK'
  BY DEF TypeOK, queueVars, posterVars
<1>2. Registered'
  BY DEF Registered, Waiting
<1>3. SchedulerInv'
  BY DEF SchedulerInv
<1>4. WakeupInv'
  BY ZeroIsAStrategy DEF WakeupInv, Notifying, queueVars, posterVars
<1>5. TerminationInv'
  <2>1. /\ UNCHANGED <<ready, remote, done, tpc>> /\ remote \subseteq Strategies
        /\ \A u \in Strategies \ {s} : spc'[u] = spc[u] /\ notified'[u] = notified[u]
        /\ spc[s] \in {"on_suspended", "asleep", "read"} /\ spc'[s] \in {"asleep", "read", "dispatch"}
        /\ spc'[s] = "asleep" => spc[s] = "on_suspended" /\ notified'[s] = notified[s]
    BY DEF TypeOK
  <2>2. Waiting' = Waiting
    BY <2>1 DEF Waiting
  <2> QED
    BY ONLY TerminationInv, <2>1, <2>2 DEF TerminationInv
<1> QED
  BY <1>1, <1>2, <1>3, <1>4, <1>5

-----------------------------------------------------------------------------
(* The signals. *)

\* No other step than those of the selector takes a notification back or has to
\* do with the reading of a signal.
LEMMA ContextPlaces ==
    ASSUME TypeOK, OutsideStep \/ (\E s \in Strategies : SchedulerStep(s) \/ HandlerStep(s))
    PROVE  \A u \in Strategies : /\ notified[u] => notified'[u]
                                 /\ notified'[u] \in BOOLEAN
                                 /\ spc'[u] = "read" <=> spc[u] = "read"
<1>1. CASE OutsideStep
  <2>1. spc' = spc /\ (notified' = notified \/ \E set : OnNotified(set))
    BY <1>1 DEF OutsideStep, Post, Call, Push, Notify, NotifyStrategies, CallReturns, Terminate,
                TerminateNotify, NotifyAll, TimeComes, scheduleVars, terminateVars
  <2> QED
    BY <2>1 DEF OnNotified, TypeOK
<1>2. ASSUME NEW s \in Strategies,
             \/ Enter(s) \/ Construct(s) \/ PassBarrier(s) \/ RemoteReady(s) \/ PickNothing(s)
             \/ LaunchPostedTask(s) \/ NoPostedTask(s)
      PROVE  /\ notified' = notified
             /\ spc[s] # "read" /\ spc'[s] # "read" /\ \A u \in Strategies \ {s} : spc'[u] = spc[u]
  BY <1>2 DEF Enter, Construct, PassBarrier, LeaveBarrier, RemoteReady, PickNothing, LaunchPostedTask,
              LaunchAfter, NoPostedTask, Goto, TypeOK, terminateVars
<1>3. ASSUME NEW s \in Strategies,
             \/ PickNext(s) \/ (\E t \in Strategies : Steal(s, t))
             \/ DispatchLocal(s)
      PROVE  /\ notified' = notified
             /\ spc[s] # "read" /\ spc'[s] # "read" /\ \A u \in Strategies \ {s} : spc'[u] = spc[u]
  BY <1>3, ResumePlaces DEF PickNext, Steal, StealUnless, DispatchLocal, Resume, Goto, TypeOK, terminateVars
<1>4. ASSUME NEW s \in Strategies,
             \/ Perform(s) \/ PostLocal(s) \/ Sleep(s) \/ TerminateLocal(s) \/ TerminateNotifyLocal(s)
             \/ HandlerReturns(s)
      PROVE  /\ \A u \in Strategies : notified'[u] \in BOOLEAN /\ (notified[u] => notified'[u])
             /\ spc[s] # "read" /\ spc'[s] # "read" /\ \A u \in Strategies \ {s} : spc'[u] = spc[u]
  BY <1>4 DEF Perform, PostLocal, Sleep, TerminateLocal, TerminateNotifyLocal, HandlerReturns, OnNotified,
              Goto, TypeOK, terminateVars
<1> QED
  BY <1>1, <1>2, <1>3, <1>4 DEF SchedulerStep, HandlerStep, TypeOK

LEMMA NotifyingKeepsSignalInv ==
    ASSUME TypeOK, SignalInv,
           WithSignals(OutsideStep) \/ (\E s \in Strategies : WithSignals(SchedulerStep(s) \/ HandlerStep(s)))
    PROVE  SignalInv'
<1>1. /\ OutsideStep \/ (\E s \in Strategies : SchedulerStep(s) \/ HandlerStep(s))
      /\ edge' = [s \in Strategies |-> edge[s] \/ (notified'[s] /\ ~notified[s])]
  BY DEF WithSignals
<1>2. \A u \in Strategies : /\ notified[u] => notified'[u]
                            /\ notified'[u] \in BOOLEAN
                            /\ spc'[u] = "read" <=> spc[u] = "read"
  BY <1>1, ContextPlaces
<1>3. notified \in [Strategies -> BOOLEAN]
  BY DEF TypeOK
<1> QED
  BY <1>1, <1>2, <1>3 DEF SignalInv

LEMMA SelectorKeepsSignalInv ==
    ASSUME TypeOK, SignalInv, NEW s \in Strategies, SelectorStep(s)
    PROVE  SignalInv'
<1> USE DEF SignalInv, TypeOK, Goto
<1>1. CASE Select(s) \/ SelectOther(s)
  BY <1>1 DEF Select, SelectOther, terminateVars
<1>2. CASE SelectSignal(s)
  BY <1>2 DEF SelectSignal, SignalEvent, terminateVars
<1>3. CASE SelectTimeout(s)
  BY <1>3 DEF SelectTimeout, terminateVars
<1>4. CASE ReadSignal(s)
  BY <1>4 DEF ReadSignal
<1> QED
  BY <1>1, <1>2, <1>3, <1>4 DEF SelectorStep, SelectStep

-----------------------------------------------------------------------------
LEMMA AllInit_Inv == AllInit => AllInv
BY InitInv DEF AllInit, NetInit, Init, AllInv, SignalInv

LEMMA AllPreserved == AllInv /\ [AllNext]_partVars => AllInv'
<1> SUFFICES ASSUME AllInv, [AllNext]_partVars PROVE AllInv'
  OBVIOUS
<1> USE DEF AllInv
<1>1. CASE InBlocking(Next)
  BY <1>1, SleepPreserved DEF InBlocking
<1>2. CASE InNet(NetNext)
  <2>1. CASE \/ WithSignals(OutsideStep)
             \/ \E s \in Strategies : WithSignals(SchedulerStep(s) \/ HandlerStep(s))
    <3>1. Next
      BY <1>2, <2>1 DEF InNet, NetNext, Next, WithSignals
    <3>2. part = "net" => SignalInv'
      BY <2>1, NotifyingKeepsSignalInv DEF SleepInv
    <3> QED
      BY <1>2, <3>1, <3>2, SleepPreserved DEF InNet
  <2>2. CASE \E s \in Strategies : SelectorStep(s)
    BY <1>2, <2>2, SelectorKeepsSleepInv, SelectorKeepsSignalInv DEF InNet, SleepInv
  <2> QED
    BY <1>2, <2>1, <2>2 DEF InNet, NetNext, SelectorStep
<1>3. CASE UNCHANGED partVars
  <2>1. UNCHANGED <<vars, edge, part>>
    BY <1>3 DEF partVars, netVars
  <2>2. UNCHANGED <<notified, spc>>
    BY <2>1 DEF vars, scheduleVars, terminateVars
  <2> QED
    BY <2>1, <2>2, SleepPreserved DEF SignalInv
<1> QED
  BY <1>1, <1>2, <1>3 DEF AllNext

LEMMA AllInvariant == AllSpec => []AllInv
BY AllInit_Inv, AllPreserved, PTL DEF AllSpec

\* _readSignal() and the edge-triggered signalfd of the EpollSelector: no
\* signal of a NetContext stays pending without an event that makes the thread
\* read it, however many notifications were merged into it.
THEOREM SignalsSafety == AllSpec => []NetInv
<1>1. AllInv => NetInv
  BY DEF AllInv, NetInv, SignalInv, SignalsArrive
<1> QED
  BY <1>1, AllInvariant, PTL

\* A thread in epoll_wait() is as safe as one on a condition variable: it never
\* sleeps beside a posted task, or after terminate(), without a notification,
\* and pick_next() finds what it needs.
THEOREM NetContextSafety == AllSpec => [](NoLostWakeup /\ NoLostTermination /\ PickNextFindsAll)
<1>1. SleepInv => NoLostWakeup
  BY DEF SleepInv, WakeupInv, NoLostWakeup, Notifying
<1>2. SleepInv => NoLostTermination
  BY EmptyHasNot DEF SleepInv, SchedulerInv, TerminationInv, NoLostTermination, Waiting
<1>3. SleepInv => PickNextFindsAll
  <2>1. SleepInv => StrategiesAreThere
    BY DEF SleepInv, TypeOK, Registered, StrategiesAreThere
  <2>2. SleepInv => ReadyQueueNeverRunsDry
    BY EmptyHasNot DEF SleepInv, SchedulerInv, ReadyQueueNeverRunsDry
  <2> QED
    BY <2>1, <2>2 DEF PickNextFindsAll
<1> QED
  BY <1>1, <1>2, <1>3, AllInvariant, PTL DEF AllInv

-----------------------------------------------------------------------------
(* One thread: the order of the tasks. *)

HasTask(q) == \E i \in 1..Len(q) : q[i].kind = "task"

OnlyTask(q, n) ==
    \A i \in 1..Len(q) : q[i].kind = "task" =>
        q[i] = Task(n) /\ \A j \in 1..Len(q) : q[j].kind = "task" => j = i

\* The fiber of a posted task has the thread and has not begun.
Starts == spc[0] = "start" /\ current[0].kind = "task"

Early == spc[0] \in {"new", "constructing"}

\* pop() is called when nothing is ready, hence after the task before has been
\* performed: one fiber at most is between pop() and release().
OrderInv ==
    /\ Len(performed) = released /\ PerformedInOrder
    /\ poped <= consumed /\ consumed <= pushed
    /\ ~HasTask(due[0])
    /\ OnlyTask(ready[0], poped)
    /\ Starts => current[0] = Task(poped) /\ ~HasTask(ready[0])
    /\ poped = IF Starts \/ HasTask(ready[0]) THEN released + 1 ELSE released
    /\ Early => ready[0] = <<>>

LEMMA EmptyTask == ~HasTask(<<>>) /\ \A n : OnlyTask(<<>>, n)
BY DEF HasTask, OnlyTask

LEMMA SingleTask == ASSUME NEW e, e.kind # "task" PROVE ~HasTask(<<e>>)
BY DEF HasTask

LEMMA AppendTask ==
    ASSUME NEW q \in Seq(AnyFibers), NEW e \in AnyFibers, NEW n, OnlyTask(q, n)
    PROVE  /\ e.kind # "task" => OnlyTask(Append(q, e), n) /\ (HasTask(Append(q, e)) <=> HasTask(q))
           /\ e.kind = "task" => HasTask(Append(q, e))
           /\ ~HasTask(q) => \A m : e = Task(m) => OnlyTask(Append(q, e), m)
<1>1. /\ Len(Append(q, e)) = Len(q) + 1 /\ Len(q) \in Nat
      /\ \A i \in 1..Len(q) : Append(q, e)[i] = q[i]
      /\ Append(q, e)[Len(q) + 1] = e
  OBVIOUS
<1>2. 1..(Len(q) + 1) = 1..Len(q) \cup {Len(q) + 1} /\ Len(q) + 1 \notin 1..Len(q)
  BY <1>1
<1> HIDE DEF AnyFibers
<1> QED
  BY ONLY <1>1, <1>2, OnlyTask(q, n) DEF HasTask, OnlyTask

LEMMA ConcatTask ==
    ASSUME NEW q \in Seq(AnyFibers), NEW r \in Seq(AnyFibers), NEW n, OnlyTask(q, n), ~HasTask(r)
    PROVE  OnlyTask(q \o r, n) /\ (HasTask(q \o r) <=> HasTask(q))
<1>1. /\ Len(q \o r) = Len(q) + Len(r) /\ Len(q) \in Nat /\ Len(r) \in Nat
      /\ \A i \in 1..Len(q) : (q \o r)[i] = q[i]
      /\ \A i \in 1..Len(r) : (q \o r)[Len(q) + i] = r[i]
  BY ConcatProperties
<1>2. 1..Len(q) \subseteq 1..Len(q \o r)
  BY <1>1
<1>3. ASSUME NEW i \in 1..Len(q \o r), (q \o r)[i].kind = "task" PROVE i \in 1..Len(q)
  <2>1. i \notin 1..Len(q) => i - Len(q) \in 1..Len(r) /\ Len(q) + (i - Len(q)) = i
    BY <1>1
  <2> QED
    BY <1>1, <1>3, <2>1 DEF HasTask
<1> QED
  BY <1>1, <1>2, <1>3 DEF HasTask, OnlyTask

LEMMA FrontTask ==
    ASSUME NEW q \in Seq(AnyFibers), q # <<>>, NEW n, OnlyTask(q, n)
    PROVE  LET front == SubSeq(q, 1, Len(q) - 1) IN
           /\ OnlyTask(front, n)
           /\ q[Len(q)].kind = "task" => q[Len(q)] = Task(n) /\ ~HasTask(front)
           /\ q[Len(q)].kind # "task" => (HasTask(front) <=> HasTask(q))
<1> DEFINE front == SubSeq(q, 1, Len(q) - 1)
<1>1. Len(q) \in Nat \ {0}
  BY FrontIs
<1>2. Len(front) = Len(q) - 1 /\ \A i \in 1..(Len(q) - 1) : front[i] = q[i]
  BY FrontIs
<1>3. 1..Len(q) = 1..(Len(q) - 1) \cup {Len(q)} /\ Len(q) \notin 1..(Len(q) - 1)
  BY <1>1
<1> HIDE DEF front
<1> QED
  BY <1>2, <1>3 DEF HasTask, OnlyTask, front

\* A step that has nothing to do with tasks.
LEMMA OrderQuiet ==
    ASSUME OrderInv, TypeOK, pushed' \in Nat, pushed' >= pushed, UNCHANGED <<queueVars, performed, ready, current>>,
           Starts' <=> Starts,
           Early' => Early, ~HasTask(due[0]) => ~HasTask(due'[0])
    PROVE  OrderInv'
<1>1. /\ UNCHANGED <<released, poped, consumed, performed, ready, current>>
      /\ pushed \in Nat /\ consumed \in Nat
  BY DEF queueVars, TypeOK
<1>2. consumed <= pushed'
  BY <1>1 DEF OrderInv
<1> QED
  BY <1>1, <1>2 DEF OrderInv, PerformedInOrder

LEMMA OneStrategy == ASSUME ThreadNum = 1 PROVE Strategies = {0}
BY DEF Strategies

LEMMA OutsideOrder ==
    ASSUME ThreadNum = 1, OrderInv, TypeOK, OutsideStep
    PROVE  OrderInv'
<1>1. CASE \E p \in Posters : Post(p) \/ Call(p)
  <2>1. /\ pushed' = pushed + 1 /\ pushed \in Nat
        /\ UNCHANGED <<queueVars, performed, ready, current, spc, due>>
    BY <1>1 DEF Post, Call, Push, TypeOK, scheduleVars, sleepVars, historyVars
  <2> QED
    BY <2>1, OrderQuiet DEF Starts, Early
<1>2. CASE \/ \E p \in Posters : Notify(p) \/ CallReturns(p)
           \/ Terminate \/ TerminateNotify
  <2>1. UNCHANGED <<pushed, queueVars, performed, ready, current, spc, due>> /\ pushed \in Nat
    BY <1>2 DEF Notify, NotifyStrategies, CallReturns, Terminate, TerminateNotify, NotifyAll,
                TypeOK, scheduleVars, sleepVars, historyVars, posterVars
  <2> QED
    BY <2>1, OrderQuiet DEF Starts, Early
<1>3. ASSUME NEW s \in Strategies, NEW n \in TaskNumbers, TimeComes(s, n) PROVE OrderInv'
  <2>1. /\ s = 0 /\ due' = [due EXCEPT ![s] = Append(@, Rest(n))] /\ pushed \in Nat
        /\ UNCHANGED <<pushed, queueVars, performed, ready, current, spc>>
    BY <1>3, OneStrategy DEF TimeComes, posterVars, historyVars, TypeOK
  <2>2. n \in Nat /\ Rest(n) \in AnyFibers /\ Rest(n).kind # "task"
    BY FiberTypes, FirstLapAssumption DEF TaskNumbers, Rest
  <2>3. due[0] \in Seq(AnyFibers) /\ due'[0] = Append(due[0], Rest(n))
    BY <2>1, OneStrategy DEF TypeOK
  <2>4. ~HasTask(due[0]) => ~HasTask(due'[0])
    <3>1. ASSUME ~HasTask(due[0]) PROVE OnlyTask(due[0], 0)
      BY <3>1 DEF HasTask, OnlyTask
    <3> QED
      BY <2>2, <2>3, <3>1, AppendTask
  <2> QED
    BY <2>1, <2>4, OrderQuiet DEF Starts, Early
<1> QED
  BY <1>1, <1>2, <1>3 DEF OutsideStep

LEMMA SchedulerOrder ==
    ASSUME ThreadNum = 1, OrderInv, TypeOK, SchedulerInv, SchedulerStep(0)
    PROVE  OrderInv'
<1>0. /\ Strategies = {0} /\ ready[0] \in Seq(AnyFibers) /\ due[0] \in Seq(AnyFibers)
      /\ pushed \in Nat /\ released \in Nat /\ poped \in Nat /\ consumed \in Nat
      /\ OnlyTask(ready[0], poped) /\ ~HasTask(due[0])
  BY OneStrategy DEF TypeOK, OrderInv
<1>1. CASE Enter(0) \/ PassBarrier(0) \/ PickNothing(0) \/ NoPostedTask(0)
  <2>1. /\ UNCHANGED <<pushed, queueVars, performed, ready, current, due>>
        /\ spc[0] # "start" /\ spc'[0] # "start" /\ (Early' => Early)
    BY <1>0, <1>1 DEF Enter, PassBarrier, LeaveBarrier, PickNothing, NoPostedTask, Goto, Early,
                      TypeOK, sleepVars, historyVars, posterVars
  <2> QED
    BY <1>0, <2>1, OrderQuiet DEF Starts, Early
<1>2. CASE Construct(0)
  <2>1. /\ UNCHANGED <<pushed, released, poped, consumed, performed, current, due>>
        /\ spc[0] = "constructing" /\ spc'[0] = "barrier" /\ ready'[0] = <<Dispatcher>>
    BY <1>0, <1>2 DEF Construct, Goto, TypeOK, sleepVars, historyVars, posterVars, queueVars
  <2> QED
    <3>1. ~HasTask(ready'[0]) /\ ~HasTask(ready[0])
      BY <2>1, SingleTask, EmptyTask DEF Dispatcher, OrderInv, Early
    <3>2. OnlyTask(ready'[0], poped')
      BY <3>1 DEF HasTask, OnlyTask
    <3> QED
      BY <2>1, <3>1, <3>2 DEF OrderInv, Starts, Early, PerformedInOrder
<1>3. CASE RemoteReady(0)
  <2> DEFINE woken == IF 0 \in remote THEN <<Main>> ELSE <<>>
  <2>1. /\ UNCHANGED <<pushed, released, poped, consumed, performed, current>>
        /\ spc[0] # "start" /\ spc'[0] # "start" /\ ~Early'
        /\ due'[0] = <<>> /\ ready'[0] = (ready[0] \o woken) \o due[0]
    BY <1>0, <1>3 DEF RemoteReady, Goto, Early, TypeOK, historyVars, posterVars, queueVars
  <2>2. woken \in Seq(AnyFibers) /\ ~HasTask(woken)
    BY FiberTypes, EmptyTask, SingleTask DEF Main
  <2>3. ready[0] \o woken \in Seq(AnyFibers) /\ OnlyTask(ready[0] \o woken, poped)
        /\ (HasTask(ready[0] \o woken) <=> HasTask(ready[0]))
    <3> HIDE DEF woken
    <3> QED
      BY <1>0, <2>2, ConcatTask
  <2>4. OnlyTask(ready'[0], poped) /\ (HasTask(ready'[0]) <=> HasTask(ready[0]))
    <3>1. \A q \in Seq(AnyFibers) : OnlyTask(q, poped) =>
              OnlyTask(q \o due[0], poped) /\ (HasTask(q \o due[0]) <=> HasTask(q))
      BY <1>0, ConcatTask
    <3> DEFINE both == ready[0] \o woken
    <3>2. /\ both \in Seq(AnyFibers) /\ OnlyTask(both, poped) /\ (HasTask(both) <=> HasTask(ready[0]))
          /\ ready'[0] = both \o due[0]
      BY <2>1, <2>3
    <3> HIDE DEF both
    <3> QED
      BY <3>1, <3>2
  <2> QED
    BY <2>1, <2>4, EmptyTask DEF OrderInv, Starts, Early, PerformedInOrder
<1>4. CASE PickNext(0)
  <2> DEFINE front == SubSeq(ready[0], 1, Len(ready[0]) - 1)
             back == IF spc[0] = "look" THEN <<Dispatcher>> ELSE <<>>
             fiber == ready[0][Len(ready[0])]
  <2>1. /\ UNCHANGED <<pushed, released, poped, consumed, performed, due>>
        /\ spc[0] # "start" /\ ready[0] # <<>>
        /\ ready'[0] = front \o back /\ Resume(0, fiber)
    BY <1>0, <1>4 DEF PickNext, TypeOK, sleepVars, historyVars, posterVars, queueVars
  <2>2. back \in Seq(AnyFibers) /\ ~HasTask(back)
    BY FiberTypes, EmptyTask, SingleTask DEF Dispatcher
  <2>3. /\ front \in Seq(AnyFibers) /\ fiber \in AnyFibers /\ OnlyTask(front, poped)
        /\ fiber.kind = "task" => fiber = Task(poped) /\ ~HasTask(front)
        /\ fiber.kind # "task" => (HasTask(front) <=> HasTask(ready[0]))
        /\ fiber.kind = "task" => HasTask(ready[0])
    <3>1. fiber.kind = "task" => HasTask(ready[0])
      <4>1. Len(ready[0]) \in Nat \ {0}
        BY <1>0, <2>1, FrontIs
      <4>2. Len(ready[0]) \in 1..Len(ready[0])
        BY <4>1
      <4> QED
        BY <4>2 DEF HasTask
    <3> QED
      BY <1>0, <2>1, <3>1, FrontIs, FrontTask
  <2> HIDE DEF front, back, fiber
  <2>4. OnlyTask(ready'[0], poped) /\ (HasTask(ready'[0]) <=> HasTask(front))
    BY <2>1, <2>2, <2>3, ConcatTask
  <2>5. current'[0] = fiber /\ (Starts' <=> fiber.kind = "task")
        /\ ~Early'
    BY <1>0, <2>1 DEF Resume, Goto, TypeOK, Starts, Early, Main, Dispatcher
  <2> QED
    BY <1>0, <2>1, <2>3, <2>4, <2>5 DEF OrderInv, Starts, Early, PerformedInOrder
<1>5. CASE \E t \in Strategies : Steal(0, t)
  BY <1>0, <1>5 DEF Steal, StealUnless
<1>6. CASE LaunchPostedTask(0)
  <2>1. ready[0] = <<>> /\ spc[0] = "suspend"
    BY <1>0, <1>6 DEF LaunchPostedTask, LaunchAfter, SchedulerInv
  <2>2. poped = released
    BY <2>1, EmptyTask DEF OrderInv, Starts
  <2>3. /\ UNCHANGED <<pushed, released, performed, current, due>> /\ spc'[0] = "dispatch"
        /\ ready'[0] = Append(ready[0], Task(poped')) /\ poped' = released + 1
        /\ poped' <= consumed' /\ consumed' <= pushed
    BY <1>0, <1>6, <2>2 DEF LaunchPostedTask, LaunchAfter, Goto, TypeOK, OrderInv,
                            sleepVars, historyVars, posterVars
  <2>4. Task(poped') \in AnyFibers /\ Task(poped').kind = "task"
    BY <1>0, <2>3, FiberTypes DEF Task
  <2>5. OnlyTask(ready'[0], poped') /\ HasTask(ready'[0])
    <3> DEFINE m == released + 1
    <3>1. Task(m) \in AnyFibers /\ Task(m).kind = "task" /\ poped' = m
      BY <2>3, <2>4
    <3> HIDE DEF m
    <3>2. OnlyTask(Append(ready[0], Task(m)), m) /\ HasTask(Append(ready[0], Task(m)))
      BY <1>0, <2>1, <3>1, AppendTask, EmptyTask
    <3> QED
      BY <2>3, <3>1, <3>2
  <2> QED
    BY <1>0, <2>3, <2>5 DEF OrderInv, Starts, Early, PerformedInOrder
<1> QED
  BY <1>1, <1>2, <1>3, <1>4, <1>5, <1>6 DEF SchedulerStep

LEMMA HandlerOrder ==
    ASSUME ThreadNum = 1, OrderInv, TypeOK, HandlerStep(0)
    PROVE  OrderInv'
<1>0. /\ Strategies = {0} /\ ready[0] \in Seq(AnyFibers) /\ current[0] \in AnyFibers
      /\ pushed \in Nat /\ released \in Nat /\ poped \in Nat /\ consumed \in Nat
      /\ OnlyTask(ready[0], poped)
  BY OneStrategy DEF TypeOK, OrderInv
<1>1. CASE Perform(0)
  <2>1. /\ UNCHANGED <<pushed, poped, consumed, ready, current, due>>
        /\ spc[0] = "start" /\ spc'[0] # "start" /\ ~Early'
        /\ current[0].kind = "task" => released' = released + 1 /\ performed' = Append(performed, current[0].nr)
        /\ current[0].kind # "task" => UNCHANGED <<released, performed>>
    BY <1>0, <1>1 DEF Perform, Goto, Early, TypeOK, sleepVars, historyVars, posterVars
  <2>2. CASE current[0].kind = "task"
    <3>1. poped = released + 1 /\ current[0].nr = poped /\ ~HasTask(ready[0])
      BY <2>1, <2>2 DEF OrderInv, Starts, Task
    <3>2. Append(performed, released + 1) = [i \in 1..(released + 1) |-> i]
      <4>1. performed = [i \in 1..released |-> i]
        BY DEF OrderInv, PerformedInOrder
      <4> QED
        BY <1>0, <4>1
    <3>3. Len([i \in 1..(released + 1) |-> i]) = released + 1
      BY <1>0
    <3>4. performed' = [i \in 1..(released + 1) |-> i] /\ released' = released + 1
      BY <2>1, <2>2, <3>1, <3>2
    <3>5. Len(performed)' = released' /\ PerformedInOrder'
      BY <3>3, <3>4 DEF PerformedInOrder
    <3> QED
      BY <1>0, <2>1, <3>1, <3>4, <3>5 DEF OrderInv, Starts, Early
  <2>3. CASE current[0].kind # "task"
    BY <2>1, <2>3 DEF OrderInv, Starts, Early, PerformedInOrder
  <2> QED
    BY <2>2, <2>3
<1>2. CASE PostLocal(0) \/ DispatchLocal(0) \/ TerminateNotifyLocal(0)
  <2>1. PICK e \in AnyFibers : e.kind # "task" /\ ready'[0] = Append(ready[0], e)
    <3>1. \A n \in Nat : /\ Child(n) \in AnyFibers /\ Child(n).kind # "task"
                         /\ Rest(n) \in AnyFibers /\ Rest(n).kind # "task"
      BY FiberTypes DEF Child, Rest
    <3>2. Main \in AnyFibers /\ Main.kind # "task" /\ current[0].nr \in Nat
      BY <1>0, FiberTypes DEF Main, AnyFibers
    <3> QED
      BY <1>0, <1>2, <3>1, <3>2 DEF PostLocal, DispatchLocal, TerminateNotifyLocal, TypeOK
  <2>2. /\ UNCHANGED <<pushed, released, poped, consumed, performed, due>>
        /\ spc[0] # "start" /\ ~Early'
        /\ spc'[0] = "start" => current'[0].kind = "child"
    BY <1>0, <1>2 DEF PostLocal, DispatchLocal, TerminateNotifyLocal, Resume, Goto, Early, TypeOK, Child,
                      sleepVars, historyVars, posterVars, queueVars
  <2>3. OnlyTask(ready'[0], poped) /\ (HasTask(ready'[0]) <=> HasTask(ready[0]))
    BY <1>0, <2>1, AppendTask
  <2> QED
    BY <2>2, <2>3 DEF OrderInv, Starts, Early, PerformedInOrder
<1>3. CASE Sleep(0) \/ TerminateLocal(0) \/ HandlerReturns(0)
  <2>1. /\ UNCHANGED <<pushed, queueVars, performed, ready, current, due>>
        /\ spc[0] # "start" /\ spc'[0] # "start" /\ (Early' => Early)
    BY <1>0, <1>3 DEF Sleep, TerminateLocal, HandlerReturns, Goto, Early, TypeOK, sleepVars, historyVars, posterVars
  <2> QED
    BY <1>0, <2>1, OrderQuiet DEF Starts, Early
<1> QED
  BY <1>1, <1>2, <1>3 DEF HandlerStep

LEMMA OrderPreserved ==
    ASSUME ThreadNum = 1, OrderInv, TypeOK, SchedulerInv, [Next]_vars
    PROVE  OrderInv'
<1>1. CASE UNCHANGED vars
  <2>1. /\ UNCHANGED <<pushed, queueVars, performed, ready, current, spc, due>> /\ pushed \in Nat
    BY <1>1 DEF vars, scheduleVars, sleepVars, historyVars, posterVars, TypeOK
  <2> QED
    BY <2>1, OrderQuiet DEF Starts, Early
<1>2. CASE SuspendStep(0)
  <2>1. /\ UNCHANGED <<pushed, queueVars, performed, ready, current, due>> /\ pushed \in Nat
        /\ spc[0] # "start" /\ spc'[0] # "start" /\ (Early' => Early)
    BY <1>2, OneStrategy DEF SuspendStep, OnSuspended, Suspend, WakeUp, Goto, Early, TypeOK, sleepVars,
                             historyVars, posterVars
  <2> QED
    BY <2>1, OrderQuiet DEF Starts, Early
<1> QED
  BY <1>1, <1>2, OneStrategy, OutsideOrder, SchedulerOrder, HandlerOrder DEF Next

LEMMA SelectorKeepsOrder ==
    ASSUME ThreadNum = 1, OrderInv, TypeOK, SelectorStep(0)
    PROVE  OrderInv'
<1>1. /\ UNCHANGED <<pushed, queueVars, performed, ready, current, due>> /\ pushed \in Nat
      /\ spc[0] # "start" /\ spc'[0] # "start" /\ (Early' => Early)
  BY OneStrategy, SelectorPlaces DEF TypeOK, Early, posterVars, SelectorStep, SelectStep, Select, SelectSignal,
     SignalEvent, SelectTimeout, ReadSignal, SelectOther, historyVars
<1> QED
  BY <1>1, OrderQuiet DEF Starts, Early

\* With one thread, the handlers of posted tasks start exactly once and in the
\* order of the posts, and no record is released before it is consumed, whatever
\* the handlers do meanwhile; with either kind of strategy and any posters.
THEOREM OrderSafety ==
    ASSUME ThreadNum = 1
    PROVE  (Spec => []ContextInv) /\ (AllSpec => []ContextInv)
<1>1. Init => OrderInv
  <2> SUFFICES ASSUME Init PROVE OrderInv
    OBVIOUS
  <2>1. performed = [i \in 1..Len(performed) |-> i] /\ Len(performed) = 0
    BY DEF Init
  <2> QED
    BY <2>1, OneStrategy, EmptyTask DEF Init, OrderInv, PerformedInOrder, Starts
<1>2. SleepInv /\ OrderInv => ContextInv
  <2>1. SleepInv /\ OrderInv => released <= pushed
    BY DEF SleepInv, TypeOK, OrderInv
  <2> QED
    BY <2>1 DEF SleepInv, OrderInv, ContextInv
<1>3. Spec => []ContextInv
  <2>1. SleepInv /\ OrderInv /\ [Next]_vars => OrderInv'
    BY OrderPreserved DEF SleepInv
  <2> QED
    BY <1>1, <1>2, <2>1, SleepInvariant, PTL DEF Spec
<1>4. AllSpec => []ContextInv
  <2>1. AllInit => OrderInv
    BY <1>1 DEF AllInit, NetInit
  <2>2. AllInv /\ OrderInv /\ [AllNext]_partVars => OrderInv'
    <3> SUFFICES ASSUME AllInv, OrderInv, [AllNext]_partVars PROVE OrderInv'
      OBVIOUS
    <3>1. SleepInv /\ TypeOK /\ SchedulerInv
      BY DEF AllInv, SleepInv
    <3>2. CASE [Next]_vars
      BY <3>1, <3>2, OrderPreserved
    <3>3. CASE \E s \in Strategies : SelectorStep(s)
      BY <3>1, <3>3, OneStrategy, SelectorKeepsOrder
    <3>4. [Next]_vars \/ \E s \in Strategies : SelectorStep(s)
      BY DEF AllNext, InBlocking, InNet, NetNext, WithSignals, Next, SelectorStep, partVars, netVars
    <3> QED
      BY <3>2, <3>3, <3>4
  <2>3. AllInv /\ OrderInv => ContextInv
    BY <1>2 DEF AllInv
  <2> QED
    BY <2>1, <2>2, <2>3, AllInvariant, PTL DEF AllSpec
<1> QED
  BY <1>3, <1>4
=============================================================================
