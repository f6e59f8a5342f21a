-------------------------- MODULE UtilitiesProofs --------------------------
(***************************************************************************)
(* Proofs about the containers and the storage of core/concurrency and     *)
(* core/detail, which MCUtilities puts side by side, for any threads and   *)
(* any bounds.  Each section is about one of its parts.                    *)
(***************************************************************************)
EXTENDS MCUtilities, FiniteSetTheorems, SequenceTheorems, TLAPS

None == "none"

-----------------------------------------------------------------------------
(* SpinMutex *)

\* A thread in line that has a predecessor to wait for, one whose turn it is,
\* and both.
LockWaits(t) == pc[t] \in {"set", "link"} \/ (pc[t] = "spin" /\ locked[t])
LockOwns(t) == pc[t] \in {"critical", "swap", "hand"} \/ (pc[t] = "spin" /\ ~locked[t])
InLine(t) == LockWaits(t) \/ LockOwns(t)

LockTypeOK ==
    /\ tail \in Threads \cup {None}
    /\ locked \in [Threads -> BOOLEAN]
    /\ next \in [Threads -> Threads \cup {None}]
    /\ prev \in [Threads -> Threads \cup {None}]
    /\ pc \in [Threads -> {"idle", "set", "link", "spin", "critical", "swap", "hand", "clear"}]

\* What holds whether or not the lock will ever be handed on: the end of the
\* line is in line, it is one thread's turn at most, and threads that have not
\* linked themselves yet come behind different threads, which are in line.
LineHolds ==
    /\ \A t \in Threads : pc[t] = "link" => locked[t]
    /\ \A t, u \in Threads : LockOwns(t) /\ LockOwns(u) => t = u
    /\ tail = None => \A t \in Threads : ~InLine(t)
    /\ tail # None => InLine(tail)
    /\ \A w \in Threads : LockWaits(w) => prev[w] \in Threads
    /\ \A w \in Threads : pc[w] \in {"set", "link"} => prev[w] # tail /\ InLine(prev[w])
    /\ \A v, w \in Threads : pc[v] \in {"set", "link"} /\ pc[w] \in {"set", "link"} /\ v # w =>
            prev[v] # prev[w]

\* Until an unlock() finds its successor linked already, and leaves it to
\* spin, it is somebody's turn or there is nobody.
LineMoves == tail = None \/ \E t \in Threads : LockOwns(t)

\* Until then the line has an order: predecessors are one place ahead, the
\* owner is first, tail is last, and the links that are there lead to the
\* thread behind.
LineOrder(rank) ==
    /\ \A w \in Threads : LockWaits(w) =>
            InLine(prev[w]) /\ rank[w] = rank[prev[w]] + 1
    /\ \A o, w \in Threads : LockOwns(o) /\ LockWaits(w) => rank[o] < rank[w]
    /\ \A t, u \in Threads : InLine(t) /\ InLine(u) /\ rank[t] = rank[u] => t = u
    /\ \A t \in Threads : InLine(t) => rank[t] <= rank[tail]
    /\ \A t \in Threads : pc[t] = "idle" => next[t] = None
    /\ \A t \in Threads : InLine(t) /\ next[t] # None =>
            pc[next[t]] = "spin" /\ locked[next[t]] /\ prev[next[t]] = t
    /\ \A u \in Threads : pc[u] = "spin" /\ locked[u] => next[prev[u]] = u

LockInv ==
    /\ LockTypeOK
    /\ LineHolds
    /\ LineMoves => \E rank \in [Threads -> Int] : LineOrder(rank)

LEMMA LockInvImplies == LockInv => Mutex!MutexInv
  <1> SUFFICES ASSUME LockInv PROVE Mutex!MutexInv
    OBVIOUS
  <1> USE DEF LockInv, LockTypeOK, LineHolds, LockOwns, LockWaits, InLine
  <1>1. Mutex!MutualExclusion
    BY DEF Mutex!MutualExclusion, Mutex!Holders, Mutex!Inside
  <1>2. Mutex!LineIsSingle
    BY DEF Mutex!LineIsSingle
  <1>3. Mutex!SpinnersAreLinked
    <2> SUFFICES ASSUME NEW t \in Threads, pc[t] = "spin", locked[t],
                        pc[prev[t]] \in {"critical", "swap", "hand"}
                 PROVE  next[prev[t]] = t
      BY DEF Mutex!SpinnersAreLinked, Mutex!Inside
    <2>1. CASE LineMoves
      BY <2>1 DEF LineOrder
    <2>2. CASE ~LineMoves
      BY <2>2 DEF LineMoves
    <2> QED BY <2>1, <2>2
  <1> QED BY <1>1, <1>2, <1>3 DEF Mutex!MutexInv

-----------------------------------------------------------------------------
LEMMA LockInvInit == ASSUME None \notin Threads PROVE Mutex!Init => LockInv
  <1> SUFFICES ASSUME Mutex!Init PROVE LockInv
    OBVIOUS
  <1> USE DEF LockOwns, LockWaits, InLine
  <1>1. LockTypeOK
    BY DEF Mutex!Init, Mutex!None, LockTypeOK, None
  <1>2. LineHolds
    BY DEF Mutex!Init, Mutex!None, LineHolds, None
  <1>3. \E rank \in [Threads -> Int] : LineOrder(rank)
    <2> DEFINE zero == [t \in Threads |-> 0]
    <2>1. zero \in [Threads -> Int]
      OBVIOUS
    <2>2. LineOrder(zero)
      BY DEF Mutex!Init, Mutex!None, LineOrder, None
    <2> QED BY <2>1, <2>2
  <1> QED BY <1>1, <1>2, <1>3 DEF LockInv

\* lock() and try_lock() when the lock is free.
LEMMA TakeFreeLock ==
    ASSUME LockInv, NEW t \in Threads, None \notin Threads, tail = None,
           Mutex!LockExchange(t) \/ Mutex!TryLock(t)
    PROVE  LockInv'
  <1> USE DEF LockOwns, LockWaits, InLine
  <1>1. LockTypeOK /\ LineHolds /\ LineMoves
    BY DEF LockInv, LineMoves
  <1>2. PICK rank \in [Threads -> Int] : LineOrder(rank)
    BY <1>1 DEF LockInv
  <1>3. /\ pc[t] = "idle"
        /\ pc' = [pc EXCEPT ![t] = "critical"]
        /\ tail' = t
        /\ locked' = locked /\ next' = next
        /\ prev' \in [Threads -> Threads \cup {None}]
    BY <1>1 DEF Mutex!LockExchange, Mutex!TryLock, Mutex!Begin, Mutex!Goto, Mutex!None, None, LockTypeOK
  <1>4. \A u \in Threads : ~InLine(u)
    BY <1>1 DEF LineHolds
  <1>5. LockTypeOK'
    BY <1>1, <1>3 DEF LockTypeOK
  <1>6. \A u \in Threads : u # t => ~InLine(u)' /\ pc'[u] = pc[u]
    BY <1>1, <1>3, <1>4 DEF LockTypeOK
  <1>7. LockOwns(t)' /\ ~LockWaits(t)' /\ pc'[t] = "critical"
    BY <1>1, <1>3 DEF LockTypeOK
  <1>8. LineHolds'
    BY <1>3, <1>5, <1>6, <1>7 DEF LineHolds, LockTypeOK
  <1>9. LineOrder(rank)'
    BY <1>2, <1>3, <1>5, <1>6, <1>7 DEF LineOrder, LockTypeOK
  <1> QED BY <1>2, <1>5, <1>8, <1>9 DEF LockInv

\* lock() behind the thread that came last.
LEMMA JoinLine ==
    ASSUME LockInv, NEW t \in Threads, None \notin Threads, tail # None, Mutex!LockExchange(t)
    PROVE  LockInv'
  <1> USE DEF LockOwns, LockWaits, InLine
  <1>1. LockTypeOK /\ LineHolds
    BY DEF LockInv
  <1>2. /\ pc[t] = "idle"
        /\ pc' = [pc EXCEPT ![t] = "set"]
        /\ prev' = [prev EXCEPT ![t] = tail]
        /\ tail' = t /\ locked' = locked /\ next' = next
    BY <1>1 DEF Mutex!LockExchange, Mutex!Begin, Mutex!Goto, Mutex!None, None, LockTypeOK
  <1>3. LockTypeOK'
    BY <1>1, <1>2 DEF LockTypeOK
  <1>4. tail \in Threads /\ InLine(tail) /\ tail # t
    BY <1>1, <1>2 DEF LockTypeOK, LineHolds
  <1>5. \A u \in Threads : u # t =>
            /\ LockOwns(u)' <=> LockOwns(u)
            /\ LockWaits(u)' <=> LockWaits(u)
            /\ pc'[u] = pc[u] /\ prev'[u] = prev[u]
    BY <1>1, <1>2 DEF LockTypeOK
  <1>6. LockWaits(t)' /\ ~LockOwns(t)' /\ ~InLine(t) /\ pc'[t] = "set" /\ prev'[t] = tail
    BY <1>1, <1>2 DEF LockTypeOK
  <1>7. LineHolds'
    BY <1>1, <1>2, <1>3, <1>4, <1>5, <1>6 DEF LineHolds, LockTypeOK
  <1>8. ASSUME LineMoves' PROVE \E rank \in [Threads -> Int] : LineOrder(rank)'
    <2>1. LineMoves
      BY <1>2, <1>3, <1>5, <1>6, <1>8 DEF LineMoves, LockTypeOK
    <2>2. PICK rank \in [Threads -> Int] : LineOrder(rank)
      BY <2>1 DEF LockInv
    <2>3. PICK longer \in [Threads -> Int] : longer = [rank EXCEPT ![t] = rank[tail] + 1]
      <3>1. [rank EXCEPT ![t] = rank[tail] + 1] \in [Threads -> Int]
        BY <2>2, <1>4
      <3> QED BY <3>1
    <2>4. LineOrder(longer)'
      <3>1. \A u \in Threads : rank[u] \in Int /\ (u # t => longer[u] = rank[u])
        BY <2>2, <2>3
      <3>2. longer[t] = rank[tail] + 1 /\ \A u \in Threads : InLine(u) => longer[u] < longer[t]
        BY <2>2, <2>3, <3>1, <1>4, <1>6 DEF LineOrder
      <3>3. \A u \in Threads : u # t => (InLine(u)' <=> InLine(u)) /\ (InLine(u) /\ LockWaits(u) => prev[u] # t)
        BY <2>2, <1>1, <1>5, <1>6 DEF LineOrder, LineHolds
      <3> QED
        BY <2>2, <3>1, <3>2, <3>3, <1>1, <1>2, <1>3, <1>4, <1>5, <1>6 DEF LineOrder, LockTypeOK, LineHolds
    <2> QED BY <2>3, <2>4
  <1> QED BY <1>3, <1>7, <1>8 DEF LockInv

LEMMA LinkBehind ==
    ASSUME LockInv, NEW t \in Threads, None \notin Threads, Mutex!LockLink(t)
    PROVE  LockInv'
  <1> USE DEF LockOwns, LockWaits, InLine
  <1>1. LockTypeOK /\ LineHolds
    BY DEF LockInv
  <1>2. /\ pc[t] = "link" /\ locked[t] /\ prev[t] \in Threads
        /\ pc' = [pc EXCEPT ![t] = "spin"]
        /\ next' = [next EXCEPT ![prev[t]] = t]
        /\ tail' = tail /\ locked' = locked /\ prev' = prev
    BY <1>1 DEF Mutex!LockLink, Mutex!Goto, LockTypeOK, LineHolds
  <1>3. LockTypeOK'
    BY <1>1, <1>2 DEF LockTypeOK
  <1>4. \A u \in Threads :
            /\ LockOwns(u)' <=> LockOwns(u)
            /\ LockWaits(u)' <=> LockWaits(u)
            /\ InLine(u)' <=> InLine(u)
            /\ u # t => pc'[u] = pc[u]
    BY <1>1, <1>2 DEF LockTypeOK
  <1>5. LineHolds'
    BY <1>1, <1>2, <1>3, <1>4 DEF LineHolds, LockTypeOK
  <1>6. ASSUME LineMoves' PROVE \E rank \in [Threads -> Int] : LineOrder(rank)'
    <2>1. LineMoves
      BY <1>2, <1>4, <1>6 DEF LineMoves
    <2>2. PICK rank \in [Threads -> Int] : LineOrder(rank)
      BY <2>1 DEF LockInv
    <2>3. \A u \in Threads : LockWaits(u) /\ prev[u] = prev[t] => u = t
      BY <2>2, <1>1, <1>2 DEF LineOrder, LineHolds
    <2>4. LineOrder(rank)'
      BY <2>2, <2>3, <1>1, <1>2, <1>3, <1>4 DEF LineOrder, LockTypeOK, LineHolds
    <2> QED BY <2>2, <2>4
  <1> QED BY <1>3, <1>5, <1>6 DEF LockInv

\* LockSet, LockSpin and an UnlockLooks that goes on change where one thread
\* is, but not the line.
LEMMA SameLine ==
    ASSUME LockInv, NEW t \in Threads, None \notin Threads,
           \/ Mutex!LockSet(t)
           \/ Mutex!LockSpin(t)
           \/ Mutex!UnlockLooks(t) /\ next[t] = None
           \/ Mutex!UnlockSwap(t) /\ tail # t
    PROVE  LockInv'
  <1> USE DEF LockOwns, LockWaits, InLine
  <1>1. LockTypeOK /\ LineHolds
    BY DEF LockInv
  <1>2. /\ tail' = tail /\ next' = next /\ prev' = prev
        /\ \A u \in Threads : u # t => pc'[u] = pc[u] /\ locked'[u] = locked[u]
        /\ \/ pc[t] = "set" /\ pc'[t] = "link" /\ locked'[t]
           \/ pc[t] = "spin" /\ ~locked[t] /\ pc'[t] = "critical" /\ ~locked'[t]
           \/ pc[t] \in {"critical", "swap"} /\ pc'[t] \in {"swap", "hand"}
        /\ LockTypeOK'
    <2> USE <1>1 DEF Mutex!Goto, Mutex!nodeVars, LockTypeOK
    <2>1. CASE Mutex!LockSet(t)
      BY <2>1 DEF Mutex!LockSet
    <2>2. CASE Mutex!LockSpin(t)
      BY <2>2 DEF Mutex!LockSpin
    <2>3. CASE Mutex!UnlockLooks(t) /\ next[t] = None
      BY <2>3 DEF Mutex!UnlockLooks, Mutex!None, None
    <2>4. CASE Mutex!UnlockSwap(t) /\ tail # t
      BY <2>4 DEF Mutex!UnlockSwap
    <2> QED BY <2>1, <2>2, <2>3, <2>4
  <1>3. LockTypeOK'
    BY <1>2
  <1>4. \A u \in Threads :
            /\ LockOwns(u)' <=> LockOwns(u)
            /\ LockWaits(u)' <=> LockWaits(u)
            /\ InLine(u)' <=> InLine(u)
    BY <1>1, <1>2
  <1>5. LineHolds'
    BY <1>1, <1>2, <1>3, <1>4 DEF LineHolds, LockTypeOK
  <1>6. ASSUME LineMoves' PROVE \E rank \in [Threads -> Int] : LineOrder(rank)'
    <2>1. LineMoves
      BY <1>2, <1>4, <1>6 DEF LineMoves
    <2>2. PICK rank \in [Threads -> Int] : LineOrder(rank)
      BY <2>1 DEF LockInv
    <2>3. LineOrder(rank)'
      BY <2>2, <1>1, <1>2, <1>3, <1>4 DEF LineOrder, LockTypeOK, LineHolds
    <2> QED BY <2>2, <2>3
  <1> QED BY <1>3, <1>5, <1>6 DEF LockInv

\* unlock() of the last thread in line.
LEMMA LeaveFree ==
    ASSUME LockInv, NEW t \in Threads, None \notin Threads, tail = t, Mutex!UnlockSwap(t)
    PROVE  LockInv'
  <1> USE DEF LockOwns, LockWaits, InLine
  <1>1. LockTypeOK /\ LineHolds
    BY DEF LockInv
  <1>2. /\ pc[t] = "swap" /\ pc' = [pc EXCEPT ![t] = "idle"]
        /\ tail' = None /\ locked' = locked /\ next' = next /\ prev' = prev
    BY <1>1 DEF Mutex!UnlockSwap, Mutex!Goto, Mutex!None, None, LockTypeOK
  <1>3. PICK rank \in [Threads -> Int] : LineOrder(rank)
    BY <1>2 DEF LockInv, LineMoves
  <1>4. \A u \in Threads : rank[u] \in Int
    BY <1>3
  <1>5. \A w \in Threads : ~LockWaits(w)
    BY <1>1, <1>2, <1>3, <1>4 DEF LineOrder
  <1>6. next[t] = None
    BY <1>1, <1>2, <1>3, <1>5 DEF LineOrder, LockTypeOK
  <1>7. LockTypeOK'
    BY <1>1, <1>2 DEF LockTypeOK
  <1>8. \A u \in Threads : ~InLine(u)' /\ pc[u] \notin {"set", "link"}
    BY <1>1, <1>2, <1>5 DEF LockTypeOK, LineHolds
  <1>9. LineHolds'
    BY <1>1, <1>2, <1>7, <1>8 DEF LineHolds, LockTypeOK
  <1>10. LineOrder(rank)'
    BY <1>1, <1>2, <1>3, <1>6, <1>7, <1>8 DEF LineOrder, LockTypeOK
  <1> QED BY <1>3, <1>7, <1>9, <1>10 DEF LockInv

\* unlock() returns with its successor left to spin: the line has stopped.
LEMMA LeaveStopped ==
    ASSUME LockInv, NEW t \in Threads, None \notin Threads, next[t] # None, Mutex!UnlockLooks(t)
    PROVE  LockInv'
  <1> USE DEF LockOwns, LockWaits, InLine
  <1>1. LockTypeOK /\ LineHolds
    BY DEF LockInv
  <1>2. /\ pc[t] = "critical" /\ pc' = [pc EXCEPT ![t] = "idle"]
        /\ tail' = tail /\ locked' = locked /\ next' = next /\ prev' = prev
    BY <1>1 DEF Mutex!UnlockLooks, Mutex!Goto, Mutex!nodeVars, Mutex!None, None, LockTypeOK
  <1>3. PICK rank \in [Threads -> Int] : LineOrder(rank)
    BY <1>2 DEF LockInv, LineMoves
  <1>4. \A u \in Threads : rank[u] \in Int
    BY <1>3
  <1>5. next[t] \in Threads /\ LockWaits(next[t]) /\ pc[next[t]] = "spin" /\ prev[next[t]] = t
    BY <1>1, <1>2, <1>3 DEF LineOrder, LockTypeOK
  <1>6. \A w \in Threads : LockWaits(w) /\ prev[w] = t => w = next[t]
    BY <1>1, <1>3, <1>5 DEF LineOrder
  <1>7. tail # t /\ tail # None /\ tail \in Threads
    BY <1>1, <1>2, <1>3, <1>4, <1>5 DEF LineOrder, LineHolds, LockTypeOK
  <1>8. LockTypeOK'
    BY <1>1, <1>2 DEF LockTypeOK
  <1>9. /\ \A u \in Threads : ~LockOwns(u)' /\ (LockWaits(u)' <=> LockWaits(u))
        /\ \A u \in Threads : u # t => pc'[u] = pc[u]
    BY <1>1, <1>2 DEF LockTypeOK, LineHolds
  <1>10. LineHolds'
    BY <1>1, <1>2, <1>5, <1>6, <1>7, <1>8, <1>9 DEF LineHolds, LockTypeOK
  <1>11. ~LineMoves'
    BY <1>2, <1>7, <1>9 DEF LineMoves
  <1> QED BY <1>8, <1>10, <1>11 DEF LockInv

LEMMA HandOver ==
    ASSUME LockInv, NEW t \in Threads, None \notin Threads, Mutex!UnlockHands(t)
    PROVE  LockInv'
  <1> USE DEF LockOwns, LockWaits, InLine
  <1>1. LockTypeOK /\ LineHolds
    BY DEF LockInv
  <1> DEFINE u == next[t]
  <1>2. /\ pc[t] = "hand" /\ pc' = [pc EXCEPT ![t] = "clear"]
        /\ u # None /\ locked' = [locked EXCEPT ![u] = FALSE]
        /\ tail' = tail /\ next' = next /\ prev' = prev
    BY <1>1 DEF Mutex!UnlockHands, Mutex!Goto, Mutex!None, None, LockTypeOK
  <1>3. PICK rank \in [Threads -> Int] : LineOrder(rank)
    BY <1>2 DEF LockInv, LineMoves
  <1>4. \A v \in Threads : rank[v] \in Int
    BY <1>3
  <1>5. u \in Threads /\ LockWaits(u) /\ pc[u] = "spin" /\ locked[u] /\ prev[u] = t /\ u # t
    BY <1>1, <1>2, <1>3 DEF LineOrder, LockTypeOK
  <1>6. \A w \in Threads : LockWaits(w) /\ prev[w] = t => w = u
    BY <1>1, <1>3, <1>5 DEF LineOrder
  <1>7. \A w \in Threads : LockWaits(w) /\ w # u => rank[u] < rank[w]
    <2> SUFFICES ASSUME NEW w \in Threads, LockWaits(w), w # u PROVE rank[u] < rank[w]
      OBVIOUS
    <2>1. rank[u] = rank[t] + 1
      BY <1>3, <1>5 DEF LineOrder
    <2>2. rank[t] < rank[w] /\ rank[w] # rank[u]
      BY <1>2, <1>3, <1>5 DEF LineOrder
    <2> HIDE DEF u
    <2> QED BY <2>1, <2>2, <1>4, <1>5
  <1>8. tail # t /\ tail # None /\ tail \in Threads
    BY <1>1, <1>2, <1>3, <1>4, <1>5 DEF LineOrder, LineHolds, LockTypeOK
  <1>9. LockTypeOK'
    BY <1>1, <1>2, <1>5 DEF LockTypeOK
  <1> HIDE DEF u
  <1>10. \A v \in Threads :
             /\ v # t => pc'[v] = pc[v]
             /\ v # u => (locked'[v] <=> locked[v])
    BY <1>1, <1>2, <1>5 DEF LockTypeOK
  <1>11. pc'[t] = "clear" /\ pc'[u] = "spin" /\ ~locked'[u]
    BY <1>1, <1>2, <1>5 DEF LockTypeOK
  <1>12. \A v \in Threads :
             /\ LockOwns(v)' <=> v = u
             /\ LockWaits(v)' <=> (LockWaits(v) /\ v # u)
    BY <1>1, <1>2, <1>5, <1>10, <1>11 DEF LockTypeOK, LineHolds
  <1>13. LineHolds'
    BY <1>1, <1>2, <1>5, <1>6, <1>8, <1>9, <1>10, <1>11, <1>12 DEF LineHolds, LockTypeOK
  <1>14. LineOrder(rank)'
    BY <1>1, <1>2, <1>3, <1>5, <1>6, <1>7, <1>8, <1>9, <1>10, <1>11, <1>12 DEF LineOrder, LineHolds, LockTypeOK
  <1> QED BY <1>3, <1>9, <1>13, <1>14 DEF LockInv

\* The thread has left the line.
LEMMA ClearLink ==
    ASSUME LockInv, NEW t \in Threads, None \notin Threads, Mutex!UnlockClears(t)
    PROVE  LockInv'
  <1> USE DEF LockOwns, LockWaits, InLine
  <1>1. LockTypeOK /\ LineHolds
    BY DEF LockInv
  <1>2. /\ pc[t] = "clear" /\ pc' = [pc EXCEPT ![t] = "idle"]
        /\ next' = [next EXCEPT ![t] = None]
        /\ tail' = tail /\ locked' = locked /\ prev' = prev
    BY <1>1 DEF Mutex!UnlockClears, Mutex!Goto, Mutex!None, None, LockTypeOK
  <1>3. LockTypeOK'
    BY <1>1, <1>2 DEF LockTypeOK
  <1>4. \A u \in Threads :
            /\ LockOwns(u)' <=> LockOwns(u)
            /\ LockWaits(u)' <=> LockWaits(u)
            /\ u # t => pc'[u] = pc[u] /\ next'[u] = next[u]
    BY <1>1, <1>2 DEF LockTypeOK
  <1>5. LineHolds'
    BY <1>1, <1>2, <1>3, <1>4 DEF LineHolds, LockTypeOK
  <1>6. ASSUME LineMoves' PROVE \E rank \in [Threads -> Int] : LineOrder(rank)'
    <2>1. PICK rank \in [Threads -> Int] : LineOrder(rank)
      BY <1>2, <1>4, <1>6 DEF LockInv, LineMoves
    <2>2. LineOrder(rank)'
      BY <2>1, <1>1, <1>2, <1>3, <1>4 DEF LineOrder, LockTypeOK, LineHolds
    <2> QED BY <2>1, <2>2
  <1> QED BY <1>3, <1>5, <1>6 DEF LockInv

LEMMA LockStep ==
    ASSUME None \notin Threads, LockInv, [Mutex!Next]_Mutex!vars
    PROVE  LockInv'
  <1>1. CASE UNCHANGED Mutex!vars
    BY <1>1 DEF Mutex!vars, Mutex!nodeVars, LockInv, LockTypeOK, LineHolds, LineMoves, LineOrder,
                LockOwns, LockWaits, InLine
  <1>2. ASSUME NEW t \in Threads, Mutex!Lock(t) \/ Mutex!TryLock(t) \/ Mutex!Unlock(t)
        PROVE  LockInv'
    <2>1. CASE Mutex!LockExchange(t) \/ Mutex!TryLock(t)
      <3>1. CASE tail = None
        BY <2>1, <3>1, TakeFreeLock
      <3>2. CASE tail # None /\ Mutex!LockExchange(t)
        BY <3>2, JoinLine
      <3>3. CASE tail # None /\ Mutex!TryLock(t)
        BY <3>3 DEF Mutex!TryLock, Mutex!Begin, Mutex!None, None, LockInv, LockTypeOK, LineHolds,
                    LineMoves, LineOrder, LockOwns, LockWaits, InLine
      <3> QED BY <2>1, <3>1, <3>2, <3>3
    <2>2. CASE Mutex!LockSet(t) \/ Mutex!LockSpin(t)
      BY <2>2, SameLine
    <2>3. CASE Mutex!LockLink(t)
      BY <2>3, LinkBehind
    <2>4. CASE Mutex!UnlockLooks(t)
      BY <2>4, SameLine, LeaveStopped
    <2>5. CASE Mutex!UnlockSwap(t)
      BY <2>5, SameLine, LeaveFree
    <2>6. CASE Mutex!UnlockHands(t)
      BY <2>6, HandOver
    <2>7. CASE Mutex!UnlockClears(t)
      BY <2>7, ClearLink
    <2> QED BY <1>2, <2>1, <2>2, <2>3, <2>4, <2>5, <2>6, <2>7 DEF Mutex!Lock, Mutex!Unlock
  <1> QED BY <1>1, <1>2 DEF Mutex!Next

\* The part of the composition that is about the mutex.
LEMMA MutexPart ==
    /\ Init /\ part = "mutex" => Mutex!Init
    /\ [Next]_vars => part' = part /\ (part = "mutex" => [Mutex!Next]_Mutex!vars)
  BY DEF Init, Next, Step, vars, mutexGroup, Mutex!vars, Mutex!nodeVars

\* Of SpinMutex: two threads never have the lock, those that come to it line up
\* one behind the other, and a thread that spins is the one its predecessor
\* will wake, for any number of threads and calls; alone, and as a part of
\* MCUtilities.
THEOREM MutexSafety ==
    ASSUME None \notin Threads
    PROVE  (Mutex!Spec => []Mutex!MutexInv) /\ (Spec => []MutexInv)
  <1>1. Mutex!Spec => []Mutex!MutexInv
    BY LockInvInit, LockStep, LockInvImplies, PTL DEF Mutex!Spec
  <1>2. Spec => []MutexInv
    <2> DEFINE PartInv == part = "mutex" => LockInv
    <2>1. Init => PartInv
      BY MutexPart, LockInvInit
    <2>2. PartInv /\ [Next]_vars => PartInv'
      BY MutexPart, LockStep
    <2>3. PartInv => MutexInv
      BY LockInvImplies DEF MutexInv
    <2> QED BY <2>1, <2>2, <2>3, PTL DEF Spec
  <1> QED BY <1>1, <1>2

-----------------------------------------------------------------------------
(* ThreadLocalStorage *)

Slots == [owner : 0..MaxObjects, value : 0..MaxValues]

StorageTypes ==
    /\ s_id \in 0..MaxObjects
    /\ s_available \in Seq(Nat) /\ s_owners \in Seq(0..MaxObjects)
    /\ s_thread_locals \subseteq Users
    /\ alive \subseteq 1..s_id
    /\ my_index \in [1..MaxObjects -> Nat]
    /\ slots \in [Users -> Seq(Slots)]
    /\ pc \in [Users -> {"idle", "resize", "slot", "own"}]
    /\ object \in [Users -> 0..MaxObjects]
    /\ made \in 0..MaxValues
    /\ DOMAIN owner_of = 1..MaxValues
    /\ \A v \in 1..made : owner_of[v] \in (1..MaxObjects) \X Users
    /\ returns \in [1..MaxValues -> {0, 1}]

\* The indices: those of the objects that are alive, and those that were given
\* back, each once.
IndicesHold ==
    /\ \A o \in alive : my_index[o] \in DOMAIN s_owners /\ s_owners[my_index[o]] = o
    /\ \A i \in DOMAIN s_owners : s_owners[i] # 0 =>
            s_owners[i] \in alive /\ my_index[s_owners[i]] = i
    /\ \A k \in DOMAIN s_available :
            s_available[k] \in DOMAIN s_owners /\ s_owners[s_available[k]] = 0
    /\ \A k, l \in DOMAIN s_available : k # l => s_available[k] # s_available[l]

\* A thread in get() has registered its slots, and an object that is alive.
GettersHold ==
    /\ \A t \in Users : pc[t] = "idle" <=> object[t] = 0
    /\ \A t \in Users : pc[t] # "idle" => object[t] \in alive /\ t \in s_thread_locals
    /\ \A t \in Users : pc[t] = "resize" => my_index[object[t]] > Len(slots[t])
    /\ \A t \in Users : pc[t] \in {"slot", "own"} => my_index[object[t]] \in DOMAIN slots[t]
    /\ \A t \in Users : t \notin s_thread_locals => slots[t] = <<>>

\* The value v is in slot i of thread t, for object o.
Keeps(t, i, o, v) ==
    v \in 1..made /\ owner_of[v] = <<o, t>> /\ returns[v] = 0 /\ slots[t][i].value = v

\* The slots and the values: a slot that has an owner has a value of its owner;
\* between the two assignments of get() it has the value and no owner.
ValuesHold ==
    /\ \A t \in Users : \A i \in DOMAIN slots[t] : slots[t][i].owner # 0 =>
            /\ slots[t][i].owner \in alive /\ my_index[slots[t][i].owner] = i
            /\ Keeps(t, i, slots[t][i].owner, slots[t][i].value)
    /\ \A t \in Users : pc[t] = "own" =>
            LET i == my_index[object[t]]
            IN  slots[t][i].owner = 0 /\ Keeps(t, i, object[t], slots[t][i].value)
    /\ \A v \in 1..MaxValues : v > made => returns[v] = 0
    /\ \A v \in 1..made : returns[v] = 0 =>
            \E o \in alive, t \in s_thread_locals :
                /\ owner_of[v] = <<o, t>>
                /\ my_index[o] \in DOMAIN slots[t] /\ slots[t][my_index[o]].value = v
                /\ \/ slots[t][my_index[o]].owner = o
                   \/ pc[t] = "own" /\ object[t] = o

StorageInd == StorageTypes /\ IndicesHold /\ GettersHold /\ ValuesHold

StorageSizes == MaxObjects \in Nat /\ MaxValues \in Nat

LEMMA StorageIndImplies == ASSUME StorageSizes PROVE StorageInd => Storage!StorageInv
  <1> SUFFICES ASSUME StorageInd PROVE Storage!StorageInv
    OBVIOUS
  <1> USE DEF StorageInd, StorageSizes, StorageTypes, Storage!None
  <1>1. Storage!TypeOK
    BY DEF IndicesHold, GettersHold, Storage!TypeOK
  <1>2. Storage!IndicesAreOwned
    BY DEF IndicesHold, Storage!IndicesAreOwned
  <1>3. Storage!ReturnedOnce
    <2>1. \A v \in 1..MaxValues : returns[v] \in {0, 1}
      OBVIOUS
    <2>2. \A n \in {0, 1} : n <= 1
      OBVIOUS
    <2> QED BY <2>1, <2>2 DEF Storage!ReturnedOnce, Storage!Values
  <1>4. Storage!NoValueIsLost
    <2> SUFFICES ASSUME NEW v \in 1..made, returns[v] = 0
                 PROVE  /\ owner_of[v][1] \in alive /\ owner_of[v][2] \in s_thread_locals
                        /\ slots[owner_of[v][2]][my_index[owner_of[v][1]]].value = v
      BY DEF Storage!NoValueIsLost
    <2> QED BY DEF ValuesHold
  <1>5. Storage!GetReturnsOwnValue
    <2> SUFFICES ASSUME NEW t \in Users, pc[t] = "slot", Storage!MySlot(t).owner # 0
                 PROVE  /\ owner_of[Storage!MySlot(t).value] = <<object[t], t>>
                        /\ returns[Storage!MySlot(t).value] = 0
      BY DEF Storage!GetReturnsOwnValue
    <2>1. PICK i : i = my_index[object[t]] /\ Storage!MySlot(t) = slots[t][i]
      BY DEF Storage!MySlot
    <2>2. object[t] \in alive /\ i \in DOMAIN slots[t] /\ slots[t][i].owner # 0
      BY <2>1 DEF GettersHold
    <2>3. PICK o \in alive : o = slots[t][i].owner /\ my_index[o] = i
      <3> HIDE DEF StorageTypes
      <3>1. slots[t][i].owner \in alive /\ my_index[slots[t][i].owner] = i
        BY <2>2 DEF ValuesHold
      <3> QED BY <3>1
    <2>4. o = object[t]
      <3>1. s_owners[i] = object[t]
        BY <2>1, <2>2 DEF IndicesHold
      <3>2. s_owners[i] = o
        BY <2>3 DEF IndicesHold
      <3> QED BY <3>1, <3>2
    <2>5. Keeps(t, i, o, slots[t][i].value)
      BY <2>2, <2>3 DEF ValuesHold
    <2> QED BY <2>1, <2>4, <2>5 DEF Keeps
  <1> QED BY <1>1, <1>2, <1>3, <1>4, <1>5 DEF Storage!StorageInv

LEMMA StorageIndInit == ASSUME StorageSizes PROVE Storage!Init => StorageInd
  <1> SUFFICES ASSUME Storage!Init PROVE StorageInd
    OBVIOUS
  <1> USE DEF Storage!Init, StorageSizes, Storage!None, Storage!NoIndex, Storage!Objects, Storage!Values
  <1>1. StorageTypes
    BY DEF StorageTypes, Slots
  <1>2. IndicesHold /\ GettersHold /\ ValuesHold
    BY DEF IndicesHold, GettersHold, ValuesHold
  <1> QED BY <1>1, <1>2 DEF StorageInd

\* What is known of a slot, and what is not touched by an action of an object.
LEMMA SlotFacts ==
    ASSUME StorageSizes, StorageTypes, NEW t \in Users, NEW i \in DOMAIN slots[t]
    PROVE  /\ slots[t] \in Seq(Slots) /\ slots[t][i] \in Slots /\ i \in Nat \ {0} /\ i <= Len(slots[t])
           /\ slots[t][i].owner \in 0..MaxObjects /\ slots[t][i].value \in 0..MaxValues
  <1>1. slots[t] \in Seq(Slots)
    BY DEF StorageTypes
  <1>2. slots[t][i] \in Slots /\ i \in Nat \ {0} /\ i <= Len(slots[t])
    <2> HIDE DEF Slots
    <2> QED BY <1>1
  <1> QED BY <1>1, <1>2 DEF Slots

\* The slots and values do not notice what happens to other objects.
LEMMA SameValues ==
    ASSUME GettersHold, ValuesHold, alive \subseteq alive', \A o \in alive : my_index'[o] = my_index[o],
           UNCHANGED <<s_thread_locals, slots, pc, object, made, owner_of, returns>>
    PROVE  ValuesHold'
  <1>1. \A t \in Users : \A i \in DOMAIN slots'[t] : slots'[t][i].owner # 0 =>
            /\ slots'[t][i].owner \in alive' /\ my_index'[slots'[t][i].owner] = i
            /\ Keeps(t, i, slots[t][i].owner, slots[t][i].value)
    BY DEF ValuesHold
  <1>2. \A t, i, o, v : Keeps(t, i, o, v)' <=> Keeps(t, i, o, v)
    BY DEF Keeps
  <1>3. \A t \in Users : pc'[t] = "own" =>
            LET i == my_index'[object'[t]]
            IN  slots'[t][i].owner = 0 /\ Keeps(t, i, object[t], slots[t][i].value)
    BY DEF ValuesHold, GettersHold
  <1>4. \A v \in 1..made : returns[v] = 0 =>
            \E o \in alive', t \in s_thread_locals :
                /\ owner_of[v] = <<o, t>>
                /\ my_index'[o] \in DOMAIN slots[t] /\ slots[t][my_index'[o]].value = v
                /\ \/ slots[t][my_index'[o]].owner = o
                   \/ pc[t] = "own" /\ object[t] = o
    BY DEF ValuesHold
  <1> QED BY <1>1, <1>2, <1>3, <1>4 DEF ValuesHold

\* A new object gets an index that no slot belongs to.
LEMMA ConstructKeeps ==
    ASSUME StorageSizes, StorageInd, NEW o \in Storage!Objects, Storage!Construct(o)
    PROVE  StorageInd'
  <1> DEFINE n == Len(s_available)
  <1> USE DEF StorageSizes, StorageInd
  <1>0. /\ s_id' = s_id + 1 /\ o = s_id + 1 /\ s_id < MaxObjects /\ alive' = alive \cup {o}
        /\ slots' = slots /\ s_thread_locals' = s_thread_locals
        /\ pc' = pc /\ object' = object /\ made' = made /\ owner_of' = owner_of /\ returns' = returns
    BY DEF Storage!Construct, Storage!TakeIndex, Storage!getVars, Storage!valueVars
  <1>1. o \notin alive /\ o # 0 /\ o \in 1..MaxObjects /\ s_id' \in 0..MaxObjects /\ alive' \subseteq 1..s_id'
    BY <1>0 DEF StorageTypes
  <1>2. PICK i \in Nat :
            /\ my_index' = [my_index EXCEPT ![o] = i]
            /\ \/ /\ n > 0 /\ i = s_available[n] /\ s_available' = SubSeq(s_available, 1, n - 1)
                  /\ s_owners' = [s_owners EXCEPT ![i] = o]
               \/ /\ s_available = <<>> /\ i = Len(s_owners) + 1 /\ s_available' = s_available
                  /\ s_owners' = Append(s_owners, o)
    <2>1. CASE s_available # <<>>
      <3>1. n > 0 /\ s_available[n] \in Nat
        BY <2>1 DEF StorageTypes
      <3>2. /\ my_index' = [my_index EXCEPT ![o] = s_available[n]]
            /\ s_available' = SubSeq(s_available, 1, n - 1)
            /\ s_owners' = [s_owners EXCEPT ![s_available[n]] = o]
        BY <2>1 DEF Storage!Construct, Storage!TakeIndex, Storage!Last, Storage!Front
      <3> QED BY <3>1, <3>2
    <2>2. CASE s_available = <<>>
      <3>1. PICK j : j = Len(s_owners) + 1 /\ j \in Nat
        BY DEF StorageTypes
      <3>2. /\ my_index' = [my_index EXCEPT ![o] = j] /\ s_available' = s_available
            /\ s_owners' = Append(s_owners, o)
        BY <2>2, <3>1 DEF Storage!Construct, Storage!TakeIndex
      <3> QED BY <2>2, <3>1, <3>2
    <2> QED BY <2>1, <2>2
  <1>3. /\ my_index' \in [1..MaxObjects -> Nat] /\ my_index'[o] = i
        /\ \A p \in alive : my_index'[p] = my_index[p]
    <2>1. my_index \in [1..MaxObjects -> Nat] /\ i \in Nat /\ my_index' = [my_index EXCEPT ![o] = i]
      BY <1>2 DEF StorageTypes
    <2>2. \A p \in alive : p # o /\ p \in 1..MaxObjects
      BY <1>1 DEF StorageTypes
    <2> QED BY <1>1, <2>1, <2>2
  <1>4. /\ s_owners' \in Seq(0..MaxObjects)
        /\ i \in DOMAIN s_owners' /\ s_owners'[i] = o
        /\ DOMAIN s_owners \subseteq DOMAIN s_owners'
        /\ \A j \in DOMAIN s_owners' : j # i => j \in DOMAIN s_owners /\ s_owners'[j] = s_owners[j]
    <2>1. CASE s_available = <<>>
      <3>1. i = Len(s_owners) + 1 /\ s_owners' = Append(s_owners, o)
        BY <1>2, <2>1 DEF StorageTypes
      <3>2. s_owners \in Seq(0..MaxObjects) /\ o \in 0..MaxObjects
        BY <1>1 DEF StorageTypes
      <3> QED BY <3>1, <3>2
    <2>2. CASE s_available # <<>>
      <3>1. n \in DOMAIN s_available /\ i = s_available[n] /\ s_owners' = [s_owners EXCEPT ![i] = o]
        BY <1>2, <2>2 DEF StorageTypes
      <3>2. i \in DOMAIN s_owners
        BY <3>1 DEF IndicesHold
      <3> QED BY <1>1, <3>1, <3>2 DEF StorageTypes
    <2> QED BY <2>1, <2>2
  <1>5. i \notin DOMAIN s_owners \/ s_owners[i] = 0
    <2>1. CASE s_available = <<>>
      BY <1>2, <2>1 DEF StorageTypes
    <2>2. CASE s_available # <<>>
      BY <1>2, <2>2 DEF StorageTypes, IndicesHold
    <2> QED BY <2>1, <2>2
  <1>6. \A p \in alive : my_index[p] # i
    <2>1. \A p \in alive : p # 0
      BY DEF StorageTypes
    <2> QED BY <1>5, <2>1 DEF IndicesHold
  <1>7. /\ s_available' \in Seq(Nat) /\ DOMAIN s_available' \subseteq DOMAIN s_available
        /\ \A k \in DOMAIN s_available' : s_available'[k] = s_available[k] /\ s_available'[k] # i
    <2>1. CASE s_available = <<>>
      BY <1>2, <2>1 DEF StorageTypes
    <2>2. CASE s_available # <<>>
      <3>1. n \in DOMAIN s_available /\ i = s_available[n] /\ s_available' = SubSeq(s_available, 1, n - 1)
        BY <1>2, <2>2 DEF StorageTypes
      <3>2. /\ s_available' \in Seq(Nat) /\ DOMAIN s_available' = 1..(n - 1)
            /\ \A k \in 1..(n - 1) : s_available'[k] = s_available[k]
        BY <3>1 DEF StorageTypes
      <3>3. DOMAIN s_available = 1..n /\ n \in Nat
        BY DEF StorageTypes
      <3> QED BY <3>1, <3>2, <3>3 DEF IndicesHold
    <2> QED BY <2>1, <2>2
  <1>8. StorageTypes'
    BY <1>0, <1>1, <1>3, <1>4, <1>7 DEF StorageTypes
  <1>9. IndicesHold'
    <2>1. \A p \in alive' : my_index'[p] \in DOMAIN s_owners' /\ s_owners'[my_index'[p]] = p
      BY <1>0, <1>3, <1>4, <1>6 DEF IndicesHold
    <2>2. \A j \in DOMAIN s_owners' : s_owners'[j] # 0 => s_owners'[j] \in alive' /\ my_index'[s_owners'[j]] = j
      <3> SUFFICES ASSUME NEW j \in DOMAIN s_owners', s_owners'[j] # 0
                   PROVE  s_owners'[j] \in alive' /\ my_index'[s_owners'[j]] = j
        OBVIOUS
      <3>1. CASE j = i
        BY <1>0, <1>3, <1>4, <3>1
      <3>2. CASE j # i
        <4>1. j \in DOMAIN s_owners /\ s_owners'[j] = s_owners[j]
          BY <1>4, <3>2
        <4>2. s_owners[j] \in alive /\ my_index[s_owners[j]] = j
          BY <4>1 DEF IndicesHold
        <4> QED BY <1>0, <1>3, <4>1, <4>2
      <3> QED BY <3>1, <3>2
    <2>3. \A k \in DOMAIN s_available' :
              s_available'[k] \in DOMAIN s_owners' /\ s_owners'[s_available'[k]] = 0
      BY <1>4, <1>7 DEF IndicesHold
    <2>4. \A k, l \in DOMAIN s_available' : k # l => s_available'[k] # s_available'[l]
      BY <1>7 DEF IndicesHold
    <2> QED BY <2>1, <2>2, <2>3, <2>4 DEF IndicesHold
  <1>10. GettersHold'
    BY <1>0, <1>3 DEF GettersHold
  <1>11. ValuesHold'
    BY <1>0, <1>3, SameValues DEF StorageTypes
  <1> QED BY <1>8, <1>9, <1>10, <1>11


\* Somebody has an index, so that it is not among those that were given back.
LEMMA IndexIsTaken ==
    ASSUME IndicesHold, NEW o \in alive, 0 \notin alive
    PROVE  \A k \in DOMAIN s_available : s_available[k] # my_index[o]
  BY DEF IndicesHold

\* When all indices but one are given back, one object is alive.
LEMMA LastObject ==
    ASSUME StorageSizes, StorageTypes, IndicesHold, NEW o \in alive,
           Len(s_available) + 1 = Len(s_owners)
    PROVE  alive = {o}
  <1> SUFFICES ASSUME NEW p \in alive, p # o PROVE FALSE
    OBVIOUS
  <1>0. PICK n \in Nat : n = Len(s_available)
    BY DEF StorageTypes
  <1> DEFINE D == 1..n
             R == {r \in 1..(n + 1) : r # my_index[o] /\ r # my_index[p]}
  <1>1. n \in Nat /\ DOMAIN s_available = D /\ DOMAIN s_owners = 1..(n + 1)
    BY <1>0 DEF StorageTypes
  <1>2. 0 \notin alive
    BY DEF StorageTypes
  <1>3. /\ my_index[o] \in 1..(n + 1) /\ my_index[p] \in 1..(n + 1)
        /\ my_index[o] # my_index[p]
    BY <1>1 DEF IndicesHold
  <1>4. s_available \in [D -> R]
    <2>1. \A k \in D : s_available[k] \in 1..(n + 1)
      BY <1>1 DEF IndicesHold
    <2>2. \A k \in D : s_available[k] # my_index[o] /\ s_available[k] # my_index[p]
      BY <1>1, <1>2, IndexIsTaken
    <2>3. s_available = [k \in D |-> s_available[k]]
      BY <1>1 DEF StorageTypes
    <2> QED BY <2>1, <2>2, <2>3
  <1>5. s_available \in Injection(D, R)
    BY <1>1, <1>4 DEF IndicesHold, Injection, IsInjective
  <1>6. IsFiniteSet(D) /\ Cardinality(D) = n /\ IsFiniteSet(1..(n + 1)) /\ Cardinality(1..(n + 1)) = n + 1
    BY <1>1, FS_Interval
  <1>7. IsFiniteSet(R) /\ Cardinality(R) = n - 1
    <2>1. PICK i, j, A : i = my_index[o] /\ j = my_index[p] /\ A = 1..(n + 1)
      OBVIOUS
    <2>2. i \in A /\ IsFiniteSet(A) /\ Cardinality(A) = n + 1 /\ j \in A \ {i}
      BY <1>3, <1>6, <2>1
    <2>3. IsFiniteSet(A \ {i}) /\ Cardinality(A \ {i}) = n
      <3>1. IsFiniteSet(A \ {i}) /\ Cardinality(A \ {i}) = Cardinality(A) - 1
        BY <2>2, FS_RemoveElement
      <3> QED BY <1>0, <2>2, <3>1
    <2>4. PICK B : B = A \ {i} /\ IsFiniteSet(B) /\ Cardinality(B) = n /\ j \in B
      BY <2>2, <2>3
    <2>5. IsFiniteSet(B \ {j}) /\ Cardinality(B \ {j}) = n - 1
      <3>1. IsFiniteSet(B \ {j}) /\ Cardinality(B \ {j}) = Cardinality(B) - 1
        BY <2>4, FS_RemoveElement
      <3> QED BY <2>4, <3>1
    <2>6. R = B \ {j}
      <3>1. B \ {j} = {r \in A : r # i /\ r # j}
        BY <2>4
      <3> QED BY <2>1, <3>1
    <2> QED BY <2>5, <2>6
  <1>8. Cardinality(D) <= Cardinality(R)
    BY <1>5, <1>7, FS_Injection
  <1> QED BY <1>1, <1>6, <1>7, <1>8

\* The values of an object are returned when it dies, and its slots are free.
LEMMA DestroyKeeps ==
    ASSUME StorageSizes, StorageInd, NEW o \in Storage!Objects, Storage!Destroy(o)
    PROVE  StorageInd'
  <1> USE DEF StorageSizes, StorageInd
  <1>0. PICK i : i = my_index[o]
    OBVIOUS
  <1> DEFINE H == Storage!Holders(o)
             V == {slots[t][i].value : t \in H}
  <1>1. /\ o \in alive /\ (\A t \in Users : object[t] # o) /\ alive' = alive \ {o}
        /\ s_id' = s_id /\ s_thread_locals' = s_thread_locals /\ my_index' = my_index
        /\ pc' = pc /\ object' = object /\ made' = made /\ owner_of' = owner_of
    BY DEF Storage!Destroy, Storage!getVars
  <1>2. returns' = [v \in 1..MaxValues |-> IF v \in V THEN returns[v] + 1 ELSE returns[v]]
    BY <1>0 DEF Storage!Destroy, Storage!ReturnAll, Storage!Values
  <1>3. slots' = [t \in Users |-> IF t \in H THEN [slots[t] EXCEPT ![i].owner = 0] ELSE slots[t]]
    BY <1>0 DEF Storage!Destroy, Storage!None
  <1>4. \/ /\ Len(s_available) + 1 = Len(s_owners)
           /\ s_available' = <<>> /\ s_owners' = <<>>
        \/ /\ s_available' = Append(s_available, i) /\ s_owners' = [s_owners EXCEPT ![i] = 0]
    BY <1>0 DEF Storage!Destroy, Storage!ReleaseIndex, Storage!None
  <1>5. /\ o # 0 /\ i \in DOMAIN s_owners /\ s_owners[i] = o /\ i \in Nat /\ 0 \notin alive
        /\ \A p \in alive : my_index[p] = i => p = o
    BY <1>0, <1>1 DEF StorageTypes, IndicesHold
  <1>6. \A t \in Users : t \in H <=> i \in DOMAIN slots[t] /\ slots[t][i].owner = o
    <2>1. \A t : t \in H <=> t \in s_thread_locals /\ i \in DOMAIN slots[t] /\ slots[t][i].owner = o
      BY <1>0 DEF Storage!Holders
    <2>2. \A t \in Users : t \notin s_thread_locals => DOMAIN slots[t] = {}
      BY DEF GettersHold
    <2> QED BY <2>1, <2>2
  <1> HIDE DEF H
  <1>7. \A t \in Users : \A j \in DOMAIN slots[t] :
            /\ slots'[t] \in Seq(Slots) /\ DOMAIN slots'[t] = DOMAIN slots[t]
            /\ slots'[t][j].value = slots[t][j].value
            /\ slots'[t][j].owner = IF slots[t][j].owner = o THEN 0 ELSE slots[t][j].owner
    <2> SUFFICES ASSUME NEW t \in Users, NEW j \in DOMAIN slots[t]
                 PROVE  /\ slots'[t] \in Seq(Slots) /\ DOMAIN slots'[t] = DOMAIN slots[t]
                        /\ slots'[t][j].value = slots[t][j].value
                        /\ slots'[t][j].owner = IF slots[t][j].owner = o THEN 0 ELSE slots[t][j].owner
      OBVIOUS
    <2>1. slots[t] \in Seq(Slots) /\ slots[t][j] \in Slots
      BY SlotFacts
    <2>2. slots[t][j].owner = o => j = i
      <3> SUFFICES ASSUME slots[t][j].owner = o PROVE j = i
        OBVIOUS
      <3>1. slots[t][j].owner \in alive /\ my_index[slots[t][j].owner] = j
        BY <1>5 DEF ValuesHold
      <3> QED BY <1>0, <3>1
    <2>3. CASE t \in H
      <3>1. i \in DOMAIN slots[t] /\ slots[t][i].owner = o /\ slots[t][i] \in Slots
        BY <1>6, <2>3, SlotFacts
      <3>2. slots'[t] = [slots[t] EXCEPT ![i] = [slots[t][i] EXCEPT !.owner = 0]]
        BY <1>3, <2>3
      <3>3. PICK new \in Slots : /\ new = [slots[t][i] EXCEPT !.owner = 0]
                                 /\ new.owner = 0 /\ new.value = slots[t][i].value
        <4>1. [slots[t][i] EXCEPT !.owner = 0] = [owner |-> 0, value |-> slots[t][i].value]
          BY <3>1 DEF Slots
        <4>2. slots[t][i].value \in 0..MaxValues
          BY <3>1 DEF Slots
        <4>3. [owner |-> 0, value |-> slots[t][i].value] \in Slots
          BY <4>2 DEF Slots
        <4> QED BY <4>1, <4>3
      <3>4. slots'[t] = [slots[t] EXCEPT ![i] = new]
        BY <3>2, <3>3
      <3>5. slots'[t] \in Seq(Slots) /\ DOMAIN slots'[t] = DOMAIN slots[t]
        BY <2>1, <3>1, <3>4
      <3>6. CASE j = i
        BY <2>1, <3>1, <3>3, <3>4, <3>5, <3>6
      <3>7. CASE j # i
        <4>1. slots'[t][j] = slots[t][j]
          BY <2>1, <3>4, <3>7
        <4> QED BY <2>2, <3>5, <3>7, <4>1
      <3> QED BY <3>6, <3>7
    <2>4. CASE t \notin H
      <3>1. slots'[t] = slots[t]
        BY <1>3, <2>4
      <3>2. slots[t][j].owner # o
        BY <1>6, <2>2, <2>4
      <3> QED BY <2>1, <3>1, <3>2
    <2> QED BY <2>3, <2>4
  <1>8. \A t \in Users : DOMAIN slots'[t] = DOMAIN slots[t] /\ slots'[t] \in Seq(Slots)
    <2> SUFFICES ASSUME NEW t \in Users PROVE DOMAIN slots'[t] = DOMAIN slots[t] /\ slots'[t] \in Seq(Slots)
      OBVIOUS
    <2>1. CASE DOMAIN slots[t] = {}
      <3>1. slots'[t] = slots[t]
        BY <1>3, <1>6, <2>1
      <3> QED BY <3>1 DEF StorageTypes
    <2>2. CASE DOMAIN slots[t] # {}
      BY <1>7, <2>2
    <2> QED BY <2>1, <2>2
  <1>9. \A v \in V : v \in 1..made /\ returns[v] = 0 /\ \E t \in Users : owner_of[v] = <<o, t>>
    <2> SUFFICES ASSUME NEW t \in H
                 PROVE  LET v == slots[t][i].value
                        IN  v \in 1..made /\ returns[v] = 0 /\ owner_of[v] = <<o, t>> /\ t \in Users
      OBVIOUS
    <2>1. t \in Users /\ i \in DOMAIN slots[t] /\ slots[t][i].owner = o
      <3>1. t \in Users
        BY DEF H, Storage!Holders, StorageTypes
      <3> QED BY <1>6, <3>1
    <2>2. Keeps(t, i, o, slots[t][i].value)
      BY <1>5, <2>1 DEF ValuesHold
    <2> QED BY <2>1, <2>2 DEF Keeps
  <1>10. \A v \in 1..made : returns[v] = 0 /\ owner_of[v][1] = o => v \in V
    <2> SUFFICES ASSUME NEW v \in 1..made, returns[v] = 0, owner_of[v][1] = o PROVE v \in V
      OBVIOUS
    <2>1. PICK p \in alive, t \in s_thread_locals :
                /\ owner_of[v] = <<p, t>>
                /\ my_index[p] \in DOMAIN slots[t] /\ slots[t][my_index[p]].value = v
                /\ slots[t][my_index[p]].owner = p \/ (pc[t] = "own" /\ object[t] = p)
      BY DEF ValuesHold
    <2>2. p = o /\ t \in Users
      BY <2>1 DEF StorageTypes
    <2>3. slots[t][i].owner = o /\ i \in DOMAIN slots[t] /\ slots[t][i].value = v
      BY <1>0, <1>1, <2>1, <2>2
    <2>4. t \in H
      BY <1>6, <2>2, <2>3
    <2> QED BY <2>3, <2>4
  <1> HIDE DEF V
  <1>11. \A t \in Users : object[t] # 0 => object[t] \in alive'
    BY <1>1 DEF GettersHold
  <1>12. alive' \subseteq alive /\ o \notin alive' /\ \A p \in alive' : my_index[p] # i /\ p # 0
    BY <1>1, <1>5
  <1>13. /\ s_available' \in Seq(Nat) /\ s_owners' \in Seq(0..MaxObjects) /\ IndicesHold'
    <2>1. CASE Len(s_available) + 1 = Len(s_owners) /\ s_available' = <<>> /\ s_owners' = <<>>
      <3>1. alive' = {}
        BY <1>1, <2>1, LastObject
      <3> QED BY <2>1, <3>1 DEF IndicesHold
    <2>2. CASE s_available' = Append(s_available, i) /\ s_owners' = [s_owners EXCEPT ![i] = 0]
      <3>1. /\ s_owners' \in Seq(0..MaxObjects) /\ DOMAIN s_owners' = DOMAIN s_owners /\ s_owners'[i] = 0
            /\ \A j \in DOMAIN s_owners : j # i => s_owners'[j] = s_owners[j]
        BY <1>5, <2>2 DEF StorageTypes
      <3>2. /\ s_available' \in Seq(Nat)
            /\ \A k \in DOMAIN s_available' : \/ k \in DOMAIN s_available /\ s_available'[k] = s_available[k]
                                              \/ k = Len(s_available) + 1 /\ s_available'[k] = i
        BY <1>5, <2>2 DEF StorageTypes
      <3>3. \A k \in DOMAIN s_available : s_available[k] # i
        BY <1>0, <1>1, <1>5, IndexIsTaken
      <3>4. \A p \in alive' : my_index[p] \in DOMAIN s_owners' /\ s_owners'[my_index[p]] = p
        BY <1>12, <3>1 DEF IndicesHold
      <3>5. \A j \in DOMAIN s_owners' : s_owners'[j] # 0 => s_owners'[j] \in alive' /\ my_index[s_owners'[j]] = j
        <4> SUFFICES ASSUME NEW j \in DOMAIN s_owners', s_owners'[j] # 0
                     PROVE  s_owners'[j] \in alive' /\ my_index[s_owners'[j]] = j
          OBVIOUS
        <4>1. j \in DOMAIN s_owners /\ j # i /\ s_owners'[j] = s_owners[j]
          BY <3>1
        <4>2. s_owners[j] \in alive /\ my_index[s_owners[j]] = j
          BY <4>1 DEF IndicesHold
        <4> QED BY <1>0, <1>1, <4>1, <4>2
      <3>6. \A k \in DOMAIN s_available' : s_available'[k] \in DOMAIN s_owners' /\ s_owners'[s_available'[k]] = 0
        BY <1>5, <3>1, <3>2 DEF IndicesHold
      <3>7. \A k, l \in DOMAIN s_available' : k # l => s_available'[k] # s_available'[l]
        BY <3>2, <3>3 DEF IndicesHold
      <3> QED BY <1>1, <3>1, <3>2, <3>4, <3>5, <3>6, <3>7 DEF IndicesHold
    <2> QED BY <1>4, <2>1, <2>2
  <1>14. /\ returns' \in [1..MaxValues -> {0, 1}]
         /\ \A v \in 1..MaxValues : returns'[v] = 0 <=> returns[v] = 0 /\ v \notin V
    <2>1. \A v \in 1..MaxValues : returns[v] \in {0, 1} /\ (v \in V => returns[v] = 0)
      BY <1>9 DEF StorageTypes
    <2> QED BY <1>2, <2>1
  <1>15. StorageTypes'
    <2>1. slots' \in [Users -> Seq(Slots)]
      BY <1>3, <1>8
    <2> QED BY <1>1, <1>13, <1>14, <2>1 DEF StorageTypes
  <1>16. GettersHold'
    <2>1. \A t \in Users : t \notin s_thread_locals => slots'[t] = <<>>
      BY <1>3, <1>6 DEF GettersHold
    <2>2. \A t \in Users : Len(slots'[t]) = Len(slots[t])
      BY <1>8 DEF StorageTypes
    <2> QED BY <1>1, <1>8, <1>11, <2>1, <2>2 DEF GettersHold
  <1>17. \A t \in Users : \A j, p, v : Keeps(t, j, p, v) /\ p # o /\ j \in DOMAIN slots[t] => Keeps(t, j, p, v)'
    <2> SUFFICES ASSUME NEW t \in Users, NEW j \in DOMAIN slots[t], NEW p, NEW v,
                        Keeps(t, j, p, v), p # o
                 PROVE  Keeps(t, j, p, v)'
      OBVIOUS
    <2>1. v \in 1..made /\ owner_of[v] = <<p, t>> /\ returns[v] = 0 /\ slots[t][j].value = v
      BY DEF Keeps
    <2>2. v \notin V
      BY <1>9, <2>1
    <2>3. v \in 1..MaxValues
      BY <2>1 DEF StorageTypes
    <2> QED BY <1>1, <1>7, <1>14, <2>1, <2>2, <2>3 DEF Keeps
  <1>18. ValuesHold'
    <2>1. \A t \in Users : \A j \in DOMAIN slots'[t] : slots'[t][j].owner # 0 =>
              /\ slots'[t][j].owner \in alive' /\ my_index'[slots'[t][j].owner] = j
              /\ Keeps(t, j, slots[t][j].owner, slots[t][j].value)'
      <3> SUFFICES ASSUME NEW t \in Users, NEW j \in DOMAIN slots'[t], slots'[t][j].owner # 0
                   PROVE  /\ slots'[t][j].owner \in alive' /\ my_index'[slots'[t][j].owner] = j
                          /\ Keeps(t, j, slots[t][j].owner, slots[t][j].value)'
        OBVIOUS
      <3>1. /\ j \in DOMAIN slots[t] /\ slots[t][j].owner # o /\ slots[t][j].owner # 0
            /\ slots'[t][j].owner = slots[t][j].owner /\ slots'[t][j].value = slots[t][j].value
        BY <1>7, <1>8
      <3>2. slots[t][j].owner \in alive /\ my_index[slots[t][j].owner] = j
        BY <3>1 DEF ValuesHold
      <3>3. Keeps(t, j, slots[t][j].owner, slots[t][j].value)
        BY <3>1 DEF ValuesHold
      <3>4. Keeps(t, j, slots[t][j].owner, slots[t][j].value)'
        <4>1. PICK p, v : p = slots[t][j].owner /\ v = slots[t][j].value
          OBVIOUS
        <4>2. Keeps(t, j, p, v)'
          BY <1>17, <3>1, <3>3, <4>1
        <4> QED BY <3>1, <4>1, <4>2
      <3> QED BY <1>1, <3>1, <3>2, <3>4
    <2>2. ASSUME NEW t \in Users, pc'[t] = "own", NEW j, j = my_index'[object'[t]]
          PROVE  slots'[t][j].owner = 0 /\ Keeps(t, j, object[t], slots[t][j].value)'
      <3>1. pc[t] = "own" /\ j = my_index[object[t]] /\ object[t] # o /\ object'[t] = object[t]
        BY <1>1, <2>2
      <3>2. j \in DOMAIN slots[t]
        BY <3>1 DEF GettersHold
      <3>3. slots[t][j].owner = 0 /\ Keeps(t, j, object[t], slots[t][j].value)
        BY <3>1 DEF ValuesHold
      <3> QED BY <1>7, <1>17, <1>1, <3>1, <3>2, <3>3
    <2>3. \A v \in 1..MaxValues : v > made' => returns'[v] = 0
      <3>1. \A v \in V : v \in 1..made
        BY <1>9
      <3>2. made \in Nat
        BY DEF StorageTypes
      <3> QED BY <1>1, <1>14, <3>1, <3>2 DEF ValuesHold
    <2>4. ASSUME NEW v \in 1..made', returns'[v] = 0
          PROVE  \E p \in alive', t \in s_thread_locals' :
                /\ owner_of'[v] = <<p, t>>
                /\ my_index'[p] \in DOMAIN slots'[t] /\ slots'[t][my_index'[p]].value = v
                /\ \/ slots'[t][my_index'[p]].owner = p
                   \/ pc'[t] = "own" /\ object'[t] = p
      <3>1. v \in 1..made /\ v \in 1..MaxValues
        BY <1>1, <2>4 DEF StorageTypes
      <3>2. returns[v] = 0 /\ v \notin V
        BY <1>14, <2>4, <3>1
      <3>3. PICK p \in alive, t \in s_thread_locals :
                /\ owner_of[v] = <<p, t>>
                /\ my_index[p] \in DOMAIN slots[t] /\ slots[t][my_index[p]].value = v
                /\ slots[t][my_index[p]].owner = p \/ (pc[t] = "own" /\ object[t] = p)
        BY <3>1, <3>2 DEF ValuesHold
      <3>4. owner_of[v][1] = p
        BY <3>3
      <3>5. p # o
        BY <1>10, <3>1, <3>2, <3>4
      <3>6. t \in Users
        BY DEF StorageTypes
      <3>7. my_index[p] \in DOMAIN slots'[t] /\ slots'[t][my_index[p]].value = v
            /\ (slots[t][my_index[p]].owner = p => slots'[t][my_index[p]].owner = p)
        BY <1>7, <3>3, <3>5, <3>6
      <3> QED BY <1>1, <3>3, <3>5, <3>7
    <2> QED BY <2>1, <2>2, <2>3, <2>4 DEF ValuesHold
  <1> QED BY <1>13, <1>15, <1>16, <1>18


\* A thread that is not between the assignments of get(), before and after,
\* changes nothing but that its vector may grow.
LEMMA OtherGetter ==
    ASSUME GettersHold, ValuesHold, NEW t \in Users, pc[t] # "own", pc'[t] # "own",
           \A u \in Users : u # t => pc'[u] = pc[u] /\ object'[u] = object[u],
           \A u \in Users : /\ DOMAIN slots[u] \subseteq DOMAIN slots'[u]
                            /\ \A j \in DOMAIN slots[u] : slots'[u][j] = slots[u][j]
                            /\ \A j \in DOMAIN slots'[u] : j \notin DOMAIN slots[u] => slots'[u][j].owner = 0,
           s_thread_locals \subseteq s_thread_locals' /\ s_thread_locals \subseteq Users,
           UNCHANGED <<alive, my_index, made, owner_of, returns>>
    PROVE  ValuesHold'
  <1>1. \A u \in Users : \A j, o, v : j \in DOMAIN slots[u] /\ Keeps(u, j, o, v) => Keeps(u, j, o, v)'
    BY DEF Keeps
  <1>2. ASSUME NEW u \in Users, NEW j \in DOMAIN slots'[u], slots'[u][j].owner # 0
        PROVE  /\ slots'[u][j].owner \in alive' /\ my_index'[slots'[u][j].owner] = j
               /\ Keeps(u, j, slots[u][j].owner, slots[u][j].value)'
    <2>1. j \in DOMAIN slots[u] /\ slots'[u][j] = slots[u][j]
      BY <1>2
    <2>2. PICK o, v : o = slots[u][j].owner /\ v = slots[u][j].value
      OBVIOUS
    <2>3. o \in alive /\ my_index[o] = j /\ Keeps(u, j, o, v)
      BY <1>2, <2>1, <2>2 DEF ValuesHold
    <2> QED BY <1>1, <2>1, <2>2, <2>3
  <1>3. ASSUME NEW u \in Users, pc'[u] = "own", NEW j, j = my_index'[object'[u]]
        PROVE  slots'[u][j].owner = 0 /\ Keeps(u, j, object[u], slots[u][j].value)'
    <2>1. pc[u] = "own" /\ object'[u] = object[u] /\ j = my_index[object[u]]
      BY <1>3
    <2>2. j \in DOMAIN slots[u] /\ slots'[u][j] = slots[u][j]
      BY <2>1 DEF GettersHold
    <2>3. PICK o, v : o = object[u] /\ v = slots[u][j].value
      OBVIOUS
    <2>4. slots[u][j].owner = 0 /\ Keeps(u, j, o, v)
      BY <2>1, <2>3 DEF ValuesHold
    <2> QED BY <1>1, <2>1, <2>2, <2>3, <2>4
  <1>4. ASSUME NEW v \in 1..made', returns'[v] = 0
        PROVE  \E o \in alive', u \in s_thread_locals' :
                /\ owner_of'[v] = <<o, u>>
                /\ my_index'[o] \in DOMAIN slots'[u] /\ slots'[u][my_index'[o]].value = v
                /\ \/ slots'[u][my_index'[o]].owner = o
                   \/ pc'[u] = "own" /\ object'[u] = o
    <2>1. PICK o \in alive, u \in s_thread_locals :
                /\ owner_of[v] = <<o, u>>
                /\ my_index[o] \in DOMAIN slots[u] /\ slots[u][my_index[o]].value = v
                /\ slots[u][my_index[o]].owner = o \/ (pc[u] = "own" /\ object[u] = o)
      BY <1>4 DEF ValuesHold
    <2> QED BY <2>1
  <1>5. \A v \in 1..MaxValues : v > made' => returns'[v] = 0
    BY DEF ValuesHold
  <1> QED BY <1>2, <1>3, <1>4, <1>5 DEF ValuesHold

\* get() up to the slot: the vector of the thread reaches to the index.
LEMMA GetSlotKeeps ==
    ASSUME StorageSizes, StorageInd, NEW t \in Users,
           (\E o \in alive : Storage!GetStorage(t, o)) \/ Storage!GetResize(t) \/ Storage!GetReturn(t)
    PROVE  StorageInd'
  <1> USE DEF StorageSizes, StorageInd
  <1>0. 0 \notin alive /\ \A p \in alive : p \in 1..MaxObjects /\ my_index[p] \in Nat \ {0}
    <2>1. 0 \notin alive /\ \A p \in alive : p \in 1..MaxObjects
      BY DEF StorageTypes
    <2>2. \A p \in alive : my_index[p] \in 1..Len(s_owners)
      BY DEF StorageTypes, IndicesHold
    <2>3. Len(s_owners) \in Nat
      BY DEF StorageTypes
    <2>4. \A n \in 1..Len(s_owners) : n \in Nat \ {0}
      BY <2>3
    <2> QED BY <2>1, <2>2, <2>4
  <1>1. CASE \E o \in alive : Storage!GetStorage(t, o)
    <2>1. PICK o \in alive :
              /\ pc[t] = "idle" /\ object' = [object EXCEPT ![t] = o]
              /\ s_thread_locals' = s_thread_locals \cup {t}
              /\ pc' = [pc EXCEPT ![t] = IF my_index[o] > Len(slots[t]) THEN "resize" ELSE "slot"]
              /\ UNCHANGED <<s_id, s_available, s_owners, alive, my_index, slots, made, owner_of, returns>>
      BY <1>1 DEF Storage!GetStorage, Storage!objectVars, Storage!valueVars
    <2>2. StorageTypes'
      BY <1>0, <2>1 DEF StorageTypes
    <2>3. IndicesHold'
      BY <2>1 DEF IndicesHold
    <2>4. /\ object'[t] = o /\ pc'[t] \in {"resize", "slot"}
          /\ pc'[t] = "slot" => my_index[o] \in DOMAIN slots[t]
          /\ \A u \in Users : u # t => pc'[u] = pc[u] /\ object'[u] = object[u]
      BY <1>0, <2>1 DEF StorageTypes
    <2>5. GettersHold'
      BY <1>0, <2>1, <2>4 DEF GettersHold
    <2>6. ValuesHold'
      BY <2>1, <2>4, OtherGetter DEF StorageTypes
    <2> QED BY <2>2, <2>3, <2>5, <2>6
  <1>2. CASE Storage!GetResize(t)
    <2> DEFINE i == my_index[object[t]]
               Longer == [j \in 1..i |-> IF j \in DOMAIN slots[t] THEN slots[t][j] ELSE Storage!FreeSlot]
    <2>1. /\ pc[t] = "resize" /\ slots' = [slots EXCEPT ![t] = Longer]
          /\ pc' = [pc EXCEPT ![t] = "slot"]
          /\ UNCHANGED <<s_id, s_available, s_owners, s_thread_locals, alive, my_index,
                         object, made, owner_of, returns>>
      BY <1>2 DEF Storage!GetResize, Storage!staticVars, Storage!objectVars, Storage!valueVars
    <2>2. i \in Nat \ {0} /\ i > Len(slots[t]) /\ object[t] \in alive
      BY <1>0, <2>1 DEF GettersHold
    <2>3. Storage!FreeSlot \in Slots /\ Storage!FreeSlot.owner = 0
      BY DEF Storage!FreeSlot, Storage!None, Slots
    <2>4. slots[t] \in Seq(Slots) /\ Len(slots[t]) \in Nat /\ DOMAIN slots[t] = 1..Len(slots[t])
      BY DEF StorageTypes
    <2>5. /\ Longer \in Seq(Slots) /\ DOMAIN Longer = 1..i /\ Len(Longer) = i
          /\ \A j \in 1..i : Longer[j] = IF j \in DOMAIN slots[t] THEN slots[t][j] ELSE Storage!FreeSlot
      <3>1. \A j \in 1..i : (IF j \in DOMAIN slots[t] THEN slots[t][j] ELSE Storage!FreeSlot) \in Slots
        BY <2>3, <2>4, SlotFacts
      <3> HIDE DEF Slots, Storage!FreeSlot
      <3> QED BY <2>2, <3>1
    <2>6. /\ slots'[t] = Longer /\ pc'[t] = "slot"
          /\ \A u \in Users : u # t => slots'[u] = slots[u] /\ pc'[u] = pc[u]
      BY <2>1 DEF StorageTypes
    <2> HIDE DEF Longer
    <2>7. StorageTypes'
      BY <2>1, <2>5 DEF StorageTypes
    <2>8. IndicesHold'
      BY <2>1 DEF IndicesHold
    <2>9. GettersHold'
      BY <2>1, <2>2, <2>5, <2>6 DEF GettersHold
    <2>10. ValuesHold'
      <3>1. ASSUME NEW u \in Users
            PROVE /\ DOMAIN slots[u] \subseteq DOMAIN slots'[u]
                  /\ \A j \in DOMAIN slots[u] : slots'[u][j] = slots[u][j]
                  /\ \A j \in DOMAIN slots'[u] : j \notin DOMAIN slots[u] => slots'[u][j].owner = 0
        <4>1. CASE u = t
          BY <2>2, <2>3, <2>4, <2>5, <2>6, <4>1
        <4>2. CASE u # t
          BY <2>6, <4>2
        <4> QED BY <4>1, <4>2
      <3>2. s_thread_locals \subseteq Users
        BY DEF StorageTypes
      <3> QED BY <2>1, <2>6, <3>1, <3>2, OtherGetter
    <2> QED BY <2>7, <2>8, <2>9, <2>10
  <1>3. CASE Storage!GetReturn(t)
    <2>1. /\ pc[t] = "slot" /\ pc' = [pc EXCEPT ![t] = "idle"] /\ object' = [object EXCEPT ![t] = 0]
          /\ UNCHANGED <<s_id, s_available, s_owners, s_thread_locals, alive, my_index, slots,
                         made, owner_of, returns>>
      BY <1>3 DEF Storage!GetReturn, Storage!None, Storage!staticVars, Storage!objectVars, Storage!valueVars
    <2>2. StorageTypes'
      BY <2>1 DEF StorageTypes
    <2>3. IndicesHold'
      BY <2>1 DEF IndicesHold
    <2>4. /\ object'[t] = 0 /\ pc'[t] = "idle"
          /\ \A u \in Users : u # t => pc'[u] = pc[u] /\ object'[u] = object[u]
      BY <2>1 DEF StorageTypes
    <2>5. GettersHold'
      BY <1>0, <2>1, <2>4 DEF GettersHold
    <2>6. ValuesHold'
      BY <2>1, <2>4, OtherGetter DEF StorageTypes
    <2> QED BY <2>2, <2>3, <2>5, <2>6
  <1> QED BY <1>1, <1>2, <1>3


\* One slot of a thread is assigned to.
LEMMA SlotAssigned ==
    ASSUME StorageSizes, StorageTypes, NEW t \in Users, NEW i \in DOMAIN slots[t], NEW new \in Slots,
           slots' = [slots EXCEPT ![t][i] = new]
    PROVE  /\ slots' \in [Users -> Seq(Slots)]
           /\ \A u \in Users : DOMAIN slots'[u] = DOMAIN slots[u] /\ Len(slots'[u]) = Len(slots[u])
           /\ slots'[t][i] = new
           /\ \A u \in Users : \A j \in DOMAIN slots[u] : u # t \/ j # i => slots'[u][j] = slots[u][j]
           /\ \A u \in Users : u # t => slots'[u] = slots[u]
  <1>1. slots' = [slots EXCEPT ![t] = [slots[t] EXCEPT ![i] = new]]
    OBVIOUS
  <1>2. slots[t] \in Seq(Slots) /\ i \in 1..Len(slots[t]) /\ Len(slots[t]) \in Nat
    BY DEF StorageTypes
  <1>3. PICK s \in Seq(Slots) :
            /\ s = [slots[t] EXCEPT ![i] = new]
            /\ DOMAIN s = DOMAIN slots[t] /\ Len(s) = Len(slots[t]) /\ s[i] = new
            /\ \A j \in DOMAIN slots[t] : j # i => s[j] = slots[t][j]
    <2> HIDE DEF Slots
    <2>1. PICK s : s = [slots[t] EXCEPT ![i] = new]
      OBVIOUS
    <2>2. s \in Seq(Slots) /\ DOMAIN s = DOMAIN slots[t] /\ Len(s) = Len(slots[t])
      BY <1>2, <2>1
    <2>3. s[i] = new /\ \A j \in DOMAIN slots[t] : j # i => s[j] = slots[t][j]
      BY <1>2, <2>1
    <2> QED BY <2>1, <2>2, <2>3
  <1>4. slots \in [Users -> Seq(Slots)] /\ slots' = [slots EXCEPT ![t] = s]
    BY <1>1, <1>3 DEF StorageTypes
  <1> HIDE DEF Slots
  <1> QED BY <1>3, <1>4

\* The first assignment of get(): a value is made for the slot.
LEMMA GetDefaultKeeps ==
    ASSUME StorageSizes, StorageInd, NEW t \in Users, Storage!GetDefault(t)
    PROVE  StorageInd'
  <1> USE DEF StorageSizes, StorageInd
  <1>1. PICK i, o : i = my_index[object[t]] /\ o = object[t]
    OBVIOUS
  <1>2. PICK m \in 1..MaxValues : m = made + 1
    BY DEF Storage!GetDefault, StorageTypes
  <1>3. /\ pc[t] = "slot" /\ slots[t][i].owner = 0 /\ made' = m
        /\ owner_of' = [owner_of EXCEPT ![m] = <<o, t>>]
        /\ slots' = [slots EXCEPT ![t][i].value = m]
        /\ pc' = [pc EXCEPT ![t] = "own"]
        /\ UNCHANGED <<s_id, s_available, s_owners, s_thread_locals, alive, my_index, object, returns>>
    BY <1>1, <1>2 DEF Storage!GetDefault, Storage!MySlot, Storage!None, Storage!staticVars, Storage!objectVars
  <1>4. o \in alive /\ o \in 1..MaxObjects /\ i \in DOMAIN slots[t] /\ t \in s_thread_locals
    BY <1>1, <1>3 DEF GettersHold, StorageTypes
  <1>5. PICK new \in Slots : /\ new = [slots[t][i] EXCEPT !.value = m]
                             /\ new.owner = 0 /\ new.value = m
    <2>1. slots[t][i] \in Slots
      BY <1>4, SlotFacts
    <2>2. [slots[t][i] EXCEPT !.value = m] = [owner |-> 0, value |-> m]
      BY <1>3, <2>1 DEF Slots
    <2>3. [owner |-> 0, value |-> m] \in Slots
      BY DEF Slots
    <2> QED BY <2>2, <2>3
  <1>6. slots' = [slots EXCEPT ![t][i] = new]
    BY <1>3, <1>5
  <1> HIDE DEF Slots
  <1>7. /\ slots' \in [Users -> Seq(Slots)]
        /\ \A u \in Users : DOMAIN slots'[u] = DOMAIN slots[u] /\ Len(slots'[u]) = Len(slots[u])
        /\ slots'[t][i] = new
        /\ \A u \in Users : \A j \in DOMAIN slots[u] : u # t \/ j # i => slots'[u][j] = slots[u][j]
        /\ \A u \in Users : u # t => slots'[u] = slots[u]
    BY <1>4, <1>6, SlotAssigned
  <1>8. /\ pc'[t] = "own" /\ \A u \in Users : u # t => pc'[u] = pc[u]
        /\ pc' \in [Users -> {"idle", "resize", "slot", "own"}]
    BY <1>3 DEF StorageTypes
  <1>9. /\ owner_of'[m] = <<o, t>> /\ DOMAIN owner_of' = 1..MaxValues
        /\ \A v \in 1..made : v # m /\ owner_of'[v] = owner_of[v]
        /\ \A v \in 1..m : v \in 1..made \/ v = m
    <2>1. made \in 0..MaxValues /\ DOMAIN owner_of = 1..MaxValues
      BY DEF StorageTypes
    <2>2. /\ owner_of'[m] = <<o, t>> /\ DOMAIN owner_of' = 1..MaxValues
          /\ \A v \in 1..MaxValues : v # m => owner_of'[v] = owner_of[v]
      BY <1>3, <2>1
    <2>3. \A v \in 1..made : v \in 1..MaxValues /\ v # m
      BY <1>2, <2>1
    <2>4. \A v \in 1..m : v \in 1..made \/ v = m
      BY <1>2, <2>1
    <2> QED BY <2>2, <2>3, <2>4
  <1>10. StorageTypes'
    <2>1. \A v \in 1..m : owner_of'[v] \in (1..MaxObjects) \X Users
      <3>1. \A v \in 1..made : owner_of'[v] \in (1..MaxObjects) \X Users
        BY <1>9 DEF StorageTypes
      <3>2. <<o, t>> \in (1..MaxObjects) \X Users
        BY <1>4
      <3>3. ASSUME NEW v \in 1..m PROVE owner_of'[v] \in (1..MaxObjects) \X Users
        BY <1>9, <3>1, <3>2
      <3> QED BY <3>3
    <2>2. made' \in 0..MaxValues /\ \A v \in 1..made' : owner_of'[v] \in (1..MaxObjects) \X Users
      BY <1>2, <1>3, <2>1
    <2>3. /\ s_id' \in 0..MaxObjects /\ s_available' \in Seq(Nat) /\ s_owners' \in Seq(0..MaxObjects)
          /\ s_thread_locals' \subseteq Users /\ alive' \subseteq 1..s_id'
          /\ my_index' \in [1..MaxObjects -> Nat] /\ object' \in [Users -> 0..MaxObjects]
          /\ returns' \in [1..MaxValues -> {0, 1}]
      BY <1>3 DEF StorageTypes
    <2> QED BY <1>7, <1>8, <1>9, <2>2, <2>3 DEF StorageTypes
  <1>11. IndicesHold'
    BY <1>3 DEF IndicesHold
  <1>12. GettersHold'
    <2>1. \A u \in Users : u \notin s_thread_locals => u # t
      BY <1>4
    <2> QED BY <1>1, <1>3, <1>4, <1>7, <1>8, <2>1 DEF GettersHold
  <1>13. \A u \in Users : \A j \in DOMAIN slots[u] : \A p, v :
            (u # t \/ j # i) /\ Keeps(u, j, p, v) => Keeps(u, j, p, v)'
    <2> SUFFICES ASSUME NEW u \in Users, NEW j \in DOMAIN slots[u], NEW p, NEW v,
                        u # t \/ j # i, Keeps(u, j, p, v)
                 PROVE  Keeps(u, j, p, v)'
      OBVIOUS
    <2>1. v \in 1..made /\ owner_of[v] = <<p, u>> /\ returns[v] = 0 /\ slots[u][j].value = v
      BY DEF Keeps
    <2>2. slots'[u][j].value = v
      BY <1>7, <2>1
    <2>3. v \in 1..made' /\ owner_of'[v] = <<p, u>> /\ returns'[v] = 0
      <3>1. v \in 1..m
        BY <1>2, <2>1 DEF StorageTypes
      <3> QED BY <1>3, <1>9, <2>1, <3>1
    <2> QED BY <2>2, <2>3 DEF Keeps
  <1>14. ValuesHold'
    <2>1. ASSUME NEW u \in Users, NEW j \in DOMAIN slots'[u], slots'[u][j].owner # 0
          PROVE  /\ slots'[u][j].owner \in alive' /\ my_index'[slots'[u][j].owner] = j
                 /\ Keeps(u, j, slots[u][j].owner, slots[u][j].value)'
      <3>1. j \in DOMAIN slots[u] /\ (u # t \/ j # i)
        BY <1>5, <1>7, <2>1
      <3>2. slots'[u][j] = slots[u][j]
        BY <1>7, <3>1
      <3>3. PICK p, v : p = slots[u][j].owner /\ v = slots[u][j].value
        OBVIOUS
      <3>4. p \in alive /\ my_index[p] = j /\ Keeps(u, j, p, v)
        BY <2>1, <3>1, <3>2, <3>3 DEF ValuesHold
      <3>5. Keeps(u, j, p, v)'
        BY <1>13, <3>1, <3>4
      <3>6. slots'[u][j].owner = p /\ slots'[u][j].value = v
        BY <3>2, <3>3
      <3>7. p \in alive' /\ my_index'[p] = j
        BY <1>3, <3>4
      <3> QED BY <3>5, <3>6, <3>7
    <2>2. ASSUME NEW u \in Users, pc'[u] = "own", NEW j, j = my_index'[object'[u]]
          PROVE  slots'[u][j].owner = 0 /\ Keeps(u, j, object[u], slots[u][j].value)'
      <3>1. CASE u = t
        <4>1. j = i /\ object'[u] = o /\ slots'[u][j].value = m /\ slots'[u][j].owner = 0
          BY <1>1, <1>3, <1>5, <1>7, <2>2, <3>1
        <4>2. returns'[m] = 0
          BY <1>2, <1>3 DEF ValuesHold, StorageTypes
        <4>3. m \in 1..made'
          BY <1>3
        <4>4. Keeps(u, j, o, m)'
          BY <1>9, <3>1, <4>1, <4>2, <4>3 DEF Keeps
        <4> QED BY <4>1, <4>4
      <3>2. CASE u # t
        <4>1. pc[u] = "own" /\ object'[u] = object[u] /\ j = my_index[object[u]]
          BY <1>3, <1>8, <2>2, <3>2
        <4>2. j \in DOMAIN slots[u] /\ slots'[u] = slots[u]
          BY <1>7, <3>2, <4>1 DEF GettersHold
        <4>3. PICK p, v : p = object[u] /\ v = slots[u][j].value
          OBVIOUS
        <4>4. slots[u][j].owner = 0 /\ Keeps(u, j, p, v)
          BY <4>1, <4>3 DEF ValuesHold
        <4>5. Keeps(u, j, p, v)'
          BY <1>13, <3>2, <4>2, <4>4
        <4> QED BY <4>1, <4>2, <4>3, <4>4, <4>5
      <3> QED BY <3>1, <3>2
    <2>3. \A v \in 1..MaxValues : v > made' => returns'[v] = 0
      BY <1>2, <1>3 DEF ValuesHold, StorageTypes
    <2>4. ASSUME NEW v \in 1..made', returns'[v] = 0
          PROVE  \E p \in alive', u \in s_thread_locals' :
                /\ owner_of'[v] = <<p, u>>
                /\ my_index'[p] \in DOMAIN slots'[u] /\ slots'[u][my_index'[p]].value = v
                /\ \/ slots'[u][my_index'[p]].owner = p
                   \/ pc'[u] = "own" /\ object'[u] = p
      <3>1. CASE v = m
        BY <1>1, <1>3, <1>4, <1>5, <1>7, <1>8, <1>9, <3>1
      <3>2. CASE v \in 1..made
        <4>1. PICK p \in alive, u \in s_thread_locals :
                /\ owner_of[v] = <<p, u>>
                /\ my_index[p] \in DOMAIN slots[u] /\ slots[u][my_index[p]].value = v
                /\ slots[u][my_index[p]].owner = p \/ (pc[u] = "own" /\ object[u] = p)
          BY <1>3, <2>4, <3>2 DEF ValuesHold
        <4>2. p # 0 /\ u \in Users
          BY DEF StorageTypes
        <4>3. u # t \/ my_index[p] # i
          BY <1>3, <4>1, <4>2
        <4>4. slots'[u][my_index[p]] = slots[u][my_index[p]]
          BY <1>7, <4>1, <4>2, <4>3
        <4>5. pc[u] = "own" => pc'[u] = "own"
          BY <1>8, <4>2
        <4> QED BY <1>3, <1>7, <1>9, <3>2, <4>1, <4>2, <4>4, <4>5
      <3> QED BY <1>3, <1>9, <2>4, <3>1, <3>2
    <2> QED BY <2>1, <2>2, <2>3, <2>4 DEF ValuesHold
  <1> QED BY <1>10, <1>11, <1>12, <1>14

\* The second assignment: the slot belongs to the object.
LEMMA GetOwnKeeps ==
    ASSUME StorageSizes, StorageInd, NEW t \in Users, Storage!GetOwn(t)
    PROVE  StorageInd'
  <1> USE DEF StorageSizes, StorageInd
  <1>1. PICK i, o, m : i = my_index[object[t]] /\ o = object[t] /\ m = slots[t][i].value
    OBVIOUS
  <1>3. /\ pc[t] = "own" /\ slots' = [slots EXCEPT ![t][i].owner = o]
        /\ pc' = [pc EXCEPT ![t] = "slot"]
        /\ UNCHANGED <<s_id, s_available, s_owners, s_thread_locals, alive, my_index, object,
                       made, owner_of, returns>>
    BY <1>1 DEF Storage!GetOwn, Storage!staticVars, Storage!objectVars, Storage!valueVars
  <1>4. /\ o \in alive /\ o \in 1..MaxObjects /\ i \in DOMAIN slots[t] /\ t \in s_thread_locals
        /\ Keeps(t, i, o, m)
    BY <1>1, <1>3 DEF GettersHold, ValuesHold, StorageTypes
  <1>5. PICK new \in Slots : /\ new = [slots[t][i] EXCEPT !.owner = o]
                             /\ new.owner = o /\ new.value = m
    <2>1. slots[t][i] \in Slots /\ m \in 0..MaxValues
      BY <1>1, <1>4, SlotFacts
    <2>2. [slots[t][i] EXCEPT !.owner = o] = [owner |-> o, value |-> m]
      BY <1>1, <2>1 DEF Slots
    <2>3. [owner |-> o, value |-> m] \in Slots
      BY <1>4, <2>1 DEF Slots
    <2> QED BY <2>2, <2>3
  <1>6. slots' = [slots EXCEPT ![t][i] = new]
    BY <1>3, <1>5
  <1> HIDE DEF Slots
  <1>7. /\ slots' \in [Users -> Seq(Slots)]
        /\ \A u \in Users : DOMAIN slots'[u] = DOMAIN slots[u] /\ Len(slots'[u]) = Len(slots[u])
        /\ slots'[t][i] = new
        /\ \A u \in Users : \A j \in DOMAIN slots[u] : u # t \/ j # i => slots'[u][j] = slots[u][j]
        /\ \A u \in Users : u # t => slots'[u] = slots[u]
    BY <1>4, <1>6, SlotAssigned
  <1>8. /\ pc'[t] = "slot" /\ \A u \in Users : u # t => pc'[u] = pc[u]
        /\ pc' \in [Users -> {"idle", "resize", "slot", "own"}]
    BY <1>3 DEF StorageTypes
  <1>9. \A u \in Users : \A j \in DOMAIN slots[u] : slots'[u][j].value = slots[u][j].value
    BY <1>1, <1>5, <1>7
  <1>10. StorageTypes'
    BY <1>3, <1>7, <1>8 DEF StorageTypes
  <1>11. IndicesHold'
    BY <1>3 DEF IndicesHold
  <1>12. GettersHold'
    <2>1. \A u \in Users : u \notin s_thread_locals => u # t
      BY <1>4
    <2> QED BY <1>1, <1>3, <1>4, <1>7, <1>8, <2>1 DEF GettersHold
  <1>13. \A u \in Users : \A j \in DOMAIN slots[u] : \A p, v :
            Keeps(u, j, p, v) => Keeps(u, j, p, v)'
    BY <1>3, <1>9 DEF Keeps
  <1>14. ValuesHold'
    <2>1. ASSUME NEW u \in Users, NEW j \in DOMAIN slots'[u], slots'[u][j].owner # 0
          PROVE  /\ slots'[u][j].owner \in alive' /\ my_index'[slots'[u][j].owner] = j
                 /\ Keeps(u, j, slots[u][j].owner, slots[u][j].value)'
      <3>1. CASE u = t /\ j = i
        <4>1. slots'[u][j].owner = o /\ slots'[u][j].value = m
          BY <1>5, <1>7, <3>1
        <4>2. Keeps(u, j, o, m)'
          BY <1>4, <1>13, <3>1
        <4>3. o \in alive' /\ my_index'[o] = j
          BY <1>1, <1>3, <1>4, <3>1
        <4> QED BY <4>1, <4>2, <4>3
      <3>2. CASE u # t \/ j # i
        <4>1. j \in DOMAIN slots[u] /\ slots'[u][j] = slots[u][j]
          BY <1>7, <3>2
        <4>2. PICK p, v : p = slots[u][j].owner /\ v = slots[u][j].value
          OBVIOUS
        <4>3. p \in alive /\ my_index[p] = j /\ Keeps(u, j, p, v)
          BY <2>1, <4>1, <4>2 DEF ValuesHold
        <4>4. Keeps(u, j, p, v)'
          BY <1>13, <4>1, <4>3
        <4>5. slots'[u][j].owner = p /\ slots'[u][j].value = v
          BY <4>1, <4>2
        <4>6. p \in alive' /\ my_index'[p] = j
          BY <1>3, <4>3
        <4> QED BY <4>4, <4>5, <4>6
      <3> QED BY <3>1, <3>2
    <2>2. ASSUME NEW u \in Users, pc'[u] = "own", NEW j, j = my_index'[object'[u]]
          PROVE  slots'[u][j].owner = 0 /\ Keeps(u, j, object[u], slots[u][j].value)'
      <3>1. u # t /\ pc[u] = "own" /\ object'[u] = object[u] /\ j = my_index[object[u]]
        BY <1>3, <1>8, <2>2
      <3>2. j \in DOMAIN slots[u] /\ slots'[u] = slots[u]
        BY <1>7, <3>1 DEF GettersHold
      <3>3. PICK p, v : p = object[u] /\ v = slots[u][j].value
        OBVIOUS
      <3>4. slots[u][j].owner = 0 /\ Keeps(u, j, p, v)
        BY <3>1, <3>3 DEF ValuesHold
      <3>5. Keeps(u, j, p, v)'
        BY <1>13, <3>2, <3>4
      <3> QED BY <3>1, <3>2, <3>3, <3>4, <3>5
    <2>3. \A v \in 1..MaxValues : v > made' => returns'[v] = 0
      BY <1>3 DEF ValuesHold
    <2>4. ASSUME NEW v \in 1..made', returns'[v] = 0
          PROVE  \E p \in alive', u \in s_thread_locals' :
                /\ owner_of'[v] = <<p, u>>
                /\ my_index'[p] \in DOMAIN slots'[u] /\ slots'[u][my_index'[p]].value = v
                /\ \/ slots'[u][my_index'[p]].owner = p
                   \/ pc'[u] = "own" /\ object'[u] = p
      <3>1. PICK p \in alive, u \in s_thread_locals :
              /\ owner_of[v] = <<p, u>>
              /\ my_index[p] \in DOMAIN slots[u] /\ slots[u][my_index[p]].value = v
              /\ slots[u][my_index[p]].owner = p \/ (pc[u] = "own" /\ object[u] = p)
        BY <1>3, <2>4 DEF ValuesHold
      <3>2. p # 0 /\ u \in Users
        BY DEF StorageTypes
      <3>3. slots'[u][my_index[p]].value = v /\ my_index[p] \in DOMAIN slots'[u]
        BY <1>7, <1>9, <3>1, <3>2
      <3>4. slots'[u][my_index[p]].owner = p \/ (pc'[u] = "own" /\ object'[u] = p)
        <4>1. CASE u = t /\ my_index[p] = i
          <5>1. s_owners[my_index[p]] = p /\ s_owners[i] = o
            BY <1>1, <1>4 DEF IndicesHold
          <5>2. p = o
            BY <4>1, <5>1
          <5> QED BY <1>5, <1>7, <4>1, <5>2
        <4>2. CASE u = t /\ my_index[p] # i
          BY <1>1, <1>7, <3>1, <3>2, <4>2
        <4>3. CASE u # t
          BY <1>3, <1>7, <1>8, <3>1, <3>2, <4>3
        <4> QED BY <4>1, <4>2, <4>3
      <3> QED BY <1>3, <3>1, <3>3, <3>4
    <2> QED BY <2>1, <2>2, <2>3, <2>4 DEF ValuesHold
  <1> QED BY <1>10, <1>11, <1>12, <1>14


\* The values of a thread are returned when it ends.
LEMMA ThreadExitKeeps ==
    ASSUME StorageSizes, StorageInd, NEW t \in Users, Storage!ThreadExits(t)
    PROVE  StorageInd'
  <1> USE DEF StorageSizes, StorageInd
  <1> DEFINE V == {slots[t][i].value : i \in Storage!Owned(t)}
  <1>1. /\ pc[t] = "idle" /\ s_thread_locals' = s_thread_locals \ {t}
        /\ UNCHANGED <<s_id, s_available, s_owners, alive, my_index, pc, object, made, owner_of>>
    BY DEF Storage!ThreadExits, Storage!objectVars, Storage!getVars
  <1>2. returns' = [v \in 1..MaxValues |-> IF v \in V THEN returns[v] + 1 ELSE returns[v]]
    BY DEF Storage!ThreadExits, Storage!ReturnAll, Storage!Values
  <1>3. slots' = [slots EXCEPT ![t] = <<>>]
    BY DEF Storage!ThreadExits
  <1>4. /\ slots'[t] = <<>> /\ slots' \in [Users -> Seq(Slots)]
        /\ \A u \in Users : u # t => slots'[u] = slots[u]
    BY <1>3 DEF StorageTypes
  <1>5. \A v \in V : v \in 1..made /\ returns[v] = 0 /\ owner_of[v][2] = t
    <2> SUFFICES ASSUME NEW i \in Storage!Owned(t)
                 PROVE  LET v == slots[t][i].value
                        IN  v \in 1..made /\ returns[v] = 0 /\ owner_of[v][2] = t
      OBVIOUS
    <2>1. i \in DOMAIN slots[t] /\ slots[t][i].owner # 0
      BY DEF Storage!Owned, Storage!None
    <2>2. PICK p, v : p = slots[t][i].owner /\ v = slots[t][i].value
      OBVIOUS
    <2>3. Keeps(t, i, p, v)
      BY <2>1, <2>2 DEF ValuesHold
    <2> QED BY <2>2, <2>3 DEF Keeps
  <1>6. \A v \in 1..made : returns[v] = 0 /\ owner_of[v][2] = t => v \in V
    <2> SUFFICES ASSUME NEW v \in 1..made, returns[v] = 0, owner_of[v][2] = t PROVE v \in V
      OBVIOUS
    <2>1. PICK p \in alive, u \in s_thread_locals :
                /\ owner_of[v] = <<p, u>>
                /\ my_index[p] \in DOMAIN slots[u] /\ slots[u][my_index[p]].value = v
                /\ slots[u][my_index[p]].owner = p \/ (pc[u] = "own" /\ object[u] = p)
      BY DEF ValuesHold
    <2>2. u = t
      BY <2>1
    <2>3. PICK i : i = my_index[p] /\ i \in DOMAIN slots[t] /\ slots[t][i].owner = p /\ slots[t][i].value = v
      BY <1>1, <2>1, <2>2
    <2>4. p # 0 /\ i \in DOMAIN s_owners /\ s_owners[i] = p
      BY <2>3 DEF StorageTypes, IndicesHold
    <2>5. i \in Storage!Owned(t)
      BY <2>3, <2>4 DEF Storage!Owned, Storage!None
    <2> QED BY <2>3, <2>5
  <1> HIDE DEF V
  <1>7. /\ returns' \in [1..MaxValues -> {0, 1}]
        /\ \A v \in 1..MaxValues : returns'[v] = 0 <=> returns[v] = 0 /\ v \notin V
    <2>1. \A v \in 1..MaxValues : returns[v] \in {0, 1} /\ (v \in V => returns[v] = 0)
      BY <1>5 DEF StorageTypes
    <2> QED BY <1>2, <2>1
  <1>8. StorageTypes'
    BY <1>1, <1>4, <1>7 DEF StorageTypes
  <1>9. IndicesHold'
    BY <1>1 DEF IndicesHold
  <1>10. GettersHold'
    BY <1>1, <1>4 DEF GettersHold
  <1>11. \A u \in Users : \A j, p, v : u # t /\ Keeps(u, j, p, v) => Keeps(u, j, p, v)'
    <2> SUFFICES ASSUME NEW u \in Users, NEW j, NEW p, NEW v, u # t, Keeps(u, j, p, v)
                 PROVE  Keeps(u, j, p, v)'
      OBVIOUS
    <2>1. v \in 1..made /\ owner_of[v] = <<p, u>> /\ returns[v] = 0 /\ slots[u][j].value = v
      BY DEF Keeps
    <2>2. owner_of[v][2] = u
      BY <2>1
    <2>3. v \notin V
      BY <1>5, <2>2
    <2>4. v \in 1..MaxValues
      BY <2>1 DEF StorageTypes
    <2> QED BY <1>1, <1>4, <1>7, <2>1, <2>3, <2>4 DEF Keeps
  <1>12. ValuesHold'
    <2>1. ASSUME NEW u \in Users, NEW j \in DOMAIN slots'[u], slots'[u][j].owner # 0
          PROVE  /\ slots'[u][j].owner \in alive' /\ my_index'[slots'[u][j].owner] = j
                 /\ Keeps(u, j, slots[u][j].owner, slots[u][j].value)'
      <3>1. u # t /\ slots'[u] = slots[u]
        BY <1>4
      <3>2. PICK p, v : p = slots[u][j].owner /\ v = slots[u][j].value
        OBVIOUS
      <3>3. p \in alive /\ my_index[p] = j /\ Keeps(u, j, p, v)
        BY <2>1, <3>1, <3>2 DEF ValuesHold
      <3>4. Keeps(u, j, p, v)'
        BY <1>11, <3>1, <3>3
      <3>5. slots'[u][j].owner = p /\ slots'[u][j].value = v
        BY <3>1, <3>2
      <3>6. p \in alive' /\ my_index'[p] = j
        BY <1>1, <3>3
      <3> QED BY <3>4, <3>5, <3>6
    <2>2. ASSUME NEW u \in Users, pc'[u] = "own", NEW j, j = my_index'[object'[u]]
          PROVE  slots'[u][j].owner = 0 /\ Keeps(u, j, object[u], slots[u][j].value)'
      <3>1. pc[u] = "own" /\ object'[u] = object[u] /\ j = my_index[object[u]] /\ u # t
        BY <1>1, <2>2
      <3>2. slots'[u] = slots[u]
        BY <1>4, <3>1
      <3>3. PICK p, v : p = object[u] /\ v = slots[u][j].value
        OBVIOUS
      <3>4. slots[u][j].owner = 0 /\ Keeps(u, j, p, v)
        BY <3>1, <3>3 DEF ValuesHold
      <3>5. Keeps(u, j, p, v)'
        BY <1>11, <3>1, <3>4
      <3> QED BY <3>1, <3>2, <3>3, <3>4, <3>5
    <2>3. \A v \in 1..MaxValues : v > made' => returns'[v] = 0
      <3>1. \A v \in V : v \in 1..made
        BY <1>5
      <3>2. made \in Nat
        BY DEF StorageTypes
      <3> QED BY <1>1, <1>7, <3>1, <3>2 DEF ValuesHold
    <2>4. ASSUME NEW v \in 1..made', returns'[v] = 0
          PROVE  \E p \in alive', u \in s_thread_locals' :
                /\ owner_of'[v] = <<p, u>>
                /\ my_index'[p] \in DOMAIN slots'[u] /\ slots'[u][my_index'[p]].value = v
                /\ \/ slots'[u][my_index'[p]].owner = p
                   \/ pc'[u] = "own" /\ object'[u] = p
      <3>1. v \in 1..made /\ v \in 1..MaxValues
        BY <1>1, <2>4 DEF StorageTypes
      <3>2. returns[v] = 0 /\ v \notin V
        BY <1>7, <2>4, <3>1
      <3>3. PICK p \in alive, u \in s_thread_locals :
                /\ owner_of[v] = <<p, u>>
                /\ my_index[p] \in DOMAIN slots[u] /\ slots[u][my_index[p]].value = v
                /\ slots[u][my_index[p]].owner = p \/ (pc[u] = "own" /\ object[u] = p)
        BY <3>1, <3>2 DEF ValuesHold
      <3>4. owner_of[v][2] = u /\ u \in Users
        BY <3>3 DEF StorageTypes
      <3>5. u # t
        BY <1>6, <3>1, <3>2, <3>4
      <3>6. slots'[u] = slots[u] /\ u \in s_thread_locals'
        BY <1>1, <1>4, <3>4, <3>5
      <3> QED BY <1>1, <3>3, <3>6
    <2> QED BY <2>1, <2>2, <2>3, <2>4 DEF ValuesHold
  <1> QED BY <1>8, <1>9, <1>10, <1>12

LEMMA StorageStep ==
    ASSUME StorageSizes, StorageInd, [Storage!Next]_Storage!vars
    PROVE  StorageInd'
  <1>1. CASE UNCHANGED Storage!vars
    <2>1. UNCHANGED <<s_id, s_available, s_owners, s_thread_locals, alive, my_index, slots, pc, object,
                      made, owner_of, returns>>
      BY <1>1 DEF Storage!vars, Storage!staticVars, Storage!objectVars, Storage!getVars, Storage!valueVars
    <2>2. StorageTypes'
      BY <2>1 DEF StorageInd, StorageTypes
    <2>3. IndicesHold'
      BY <2>1 DEF StorageInd, IndicesHold
    <2>4. GettersHold'
      BY <2>1 DEF StorageInd, GettersHold
    <2>5. ValuesHold'
      <3>1. \A t, i, o, v : Keeps(t, i, o, v)' <=> Keeps(t, i, o, v)
        BY <2>1 DEF Keeps
      <3>2. ValuesHold
        BY DEF StorageInd
      <3> QED BY <2>1, <3>1, <3>2 DEF ValuesHold
    <2> QED BY <2>2, <2>3, <2>4, <2>5 DEF StorageInd
  <1>2. ASSUME NEW t \in Users, Storage!GetStep(t) PROVE StorageInd'
    BY <1>2, GetSlotKeeps, GetDefaultKeeps, GetOwnKeeps DEF Storage!GetStep
  <1> QED BY <1>1, <1>2, ConstructKeeps, DestroyKeeps, ThreadExitKeeps DEF Storage!Next

\* The part of the composition that is about the storage.
LEMMA StoragePart ==
    /\ Init /\ part = "storage" => Storage!Init
    /\ [Next]_vars => part' = part /\ (part = "storage" => [Storage!Next]_Storage!vars)
  BY DEF Init, Next, Step, vars, storageGroup, Storage!vars, Storage!staticVars, Storage!objectVars,
         Storage!getVars, Storage!valueVars

\* Of ThreadLocalStorage, for any threads, objects and values: an index is not
\* given out twice, a value goes to the return function once, and before that
\* its object, its thread and its slot are there; get() returns a value that
\* was made for this object in this thread.  Alone, and as a part of
\* MCUtilities.
THEOREM StorageSafety ==
    ASSUME MaxObjects \in Nat, MaxValues \in Nat
    PROVE  (Storage!Spec => []Storage!StorageInv) /\ (Spec => []StorageInv)
  <1> USE DEF StorageSizes
  <1>1. Storage!Spec => []Storage!StorageInv
    BY StorageIndInit, StorageStep, StorageIndImplies, PTL DEF Storage!Spec
  <1>2. Spec => []StorageInv
    <2> DEFINE PartInv == part = "storage" => StorageInd
    <2>1. Init => PartInv
      BY StoragePart, StorageIndInit
    <2>2. PartInv /\ [Next]_vars => PartInv'
      BY StoragePart, StorageStep
    <2>3. PartInv => StorageInv
      BY StorageIndImplies DEF StorageInv
    <2> QED BY <2>1, <2>2, <2>3, PTL DEF Spec
  <1> QED BY <1>1, <1>2

-----------------------------------------------------------------------------
(* WaitingList *)

\* A worker is not a main fiber or dispatcher, nor a null pointer, nor the head
\* of a list.
FibersApart ==
    {"pinned", <<>>} \cap Workers = {} /\ \A s \in Strategies : <<s>> \notin Workers

\* The fibers in the sequences of all strategies, and that each is in one place.
InSome(q) == {f \in Workers : \E s \in Strategies : \E i \in DOMAIN q[s] : q[s][i] = f}
Distinct(q) ==
    \A s, t \in Strategies : \A i \in DOMAIN q[s], j \in DOMAIN q[t] :
        q[s][i] = q[t][j] => s = t /\ i = j

WaitingTypes ==
    /\ running \in [Strategies -> Workers \cup {"pinned"}]
    /\ queue \in [Strategies -> Seq(Workers)]
    /\ waits \in [Strategies -> Seq(Workers)]
    /\ woken \subseteq Workers /\ started \subseteq Workers
    /\ next \in [Waiting!Infos -> Workers \cup {<<>>}]
    /\ prev \in [Waiting!Infos -> Waiting!Infos \cup {<<>>}]
    /\ last \in [Strategies -> Waiting!Infos]

\* Who runs, is ready or waits: every fiber is in one place at most, and only
\* those that were started are in any.
Apart(run, ready, waiting, begun) ==
    /\ \A s, t \in Strategies : run[s] = run[t] /\ run[s] \in Workers => s = t
    /\ \A s \in Strategies : run[s] \notin ready /\ run[s] \notin waiting
    /\ \A s \in Strategies : run[s] \in Workers => run[s] \in begun
    /\ ready \cap waiting = {} /\ ready \subseteq begun /\ waiting \subseteq begun

PlacesHold ==
    /\ Distinct(queue) /\ Distinct(waits)
    /\ Apart(running, InSome(queue), InSome(waits), started)

\* The list of s: its head, and those that wait.
Node(s, k) == IF k = 0 THEN <<s>> ELSE waits[s][k]

LinksHold ==
    /\ \A s \in Strategies : \A k \in 1..Len(waits[s]) :
            next[Node(s, k - 1)] = Node(s, k) /\ prev[Node(s, k)] = Node(s, k - 1)
    /\ \A s \in Strategies : last[s] = Node(s, Len(waits[s])) /\ next[last[s]] = <<>>
    /\ \A f \in Workers : f \notin InSome(waits) => next[f] = <<>> /\ prev[f] = <<>>

WaitingInd == WaitingTypes /\ PlacesHold /\ LinksHold

LEMMA WaitingIndImplies == ASSUME FibersApart PROVE WaitingInd => Waiting!WaitingInv
  <1> SUFFICES ASSUME WaitingInd PROVE Waiting!WaitingInv
    OBVIOUS
  <1> USE DEF WaitingInd
  <1>1. Waiting!TypeOK
    BY DEF WaitingTypes, Waiting!TypeOK, Absent
  <1>2. Waiting!ListsTheWaiting
    <2> SUFFICES ASSUME NEW s \in Strategies
                 PROVE  LET list == <<Waiting!ListHead(s)>> \o waits[s] IN
                        /\ \A i \in 1..Len(waits[s]) : next[list[i]] = list[i + 1] /\ prev[list[i + 1]] = list[i]
                        /\ last[s] = list[Len(list)]
                        /\ next[last[s]] = <<>>
      BY DEF Waiting!ListsTheWaiting, Absent
    <2> DEFINE list == <<Waiting!ListHead(s)>> \o waits[s]
    <2>1. waits[s] \in Seq(Workers) /\ Len(waits[s]) \in Nat
      BY DEF WaitingTypes
    <2>2. Len(list) = Len(waits[s]) + 1 /\ \A k \in 0..Len(waits[s]) : list[k + 1] = Node(s, k)
      BY <2>1 DEF Node, Waiting!ListHead
    <2> HIDE DEF list
    <2>3. \A i \in 1..Len(waits[s]) : next[list[i]] = list[i + 1] /\ prev[list[i + 1]] = list[i]
      <3> SUFFICES ASSUME NEW i \in 1..Len(waits[s])
                   PROVE  next[list[i]] = list[i + 1] /\ prev[list[i + 1]] = list[i]
        OBVIOUS
      <3>1. list[i + 1] = Node(s, i)
        BY <2>1, <2>2
      <3>2. i - 1 \in 0..Len(waits[s]) /\ (i - 1) + 1 = i
        BY <2>1
      <3>3. list[i] = Node(s, i - 1)
        BY <2>2, <3>2
      <3> QED BY <3>1, <3>3 DEF LinksHold
    <2>4. last[s] = list[Len(list)] /\ next[last[s]] = <<>>
      <3>1. Len(waits[s]) \in 0..Len(waits[s])
        BY <2>1
      <3> QED BY <2>2, <3>1 DEF LinksHold
    <2> QED BY <2>3, <2>4 DEF list
  <1>3. Waiting!OthersAreNotLinked
    <2> SUFFICES ASSUME NEW f \in Workers, \A s \in Strategies : f \notin Waiting!Waiters(s)
                 PROVE  next[f] = <<>> /\ prev[f] = <<>>
      BY DEF Waiting!OthersAreNotLinked, Absent
    <2>1. f \notin InSome(waits)
      BY DEF InSome, Waiting!Waiters, WaitingTypes
    <2> QED BY <2>1 DEF LinksHold
  <1> QED BY <1>1, <1>2, <1>3 DEF Waiting!WaitingInv

LEMMA WaitingIndInit == ASSUME FibersApart PROVE Waiting!Init => WaitingInd
  <1> SUFFICES ASSUME Waiting!Init PROVE WaitingInd
    OBVIOUS
  <1> USE DEF Waiting!Init, Absent, FibersApart
  <1>1. WaitingTypes
    BY DEF WaitingTypes, Waiting!Infos, Waiting!ListHead
  <1>2. InSome(queue) = {} /\ InSome(waits) = {} /\ Distinct(queue) /\ Distinct(waits)
    BY DEF InSome, Distinct
  <1>3. PlacesHold
    BY <1>2 DEF PlacesHold, Apart
  <1>4. \A s \in Strategies : Len(waits[s]) = 0 /\ <<s>> \in Waiting!Infos
    BY DEF Waiting!Infos, Waiting!ListHead
  <1>5. LinksHold
    BY <1>4 DEF LinksHold, Node, Waiting!Infos, Waiting!ListHead
  <1> QED BY <1>1, <1>3, <1>5 DEF WaitingInd

-----------------------------------------------------------------------------
\* What is left of a sequence without its first (a thief takes it,)
LEMMA FirstGone ==
    ASSUME NEW q \in Seq(Workers), q # <<>>
    PROVE  /\ Len(q) \in Nat \ {0} /\ Tail(q) \in Seq(Workers) /\ Len(Tail(q)) = Len(q) - 1
           /\ \A k \in 1..(Len(q) - 1) : Tail(q)[k] = q[k + 1]
  BY HeadTailProperties, EmptySeq, LenProperties

\* without its last (pick_next() takes it,)
LEMMA LastGone ==
    ASSUME NEW q \in Seq(Workers), q # <<>>
    PROVE  LET left == SubSeq(q, 1, Len(q) - 1)
           IN  /\ Len(q) \in Nat \ {0} /\ left \in Seq(Workers) /\ Len(left) = Len(q) - 1
               /\ \A k \in 1..(Len(q) - 1) : left[k] = q[k]
  <1>1. Len(q) \in Nat \ {0} /\ \A k \in 1..Len(q) : q[k] \in Workers
    BY EmptySeq, LenProperties
  <1>2. PICK m \in Nat : m = Len(q) - 1 /\ \A k \in 1..m : q[k] \in Workers
    BY <1>1
  <1>3. /\ SubSeq(q, 1, m) \in Seq(Workers) /\ Len(SubSeq(q, 1, m)) = IF 1 <= m THEN m - 1 + 1 ELSE 0
        /\ \A k \in 1..(m - 1 + 1) : SubSeq(q, 1, m)[k] = q[1 + k - 1]
    BY <1>2, SubSeqProperties
  <1>4. m - 1 + 1 = m /\ \A k \in 1..m : 1 + k - 1 = k
    BY <1>2
  <1> QED BY <1>1, <1>2, <1>3, <1>4

\* or without its i-th (awakened() takes it.)
LEMMA OneGone ==
    ASSUME NEW q \in Seq(Workers), NEW i \in DOMAIN q
    PROVE  /\ Len(q) \in Nat \ {0} /\ Waiting!RemoveAt(q, i) \in Seq(Workers) /\ Len(Waiting!RemoveAt(q, i)) = Len(q) - 1
           /\ \A k \in 1..(Len(q) - 1) : Waiting!RemoveAt(q, i)[k] = IF k < i THEN q[k] ELSE q[k + 1]
  <1>1. PICK n \in Nat \ {0} : n = Len(q) /\ i \in 1..n /\ \A k \in 1..n : q[k] \in Workers
    BY LenProperties
  <1>2. PICK m \in Nat : m = i - 1
    BY <1>1
  <1>3. PICK a \in Seq(Workers) : a = SubSeq(q, 1, m) /\ Len(a) = m /\ \A k \in 1..m : a[k] = q[k]
    <2>1. \A k \in 1..m : q[k] \in Workers
      BY <1>1, <1>2
    <2>2. PICK a : a = SubSeq(q, 1, m)
      OBVIOUS
    <2>3. /\ a \in Seq(Workers) /\ Len(a) = IF 1 <= m THEN m - 1 + 1 ELSE 0
          /\ \A k \in 1..(m - 1 + 1) : a[k] = q[1 + k - 1]
      BY <2>1, <2>2, SubSeqProperties
    <2>4. (IF 1 <= m THEN m - 1 + 1 ELSE 0) = m /\ m - 1 + 1 = m
      OBVIOUS
    <2>5. \A k \in 1..m : a[k] = q[k]
      BY <2>3, <2>4
    <2> QED BY <2>2, <2>3, <2>4, <2>5
  <1>4. PICK b \in Seq(Workers) : b = SubSeq(q, i + 1, n) /\ Len(b) = n - i /\ \A k \in 1..(n - i) : b[k] = q[i + k]
    <2>1. \A k \in (i + 1)..n : q[k] \in Workers
      BY <1>1
    <2>2. PICK b : b = SubSeq(q, i + 1, n)
      OBVIOUS
    <2>3. /\ b \in Seq(Workers) /\ Len(b) = IF i + 1 <= n THEN n - (i + 1) + 1 ELSE 0
          /\ \A k \in 1..(n - (i + 1) + 1) : b[k] = q[(i + 1) + k - 1]
      BY <1>1, <2>1, <2>2, SubSeqProperties
    <2>4. (IF i + 1 <= n THEN n - (i + 1) + 1 ELSE 0) = n - i /\ n - (i + 1) + 1 = n - i
      BY <1>1
    <2>5. \A k \in 1..(n - i) : b[k] = q[i + k]
      <3> SUFFICES ASSUME NEW k \in 1..(n - i) PROVE b[k] = q[i + k]
        OBVIOUS
      <3>1. k \in 1..(n - (i + 1) + 1) /\ (i + 1) + k - 1 = i + k
        BY <1>1, <2>4
      <3> QED BY <2>3, <3>1
    <2> QED BY <2>2, <2>3, <2>4, <2>5
  <1>5. Waiting!RemoveAt(q, i) = a \o b
    BY <1>1, <1>2, <1>3, <1>4 DEF Waiting!RemoveAt
  <1>6. /\ a \o b \in Seq(Workers) /\ Len(a \o b) = n - 1
        /\ \A k \in 1..(n - 1) : (a \o b)[k] = IF k <= m THEN a[k] ELSE b[k - m]
    <2>1. Len(a) = m /\ Len(b) = n - i
      BY <1>3, <1>4
    <2>0. m + (n - i) = n - 1
      <3>1. n \in Int /\ i \in Int /\ m = i - 1
        BY <1>1, <1>2
      <3> QED BY <3>1
    <2>2. PICK c : c = a \o b
      OBVIOUS
    <2>3. /\ c \in Seq(Workers) /\ Len(c) = Len(a) + Len(b)
          /\ \A k \in 1..(Len(a) + Len(b)) : c[k] = IF k <= Len(a) THEN a[k] ELSE b[k - Len(a)]
      BY <2>2, ConcatProperties
    <2> HIDE <1>1, <1>2, <1>3, <1>4
    <2> QED BY <2>0, <2>1, <2>2, <2>3
  <1>7. ASSUME NEW k \in 1..(n - 1)
        PROVE  (a \o b)[k] = IF k < i THEN q[k] ELSE q[k + 1]
    <2>1. CASE k < i
      <3>1. k <= m /\ k \in 1..m
        BY <1>1, <1>2, <2>1
      <3> QED BY <1>3, <1>6, <2>1, <3>1
    <2>2. CASE ~(k < i)
      <3>1. ~(k <= m) /\ k - m \in 1..(n - i) /\ i + (k - m) = k + 1
        BY <1>1, <1>2, <2>2
      <3>2. (a \o b)[k] = b[k - m] /\ b[k - m] = q[i + (k - m)]
        BY <1>4, <1>6, <3>1
      <3> QED BY <2>2, <3>1, <3>2
    <2> QED BY <2>1, <2>2
  <1> QED BY <1>1, <1>5, <1>6, <1>7

\* A fiber that is nowhere goes to the end of one sequence,
LEMMA FiberAppended ==
    ASSUME NEW q \in [Strategies -> Seq(Workers)], Distinct(q), NEW s \in Strategies,
           NEW f \in Workers, f \notin InSome(q)
    PROVE  LET r == [q EXCEPT ![s] = Append(q[s], f)]
           IN  r \in [Strategies -> Seq(Workers)] /\ Distinct(r) /\ InSome(r) = InSome(q) \cup {f}
  <1> DEFINE r == [q EXCEPT ![s] = Append(q[s], f)]
  <1>1. PICK n \in Nat : n = Len(q[s])
    OBVIOUS
  <1>2. \A u \in Strategies : DOMAIN q[u] = 1..Len(q[u]) /\ Len(q[u]) \in Nat
    OBVIOUS
  <1>3. /\ r \in [Strategies -> Seq(Workers)]
        /\ \A u \in Strategies : u # s => r[u] = q[u]
        /\ DOMAIN r[s] = 1..(n + 1) /\ r[s][n + 1] = f
        /\ \A k \in 1..n : r[s][k] = q[s][k]
    BY <1>1
  <1> HIDE DEF r
  <1>4. \A u \in Strategies : \A i \in DOMAIN r[u] :
            \/ i \in DOMAIN q[u] /\ r[u][i] = q[u][i] /\ r[u][i] # f /\ r[u][i] \in Workers
            \/ u = s /\ i = n + 1 /\ r[u][i] = f
    <2> SUFFICES ASSUME NEW u \in Strategies, NEW i \in DOMAIN r[u]
                 PROVE  \/ i \in DOMAIN q[u] /\ r[u][i] = q[u][i] /\ r[u][i] # f /\ r[u][i] \in Workers
                        \/ u = s /\ i = n + 1 /\ r[u][i] = f
      OBVIOUS
    <2>1. \A k \in DOMAIN q[u] : q[u][k] \in Workers /\ q[u][k] # f
      BY DEF InSome
    <2>2. CASE u # s
      BY <1>3, <2>1, <2>2
    <2>3. CASE u = s
      BY <1>1, <1>2, <1>3, <2>1, <2>3
    <2> QED BY <2>2, <2>3
  <1>5. Distinct(r)
    <2> SUFFICES ASSUME NEW u \in Strategies, NEW w \in Strategies, NEW i \in DOMAIN r[u],
                        NEW j \in DOMAIN r[w], r[u][i] = r[w][j]
                 PROVE  u = w /\ i = j
      BY DEF Distinct
    <2>1. CASE r[u][i] = f
      BY <1>4, <2>1
    <2>2. CASE r[u][i] # f
      <3>1. i \in DOMAIN q[u] /\ j \in DOMAIN q[w] /\ q[u][i] = q[w][j]
        BY <1>4, <2>2
      <3> QED BY <3>1 DEF Distinct
    <2> QED BY <2>1, <2>2
  <1>6. \A u \in Strategies : \A i \in DOMAIN q[u] : i \in DOMAIN r[u] /\ r[u][i] = q[u][i]
    BY <1>1, <1>2, <1>3
  <1>7. InSome(r) \subseteq InSome(q) \cup {f}
    BY <1>4 DEF InSome
  <1>8. f \in InSome(r)
    BY <1>1, <1>3 DEF InSome
  <1>9. InSome(q) \subseteq InSome(r)
    BY <1>6 DEF InSome
  <1> QED BY <1>3, <1>5, <1>7, <1>8, <1>9 DEF r

\* the i-th of a sequence leaves it,
LEMMA FiberRemoved ==
    ASSUME NEW q \in [Strategies -> Seq(Workers)], Distinct(q), NEW s \in Strategies,
           NEW i \in DOMAIN q[s],
           NEW r \in [Strategies -> Seq(Workers)], \A u \in Strategies : u # s => r[u] = q[u],
           Len(r[s]) = Len(q[s]) - 1,
           \A k \in 1..(Len(q[s]) - 1) : r[s][k] = IF k < i THEN q[s][k] ELSE q[s][k + 1]
    PROVE  /\ Distinct(r) /\ InSome(r) = InSome(q) \ {q[s][i]}
           /\ q[s][i] \in InSome(q)
  <1>1. PICK n \in Nat : n = Len(q[s])
    OBVIOUS
  <1>2. \A u \in Strategies : DOMAIN q[u] = 1..Len(q[u]) /\ Len(q[u]) \in Nat /\ DOMAIN r[u] = 1..Len(r[u])
    OBVIOUS
  <1>3. i \in 1..n /\ DOMAIN r[s] = 1..(n - 1) /\ DOMAIN q[s] = 1..n
    BY <1>1, <1>2
  <1> DEFINE Old(u, k) == IF u = s /\ k >= i THEN k + 1 ELSE k
  <1>4. \A u \in Strategies : \A k \in DOMAIN r[u] :
            /\ k \in Nat /\ Old(u, k) \in DOMAIN q[u] /\ r[u][k] = q[u][Old(u, k)]
            /\ ~(u = s /\ Old(u, k) = i)
    BY <1>1, <1>2, <1>3
  <1>5. Distinct(r)
    <2> SUFFICES ASSUME NEW u \in Strategies, NEW w \in Strategies, NEW k \in DOMAIN r[u],
                        NEW j \in DOMAIN r[w], r[u][k] = r[w][j]
                 PROVE  u = w /\ k = j
      BY DEF Distinct
    <2>1. /\ k \in Nat /\ j \in Nat /\ Old(u, k) \in DOMAIN q[u] /\ Old(w, j) \in DOMAIN q[w]
          /\ q[u][Old(u, k)] = q[w][Old(w, j)]
      BY <1>4
    <2>2. u = w /\ Old(u, k) = Old(w, j)
      <3> HIDE DEF Old
      <3> QED BY <2>1 DEF Distinct
    <2> QED BY <1>3, <2>1, <2>2
  <1>6. \A u \in Strategies : \A j \in DOMAIN q[u] : u # s \/ j # i =>
            \E k \in DOMAIN r[u] : r[u][k] = q[u][j]
    <2> SUFFICES ASSUME NEW u \in Strategies, NEW j \in DOMAIN q[u], u # s \/ j # i
                 PROVE  \E k \in DOMAIN r[u] : r[u][k] = q[u][j]
      OBVIOUS
    <2>1. CASE u # s
      BY <2>1
    <2>2. CASE u = s /\ j < i
      <3>1. j \in 1..(n - 1) /\ j < i
        BY <1>3, <2>2
      <3>2. r[u][j] = q[u][j]
        BY <1>1, <2>2, <3>1
      <3> QED BY <1>3, <2>2, <3>1, <3>2
    <2>3. CASE u = s /\ j > i
      <3>1. j - 1 \in 1..(n - 1) /\ ~(j - 1 < i) /\ (j - 1) + 1 = j
        BY <1>3, <2>3
      <3>2. r[u][j - 1] = q[u][j]
        BY <1>1, <2>3, <3>1
      <3> QED BY <1>3, <2>3, <3>1, <3>2
    <2> QED BY <1>3, <2>1, <2>2, <2>3
  <1>7. InSome(r) \subseteq InSome(q) \ {q[s][i]}
    <2> SUFFICES ASSUME NEW u \in Strategies, NEW k \in DOMAIN r[u], r[u][k] \in Workers
                 PROVE  r[u][k] \in InSome(q) \ {q[s][i]}
      BY DEF InSome
    <2>1. Old(u, k) \in DOMAIN q[u] /\ r[u][k] = q[u][Old(u, k)] /\ ~(u = s /\ Old(u, k) = i)
      BY <1>4
    <2> HIDE DEF Old
    <2>2. q[u][Old(u, k)] # q[s][i]
      BY <2>1 DEF Distinct
    <2> QED BY <2>1, <2>2 DEF InSome
  <1>8. InSome(q) \ {q[s][i]} \subseteq InSome(r)
    <2> SUFFICES ASSUME NEW u \in Strategies, NEW j \in DOMAIN q[u], q[u][j] \in Workers, q[u][j] # q[s][i]
                 PROVE  q[u][j] \in InSome(r)
      BY DEF InSome
    <2>1. PICK k \in DOMAIN r[u] : r[u][k] = q[u][j]
      BY <1>6
    <2> QED BY <2>1 DEF InSome
  <1>9. q[s][i] \in InSome(q)
    BY DEF InSome
  <1> QED BY <1>5, <1>7, <1>8, <1>9

\* or it is replaced by one that is nowhere.
Replaced(q, r, s, i, f) ==
    /\ i \in DOMAIN q[s] /\ \A u \in Strategies : u # s => r[u] = q[u]
    /\ DOMAIN r[s] = DOMAIN q[s] /\ r[s][i] = f
    /\ \A k \in DOMAIN q[s] : k # i => r[s][k] = q[s][k]

LEMMA FiberReplaced ==
    ASSUME NEW q \in [Strategies -> Seq(Workers)], Distinct(q), NEW s \in Strategies,
           NEW r \in [Strategies -> Seq(Workers)], NEW i, NEW f \in Workers, f \notin InSome(q),
           Replaced(q, r, s, i, f)
    PROVE  /\ Distinct(r) /\ InSome(r) = (InSome(q) \ {q[s][i]}) \cup {f}
           /\ q[s][i] \in InSome(q)
  <1> USE DEF Replaced
  <1>3. \A u \in Strategies : /\ DOMAIN r[u] = DOMAIN q[u]
                              /\ \A k \in DOMAIN q[u] : \/ r[u][k] = q[u][k] /\ r[u][k] # f /\ (u # s \/ k # i)
                                                        \/ r[u][k] = f /\ u = s /\ k = i
    BY DEF InSome
  <1>4. Distinct(r)
    <2> SUFFICES ASSUME NEW u \in Strategies, NEW w \in Strategies, NEW k \in DOMAIN r[u],
                        NEW j \in DOMAIN r[w], r[u][k] = r[w][j]
                 PROVE  u = w /\ k = j
      BY DEF Distinct
    <2>1. k \in DOMAIN q[u] /\ j \in DOMAIN q[w]
      BY <1>3
    <2>2. CASE r[u][k] = f
      BY <1>3, <2>1, <2>2
    <2>3. CASE r[u][k] # f
      <3>1. r[u][k] = q[u][k] /\ r[w][j] = q[w][j]
        BY <1>3, <2>1, <2>3
      <3>2. q[u][k] = q[w][j]
        BY <3>1
      <3> QED BY <2>1, <3>2 DEF Distinct
    <2> QED BY <2>2, <2>3
  <1>5. InSome(r) = (InSome(q) \ {q[s][i]}) \cup {f} /\ q[s][i] \in InSome(q)
    <2>1. \A u \in Strategies : \A k \in DOMAIN q[u] : (u # s \/ k # i) => q[u][k] # q[s][i]
      BY DEF Distinct
    <2>2. \A u \in Strategies : \A k \in DOMAIN q[u] : q[u][k] \in Workers
      OBVIOUS
    <2> QED BY <1>3, <2>1, <2>2 DEF InSome
  <1> QED BY <1>4, <1>5

-----------------------------------------------------------------------------
\* The nodes of all lists are different.
LEMMA NodesApart ==
    ASSUME FibersApart, WaitingTypes, Distinct(waits)
    PROVE  /\ \A s \in Strategies : \A k \in 0..Len(waits[s]) :
                /\ Node(s, k) \in Waiting!Infos
                /\ k # 0 => Node(s, k) \in InSome(waits) /\ Node(s, k) \in Workers
           /\ \A s, t \in Strategies : \A k \in 0..Len(waits[s]), j \in 0..Len(waits[t]) :
                Node(s, k) = Node(t, j) => s = t /\ k = j
           /\ <<>> \notin Waiting!Infos
  <1>1. \A s \in Strategies : DOMAIN waits[s] = 1..Len(waits[s]) /\ Len(waits[s]) \in Nat
    BY DEF WaitingTypes
  <1>2. \A s \in Strategies : \A k \in DOMAIN waits[s] : waits[s][k] \in Workers
    BY DEF WaitingTypes
  <1>3. \A s, t \in Strategies : <<s>> = <<t>> => s = t
    OBVIOUS
  <1>4. \A s \in Strategies : <<s>> # <<>>
    OBVIOUS
  <1>5. Waiting!Infos = Workers \cup {<<s>> : s \in Strategies}
    BY DEF Waiting!Infos, Waiting!ListHead
  <1>6. <<>> \notin Waiting!Infos
    BY <1>4, <1>5 DEF FibersApart
  <1>7. ASSUME NEW s \in Strategies, NEW k \in 0..Len(waits[s])
        PROVE  /\ Node(s, k) \in Waiting!Infos
               /\ k # 0 => Node(s, k) \in InSome(waits) /\ Node(s, k) \in Workers
               /\ k = 0 => Node(s, k) \notin Workers
    <2>1. CASE k = 0
      BY <1>5, <2>1 DEF Node, FibersApart
    <2>2. CASE k # 0
      <3>1. k \in DOMAIN waits[s]
        BY <1>1, <2>2
      <3> QED BY <1>2, <1>5, <2>2, <3>1 DEF Node, InSome
    <2> QED BY <2>1, <2>2
  <1>8. ASSUME NEW s \in Strategies, NEW t \in Strategies, NEW k \in 0..Len(waits[s]),
               NEW j \in 0..Len(waits[t]), Node(s, k) = Node(t, j)
        PROVE  s = t /\ k = j
    <2>1. CASE k = 0 \/ j = 0
      <3>1. k = 0 /\ j = 0
        BY <1>7, <1>8, <2>1
      <3> QED BY <1>3, <1>8, <3>1 DEF Node
    <2>2. CASE k # 0 /\ j # 0
      <3>1. k \in DOMAIN waits[s] /\ j \in DOMAIN waits[t]
        BY <1>1, <2>2
      <3> QED BY <1>8, <2>2, <3>1 DEF Node, Distinct
    <2> QED BY <2>1, <2>2
  <1> QED BY <1>6, <1>7, <1>8

\* _recordBacktrace() of a fiber that is not linked.
LEMMA RecordKeeps ==
    ASSUME FibersApart, WaitingTypes, Distinct(waits), LinksHold, NEW s \in Strategies,
           NEW f \in Workers, f \notin InSome(waits),
           waits' = [waits EXCEPT ![s] = Append(waits[s], f)],
           next' = [next EXCEPT ![last[s]] = f], prev' = [prev EXCEPT ![f] = last[s]],
           last' = [last EXCEPT ![s] = f]
    PROVE  /\ LinksHold'
           /\ next' \in [Waiting!Infos -> Workers \cup {<<>>}]
           /\ prev' \in [Waiting!Infos -> Waiting!Infos \cup {<<>>}]
           /\ last' \in [Strategies -> Waiting!Infos]
  <1>1. PICK n \in Nat : n = Len(waits[s])
    BY DEF WaitingTypes
  <1>2. f \in Waiting!Infos /\ last[s] \in Waiting!Infos /\ last[s] # f
    <2>1. last[s] = Node(s, n) /\ n \in 0..Len(waits[s])
      BY <1>1 DEF LinksHold
    <2>2. f \in Waiting!Infos
      BY DEF Waiting!Infos
    <2>3. CASE n = 0
      BY <2>1, <2>2, <2>3, NodesApart DEF Node, FibersApart
    <2>4. CASE n # 0
      BY <2>1, <2>2, <2>4, NodesApart
    <2> QED BY <2>3, <2>4
  <1>3. /\ next' \in [Waiting!Infos -> Workers \cup {<<>>}]
        /\ prev' \in [Waiting!Infos -> Waiting!Infos \cup {<<>>}]
        /\ last' \in [Strategies -> Waiting!Infos]
    BY <1>2 DEF WaitingTypes
  <1>4. /\ next'[last[s]] = f /\ \A x \in Waiting!Infos : x # last[s] => next'[x] = next[x]
        /\ prev'[f] = last[s] /\ \A x \in Waiting!Infos : x # f => prev'[x] = prev[x]
        /\ last'[s] = f /\ \A u \in Strategies : u # s => last'[u] = last[u]
    BY <1>2 DEF WaitingTypes
  <1>5. /\ waits' \in [Strategies -> Seq(Workers)] /\ InSome(waits') = InSome(waits) \cup {f}
    BY FiberAppended DEF WaitingTypes
  <1>6. /\ Len(waits'[s]) = n + 1 /\ \A u \in Strategies : u # s => waits'[u] = waits[u]
        /\ \A u \in Strategies : Len(waits[u]) \in Nat
        /\ waits'[s][n + 1] = f /\ \A k \in 1..n : waits'[s][k] = waits[s][k]
    BY <1>1 DEF WaitingTypes
  <1>7. /\ \A u \in Strategies : \A k \in 0..Len(waits[u]) : Node(u, k)' = Node(u, k)
        /\ Node(s, n + 1)' = f
    BY <1>1, <1>6 DEF Node
  <1>8. /\ \A u \in Strategies : \A k \in 0..Len(waits[u]) : Node(u, k) \in Waiting!Infos /\ Node(u, k) # f
        /\ \A u \in Strategies : \A k \in 0..Len(waits[u]) : u # s \/ k # n => Node(u, k) # last[s]
    <2>1. last[s] = Node(s, n) /\ n \in 0..Len(waits[s])
      BY <1>1 DEF LinksHold
    <2>2. \A u \in Strategies : Node(u, 0) # f
      BY DEF Node, FibersApart
    <2>3. \A u \in Strategies : \A k \in 0..Len(waits[u]) : Node(u, k) # f
      BY <2>2, NodesApart
    <2> QED BY <2>1, <2>3, NodesApart
  <1>9. ASSUME NEW u \in Strategies, NEW k \in 1..Len(waits'[u])
        PROVE  (next[Node(u, k - 1)] = Node(u, k) /\ prev[Node(u, k)] = Node(u, k - 1))'
    <2>1. CASE u = s /\ k = n + 1
      <3>1. (k - 1) = n /\ n \in 0..Len(waits[s]) /\ Node(s, n) = last[s]
        BY <1>1, <2>1 DEF LinksHold
      <3>2. Node(u, k - 1)' = last[s] /\ Node(u, k)' = f
        BY <1>7, <2>1, <3>1
      <3> QED BY <1>4, <3>2
    <2>2. CASE ~(u = s /\ k = n + 1)
      <3>1. /\ k \in 1..Len(waits[u]) /\ k \in 0..Len(waits[u]) /\ k - 1 \in 0..Len(waits[u])
            /\ u # s \/ k - 1 # n
        BY <1>1, <1>6, <2>2
      <3>2. Node(u, k - 1)' = Node(u, k - 1) /\ Node(u, k)' = Node(u, k)
        BY <1>7, <3>1
      <3>3. next'[Node(u, k - 1)] = next[Node(u, k - 1)] /\ prev'[Node(u, k)] = prev[Node(u, k)]
        BY <1>4, <1>8, <3>1
      <3> QED BY <3>1, <3>2, <3>3 DEF LinksHold
    <2> QED BY <2>1, <2>2
  <1>10. ASSUME NEW u \in Strategies
         PROVE  (last[u] = Node(u, Len(waits[u])) /\ next[last[u]] = <<>>)'
    <2>1. CASE u = s
      <3>1. next[f] = <<>>
        BY DEF LinksHold
      <3> QED BY <1>2, <1>4, <1>6, <1>7, <2>1, <3>1
    <2>2. CASE u # s
      <3>1. Len(waits[u]) \in 0..Len(waits[u]) /\ last[u] = Node(u, Len(waits[u])) /\ next[last[u]] = <<>>
        BY <1>6 DEF LinksHold
      <3> QED BY <1>4, <1>6, <1>7, <1>8, <2>2, <3>1
    <2> QED BY <2>1, <2>2
  <1>11. ASSUME NEW g \in Workers, g \notin InSome(waits')
         PROVE  next'[g] = <<>> /\ prev'[g] = <<>>
    <2>1. g # f /\ g \notin InSome(waits) /\ g \in Waiting!Infos
      BY <1>5, <1>11 DEF Waiting!Infos
    <2>2. last[s] = Node(s, n) /\ n \in 0..Len(waits[s])
      BY <1>1 DEF LinksHold
    <2>3. g # last[s]
      <3>1. CASE n = 0
        BY <2>2, <3>1 DEF Node, FibersApart
      <3>2. CASE n # 0
        BY <2>1, <2>2, <3>2, NodesApart
      <3> QED BY <3>1, <3>2
    <2> QED BY <1>4, <2>1, <2>3 DEF LinksHold
  <1> QED BY <1>3, <1>9, <1>10, <1>11 DEF LinksHold

\* _eraseBacktrace() of f, which is the i-th that waits for s: its neighbours
\* become neighbours.
TakenOut(s, i, f) ==
    /\ f = waits[s][i]
    /\ waits' \in [Strategies -> Seq(Workers)] /\ \A u \in Strategies : u # s => waits'[u] = waits[u]
    /\ InSome(waits') = InSome(waits) \ {f} /\ Len(waits'[s]) = Len(waits[s]) - 1
    /\ \A k \in 1..(Len(waits[s]) - 1) : waits'[s][k] = IF k < i THEN waits[s][k] ELSE waits[s][k + 1]
    /\ \A x \in Waiting!Infos :
            /\ next'[x] = IF x = f THEN <<>> ELSE IF x = prev[f] THEN next[f] ELSE next[x]
            /\ prev'[x] = IF x = f THEN <<>> ELSE IF x = next[f] THEN prev[f] ELSE prev[x]
    /\ \A u \in Strategies : u # s => last'[u] = last[u]
    /\ last'[s] = IF next[f] = <<>> THEN prev[f] ELSE last[s]

LEMMA EraseKeeps ==
    ASSUME FibersApart, WaitingTypes, Distinct(waits), LinksHold, NEW s \in Strategies,
           NEW i \in 1..Len(waits[s]), NEW f, TakenOut(s, i, f)
    PROVE  LinksHold'
  <1> USE DEF TakenOut
  <1>1. PICK n \in Nat : n = Len(waits[s])
    BY DEF WaitingTypes
  <1>2. PICK p : p = Node(s, i - 1)
    OBVIOUS
  <1>3. /\ f = Node(s, i) /\ f \in Workers /\ f \in Waiting!Infos /\ p \in Waiting!Infos /\ prev[f] = p
        /\ i \in 1..n /\ i - 1 \in 0..n /\ i \in 0..n /\ p # f
    <2>1. i \in 1..n /\ i - 1 \in 0..n /\ i \in 0..n /\ i # 0 /\ i - 1 # i
      BY <1>1
    <2>2. f = Node(s, i)
      BY <2>1 DEF Node
    <2>3. prev[f] = p
      BY <1>2, <2>2 DEF LinksHold
    <2>4. f \in Workers /\ f \in Waiting!Infos /\ p \in Waiting!Infos /\ p # f
      BY <1>1, <1>2, <2>1, <2>2, NodesApart
    <2> QED BY <2>1, <2>2, <2>3, <2>4
  <1>4. \/ i = n /\ next[f] = <<>>
        \/ i < n /\ i + 1 \in 1..n /\ i + 1 \in 0..n /\ next[f] = Node(s, i + 1)
    <2>1. CASE i = n
      BY <1>1, <1>3, <2>1 DEF LinksHold
    <2>2. CASE i < n
      <3>1. i + 1 \in 1..n /\ i + 1 \in 0..n /\ (i + 1) - 1 = i
        BY <1>3, <2>2
      <3> QED BY <1>1, <1>3, <2>2, <3>1 DEF LinksHold
    <2> QED BY <1>3, <2>1, <2>2
  <1>5. PICK nx : nx = next[f] /\ nx \in Workers \cup {<<>>}
    BY <1>3 DEF WaitingTypes
  <1>6. /\ next'[f] = <<>> /\ next'[p] = nx
        /\ \A x \in Waiting!Infos : x # f /\ x # p => next'[x] = next[x]
    BY <1>3, <1>5
  <1>7. /\ prev'[f] = <<>> /\ (nx \in Waiting!Infos /\ nx # f => prev'[nx] = p)
        /\ \A x \in Waiting!Infos : x # f /\ x # nx => prev'[x] = prev[x]
    BY <1>3, <1>5
  <1>8. /\ \A u \in Strategies : u # s => last'[u] = last[u]
        /\ last'[s] = IF nx = <<>> THEN p ELSE last[s]
    BY <1>3, <1>5
  <1>9. /\ \A u \in Strategies : u # s => \A k \in 0..Len(waits[u]) : Node(u, k)' = Node(u, k)
        /\ \A k \in 0..(n - 1) : Node(s, k)' = IF k < i THEN Node(s, k) ELSE Node(s, k + 1)
        /\ Len(waits'[s]) = n - 1 /\ \A u \in Strategies : Len(waits[u]) \in Nat
    <2>1. \A u \in Strategies : u # s => \A k \in 0..Len(waits[u]) : Node(u, k)' = Node(u, k)
      BY DEF Node
    <2>2. ASSUME NEW k \in 0..(n - 1) PROVE Node(s, k)' = IF k < i THEN Node(s, k) ELSE Node(s, k + 1)
      <3>1. CASE k = 0
        BY <1>3, <3>1 DEF Node
      <3>2. CASE k # 0
        <4>1. k \in 1..(n - 1) /\ k + 1 # 0
          BY <3>2
        <4>2. waits'[s][k] = IF k < i THEN waits[s][k] ELSE waits[s][k + 1]
          BY <1>1, <4>1
        <4> QED BY <3>2, <4>1, <4>2 DEF Node
      <3> QED BY <3>1, <3>2
    <2> QED BY <1>1, <2>1, <2>2 DEF WaitingTypes
  <1>10. \A u \in Strategies : \A k \in 0..Len(waits[u]) :
            /\ Node(u, k) \in Waiting!Infos
            /\ u # s \/ k # i => Node(u, k) # f
            /\ u # s \/ k # i - 1 => Node(u, k) # p
            /\ u # s \/ k # i + 1 => Node(u, k) # nx
    <2>1. <<>> \notin Waiting!Infos
      BY NodesApart
    <2> QED BY <1>1, <1>2, <1>3, <1>4, <1>5, <2>1, NodesApart
  <1>11. ASSUME NEW u \in Strategies, NEW k \in 1..Len(waits'[u])
         PROVE  (next[Node(u, k - 1)] = Node(u, k) /\ prev[Node(u, k)] = Node(u, k - 1))'
    <2>1. CASE u # s
      <3>1. k \in 1..Len(waits[u]) /\ k \in 0..Len(waits[u]) /\ k - 1 \in 0..Len(waits[u])
        BY <1>9, <2>1
      <3>2. Node(u, k - 1)' = Node(u, k - 1) /\ Node(u, k)' = Node(u, k)
        BY <1>9, <2>1, <3>1
      <3>3. next'[Node(u, k - 1)] = next[Node(u, k - 1)] /\ prev'[Node(u, k)] = prev[Node(u, k)]
        BY <1>6, <1>7, <1>10, <2>1, <3>1
      <3> QED BY <3>1, <3>2, <3>3 DEF LinksHold
    <2>2. CASE u = s /\ k < i
      <3>1. /\ k \in 1..n /\ k \in 0..n /\ k - 1 \in 0..n /\ k \in 0..(n - 1) /\ k - 1 \in 0..(n - 1)
            /\ k - 1 < i /\ k - 1 # i /\ k - 1 # i - 1 /\ k # i /\ k # i + 1
        BY <1>3, <1>9, <2>2
      <3>2. Node(u, k - 1)' = Node(u, k - 1) /\ Node(u, k)' = Node(u, k)
        BY <1>9, <2>2, <3>1
      <3>3. next'[Node(u, k - 1)] = next[Node(u, k - 1)] /\ prev'[Node(u, k)] = prev[Node(u, k)]
        BY <1>1, <1>6, <1>7, <1>10, <2>2, <3>1
      <3> QED BY <1>1, <2>2, <3>1, <3>2, <3>3 DEF LinksHold
    <2>3. CASE u = s /\ k = i
      <3>1. /\ k \in 0..(n - 1) /\ k - 1 \in 0..(n - 1) /\ k - 1 < i /\ ~(k < i) /\ i < n
        BY <1>3, <1>9, <2>3
      <3>2. Node(u, k - 1)' = p /\ Node(u, k)' = nx /\ nx = Node(s, i + 1) /\ i + 1 \in 0..n /\ i + 1 # i
        BY <1>2, <1>4, <1>5, <1>9, <2>3, <3>1
      <3>3. nx \in Waiting!Infos /\ nx # f
        BY <1>1, <1>10, <3>2
      <3> QED BY <1>6, <1>7, <3>2, <3>3
    <2>4. CASE u = s /\ k > i
      <3>1. /\ k \in 0..(n - 1) /\ k - 1 \in 0..(n - 1) /\ ~(k - 1 < i) /\ ~(k < i)
            /\ k + 1 \in 1..n /\ k + 1 \in 0..n /\ k \in 0..n /\ (k - 1) + 1 = k /\ (k + 1) - 1 = k
            /\ k # i /\ k # i - 1 /\ k + 1 # i /\ k + 1 # i + 1
        BY <1>3, <1>9, <2>4
      <3>2. Node(u, k - 1)' = Node(s, k) /\ Node(u, k)' = Node(s, k + 1)
        BY <1>9, <2>4, <3>1
      <3>3. next'[Node(s, k)] = next[Node(s, k)] /\ prev'[Node(s, k + 1)] = prev[Node(s, k + 1)]
        <4>1. Node(s, k) \in Waiting!Infos /\ Node(s, k) # f /\ Node(s, k) # p
          BY <1>1, <1>10, <3>1
        <4>2. PICK j : j = k + 1 /\ j \in 0..Len(waits[s]) /\ j # i /\ j # i + 1
          BY <1>1, <3>1
        <4>3. Node(s, j) \in Waiting!Infos /\ Node(s, j) # f /\ Node(s, j) # nx
          BY <1>10, <4>2
        <4> QED BY <1>6, <1>7, <4>1, <4>2, <4>3
      <3>4. next[Node(s, k)] = Node(s, k + 1) /\ prev[Node(s, k + 1)] = Node(s, k)
        <4>1. PICK j : j = k + 1 /\ j \in 1..Len(waits[s]) /\ j - 1 = k
          BY <1>1, <3>1
        <4>2. next[Node(s, j - 1)] = Node(s, j) /\ prev[Node(s, j)] = Node(s, j - 1)
          BY <4>1 DEF LinksHold
        <4> QED BY <4>1, <4>2
      <3> QED BY <3>2, <3>3, <3>4
    <2> QED BY <1>3, <2>1, <2>2, <2>3, <2>4
  <1>12. ASSUME NEW u \in Strategies
         PROVE  (last[u] = Node(u, Len(waits[u])) /\ next[last[u]] = <<>>)'
    <2>1. CASE u # s
      <3>1. Len(waits[u]) \in 0..Len(waits[u]) /\ last[u] = Node(u, Len(waits[u])) /\ next[last[u]] = <<>>
        BY <1>9 DEF LinksHold
      <3>2. PICK m : m = Len(waits[u]) /\ m = Len(waits'[u]) /\ m \in 0..Len(waits[u])
        BY <2>1, <3>1
      <3>3. Node(u, m)' = Node(u, m) /\ last'[u] = Node(u, m)
        BY <1>8, <1>9, <2>1, <3>1, <3>2
      <3>4. next'[Node(u, m)] = next[Node(u, m)]
        BY <1>6, <1>10, <2>1, <3>2
      <3> QED BY <3>1, <3>2, <3>3, <3>4
    <2>2. CASE u = s /\ i = n
      <3>1. n - 1 \in 0..(n - 1) /\ n - 1 < i /\ nx = <<>>
        BY <1>3, <1>4, <1>5, <2>2
      <3> QED BY <1>2, <1>6, <1>8, <1>9, <2>2, <3>1
    <2>3. CASE u = s /\ i < n
      <3>1. /\ n - 1 \in 0..(n - 1) /\ ~(n - 1 < i) /\ (n - 1) + 1 = n /\ n \in 0..n
            /\ n # i /\ n # i - 1 /\ nx # <<>>
        BY <1>3, <1>4, <1>5, <2>3, NodesApart, <1>1
      <3>2. last[s] = Node(s, n) /\ next[last[s]] = <<>>
        BY <1>1 DEF LinksHold
      <3>3. Node(s, Len(waits[s]))' = Node(s, n) /\ last'[s] = Node(s, n)
        <4>1. last'[s] = last[s]
          BY <1>5, <1>8, <3>1
        <4>2. Node(s, n - 1)' = Node(s, n) /\ Len(waits'[s]) = n - 1
          <5>1. PICK k : k = n - 1 /\ k \in 0..(n - 1) /\ ~(k < i) /\ k + 1 = n
            BY <3>1
          <5>2. Node(s, k)' = Node(s, k + 1)
            BY <1>9, <5>1
          <5> QED BY <1>9, <5>1, <5>2
        <4> QED BY <3>2, <4>1, <4>2
      <3>4. next'[Node(s, n)] = next[Node(s, n)]
        BY <1>1, <1>6, <1>10, <3>1
      <3> QED BY <2>3, <3>2, <3>3, <3>4
    <2> QED BY <1>3, <2>1, <2>2, <2>3
  <1>13. ASSUME NEW g \in Workers, g \notin InSome(waits')
         PROVE  next'[g] = <<>> /\ prev'[g] = <<>>
    <2>1. CASE g = f
      BY <1>6, <1>7, <2>1
    <2>2. CASE g # f
      <3>1. g \notin InSome(waits) /\ g \in Waiting!Infos /\ g # <<>>
        BY <1>13, <2>2 DEF Waiting!Infos, FibersApart
      <3>2. \A u \in Strategies : Node(u, 0) # g
        BY DEF Node, FibersApart
      <3>3. \A u \in Strategies : \A k \in 0..Len(waits[u]) : Node(u, k) # g
        BY <3>1, <3>2, NodesApart
      <3>4. g # p /\ g # nx
        BY <1>1, <1>2, <1>3, <1>4, <1>5, <3>1, <3>3
      <3> QED BY <1>6, <1>7, <2>2, <3>1, <3>4 DEF LinksHold
    <2> QED BY <2>1, <2>2
  <1> QED BY <1>11, <1>12, <1>13 DEF LinksHold

-----------------------------------------------------------------------------
\* Nothing is erased of a fiber that is not linked; nor does anything remain of
\* one that is recorded and erased again.
LEMMA EraseOfOthers ==
    ASSUME WaitingTypes, LinksHold, NEW s \in Strategies, NEW f \in Workers, f \notin InSome(waits)
    PROVE  Waiting!Erase(Waiting!Links, s, f) = Waiting!Links
  <1>1. next[f] = <<>> /\ prev[f] = <<>>
    BY DEF LinksHold
  <1> QED BY <1>1 DEF Waiting!Erase, Waiting!Links, Absent

LEMMA RecordedLinks ==
    ASSUME NEW s \in Strategies, NEW f
    PROVE  LET r == Waiting!Record(Waiting!Links, s, f)
           IN  /\ r.next = [next EXCEPT ![last[s]] = f]
               /\ r.prev = [prev EXCEPT ![f] = last[s]]
               /\ r.last = [last EXCEPT ![s] = f]
  BY DEF Waiting!Record, Waiting!Links

LEMMA ErasedLinks ==
    ASSUME NEW s \in Strategies, NEW f, NEW links, prev[f] # <<>>,
           links = [next |-> next, prev |-> prev, last |-> last]
    PROVE  LET r == Waiting!Erase(links, s, f)
           IN  /\ r.next = [next EXCEPT ![prev[f]] = next[f], ![f] = <<>>]
               /\ r.prev = [x \in Waiting!Infos |->
                                IF x = f THEN <<>> ELSE IF x = next[f] THEN prev[f] ELSE prev[x]]
               /\ r.last = IF next[f] = <<>> THEN [last EXCEPT ![s] = prev[f]] ELSE last
  BY DEF Waiting!Erase, Waiting!Unlink, Absent

LEMMA YieldedLinks ==
    ASSUME FibersApart, WaitingTypes, Distinct(waits), LinksHold, NEW s \in Strategies,
           NEW f \in Workers, f \notin InSome(waits)
    PROVE  LET r == Waiting!Erase(Waiting!Record(Waiting!Links, s, f), s, f)
           IN  r.next = next /\ r.prev = prev /\ r.last = last
  <1> DEFINE recorded == Waiting!Record(Waiting!Links, s, f)
             erased == Waiting!Erase(recorded, s, f)
  <1>1. PICK p : p = last[s]
    OBVIOUS
  <1>2. /\ p \in Waiting!Infos /\ p # f /\ p # <<>> /\ f \in Waiting!Infos /\ next[p] = <<>>
        /\ next[f] = <<>> /\ prev[f] = <<>> /\ <<>> \notin Waiting!Infos
    <2>1. PICK n \in Nat : n = Len(waits[s])
      BY DEF WaitingTypes
    <2>2. p = Node(s, n) /\ n \in 0..Len(waits[s])
      BY <1>1, <2>1 DEF LinksHold
    <2>3. f \in Waiting!Infos
      BY DEF Waiting!Infos
    <2>4. p # f
      <3>1. CASE n = 0
        BY <2>2, <3>1 DEF Node, FibersApart
      <3>2. CASE n # 0
        BY <2>2, <3>2, NodesApart
      <3> QED BY <3>1, <3>2
    <2>5. p \in Waiting!Infos /\ <<>> \notin Waiting!Infos
      BY <2>2, NodesApart
    <2>6. next[p] = <<>>
      BY <1>1 DEF LinksHold
    <2>7. next[f] = <<>> /\ prev[f] = <<>>
      BY DEF LinksHold
    <2> QED BY <2>3, <2>4, <2>5, <2>6, <2>7
  <1>3. PICK rn, rp, rl : /\ recorded = [next |-> rn, prev |-> rp, last |-> rl]
                          /\ rn = [next EXCEPT ![p] = f] /\ rp = [prev EXCEPT ![f] = p]
                          /\ rl = [last EXCEPT ![s] = f]
    BY <1>1 DEF Waiting!Record, Waiting!Links
  <1>4. rp[f] = p /\ rn[f] = <<>>
    BY <1>2, <1>3 DEF WaitingTypes
  <1>5. /\ erased.next = [rn EXCEPT ![p] = <<>>, ![f] = <<>>]
        /\ erased.prev = [x \in Waiting!Infos |->
                                IF x = f THEN <<>> ELSE IF x = <<>> THEN p ELSE rp[x]]
        /\ erased.last = [rl EXCEPT ![s] = p]
    <2>1. /\ recorded.next = rn /\ recorded.prev = rp /\ recorded.last = rl
      BY <1>3
    <2> HIDE DEF recorded
    <2>4. erased.next = [rn EXCEPT ![rp[f]] = rn[f], ![f] = <<>>]
      BY <1>2, <1>3, <1>4, <2>1 DEF Waiting!Erase, Waiting!Unlink, Absent
    <2>5. erased.prev = [x \in Waiting!Infos |->
                                IF x = f THEN <<>> ELSE IF x = rn[f] THEN rp[f] ELSE rp[x]]
      BY <1>2, <1>3, <1>4, <2>1 DEF Waiting!Erase, Waiting!Unlink, Absent
    <2>6. erased.last = [rl EXCEPT ![s] = rp[f]]
      BY <1>2, <1>3, <1>4, <2>1 DEF Waiting!Erase, Waiting!Unlink, Absent
    <2> HIDE DEF erased
    <2> QED BY <1>4, <2>4, <2>5, <2>6
  <1>6. erased.next = next
    BY <1>2, <1>3, <1>5 DEF WaitingTypes
  <1>7. erased.prev = prev
    <2>1. prev = [x \in Waiting!Infos |-> prev[x]]
      BY DEF WaitingTypes
    <2>2. \A x \in Waiting!Infos : x # <<>> /\ (x # f => rp[x] = prev[x])
      BY <1>2, <1>3 DEF WaitingTypes
    <2> QED BY <1>2, <1>5, <2>1, <2>2
  <1>8. erased.last = last
    BY <1>1, <1>3, <1>5 DEF WaitingTypes
  <1> QED BY <1>6, <1>7, <1>8

\* Nothing else moves a fiber or a link.
LEMMA SamePlaces ==
    ASSUME PlacesHold, UNCHANGED <<running, queue, waits, started>>
    PROVE  PlacesHold'
  BY DEF PlacesHold, Apart, InSome, Distinct

LEMMA SameLinks ==
    ASSUME LinksHold, UNCHANGED <<waits, next, prev, last>>
    PROVE  LinksHold'
  BY DEF LinksHold, Node, InSome

-----------------------------------------------------------------------------
\* s gives its thread to v, which was ready or is pinned; the fiber that had it
\* becomes ready (it is in a), or waits (in b), or ends.  All stay apart.
ThreadGoesTo(v, s, a, b) ==
    /\ v \in Workers \cup {"pinned"} /\ (v \in Workers => v \in InSome(queue))
    /\ a \subseteq {running[s]} /\ b \subseteq {running[s]} /\ a \cap b = {} /\ a \cup b \subseteq Workers
    /\ running'[s] = v /\ \A u \in Strategies : u # s => running'[u] = running[u]
    /\ InSome(queue') = (InSome(queue) \ {v}) \cup a /\ InSome(waits') = InSome(waits) \cup b
    /\ started' = started

LEMMA ThreadGiven ==
    ASSUME FibersApart, Apart(running, InSome(queue), InSome(waits), started), NEW s \in Strategies,
           NEW v, NEW a, NEW b, ThreadGoesTo(v, s, a, b)
    PROVE  Apart(running, InSome(queue), InSome(waits), started)'
  <1> USE DEF ThreadGoesTo
  <1>1. InSome(queue) \subseteq Workers /\ InSome(waits) \subseteq Workers
    BY DEF InSome
  <1>2. "pinned" \notin Workers
    BY DEF FibersApart
  <1>3. v # running[s] \/ v = "pinned"
    BY DEF Apart
  <1>4. \A u \in Strategies : u # s => running[u] # v \/ v = "pinned"
    BY DEF Apart
  <1>5. \A u, w \in Strategies : running'[u] = running'[w] /\ running'[u] \in Workers => u = w
    BY <1>1, <1>2, <1>4 DEF Apart
  <1>6. ASSUME NEW u \in Strategies
        PROVE  /\ running'[u] \notin InSome(queue') /\ running'[u] \notin InSome(waits')
               /\ running'[u] \in Workers => running'[u] \in started
    <2>1. CASE u = s
      <3>1. v \notin a /\ v \notin b
        BY <1>2, <1>3
      <3>2. v \notin InSome(waits) /\ (v \in Workers => v \in started)
        <4>1. CASE v \in Workers
          BY <4>1 DEF Apart
        <4>2. CASE v = "pinned"
          BY <1>1, <1>2, <4>2
        <4> QED BY <4>1, <4>2
      <3> QED BY <1>1, <2>1, <3>1, <3>2
    <2>2. CASE u # s
      <3>1. running[u] \in Workers => running[u] # running[s]
        BY <2>2 DEF Apart
      <3>2. running[u] \notin a /\ running[u] \notin b
        BY <3>1
      <3> QED BY <1>1, <2>2, <3>2 DEF Apart
    <2> QED BY <2>1, <2>2
  <1>7. InSome(queue') \cap InSome(waits') = {}
    BY DEF Apart
  <1>8. InSome(queue') \subseteq started /\ InSome(waits') \subseteq started
    <2>1. a \cup b \subseteq started
      BY DEF Apart
    <2> QED BY <2>1 DEF Apart
  <1> QED BY <1>5, <1>6, <1>7, <1>8 DEF Apart

\* Whoever gets the thread is ready no longer.
LEMMA VictimTaken ==
    ASSUME FibersApart, WaitingTypes, PlacesHold, NEW s \in Strategies,
           NEW v \in Workers \cup {"pinned"}, Waiting!Victim(s, v)
    PROVE  /\ queue' \in [Strategies -> Seq(Workers)] /\ Distinct(queue')
           /\ InSome(queue') = InSome(queue) \ {v}
           /\ v \in Workers => v \in InSome(queue)
  <1>1. CASE queue' = queue /\ v = "pinned"
    BY <1>1 DEF WaitingTypes, PlacesHold, FibersApart, InSome
  <1>2. CASE /\ queue[s] # <<>> /\ v = queue[s][Len(queue[s])]
             /\ queue' = [queue EXCEPT ![s] = SubSeq(queue[s], 1, Len(queue[s]) - 1)]
    <2>0. queue \in [Strategies -> Seq(Workers)] /\ queue[s] \in Seq(Workers)
      BY DEF WaitingTypes
    <2>1. PICK n \in Nat \ {0} : n = Len(queue[s]) /\ DOMAIN queue[s] = 1..n
      BY <1>2, <2>0, LastGone
    <2>2. PICK shorter : /\ shorter = SubSeq(queue[s], 1, n - 1)
                         /\ shorter \in Seq(Workers) /\ Len(shorter) = n - 1
                         /\ \A k \in 1..(n - 1) : shorter[k] = queue[s][k]
      <3>1. PICK q \in Seq(Workers) : q = queue[s] /\ q # <<>> /\ n = Len(q)
        BY <1>2, <2>0, <2>1
      <3>2. PICK left : left = SubSeq(q, 1, n - 1)
        OBVIOUS
      <3>3. left \in Seq(Workers) /\ Len(left) = n - 1 /\ \A k \in 1..(n - 1) : left[k] = q[k]
        BY <3>1, <3>2, LastGone
      <3>4. left = SubSeq(queue[s], 1, n - 1)
        BY <3>1, <3>2
      <3>5. \A k \in 1..(n - 1) : left[k] = queue[s][k]
        BY <3>1, <3>3
      <3> QED BY <3>3, <3>4, <3>5
    <2>3. queue' \in [Strategies -> Seq(Workers)] /\ queue'[s] = shorter
          /\ \A u \in Strategies : u # s => queue'[u] = queue[u]
      BY <1>2, <2>1, <2>2 DEF WaitingTypes
    <2>4. \A k \in 1..(n - 1) : queue'[s][k] = IF k < n THEN queue[s][k] ELSE queue[s][k + 1]
      BY <2>2, <2>3
    <2>5. n \in DOMAIN queue[s]
      BY <2>1
    <2>6. Distinct(queue') /\ InSome(queue') = InSome(queue) \ {queue[s][n]} /\ queue[s][n] \in InSome(queue)
      <3>1. Distinct(queue) /\ Len(queue'[s]) = Len(queue[s]) - 1
        BY <2>1, <2>2, <2>3 DEF PlacesHold
      <3>2. \A k \in 1..(Len(queue[s]) - 1) : queue'[s][k] = IF k < n THEN queue[s][k] ELSE queue[s][k + 1]
        BY <2>1, <2>4
      <3> QED BY <2>0, <2>3, <2>5, <3>1, <3>2, FiberRemoved
    <2> QED BY <1>2, <2>1, <2>3, <2>6
  <1> QED BY <1>1, <1>2 DEF Waiting!Victim

\* A worker suspends itself, or ends.
LEMMA SuspendKeeps ==
    ASSUME FibersApart, WaitingInd, NEW s \in Strategies, Waiting!Suspend(s) \/ Waiting!Terminate(s)
    PROVE  WaitingInd'
  <1> USE DEF WaitingInd
  <1>1. PICK f \in Workers, v \in Workers \cup {"pinned"} :
            /\ f = running[s] /\ Waiting!Victim(s, v)
            /\ running' = [running EXCEPT ![s] = v]
            /\ UNCHANGED <<woken, started>>
    BY DEF Waiting!Suspend, Waiting!Terminate, Waiting!Active, Waiting!Runs
  <1>2. /\ queue' \in [Strategies -> Seq(Workers)] /\ Distinct(queue')
        /\ InSome(queue') = InSome(queue) \ {v} /\ (v \in Workers => v \in InSome(queue))
    BY <1>1, VictimTaken
  <1>3. /\ running' \in [Strategies -> Workers \cup {"pinned"}] /\ running'[s] = v
        /\ \A u \in Strategies : u # s => running'[u] = running[u]
    BY <1>1 DEF WaitingTypes
  <1>4. f \notin InSome(queue) \cup InSome(waits) /\ f \in started
    BY <1>1 DEF PlacesHold, Apart
  <1>5. CASE Waiting!Suspend(s)
    <2>1. waits' = [waits EXCEPT ![s] = Append(waits[s], f)]
      BY <1>1, <1>5 DEF Waiting!Suspend
    <2>2. waits' \in [Strategies -> Seq(Workers)] /\ Distinct(waits') /\ InSome(waits') = InSome(waits) \cup {f}
      BY <1>4, <2>1, FiberAppended DEF WaitingTypes, PlacesHold
    <2>3. /\ next' = [next EXCEPT ![last[s]] = f] /\ prev' = [prev EXCEPT ![f] = last[s]]
          /\ last' = [last EXCEPT ![s] = f]
      BY <1>1, <1>5, RecordedLinks DEF Waiting!Suspend, Waiting!SetLinks
    <2>4. LinksHold' /\ next' \in [Waiting!Infos -> Workers \cup {<<>>}]
          /\ prev' \in [Waiting!Infos -> Waiting!Infos \cup {<<>>}]
          /\ last' \in [Strategies -> Waiting!Infos]
      BY <1>4, <2>1, <2>3, RecordKeeps DEF PlacesHold
    <2>5. WaitingTypes'
      BY <1>1, <1>2, <1>3, <2>2, <2>4 DEF WaitingTypes
    <2>6. PlacesHold'
      <3>1. ThreadGoesTo(v, s, {}, {f})
        BY <1>1, <1>2, <1>3, <2>2 DEF ThreadGoesTo
      <3>2. Apart(running, InSome(queue), InSome(waits), started)'
        BY <3>1, ThreadGiven DEF PlacesHold
      <3> QED BY <1>2, <2>2, <3>2 DEF PlacesHold
    <2> QED BY <2>4, <2>5, <2>6
  <1>6. CASE Waiting!Terminate(s)
    <2>1. UNCHANGED <<waits, next, prev, last>>
      BY <1>6 DEF Waiting!Terminate, Waiting!linkVars
    <2>2. WaitingTypes'
      BY <1>1, <1>2, <1>3, <2>1 DEF WaitingTypes
    <2>3. PlacesHold'
      <3>1. InSome(waits') = InSome(waits) /\ Distinct(waits')
        BY <2>1 DEF PlacesHold
      <3>2. ThreadGoesTo(v, s, {}, {})
        BY <1>1, <1>2, <1>3, <3>1 DEF ThreadGoesTo
      <3>3. Apart(running, InSome(queue), InSome(waits), started)'
        BY <3>2, ThreadGiven DEF PlacesHold
      <3> QED BY <1>2, <3>1, <3>3 DEF PlacesHold
    <2> QED BY <2>1, <2>2, <2>3, SameLinks
  <1> QED BY <1>5, <1>6

\* A worker yields.
LEMMA YieldKeeps ==
    ASSUME FibersApart, WaitingInd, NEW s \in Strategies, Waiting!Yield(s)
    PROVE  WaitingInd'
  <1> USE DEF WaitingInd
  <1>1. PICK f \in Workers : f = running[s]
    BY DEF Waiting!Yield, Waiting!Active
  <1>2. f \notin InSome(queue) \cup InSome(waits) /\ f \in started
    BY <1>1 DEF PlacesHold, Apart
  <1>3. UNCHANGED <<waits, woken, started, next, prev, last>>
    BY <1>1, <1>2, YieldedLinks DEF Waiting!Yield, Waiting!SetLinks, PlacesHold
  <1>4. PICK v \in Workers \cup {"pinned"} :
            /\ running' = [running EXCEPT ![s] = v]
            /\ queue' \in [Strategies -> Seq(Workers)] /\ Distinct(queue')
            /\ InSome(queue') = (InSome(queue) \ {v}) \cup {f}
            /\ v \in Workers => v \in InSome(queue)
    <2>1. CASE running' = [running EXCEPT ![s] = "pinned"] /\ queue' = [queue EXCEPT ![s] = Append(queue[s], f)]
      <3>1. /\ queue' \in [Strategies -> Seq(Workers)] /\ Distinct(queue')
            /\ InSome(queue') = InSome(queue) \cup {f}
        BY <1>2, <2>1, FiberAppended DEF WaitingTypes, PlacesHold
      <3>2. "pinned" \notin Workers /\ "pinned" \notin InSome(queue)
        BY DEF FibersApart, InSome
      <3> QED BY <2>1, <3>1, <3>2
    <2>2. CASE /\ queue[s] # <<>> /\ running' = [running EXCEPT ![s] = queue[s][Len(queue[s])]]
               /\ queue' = [queue EXCEPT ![s] = [queue[s] EXCEPT ![Len(queue[s])] = f]]
      <3>1. PICK n : n = Len(queue[s]) /\ n \in DOMAIN queue[s] /\ queue[s][n] \in Workers
        BY <2>2 DEF WaitingTypes
      <3>2. /\ queue' \in [Strategies -> Seq(Workers)] /\ Distinct(queue')
            /\ InSome(queue') = (InSome(queue) \ {queue[s][n]}) \cup {f}
            /\ queue[s][n] \in InSome(queue)
        <4>1. queue \in [Strategies -> Seq(Workers)] /\ Distinct(queue) /\ f \notin InSome(queue)
          BY <1>2 DEF WaitingTypes, PlacesHold
        <4>2. queue[s] \in Seq(Workers) /\ n \in DOMAIN queue[s]
          BY <3>1, <4>1
        <4>3. PICK q : q = [queue[s] EXCEPT ![n] = f]
          OBVIOUS
        <4>4. /\ q \in Seq(Workers) /\ DOMAIN q = DOMAIN queue[s] /\ q[n] = f
              /\ \A k \in DOMAIN queue[s] : k # n => q[k] = queue[s][k]
          <5>1. q \in Seq(Workers) /\ DOMAIN q = DOMAIN queue[s]
            BY <4>2, <4>3
          <5>2. q[n] = f /\ \A k \in DOMAIN queue[s] : k # n => q[k] = queue[s][k]
            BY <4>2, <4>3
          <5> QED BY <5>1, <5>2
        <4>5. queue' = [queue EXCEPT ![s] = q]
          BY <2>2, <3>1, <4>3
        <4>6. /\ queue' \in [Strategies -> Seq(Workers)] /\ queue'[s] = q
              /\ \A u \in Strategies : u # s => queue'[u] = queue[u]
          BY <4>1, <4>4, <4>5
        <4>7. Replaced(queue, queue', s, n, f)
          BY <4>2, <4>4, <4>6 DEF Replaced
        <4>8. queue' \in [Strategies -> Seq(Workers)]
          BY <4>6
        <4>9. /\ Distinct(queue') /\ InSome(queue') = (InSome(queue) \ {queue[s][n]}) \cup {f}
              /\ queue[s][n] \in InSome(queue)
          BY <4>1, <4>7, <4>8, FiberReplaced
        <4> QED BY <4>8, <4>9
      <3> QED BY <2>2, <3>1, <3>2
    <2> QED BY <1>1, <2>1, <2>2 DEF Waiting!Yield, Waiting!Runs
  <1>5. /\ running' \in [Strategies -> Workers \cup {"pinned"}] /\ running'[s] = v
        /\ \A u \in Strategies : u # s => running'[u] = running[u]
    BY <1>4 DEF WaitingTypes
  <1>6. InSome(waits') = InSome(waits) /\ Distinct(waits')
    BY <1>3 DEF PlacesHold
  <1>7. WaitingTypes'
    BY <1>3, <1>4, <1>5 DEF WaitingTypes
  <1>8. PlacesHold'
    <2>1. ThreadGoesTo(v, s, {f}, {})
      BY <1>1, <1>3, <1>4, <1>5, <1>6 DEF ThreadGoesTo
    <2>2. Apart(running, InSome(queue), InSome(waits), started)'
      BY <2>1, ThreadGiven DEF PlacesHold
    <2> QED BY <1>4, <1>6, <2>2 DEF PlacesHold
  <1> QED BY <1>3, <1>7, <1>8, SameLinks

\* The dispatcher of s gives the thread to a worker, its own or a stolen one.
LEMMA DispatcherKeeps ==
    ASSUME FibersApart, WaitingInd, NEW s \in Strategies, Waiting!Dispatcher(s)
    PROVE  WaitingInd'
  <1> USE DEF WaitingInd
  <1>1. UNCHANGED <<waits, woken, started, next, prev, last>>
    BY DEF Waiting!Dispatcher, Waiting!linkVars
  <1>2. PICK v \in Workers :
            /\ running' = [running EXCEPT ![s] = v]
            /\ queue' \in [Strategies -> Seq(Workers)] /\ Distinct(queue')
            /\ InSome(queue') = InSome(queue) \ {v} /\ v \in InSome(queue)
    <2>1. CASE \E f \in Workers : Waiting!Victim(s, f) /\ Waiting!Runs(s, f)
      BY <2>1, VictimTaken DEF Waiting!Runs
    <2>2. CASE \E t \in Strategies : /\ queue[t] # <<>> /\ Waiting!Runs(s, queue[t][1])
                                     /\ queue' = [queue EXCEPT ![t] = Tail(queue[t])]
      <3>1. PICK t \in Strategies : /\ queue[t] # <<>> /\ running' = [running EXCEPT ![s] = queue[t][1]]
                                    /\ queue' = [queue EXCEPT ![t] = Tail(queue[t])]
        BY <2>2 DEF Waiting!Runs
      <3>0. queue \in [Strategies -> Seq(Workers)] /\ queue[t] \in Seq(Workers) /\ Distinct(queue)
        BY DEF WaitingTypes, PlacesHold
      <3>2. PICK n \in Nat \ {0} : n = Len(queue[t]) /\ DOMAIN queue[t] = 1..n /\ 1 \in DOMAIN queue[t]
        BY <3>0, <3>1, FirstGone
      <3>3. PICK shorter : /\ shorter = Tail(queue[t])
                           /\ shorter \in Seq(Workers) /\ Len(shorter) = n - 1
                           /\ \A k \in 1..(n - 1) : shorter[k] = queue[t][k + 1]
        BY <3>0, <3>1, <3>2, FirstGone
      <3>4. queue' \in [Strategies -> Seq(Workers)] /\ queue'[t] = shorter
            /\ \A u \in Strategies : u # t => queue'[u] = queue[u]
        BY <3>1, <3>3 DEF WaitingTypes
      <3>5. /\ \A k \in 1..(n - 1) : queue'[t][k] = IF k < 1 THEN queue[t][k] ELSE queue[t][k + 1]
            /\ Len(queue'[t]) = Len(queue[t]) - 1
        BY <3>2, <3>3, <3>4
      <3>6. /\ Distinct(queue') /\ InSome(queue') = InSome(queue) \ {queue[t][1]}
            /\ queue[t][1] \in InSome(queue)
        BY <3>0, <3>2, <3>4, <3>5, FiberRemoved
      <3>7. queue[t][1] \in Workers
        BY <3>2 DEF WaitingTypes
      <3> QED BY <3>1, <3>4, <3>6, <3>7
    <2> QED BY <2>1, <2>2 DEF Waiting!Dispatcher
  <1>3. /\ running' \in [Strategies -> Workers \cup {"pinned"}] /\ running'[s] = v
        /\ \A u \in Strategies : u # s => running'[u] = running[u]
    BY <1>2 DEF WaitingTypes
  <1>4. InSome(waits') = InSome(waits) /\ Distinct(waits')
    BY <1>1 DEF PlacesHold
  <1>5. WaitingTypes'
    BY <1>1, <1>2, <1>3 DEF WaitingTypes
  <1>6. PlacesHold'
    <2>1. ThreadGoesTo(v, s, {}, {})
      BY <1>1, <1>2, <1>3, <1>4 DEF ThreadGoesTo
    <2>2. Apart(running, InSome(queue), InSome(waits), started)'
      BY <2>1, ThreadGiven DEF PlacesHold
    <2> QED BY <1>2, <1>4, <2>2 DEF PlacesHold
  <1> QED BY <1>1, <1>5, <1>6, SameLinks

\* A worker is made.
LEMMA StartKeeps ==
    ASSUME FibersApart, WaitingInd, NEW s \in Strategies, NEW f \in Workers,
           Waiting!StartPost(s, f) \/ Waiting!StartDispatch(s, f)
    PROVE  WaitingInd'
  <1> USE DEF WaitingInd
  <1>1. f \notin InSome(queue) \cup InSome(waits) /\ \A u \in Strategies : running[u] # f
    BY DEF Waiting!StartPost, Waiting!StartDispatch, PlacesHold, Apart
  <1>2. PICK g \in Workers, v \in Workers \cup {"pinned"} :
            /\ g \notin InSome(queue) \cup InSome(waits)
            /\ queue' = [queue EXCEPT ![s] = Append(queue[s], g)]
            /\ running' = [running EXCEPT ![s] = v]
            /\ (g = f /\ v = running[s]) \/ (g = running[s] /\ v = f)
            /\ started' = started \cup {f} /\ UNCHANGED <<waits, woken, next, prev, last>>
    <2>1. CASE Waiting!StartPost(s, f)
      <3>1. UNCHANGED <<next, prev, last>>
        BY <1>1, <2>1, EraseOfOthers DEF Waiting!StartPost, Waiting!SetLinks, Waiting!Links
      <3>2. running[s] \in Workers \cup {"pinned"} /\ running = [running EXCEPT ![s] = running[s]]
        BY DEF WaitingTypes
      <3>3. /\ queue' = [queue EXCEPT ![s] = Append(queue[s], f)] /\ running' = running
            /\ started' = started \cup {f} /\ UNCHANGED <<waits, woken>>
        BY <2>1 DEF Waiting!StartPost
      <3>4. running' = [running EXCEPT ![s] = running[s]]
        BY <3>2, <3>3
      <3> QED BY <1>1, <3>1, <3>2, <3>3, <3>4
    <2>2. CASE Waiting!StartDispatch(s, f)
      <3>1. running[s] \in Workers /\ running[s] \notin InSome(queue) \cup InSome(waits)
        BY <2>2 DEF Waiting!StartDispatch, Waiting!Active, PlacesHold, Apart
      <3>2. UNCHANGED <<next, prev, last>>
        BY <2>2, <3>1, EraseOfOthers DEF Waiting!StartDispatch, Waiting!SetLinks, Waiting!Links
      <3> QED BY <2>2, <3>1, <3>2 DEF Waiting!StartDispatch, Waiting!Runs
    <2> QED BY <2>1, <2>2
  <1>3. queue' \in [Strategies -> Seq(Workers)] /\ Distinct(queue') /\ InSome(queue') = InSome(queue) \cup {g}
    BY <1>2, FiberAppended DEF WaitingTypes, PlacesHold
  <1>4. /\ running' \in [Strategies -> Workers \cup {"pinned"}] /\ running'[s] = v
        /\ \A u \in Strategies : u # s => running'[u] = running[u]
    BY <1>2 DEF WaitingTypes
  <1>5. InSome(waits') = InSome(waits) /\ Distinct(waits')
    BY <1>2 DEF PlacesHold
  <1>6. WaitingTypes'
    BY <1>2, <1>3, <1>4 DEF WaitingTypes
  <1>7. PlacesHold'
    <2>1. \A u, w \in Strategies : running'[u] = running'[w] /\ running'[u] \in Workers => u = w
      BY <1>1, <1>2, <1>4 DEF PlacesHold, Apart
    <2>2. \A u \in Strategies : running'[u] # g \/ running'[u] \notin Workers
      BY <1>1, <1>2, <1>4 DEF PlacesHold, Apart
    <2>3. g \in started' /\ started \subseteq started'
      BY <1>2 DEF PlacesHold, Apart
    <2>4. ASSUME NEW u \in Strategies
          PROVE  /\ running'[u] \notin InSome(queue) \cup {g} /\ running'[u] \notin InSome(waits)
                 /\ running'[u] \in Workers => running'[u] \in started'
      BY <1>1, <1>2, <1>4, <2>2 DEF PlacesHold, Apart
    <2>5. InSome(queue') \cap InSome(waits') = {} /\ InSome(queue') \subseteq started' /\ InSome(waits') \subseteq started'
      BY <1>2, <1>3, <1>5, <2>3 DEF PlacesHold, Apart
    <2> QED BY <1>3, <1>5, <2>1, <2>4, <2>5 DEF PlacesHold, Apart
  <1> QED BY <1>2, <1>6, <1>7, SameLinks

\* A worker that waits becomes ready.
LEMMA AwakenedKeeps ==
    ASSUME FibersApart, WaitingInd, NEW s \in Strategies, NEW f \in Workers, Waiting!Awakened(s, f)
    PROVE  WaitingInd'
  <1> USE DEF WaitingInd
  <1>0. waits \in [Strategies -> Seq(Workers)] /\ waits[s] \in Seq(Workers) /\ Distinct(waits)
    BY DEF WaitingTypes, PlacesHold
  <1>1. PICK i \in DOMAIN waits[s] :
            /\ waits[s][i] = f /\ waits' = [waits EXCEPT ![s] = Waiting!RemoveAt(waits[s], i)]
            /\ queue' = [queue EXCEPT ![s] = Append(queue[s], f)]
            /\ woken' = woken \ {f} /\ UNCHANGED <<running, started>>
    BY DEF Waiting!Awakened
  <1>2. PICK n \in Nat : n = Len(waits[s]) /\ i \in 1..n
    BY <1>0
  <1>3. PICK w \in Seq(Workers) :
            /\ w = Waiting!RemoveAt(waits[s], i) /\ Len(w) = n - 1
            /\ \A k \in 1..(n - 1) : w[k] = IF k < i THEN waits[s][k] ELSE waits[s][k + 1]
    BY <1>0, <1>2, OneGone
  <1>4. /\ waits' \in [Strategies -> Seq(Workers)] /\ waits'[s] = w
        /\ \A u \in Strategies : u # s => waits'[u] = waits[u]
    BY <1>0, <1>1, <1>3
  <1>5. Distinct(waits') /\ InSome(waits') = InSome(waits) \ {f} /\ f \in InSome(waits)
    <2>1. Len(waits'[s]) = Len(waits[s]) - 1
      BY <1>2, <1>3, <1>4
    <2>2. \A k \in 1..(Len(waits[s]) - 1) : waits'[s][k] = IF k < i THEN waits[s][k] ELSE waits[s][k + 1]
      BY <1>2, <1>3, <1>4
    <2>3. Distinct(waits') /\ InSome(waits') = InSome(waits) \ {waits[s][i]} /\ waits[s][i] \in InSome(waits)
      BY <1>0, <1>4, <2>1, <2>2, FiberRemoved
    <2> QED BY <1>1, <2>3
  <1>6. prev[f] # <<>>
    <2>1. f = Node(s, i) /\ i - 1 \in 0..Len(waits[s])
      BY <1>1, <1>2 DEF Node
    <2>2. prev[f] = Node(s, i - 1)
      BY <1>2, <2>1 DEF LinksHold
    <2> QED BY <2>1, <2>2, NodesApart DEF PlacesHold
  <1>7. /\ next' = [next EXCEPT ![prev[f]] = next[f], ![f] = <<>>]
        /\ prev' = [x \in Waiting!Infos |->
                        IF x = f THEN <<>> ELSE IF x = next[f] THEN prev[f] ELSE prev[x]]
        /\ last' = IF next[f] = <<>> THEN [last EXCEPT ![s] = prev[f]] ELSE last
    <2>1. PICK r : r = Waiting!Erase(Waiting!Links, s, f) /\ next' = r.next /\ prev' = r.prev /\ last' = r.last
      BY DEF Waiting!Awakened, Waiting!SetLinks
    <2>2. Waiting!Links = [next |-> next, prev |-> prev, last |-> last]
      BY DEF Waiting!Links
    <2> QED BY <1>6, <2>1, <2>2 DEF Waiting!Erase, Waiting!Unlink, Absent
  <1>8. LinksHold' /\ next' \in [Waiting!Infos -> Workers \cup {<<>>}]
        /\ prev' \in [Waiting!Infos -> Waiting!Infos \cup {<<>>}]
        /\ last' \in [Strategies -> Waiting!Infos]
    <2>1. i \in 1..Len(waits[s]) /\ f = waits[s][i] /\ Len(waits'[s]) = Len(waits[s]) - 1
          /\ \A k \in 1..(Len(waits[s]) - 1) : waits'[s][k] = IF k < i THEN waits[s][k] ELSE waits[s][k + 1]
      BY <1>1, <1>2, <1>3, <1>4
    <2>2. \A u \in Strategies : u # s => waits'[u] = waits[u]
      BY <1>4
    <2>3. f \in Waiting!Infos /\ prev[f] \in Waiting!Infos /\ next[f] \in Workers \cup {<<>>}
      BY <1>6 DEF Waiting!Infos, WaitingTypes
    <2>4. \A x \in Waiting!Infos :
                /\ next'[x] = IF x = f THEN <<>> ELSE IF x = prev[f] THEN next[f] ELSE next[x]
                /\ prev'[x] = IF x = f THEN <<>> ELSE IF x = next[f] THEN prev[f] ELSE prev[x]
      BY <1>7, <2>3 DEF WaitingTypes
    <2>5. /\ \A u \in Strategies : u # s => last'[u] = last[u]
          /\ last'[s] = IF next[f] = <<>> THEN prev[f] ELSE last[s]
      BY <1>7, <2>3 DEF WaitingTypes
    <2>6. LinksHold'
      <3>1. waits' \in [Strategies -> Seq(Workers)] /\ InSome(waits') = InSome(waits) \ {f}
        BY <1>4, <1>5
      <3>2. WaitingTypes /\ LinksHold /\ Distinct(waits)
        BY <1>0
      <3>3. TakenOut(s, i, f)
        BY <2>1, <2>2, <2>4, <2>5, <3>1 DEF TakenOut
      <3> QED BY <2>1, <3>2, <3>3, EraseKeeps
    <2>7. /\ next' \in [Waiting!Infos -> Workers \cup {<<>>}]
          /\ prev' \in [Waiting!Infos -> Waiting!Infos \cup {<<>>}]
          /\ last' \in [Strategies -> Waiting!Infos]
      BY <1>7, <2>3 DEF WaitingTypes
    <2> QED BY <2>6, <2>7
  <1>9. f \notin InSome(queue) /\ f \in started /\ \A u \in Strategies : running[u] # f
    BY <1>5 DEF PlacesHold, Apart
  <1>10. queue' \in [Strategies -> Seq(Workers)] /\ Distinct(queue') /\ InSome(queue') = InSome(queue) \cup {f}
    BY <1>1, <1>9, FiberAppended DEF WaitingTypes, PlacesHold
  <1>11. WaitingTypes'
    BY <1>1, <1>4, <1>8, <1>10 DEF WaitingTypes
  <1>12. PlacesHold'
    BY <1>1, <1>5, <1>9, <1>10 DEF PlacesHold, Apart
  <1> QED BY <1>8, <1>11, <1>12

LEMMA WaitingStep ==
    ASSUME FibersApart, WaitingInd, [Waiting!Next]_Waiting!vars
    PROVE  WaitingInd'
  <1>1. CASE UNCHANGED Waiting!vars
    <2>1. UNCHANGED <<running, queue, waits, woken, started, next, prev, last>>
      BY <1>1 DEF Waiting!vars, Waiting!linkVars
    <2>2. LinksHold'
      BY <2>1, SameLinks DEF WaitingInd
    <2>3. WaitingTypes'
      BY <2>1 DEF WaitingInd, WaitingTypes
    <2>4. PlacesHold'
      BY <2>1, SamePlaces DEF WaitingInd
    <2> QED BY <2>2, <2>3, <2>4 DEF WaitingInd
  <1>2. ASSUME NEW f \in Workers, Waiting!Wake(f) PROVE WaitingInd'
    <2>1. UNCHANGED <<running, queue, waits, started, next, prev, last>> /\ woken' = woken \cup {f}
      BY <1>2 DEF Waiting!Wake, Waiting!linkVars
    <2>2. LinksHold'
      BY <2>1, SameLinks DEF WaitingInd
    <2>3. WaitingTypes'
      BY <2>1 DEF WaitingInd, WaitingTypes
    <2>4. PlacesHold'
      BY <2>1, SamePlaces DEF WaitingInd
    <2> QED BY <2>2, <2>3, <2>4 DEF WaitingInd
  <1> QED BY <1>1, <1>2, SuspendKeeps, YieldKeeps, DispatcherKeeps, StartKeeps, AwakenedKeeps DEF Waiting!Next

\* The part of the composition that is about the waiting lists.
LEMMA WaitingPart ==
    /\ Init /\ part = "waiting" => Waiting!Init
    /\ [Next]_vars => part' = part /\ (part = "waiting" => [Waiting!Next]_Waiting!vars)
  BY DEF Init, Next, Step, vars, mutexGroup, pairGroup, waitingGroup, Waiting!vars, Waiting!linkVars

\* Of WaitingList, for any threads and fibers: the list of each strategy holds
\* exactly the fibers that gave up its thread and wait, in that order and linked
\* both ways, wherever they yield, end and are stolen.  Alone, and as a part of
\* MCUtilities.
THEOREM WaitingSafety ==
    ASSUME FibersApart
    PROVE  (Waiting!Spec => []Waiting!WaitingInv) /\ (Spec => []WaitingInv)
  <1>1. Waiting!Spec => []Waiting!WaitingInv
    BY WaitingIndInit, WaitingStep, WaitingIndImplies, PTL DEF Waiting!Spec
  <1>2. Spec => []WaitingInv
    <2> DEFINE PartInv == part = "waiting" => WaitingInd
    <2>1. Init => PartInv
      BY WaitingPart, WaitingIndInit
    <2>2. PartInv /\ [Next]_vars => PartInv'
      BY WaitingPart, WaitingStep
    <2>3. PartInv => WaitingInv
      BY WaitingIndImplies DEF WaitingInv
    <2> QED BY <2>1, <2>2, <2>3, PTL DEF Spec
  <1> QED BY <1>1, <1>2

-----------------------------------------------------------------------------
(* Addresses *)

Byte == 0..255
Word == {n \in Nat : n < 65536}
Bytes(n) == {b \in Seq(Byte) : Len(b) = n}

\* Hosts have the bytes of their family, ports have sixteen bits, and the null
\* pointer is none of them.
AddressesGiven ==
    /\ V4Hosts \subseteq Bytes(4) /\ V6Hosts \subseteq Bytes(16) /\ Ports \subseteq Word
    /\ NULL \notin Address!Hosts /\ NULL \notin {1, 2}

\* An address of one of the families.
IsAddress(a) ==
    /\ a.family \in {1, 2}
    /\ a.family = 1 => a.bytes \in Bytes(4)
    /\ a.family = 2 => a.bytes \in Bytes(16)

\* An address is the host that was written, also as a socket address with the
\* bytes of a port in network order.
MeansHost(a) == host \in Address!Hosts /\ IsAddress(a) /\ Address!Mapped(a) = Address!Mapped(host)
MeansSocket(a, p) ==
    /\ MeansHost(a) /\ port \in Ports /\ p \in Ports /\ a.port = Address!Htons(p)
    /\ a = [family |-> a.family, port |-> a.port, bytes |-> a.bytes]

AddressInd ==
    /\ host \in Address!Hosts \cup {NULL} /\ port \in Ports \cup {NULL}
    /\ ip \in {NULL, Address!Undefined} \/ MeansHost(ip)
    /\ tcp = NULL \/ \E p \in Ports : MeansSocket(tcp, p) /\ (p = port \/ (port = 0 /\ bound # NULL))
    /\ fd \in {1, 2, NULL}
    /\ bound = NULL \/ /\ tcp # NULL /\ bound.family = fd
                       /\ \E p \in Ports : MeansSocket(bound, p) /\ (p = port \/ port = 0)

-----------------------------------------------------------------------------
\* A sequence is its first n elements and the others.
LEMMA PartsOfJoined ==
    ASSUME NEW S, NEW q \in Seq(S), NEW a \in Seq(S)
    PROVE  LET b == q \o a
           IN  SubSeq(b, 1, Len(q)) = q /\ SubSeq(b, Len(q) + 1, Len(q) + Len(a)) = a
  <1>1. PICK n \in Nat, m \in Nat : n = Len(q) /\ m = Len(a)
    BY LenProperties
  <1>2. PICK b : b = q \o a
    OBVIOUS
  <1>3. b \in Seq(S) /\ \A k \in 1..(n + m) : b[k] = IF k <= n THEN q[k] ELSE a[k - n]
    BY <1>1, <1>2, ConcatProperties
  <1>4. /\ \A k \in 1..n : k \in 1..(n + m) /\ b[k] = q[k] /\ q[k] \in S
        /\ \A k \in 1..m : b[n + k] = a[k] /\ a[k] \in S
    <2>1. ASSUME NEW k \in 1..n PROVE k \in 1..(n + m) /\ b[k] = q[k] /\ q[k] \in S
      <3>1. k \in 1..(n + m) /\ k <= n
        OBVIOUS
      <3> QED BY <1>1, <1>3, <3>1, ElementOfSeq
    <2>2. ASSUME NEW k \in 1..m PROVE b[n + k] = a[k] /\ a[k] \in S
      <3>1. n + k \in 1..(n + m) /\ ~(n + k <= n) /\ (n + k) - n = k
        OBVIOUS
      <3> QED BY <1>1, <1>3, <3>1, ElementOfSeq
    <2> QED BY <2>1, <2>2
  <1>5. PICK c : c = SubSeq(b, 1, n)
    OBVIOUS
  <1>6. c \in Seq(S) /\ Len(c) = n /\ \A k \in 1..n : c[k] = q[k]
    <2>1. \A k \in 1..n : b[k] \in S
      BY <1>4
    <2>2. /\ c \in Seq(S) /\ Len(c) = (IF 1 <= n THEN n - 1 + 1 ELSE 0)
          /\ \A k \in 1..(n - 1 + 1) : c[k] = b[1 + k - 1]
      BY <1>5, <2>1, SubSeqProperties
    <2>3. (IF 1 <= n THEN n - 1 + 1 ELSE 0) = n /\ n - 1 + 1 = n
      OBVIOUS
    <2>4. ASSUME NEW k \in 1..n PROVE c[k] = q[k]
      <3>1. k \in 1..(n - 1 + 1) /\ 1 + k - 1 = k
        OBVIOUS
      <3> QED BY <1>4, <2>2, <3>1
    <2> QED BY <2>2, <2>3, <2>4
  <1>7. PICK d : d = SubSeq(b, n + 1, n + m)
    OBVIOUS
  <1>8. d \in Seq(S) /\ Len(d) = m /\ \A k \in 1..m : d[k] = a[k]
    <2>1. ASSUME NEW k \in (n + 1)..(n + m) PROVE b[k] \in S
      <3>1. k - n \in 1..m /\ n + (k - n) = k
        OBVIOUS
      <3> QED BY <1>4, <3>1
    <2>2. /\ d \in Seq(S) /\ Len(d) = (IF n + 1 <= n + m THEN (n + m) - (n + 1) + 1 ELSE 0)
          /\ \A k \in 1..((n + m) - (n + 1) + 1) : d[k] = b[(n + 1) + k - 1]
      BY <1>7, <2>1, SubSeqProperties
    <2>3. (IF n + 1 <= n + m THEN (n + m) - (n + 1) + 1 ELSE 0) = m
      OBVIOUS
    <2>4. ASSUME NEW k \in 1..m PROVE d[k] = a[k]
      <3>1. k \in 1..((n + m) - (n + 1) + 1) /\ (n + 1) + k - 1 = n + k
        OBVIOUS
      <3> QED BY <1>4, <2>2, <3>1
    <2> QED BY <2>2, <2>3, <2>4
  <1>9. c = q
    BY <1>1, <1>6, SeqEqual
  <1>10. d = a
    BY <1>1, <1>8, SeqEqual
  <1> QED BY <1>1, <1>2, <1>5, <1>7, <1>9, <1>10

LEMMA JoinedParts ==
    ASSUME NEW S, NEW b \in Seq(S), NEW n \in 0..Len(b)
    PROVE  LET q == SubSeq(b, 1, n)
               d == SubSeq(b, n + 1, Len(b))
           IN  q \in Seq(S) /\ d \in Seq(S) /\ Len(q) = n /\ Len(d) = Len(b) - n /\ q \o d = b
  <1>1. PICK l \in Nat : l = Len(b) /\ n \in 0..l /\ \A k \in 1..l : b[k] \in S
    BY LenProperties, ElementOfSeq
  <1>2. PICK q, d : q = SubSeq(b, 1, n) /\ d = SubSeq(b, n + 1, l)
    OBVIOUS
  <1>3. q \in Seq(S) /\ Len(q) = n /\ \A k \in 1..n : q[k] = b[k]
    <2>1. \A k \in 1..n : b[k] \in S
      BY <1>1
    <2>2. /\ q \in Seq(S) /\ Len(q) = (IF 1 <= n THEN n - 1 + 1 ELSE 0)
          /\ \A k \in 1..(n - 1 + 1) : q[k] = b[1 + k - 1]
      BY <1>1, <1>2, <2>1, SubSeqProperties
    <2>3. (IF 1 <= n THEN n - 1 + 1 ELSE 0) = n
      BY <1>1
    <2>4. ASSUME NEW k \in 1..n PROVE q[k] = b[k]
      <3>1. k \in 1..(n - 1 + 1) /\ 1 + k - 1 = k
        BY <1>1
      <3> QED BY <2>2, <3>1
    <2> QED BY <2>2, <2>3, <2>4
  <1>4. d \in Seq(S) /\ Len(d) = l - n /\ \A k \in 1..(l - n) : d[k] = b[n + k]
    <2>1. \A k \in (n + 1)..l : b[k] \in S
      BY <1>1
    <2>2. /\ d \in Seq(S) /\ Len(d) = (IF n + 1 <= l THEN l - (n + 1) + 1 ELSE 0)
          /\ \A k \in 1..(l - (n + 1) + 1) : d[k] = b[(n + 1) + k - 1]
      BY <1>1, <1>2, <2>1, SubSeqProperties
    <2>3. (IF n + 1 <= l THEN l - (n + 1) + 1 ELSE 0) = l - n
      BY <1>1
    <2>4. ASSUME NEW k \in 1..(l - n) PROVE d[k] = b[n + k]
      <3>1. k \in 1..(l - (n + 1) + 1) /\ (n + 1) + k - 1 = n + k
        BY <1>1
      <3> QED BY <2>2, <3>1
    <2> QED BY <2>2, <2>3, <2>4
  <1>5. PICK e : e = q \o d
    OBVIOUS
  <1>6. /\ e \in Seq(S) /\ Len(e) = l
        /\ \A k \in 1..l : e[k] = IF k <= n THEN q[k] ELSE d[k - n]
    <2>1. /\ e \in Seq(S) /\ Len(e) = Len(q) + Len(d)
          /\ \A k \in 1..(Len(q) + Len(d)) : e[k] = IF k <= Len(q) THEN q[k] ELSE d[k - Len(q)]
      BY <1>3, <1>4, <1>5, ConcatProperties
    <2>2. Len(q) + Len(d) = l /\ Len(q) = n
      BY <1>1, <1>3, <1>4
    <2> QED BY <2>1, <2>2
  <1>7. ASSUME NEW k \in 1..l PROVE e[k] = b[k]
    <2>1. CASE k <= n
      <3>1. k \in 1..n
        BY <2>1
      <3> QED BY <1>3, <1>6, <2>1, <3>1
    <2>2. CASE ~(k <= n)
      <3>1. k - n \in 1..(l - n) /\ n + (k - n) = k
        BY <1>1, <2>2
      <3> QED BY <1>4, <1>6, <2>2, <3>1
    <2> QED BY <2>1, <2>2
  <1>8. e = b
    BY <1>1, <1>6, <1>7, SeqEqual
  <1> QED BY <1>1, <1>2, <1>3, <1>4, <1>5, <1>8

\* The prefix of the mapped addresses before four bytes, and taken off again.
LEMMA PrefixFacts ==
    /\ Address!Prefix \in Seq(Byte) /\ Len(Address!Prefix) = 12
  BY DEF Address!Prefix, Byte

LEMMA MappedOfV4 ==
    ASSUME NEW a \in Bytes(4)
    PROVE  LET b == Address!Prefix \o a
           IN  /\ b \in Bytes(16) /\ SubSeq(b, 1, 12) = Address!Prefix /\ SubSeq(b, 13, 16) = a
  <1>1. PICK q \in Seq(Byte) : q = Address!Prefix /\ Len(q) = 12
    BY PrefixFacts
  <1>2. a \in Seq(Byte) /\ Len(a) = 4
    BY DEF Bytes
  <1>3. PICK b : b = q \o a
    OBVIOUS
  <1>4. b \in Seq(Byte) /\ Len(b) = Len(q) + Len(a)
    BY <1>2, <1>3, ConcatProperties
  <1>5. SubSeq(b, 1, Len(q)) = q /\ SubSeq(b, Len(q) + 1, Len(q) + Len(a)) = a
    BY <1>2, <1>3, PartsOfJoined
  <1>6. Len(q) + Len(a) = 16 /\ Len(q) + 1 = 13
    BY <1>1, <1>2
  <1> QED BY <1>1, <1>3, <1>4, <1>5, <1>6 DEF Bytes

LEMMA V4OfMapped ==
    ASSUME NEW b \in Bytes(16), SubSeq(b, 1, 12) = Address!Prefix
    PROVE  SubSeq(b, 13, 16) \in Bytes(4) /\ Address!Prefix \o SubSeq(b, 13, 16) = b
  <1>1. b \in Seq(Byte) /\ Len(b) = 16
    BY DEF Bytes
  <1>2. PICK n : n = 12 /\ n \in 0..Len(b) /\ n + 1 = 13 /\ Len(b) - n = 4
    BY <1>1
  <1>3. /\ SubSeq(b, n + 1, Len(b)) \in Seq(Byte) /\ Len(SubSeq(b, n + 1, Len(b))) = Len(b) - n
        /\ SubSeq(b, 1, n) \o SubSeq(b, n + 1, Len(b)) = b
    BY <1>1, <1>2, JoinedParts
  <1> QED BY <1>1, <1>2, <1>3 DEF Bytes

\* operator==() is equality of what is meant.
LEMMA SameMeansSame ==
    ASSUME NEW a, NEW b, IsAddress(a), IsAddress(b)
    PROVE  /\ Address!Same(a, b) <=> Address!Mapped(a) = Address!Mapped(b)
           /\ Address!Same(a, b) <=> Address!Same(b, a)
  <1>1. CASE a.family = 1 /\ b.family = 1
    <2>1. a.bytes \in Bytes(4) /\ b.bytes \in Bytes(4)
      BY <1>1 DEF IsAddress
    <2>2. Address!Prefix \o a.bytes = Address!Prefix \o b.bytes => a.bytes = b.bytes
      <3>1. SubSeq(Address!Prefix \o a.bytes, 13, 16) = a.bytes /\ SubSeq(Address!Prefix \o b.bytes, 13, 16) = b.bytes
        BY <2>1, MappedOfV4
      <3> QED BY <3>1
    <2>3. Address!Same(a, b) <=> a.bytes = b.bytes
      BY <1>1 DEF Address!Same, Address!V4, Address!V6
    <2>4. Address!Same(b, a) <=> a.bytes = b.bytes
      BY <1>1 DEF Address!Same, Address!V4, Address!V6
    <2>5. Address!Mapped(a) = Address!Prefix \o a.bytes /\ Address!Mapped(b) = Address!Prefix \o b.bytes
      BY <1>1 DEF Address!Mapped, Address!V4
    <2> QED BY <2>2, <2>3, <2>4, <2>5
  <1>2. CASE a.family = 2 /\ b.family = 2
    BY <1>2 DEF Address!Same, Address!Mapped, Address!V4
  <1>3. ASSUME NEW x, NEW y, IsAddress(x), IsAddress(y), x.family = 1, y.family = 2
        PROVE  /\ Address!Same(x, y) <=> Address!Mapped(x) = Address!Mapped(y)
               /\ Address!Same(y, x) <=> Address!Mapped(x) = Address!Mapped(y)
    <2>1. x.bytes \in Bytes(4) /\ y.bytes \in Bytes(16)
      BY <1>3 DEF IsAddress
    <2>2. Address!Mapped(x) = Address!Prefix \o x.bytes /\ Address!Mapped(y) = y.bytes
      BY <1>3 DEF Address!Mapped, Address!V4
    <2> DEFINE Fits == SubSeq(y.bytes, 1, 12) = Address!Prefix /\ SubSeq(y.bytes, 13, 16) = x.bytes
    <2>3. Address!Same(x, y) <=> Fits
      BY <1>3 DEF Address!Same, Address!IsV4Mapped, Address!V4, Address!V6
    <2>4. Address!Same(y, x) <=> Fits
      BY <1>3 DEF Address!Same, Address!IsV4Mapped, Address!V4, Address!V6
    <2>5. Fits => Address!Prefix \o x.bytes = y.bytes
      BY <2>1, V4OfMapped
    <2>6. Address!Prefix \o x.bytes = y.bytes => Fits
      BY <2>1, MappedOfV4
    <2> QED BY <2>2, <2>3, <2>4, <2>5, <2>6
  <1>4. a.family \in {1, 2} /\ b.family \in {1, 2}
    BY DEF IsAddress
  <1> QED BY <1>1, <1>2, <1>3, <1>4

LEMMA WhatIsGiven ==
    ASSUME AddressesGiven
    PROVE  V4Hosts \subseteq Bytes(4) /\ V6Hosts \subseteq Bytes(16) /\ Ports \subseteq Word
  BY DEF AddressesGiven

\* Hosts are addresses, and only they are taken.
LEMMA HostsAreAddresses ==
    ASSUME AddressesGiven, NEW h \in Address!Hosts
    PROVE  IsAddress(h) /\ h.family \in {1, 2} /\ h # NULL
  <1>1. CASE \E b \in V4Hosts : h = Address!Ip(1, b)
    <2>1. PICK b \in V4Hosts : h = Address!Ip(1, b)
      BY <1>1
    <2>2. h.family = 1 /\ h.bytes = b
      BY <2>1 DEF Address!Ip
    <2>3. b \in Bytes(4)
      <3>1. V4Hosts \subseteq Bytes(4)
        BY WhatIsGiven
      <3> QED BY <3>1
    <2> QED BY <2>2, <2>3 DEF IsAddress, AddressesGiven
  <1>2. CASE \E b \in V6Hosts : h = Address!Ip(2, b)
    <2>1. PICK b \in V6Hosts : h = Address!Ip(2, b)
      BY <1>2
    <2>2. h.family = 2 /\ h.bytes = b
      BY <2>1 DEF Address!Ip
    <2>3. b \in Bytes(16)
      <3>1. V6Hosts \subseteq Bytes(16)
        BY WhatIsGiven
      <3> QED BY <3>1
    <2> QED BY <2>2, <2>3 DEF IsAddress, AddressesGiven
  <1> QED BY <1>1, <1>2 DEF Address!Hosts, Address!V4, Address!V6

LEMMA TakenAreHosts ==
    ASSUME NEW h \in Address!Hosts \cup {Address!NotAHost}, NEW room, NEW bytes,
           Address!Taken(h, room, bytes) # 0
    PROVE  h \in Address!Hosts
  BY DEF Address!Taken, Address!NotAHost, Address!Ip, Address!V4, Address!V6

\* The order of the bytes of a port is undone.
LEMMA PortOrder ==
    ASSUME NEW p \in Word
    PROVE  Address!Ntohs(Address!Htons(p)) = p
  <1>1. \A q \in Int : 256 * (q \div 256) + (q % 256) = q
    OBVIOUS
  <1>2. p \in Int
    BY DEF Word
  <1> QED BY <1>1, <1>2 DEF Address!Ntohs, Address!Htons

\* What toV6() and toV4() make means what it was made of.
LEMMA ToV6Means ==
    ASSUME NEW a, IsAddress(a), a.family = 1
    PROVE  LET b == Address!Ip(2, Address!Prefix \o a.bytes)
           IN  IsAddress(b) /\ Address!Mapped(b) = Address!Mapped(a)
  <1>1. Address!Prefix \o a.bytes \in Bytes(16)
    BY MappedOfV4 DEF IsAddress
  <1> QED BY <1>1 DEF IsAddress, Address!Ip, Address!Mapped, Address!V4

LEMMA ToV4Means ==
    ASSUME NEW a, IsAddress(a), a.family = 2, Address!IsV4Mapped(a.bytes)
    PROVE  LET b == Address!Ip(1, SubSeq(a.bytes, 13, 16))
           IN  IsAddress(b) /\ Address!Mapped(b) = Address!Mapped(a)
  <1>1. /\ SubSeq(a.bytes, 13, 16) \in Bytes(4)
        /\ Address!Prefix \o SubSeq(a.bytes, 13, 16) = a.bytes
    BY V4OfMapped DEF IsAddress, Address!IsV4Mapped
  <1> QED BY <1>1 DEF IsAddress, Address!Ip, Address!Mapped, Address!V4

\* A socket address of an address that means the host.
LEMMA SocketAddressMeans ==
    ASSUME NEW a, IsAddress(a), NEW p
    PROVE  LET b == Address!SocketAddress(a, p)
           IN  /\ IsAddress(b) /\ Address!Mapped(b) = Address!Mapped(a) /\ b.port = Address!Htons(p)
               /\ b = [family |-> b.family, port |-> b.port, bytes |-> b.bytes]
  <1>1. PICK b : b = Address!SocketAddress(a, p)
    OBVIOUS
  <1>2. /\ b = [family |-> a.family, port |-> Address!Htons(p), bytes |-> a.bytes]
        /\ b.family = a.family /\ b.bytes = a.bytes /\ b.port = Address!Htons(p)
    BY <1>1 DEF Address!SocketAddress
  <1>3. IsAddress(b) /\ Address!Mapped(b) = Address!Mapped(a)
    BY <1>2 DEF IsAddress, Address!Mapped
  <1> QED BY <1>1, <1>2, <1>3

-----------------------------------------------------------------------------
LEMMA AddressIndInit == Address!Init => AddressInd
  BY DEF Address!Init, AddressInd

\* Where there is no host, there is no address of it.
LEMMA NoHostNoAddress ==
    ASSUME AddressesGiven, AddressInd, host = NULL
    PROVE  ip \in {NULL, Address!Undefined} /\ tcp = NULL /\ bound = NULL
  BY DEF AddressesGiven, AddressInd, MeansHost, MeansSocket

LEMMA ParseIpStep ==
    ASSUME AddressesGiven, AddressInd, NEW h \in Address!Hosts \cup {Address!NotAHost}, NEW room,
           Address!ParseIp(h, room)
    PROVE  AddressInd'
  <1>1. ip \in {NULL, Address!Undefined} /\ tcp = NULL /\ bound = NULL
    BY NoHostNoAddress DEF Address!ParseIp
  <1>2. UNCHANGED <<port, tcp, fd, bound>>
    BY DEF Address!ParseIp
  <1>3. CASE h \in Address!Hosts /\ host' = h /\ ip' = h
    <2>1. IsAddress(h)
      BY <1>3, HostsAreAddresses
    <2>2. MeansHost(ip)'
      BY <1>3, <2>1 DEF MeansHost, IsAddress, Address!Mapped
    <2> QED BY <1>1, <1>2, <1>3, <2>2 DEF AddressInd
  <1>4. CASE UNCHANGED <<host, ip>>
    BY <1>1, <1>2, <1>4 DEF AddressInd
  <1> QED BY <1>3, <1>4, TakenAreHosts DEF Address!ParseIp

LEMMA ParseTcpStep ==
    ASSUME AddressesGiven, AddressInd, NEW h \in Address!Hosts \cup {Address!NotAHost},
           NEW p \in Ports, NEW room, Address!ParseTcp(h, p, room)
    PROVE  AddressInd'
  <1>1. ip \in {NULL, Address!Undefined} /\ tcp = NULL /\ bound = NULL
    BY NoHostNoAddress DEF Address!ParseTcp
  <1>2. UNCHANGED <<ip, fd, bound>>
    BY DEF Address!ParseTcp
  <1>3. CASE h \in Address!Hosts /\ tcp' = Address!SocketAddress(h, p) /\ host' = h /\ port' = p
    <2>1. IsAddress(h)
      BY <1>3, HostsAreAddresses
    <2>2. MeansSocket(tcp, p)'
      BY <1>3, <2>1, SocketAddressMeans DEF MeansSocket, MeansHost
    <2> QED BY <1>1, <1>2, <1>3, <2>2 DEF AddressInd
  <1>4. CASE UNCHANGED <<host, port, tcp>>
    BY <1>1, <1>2, <1>4 DEF AddressInd
  <1> QED BY <1>3, <1>4, TakenAreHosts DEF Address!ParseTcp

\* The other steps leave the host, so that what meant it still does.
LEMMA StillMeans ==
    ASSUME UNCHANGED host
    PROVE  /\ \A a : MeansHost(a)' <=> MeansHost(a)
           /\ UNCHANGED port => \A a, p : MeansSocket(a, p)' <=> MeansSocket(a, p)
  BY DEF MeansHost, MeansSocket

\* An address of a family is one that means the host.
LEMMA ConvertedMeans ==
    ASSUME AddressInd, ip # NULL, ip.family \in {1, 2}
    PROVE  MeansHost(ip)
  <1>1. Address!Undefined.family = -1
    BY DEF Address!Undefined, Address!Ip
  <1> QED BY <1>1 DEF AddressInd

LEMMA ConvertStep ==
    ASSUME AddressesGiven, AddressInd, NEW room, Address!ToV6(room) \/ Address!ToV4(room)
    PROVE  AddressInd'
  <1>1. UNCHANGED <<host, port, tcp, fd, bound>>
    BY DEF Address!ToV6, Address!ToV4
  <1>2. ip' \in {NULL, Address!Undefined} \/ MeansHost(ip)'
    <2>1. CASE ip' = ip \/ ip' = Address!Undefined
      BY <1>1, <2>1, StillMeans DEF AddressInd, MeansHost
    <2>2. CASE ip.family = 1 /\ ip' = Address!Ip(2, Address!Prefix \o ip.bytes)
      <3>1. MeansHost(ip)
        BY <2>2, ConvertedMeans DEF Address!ToV6, Address!ToV4
      <3> QED BY <1>1, <2>2, <3>1, ToV6Means DEF MeansHost
    <2>3. CASE /\ ip.family = 2 /\ Address!IsV4Mapped(ip.bytes)
               /\ ip' = Address!Ip(1, SubSeq(ip.bytes, 13, 16))
      <3>1. MeansHost(ip)
        BY <2>3, ConvertedMeans DEF Address!ToV6, Address!ToV4
      <3> QED BY <1>1, <2>3, <3>1, ToV4Means DEF MeansHost
    <2> QED BY <2>1, <2>2, <2>3 DEF Address!ToV6, Address!ToV4, Address!V4, Address!V6
  <1> QED BY <1>1, <1>2, StillMeans DEF AddressInd

LEMMA MakeTcpStep ==
    ASSUME AddressesGiven, AddressInd, NEW p \in Ports, Address!MakeTcp(p)
    PROVE  AddressInd'
  <1>1. /\ ip # NULL /\ ip.family \in {1, 2} /\ tcp = NULL
        /\ tcp' = Address!SocketAddress(ip, p) /\ port' = p /\ UNCHANGED <<host, ip, fd, bound>>
    BY DEF Address!MakeTcp, Address!V4, Address!V6
  <1>2. MeansHost(ip) /\ bound = NULL
    BY <1>1, ConvertedMeans DEF AddressInd
  <1>3. MeansSocket(tcp, p)'
    BY <1>1, <1>2, SocketAddressMeans DEF MeansSocket, MeansHost
  <1>4. ip' \in {NULL, Address!Undefined} \/ MeansHost(ip)'
    BY <1>1, <1>2, StillMeans
  <1> QED BY <1>1, <1>2, <1>3, <1>4 DEF AddressInd

LEMMA OpenStep ==
    ASSUME AddressesGiven, AddressInd, NEW protocal, Address!Open(protocal)
    PROVE  AddressInd'
  <1>1. fd = NULL /\ fd' \in {1, 2, NULL} /\ UNCHANGED <<host, port, ip, tcp, bound>>
    <2>1. fd' \in {1, 2, fd}
      <3> QED BY DEF Address!Open, Address!V4, Address!V6
    <2> QED BY <2>1 DEF Address!Open
  <1>2. bound = NULL
    BY <1>1 DEF AddressInd, AddressesGiven, MeansSocket, MeansHost, IsAddress
  <1> QED BY <1>1, <1>2, StillMeans DEF AddressInd

LEMMA BindStep ==
    ASSUME AddressesGiven, AddressInd, Address!Bind
    PROVE  AddressInd'
  <1>1. /\ tcp # NULL /\ bound = NULL /\ UNCHANGED <<host, port, ip, tcp, fd>>
    BY DEF Address!Bind
  <1>2. CASE UNCHANGED bound
    BY <1>1, <1>2, StillMeans DEF AddressInd
  <1>3. ASSUME tcp.family = fd,
               NEW p \in (IF tcp.port = Address!Htons(0) THEN Ports \ {0} ELSE {Address!Ntohs(tcp.port)}),
               bound' = [tcp EXCEPT !.port = Address!Htons(p)]
        PROVE  AddressInd'
    <2>1. PICK q \in Ports : MeansSocket(tcp, q) /\ q = port
      BY <1>1 DEF AddressInd
    <2>2. Ports \subseteq Word /\ tcp.port = Address!Htons(q) /\ Address!Ntohs(tcp.port) = q
      BY <2>1, WhatIsGiven, PortOrder DEF MeansSocket
    <2>3. p \in Ports /\ (p = port \/ port = 0)
      <3>1. CASE tcp.port = Address!Htons(0)
        <4>1. Address!Ntohs(Address!Htons(0)) = 0
          <5>1. 0 \in Word
            BY DEF Word
          <5> QED BY <5>1, PortOrder
        <4>2. q = 0
          BY <2>2, <3>1, <4>1
        <4> QED BY <1>3, <2>1, <3>1, <4>2
      <3>2. CASE tcp.port # Address!Htons(0)
        BY <1>3, <2>1, <2>2, <3>2
      <3> QED BY <3>1, <3>2
    <2>4. /\ bound' = [family |-> tcp.family, port |-> Address!Htons(p), bytes |-> tcp.bytes]
          /\ bound'.family = tcp.family /\ bound'.bytes = tcp.bytes /\ bound'.port = Address!Htons(p)
      BY <1>3, <2>1 DEF MeansSocket
    <2>5. MeansSocket(bound, p)'
      <3>1. MeansHost(tcp) /\ port \in Ports
        BY <2>1 DEF MeansSocket
      <3>2. MeansHost(bound)'
        BY <1>1, <2>4, <3>1 DEF MeansHost, IsAddress, Address!Mapped
      <3> QED BY <1>1, <2>3, <2>4, <3>1, <3>2 DEF MeansSocket
    <2>6. MeansSocket(tcp, q)' /\ (ip' \in {NULL, Address!Undefined} \/ MeansHost(ip)')
      BY <1>1, <2>1, StillMeans DEF AddressInd
    <2> QED BY <1>1, <1>3, <2>1, <2>3, <2>4, <2>5, <2>6 DEF AddressInd
  <1> QED BY <1>2, <1>3 DEF Address!Bind

LEMMA GetAddressStep ==
    ASSUME AddressesGiven, AddressInd, Address!GetAddress
    PROVE  AddressInd'
  <1>1. bound # NULL /\ tcp' \in {tcp, bound} /\ UNCHANGED <<host, port, ip, fd, bound>>
    BY DEF Address!GetAddress
  <1>2. CASE tcp' = tcp
    BY <1>1, <1>2, StillMeans DEF AddressInd
  <1>3. CASE tcp' = bound
    <2>1. PICK p \in Ports : MeansSocket(bound, p) /\ (p = port \/ port = 0)
      BY <1>1 DEF AddressInd
    <2>2. MeansSocket(bound, p)' /\ MeansSocket(tcp, p)'
      BY <1>1, <1>3, <2>1, StillMeans
    <2>3. ip' \in {NULL, Address!Undefined} \/ MeansHost(ip)'
      BY <1>1, StillMeans DEF AddressInd
    <2> QED BY <1>1, <1>3, <2>1, <2>2, <2>3 DEF AddressInd
  <1> QED BY <1>1, <1>2, <1>3

LEMMA AddressStep ==
    ASSUME AddressesGiven, AddressInd, [Address!Next]_Address!vars
    PROVE  AddressInd'
  <1>1. CASE UNCHANGED Address!vars
    BY <1>1, StillMeans DEF Address!vars, AddressInd
  <1>2. CASE Address!Next
    BY <1>2, ParseIpStep, ParseTcpStep, ConvertStep, MakeTcpStep, OpenStep, BindStep, GetAddressStep
       DEF Address!Next
  <1> QED BY <1>1, <1>2

LEMMA AddressIndImplies ==
    ASSUME AddressesGiven, AddressInd
    PROVE  Address!AddressInv
  <1>1. Address!TypeOK
    <2>1. ip # NULL => ip.family \in {1, 2, -1}
      BY DEF AddressInd, MeansHost, IsAddress, Address!Undefined, Address!Ip
    <2>2. tcp # NULL => tcp.family \in {1, 2} /\ Len(tcp.bytes) = Address!IpBytes[tcp.family]
      <3>1. tcp # NULL => IsAddress(tcp)
        BY DEF AddressInd, MeansSocket, MeansHost
      <3>2. Address!IpBytes[1] = 4 /\ Address!IpBytes[2] = 16
        BY DEF Address!IpBytes
      <3> QED BY <3>1, <3>2 DEF IsAddress, Bytes
    <2> QED BY <2>1, <2>2 DEF AddressInd, Address!TypeOK, Address!V4, Address!V6
  <1>2. Address!MeansWhatWasWritten
    <2>1. ASSUME tcp # NULL
          PROVE  /\ Address!Mapped(tcp) = Address!Mapped(host)
                 /\ Address!Ntohs(tcp.port) = port \/ (port = 0 /\ bound # NULL)
      <3>1. PICK p \in Ports : MeansSocket(tcp, p) /\ (p = port \/ (port = 0 /\ bound # NULL))
        BY <2>1 DEF AddressInd
      <3>2. p \in Word
        BY WhatIsGiven
      <3> QED BY <3>1, <3>2, PortOrder DEF MeansSocket, MeansHost
    <2> QED BY <2>1 DEF AddressInd, MeansHost, Address!MeansWhatWasWritten
  <1>3. Address!EqualityIsOfMeaning
    <2>1. ASSUME ip \notin {NULL, Address!Undefined}, NEW other \in Address!Hosts
          PROVE  /\ Address!Same(ip, other) <=> Address!Mapped(ip) = Address!Mapped(other)
                 /\ Address!Same(ip, other) <=> Address!Same(other, ip)
      <3>1. IsAddress(ip) /\ IsAddress(other)
        BY <2>1, HostsAreAddresses DEF AddressInd, MeansHost
      <3> QED BY <3>1, SameMeansSame
    <2> QED BY <2>1 DEF Address!EqualityIsOfMeaning
  <1>4. Address!BoundInItsFamily
    BY DEF AddressInd, Address!BoundInItsFamily
  <1> QED BY <1>1, <1>2, <1>3, <1>4 DEF Address!AddressInv

\* The part of the composition that is about addresses.
LEMMA AddressPart ==
    /\ Init /\ part = "address" => Address!Init
    /\ [Next]_vars => part' = part /\ (part = "address" => [Address!Next]_Address!vars)
  BY DEF Init, Next, Step, vars, pairGroup, addressGroup, Address!vars

\* Of the addresses, for any hosts and ports: along any way through the
\* conversions, an address and its port remain those that the caller wrote, or
\* the port is one that the kernel chose for it; equality across the two
\* families is that of the addresses meant.  Alone, and as a part of
\* MCUtilities.
THEOREM AddressSafety ==
    ASSUME AddressesGiven
    PROVE  (Address!Spec => []Address!AddressInv) /\ (Spec => []AddressInv)
  <1>1. Address!Spec => []Address!AddressInv
    BY AddressIndInit, AddressStep, AddressIndImplies, PTL DEF Address!Spec
  <1>2. Spec => []AddressInv
    <2> DEFINE PartInv == part = "address" => AddressInd
    <2>1. Init => PartInv
      BY AddressPart, AddressIndInit
    <2>2. PartInv /\ [Next]_vars => PartInv'
      BY AddressPart, AddressStep
    <2>3. PartInv => AddressInv
      BY AddressIndImplies DEF AddressInv
    <2> QED BY <2>1, <2>2, <2>3, PTL DEF Spec
  <1> QED BY <1>1, <1>2

-----------------------------------------------------------------------------
(* ListQueue *)

\* What ListProofs shows, for the constants of the queue with several consumers
\* and of that with one.
Several == INSTANCE ListProofs
            WITH AllocSize <- QueueChunk, MaxNodes <- QueueNodes, MaxValues <- QueueValues
One == INSTANCE ListProofs
            WITH Threads <- {Producer, Consumer}, AllocSize <- SingleChunk,
                 MaxNodes <- SingleNodes, MaxValues <- SingleValues

QueueGiven ==
    /\ QueueChunk \in Nat /\ QueueChunk >= 2 /\ QueueNodes \in Nat /\ QueueNodes >= 2
    /\ QueueValues \in Nat /\ Producer \in Threads
SingleGiven ==
    /\ SingleChunk \in Nat /\ SingleChunk >= 2 /\ SingleNodes \in Nat /\ SingleNodes >= 2
    /\ SingleValues \in Nat

LEMMA SeveralAgrees ==
    /\ QueueGiven <=> Several!QueueSizes
    /\ Queue!Init <=> Several!Init
    /\ [Queue!Next]_Queue!vars <=> [Several!Next]_Several!vars
    /\ Queue!FindsWhatIsThere <=> Several!FindsWhatIsThere
    /\ Queue!Fifo!FifoInit <=> Several!Fifo!FifoInit
    /\ [Queue!Fifo!FifoNext]_(Queue!Fifo!fifoVars) <=> [Several!Fifo!FifoNext]_(Several!Fifo!fifoVars)
  <1>1. QueueGiven <=> Several!QueueSizes
    BY DEF QueueGiven, Several!QueueSizes, Several!AllocatorSizes
  <1>2. /\ Queue!Init <=> Several!Init
        /\ [Queue!Next]_Queue!vars <=> [Several!Next]_Several!vars
    BY DEF
      Queue!Init, Queue!queueVars, Queue!vars, Queue!Consumers, Queue!Enqueue,
      Queue!EnqueueData, Queue!EnqueueLink, Queue!EnqueueHead, Queue!Take, Queue!DequeueMc,
      Queue!DequeueSc, Queue!DequeueLook, Queue!DequeueEmpty, Queue!DequeueMove,
      Queue!DequeueTail, Queue!ProducerStep, Queue!DequeueStep, Queue!ConsumerStep, Queue!Next,
      Queue!AllocatorInit, Queue!Nodes, Queue!Null, Queue!AllocStep, Queue!FreeStep,
      Queue!AllocTake, Queue!AllocLook, Queue!AllocPutBack, Queue!AllocAdvance,
      Queue!AllocClear, Queue!AllocGrow, Queue!AllocLink, Queue!FreeClear, Queue!FreeExchange,
      Queue!FreeLink, Queue!Goto, Queue!Finish, Queue!allocatorVars, Several!Init,
      Several!queueVars, Several!vars, Several!Consumers, Several!Enqueue, Several!EnqueueData,
      Several!EnqueueLink, Several!EnqueueHead, Several!Take, Several!DequeueMc,
      Several!DequeueSc, Several!DequeueLook, Several!DequeueEmpty, Several!DequeueMove,
      Several!DequeueTail, Several!ProducerStep, Several!DequeueStep, Several!ConsumerStep,
      Several!Next, Several!AllocatorInit, Several!Nodes, Several!Null, Several!AllocStep,
      Several!FreeStep, Several!AllocTake, Several!AllocLook, Several!AllocPutBack,
      Several!AllocAdvance, Several!AllocClear, Several!AllocGrow, Several!AllocLink,
      Several!FreeClear, Several!FreeExchange, Several!FreeLink, Several!Goto, Several!Finish,
      Several!allocatorVars
  <1>3. Queue!FindsWhatIsThere <=> Several!FindsWhatIsThere
    BY DEF
      Queue!FindsWhatIsThere, Queue!Consumers, Queue!DequeueLook, Queue!Goto, Queue!Null,
      Queue!queueVars, Several!FindsWhatIsThere, Several!Consumers, Several!DequeueLook,
      Several!Goto, Several!Null, Several!queueVars
  <1>4. /\ Queue!Fifo!FifoInit <=> Several!Fifo!FifoInit
        /\ [Queue!Fifo!FifoNext]_(Queue!Fifo!fifoVars) <=> [Several!Fifo!FifoNext]_(Several!Fifo!fifoVars)
    BY DEF
      Queue!Fifo!FifoInit, Queue!Fifo!FifoNext, Queue!Fifo!fifoVars, Queue!Fifo!Perform,
      Queue!Fifo!Accept, Queue!Fifo!Accepted, Several!Fifo!FifoInit, Several!Fifo!FifoNext,
      Several!Fifo!fifoVars, Several!Fifo!Perform, Several!Fifo!Accept, Several!Fifo!Accepted
  <1> QED BY <1>1, <1>2, <1>3, <1>4

LEMMA OneAgrees ==
    /\ SingleGiven <=> One!QueueSizes
    /\ Single!Init <=> One!Init
    /\ [Single!Next]_Single!vars <=> [One!Next]_One!vars
    /\ Single!FindsWhatIsThere <=> One!FindsWhatIsThere
    /\ Single!Fifo!FifoInit <=> One!Fifo!FifoInit
    /\ [Single!Fifo!FifoNext]_(Single!Fifo!fifoVars) <=> [One!Fifo!FifoNext]_(One!Fifo!fifoVars)
  <1>1. SingleGiven <=> One!QueueSizes
    BY DEF SingleGiven, One!QueueSizes, One!AllocatorSizes
  <1>2. /\ Single!Init <=> One!Init
        /\ [Single!Next]_Single!vars <=> [One!Next]_One!vars
    BY DEF
      Single!Init, Single!queueVars, Single!vars, Single!Consumers, Single!Enqueue,
      Single!EnqueueData, Single!EnqueueLink, Single!EnqueueHead, Single!Take,
      Single!DequeueMc, Single!DequeueSc, Single!DequeueLook, Single!DequeueEmpty,
      Single!DequeueMove, Single!DequeueTail, Single!ProducerStep, Single!DequeueStep,
      Single!ConsumerStep, Single!Next, Single!AllocatorInit, Single!Nodes, Single!Null,
      Single!AllocStep, Single!FreeStep, Single!AllocTake, Single!AllocLook,
      Single!AllocPutBack, Single!AllocAdvance, Single!AllocClear, Single!AllocGrow,
      Single!AllocLink, Single!FreeClear, Single!FreeExchange, Single!FreeLink, Single!Goto,
      Single!Finish, Single!allocatorVars, One!Init, One!queueVars, One!vars, One!Consumers,
      One!Enqueue, One!EnqueueData, One!EnqueueLink, One!EnqueueHead, One!Take, One!DequeueMc,
      One!DequeueSc, One!DequeueLook, One!DequeueEmpty, One!DequeueMove, One!DequeueTail,
      One!ProducerStep, One!DequeueStep, One!ConsumerStep, One!Next, One!AllocatorInit,
      One!Nodes, One!Null, One!AllocStep, One!FreeStep, One!AllocTake, One!AllocLook,
      One!AllocPutBack, One!AllocAdvance, One!AllocClear, One!AllocGrow, One!AllocLink,
      One!FreeClear, One!FreeExchange, One!FreeLink, One!Goto, One!Finish, One!allocatorVars
  <1>3. Single!FindsWhatIsThere <=> One!FindsWhatIsThere
    BY DEF
      Single!FindsWhatIsThere, Single!Consumers, Single!DequeueLook, Single!Goto, Single!Null,
      Single!queueVars, One!FindsWhatIsThere, One!Consumers, One!DequeueLook, One!Goto,
      One!Null, One!queueVars
  <1>4. /\ Single!Fifo!FifoInit <=> One!Fifo!FifoInit
        /\ [Single!Fifo!FifoNext]_(Single!Fifo!fifoVars) <=> [One!Fifo!FifoNext]_(One!Fifo!fifoVars)
    BY DEF
      Single!Fifo!FifoInit, Single!Fifo!FifoNext, Single!Fifo!fifoVars, Single!Fifo!Perform,
      Single!Fifo!Accept, Single!Fifo!Accepted, One!Fifo!FifoInit, One!Fifo!FifoNext,
      One!Fifo!fifoVars, One!Fifo!Perform, One!Fifo!Accept, One!Fifo!Accepted
  <1> QED BY <1>1, <1>2, <1>3, <1>4

\* The part of the composition that is about each queue.
LEMMA QueueParts ==
    /\ Init /\ part = "queue" => Queue!Init
    /\ Init /\ part = "single" => Single!Init
    /\ [Next]_vars => /\ part' = part
                      /\ part = "queue" => [Queue!Next]_Queue!vars
                      /\ part = "single" => [Single!Next]_Single!vars
  BY DEF Init, Next, Step, vars, nodeGroup, queueGroup, Queue!vars, Queue!allocatorVars, Queue!queueVars,
     Single!vars, Single!allocatorVars, Single!queueVars

\* Of ListQueue, for any threads, any size of the chunks and any number of
\* nodes and values: a dequeue answers false only if the queue was empty when
\* it looked.  Alone, and as a part of MCUtilities.
THEOREM QueueSafety ==
    ASSUME QueueGiven
    PROVE  (Queue!Spec => [][Queue!FindsWhatIsThere]_Queue!vars) /\ (Spec => FalseMeansEmpty)
  <1>1. Queue!Init => Several!QueueInd
    BY SeveralAgrees, Several!QueueIndInit
  <1>2. Several!QueueInd /\ [Queue!Next]_Queue!vars => Several!QueueInd'
    BY SeveralAgrees, Several!QueueStep
  <1>3. Several!QueueInd => Queue!FindsWhatIsThere
    BY SeveralAgrees, Several!NothingIsThere
  <1>4. Queue!Spec => [][Queue!FindsWhatIsThere]_Queue!vars
    <2>1. Several!QueueInd /\ [Queue!Next]_Queue!vars => [Queue!FindsWhatIsThere]_Queue!vars
      BY <1>3
    <2> QED BY <1>1, <1>2, <2>1, PTL DEF Queue!Spec
  <1>5. Spec => FalseMeansEmpty
    <2> DEFINE PartInv == part = "queue" => Several!QueueInd
               Finds == part = "queue" => Queue!FindsWhatIsThere
    <2>1. Init => PartInv
      BY <1>1, QueueParts
    <2>2. PartInv /\ [Next]_vars => PartInv'
      BY <1>2, QueueParts
    <2>3. PartInv /\ [Next]_vars => [Finds]_vars
      BY <1>3
    <2>4. Spec => [][Finds]_vars
      BY <2>1, <2>2, <2>3, PTL DEF Spec
    <2> QED BY <2>4 DEF FalseMeansEmpty
  <1> QED BY <1>4, <1>5

\* Of ListQueue: every value is taken once, in the order in which it was linked
\* in, also when its node was used before.  Alone, with one consumer and with
\* several, and as a part of MCUtilities.
THEOREM QueueIsFifo ==
    ASSUME QueueGiven, SingleGiven, QueueValues <= SingleValues
    PROVE  /\ Queue!Spec => Queue!ImplementsFifo
           /\ Single!Spec => Single!ImplementsFifo
           /\ Spec => ImplementsFifo
  <1>1. /\ Queue!Init => Several!QueueInd /\ Queue!Fifo!FifoInit
        /\ Several!QueueInd /\ [Queue!Next]_Queue!vars =>
                Several!QueueInd' /\ [Queue!Fifo!FifoNext]_(Queue!Fifo!fifoVars)
    BY SeveralAgrees, Several!QueueIndInit, Several!FifoStart, Several!QueueStep, Several!FifoStep
  <1>2. /\ Single!Init => One!QueueInd /\ Single!Fifo!FifoInit
        /\ One!QueueInd /\ [Single!Next]_Single!vars =>
                One!QueueInd' /\ [Single!Fifo!FifoNext]_(Single!Fifo!fifoVars)
    <2>1. One!QueueSizes
      BY OneAgrees
    <2> QED BY <2>1, OneAgrees, One!QueueIndInit, One!FifoStart, One!QueueStep, One!FifoStep
  <1>3. Queue!Spec => Queue!ImplementsFifo
    BY <1>1, PTL DEF Queue!Spec, Queue!ImplementsFifo, Queue!Fifo!FifoSpec
  <1>4. Single!Spec => Single!ImplementsFifo
    BY <1>2, PTL DEF Single!Spec, Single!ImplementsFifo, Single!Fifo!FifoSpec
  <1>5. Spec => ImplementsFifo
    <2> DEFINE PartInv == /\ part = "queue" => Several!QueueInd
                          /\ part = "single" => One!QueueInd
    <2>1. Init => PartInv
      BY <1>1, <1>2, QueueParts
    <2>2. PartInv /\ [Next]_vars => PartInv'
      BY <1>1, <1>2, QueueParts
    <2>3. Init => Single!Fifo!FifoInit
      <3>1. Queue!Fifo!FifoInit => Single!Fifo!FifoInit
        BY DEF Queue!Fifo!FifoInit, Single!Fifo!FifoInit
      <3>2. Init => \/ part \in {"queue", "single"}
                    \/ entered = <<>> /\ taken = <<>>
        BY DEF Init, NoQueue, Absent
      <3>3. entered = <<>> /\ taken = <<>> => Single!Fifo!FifoInit
        BY SubSeqEmpty DEF Single!Fifo!FifoInit
      <3> QED BY <1>1, <1>2, QueueParts, <3>1, <3>2, <3>3
    <2>4. PartInv /\ [Next]_vars => [Single!Fifo!FifoNext]_(Single!Fifo!fifoVars)
      <3> SUFFICES ASSUME PartInv, [Next]_vars PROVE [Single!Fifo!FifoNext]_(Single!Fifo!fifoVars)
        OBVIOUS
      <3>1. CASE part = "queue"
        <4>1. [Queue!Fifo!FifoNext]_(Queue!Fifo!fifoVars)
          BY <1>1, <3>1, QueueParts
        <4>2. 1..QueueValues \subseteq 1..SingleValues
          BY DEF QueueGiven, SingleGiven
        <4> QED BY <4>1, <4>2 DEF Queue!Fifo!FifoNext, Single!Fifo!FifoNext, Queue!Fifo!fifoVars,
                Single!Fifo!fifoVars, Queue!Fifo!Accept, Single!Fifo!Accept, Queue!Fifo!Accepted,
                Single!Fifo!Accepted, Queue!Fifo!Perform, Single!Fifo!Perform
      <3>2. CASE part = "single"
        BY <1>2, <3>2, QueueParts
      <3>3. CASE part \notin {"queue", "single"}
        <4>1. UNCHANGED <<entered, taken>>
          BY <3>3 DEF Next, Step, vars, queueGroup
        <4> QED BY <4>1 DEF Single!Fifo!fifoVars
      <3> QED BY <3>1, <3>2, <3>3
    <2> QED BY <2>1, <2>2, <2>3, <2>4, PTL DEF Spec, ImplementsFifo, Single!ImplementsFifo, Single!Fifo!FifoSpec
  <1> QED BY <1>3, <1>4, <1>5

-----------------------------------------------------------------------------
(* ObjectPool *)

\* What ListProofs shows, for the constants of the pool.
PoolFacts == INSTANCE ListProofs WITH AllocSize <- PoolChunk, MaxNodes <- PoolNodes

PoolSizes == PoolChunk \in Nat /\ PoolChunk >= 2 /\ PoolNodes \in Nat /\ PoolNodes >= 2

LEMMA PoolAgrees ==
    /\ Pool!AllocatorInit <=> PoolFacts!AllocatorInit
    /\ Pool!Nodes = PoolFacts!Nodes /\ Pool!Null = PoolFacts!Null
    /\ Pool!AllocatorTypeOK <=> PoolFacts!AllocatorTypeOK
    /\ \A t \in Threads : Pool!AllocStep(t) \/ Pool!FreeStep(t) <=>
                          PoolFacts!AllocStep(t) \/ PoolFacts!FreeStep(t)
    /\ PoolSizes <=> PoolFacts!AllocatorSizes
  BY DEF PoolSizes, PoolFacts!AllocatorSizes,
     Pool!AllocatorInit, Pool!Nodes, Pool!Null, Pool!AllocatorTypeOK, Pool!AllocStep, Pool!FreeStep,
     Pool!AllocTake, Pool!AllocLook, Pool!AllocPutBack, Pool!AllocAdvance, Pool!AllocClear,
     Pool!AllocGrow, Pool!AllocLink, Pool!FreeClear, Pool!FreeExchange, Pool!FreeLink,
     Pool!Goto, Pool!Finish,
     PoolFacts!AllocatorInit, PoolFacts!Nodes, PoolFacts!Null, PoolFacts!AllocatorTypeOK,
     PoolFacts!AllocStep, PoolFacts!FreeStep,
     PoolFacts!AllocTake, PoolFacts!AllocLook, PoolFacts!AllocPutBack, PoolFacts!AllocAdvance,
     PoolFacts!AllocClear, PoolFacts!AllocGrow, PoolFacts!AllocLink, PoolFacts!FreeClear,
     PoolFacts!FreeExchange, PoolFacts!FreeLink, PoolFacts!Goto, PoolFacts!Finish

\* The nodes that are out are the list's own first node, the objects, and those
\* that alloc() has just given out.
PoolOut ==
    /\ 1 \in out /\ 1 \notin objects /\ objects \subseteq out
    /\ \A t \in Threads : pc[t] = "allocated" => node[t] \in out /\ node[t] # 1 /\ node[t] \notin objects
    /\ \A t, u \in Threads : pc[t] = "allocated" /\ pc[u] = "allocated" /\ node[t] = node[u] => t = u
    /\ \A n \in out : n = 1 \/ n \in objects \/ \E t \in Threads : pc[t] = "allocated" /\ node[t] = n

PoolInd == PoolFacts!FreeListInv /\ PoolOut

LEMMA PoolIndInit == ASSUME PoolSizes PROVE Pool!Init => PoolInd
  <1> SUFFICES ASSUME Pool!Init PROVE PoolInd
    OBVIOUS
  <1>1. PoolFacts!FreeListInv
    BY PoolAgrees, PoolFacts!AllocatorStarts DEF Pool!Init
  <1> QED BY <1>1 DEF PoolInd, PoolOut, Pool!Init, Pool!AllocatorInit

LEMMA PoolStep ==
    ASSUME PoolSizes, PoolInd, [Pool!Next]_Pool!vars
    PROVE  PoolInd'
  <1>1. PICK list : PoolFacts!IsFreeList(list)
    BY DEF PoolInd, PoolFacts!FreeListInv
  <1>2. PoolFacts!ListBounds(list)
    BY <1>1, PoolAgrees, PoolFacts!ListFacts
  <1>3. \A t \in Threads : pc[t] \in {"alloc_clear", "alloc_link"} => node[t] \notin out
    BY <1>1 DEF PoolFacts!IsFreeList, PoolFacts!OnePlace, PoolFacts!Holds
  <1>4. CASE UNCHANGED Pool!vars
    <2>1. PoolFacts!ListRests /\ out' = out /\ \A u \in Threads : PoolFacts!Stands(u)
      BY <1>2, <1>4 DEF Pool!vars, Pool!allocatorVars, PoolFacts!ListBounds, PoolFacts!ListRests,
         PoolFacts!Stands
    <2>2. PoolFacts!FreeListInv'
      BY <2>1, PoolAgrees, PoolFacts!OutsideKeeps DEF PoolInd
    <2> QED BY <1>4, <2>2 DEF Pool!vars, Pool!allocatorVars, PoolInd, PoolOut
  <1>5. ASSUME NEW t \in Threads, Pool!AllocStep(t) \/ Pool!FreeStep(t), UNCHANGED objects
        PROVE  PoolInd'
    <2>1. PoolFacts!FreeListInv'
      BY <1>5, PoolAgrees, PoolFacts!AllocatorKeeps DEF PoolInd
    <2>2. CASE Pool!AllocClear(t) \/ Pool!AllocLink(t)
      <3>1. /\ pc[t] \in {"alloc_clear", "alloc_link"} /\ pc'[t] = "allocated"
            /\ \A u \in Threads : u # t => pc'[u] = pc[u]
            /\ out' = out \cup {node[t]} /\ node' = node /\ node[t] \notin out
        BY <1>2, <1>3, <2>2 DEF Pool!AllocClear, Pool!AllocLink, Pool!Goto, PoolFacts!ListBounds
      <3> QED BY <1>5, <2>1, <3>1 DEF PoolInd, PoolOut
    <2>3. CASE ~Pool!AllocClear(t) /\ ~Pool!AllocLink(t)
      <3>1. /\ pc[t] # "allocated" /\ pc'[t] # "allocated" /\ out' = out
            /\ \A u \in Threads : u # t => pc'[u] = pc[u] /\ node'[u] = node[u]
        BY <1>2, <1>5, <2>3 DEF Pool!AllocStep, Pool!FreeStep, Pool!AllocTake, Pool!AllocLook,
           Pool!AllocPutBack, Pool!AllocAdvance, Pool!AllocGrow, Pool!FreeClear,
           Pool!FreeExchange, Pool!FreeLink, Pool!Goto, Pool!Finish, PoolFacts!ListBounds
      <3> QED BY <1>5, <2>1, <3>1 DEF PoolInd, PoolOut
    <2> QED BY <2>2, <2>3
  <1>6. ASSUME NEW t \in Threads, Pool!Alloc(t) \/ Pool!Allocated(t)
        PROVE  PoolInd'
    <2>1. /\ pc[t] \in {"idle", "allocated"} /\ pc'[t] \in {"alloc", "idle"}
          /\ PoolFacts!ListRests /\ out' = out
          /\ \A u \in Threads : u # t => PoolFacts!Stands(u)
      BY <1>2, <1>6 DEF Pool!Alloc, Pool!Allocated, Pool!Goto, Pool!Finish, Pool!Null, PoolFacts!Null,
         PoolFacts!ListBounds, PoolFacts!ListRests, PoolFacts!Stands
    <2>2. PoolFacts!Outside(t) /\ PoolFacts!Outside(t)'
      BY <2>1 DEF PoolFacts!Outside, PoolFacts!TakesTail, PoolFacts!Holds, PoolFacts!Appends
    <2>3. PoolFacts!FreeListInv'
      BY <2>1, <2>2, PoolAgrees, PoolFacts!OutsideKeeps DEF PoolInd
    <2>4. CASE Pool!Alloc(t)
      BY <1>2, <2>1, <2>3, <2>4 DEF Pool!Alloc, Pool!Goto, PoolInd, PoolOut, PoolFacts!ListBounds
    <2>5. CASE Pool!Allocated(t)
      <3>1. /\ pc[t] = "allocated" /\ pc'[t] = "idle" /\ objects' = objects \cup {node[t]}
            /\ \A u \in Threads : u # t => pc'[u] = pc[u] /\ node'[u] = node[u]
        BY <1>2, <2>5 DEF Pool!Allocated, Pool!Finish, Pool!Goto, PoolFacts!ListBounds
      <3> QED BY <2>1, <2>3, <3>1 DEF PoolInd, PoolOut
    <2> QED BY <1>6, <2>4, <2>5
  <1>7. ASSUME NEW t \in Threads, NEW n \in objects, Pool!Free(t, n)
        PROVE  PoolInd'
    <2>1. n \in out /\ n \in PoolFacts!Nodes
      BY <1>1 DEF PoolInd, PoolOut, PoolFacts!IsFreeList, PoolFacts!ListTypeOK, PoolFacts!AllocatorTypeOK
    <2>2. /\ pc[t] = "idle" /\ pc'[t] = "free" /\ objects' = objects \ {n} /\ node'[t] = n
          /\ PoolFacts!ListRests /\ out' = out \ {n} /\ link' = link
          /\ \A u \in Threads : u # t => PoolFacts!Stands(u)
      BY <1>2, <1>7, <2>1 DEF Pool!Free, Pool!Goto,
         PoolFacts!ListBounds, PoolFacts!ListRests, PoolFacts!Stands
    <2>3. PoolFacts!Outside(t)
      BY <2>2 DEF PoolFacts!Outside, PoolFacts!TakesTail, PoolFacts!Holds, PoolFacts!Appends
    <2>4. PoolFacts!FreeListInv'
      BY <2>1, <2>2, <2>3, PoolAgrees, PoolFacts!GiveBackKeeps DEF PoolInd
    <2> QED BY <2>1, <2>2, <2>4 DEF PoolInd, PoolOut, PoolFacts!Stands
  <1> QED BY <1>4, <1>5, <1>6, <1>7 DEF Pool!Next, Pool!Step, Pool!InAllocator

\* FreeList walks along the list.
LEMMA PoolWalk ==
    ASSUME PoolSizes, NEW list, PoolFacts!IsFreeList(list)
    PROVE  Pool!FreeList = {list[k] : k \in 1..Len(list)}
  <1>1. PoolFacts!ListBounds(list)
    BY PoolAgrees, PoolFacts!ListFacts
  <1>2. Pool!FreeListStart = list[1]
    <2>1. CASE free_tail # 0
      BY <2>1 DEF Pool!FreeListStart, Pool!Null, PoolFacts!Null, PoolFacts!IsFreeList, PoolFacts!ListEnds
    <2>2. CASE free_tail = 0
      <3>1. \E t \in Threads : Pool!TakenBy(t)
        BY <2>2 DEF Pool!TakenBy, PoolFacts!TakesTail, PoolFacts!Null, PoolFacts!IsFreeList, PoolFacts!ListEnds
      <3>2. \A t \in Threads : Pool!TakenBy(t) => node[t] = list[1]
        BY DEF Pool!TakenBy, PoolFacts!TakesTail, PoolFacts!IsFreeList, PoolFacts!ListEnds
      <3> QED BY <2>2, <3>1, <3>2 DEF Pool!FreeListStart, Pool!Null
    <2> QED BY <2>1, <2>2
  <1>3. Len(list) \in Nat /\ Len(list) >= 1
    BY <1>1 DEF PoolFacts!ListBounds, PoolFacts!IsFreeList, PoolFacts!ListTypeOK
  <1>4. ASSUME NEW t \in Threads, PoolFacts!Appends(t), NEW k \in 1..Len(list), succ[t] = list[k]
        PROVE  k < Len(list) /\ PoolFacts!Appended(t) = list[k + 1] /\ link[list[k]] = 0
    <2>1. PICK m \in 1..(Len(list) - 1) :
            succ[t] = list[m] /\ PoolFacts!Appended(t) = list[m + 1] /\ link[list[m]] = 0
      BY <1>4 DEF PoolFacts!IsFreeList, PoolFacts!LinksAreDue, PoolFacts!Null
    <2>2. m \in 1..Len(list) /\ m < Len(list)
      BY <1>3
    <2>3. m = k
      BY <1>4, <2>1, <2>2 DEF PoolFacts!IsFreeList, PoolFacts!ListTypeOK
    <2> QED BY <2>1, <2>2, <2>3
  <1>5. ASSUME NEW k \in 1..Len(list)
        PROVE  Pool!Hops[list[k]] = IF k < Len(list) THEN list[k + 1] ELSE 0
    <2>1. list[k] \in Pool!Nodes
      BY <1>1, PoolAgrees DEF PoolFacts!ListBounds
    <2>2. CASE link[list[k]] # 0
      <3>1. Pool!Hops[list[k]] = link[list[k]]
        BY <2>1, <2>2 DEF Pool!Hops, Pool!Null
      <3>2. k # Len(list)
        BY <2>2 DEF PoolFacts!IsFreeList, PoolFacts!ListEnds, PoolFacts!Null
      <3>3. k \in 1..(Len(list) - 1) /\ k < Len(list)
        BY <1>3, <3>2
      <3>4. link[list[k]] = list[k + 1]
        BY <1>4, <2>2, <3>3 DEF PoolFacts!IsFreeList, PoolFacts!LinksLead
      <3> QED BY <3>1, <3>3, <3>4
    <2>3. CASE link[list[k]] = 0 /\ \E t \in Threads : pc[t] = "free_link" /\ succ[t] = list[k]
      <3>1. PICK t \in Threads : /\ pc[t] = "free_link" /\ succ[t] = list[k]
                                 /\ Pool!Hops[list[k]] = node[t]
        BY <2>1, <2>3 DEF Pool!Hops, Pool!Null
      <3>2. PoolFacts!Appends(t) /\ PoolFacts!Appended(t) = node[t]
        BY <3>1 DEF PoolFacts!Appends, PoolFacts!Appended
      <3> QED BY <1>4, <3>1, <3>2
    <2>4. CASE /\ link[list[k]] = 0 /\ ~(\E t \in Threads : pc[t] = "free_link" /\ succ[t] = list[k])
               /\ \E t \in Threads : pc[t] = "alloc_link" /\ succ[t] = list[k]
      <3>1. PICK t \in Threads : /\ pc[t] = "alloc_link" /\ succ[t] = list[k]
                                 /\ Pool!Hops[list[k]] = node[t] + PoolChunk - 1
        BY <2>1, <2>4 DEF Pool!Hops, Pool!Null
      <3>2. PoolFacts!Appends(t) /\ PoolFacts!Appended(t) = node[t] + PoolChunk - 1
        BY <3>1 DEF PoolFacts!Appends, PoolFacts!Appended
      <3> QED BY <1>4, <3>1, <3>2
    <2>5. CASE /\ link[list[k]] = 0
               /\ ~(\E t \in Threads : pc[t] \in {"free_link", "alloc_link"} /\ succ[t] = list[k])
      <3>1. Pool!Hops[list[k]] = 0
        BY <2>1, <2>5 DEF Pool!Hops, Pool!Null
      <3>2. ~(k < Len(list))
        <4> SUFFICES ASSUME k < Len(list) PROVE FALSE
          OBVIOUS
        <4>1. k \in 1..(Len(list) - 1) /\ k + 1 \in 1..Len(list)
          BY <1>3
        <4>2. link[list[k]] # list[k + 1]
          BY <1>1, <2>5, <4>1 DEF PoolFacts!ListBounds, PoolFacts!Null
        <4> QED BY <2>5, <4>1, <4>2 DEF PoolFacts!IsFreeList, PoolFacts!LinksLead, PoolFacts!Appends
      <3> QED BY <3>1, <3>2
    <2> QED BY <2>2, <2>3, <2>4, <2>5
  <1>6. Len(list) <= PoolNodes
    BY PoolAgrees, PoolFacts!ListIsShort
  <1> DEFINE Walk == CHOOSE w : w = [k \in 0..PoolNodes |->
                        IF k = 0 THEN Pool!FreeListStart
                        ELSE IF w[k - 1] = Pool!Null THEN Pool!Null ELSE Pool!Hops[w[k - 1]]]
             Path == [k \in 0..PoolNodes |-> IF k < Len(list) THEN list[k + 1] ELSE 0]
             Wrong == {k \in 0..PoolNodes : Walk[k] # Path[k]}
  <1>7. Pool!FreeList = {Walk[k] : k \in 0..PoolNodes} \ {0}
    BY DEF Pool!FreeList, Pool!Null
  <1>8. \A k \in 0..PoolNodes :
            Path[k] = IF k = 0 THEN list[1]
                      ELSE IF Path[k - 1] = 0 THEN 0 ELSE Pool!Hops[Path[k - 1]]
    <2> SUFFICES ASSUME NEW k \in 0..PoolNodes, k # 0
                 PROVE  Path[k] = IF Path[k - 1] = 0 THEN 0 ELSE Pool!Hops[Path[k - 1]]
      BY <1>3
    <2>1. k \in Nat /\ k - 1 \in 0..PoolNodes /\ (k - 1) + 1 = k
      BY DEF PoolSizes
    <2>2. CASE k - 1 < Len(list)
      <3>1. k \in 1..Len(list) /\ list[k] # 0
        BY <1>1, <1>3, <2>1, <2>2 DEF PoolFacts!ListBounds, PoolFacts!Null
      <3>2. Path[k - 1] = list[k]
        BY <2>1, <2>2
      <3> QED BY <1>5, <3>1, <3>2
    <2>3. CASE ~(k - 1 < Len(list))
      BY <1>3, <2>1, <2>3
    <2> QED BY <2>2, <2>3
  <1>9. Walk = [k \in 0..PoolNodes |->
                    IF k = 0 THEN list[1]
                    ELSE IF Walk[k - 1] = 0 THEN 0 ELSE Pool!Hops[Walk[k - 1]]]
    <2>1. Path = [k \in 0..PoolNodes |->
                    IF k = 0 THEN list[1]
                    ELSE IF Path[k - 1] = 0 THEN 0 ELSE Pool!Hops[Path[k - 1]]]
      <3>1. \A f : f = Path => f = [k \in 0..PoolNodes |->
                    IF k = 0 THEN list[1]
                    ELSE IF f[k - 1] = 0 THEN 0 ELSE Pool!Hops[f[k - 1]]]
        BY <1>8
      <3> QED BY <3>1
    <2> HIDE DEF Path
    <2> QED BY <1>2, <2>1 DEF Pool!Null
  <1> HIDE DEF Walk
  <1>10. \A k \in 0..PoolNodes : Walk[k] = IF k = 0 THEN list[1]
                                ELSE IF Walk[k - 1] = 0 THEN 0 ELSE Pool!Hops[Walk[k - 1]]
    BY <1>9
  <1>11. Wrong = {}
    <2> SUFFICES ASSUME Wrong # {} PROVE FALSE
      OBVIOUS
    <2>1. Wrong \in SUBSET Nat
      BY DEF PoolSizes
    <2>2. PICK k \in Wrong : \A m \in Wrong : k <= m
      <3> HIDE DEF Wrong
      <3> QED BY <2>1, PoolFacts!LeastExists
    <2>3. k \in 0..PoolNodes /\ Walk[k] # Path[k]
      OBVIOUS
    <2>4. k # 0
      BY <1>8, <1>10, <2>3
    <2>5. k - 1 \in 0..PoolNodes /\ k - 1 \notin Wrong
      BY <2>2, <2>3, <2>4 DEF PoolSizes
    <2>6. Walk[k - 1] = Path[k - 1]
      BY <2>5
    <2> QED BY <1>8, <1>10, <2>3, <2>4, <2>6
  <1>12. Pool!FreeList = {Path[k] : k \in 0..PoolNodes} \ {0}
    BY <1>7, <1>11
  <1>13. \A k \in 1..Len(list) : k - 1 \in 0..PoolNodes /\ Path[k - 1] = list[k] /\ list[k] # 0
    BY <1>1, <1>3, <1>6 DEF PoolFacts!ListBounds, PoolFacts!Null, PoolSizes
  <1>14. \A k \in 0..PoolNodes : Path[k] # 0 => k + 1 \in 1..Len(list) /\ Path[k] = list[k + 1]
    BY <1>3 DEF PoolSizes
  <1> HIDE DEF Path
  <1> QED BY <1>12, <1>13, <1>14

LEMMA PoolImplies == ASSUME PoolSizes, PoolInd PROVE Pool!PoolInv
  <1>1. PICK list : PoolFacts!IsFreeList(list)
    BY DEF PoolInd, PoolFacts!FreeListInv
  <1>2. PoolFacts!ListBounds(list)
    BY <1>1, PoolAgrees, PoolFacts!ListFacts
  <1>3. Pool!TypeOK
    BY <1>1, PoolAgrees DEF Pool!TypeOK, PoolFacts!IsFreeList, PoolFacts!ListTypeOK, PoolInd, PoolOut,
       PoolFacts!AllocatorTypeOK
  <1>4. PICK free : free = Pool!FreeList
    OBVIOUS
  <1>5. \A n : n \in free <=> PoolFacts!InList(list, n)
    BY <1>1, <1>4, PoolWalk DEF PoolFacts!InList
  <1>6. \A t \in Threads : Pool!InHand(t) =
            IF PoolFacts!Holds(t) \/ pc[t] = "allocated" THEN {node[t]} ELSE {}
    BY DEF Pool!InHand, PoolFacts!Holds
  <1>7. PICK hands : hands = UNION {Pool!InHand(t) : t \in Threads}
    OBVIOUS
  <1>8. \A n : n \in hands <=> \E t \in Threads : n \in Pool!InHand(t)
    BY <1>7
  <1>9. created \in Nat /\ free_head \in free
    BY <1>1, <1>2, <1>5 DEF PoolFacts!ListBounds, PoolFacts!IsFreeList, PoolFacts!ListTypeOK, PoolFacts!ListEnds
  <1>10. /\ 1 \in out /\ 1 \notin objects /\ objects \subseteq out /\ out \subseteq 1..created
         /\ \A t \in Threads : pc[t] = "allocated" => node[t] \in out /\ node[t] # 1 /\ node[t] \notin objects
         /\ \A t, u \in Threads : pc[t] = "allocated" /\ pc[u] = "allocated" /\ node[t] = node[u] => t = u
         /\ \A n \in out : n = 1 \/ n \in objects \/ \E t \in Threads : pc[t] = "allocated" /\ node[t] = n
    BY <1>1 DEF PoolInd, PoolOut, PoolFacts!IsFreeList, PoolFacts!OnePlace
  <1>11. /\ \A n \in free : n \in 1..created /\ n \notin out
         /\ \A t \in Threads : PoolFacts!Holds(t) =>
                node[t] \in 1..created /\ node[t] \notin out /\ node[t] \notin free
         /\ \A t, u \in Threads : PoolFacts!Holds(t) /\ PoolFacts!Holds(u) /\ node[t] = node[u] => t = u
         /\ \A n \in 1..created :
                n \in out \/ n \in free \/ \E t \in Threads : PoolFacts!Holds(t) /\ node[t] = n
    <2>1. \A n : PoolFacts!InList(list, n) => \E k \in 1..Len(list) : list[k] = n
      BY DEF PoolFacts!InList
    <2> QED BY <1>1, <1>5, <2>1 DEF PoolFacts!IsFreeList, PoolFacts!OnePlace, PoolFacts!SomePlace
  <1>12. \A t \in Threads : \A n : n \in Pool!InHand(t) <=>
            (PoolFacts!Holds(t) \/ pc[t] = "allocated") /\ n = node[t]
    BY <1>6
  <1>13. \A n \in 1..created : n # 1 <=> n \in 2..created
    BY <1>9
  <1>14. \A n \in 2..created : n \in 1..created
    BY <1>9
  <1>15. free \cup hands \cup objects = 2..created
    <2>1. \A n \in free \cup hands \cup objects : n \in 1..created /\ n # 1
      <3>1. \A n \in free : n \in 1..created /\ n # 1
        BY <1>10, <1>11
      <3>2. \A n \in objects : n \in 1..created /\ n # 1
        BY <1>10
      <3>3. \A t \in Threads : pc[t] = "allocated" => node[t] \in 1..created /\ node[t] # 1
        BY <1>10
      <3>4. \A t \in Threads : PoolFacts!Holds(t) => node[t] \in 1..created /\ node[t] # 1
        BY <1>10, <1>11
      <3>5. \A n \in hands : n \in 1..created /\ n # 1
        BY <1>8, <1>12, <3>3, <3>4
      <3> QED BY <3>1, <3>2, <3>5
    <2>2. \A n \in 2..created : n \in free \cup hands \cup objects
      <3> SUFFICES ASSUME NEW n \in 2..created PROVE n \in free \/ n \in hands \/ n \in objects
        OBVIOUS
      <3>1. n \in 1..created /\ n # 1
        BY <1>13, <1>14
      <3>2. CASE n \in out
        BY <1>8, <1>10, <1>12, <3>1, <3>2
      <3>3. CASE n \notin out
        BY <1>8, <1>11, <1>12, <3>1, <3>3
      <3> QED BY <3>2, <3>3
    <2> QED BY <1>13, <2>1, <2>2
  <1>16. free \cap hands = {} /\ free \cap objects = {} /\ hands \cap objects = {}
    BY <1>8, <1>10, <1>11, <1>12
  <1>17. \A t, u \in Threads : t # u => Pool!InHand(t) \cap Pool!InHand(u) = {}
    BY <1>10, <1>11, <1>12
  <1>18. Pool!EveryNodeIsSomewhere
    BY <1>4, <1>7, <1>9, <1>15, <1>16, <1>17 DEF Pool!EveryNodeIsSomewhere
  <1> QED BY <1>3, <1>18 DEF Pool!PoolInv

-----------------------------------------------------------------------------

\* The part of the composition that is about the pool.
LEMMA PoolPart ==
    /\ Init /\ part = "pool" => Pool!Init
    /\ [Next]_vars => part' = part /\ (part = "pool" => [Pool!Next]_Pool!vars)
  BY DEF Init, Next, Step, vars, nodeGroup, Pool!vars, Pool!allocatorVars

\* Of ObjectPool, for any threads, any size of the chunks and any number of
\* nodes: no node is lost and none is in two places, in each state of the
\* two-step appends and of the chunk that is linked in.  Alone, and as a part
\* of MCUtilities.
THEOREM PoolSafety ==
    ASSUME PoolSizes
    PROVE  (Pool!Spec => []Pool!PoolInv) /\ (Spec => []PoolInv)
  <1>1. Pool!Spec => []Pool!PoolInv
    BY PoolIndInit, PoolStep, PoolImplies, PTL DEF Pool!Spec
  <1>2. Spec => []PoolInv
    <2> DEFINE PartInv == part = "pool" => PoolInd
    <2>1. Init => PartInv
      BY PoolPart, PoolIndInit
    <2>2. PartInv /\ [Next]_vars => PartInv'
      BY PoolPart, PoolStep
    <2>3. PartInv => PoolInv
      BY PoolImplies DEF PoolInv
    <2> QED BY <2>1, <2>2, <2>3, PTL DEF Spec
  <1> QED BY <1>1, <1>2

-----------------------------------------------------------------------------
(* AppendOnlyArray *)

\* The powers of two up to the n-th.
IsTable(g, n) ==
    g \in [0..n -> Nat] /\ \A k \in 0..n : g[k] = IF k = 0 THEN 1 ELSE 2 * g[k - 1]

\* Twofold is what its definition says.
LEMMA TwofoldIs ==
    /\ Array!Twofold \in [Nat -> Nat] /\ Array!Twofold[0] = 1
    /\ \A a \in Nat : Array!Twofold[a + 1] = 2 * Array!Twofold[a]
  <1>1. \A n \in Nat : \E g : IsTable(g, n)
    <2> DEFINE Wrong == {n \in Nat : ~\E g : IsTable(g, n)}
    <2> SUFFICES ASSUME Wrong # {} PROVE FALSE
      OBVIOUS
    <2>1. PICK n \in Wrong : \A m \in Wrong : n <= m
      <3>1. Wrong \in SUBSET Nat
        OBVIOUS
      <3> HIDE DEF Wrong
      <3> QED BY <3>1, PoolFacts!LeastExists
    <2>2. CASE n = 0
      <3>1. PICK g : g = [k \in 0..n |-> 1]
        OBVIOUS
      <3>2. IsTable(g, n)
        BY <2>2, <3>1 DEF IsTable
      <3> QED BY <3>2
    <2>3. CASE n # 0
      <3>1. n - 1 \in Nat /\ n - 1 \notin Wrong
        BY <2>1, <2>3
      <3>2. PICK g : IsTable(g, n - 1)
        BY <3>1
      <3>3. PICK h : h = [k \in 0..n |-> IF k < n THEN g[k] ELSE 2 * g[n - 1]]
        OBVIOUS
      <3>4. \A k \in 0..(n - 1) : g[k] \in Nat
        BY <3>2 DEF IsTable
      <3>5. \A k \in 0..n : h[k] = IF k < n THEN g[k] ELSE 2 * g[n - 1]
        BY <3>3
      <3>6. n - 1 \in 0..(n - 1) /\ \A k \in 0..n : k < n => k \in 0..(n - 1)
        BY <3>1
      <3>7. h \in [0..n -> Nat]
        BY <3>3, <3>4, <3>6
      <3>8. \A k \in 0..n : h[k] = IF k = 0 THEN 1 ELSE 2 * h[k - 1]
        <4> SUFFICES ASSUME NEW k \in 0..n PROVE h[k] = IF k = 0 THEN 1 ELSE 2 * h[k - 1]
          OBVIOUS
        <4>1. CASE k = n
          BY <2>3, <3>1, <3>5, <4>1
        <4>2. CASE k # n
          <5>1. k \in 0..(n - 1) /\ k < n /\ (k # 0 => k - 1 \in 0..(n - 1) /\ k - 1 < n)
            BY <4>2
          <5>2. h[k] = g[k] /\ (k # 0 => h[k - 1] = g[k - 1])
            BY <3>5, <5>1
          <5>3. g[k] = IF k = 0 THEN 1 ELSE 2 * g[k - 1]
            BY <3>2, <5>1 DEF IsTable
          <5> QED BY <5>2, <5>3
        <4> QED BY <4>1, <4>2
      <3> QED BY <3>7, <3>8 DEF IsTable
    <2> QED BY <2>2, <2>3
  <1>2. ASSUME NEW n \in Nat, NEW m \in Nat, NEW g, NEW h, IsTable(g, n), IsTable(h, m), n <= m
        PROVE  \A k \in 0..n : g[k] = h[k]
    <2> DEFINE Wrong == {k \in 0..n : g[k] # h[k]}
    <2> SUFFICES ASSUME Wrong # {} PROVE FALSE
      OBVIOUS
    <2>1. PICK k \in Wrong : \A j \in Wrong : k <= j
      <3>1. Wrong \in SUBSET Nat
        OBVIOUS
      <3> HIDE DEF Wrong
      <3> QED BY <3>1, PoolFacts!LeastExists
    <2>2. k \in 0..n /\ k \in 0..m /\ g[k] # h[k]
      BY <1>2
    <2>3. k # 0
      BY <1>2, <2>2 DEF IsTable
    <2>4. k - 1 \in 0..n /\ k - 1 \notin Wrong
      BY <2>1, <2>2, <2>3
    <2>5. g[k - 1] = h[k - 1]
      BY <2>4
    <2> QED BY <1>2, <2>2, <2>3, <2>5 DEF IsTable
  <1> DEFINE Table(n) == CHOOSE g : IsTable(g, n)
             F == [n \in Nat |-> Table(n)[n]]
  <1>3. \A n \in Nat : IsTable(Table(n), n)
    BY <1>1
  <1> HIDE DEF Table
  <1>4. \A n \in Nat : F[n] \in Nat /\ F[n] = IF n = 0 THEN 1 ELSE 2 * F[n - 1]
    <2> SUFFICES ASSUME NEW n \in Nat PROVE F[n] \in Nat /\ F[n] = IF n = 0 THEN 1 ELSE 2 * F[n - 1]
      OBVIOUS
    <2>1. F[n] = Table(n)[n] /\ n \in 0..n
      OBVIOUS
    <2>2. F[n] \in Nat /\ Table(n)[n] = IF n = 0 THEN 1 ELSE 2 * Table(n)[n - 1]
      BY <1>3, <2>1 DEF IsTable
    <2>3. n # 0 => F[n - 1] = Table(n)[n - 1]
      <3> SUFFICES ASSUME n # 0 PROVE F[n - 1] = Table(n)[n - 1]
        OBVIOUS
      <3>1. n - 1 \in Nat /\ n - 1 \in 0..(n - 1) /\ n - 1 <= n
        OBVIOUS
      <3>2. F[n - 1] = Table(n - 1)[n - 1]
        BY <3>1
      <3>3. IsTable(Table(n - 1), n - 1) /\ IsTable(Table(n), n)
        BY <1>3, <3>1
      <3> HIDE DEF F
      <3> QED BY <1>2, <3>1, <3>2, <3>3
    <2> QED BY <2>1, <2>2, <2>3
  <1>5. Array!Twofold = [a \in Nat |-> IF a = 0 THEN 1 ELSE 2 * Array!Twofold[a - 1]]
    <2>1. F = [a \in Nat |-> IF a = 0 THEN 1 ELSE 2 * F[a - 1]]
      <3>1. \A f : f = F => f = [a \in Nat |-> IF a = 0 THEN 1 ELSE 2 * f[a - 1]]
        BY <1>4
      <3> QED BY <3>1
    <2> HIDE DEF F
    <2> QED BY <2>1 DEF Array!Twofold
  <1>6. \A a \in Nat : Array!Twofold[a] = IF a = 0 THEN 1 ELSE 2 * Array!Twofold[a - 1]
    BY <1>5
  <1>7. \A a \in Nat : Array!Twofold[a] \in Nat
    <2> DEFINE Wrong == {a \in Nat : Array!Twofold[a] \notin Nat}
    <2> SUFFICES ASSUME Wrong # {} PROVE FALSE
      OBVIOUS
    <2>1. PICK k \in Wrong : \A j \in Wrong : k <= j
      <3>1. Wrong \in SUBSET Nat
        OBVIOUS
      <3> HIDE DEF Wrong
      <3> QED BY <3>1, PoolFacts!LeastExists
    <2>2. k \in Nat /\ Array!Twofold[k] \notin Nat
      OBVIOUS
    <2>3. k # 0
      BY <1>6, <2>2
    <2>4. k - 1 \in Nat /\ k - 1 \notin Wrong
      BY <2>1, <2>2, <2>3
    <2> QED BY <1>6, <2>2, <2>3, <2>4
  <1>8. ASSUME NEW a \in Nat PROVE Array!Twofold[a + 1] = 2 * Array!Twofold[a]
    <2>1. a + 1 \in Nat /\ a + 1 # 0 /\ (a + 1) - 1 = a
      OBVIOUS
    <2> QED BY <1>6, <2>1
  <1> QED BY <1>5, <1>6, <1>7, <1>8

\* A power of two is above its exponent: the tables reach every index.
LEMMA TwofoldGrows == \A a \in Nat : Array!Twofold[a] \in Nat /\ Array!Twofold[a] >= a + 1
  <1> DEFINE Wrong == {a \in Nat : ~(Array!Twofold[a] >= a + 1)}
  <1>1. Wrong = {}
    <2> SUFFICES ASSUME Wrong # {} PROVE FALSE
      OBVIOUS
    <2>1. PICK a \in Wrong : \A b \in Wrong : a <= b
      <3>1. Wrong \in SUBSET Nat
        OBVIOUS
      <3> HIDE DEF Wrong
      <3> QED BY <3>1, PoolFacts!LeastExists
    <2>2. a \in Nat /\ ~(Array!Twofold[a] >= a + 1)
      OBVIOUS
    <2>3. a # 0
      BY <2>2, TwofoldIs
    <2>4. a - 1 \in Nat /\ a - 1 \notin Wrong
      BY <2>1, <2>2, <2>3
    <2>5. PICK b \in Nat : b = a - 1
      BY <2>4
    <2>6. Array!Twofold[b] \in Nat /\ Array!Twofold[b] >= b + 1 /\ Array!Twofold[b + 1] = 2 * Array!Twofold[b]
      BY <2>4, <2>5, TwofoldIs
    <2> QED BY <2>2, <2>5, <2>6
  <1> QED BY <1>1, TwofoldIs

\* Where the element of an index is: one place in one bucket.
LEMMA PlaceOf ==
    ASSUME NEW i \in Nat
    PROVE  /\ Array!ArrayIndex(i) \in Nat
           /\ Array!Twofold[Array!ArrayIndex(i)] \in Nat
           /\ Array!IndexInBucket(i) = i + 1 - Array!Twofold[Array!ArrayIndex(i)]
           /\ Array!IndexInBucket(i) \in 0..(Array!Twofold[Array!ArrayIndex(i)] - 1)
  <1> DEFINE Above == {b \in Nat : i + 1 < Array!Twofold[b]}
  <1>1. i + 1 \in Above
    BY TwofoldGrows
  <1>2. PICK b \in Above : \A c \in Above : b <= c
    <2>1. Above \in SUBSET Nat /\ Above # {}
      BY <1>1
    <2> HIDE DEF Above
    <2> QED BY <2>1, PoolFacts!LeastExists
  <1>3. b \in Nat /\ b <= i + 1 /\ i + 1 < Array!Twofold[b] /\ b # 0
    BY <1>1, <1>2, TwofoldIs
  <1>4. PICK a \in Nat : a + 1 = b
    <2>1. b - 1 \in Nat /\ (b - 1) + 1 = b
      BY <1>3
    <2> QED BY <2>1
  <1>5. a \in 0..i /\ a \notin Above
    BY <1>2, <1>3, <1>4
  <1>6. Array!Twofold[a] <= i + 1 /\ i + 1 < Array!Twofold[a + 1]
    BY <1>3, <1>4, <1>5, TwofoldIs
  <1>7. PICK x : x = Array!ArrayIndex(i)
    OBVIOUS
  <1>8. x \in 0..i /\ Array!Twofold[x] <= i + 1 /\ i + 1 < Array!Twofold[x + 1]
    BY <1>5, <1>6, <1>7 DEF Array!ArrayIndex
  <1>9. x \in Nat /\ Array!Twofold[x] \in Nat /\ Array!Twofold[x + 1] = 2 * Array!Twofold[x]
    BY <1>8, TwofoldIs
  <1>10. Array!IndexInBucket(i) = i + 1 - Array!Twofold[x]
    <2>1. CASE x > 0
      <3>1. x - 1 \in Nat /\ (x - 1) + 1 = x
        BY <1>9, <2>1
      <3>2. Array!BucketSizeSum(x - 1) = Array!Twofold[x] - 1
        BY <3>1 DEF Array!BucketSizeSum
      <3>3. Array!IndexInBucket(i) = i - (Array!Twofold[x] - 1)
        BY <1>7, <2>1, <3>2 DEF Array!IndexInBucket
      <3> QED BY <1>9, <3>3
    <2>2. CASE ~(x > 0)
      <3>1. x = 0 /\ Array!Twofold[x] = 1
        BY <1>9, <2>2, TwofoldIs
      <3>2. Array!IndexInBucket(i) = i
        BY <1>7, <2>2 DEF Array!IndexInBucket
      <3> QED BY <3>1, <3>2
    <2> QED BY <2>1, <2>2
  <1>11. i + 1 - Array!Twofold[x] \in 0..(Array!Twofold[x] - 1)
    BY <1>8, <1>9
  <1> QED BY <1>7, <1>9, <1>10, <1>11

\* No two elements share a place.
LEMMA PlacesDiffer ==
    ASSUME NEW i \in Nat, NEW j \in Nat,
           Array!ArrayIndex(i) = Array!ArrayIndex(j), Array!IndexInBucket(i) = Array!IndexInBucket(j)
    PROVE  i = j
  BY PlaceOf

\* What a bucket is made of.
Elements == (Writers \X Nat) \cup {Array!NoElement}
Allocations == UNION {[0..(Array!Twofold[a] - 1) -> Elements] : a \in Nat}

\* The bucket and the place of the element of an index.
BucketOf(i) == array[Array!ArrayIndex(i)]
Place(i) == Array!IndexInBucket(i)

\* An element is where at() looks for it.
Stored(i) ==
    /\ Array!ArrayIndex(i) \in 0..(Buckets - 1)
    /\ BucketOf(i) # 0
    /\ memory[BucketOf(i)][Place(i)] = Array!ElementAt(i)

ArrayTypes ==
    /\ next_index \in Nat /\ size \in 0..next_index
    /\ appended \in Seq(Writers \X Nat) /\ Len(appended) = next_index
    /\ array \in [0..(Buckets - 1) -> Nat]
    /\ memory \in Seq(Allocations)
    /\ DOMAIN pc = Array!Callers /\ calls \in [Writers -> Nat]
    /\ index \in [Array!Callers -> Nat] /\ bucket \in [Writers -> Nat]
    /\ DOMAIN read = Readers

\* Buckets that are installed are different allocations, of the right size.
BucketsHold ==
    /\ \A a \in 0..(Buckets - 1) : array[a] # 0 =>
            array[a] \in 1..Len(memory) /\ DOMAIN memory[array[a]] = 0..(Array!Twofold[a] - 1)
    /\ \A a, b \in 0..(Buckets - 1) : array[a] # 0 /\ array[a] = array[b] => a = b

\* A writer has an index of its own that is not published; a bucket of its own
\* until it installs it; the installed one when it assigns.
Writes(t) == pc[t] \in {"load", "allocate", "install", "assign", "wait", "publish"}
Loaded(t) == pc[t] \in {"allocate", "install", "assign", "wait", "publish"}

NumbersHold ==
    /\ \A t \in Writers : Writes(t) => index[t] \in size..(next_index - 1)
    /\ \A t, u \in Writers : Writes(t) /\ Writes(u) /\ index[t] = index[u] => t = u
    /\ \A t \in Writers : Loaded(t) => Array!ArrayIndex(index[t]) \in 0..(Buckets - 1)
    /\ \A t \in Writers : pc[t] = "publish" => size = index[t]

OwnBucketsHold ==
    /\ \A t \in Writers : bucket[t] \in 0..Len(memory)
    /\ \A t \in Writers : pc[t] = "install" =>
            /\ bucket[t] \in 1..Len(memory)
            /\ DOMAIN memory[bucket[t]] = 0..(Array!Twofold[Array!ArrayIndex(index[t])] - 1)
            /\ \A a \in 0..(Buckets - 1) : array[a] # bucket[t]
    /\ \A t, u \in Writers : pc[t] = "install" /\ pc[u] = "install" /\ bucket[t] = bucket[u] => t = u
    /\ \A t \in Writers : pc[t] = "assign" => bucket[t] = BucketOf(index[t]) /\ BucketOf(index[t]) # 0

ElementsHold ==
    /\ \A i \in 0..(size - 1) : Stored(i)
    /\ \A t \in Writers : pc[t] \in {"wait", "publish"} => Stored(index[t])
    /\ \A t \in Readers : pc[t] \in {"read", "returned"} => index[t] \in 0..(size - 1)
    /\ \A t \in Readers : pc[t] = "returned" => read[t] = Array!ElementAt(index[t])

ArrayInd == ArrayTypes /\ BucketsHold /\ NumbersHold /\ OwnBucketsHold /\ ElementsHold

\* The inductive invariant holds at first, and says what the array promises.
LEMMA ArrayIndInit == ASSUME Buckets \in Nat PROVE Array!Init => ArrayInd
  <1> SUFFICES ASSUME Array!Init PROVE ArrayInd
    OBVIOUS
  <1>1. /\ next_index = 0 /\ size = 0 /\ appended = <<>> /\ memory = <<>>
        /\ array = [a \in 0..(Buckets - 1) |-> 0]
        /\ \A t \in Array!Callers : pc[t] = "idle"
        /\ Writers \subseteq Array!Callers /\ Readers \subseteq Array!Callers
        /\ \A t \in Writers : bucket[t] = 0
    BY DEF Array!Init, Array!Callers, Array!Null
  <1>2. ArrayTypes
    BY <1>1 DEF Array!Init, ArrayTypes
  <1>3. BucketsHold /\ NumbersHold /\ OwnBucketsHold /\ ElementsHold
    BY <1>1 DEF BucketsHold, NumbersHold, OwnBucketsHold, ElementsHold, Writes, Loaded
  <1> QED BY <1>2, <1>3 DEF ArrayInd

LEMMA ArrayIndImplies == ASSUME Buckets \in Nat, ArrayInd PROVE Array!ArrayInv
  <1>1. Array!TypeOK
    <2>1. DOMAIN array = 0..(Buckets - 1) /\ DOMAIN memory = 1..Len(memory) /\ next_index = Len(appended)
          /\ size \in 0..next_index /\ Len(memory) \in Nat
      BY DEF ArrayInd, ArrayTypes
    <2>2. \A t \in Writers : bucket[t] \in DOMAIN memory \cup {0}
      BY <2>1 DEF ArrayInd, OwnBucketsHold
    <2> QED BY <2>1, <2>2 DEF ArrayInd, BucketsHold, OwnBucketsHold, BucketOf, Array!TypeOK, Array!Null,
            Array!BucketSize
  <1>2. \A i : Stored(i) => Array!Lookup(i) = Array!ElementAt(i)
    BY DEF Stored, Array!Lookup, Array!Null, BucketOf, Place
  <1>3. Array!PublishedIsComplete
    BY <1>2 DEF ArrayInd, ElementsHold, Array!PublishedIsComplete
  <1>4. Array!AtReturnsElement
    BY DEF ArrayInd, ElementsHold, Array!AtReturnsElement
  <1> QED BY <1>1, <1>3, <1>4 DEF Array!ArrayInv

\* The types that every step needs.
ArrayBounds ==
    /\ Writers \subseteq Array!Callers /\ Readers \subseteq Array!Callers
    /\ DOMAIN pc = Array!Callers /\ DOMAIN index = Array!Callers /\ DOMAIN bucket = Writers
    /\ DOMAIN array = 0..(Buckets - 1) /\ DOMAIN read = Readers
    /\ index \in [Array!Callers -> Nat] /\ bucket \in [Writers -> Nat]
    /\ size \in Nat /\ next_index \in Nat /\ size <= next_index
    /\ Len(appended) = next_index /\ Len(memory) \in Nat
    /\ \A t \in Writers : index[t] \in Nat
    /\ \A t \in Readers : index[t] \in Nat

LEMMA ArrayFacts == ASSUME Buckets \in Nat, ArrayInd PROVE ArrayBounds
  <1>1. Writers \subseteq Array!Callers /\ Readers \subseteq Array!Callers
    BY DEF Array!Callers
  <1>2. ArrayTypes
    BY DEF ArrayInd
  <1> QED BY <1>1, <1>2 DEF ArrayTypes, ArrayBounds

\* The steps of emplace(), one lemma each.
LEMMA EmplaceIndexKeeps ==
    ASSUME Buckets \in Nat, ArrayInd, NEW t \in Writers, Array!EmplaceIndex(t)
    PROVE  ArrayInd'
  <1>1. ArrayBounds /\ ArrayInd
    BY ArrayFacts
  <1>2. /\ pc[t] = "idle" /\ pc'[t] = "load" /\ DOMAIN pc' = Array!Callers
        /\ \A u \in Array!Callers : u # t => pc'[u] = pc[u] /\ index'[u] = index[u]
        /\ index'[t] = next_index /\ next_index' = next_index + 1
        /\ index' \in [Array!Callers -> Nat]
        /\ UNCHANGED <<size, array, memory, bucket, read>>
    BY <1>1 DEF Array!EmplaceIndex, Array!Goto, ArrayBounds
  <1>3. calls' \in [Writers -> Nat]
    BY DEF Array!EmplaceIndex, ArrayInd, ArrayTypes
  <1>4. /\ appended' \in Seq(Writers \X Nat) /\ Len(appended') = Len(appended) + 1
        /\ \A i \in 1..Len(appended) : appended'[i] = appended[i]
    <2>1. <<t, calls'[t]>> \in Writers \X Nat
      BY <1>3
    <2>2. PICK e : e = <<t, calls'[t]>>
      OBVIOUS
    <2>3. appended' = Append(appended, e) /\ e \in Writers \X Nat /\ appended \in Seq(Writers \X Nat)
      BY <2>1, <2>2 DEF Array!EmplaceIndex, ArrayInd, ArrayTypes
    <2> QED BY <2>3, AppendProperties
  <1>5. \A i \in 0..(next_index - 1) : Array!ElementAt(i)' = Array!ElementAt(i) /\ (Stored(i)' <=> Stored(i))
    <2> SUFFICES ASSUME NEW i \in 0..(next_index - 1)
                 PROVE  Array!ElementAt(i)' = Array!ElementAt(i) /\ (Stored(i)' <=> Stored(i))
      OBVIOUS
    <2>1. i + 1 \in 1..Len(appended)
      BY <1>1 DEF ArrayBounds
    <2>2. Array!ElementAt(i)' = Array!ElementAt(i)
      BY <1>4, <2>1 DEF Array!ElementAt
    <2> QED BY <1>2, <2>2 DEF Stored, BucketOf, Place
  <1>6. /\ Writes(t)' /\ ~Loaded(t)' /\ ~Writes(t) /\ \A u \in Writers : u # t => index'[u] = index[u] /\ pc'[u] = pc[u]
        /\ \A u \in Writers : u # t => (Writes(u)' <=> Writes(u)) /\ (Loaded(u)' <=> Loaded(u))
    BY <1>1, <1>2 DEF Writes, Loaded, ArrayBounds
  <1>7. ArrayTypes'
    <2>1. next_index' \in Nat /\ size \in 0..next_index' /\ Len(appended)' = next_index'
      BY <1>1, <1>2, <1>4 DEF ArrayBounds
    <2> QED BY <1>2, <1>3, <1>4, <2>1 DEF ArrayInd, ArrayTypes
  <1>8. BucketsHold'
    BY <1>2 DEF ArrayInd, BucketsHold
  <1>9. NumbersHold'
    <2>1. \A u \in Writers : Writes(u)' => index'[u] \in size..next_index
      <3>1. \A u \in Writers : Writes(u) => index[u] \in size..(next_index - 1)
        BY <1>1 DEF ArrayInd, NumbersHold
      <3>2. \A u \in Writers : Writes(u) => index[u] \in size..next_index
        BY <1>1, <3>1 DEF ArrayBounds
      <3>3. next_index \in size..next_index
        BY <1>1 DEF ArrayBounds
      <3> QED BY <1>2, <1>6, <3>2, <3>3
    <2>2. \A u \in Writers : u # t /\ Writes(u) => index[u] # next_index
      BY <1>1 DEF ArrayInd, NumbersHold, ArrayBounds
    <2>3. \A u, v \in Writers : Writes(u)' /\ Writes(v)' /\ index'[u] = index'[v] => u = v
      BY <1>2, <1>6, <2>2 DEF ArrayInd, NumbersHold
    <2>4. \A u \in Writers : Loaded(u)' => Array!ArrayIndex(index'[u]) \in 0..(Buckets - 1)
      BY <1>6 DEF ArrayInd, NumbersHold
    <2>5. \A u \in Writers : pc'[u] = "publish" => size = index'[u]
      BY <1>2, <1>6 DEF ArrayInd, NumbersHold
    <2>6. next_index' - 1 = next_index
      BY <1>1, <1>2 DEF ArrayBounds
    <2> QED BY <1>2, <2>1, <2>3, <2>4, <2>5, <2>6 DEF NumbersHold
  <1>10. OwnBucketsHold'
    <2>1. \A u \in Writers : pc'[u] \in {"install", "assign"} => pc'[u] = pc[u] /\ index'[u] = index[u]
      BY <1>2, <1>6
    <2>2. \A i : BucketOf(i)' = BucketOf(i)
      BY <1>2 DEF BucketOf
    <2> QED BY <1>2, <2>1, <2>2 DEF ArrayInd, OwnBucketsHold
  <1>11. ElementsHold'
    <2>1. \A i \in 0..(size - 1) : i \in 0..(next_index - 1)
      BY <1>1 DEF ArrayBounds
    <2>2. \A u \in Writers : pc[u] \in {"wait", "publish"} => index[u] \in 0..(next_index - 1)
      BY <1>1 DEF ArrayInd, NumbersHold, ArrayBounds, Writes
    <2>3. \A u \in Readers : pc'[u] \in {"read", "returned"} => pc'[u] = pc[u] /\ index'[u] = index[u]
      BY <1>1, <1>2 DEF ArrayBounds
    <2> QED BY <1>2, <1>5, <1>6, <2>1, <2>2, <2>3 DEF ArrayInd, ElementsHold
  <1> QED BY <1>7, <1>8, <1>9, <1>10, <1>11 DEF ArrayInd
\* A step that leaves the memory and the numbers alone leaves what is stored.
LEMMA ArrayQuiet ==
    ASSUME Buckets \in Nat, ArrayInd, DOMAIN pc' = Array!Callers, bucket' \in [Writers -> Nat],
           DOMAIN read' = Readers, index' \in [Array!Callers -> Nat],
           UNCHANGED <<next_index, size, array, memory, calls, appended>>
    PROVE  /\ ArrayTypes' /\ BucketsHold'
           /\ \A i : BucketOf(i)' = BucketOf(i) /\ Array!ElementAt(i)' = Array!ElementAt(i)
           /\ \A i : Stored(i)' <=> Stored(i)
  <1>1. ArrayTypes' /\ BucketsHold'
    BY DEF ArrayInd, ArrayTypes, BucketsHold
  <1>2. \A i : BucketOf(i)' = BucketOf(i) /\ Array!ElementAt(i)' = Array!ElementAt(i)
    BY DEF BucketOf, Array!ElementAt
  <1>3. \A i : Stored(i)' <=> Stored(i)
    BY <1>2 DEF Stored, Place
  <1> QED BY <1>1, <1>2, <1>3

\* What a step of emplace() must do to leave the numbers right.
LEMMA NumbersKeep ==
    ASSUME ArrayInd, UNCHANGED <<next_index, size, index>>,
           \A u \in Writers : Writes(u)' => Writes(u),
           \A u \in Writers : Loaded(u)' => Loaded(u) \/ Array!ArrayIndex(index[u]) \in 0..(Buckets - 1),
           \A u \in Writers : pc'[u] = "publish" => pc[u] = "publish" \/ size = index[u]
    PROVE  NumbersHold'
  <1>1. NumbersHold
    BY DEF ArrayInd
  <1>2. \A u \in Writers : Writes(u)' => index[u] \in size..(next_index - 1)
    BY <1>1 DEF NumbersHold
  <1>3. \A u, v \in Writers : Writes(u)' /\ Writes(v)' /\ index[u] = index[v] => u = v
    BY <1>1 DEF NumbersHold
  <1>4. \A u \in Writers : Loaded(u)' => Array!ArrayIndex(index[u]) \in 0..(Buckets - 1)
    BY <1>1 DEF NumbersHold
  <1>5. \A u \in Writers : pc'[u] = "publish" => size = index[u]
    BY <1>1 DEF NumbersHold
  <1> QED BY <1>2, <1>3, <1>4, <1>5 DEF NumbersHold

\* ... and the elements.
LEMMA ElementsKeep ==
    ASSUME Buckets \in Nat, ArrayInd, UNCHANGED <<size, index, read, appended>>,
           \A i \in Nat : Stored(i) => Stored(i)',
           \A u \in Writers : pc'[u] \in {"wait", "publish"} => pc[u] \in {"wait", "publish"} \/ Stored(index[u])',
           \A u \in Readers : pc'[u] \in {"read", "returned"} => pc'[u] = pc[u]
    PROVE  ElementsHold'
  <1>1. ArrayBounds /\ ElementsHold
    BY ArrayFacts DEF ArrayInd
  <1>2. \A i \in 0..(size - 1) : Stored(i)'
    BY <1>1 DEF ElementsHold
  <1>3. \A u \in Writers : pc'[u] \in {"wait", "publish"} => Stored(index[u])'
    BY <1>1 DEF ElementsHold, ArrayBounds
  <1>4. \A u \in Readers : pc'[u] \in {"read", "returned"} => index[u] \in 0..(size - 1)
    BY <1>1 DEF ElementsHold
  <1>5. \A i : Array!ElementAt(i)' = Array!ElementAt(i)
    BY DEF Array!ElementAt
  <1>6. \A u \in Readers : pc'[u] = "returned" => read[u] = Array!ElementAt(index[u])
    BY <1>1 DEF ElementsHold
  <1> QED BY <1>2, <1>3, <1>4, <1>5, <1>6 DEF ElementsHold

\* The program counters after a step of emplace().
Moves(t, from, to) ==
    /\ pc[t] = from /\ pc'[t] = to /\ DOMAIN pc' = Array!Callers
    /\ \A u \in Array!Callers : u # t => pc'[u] = pc[u]

\* ... change no other thread's.
LEMMA MovesKeep ==
    ASSUME ArrayBounds, NEW t \in Writers, NEW from, NEW to, Moves(t, from, to),
           from \in {"load", "allocate", "install", "assign", "wait"}, to # "idle"
    PROVE  /\ \A u \in Writers : u # t => pc'[u] = pc[u]
           /\ \A u \in Writers : Writes(u)' => Writes(u)
           /\ \A u \in Writers : u # t => (Loaded(u)' <=> Loaded(u))
           /\ from # "load" => \A u \in Writers : Loaded(u)' => Loaded(u)
           /\ to \notin {"read", "returned"} => \A u \in Readers : pc'[u] \in {"read", "returned"} => pc'[u] = pc[u]
  BY DEF ArrayBounds, Moves, Writes, Loaded

LEMMA EmplaceLoadKeeps ==
    ASSUME Buckets \in Nat, ArrayInd, NEW t \in Writers, Array!EmplaceLoad(t)
    PROVE  ArrayInd'
  <1>1. ArrayBounds /\ ArrayInd
    BY ArrayFacts
  <1>2. PICK to \in {"allocate", "assign"} : to = IF bucket'[t] = 0 THEN "allocate" ELSE "assign"
    OBVIOUS
  <1>3. /\ UNCHANGED <<next_index, size, array, memory, calls, index, appended, read>>
        /\ Moves(t, "load", to) /\ Array!ArrayIndex(index[t]) < Buckets
        /\ bucket'[t] = BucketOf(index[t])
        /\ \A u \in Writers : u # t => bucket'[u] = bucket[u]
        /\ DOMAIN bucket' = Writers
    BY <1>1, <1>2 DEF Array!EmplaceLoad, Array!Goto, Array!Null, ArrayBounds, Moves, BucketOf
  <1>4. Array!ArrayIndex(index[t]) \in 0..(Buckets - 1)
    <2>1. index[t] \in Nat
      BY <1>1 DEF ArrayBounds
    <2>2. Array!ArrayIndex(index[t]) \in Nat
      BY <2>1, PlaceOf
    <2> QED BY <1>3, <2>2
  <1>5. BucketOf(index[t]) \in 0..Len(memory)
    BY <1>1, <1>4 DEF ArrayInd, BucketsHold, BucketOf, ArrayBounds
  <1>6. \A u \in Writers : bucket'[u] \in 0..Len(memory)
    BY <1>1, <1>3, <1>5 DEF ArrayInd, OwnBucketsHold
  <1>7. bucket' \in [Writers -> Nat]
    <2>1. bucket' = [u \in Writers |-> bucket'[u]]
      BY <1>1 DEF Array!EmplaceLoad, ArrayBounds
    <2>2. \A u \in Writers : bucket'[u] \in Nat
      BY <1>1, <1>6 DEF ArrayBounds
    <2> QED BY <2>1, <2>2
  <1>8. /\ ArrayTypes' /\ BucketsHold'
        /\ \A i : BucketOf(i)' = BucketOf(i) /\ Array!ElementAt(i)' = Array!ElementAt(i)
        /\ \A i : Stored(i)' <=> Stored(i)
    BY <1>1, <1>3, <1>7, ArrayQuiet DEF ArrayBounds, Moves
  <1>9. /\ \A u \in Writers : u # t => pc'[u] = pc[u] /\ (Loaded(u)' <=> Loaded(u))
        /\ \A u \in Writers : Writes(u)' => Writes(u)
        /\ \A u \in Readers : pc'[u] \in {"read", "returned"} => pc'[u] = pc[u]
        /\ pc'[t] \in {"allocate", "assign"}
    BY <1>1, <1>2, <1>3, MovesKeep DEF Moves
  <1>10. NumbersHold'
    BY <1>1, <1>3, <1>4, <1>9, NumbersKeep
  <1>11. OwnBucketsHold'
    <2>1. \A u \in Writers : pc'[u] = "install" => u # t /\ pc[u] = "install"
      BY <1>9
    <2>2. \A u \in Writers : pc'[u] = "assign" => (u # t /\ pc[u] = "assign") \/ (u = t /\ BucketOf(index[t]) # 0)
      BY <1>2, <1>3, <1>9 DEF Moves
    <2> QED BY <1>1, <1>3, <1>6, <1>8, <2>1, <2>2 DEF ArrayInd, OwnBucketsHold
  <1>12. ElementsHold'
    BY <1>1, <1>3, <1>8, <1>9, ElementsKeep
  <1> QED BY <1>8, <1>10, <1>11, <1>12 DEF ArrayInd

LEMMA EmplaceDiscardKeeps ==
    ASSUME Buckets \in Nat, ArrayInd, NEW t \in Writers, Array!EmplaceDiscard(t)
    PROVE  ArrayInd'
  <1>1. ArrayBounds /\ ArrayInd
    BY ArrayFacts
  <1>2. /\ UNCHANGED <<next_index, size, array, memory, calls, index, appended, read>>
        /\ Moves(t, "install", "assign") /\ BucketOf(index[t]) # 0
        /\ bucket'[t] = BucketOf(index[t])
        /\ \A u \in Writers : u # t => bucket'[u] = bucket[u]
        /\ DOMAIN bucket' = Writers
    BY <1>1 DEF Array!EmplaceDiscard, Array!Goto, Array!Null, ArrayBounds, Moves, BucketOf
  <1>3. Array!ArrayIndex(index[t]) \in 0..(Buckets - 1)
    BY <1>1, <1>2 DEF ArrayInd, NumbersHold, Moves, Loaded
  <1>4. BucketOf(index[t]) \in 0..Len(memory)
    BY <1>1, <1>3 DEF ArrayInd, BucketsHold, BucketOf, ArrayBounds
  <1>5. \A u \in Writers : bucket'[u] \in 0..Len(memory)
    BY <1>1, <1>2, <1>4 DEF ArrayInd, OwnBucketsHold
  <1>6. bucket' \in [Writers -> Nat]
    <2>1. bucket' = [u \in Writers |-> bucket'[u]]
      BY <1>1 DEF Array!EmplaceDiscard, ArrayBounds
    <2>2. \A u \in Writers : bucket'[u] \in Nat
      BY <1>1, <1>5 DEF ArrayBounds
    <2> QED BY <2>1, <2>2
  <1>7. /\ ArrayTypes' /\ BucketsHold'
        /\ \A i : BucketOf(i)' = BucketOf(i) /\ Array!ElementAt(i)' = Array!ElementAt(i)
        /\ \A i : Stored(i)' <=> Stored(i)
    BY <1>1, <1>2, <1>6, ArrayQuiet DEF ArrayBounds, Moves
  <1>8. /\ \A u \in Writers : u # t => pc'[u] = pc[u]
        /\ \A u \in Writers : (Writes(u)' => Writes(u)) /\ (Loaded(u)' => Loaded(u))
        /\ \A u \in Readers : pc'[u] \in {"read", "returned"} => pc'[u] = pc[u]
        /\ pc'[t] = "assign"
    BY <1>1, <1>2, MovesKeep DEF Moves
  <1>9. NumbersHold'
    BY <1>1, <1>2, <1>8, NumbersKeep
  <1>10. OwnBucketsHold'
    <2>1. \A u \in Writers : pc'[u] = "install" => u # t /\ pc[u] = "install"
      BY <1>8
    <2>2. \A u \in Writers : pc'[u] = "assign" => (u # t /\ pc[u] = "assign") \/ u = t
      BY <1>8
    <2> QED BY <1>1, <1>2, <1>5, <1>7, <2>1, <2>2 DEF ArrayInd, OwnBucketsHold
  <1>11. ElementsHold'
    BY <1>1, <1>2, <1>7, <1>8, ElementsKeep
  <1> QED BY <1>7, <1>9, <1>10, <1>11 DEF ArrayInd

LEMMA EmplaceWaitKeeps ==
    ASSUME Buckets \in Nat, ArrayInd, NEW t \in Writers, Array!EmplaceWait(t)
    PROVE  ArrayInd'
  <1>1. ArrayBounds /\ ArrayInd
    BY ArrayFacts
  <1>2. /\ UNCHANGED <<next_index, size, array, memory, calls, index, bucket, appended, read>>
        /\ Moves(t, "wait", "publish") /\ size = index[t]
    BY <1>1 DEF Array!EmplaceWait, Array!Goto, ArrayBounds, Moves
  <1>3. /\ ArrayTypes' /\ BucketsHold'
        /\ \A i : BucketOf(i)' = BucketOf(i) /\ Array!ElementAt(i)' = Array!ElementAt(i)
        /\ \A i : Stored(i)' <=> Stored(i)
    BY <1>1, <1>2, ArrayQuiet DEF ArrayBounds, Moves
  <1>4. /\ \A u \in Writers : u # t => pc'[u] = pc[u]
        /\ \A u \in Writers : (Writes(u)' => Writes(u)) /\ (Loaded(u)' => Loaded(u))
        /\ \A u \in Readers : pc'[u] \in {"read", "returned"} => pc'[u] = pc[u]
        /\ pc[t] = "wait" /\ pc'[t] = "publish"
    BY <1>1, <1>2, MovesKeep DEF Moves
  <1>5. NumbersHold'
    BY <1>1, <1>2, <1>4, NumbersKeep
  <1>6. OwnBucketsHold'
    <2>1. \A u \in Writers : pc'[u] \in {"install", "assign"} => pc[u] = pc'[u]
      BY <1>4
    <2> QED BY <1>1, <1>2, <1>3, <2>1 DEF ArrayInd, OwnBucketsHold
  <1>7. ElementsHold'
    <2>1. \A u \in Writers : pc'[u] \in {"wait", "publish"} => pc[u] \in {"wait", "publish"}
      BY <1>4
    <2> QED BY <1>1, <1>2, <1>3, <1>4, <2>1, ElementsKeep
  <1> QED BY <1>3, <1>5, <1>6, <1>7 DEF ArrayInd

LEMMA EmplaceAllocateKeeps ==
    ASSUME Buckets \in Nat, ArrayInd, NEW t \in Writers, Array!EmplaceAllocate(t)
    PROVE  ArrayInd'
  <1>1. ArrayBounds /\ ArrayInd
    BY ArrayFacts
  <1>2. PICK a \in Nat : a = Array!ArrayIndex(index[t]) /\ Array!Twofold[a] \in Nat
    BY <1>1, PlaceOf DEF ArrayBounds
  <1>3. PICK new : new = [k \in 0..(Array!Twofold[a] - 1) |-> Array!NoElement]
    OBVIOUS
  <1>4. memory' = Append(memory, new) /\ memory \in Seq(Allocations)
    BY <1>1, <1>2, <1>3 DEF Array!EmplaceAllocate, Array!BucketSize, ArrayInd, ArrayTypes
  <1>5. new \in Allocations
    <2>1. new \in [0..(Array!Twofold[a] - 1) -> Elements]
      BY <1>3 DEF Elements
    <2> QED BY <1>2, <2>1 DEF Allocations
  <1>6. /\ memory' \in Seq(Allocations) /\ Len(memory') = Len(memory) + 1
        /\ \A k \in 1..Len(memory) : memory'[k] = memory[k]
        /\ memory'[Len(memory) + 1] = new
    BY <1>4, <1>5, AppendProperties
  <1>7. /\ UNCHANGED <<next_index, size, array, calls, index, appended, read>>
        /\ Moves(t, "allocate", "install")
        /\ bucket' = [bucket EXCEPT ![t] = Len(memory')]
    BY <1>1 DEF Array!EmplaceAllocate, Array!Goto, ArrayBounds, Moves
  <1>8. /\ bucket' \in [Writers -> Nat] /\ bucket'[t] = Len(memory) + 1
        /\ \A u \in Writers : u # t => bucket'[u] = bucket[u]
    BY <1>1, <1>6, <1>7 DEF ArrayBounds
  <1>9. /\ \A u \in Writers : u # t => pc'[u] = pc[u]
        /\ \A u \in Writers : (Writes(u)' => Writes(u)) /\ (Loaded(u)' => Loaded(u))
        /\ \A u \in Readers : pc'[u] \in {"read", "returned"} => pc'[u] = pc[u]
        /\ pc'[t] = "install"
    BY <1>1, <1>7, MovesKeep DEF Moves
  <1>10. /\ \A i : BucketOf(i)' = BucketOf(i) /\ Array!ElementAt(i)' = Array!ElementAt(i)
         /\ \A b \in 0..(Buckets - 1) : array[b] # 0 => array[b] \in 1..Len(memory)
    BY <1>1, <1>7 DEF ArrayInd, BucketsHold, BucketOf, Array!ElementAt
  <1>11. \A i \in Nat : Stored(i) => Stored(i)'
    <2> SUFFICES ASSUME NEW i \in Nat, Stored(i) PROVE Stored(i)'
      OBVIOUS
    <2>1. BucketOf(i) \in 1..Len(memory)
      BY <1>10 DEF Stored, BucketOf
    <2>2. memory'[BucketOf(i)] = memory[BucketOf(i)]
      BY <1>6, <2>1
    <2> QED BY <1>10, <2>2 DEF Stored, Place
  <1>12. ArrayTypes'
    BY <1>1, <1>6, <1>7, <1>8 DEF ArrayInd, ArrayTypes, Moves
  <1>13. BucketsHold'
    <2>1. \A b \in 0..(Buckets - 1) : array[b] # 0 =>
            array[b] \in 1..Len(memory') /\ DOMAIN memory'[array[b]] = 0..(Array!Twofold[b] - 1)
      BY <1>1, <1>6, <1>10 DEF ArrayInd, BucketsHold, ArrayBounds
    <2> QED BY <1>1, <1>7, <2>1 DEF ArrayInd, BucketsHold
  <1>14. NumbersHold'
    BY <1>1, <1>7, <1>9, NumbersKeep
  <1>15. OwnBucketsHold'
    <2>1. \A u \in Writers : bucket'[u] \in 0..Len(memory')
      <3>1. \A u \in Writers : bucket[u] \in 0..Len(memory)
        BY <1>1 DEF ArrayInd, OwnBucketsHold
      <3>2. \A n \in 0..Len(memory) : n \in 0..Len(memory')
        BY <1>1, <1>6 DEF ArrayBounds
      <3>3. bucket'[t] \in 0..Len(memory')
        BY <1>1, <1>6, <1>8 DEF ArrayBounds
      <3> QED BY <1>8, <3>1, <3>2, <3>3
    <2>2. ASSUME NEW u \in Writers, pc'[u] = "install"
          PROVE  /\ bucket'[u] \in 1..Len(memory')
                 /\ DOMAIN memory'[bucket'[u]] = 0..(Array!Twofold[Array!ArrayIndex(index[u])] - 1)
                 /\ \A b \in 0..(Buckets - 1) : array[b] # bucket'[u]
      <3>1. CASE u = t
        BY <1>1, <1>2, <1>3, <1>6, <1>8, <1>10, <3>1 DEF ArrayBounds
      <3>2. CASE u # t
        <4>1. /\ bucket[u] \in 1..Len(memory) /\ bucket'[u] = bucket[u]
              /\ DOMAIN memory[bucket[u]] = 0..(Array!Twofold[Array!ArrayIndex(index[u])] - 1)
              /\ \A b \in 0..(Buckets - 1) : array[b] # bucket[u]
          BY <1>1, <1>8, <1>9, <2>2, <3>2 DEF ArrayInd, OwnBucketsHold
        <4>2. memory'[bucket[u]] = memory[bucket[u]] /\ bucket[u] \in 1..Len(memory')
          BY <1>1, <1>6, <4>1 DEF ArrayBounds
        <4> QED BY <4>1, <4>2
      <3> QED BY <3>1, <3>2
    <2>3. ASSUME NEW u \in Writers, NEW v \in Writers, pc'[u] = "install", pc'[v] = "install",
                 bucket'[u] = bucket'[v]
          PROVE  u = v
      <3>1. \A w \in Writers : w # t => bucket'[w] # Len(memory) + 1
        BY <1>1, <1>8 DEF ArrayInd, OwnBucketsHold, ArrayBounds
      <3>2. u # t /\ v # t => u = v
        BY <1>1, <1>8, <1>9, <2>3 DEF ArrayInd, OwnBucketsHold
      <3> QED BY <1>8, <2>3, <3>1, <3>2
    <2>4. \A u \in Writers : pc'[u] = "assign" =>
            bucket'[u] = BucketOf(index[u]) /\ BucketOf(index[u]) # 0
      BY <1>1, <1>8, <1>9 DEF ArrayInd, OwnBucketsHold
    <2>5. \A u : BucketOf(index[u])' = BucketOf(index[u])
      BY <1>7, <1>10
    <2> QED BY <1>7, <2>1, <2>2, <2>3, <2>4, <2>5 DEF OwnBucketsHold
  <1>16. ElementsHold'
    <2>1. \A u \in Writers : pc'[u] \in {"wait", "publish"} => pc[u] \in {"wait", "publish"}
      BY <1>9
    <2> QED BY <1>1, <1>7, <1>9, <1>11, <2>1, ElementsKeep
  <1> QED BY <1>12, <1>13, <1>14, <1>15, <1>16 DEF ArrayInd

LEMMA EmplaceInstallKeeps ==
    ASSUME Buckets \in Nat, ArrayInd, NEW t \in Writers, Array!EmplaceInstall(t)
    PROVE  ArrayInd'
  <1>1. ArrayBounds /\ ArrayInd
    BY ArrayFacts
  <1>2. PICK a : a = Array!ArrayIndex(index[t])
    OBVIOUS
  <1>3. /\ UNCHANGED <<next_index, size, memory, calls, index, bucket, appended, read>>
        /\ Moves(t, "install", "assign") /\ array[a] = 0
    BY <1>1, <1>2 DEF Array!EmplaceInstall, Array!Goto, Array!Null, ArrayBounds, Moves
  <1>4. a \in 0..(Buckets - 1)
    BY <1>1, <1>2, <1>3 DEF ArrayInd, NumbersHold, Moves, Loaded
  <1>5. /\ bucket[t] \in 1..Len(memory) /\ DOMAIN memory[bucket[t]] = 0..(Array!Twofold[a] - 1)
        /\ \A b \in 0..(Buckets - 1) : array[b] # bucket[t]
        /\ bucket[t] # 0 /\ bucket[t] \in Nat
    <2>1. bucket[t] \in 1..Len(memory) /\ DOMAIN memory[bucket[t]] = 0..(Array!Twofold[a] - 1)
          /\ \A b \in 0..(Buckets - 1) : array[b] # bucket[t]
      BY <1>1, <1>2, <1>3 DEF ArrayInd, OwnBucketsHold, Moves
    <2> QED BY <1>1, <2>1 DEF ArrayBounds
  <1>6. /\ array' = [array EXCEPT ![a] = bucket[t]] /\ array \in [0..(Buckets - 1) -> Nat]
    BY <1>1, <1>2 DEF Array!EmplaceInstall, ArrayInd, ArrayTypes
  <1>7. /\ array' \in [0..(Buckets - 1) -> Nat] /\ array'[a] = bucket[t]
        /\ \A b \in 0..(Buckets - 1) : b # a => array'[b] = array[b]
    BY <1>4, <1>5, <1>6
  <1>8. /\ \A u \in Writers : u # t => pc'[u] = pc[u]
        /\ \A u \in Writers : (Writes(u)' => Writes(u)) /\ (Loaded(u)' => Loaded(u))
        /\ \A u \in Readers : pc'[u] \in {"read", "returned"} => pc'[u] = pc[u]
        /\ pc'[t] = "assign"
    BY <1>1, <1>3, MovesKeep DEF Moves
  <1>9. \A i : Array!ElementAt(i)' = Array!ElementAt(i)
    BY <1>3 DEF Array!ElementAt
  <1>10. \A i \in Nat : Stored(i) => Stored(i)'
    <2> SUFFICES ASSUME NEW i \in Nat, Stored(i) PROVE Stored(i)'
      OBVIOUS
    <2>1. BucketOf(i)' = BucketOf(i)
      BY <1>3, <1>7 DEF Stored, BucketOf
    <2> QED BY <1>3, <1>9, <2>1 DEF Stored, Place
  <1>11. ArrayTypes'
    BY <1>1, <1>3, <1>7 DEF ArrayInd, ArrayTypes, Moves
  <1>12. BucketsHold'
    <2>1. \A b \in 0..(Buckets - 1) : array'[b] # 0 =>
            array'[b] \in 1..Len(memory) /\ DOMAIN memory[array'[b]] = 0..(Array!Twofold[b] - 1)
      BY <1>1, <1>5, <1>7 DEF ArrayInd, BucketsHold
    <2>2. \A b, c \in 0..(Buckets - 1) : array'[b] # 0 /\ array'[b] = array'[c] => b = c
      BY <1>1, <1>5, <1>7 DEF ArrayInd, BucketsHold
    <2> QED BY <1>3, <2>1, <2>2 DEF BucketsHold
  <1>13. NumbersHold'
    BY <1>1, <1>3, <1>8, NumbersKeep
  <1>14. OwnBucketsHold'
    <2>1. ASSUME NEW u \in Writers, pc'[u] = "install"
          PROVE  /\ pc[u] = "install" /\ \A b \in 0..(Buckets - 1) : array'[b] # bucket[u]
      <3>1. u # t /\ pc[u] = "install" /\ pc[t] = "install"
        BY <1>3, <1>8, <2>1 DEF Moves
      <3>2. bucket[u] # bucket[t] /\ \A b \in 0..(Buckets - 1) : array[b] # bucket[u]
        BY <1>1, <3>1 DEF ArrayInd, OwnBucketsHold
      <3> QED BY <1>7, <3>1, <3>2
    <2>2. ASSUME NEW u \in Writers, pc'[u] = "assign"
          PROVE  bucket[u] = array'[Array!ArrayIndex(index[u])] /\ array'[Array!ArrayIndex(index[u])] # 0
      <3>1. CASE u = t
        BY <1>2, <1>5, <1>7, <3>1
      <3>2. CASE u # t
        <4>1. pc[u] = "assign"
          BY <1>8, <2>2, <3>2
        <4>2. PICK b : b = Array!ArrayIndex(index[u])
          OBVIOUS
        <4>3. b \in 0..(Buckets - 1)
          BY <1>1, <4>1, <4>2 DEF ArrayInd, NumbersHold, Loaded
        <4>4. bucket[u] = array[b] /\ array[b] # 0
          BY <1>1, <4>1, <4>2 DEF ArrayInd, OwnBucketsHold, BucketOf
        <4> QED BY <1>3, <1>7, <4>2, <4>3, <4>4
      <3> QED BY <3>1, <3>2
    <2>3. \A u : BucketOf(index[u])' = array'[Array!ArrayIndex(index[u])]
      BY <1>3 DEF BucketOf
    <2> QED BY <1>1, <1>3, <2>1, <2>2, <2>3 DEF ArrayInd, OwnBucketsHold
  <1>15. ElementsHold'
    <2>1. \A u \in Writers : pc'[u] \in {"wait", "publish"} => pc[u] \in {"wait", "publish"}
      BY <1>8
    <2> QED BY <1>1, <1>3, <1>8, <1>10, <2>1, ElementsKeep
  <1> QED BY <1>11, <1>12, <1>13, <1>14, <1>15 DEF ArrayInd

LEMMA EmplaceAssignKeeps ==
    ASSUME Buckets \in Nat, ArrayInd, NEW t \in Writers, Array!EmplaceAssign(t)
    PROVE  ArrayInd'
  <1>1. ArrayBounds /\ ArrayInd
    BY ArrayFacts
  <1>2. /\ UNCHANGED <<next_index, size, array, calls, index, bucket, appended, read>>
        /\ Moves(t, "assign", "wait") /\ index[t] \in Nat
    BY <1>1 DEF Array!EmplaceAssign, Array!Goto, ArrayBounds, Moves
  <1>3. PICK a \in Nat : a = Array!ArrayIndex(index[t]) /\ Array!Twofold[a] \in Nat
    BY <1>2, PlaceOf
  <1>4. PICK p \in 0..(Array!Twofold[a] - 1) : p = Place(index[t])
    BY <1>2, <1>3, PlaceOf DEF Place
  <1>5. a \in 0..(Buckets - 1) /\ bucket[t] = array[a] /\ array[a] # 0
    <2>1. a \in 0..(Buckets - 1)
      BY <1>1, <1>2, <1>3 DEF ArrayInd, NumbersHold, Moves, Loaded
    <2> QED BY <1>1, <1>2, <1>3, <2>1 DEF ArrayInd, OwnBucketsHold, BucketOf, Moves
  <1>6. PICK b \in 1..Len(memory) : b = bucket[t]
    BY <1>1, <1>5 DEF ArrayInd, BucketsHold
  <1>7. DOMAIN memory[b] = 0..(Array!Twofold[a] - 1)
    BY <1>1, <1>5, <1>6 DEF ArrayInd, BucketsHold
  <1>8. PICK e \in Elements : e = Array!ElementAt(index[t])
    <2>1. index[t] \in 0..(next_index - 1)
      BY <1>1, <1>2 DEF ArrayInd, NumbersHold, Moves, Writes, ArrayBounds
    <2>2. index[t] + 1 \in 1..Len(appended)
      BY <1>1, <2>1 DEF ArrayBounds
    <2>3. appended[index[t] + 1] \in Writers \X Nat
      <3>1. appended \in Seq(Writers \X Nat)
        BY <1>1 DEF ArrayInd, ArrayTypes
      <3> QED BY <2>2, <3>1
    <2> QED BY <2>3 DEF Elements, Array!ElementAt
  <1>9. memory' = [memory EXCEPT ![b] = [@ EXCEPT ![p] = e]] /\ memory \in Seq(Allocations)
    BY <1>1, <1>4, <1>6, <1>8 DEF Array!EmplaceAssign, ArrayInd, ArrayTypes, Place
  <1>10. PICK new : new = [memory[b] EXCEPT ![p] = e]
    OBVIOUS
  <1>11. new \in Allocations /\ DOMAIN new = DOMAIN memory[b] /\ new[p] = e
         /\ \A q \in DOMAIN memory[b] : q # p => new[q] = memory[b][q]
    <2>1. memory[b] \in Allocations
      BY <1>6, <1>9
    <2>2. PICK c \in Nat : memory[b] \in [0..(Array!Twofold[c] - 1) -> Elements]
      BY <2>1 DEF Allocations
    <2>3. new \in [0..(Array!Twofold[c] - 1) -> Elements]
      BY <1>8, <1>10, <2>2
    <2>4. new \in Allocations
      BY <2>2, <2>3 DEF Allocations
    <2>5. DOMAIN new = DOMAIN memory[b]
      BY <1>10
    <2>6. new[p] = e
      BY <1>4, <1>7, <1>10
    <2>7. \A q \in DOMAIN memory[b] : q # p => new[q] = memory[b][q]
      BY <1>10
    <2> QED BY <2>4, <2>5, <2>6, <2>7
  <1>12. /\ memory' \in Seq(Allocations) /\ Len(memory') = Len(memory)
         /\ memory'[b] = new /\ \A k \in 1..Len(memory) : k # b => memory'[k] = memory[k]
    <2>1. memory' = [memory EXCEPT ![b] = new]
      BY <1>9, <1>10
    <2> QED BY <1>6, <1>9, <1>11, <2>1, ExceptSeq
  <1>13. /\ \A i : BucketOf(i)' = BucketOf(i) /\ Array!ElementAt(i)' = Array!ElementAt(i)
         /\ \A c \in 0..(Buckets - 1) : array[c] # 0 => array[c] \in 1..Len(memory)
    BY <1>1, <1>2 DEF ArrayInd, BucketsHold, BucketOf, Array!ElementAt
  <1>14. Stored(index[t])'
    <2>1. BucketOf(index[t])' = b /\ Array!ElementAt(index[t])' = e /\ Place(index[t])' = p
      BY <1>2, <1>3, <1>4, <1>5, <1>6, <1>8, <1>13 DEF BucketOf, Place
    <2>2. b # 0
      BY <1>5, <1>6
    <2> QED BY <1>2, <1>3, <1>5, <1>11, <1>12, <2>1, <2>2 DEF Stored
  <1>15. \A i \in Nat : Stored(i) => Stored(i)'
    <2> SUFFICES ASSUME NEW i \in Nat, Stored(i), i # index[t] PROVE Stored(i)'
      BY <1>2, <1>14
    <2>1. PICK k \in 1..Len(memory) : k = BucketOf(i)
      BY <1>13 DEF Stored, BucketOf
    <2>2. PICK q \in 0..(Array!Twofold[Array!ArrayIndex(i)] - 1) : q = Place(i)
      BY PlaceOf DEF Place
    <2>3. memory'[k][q] = memory[k][q]
      <3>1. CASE k # b
        BY <1>12, <2>1, <3>1
      <3>2. CASE k = b
        <4>1. Array!ArrayIndex(i) = a
          BY <1>1, <1>5, <1>6, <2>1, <3>2 DEF Stored, ArrayInd, BucketsHold, BucketOf
        <4>2. q # p
          BY <1>2, <1>3, <1>4, <2>2, <4>1, PlacesDiffer DEF Place
        <4> QED BY <1>7, <1>11, <1>12, <2>2, <3>2, <4>1, <4>2
      <3> QED BY <3>1, <3>2
    <2> QED BY <1>13, <2>1, <2>2, <2>3 DEF Stored, Place
  <1>16. /\ \A u \in Writers : u # t => pc'[u] = pc[u]
         /\ \A u \in Writers : (Writes(u)' => Writes(u)) /\ (Loaded(u)' => Loaded(u))
         /\ \A u \in Readers : pc'[u] \in {"read", "returned"} => pc'[u] = pc[u]
         /\ pc[t] = "assign" /\ pc'[t] = "wait"
    BY <1>1, <1>2, MovesKeep DEF Moves
  <1>17. ArrayTypes'
    BY <1>1, <1>2, <1>12 DEF ArrayInd, ArrayTypes, Moves
  <1>18. \A k \in 1..Len(memory) : DOMAIN memory'[k] = DOMAIN memory[k]
    BY <1>11, <1>12
  <1>19. BucketsHold'
    BY <1>1, <1>2, <1>12, <1>18 DEF ArrayInd, BucketsHold
  <1>20. NumbersHold'
    BY <1>1, <1>2, <1>16, NumbersKeep
  <1>21. OwnBucketsHold'
    <2>1. \A u \in Writers : pc'[u] \in {"install", "assign"} => pc[u] = pc'[u]
      BY <1>16
    <2>2. \A u \in Writers : pc[u] = "install" => DOMAIN memory'[bucket[u]] = DOMAIN memory[bucket[u]]
      BY <1>1, <1>18 DEF ArrayInd, OwnBucketsHold
    <2>3. \A u : BucketOf(index[u])' = BucketOf(index[u])
      BY <1>2, <1>13
    <2> QED BY <1>1, <1>2, <1>12, <2>1, <2>2, <2>3 DEF ArrayInd, OwnBucketsHold
  <1>22. ElementsHold'
    <2>1. \A u \in Writers : pc'[u] \in {"wait", "publish"} => pc[u] \in {"wait", "publish"} \/ u = t
      BY <1>16
    <2>2. \A u \in Writers : pc'[u] \in {"wait", "publish"} => pc[u] \in {"wait", "publish"} \/ Stored(index[u])'
      BY <1>14, <2>1
    <2> QED BY <1>1, <1>2, <1>15, <1>16, <2>2, ElementsKeep
  <1> QED BY <1>17, <1>19, <1>20, <1>21, <1>22 DEF ArrayInd

LEMMA EmplacePublishKeeps ==
    ASSUME Buckets \in Nat, ArrayInd, NEW t \in Writers, Array!EmplacePublish(t)
    PROVE  ArrayInd'
  <1>1. ArrayBounds /\ ArrayInd
    BY ArrayFacts
  <1>2. /\ UNCHANGED <<next_index, array, memory, calls, index, bucket, appended, read>>
        /\ Moves(t, "publish", "idle") /\ size = index[t] /\ size' = size + 1
    BY <1>1 DEF Array!EmplacePublish, Array!Goto, ArrayBounds, Moves, ArrayInd, NumbersHold
  <1>3. /\ \A i : BucketOf(i)' = BucketOf(i) /\ Array!ElementAt(i)' = Array!ElementAt(i)
        /\ \A i : Stored(i)' <=> Stored(i)
    <2>1. \A i : BucketOf(i)' = BucketOf(i) /\ Array!ElementAt(i)' = Array!ElementAt(i)
      BY <1>2 DEF BucketOf, Array!ElementAt
    <2> QED BY <1>2, <2>1 DEF Stored, Place
  <1>4. /\ \A u \in Writers : u # t => pc'[u] = pc[u] /\ (Writes(u)' <=> Writes(u)) /\ (Loaded(u)' <=> Loaded(u))
        /\ \A u \in Readers : pc'[u] \in {"read", "returned"} => pc'[u] = pc[u]
        /\ pc[t] = "publish" /\ pc'[t] = "idle" /\ Writes(t) /\ ~Writes(t)' /\ ~Loaded(t)'
    BY <1>1, <1>2 DEF ArrayBounds, Moves, Writes, Loaded
  <1>5. size' \in 0..next_index
    BY <1>1, <1>2, <1>4 DEF ArrayBounds, ArrayInd, NumbersHold
  <1>6. ArrayTypes'
    BY <1>1, <1>2, <1>5 DEF ArrayInd, ArrayTypes, Moves
  <1>7. BucketsHold'
    BY <1>1, <1>2 DEF ArrayInd, BucketsHold
  <1>8. NumbersHold'
    <2>1. ASSUME NEW u \in Writers, u # t, Writes(u)
          PROVE  index[u] \in size'..(next_index - 1) /\ pc[u] # "publish"
      <3>1. index[u] \in size..(next_index - 1) /\ index[u] # index[t] /\ (pc[u] = "publish" => size = index[u])
        BY <1>1, <1>4, <2>1 DEF ArrayInd, NumbersHold
      <3> QED BY <1>1, <1>2, <3>1 DEF ArrayBounds
    <2>2. \A u \in Writers : Writes(u)' => u # t /\ Writes(u)
      BY <1>4
    <2>3. \A u \in Writers : Loaded(u)' => u # t /\ Loaded(u)
      BY <1>4
    <2>4. \A u \in Writers : pc'[u] # "publish"
      BY <1>4, <2>1 DEF Writes
    <2> QED BY <1>1, <1>2, <2>1, <2>2, <2>3, <2>4 DEF ArrayInd, NumbersHold
  <1>9. OwnBucketsHold'
    <2>1. \A u \in Writers : pc'[u] \in {"install", "assign"} => pc[u] = pc'[u]
      BY <1>4
    <2>2. \A u : BucketOf(index[u])' = BucketOf(index[u])
      BY <1>2, <1>3
    <2> QED BY <1>1, <1>2, <2>1, <2>2 DEF ArrayInd, OwnBucketsHold
  <1>10. ElementsHold'
    <2>1. Stored(index[t])
      BY <1>1, <1>4 DEF ArrayInd, ElementsHold
    <2>2. \A i \in 0..(size' - 1) : i \in 0..(size - 1) \/ i = index[t]
      BY <1>1, <1>2 DEF ArrayBounds
    <2>3. \A i \in 0..(size' - 1) : Stored(i)
      BY <1>1, <2>1, <2>2 DEF ArrayInd, ElementsHold
    <2>4. \A u \in Writers : pc'[u] \in {"wait", "publish"} => Stored(index[u])
      BY <1>1, <1>4 DEF ArrayInd, ElementsHold
    <2>5. \A i \in 0..(size - 1) : i \in 0..(size' - 1)
      BY <1>1, <1>2 DEF ArrayBounds
    <2>6. \A u \in Readers : pc'[u] \in {"read", "returned"} => index[u] \in 0..(size' - 1)
      BY <1>1, <1>4, <2>5 DEF ArrayInd, ElementsHold
    <2>7. \A u \in Readers : pc'[u] = "returned" => read[u] = Array!ElementAt(index[u])
      BY <1>1, <1>4 DEF ArrayInd, ElementsHold
    <2>8. \A u : Stored(index[u])' <=> Stored(index[u])
      BY <1>2, <1>3
    <2>9. \A u : Array!ElementAt(index[u])' = Array!ElementAt(index[u])
      BY <1>2, <1>3
    <2> QED BY <1>2, <1>3, <2>3, <2>4, <2>6, <2>7, <2>8, <2>9 DEF ElementsHold
  <1> QED BY <1>6, <1>7, <1>8, <1>9, <1>10 DEF ArrayInd

\* What a step of at() must do.
LEMMA AtKeeps ==
    ASSUME Buckets \in Nat, ArrayInd, NEW t \in Readers, DOMAIN pc' = Array!Callers,
           index' \in [Array!Callers -> Nat], DOMAIN read' = Readers,
           UNCHANGED <<next_index, size, array, memory, calls, bucket, appended>>,
           \A u \in Array!Callers : u # t => pc'[u] = pc[u] /\ index'[u] = index[u],
           pc'[t] \in {"idle", "read", "returned"},
           \A u \in Readers : u # t => read'[u] = read[u],
           pc'[t] # "idle" => index'[t] \in 0..(size - 1),
           pc'[t] = "returned" => read'[t] = Array!ElementAt(index'[t])
    PROVE  ArrayInd'
  <1>1. ArrayBounds /\ ArrayInd
    BY ArrayFacts
  <1>2. bucket' \in [Writers -> Nat]
    BY <1>1 DEF ArrayBounds
  <1>3. /\ ArrayTypes' /\ BucketsHold'
        /\ \A i : BucketOf(i)' = BucketOf(i) /\ Array!ElementAt(i)' = Array!ElementAt(i)
        /\ \A i : Stored(i)' <=> Stored(i)
    BY <1>2, ArrayQuiet
  <1>4. /\ \A u \in Writers : u # t => /\ pc'[u] = pc[u] /\ index'[u] = index[u]
                                       /\ (Writes(u)' <=> Writes(u)) /\ (Loaded(u)' <=> Loaded(u))
        /\ ~Writes(t)' /\ ~Loaded(t)'
        /\ \A u \in Readers : u # t => pc'[u] = pc[u] /\ index'[u] = index[u]
    BY <1>1 DEF ArrayBounds, Writes, Loaded
  <1>5. NumbersHold'
    <2>1. \A u \in Writers : Writes(u)' => index'[u] \in size..(next_index - 1)
      BY <1>1, <1>4 DEF ArrayInd, NumbersHold
    <2>2. \A u, v \in Writers : Writes(u)' /\ Writes(v)' /\ index'[u] = index'[v] => u = v
      BY <1>1, <1>4 DEF ArrayInd, NumbersHold
    <2>3. \A u \in Writers : Loaded(u)' => Array!ArrayIndex(index'[u]) \in 0..(Buckets - 1)
      BY <1>1, <1>4 DEF ArrayInd, NumbersHold
    <2>4. \A u \in Writers : pc'[u] = "publish" => size = index'[u]
      BY <1>1, <1>4 DEF ArrayInd, NumbersHold
    <2> QED BY <2>1, <2>2, <2>3, <2>4 DEF NumbersHold
  <1>6. OwnBucketsHold'
    <2>1. \A u \in Writers : pc'[u] \in {"install", "assign"} => pc[u] = pc'[u] /\ index'[u] = index[u]
      BY <1>4
    <2> QED BY <1>1, <1>3, <2>1 DEF ArrayInd, OwnBucketsHold
  <1>7. ElementsHold'
    <2>1. \A u \in Writers : pc'[u] \in {"wait", "publish"} => pc[u] = pc'[u] /\ index'[u] = index[u]
      BY <1>4
    <2>2. \A u \in Readers : pc'[u] \in {"read", "returned"} => index'[u] \in 0..(size - 1)
      BY <1>1, <1>4 DEF ArrayInd, ElementsHold
    <2>3. \A u \in Readers : pc'[u] = "returned" => read'[u] = Array!ElementAt(index'[u])
      BY <1>1, <1>4 DEF ArrayInd, ElementsHold
    <2> QED BY <1>1, <1>3, <2>1, <2>2, <2>3 DEF ArrayInd, ElementsHold
  <1> QED BY <1>3, <1>5, <1>6, <1>7 DEF ArrayInd

\* The steps of at().
LEMMA ReaderKeeps ==
    ASSUME Buckets \in Nat, ArrayInd, NEW t \in Readers, Array!AtStep(t)
    PROVE  ArrayInd'
  <1>1. ArrayBounds /\ ArrayInd /\ t \in Array!Callers
    BY ArrayFacts DEF ArrayBounds
  <1>2. ASSUME NEW i \in 0..(size - 1), Array!AtCheck(t, i) PROVE ArrayInd'
    <2>1. /\ i \in Nat /\ pc' = [pc EXCEPT ![t] = "read"] /\ index' = [index EXCEPT ![t] = i]
          /\ UNCHANGED <<next_index, size, array, memory, calls, bucket, appended, read>>
      BY <1>1, <1>2 DEF Array!AtCheck, Array!Goto, ArrayBounds
    <2>2. /\ DOMAIN pc' = Array!Callers /\ pc'[t] = "read" /\ index'[t] = i
          /\ index' \in [Array!Callers -> Nat] /\ DOMAIN read' = Readers
          /\ \A u \in Array!Callers : u # t => pc'[u] = pc[u] /\ index'[u] = index[u]
      BY <1>1, <2>1 DEF ArrayBounds
    <2> QED BY <1>2, <2>1, <2>2, AtKeeps
  <1>3. ASSUME Array!AtRead(t) PROVE ArrayInd'
    <2>1. /\ pc[t] = "read" /\ pc' = [pc EXCEPT ![t] = "returned"]
          /\ read' = [read EXCEPT ![t] = Array!Lookup(index[t])]
          /\ UNCHANGED <<next_index, size, array, memory, calls, bucket, appended, index>>
      BY <1>3 DEF Array!AtRead, Array!Goto
    <2>2. index[t] \in 0..(size - 1) /\ Stored(index[t])
      BY <1>1, <2>1 DEF ArrayInd, ElementsHold
    <2>3. Array!Lookup(index[t]) = Array!ElementAt(index[t])
      BY <2>2 DEF Stored, Array!Lookup, Array!Null, BucketOf, Place
    <2>4. /\ DOMAIN pc' = Array!Callers /\ pc'[t] = "returned"
          /\ read'[t] = Array!ElementAt(index[t]) /\ DOMAIN read' = Readers
          /\ index' \in [Array!Callers -> Nat]
          /\ \A u \in Array!Callers : u # t => pc'[u] = pc[u] /\ index'[u] = index[u]
          /\ \A u \in Readers : u # t => read'[u] = read[u]
      BY <1>1, <2>1, <2>3 DEF ArrayBounds
    <2> QED BY <2>1, <2>2, <2>4, AtKeeps
  <1>4. ASSUME Array!AtReturn(t) PROVE ArrayInd'
    <2>1. /\ pc' = [pc EXCEPT ![t] = "idle"]
          /\ read' = [read EXCEPT ![t] = Array!NoElement]
          /\ index' = [index EXCEPT ![t] = 0]
          /\ UNCHANGED <<next_index, size, array, memory, calls, bucket, appended>>
      BY <1>4 DEF Array!AtReturn, Array!Goto
    <2>2. /\ DOMAIN pc' = Array!Callers /\ pc'[t] = "idle" /\ DOMAIN read' = Readers
          /\ index' \in [Array!Callers -> Nat]
          /\ \A u \in Array!Callers : u # t => pc'[u] = pc[u] /\ index'[u] = index[u]
          /\ \A u \in Readers : u # t => read'[u] = read[u]
      BY <1>1, <2>1 DEF ArrayBounds
    <2> QED BY <2>1, <2>2, AtKeeps
  <1> QED BY <1>2, <1>3, <1>4 DEF Array!AtStep

LEMMA ArrayStep == ASSUME Buckets \in Nat, ArrayInd, [Array!Next]_Array!vars PROVE ArrayInd'
  <1>1. CASE UNCHANGED Array!vars
    <2>1. UNCHANGED <<next_index, size, array, memory, pc, calls, index, bucket, appended, read>>
      BY <1>1 DEF Array!vars
    <2>2. \A i : BucketOf(i)' = BucketOf(i) /\ Array!ElementAt(i)' = Array!ElementAt(i)
      BY <2>1 DEF BucketOf, Array!ElementAt
    <2>3. \A i : Stored(i)' <=> Stored(i)
      BY <2>1, <2>2 DEF Stored, Place
    <2>4. ArrayTypes' /\ BucketsHold'
      BY <2>1 DEF ArrayInd, ArrayTypes, BucketsHold
    <2>5. NumbersHold'
      BY <2>1 DEF ArrayInd, NumbersHold, Writes, Loaded
    <2>6. OwnBucketsHold'
      BY <2>1, <2>2 DEF ArrayInd, OwnBucketsHold
    <2>7. ElementsHold'
      BY <2>1, <2>2, <2>3 DEF ArrayInd, ElementsHold
    <2> QED BY <2>4, <2>5, <2>6, <2>7 DEF ArrayInd
  <1>2. ASSUME NEW t \in Writers, Array!EmplaceStep(t) PROVE ArrayInd'
    BY <1>2, EmplaceIndexKeeps, EmplaceLoadKeeps, EmplaceAllocateKeeps, EmplaceInstallKeeps,
       EmplaceDiscardKeeps, EmplaceAssignKeeps, EmplaceWaitKeeps, EmplacePublishKeeps
    DEF Array!EmplaceStep
  <1> QED BY <1>1, <1>2, ReaderKeeps DEF Array!Next

\* The part of the composition that is about the array.
LEMMA ArrayPart ==
    /\ Init /\ part = "array" => Array!Init
    /\ [Next]_vars => part' = part /\ (part = "array" => [Array!Next]_Array!vars)
  BY DEF Init, Next, Step, vars, arrayGroup, Array!vars

\* Of AppendOnlyArray, for any writers and readers and any number of buckets:
\* every index below size() has the element appended there, in the bucket where
\* at() looks for it, whoever won the race to install that bucket; and at()
\* returns it.  Alone, and as a part of MCUtilities.
THEOREM ArraySafety ==
    ASSUME Buckets \in Nat
    PROVE  (Array!Spec => []Array!ArrayInv) /\ (Spec => []ArrayInv)
  <1>1. Array!Spec => []Array!ArrayInv
    BY ArrayIndInit, ArrayStep, ArrayIndImplies, PTL DEF Array!Spec
  <1>2. Spec => []ArrayInv
    <2> DEFINE PartInv == part = "array" => ArrayInd
    <2>1. Init => PartInv
      BY ArrayPart, ArrayIndInit
    <2>2. PartInv /\ [Next]_vars => PartInv'
      BY ArrayPart, ArrayStep
    <2>3. PartInv => ArrayInv
      BY ArrayIndImplies DEF ArrayInv
    <2> QED BY <2>1, <2>2, <2>3, PTL DEF Spec
  <1> QED BY <1>1, <1>2

=============================================================================
