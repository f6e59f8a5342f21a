----------------------- MODULE ContextTaskQueueProofs -----------------------
(***************************************************************************)
(* The ring buffer and the remote task queue above it are correct for any  *)
(* number of threads, any buffer and any record sizes, in every behaviour  *)
(* in which no compare-and-swap succeeds on a stale offset.                *)
(***************************************************************************)
EXTENDS ContextTaskQueue, SequenceTheorems, TLAPS

-----------------------------------------------------------------------------
(***************************************************************************)
(* The ring buffer, alone.  Core(stop) is inductive up to the first stale  *)
(* swap; `stop' is where the data of the old lap ends, and which value it  *)
(* has depends on the step: SwapStep and ConsumeRewindStep choose a new    *)
(* one, the other steps keep it.  There is one lemma per action; the       *)
(* theorems at the end combine them.                                       *)
(***************************************************************************)
USE CapacityAssumption, SizesAssumption, LockBitAssumption, CellAssumption

\* The offset arithmetic: lock bit on and off, and the target of a swap.
LEMMA OffsetFacts ==
    /\ MAX_OFFSET \in Nat /\ MAX_OFFSET > Capacity /\ ~IsLocked(MAX_OFFSET)
    /\ \A o \in 0..Capacity :
          /\ ~IsLocked(o) /\ UnlockWrapBit(o) = o
          /\ LockWrapBit(o) = o + WRAP_LOCK_BIT
          /\ IsLocked(LockWrapBit(o))
          /\ UnlockWrapBit(LockWrapBit(o)) = o
  BY DEF MAX_OFFSET, IsLocked, LockWrapBit, UnlockWrapBit

\* The sizes acquire() is called with are at most the capacity.
LEMMA SizeFacts == \A s \in Sizes : s \in 1..Capacity /\ s \in 0..Capacity
  OBVIOUS

\* The three outcomes of Target(): within the buffer, exactly to its end,
\* or locked at the size of the range.
LEMMA TargetFacts ==
    ASSUME NEW n \in Offsets, NEW s \in Sizes
    PROVE  /\ n + s < Capacity => Target(n, s) = n + s
           /\ n + s = Capacity => Target(n, s) = 0
           /\ n + s > Capacity => Target(n, s) = s + WRAP_LOCK_BIT
           /\ IsLocked(Target(n, s)) <=> n + s > Capacity
<1>1. s \in 1..Capacity /\ n \in 0..(Capacity - 1) /\ n + s \in Nat
  BY DEF Offsets
<1>2. CASE n + s < Capacity
  <2>1. Target(n, s) = n + s
    BY <1>1, <1>2 DEF Target
  <2> QED
    BY <1>1, <1>2, <2>1, OffsetFacts
<1>3. CASE n + s = Capacity
  <2>1. Target(n, s) = 0
    BY <1>1, <1>3 DEF Target
  <2> QED
    BY <1>1, <1>3, <2>1, OffsetFacts
<1>4. CASE n + s > Capacity
  <2>1. Target(n, s) = LockWrapBit(s)
    BY <1>1, <1>4 DEF Target
  <2> QED
    BY <1>1, <1>4, <2>1, OffsetFacts
<1> QED
  BY <1>1, <1>2, <1>3, <1>4

\* The next free offset is an offset or, while it is locked, at most Capacity.
LEMMA TopType ==
    ASSUME TypeOK
    PROVE  Top \in Nat
  BY OffsetFacts DEF Top, TypeOK, Offsets

\* A step that moves no barrier and no reservation keeps everything but the
\* facts about the producers themselves.
LEMMA QuietStep ==
    ASSUME NEW stop \in 0..Capacity, Core(stop), TypeOK',
           UNCHANGED <<producer_barrier, end, consumerVars, cells>>,
           \A q \in Producers : Reserving(q)' <=> Reserving(q),
           \A q \in Producers : Reserving(q) =>
               next'[q] = next[q] /\ size'[q] = size[q] /\ pc'[q] = pc[q]
    PROVE  OwnersInv' /\ Shape(stop)' /\ ScanInv(stop)' /\ HoldInv'
<1> USE DEF Core
<1>1. \A q \in Producers : Reserving(q) => Slot(q)' = Slot(q)
  BY DEF Slot, Start
<1>2. \A q \in Producers : Wrapping(q)' <=> Wrapping(q)
  BY DEF Wrapping
<1>3. OwnersInv'
  BY <1>1 DEF OwnersInv
<1>4. Shape(stop)'
  BY <1>2 DEF Shape, Top, consumerVars, LapEnd, Wrapping
<1>5. ScanInv(stop)'
  BY DEF ScanInv, Top, consumerVars
<1>6. HoldInv'
  BY DEF HoldInv, Held, consumerVars
<1> QED
  BY <1>3, <1>4, <1>5, <1>6

\* The steps of acquire() up to the swap, and registering, reserve nothing.
LEMMA LocalSteps ==
    ASSUME NEW stop \in 0..Capacity, Core(stop), NEW p \in Producers,
           \/ Register(p) \/ Unregister(p) \/ (\E s \in Sizes : AcquireCall(p, s))
           \/ LoadNext(p) \/ LockSeen(p) \/ CheckRoom(p) \/ SwapFails(p)
    PROVE  Core(stop)'
<1> USE DEF Core
<1>1. TypeOK'
  <2>1. CASE Register(p) \/ Unregister(p) \/ (\E s \in Sizes : AcquireCall(p, s)) \/ SwapFails(p)
    BY <2>1 DEF Register, Unregister, AcquireCall, SwapFails, consumerVars, historyVars, TypeOK, PcValues, Stable
  <2>2. CASE LoadNext(p)
    <3>1. \A o \in 1..Capacity : IsLocked(LockWrapBit(o))
      BY OffsetFacts
    <3>2. producer_barrier \in Offsets
      BY <2>2, <3>1 DEF LoadNext, TypeOK
    <3> QED
      BY <2>2, <3>2 DEF LoadNext, consumerVars, TypeOK, PcValues
  <2>3. CASE LockSeen(p)
    BY <2>3 DEF LockSeen, consumerVars, historyVars, TypeOK, PcValues
  <2>4. CASE CheckRoom(p)
    BY <2>4 DEF CheckRoom, consumerVars, historyVars, TypeOK, PcValues, Stable
  <2> QED
    BY <2>1, <2>2, <2>3, <2>4
<1>2. \A q \in Producers : Reserving(q)' <=> Reserving(q)
  BY DEF Register, Unregister, AcquireCall, LoadNext, LockSeen, CheckRoom, SwapFails, Reserving, TypeOK
<1>3. \A q \in Producers : Reserving(q) =>
          next'[q] = next[q] /\ size'[q] = size[q] /\ pc'[q] = pc[q]
  BY DEF Register, Unregister, AcquireCall, LoadNext, LockSeen, CheckRoom, SwapFails, Reserving, TypeOK
<1>4. UNCHANGED <<producer_barrier, end, consumerVars, cells>>
  BY DEF Register, Unregister, AcquireCall, LoadNext, LockSeen, CheckRoom, SwapFails, historyVars
<1>5. OwnersInv' /\ Shape(stop)' /\ ScanInv(stop)' /\ HoldInv'
  BY <1>1, <1>2, <1>3, <1>4, QuietStep
<1>6. ProducersInv'
  <2>1. CASE Register(p)
    BY <2>1 DEF Register, TypeOK, ProducersInv, Reserving, Wrapping, consumerVars, historyVars
  <2>2. CASE Unregister(p)
    BY <2>2 DEF Unregister, TypeOK, ProducersInv, Reserving, Wrapping, consumerVars, historyVars
  <2>3. CASE \E s \in Sizes : AcquireCall(p, s)
    BY <2>3 DEF AcquireCall, TypeOK, ProducersInv, Reserving, Wrapping, consumerVars, historyVars
  <2>4. CASE LoadNext(p)
    BY <2>4 DEF LoadNext, TypeOK, ProducersInv, Reserving, Wrapping, consumerVars
  <2>5. CASE LockSeen(p)
    BY <2>5 DEF LockSeen, TypeOK, ProducersInv, Reserving, Wrapping, consumerVars, historyVars
  <2>6. CASE CheckRoom(p)
    BY <2>6 DEF CheckRoom, TypeOK, ProducersInv, Reserving, Wrapping, consumerVars, historyVars
  <2>7. CASE SwapFails(p)
    BY <2>7, OffsetFacts DEF SwapFails, TypeOK, ProducersInv, Reserving, Wrapping, consumerVars, historyVars, Offsets
  <2> QED
    BY <2>1, <2>2, <2>3, <2>4, <2>5, <2>6, <2>7
<1> QED
  BY <1>1, <1>5, <1>6

\* Only one producer wraps at a time: its range has the byte at 0.
LEMMA WrappingUnique ==
    ASSUME TypeOK, ProducersInv, OwnersInv, NEW p \in Producers, NEW q \in Producers,
           Wrapping(p), Wrapping(q)
    PROVE  p = q
<1>1. 0 \in Offsets
  BY DEF Offsets
<1>2. size[p] \in 1..Capacity /\ size[q] \in 1..Capacity
  BY DEF ProducersInv, Wrapping, Reserving
<1>3. 0 \in Slot(p) /\ 0 \in Slot(q)
  BY <1>2 DEF Wrapping, Slot, Start
<1> QED
  BY <1>1, <1>3 DEF OwnersInv, Wrapping

\* acquire(): _seen becomes stable after the swap.
LEMMA UnlockSeenStep ==
    ASSUME NEW stop \in 0..Capacity, Core(stop), NEW p \in Producers, UnlockSeen(p)
    PROVE  Core(stop)'
<1> USE DEF Core
<1>0. next[p] \in Offsets /\ size[p] \in Sizes /\ Reserving(p) /\ seen[p] = LockWrapBit(next[p])
  BY DEF UnlockSeen, ProducersInv, Reserving, TypeOK
<1>1. UnlockWrapBit(seen[p]) = next[p]
  BY <1>0, OffsetFacts DEF Offsets
<1>2. IsLocked(Target(next[p], size[p])) <=> Wrapping(p)
  BY <1>0, TargetFacts DEF Wrapping
<1>3. TypeOK'
  BY <1>0, <1>1 DEF UnlockSeen, TypeOK, PcValues, consumerVars, historyVars, Stable
<1>4. \A q \in Producers : (Reserving(q)' <=> Reserving(q)) /\ (Wrapping(q)' <=> Wrapping(q))
                            /\ Slot(q)' = Slot(q)
  BY DEF UnlockSeen, TypeOK, Reserving, Wrapping, Slot, Start
<1>5. ProducersInv'
  BY <1>0, <1>1, <1>2, <1>4 DEF UnlockSeen, TypeOK, ProducersInv, Reserving, consumerVars, historyVars, Wrapping
<1>6. OwnersInv'
  BY <1>4 DEF UnlockSeen, OwnersInv, historyVars
<1>7. Shape(stop)'
  BY <1>2, <1>4 DEF UnlockSeen, TypeOK, Shape, Top, LapEnd, consumerVars, historyVars
<1>8. ScanInv(stop)' /\ HoldInv'
  BY <1>4 DEF UnlockSeen, ScanInv, HoldInv, Held, Top, consumerVars, historyVars
<1> QED
  BY <1>3, <1>5, <1>6, <1>7, <1>8

\* acquire(): the wrapping producer sets _end.
LEMMA SetEndStep ==
    ASSUME NEW stop \in 0..Capacity, Core(stop), NEW p \in Producers, SetEnd(p)
    PROVE  Core(stop)'
<1> USE DEF Core
<1>0. Wrapping(p) /\ pc[p] = "set_end"
  BY DEF SetEnd, ProducersInv
<1>1. TypeOK'
  BY DEF SetEnd, TypeOK, PcValues, consumerVars, historyVars, Stable
<1>2. \A q \in Producers : (Reserving(q)' <=> Reserving(q)) /\ (Wrapping(q)' <=> Wrapping(q))
                            /\ Slot(q)' = Slot(q)
  BY DEF SetEnd, TypeOK, Reserving, Wrapping, Slot, Start
<1>3. ProducersInv'
  BY <1>0, <1>2 DEF SetEnd, TypeOK, ProducersInv, Reserving, consumerVars, historyVars, Wrapping
<1>4. OwnersInv'
  BY <1>2 DEF SetEnd, OwnersInv, historyVars
<1>5. \A q \in Producers : Wrapping(q) => q = p
  BY <1>0, WrappingUnique
<1>6. IsLocked(producer_barrier) /\ Top < consumer_barrier /\ c_pc # "rewind"
  <2>1. size[p] \in Sizes
    BY <1>0 DEF ProducersInv
  <2>2. size[p] \in 0..Capacity
    BY <2>1, SizeFacts
  <2> QED
    BY <1>0, <2>2, OffsetFacts DEF Shape
<1>7. Shape(stop)'
  BY <1>0, <1>2, <1>5, <1>6 DEF SetEnd, TypeOK, Shape, Top, Offsets, consumerVars, historyVars
<1>8. ScanInv(stop)' /\ HoldInv'
  BY <1>2 DEF SetEnd, ScanInv, HoldInv, Held, Top, consumerVars, historyVars
<1> QED
  BY <1>1, <1>3, <1>4, <1>7, <1>8

\* acquire(): the wrapping producer unlocks the barrier; _end is set by then.
LEMMA UnlockNextStep ==
    ASSUME NEW stop \in 0..Capacity, Core(stop), NEW p \in Producers, UnlockNext(p)
    PROVE  Core(stop)'
<1> USE DEF Core
<1>0. Wrapping(p) /\ pc[p] = "unlock_next" /\ size[p] \in Sizes /\ next[p] \in Offsets
  BY DEF UnlockNext, ProducersInv, Wrapping, Reserving, TypeOK
<1>s. size[p] \in 0..Capacity /\ size[p] \in 1..Capacity
  BY <1>0, SizeFacts
<1>1. producer_barrier' = size[p] /\ producer_barrier = LockWrapBit(size[p])
  <2>1. Target(next[p], size[p]) = LockWrapBit(size[p])
    BY <1>0, <1>s, TargetFacts, OffsetFacts DEF Wrapping
  <2>2. UnlockWrapBit(LockWrapBit(size[p])) = size[p]
    BY <1>s, OffsetFacts
  <2> QED
    BY <1>0, <2>1, <2>2 DEF UnlockNext, Shape
<1>2. Top' = size[p] /\ Top = size[p] /\ ~IsLocked(producer_barrier') /\ IsLocked(producer_barrier)
  BY <1>s, <1>1, OffsetFacts DEF Top
<1>3. size[p] < consumer_barrier /\ stop = next[p] /\ end = next[p] /\ c_pc # "rewind"
  BY <1>0, <1>2 DEF Shape
<1>4. TypeOK'
  <2>1. producer_barrier' \in Offsets
    BY <1>s, <1>1, <1>3 DEF TypeOK, Offsets
  <2> QED
    BY <2>1 DEF UnlockNext, TypeOK, PcValues, consumerVars, historyVars
<1>5. \A q \in Producers : (Reserving(q)' <=> Reserving(q)) /\ (Wrapping(q)' <=> Wrapping(q))
                            /\ Slot(q)' = Slot(q)
  BY DEF UnlockNext, TypeOK, Reserving, Wrapping, Slot, Start
<1>6. \A q \in Producers : next[q] # producer_barrier
  BY <1>2, OffsetFacts DEF TypeOK, Offsets
<1>7. ProducersInv'
  BY <1>0, <1>5, <1>6 DEF UnlockNext, TypeOK, ProducersInv, Reserving, consumerVars, historyVars, Wrapping
<1>8. OwnersInv'
  BY <1>5 DEF UnlockNext, OwnersInv, historyVars
<1>9. \A q \in Producers : Wrapping(q) => q = p
  BY <1>0, WrappingUnique
<1>10. LapEnd' = stop
  BY <1>0, <1>3 DEF UnlockNext, LapEnd, MinOffset, Offsets
<1>11. Shape(stop)'
  BY <1>0, <1>2, <1>3, <1>5, <1>9, <1>10 DEF UnlockNext, TypeOK, Shape, Offsets, consumerVars, historyVars
<1>12. ScanInv(stop)' /\ HoldInv'
  BY <1>2, <1>5 DEF UnlockNext, ScanInv, HoldInv, Held, consumerVars, historyVars
<1> QED
  BY <1>4, <1>7, <1>8, <1>11, <1>12

\* produce(): the range is published.
LEMMA ProduceStep ==
    ASSUME NEW stop \in 0..Capacity, Core(stop), NEW p \in Producers, Produce(p)
    PROVE  Core(stop)'
<1> USE DEF Core
<1>0. Reserving(p) /\ pc[p] = "acquired" /\ \A c \in Offsets : c \in Slot(p) <=> cells[c] = p
  BY DEF Produce, Reserving, OwnersInv
<1>1. TypeOK'
  BY DEF Produce, TypeOK, PcValues, consumerVars, Stable
<1>2. \A q \in Producers : Reserving(q)' <=> Reserving(q) /\ q # p
  BY <1>0 DEF Produce, TypeOK, Reserving
<1>3. \A q \in Producers : (Wrapping(q)' <=> Wrapping(q) /\ q # p) /\ Slot(q)' = Slot(q)
  BY <1>2 DEF Produce, Wrapping, Slot, Start
<1>4. ProducersInv'
  BY <1>0, <1>2, <1>3 DEF Produce, TypeOK, ProducersInv, Reserving, consumerVars
<1>5. OwnersInv'
  BY <1>0, <1>2, <1>3 DEF Produce, OwnersInv
<1>6. \A c \in Offsets : cells'[c] # Free <=> cells[c] # Free
  BY <1>0 DEF Produce
<1>7. Shape(stop)'
  BY <1>0, <1>3, <1>6 DEF Produce, TypeOK, Shape, Top, LapEnd, consumerVars
<1>8. ScanInv(stop)'
  BY <1>2 DEF Produce, ScanInv, Top, consumerVars
<1>9. HoldInv'
  <2>1. c_pc = "holding" => Held \subseteq Offsets
    BY DEF HoldInv, Held, Offsets, TypeOK
  <2> QED
    BY <1>0, <2>1 DEF Produce, HoldInv, Held, consumerVars
<1> QED
  BY <1>1, <1>4, <1>5, <1>7, <1>8, <1>9

\* The heart of the matter: a producer whose offset is not stale reserves
\* free bytes only.
LEMMA SwapTakesFreeBytes ==
    ASSUME NEW stop \in 0..Capacity, Core(stop), NEW p \in Producers, Swap(p), p \notin stale
    PROVE  /\ next[p] = producer_barrier /\ next[p] \in Offsets /\ size[p] \in 1..Capacity
           /\ Top = next[p] /\ ~IsLocked(producer_barrier)
           /\ ~NoRoom(next[p], size[p], consumer_barrier)
           /\ \A c \in Slot(p) : c \in Offsets /\ cells[c] = Free
<1> USE DEF Core
<1>1. next[p] = producer_barrier /\ next[p] \in Offsets /\ size[p] \in Sizes
      /\ ~NoRoom(next[p], size[p], consumer_barrier) /\ consumer_barrier \in Offsets
  BY DEF Swap, ProducersInv, TypeOK
<1>2. size[p] \in 1..Capacity
  BY <1>1, SizeFacts
<1>3. Top = next[p] /\ ~IsLocked(producer_barrier)
  BY <1>1, OffsetFacts DEF Top, Offsets
<1>4. CASE next[p] + size[p] <= Capacity
  <2>1. Slot(p) = next[p]..(next[p] + size[p] - 1)
    BY <1>1, <1>2, <1>4 DEF Slot, Start, Offsets
  <2>2. \A c \in Slot(p) : c \in Offsets
    BY <1>1, <1>2, <1>4, <2>1 DEF Offsets
  <2>3. next[p] < consumer_barrier => next[p] + size[p] < consumer_barrier
    BY <1>1, <1>2 DEF NoRoom, Offsets
  <2>4. \A c \in Slot(p) : cells[c] = Free
    BY <1>1, <1>2, <1>3, <2>1, <2>2, <2>3 DEF Shape, Offsets
  <2> QED
    BY <1>1, <1>2, <1>3, <2>2, <2>4
<1>5. CASE next[p] + size[p] > Capacity
  <2>1. Slot(p) = 0..(size[p] - 1)
    BY <1>1, <1>2, <1>5 DEF Slot, Start, Offsets
  <2>2. \A c \in Slot(p) : c \in Offsets
    BY <1>1, <1>2, <2>1 DEF Offsets
  <2>3. UnlockWrapBit(Target(next[p], size[p])) = size[p]
    <3>1. Target(next[p], size[p]) = size[p] + WRAP_LOCK_BIT
      BY <1>1, <1>5, TargetFacts
    <3> QED
      BY <1>2, <3>1 DEF UnlockWrapBit, IsLocked
  <2>4. size[p] < consumer_barrier /\ consumer_barrier <= next[p]
    BY <1>1, <1>2, <1>5, <2>3 DEF NoRoom, Offsets
  <2>5. \A c \in Slot(p) : cells[c] = Free
    BY <1>1, <1>2, <1>3, <2>1, <2>2, <2>4 DEF Shape, Offsets
  <2> QED
    BY <1>1, <1>2, <1>3, <2>2, <2>5
<1> QED
  BY <1>1, <1>2, <1>4, <1>5 DEF Offsets

\* acquire(): the swap reserves the range.  Three cases: it stays in the lap,
\* it ends exactly at the end of the buffer, or it starts again at 0.
LEMMA SwapStep ==
    ASSUME NEW stop \in 0..Capacity, Core(stop), NEW p \in Producers, Swap(p), p \notin stale
    PROVE  \E s \in 0..Capacity : Core(s)'
<1> USE DEF Core
<1> DEFINE n == next[p]
           z == size[p]
           cb == consumer_barrier
<1>1. /\ n = producer_barrier /\ n \in Offsets /\ z \in 1..Capacity
      /\ Top = n /\ ~IsLocked(producer_barrier)
      /\ ~NoRoom(n, z, cb)
      /\ \A c \in Slot(p) : c \in Offsets /\ cells[c] = Free
  BY SwapTakesFreeBytes
<1>2. z \in Sizes /\ cb \in Offsets /\ pc[p] = "swap"
  BY DEF Swap, ProducersInv, TypeOK
<1>3. /\ n + z < Capacity => producer_barrier' = n + z
      /\ n + z = Capacity => producer_barrier' = 0
      /\ n + z > Capacity => producer_barrier' = z + WRAP_LOCK_BIT
  BY <1>1, <1>2, TargetFacts DEF Swap
<1>4. TypeOK'
  <2>1. producer_barrier' \in Offsets \cup {LockWrapBit(o) : o \in 1..Capacity}
    <3>1. CASE n + z < Capacity
      BY <1>1, <1>3, <3>1 DEF Offsets
    <3>2. CASE n + z = Capacity
      BY <1>1, <1>3, <3>2 DEF Offsets
    <3>3. CASE n + z > Capacity
      <4>1. producer_barrier' = LockWrapBit(z)
        BY <1>1, <1>3, <3>3 DEF LockWrapBit, IsLocked
      <4> QED
        BY <4>1, <1>1
    <3> QED
      BY <1>1, <3>1, <3>2, <3>3 DEF Offsets
  <2>2. cells' \in [Offsets -> Producers \cup {Free, Ready}]
    BY DEF Swap, TypeOK
  <2> QED
    BY <2>1, <2>2 DEF Swap, TypeOK, PcValues, consumerVars
<1>5. /\ \A q \in Producers : Reserving(q)' <=> Reserving(q) \/ q = p
      /\ ~Reserving(p)
      /\ \A q \in Producers : Slot(q)' = Slot(q)
  BY <1>2 DEF Swap, TypeOK, Reserving, Slot, Start
<1>6. \A q \in Producers : Wrapping(q)' <=> Wrapping(q) \/ (q = p /\ n + z > Capacity)
  BY <1>5 DEF Swap, Wrapping
<1>7. ProducersInv'
  <2>1. \A q \in Producers : Reserving(q)' /\ ~Wrapping(q)' => next'[q] + size'[q] <= Capacity
    BY <1>1, <1>5, <1>6 DEF Swap, ProducersInv, Offsets
  <2> QED
    BY <1>2, <1>5, <1>6, <2>1 DEF Swap, TypeOK, ProducersInv, consumerVars
<1>8. OwnersInv'
  BY <1>1, <1>5 DEF Swap, OwnersInv
<1>9. HoldInv'
  <2>1. c_pc = "holding" => Held \subseteq Offsets
    BY DEF HoldInv, Held, Offsets, TypeOK
  <2> QED
    BY <1>1, <2>1 DEF Swap, HoldInv, Held, consumerVars
<1>10. \A c \in Offsets : cells'[c] # Free <=> cells[c] # Free \/ c \in Slot(p)
  BY DEF Swap
<1>11. CASE n + z < Capacity
  <2>1. producer_barrier' = n + z /\ Top' = n + z /\ ~IsLocked(producer_barrier')
    BY <1>1, <1>3, <1>11, OffsetFacts DEF Top, Offsets
  <2>2. Slot(p) = n..(n + z - 1)
    BY <1>1, <1>11 DEF Slot, Start, Offsets
  <2>3. n < cb => n + z < cb
    BY <1>1, <1>2 DEF NoRoom, Offsets
  <2>4. \A c \in Offsets :
          cells'[c] # Free <=> IF Top' < cb
                               THEN (cb <= c /\ c < stop) \/ c < Top'
                               ELSE cb <= c /\ c < Top'
    BY <1>1, <1>2, <1>10, <2>1, <2>2, <2>3 DEF Shape, Offsets
  <2>5. Shape(stop)'
    <3>1. \A q \in Producers : Wrapping(q)' <=> Wrapping(q) /\ q # p
      BY <1>1, <1>5, <1>6, <1>11 DEF Wrapping, Offsets
    <3>2. (Top' < cb <=> n < cb) /\ (cb <= Top' <=> cb <= n)
      BY <1>1, <1>2, <2>1, <2>3 DEF Offsets
    <3>3. \A q \in Producers : Wrapping(q) => pc[q] = "acquired"
      <4> SUFFICES ASSUME NEW q \in Producers, Wrapping(q), pc[q] # "acquired" PROVE FALSE
        OBVIOUS
      <4>1. size[q] \in Sizes /\ producer_barrier = LockWrapBit(size[q])
        BY DEF Shape, ProducersInv, Wrapping, Reserving
      <4>2. size[q] \in 0..Capacity
        BY <4>1, SizeFacts
      <4> QED
        BY <1>1, <4>1, <4>2, OffsetFacts
    <3>4. \A q \in Producers : q # p => pc'[q] = pc[q]
      BY DEF Swap, TypeOK
    <3> QED
      BY <1>1, <2>1, <2>4, <3>1, <3>2, <3>3, <3>4 DEF Swap, Shape, consumerVars, LapEnd
  <2>6. ScanInv(stop)'
    BY <1>1, <1>2, <1>5, <2>1, <2>3 DEF Swap, ScanInv, TypeOK, consumerVars, Offsets
  <2> QED
    BY <1>4, <1>7, <1>8, <1>9, <2>5, <2>6
<1>12. CASE n + z = Capacity
  <2>1. producer_barrier' = 0 /\ Top' = 0 /\ ~IsLocked(producer_barrier')
    BY <1>3, <1>12, OffsetFacts DEF Top
  <2>2. Slot(p) = n..(Capacity - 1)
    BY <1>1, <1>12 DEF Slot, Start, Offsets
  <2>3. cb <= n /\ 0 < cb
    <3>1. Target(n, z) = 0
      BY <1>1, <1>2, <1>12, TargetFacts
    <3>2. UnlockWrapBit(Target(n, z)) = 0
      BY <3>1 DEF UnlockWrapBit, IsLocked
    <3> QED
      BY <1>1, <1>2, <1>12, <3>2 DEF NoRoom, Offsets
  <2>4. Shape(Capacity)'
    <3>1. \A c \in Offsets : cells'[c] # Free <=> cb <= c /\ c < Capacity
      BY <1>1, <1>2, <1>10, <2>2, <2>3 DEF Shape, Offsets
    <3>2. \A q \in Producers : ~Wrapping(q)'
      BY <1>1, <1>2, <1>6, <1>12, <2>3 DEF Shape, Offsets
    <3>3. end' = MAX_OFFSET /\ LapEnd' = Capacity
      BY <1>1, <2>3, OffsetFacts DEF Swap, Shape, LapEnd, MinOffset
    <3>4. c_pc # "rewind"
      BY <1>1, <1>2, <2>3 DEF Shape, Offsets
    <3> QED
      BY <1>2, <2>1, <2>3, <3>1, <3>2, <3>3, <3>4 DEF Swap, Shape, consumerVars, Offsets
  <2>5. ScanInv(Capacity)'
    BY <1>1, <1>2, <1>5, <2>1, <2>3 DEF Swap, ScanInv, TypeOK, consumerVars, Offsets
  <2> QED
    BY <1>4, <1>7, <1>8, <1>9, <2>4, <2>5
<1>13. CASE n + z > Capacity
  <2>1. producer_barrier' = LockWrapBit(z) /\ Top' = z /\ IsLocked(producer_barrier')
    BY <1>1, <1>3, <1>13 DEF Top, LockWrapBit, UnlockWrapBit, IsLocked
  <2>2. Slot(p) = 0..(z - 1)
    BY <1>1, <1>13 DEF Slot, Start, Offsets
  <2>3. z < cb /\ cb <= n
    <3>1. Target(n, z) = z + WRAP_LOCK_BIT
      BY <1>1, <1>2, <1>13, TargetFacts
    <3>2. UnlockWrapBit(Target(n, z)) = z
      BY <1>1, <3>1 DEF UnlockWrapBit, IsLocked
    <3> QED
      BY <1>1, <1>2, <1>13, <3>2 DEF NoRoom, Offsets
  <2>k. PICK k \in 0..Capacity : k = n
    BY <1>1 DEF Offsets
  <2>4. Shape(k)'
    <3>1. \A c \in Offsets : cells'[c] # Free <=> (cb <= c /\ c < n) \/ c < z
      BY <1>1, <1>2, <1>10, <2>2, <2>3 DEF Shape, Offsets
    <3>2. \A q \in Producers : Wrapping(q)' <=> q = p
      BY <1>1, <1>2, <1>6, <1>13, <2>3 DEF Shape, Offsets
    <3>3. end' = MAX_OFFSET /\ c_pc # "rewind"
      BY <1>1, <1>2, <2>3 DEF Swap, Shape, Offsets
    <3>4. pc'[p] = "unlock_seen" /\ next'[p] = n /\ size'[p] = z
      BY DEF Swap, TypeOK
    <3> QED
      BY <1>1, <1>2, <2>1, <2>3, <2>k, <3>1, <3>2, <3>3, <3>4 DEF Swap, Shape, consumerVars, Offsets
  <2>5. ScanInv(k)'
    BY <1>1, <1>2, <1>5, <2>1, <2>3, <2>k DEF Swap, ScanInv, TypeOK, consumerVars, Offsets
  <2> QED
    BY <1>4, <1>7, <1>8, <1>9, <2>4, <2>5
<1> QED
  BY <1>1, <1>11, <1>12, <1>13 DEF Offsets

\* consume(): the barrier it reads bounds what it may return.
LEMMA ConsumeLoadNextStep ==
    ASSUME NEW stop \in 0..Capacity, Core(stop), ConsumeLoadNext
    PROVE  Core(stop)'
<1> USE DEF Core
<1>1. producer_barrier \in Offsets /\ Top = producer_barrier
  <2>1. producer_barrier \in Offsets
    BY OffsetFacts DEF ConsumeLoadNext, TypeOK
  <2> QED
    BY <2>1, OffsetFacts DEF Top, Offsets
<1>2. TypeOK'
  BY <1>1, OffsetFacts DEF ConsumeLoadNext, TypeOK, producerVars, historyVars, Stable
<1>3. ProducersInv' /\ OwnersInv'
  BY DEF ConsumeLoadNext, ProducersInv, OwnersInv, producerVars, historyVars, Reserving, Wrapping, Slot, Start
<1>4. Shape(stop)'
  BY DEF ConsumeLoadNext, Shape, producerVars, historyVars, Top, LapEnd, Wrapping, Reserving
<1>5. ScanInv(stop)'
  BY <1>1, OffsetFacts DEF ConsumeLoadNext, ScanInv, Shape, TypeOK, producerVars, historyVars, Top, Offsets
<1>6. HoldInv'
  BY DEF ConsumeLoadNext, HoldInv, Held, historyVars
<1> QED
  BY <1>2, <1>3, <1>4, <1>5, <1>6

\* consume(): looking at one worker.
LEMMA ScanWorkerStep ==
    ASSUME NEW stop \in 0..Capacity, Core(stop), NEW p \in Producers, ScanWorker(p)
    PROVE  Core(stop)'
<1> USE DEF Core
<1>1. p \in registered => seen[p] \in Stable
  BY OffsetFacts DEF ScanWorker, TypeOK, Offsets
<1>2. consumer_barrier \in Offsets /\ c_ready \in Stable /\ \A o \in Stable : o \in Int
  BY OffsetFacts DEF TypeOK, Stable, Offsets
<1>3. c_ready' \in Stable /\ c_ready' <= c_ready /\ (c_ready >= consumer_barrier => c_ready' >= consumer_barrier)
  BY <1>1, <1>2 DEF ScanWorker, MinOffset, Offsets
<1>4. TypeOK'
  BY <1>3 DEF ScanWorker, TypeOK, producerVars, historyVars
<1>5. ProducersInv' /\ OwnersInv'
  BY DEF ScanWorker, ProducersInv, OwnersInv, producerVars, historyVars, Reserving, Wrapping, Slot, Start
<1>6. Shape(stop)'
  BY DEF ScanWorker, Shape, producerVars, historyVars, Top, LapEnd, Wrapping, Reserving
<1>7. Reserving(p) /\ consumer_barrier <= next[p] => c_ready' <= next[p]
  <2> SUFFICES ASSUME Reserving(p), consumer_barrier <= next[p] PROVE c_ready' <= next[p]
    OBVIOUS
  <2>1. p \in registered /\ ~IsLocked(seen[p]) /\ next[p] \in Offsets
    BY DEF ScanWorker, ProducersInv, Reserving, TypeOK
  <2>2. seen[p] = next[p]
    BY <2>1, OffsetFacts DEF ProducersInv, Reserving, Offsets
  <2> QED
    BY <1>2, <2>1, <2>2 DEF ScanWorker, MinOffset, Offsets
<1>8. ScanInv(stop)'
  <2>1. c_ready' \in Int /\ c_ready \in Int /\ \A q \in Producers : next[q] \in Int
    BY <1>2, <1>3 DEF TypeOK, Offsets
  <2> QED
    BY <1>3, <1>7, <2>1 DEF ScanWorker, ScanInv, producerVars, Top, Reserving
<1>9. HoldInv'
  BY DEF ScanWorker, HoldInv, Held, historyVars
<1> QED
  BY <1>4, <1>5, <1>6, <1>8, <1>9

\* The consumer leaves the old lap only when its last bytes, and the range
\* of the producer that wrapped, are published.
LEMMA ConsumeWrapStep ==
    ASSUME NEW stop \in 0..Capacity, Core(stop), ConsumeWrap
    PROVE  Core(stop)'
<1> USE DEF Core
<1>1. ~IsLocked(producer_barrier) /\ Top < consumer_barrier /\ c_pc = "scan"
      /\ stop = LapEnd /\ stop = consumer_barrier
  BY DEF ConsumeWrap, ScanInv, Shape
<1>2. \A q \in Producers : ~Wrapping(q)
  <2> SUFFICES ASSUME NEW q \in Producers, Wrapping(q) PROVE FALSE
    OBVIOUS
  <2>1. next[q] = consumer_barrier /\ next[q] \in Offsets
    BY <1>1 DEF Shape, TypeOK
  <2>2. c_ready <= next[q] /\ c_ready = MAX_OFFSET
    BY <2>1 DEF ConsumeWrap, ScanInv, Wrapping, Offsets
  <2> QED
    BY <2>1, <2>2, OffsetFacts DEF Offsets
<1>3. TypeOK'
  BY DEF ConsumeWrap, TypeOK, producerVars, historyVars, Stable
<1>4. ProducersInv' /\ OwnersInv'
  BY DEF ConsumeWrap, ProducersInv, OwnersInv, producerVars, historyVars, Reserving, Wrapping, Slot, Start
<1>5. \A q \in Producers : ~Wrapping(q)'
  BY <1>2 DEF ConsumeWrap, producerVars, Wrapping, Reserving
<1>6. Shape(stop)'
  BY <1>1, <1>5 DEF ConsumeWrap, Shape, historyVars, Top
<1>7. ScanInv(stop)' /\ HoldInv'
  BY <1>1 DEF ConsumeWrap, ScanInv, HoldInv, historyVars
<1> QED
  BY <1>3, <1>4, <1>6, <1>7

\* consume(): the consumer starts again at 0; nothing is left of the old lap.
LEMMA ConsumeRewindStep ==
    ASSUME NEW stop \in 0..Capacity, Core(stop), ConsumeRewind
    PROVE  Core(stop)'
<1> USE DEF Core
<1>1. ~IsLocked(producer_barrier) /\ Top < consumer_barrier /\ stop = consumer_barrier
      /\ end = MAX_OFFSET /\ consumer_barrier \in Offsets /\ (\A q \in Producers : ~Wrapping(q))
  BY DEF ConsumeRewind, Shape, TypeOK
<1>2. producer_barrier \in Offsets /\ Top = producer_barrier
  <2>1. producer_barrier \in Offsets
    BY <1>1, OffsetFacts DEF TypeOK
  <2> QED
    BY <2>1, OffsetFacts DEF Top, Offsets
<1>3. TypeOK'
  BY DEF ConsumeRewind, TypeOK, producerVars, historyVars, Offsets
<1>4. ProducersInv'
  <2>1. ASSUME NEW q \in Producers, pc[q] = "swap", q \notin stale
        PROVE  ~NoRoom(next[q], size[q], 0)
    <3>1. next[q] = producer_barrier /\ size[q] \in Sizes /\ ~NoRoom(next[q], size[q], consumer_barrier)
      BY <2>1 DEF ProducersInv
    <3>2. size[q] \in 1..Capacity
      BY <3>1, SizeFacts
    <3>3. next[q] + size[q] < consumer_barrier
      BY <1>1, <1>2, <3>1, <3>2 DEF NoRoom, Offsets
    <3> QED
      BY <1>1, <1>2, <3>1, <3>2, <3>3 DEF NoRoom, Offsets
  <2> QED
    BY <2>1 DEF ConsumeRewind, ProducersInv, producerVars, historyVars, Reserving, Wrapping
<1>5. OwnersInv'
  BY DEF ConsumeRewind, OwnersInv, producerVars, historyVars, Reserving, Slot, Start
<1>6. \A q \in Producers : ~Wrapping(q)'
  BY <1>1 DEF ConsumeRewind, producerVars, Wrapping, Reserving
<1>7. Top' = Top /\ consumer_barrier' = 0
  BY DEF ConsumeRewind, Top
<1>8. \A c \in Offsets : cells[c] # Free <=> c < Top
  BY <1>1, <1>2 DEF Shape, Offsets
<1>9. Shape(stop)'
  BY <1>1, <1>2, <1>6, <1>7, <1>8 DEF ConsumeRewind, Shape, historyVars, Offsets
<1>10. ScanInv(stop)' /\ HoldInv'
  BY DEF ConsumeRewind, ScanInv, HoldInv, historyVars
<1> QED
  BY <1>3, <1>4, <1>5, <1>9, <1>10

\* No byte of the old lap from the consumer on is in a range that begins
\* below the consumer.
LEMMA SlotAboveConsumer ==
    ASSUME NEW stop \in 0..Capacity, Core(stop), NEW q \in Producers, NEW c \in Offsets,
           cells[c] = q, consumer_barrier <= c
    PROVE  Reserving(q) /\ ~Wrapping(q) /\ consumer_barrier <= next[q] /\ next[q] <= c
<1> USE DEF Core
<1>1. Reserving(q) /\ c \in Slot(q) /\ next[q] \in Offsets /\ size[q] \in Sizes /\ consumer_barrier \in Offsets
  BY DEF OwnersInv, TypeOK, ProducersInv, Reserving
<1>2. size[q] \in 1..Capacity
  BY <1>1, SizeFacts
<1>3. \A d \in Offsets : d \in Slot(q) => cells[d] # Free
  BY <1>1 DEF OwnersInv
<1>t. Top \in Nat
  BY TopType
<1>4. ~Wrapping(q)
  <2> SUFFICES ASSUME Wrapping(q) PROVE FALSE
    OBVIOUS
  <2>1. Top < consumer_barrier
    BY DEF Shape
  <2>2. Top \in Slot(q) /\ Top \in Offsets
    BY <1>1, <1>2, <1>t, <2>1 DEF Wrapping, Slot, Start, Offsets
  <2> QED
    BY <1>1, <1>3, <1>t, <2>1, <2>2 DEF Shape, Offsets
<1>5. Slot(q) = next[q]..(next[q] + size[q] - 1) /\ next[q] <= c
  BY <1>1, <1>2, <1>4 DEF Wrapping, Slot, Start, Offsets
<1>6. consumer_barrier <= next[q]
  <2> SUFFICES ASSUME next[q] < consumer_barrier PROVE FALSE
    BY <1>1 DEF Offsets
  <2>1. next[q] \in Slot(q)
    BY <1>1, <1>2, <1>5 DEF Offsets
  <2>2. next[q] < Top /\ Top < consumer_barrier
    BY <1>1, <1>3, <1>t, <2>1 DEF Shape, Offsets
  <2>3. Top \in Slot(q) /\ Top \in Offsets
    BY <1>1, <1>2, <1>5, <1>t, <2>2 DEF Offsets
  <2> QED
    BY <1>1, <1>3, <1>t, <2>2, <2>3 DEF Shape, Offsets
<1> QED
  BY <1>1, <1>4, <1>5, <1>6

\* consume(): every byte below the offset it returns is published.
LEMMA ConsumeReturnStep ==
    ASSUME NEW stop \in 0..Capacity, Core(stop), ConsumeReturn
    PROVE  Core(stop)'
<1> USE DEF Core
<1> DEFINE cb == consumer_barrier
           limit == IF c_next < cb THEN LapEnd ELSE c_next
           upto == MinOffset(c_ready, limit)
<1>1. cb \in Offsets /\ c_next \in Offsets /\ c_ready \in Nat /\ c_ready >= cb
  BY OffsetFacts DEF ConsumeReturn, ScanInv, TypeOK, Stable, Offsets
<1>t. Top \in Nat
  BY TopType
<1>2. limit \in Nat /\ cb <= limit /\ limit <= Capacity
      /\ \A c \in Offsets : cb <= c /\ c < limit => cells[c] # Free
  <2>1. CASE c_next < cb
    <3>1. Top < cb /\ stop = LapEnd /\ cb <= stop
      BY <2>1 DEF ConsumeReturn, ScanInv, Shape
    <3> QED
      BY <1>1, <1>t, <2>1, <3>1 DEF Shape, Offsets
  <2>2. CASE cb <= c_next
    <3>1. c_next <= IF Top < cb THEN stop ELSE Top
      BY <1>1, <2>2 DEF ConsumeReturn, ScanInv, Offsets
    <3> QED
      BY <1>1, <1>t, <2>2, <3>1 DEF Shape, Offsets
  <2> QED
    BY <1>1, <2>1, <2>2 DEF Offsets
<1>3. upto \in Nat /\ cb <= upto /\ upto <= limit /\ upto <= c_ready
  BY <1>1, <1>2 DEF MinOffset, Offsets
<1>4. c_held' = upto - cb /\ c_held' \in 0..Capacity
  BY <1>1, <1>2, <1>3 DEF ConsumeReturn, Offsets
<1>5. \A c \in Offsets : cb <= c /\ c < upto => cells[c] = Ready
  <2> SUFFICES ASSUME NEW c \in Offsets, cb <= c, c < upto, cells[c] # Ready PROVE FALSE
    OBVIOUS
  <2>1. cells[c] # Free
    BY <1>1, <1>2, <1>3 DEF Offsets
  <2>2. PICK q \in Producers : cells[c] = q
    BY <2>1 DEF TypeOK
  <2>3. Reserving(q) /\ cb <= next[q] /\ next[q] <= c /\ next[q] \in Offsets
    BY <2>2, SlotAboveConsumer DEF TypeOK
  <2>4. c_next < cb \/ next[q] < c_next
    BY <1>1, <1>2, <1>3, <2>3 DEF Offsets
  <2>5. c_ready <= next[q]
    BY <2>3, <2>4 DEF ConsumeReturn, ScanInv
  <2> QED
    BY <1>1, <1>3, <2>3, <2>5 DEF Offsets
<1>6. TypeOK'
  BY <1>4 DEF ConsumeReturn, TypeOK, producerVars, historyVars
<1>7. ProducersInv' /\ OwnersInv'
  BY DEF ConsumeReturn, ProducersInv, OwnersInv, producerVars, historyVars, Reserving, Wrapping, Slot, Start
<1>8. Shape(stop)'
  BY DEF ConsumeReturn, Shape, producerVars, historyVars, Top, LapEnd, Wrapping, Reserving
<1>9. ScanInv(stop)'
  BY DEF ConsumeReturn, ScanInv
<1>10. HoldInv'
  <2>1. cb + c_held' <= Capacity
    BY <1>1, <1>2, <1>3, <1>4 DEF Offsets
  <2>2. \A c \in cb..(cb + c_held' - 1) : cells[c] = Ready
    BY <1>1, <1>2, <1>3, <1>4, <1>5 DEF Offsets
  <2> QED
    BY <1>4, <2>1, <2>2 DEF ConsumeReturn, HoldInv, Held, historyVars
<1> QED
  BY <1>6, <1>7, <1>8, <1>9, <1>10

\* release(): the first bytes of the range become free.
LEMMA ReleaseStep ==
    ASSUME NEW stop \in 0..Capacity, Core(stop), NEW bytes \in Nat, bytes >= 1, bytes <= c_held,
           Release(bytes)
    PROVE  Core(stop)'
<1> USE DEF Core
<1> DEFINE cb == consumer_barrier
<1>1. cb \in Offsets /\ c_held \in Nat /\ c_pc = "holding" /\ bytes \in Nat /\ bytes >= 1
      /\ bytes <= c_held /\ cb + c_held <= Capacity
      /\ \A c \in cb..(cb + c_held - 1) : cells[c] = Ready
  BY DEF Release, TypeOK, HoldInv, Held
<1>t. Top \in Nat
  BY TopType
<1>2. cb + c_held <= IF Top < cb THEN stop ELSE Top
  <2>1. cb + c_held - 1 \in Offsets /\ cells[cb + c_held - 1] # Free
    BY <1>1 DEF Offsets
  <2> QED
    BY <1>1, <1>t, <2>1 DEF Shape, Offsets
<1>3. Top' = Top
  BY DEF Release, Top
<1>4. \A c \in Offsets : cells'[c] # Free <=> cells[c] # Free /\ ~(cb <= c /\ c < cb + bytes)
  BY <1>1 DEF Release, Offsets
<1>5. \A q \in Producers :
        /\ Reserving(q)' <=> Reserving(q)
        /\ Wrapping(q)' <=> Wrapping(q)
        /\ Slot(q)' = Slot(q)
  <2>1. pc' = pc /\ next' = next /\ size' = size
    BY DEF Release, producerVars
  <2> QED
    BY <2>1 DEF Reserving, Wrapping, Slot, Start
<1>6. OwnersInv'
  <2>1. \A q \in Producers : \A c \in Offsets : cells'[c] = q <=> cells[c] = q
    BY <1>1 DEF Release, Offsets
  <2> QED
    BY <1>5, <2>1 DEF OwnersInv
<1>7. ASSUME NEW q \in Producers, pc[q] = "swap", q \notin stale
      PROVE  /\ next[q] = Top /\ next[q] \in Offsets /\ size[q] \in 1..Capacity
             /\ ~NoRoom(next[q], size[q], cb)
             /\ next[q] + size[q] >= Capacity => UnlockWrapBit(Target(next[q], size[q])) \in Nat
  <2>1. next[q] = producer_barrier /\ next[q] \in Offsets /\ size[q] \in Sizes
        /\ ~NoRoom(next[q], size[q], cb)
    BY <1>7 DEF ProducersInv, TypeOK
  <2>2. next[q] = Top
    BY <2>1, OffsetFacts DEF Top, Offsets
  <2>3. size[q] \in 1..Capacity
    BY <2>1, SizeFacts
  <2>4. next[q] + size[q] >= Capacity => UnlockWrapBit(Target(next[q], size[q])) \in Nat
    <3>1. Target(next[q], size[q]) \in Nat
      BY <2>1, <2>3, TargetFacts DEF Offsets
    <3> QED
      BY <3>1 DEF UnlockWrapBit, IsLocked
  <2> QED
    BY <2>1, <2>2, <2>3, <2>4
<1>8. CASE cb + bytes < Capacity
  <2>1. consumer_barrier' = cb + bytes /\ cb + bytes \in Offsets
    BY <1>1, <1>8 DEF Release, Offsets
  <2>2. TypeOK'
    BY <1>1, <2>1 DEF Release, TypeOK, producerVars
  <2>3. ASSUME NEW q \in Producers, pc[q] = "swap", q \notin stale
        PROVE  ~NoRoom(next[q], size[q], cb + bytes)
    BY <1>1, <1>2, <1>t, <1>7, <2>1, <2>3 DEF NoRoom, Offsets
  <2>4. ProducersInv'
    BY <1>5, <2>1, <2>3 DEF Release, ProducersInv, producerVars
  <2>5. Top < cb <=> Top < cb + bytes
    BY <1>1, <1>2, <1>t DEF Offsets
  <2>6. Shape(stop)'
    <3>1. \A c \in Offsets :
            cells'[c] # Free <=> IF Top < cb + bytes
                                 THEN (cb + bytes <= c /\ c < stop) \/ c < Top
                                 ELSE cb + bytes <= c /\ c < Top
      BY <1>1, <1>2, <1>t, <1>4, <2>5 DEF Shape, Offsets
    <3>2. (cb + bytes <= Top <=> cb <= Top) /\ (Top < cb + bytes => cb + bytes <= stop)
      BY <1>1, <1>2, <1>t, <2>5 DEF Offsets
    <3>3. c_pc' # "rewind" /\ LapEnd' = LapEnd
      BY DEF Release, LapEnd
    <3> QED
      BY <1>1, <1>3, <1>5, <2>1, <2>5, <3>1, <3>2, <3>3 DEF Release, Shape, producerVars
  <2>7. HoldInv'
    BY <1>1, <2>1 DEF Release, HoldInv, Held, Offsets
  <2> QED
    BY <1>6, <2>2, <2>4, <2>6, <2>7 DEF Release, ScanInv
<1>9. CASE cb + bytes = Capacity
  <2>1. consumer_barrier' = 0 /\ bytes = c_held /\ c_held' = 0 /\ c_pc' = "idle"
    BY <1>1, <1>9 DEF Release, Offsets
  <2>2. Top < cb /\ stop = Capacity
    <3>1. ~(cb <= Top)
      <4> SUFFICES ASSUME cb <= Top PROVE FALSE
        OBVIOUS
      <4>1. ~IsLocked(producer_barrier)
        BY DEF Shape
      <4>2. Top < Capacity
        <5>1. \A o \in 1..Capacity : IsLocked(LockWrapBit(o))
          BY OffsetFacts
        <5>2. producer_barrier \in Offsets
          BY <4>1, <5>1 DEF TypeOK
        <5>3. Top = producer_barrier
          BY <5>2, OffsetFacts DEF Top, Offsets
        <5> QED
          BY <5>2, <5>3 DEF Offsets
      <4> QED
        BY <1>1, <1>2, <1>9, <2>1, <1>t, <4>2 DEF Offsets
    <3> QED
      BY <1>1, <1>2, <1>9, <2>1, <1>t, <3>1 DEF Offsets
  <2>3. \A q \in Producers : ~Wrapping(q)
    BY <2>2 DEF Shape, TypeOK, Offsets
  <2>4. ~IsLocked(producer_barrier) /\ end = MAX_OFFSET
    <3>1. ~IsLocked(producer_barrier)
      BY <2>3 DEF Shape
    <3>2. stop = LapEnd
      BY <1>1, <2>2, <3>1 DEF Shape
    <3> QED
      BY <2>2, <3>1, <3>2 DEF LapEnd, MinOffset, TypeOK, Stable, Offsets
  <2>5. TypeOK'
    BY <1>1, <2>1 DEF Release, TypeOK, producerVars, Offsets
  <2>6. ASSUME NEW q \in Producers, pc[q] = "swap", q \notin stale
        PROVE  ~NoRoom(next[q], size[q], 0)
    BY <1>1, <1>7, <2>2, <2>6 DEF NoRoom, Offsets
  <2>7. ProducersInv'
    BY <1>5, <2>1, <2>6 DEF Release, ProducersInv, producerVars
  <2>8. \A c \in Offsets : cells'[c] # Free <=> c < Top
    BY <1>1, <1>4, <1>9, <1>t, <2>2 DEF Shape, Offsets
  <2>9. Shape(stop)'
    BY <1>3, <1>5, <1>t, <2>1, <2>3, <2>4, <2>8 DEF Release, Shape, Offsets
  <2>10. HoldInv' /\ ScanInv(stop)'
    BY <2>1 DEF HoldInv, ScanInv
  <2> QED
    BY <1>6, <2>5, <2>7, <2>9, <2>10
<1> QED
  BY <1>1, <1>8, <1>9 DEF Offsets

-----------------------------------------------------------------------------
\* The initial state satisfies the invariant.
LEMMA InitCore == Init => Core(0)
<1> SUFFICES ASSUME Init PROVE Core(0)
  OBVIOUS
<1>1. TypeOK
  BY OffsetFacts DEF Init, TypeOK, Offsets, Stable, PcValues
<1>2. ProducersInv /\ OwnersInv
  BY DEF Init, ProducersInv, OwnersInv, Reserving, Wrapping
<1>3. Top = 0 /\ ~IsLocked(producer_barrier)
  BY DEF Init, Top, UnlockWrapBit, IsLocked
<1>4. Shape(0)
  BY <1>3 DEF Init, Shape, Wrapping, Reserving, Offsets
<1>5. ScanInv(0) /\ HoldInv
  BY DEF Init, ScanInv, HoldInv
<1> QED
  BY <1>1, <1>2, <1>4, <1>5 DEF Core

\* Stale swaps are remembered; the step that makes the first one is a swap
\* of a producer in `stale'.
LEMMA StaleSwapsStay ==
    ASSUME [Next]_vars, stale_cas' = {}
    PROVE  stale_cas = {} /\ \A p \in Producers : Swap(p) => p \notin stale
<1>1. ASSUME NEW p \in Producers, Swap(p) PROVE stale_cas = {} /\ p \notin stale
  BY <1>1 DEF Swap
<1>2. ASSUME NEW p \in Producers, ProducerStep(p) PROVE stale_cas = {}
  BY <1>1, <1>2 DEF ProducerStep, AcquireStep, Register, Unregister, AcquireCall, LoadNext, LockSeen,
     CheckRoom, SwapFails, UnlockSeen, SetEnd, UnlockNext, Produce, historyVars
<1>3. ASSUME ConsumerStep PROVE stale_cas = {}
  BY <1>3 DEF ConsumerStep, ConsumeStep, ConsumeLoadNext, ScanWorker, ConsumeWrap, ConsumeRewind,
     ConsumeReturn, Release, historyVars
<1>4. CASE UNCHANGED vars
  BY <1>1, <1>4 DEF vars, historyVars
<1> QED
  BY <1>1, <1>2, <1>3, <1>4 DEF Next

\* Every step that is not a stale swap keeps the invariant.
LEMMA NextCore ==
    ASSUME NEW stop \in 0..Capacity, Core(stop), [Next]_vars, stale_cas' = {}
    PROVE  \E s \in 0..Capacity : Core(s)'
<1>1. ASSUME NEW p \in Producers, ProducerStep(p) PROVE \E s \in 0..Capacity : Core(s)'
  <2>1. CASE Swap(p)
    BY <2>1, StaleSwapsStay, SwapStep
  <2>2. CASE UnlockSeen(p)
    BY <2>2, UnlockSeenStep
  <2>3. CASE SetEnd(p)
    BY <2>3, SetEndStep
  <2>4. CASE UnlockNext(p)
    BY <2>4, UnlockNextStep
  <2>5. CASE Produce(p)
    BY <2>5, ProduceStep
  <2>6. CASE \/ Register(p) \/ Unregister(p) \/ (\E s \in Sizes : AcquireCall(p, s))
             \/ LoadNext(p) \/ LockSeen(p) \/ CheckRoom(p) \/ SwapFails(p)
    BY <2>6, LocalSteps
  <2> QED
    BY <1>1, <2>1, <2>2, <2>3, <2>4, <2>5, <2>6 DEF ProducerStep, AcquireStep
<1>2. ASSUME ConsumeStep PROVE Core(stop)'
  BY <1>2, ConsumeLoadNextStep, ScanWorkerStep, ConsumeWrapStep, ConsumeRewindStep, ConsumeReturnStep
     DEF ConsumeStep
<1>3. ASSUME NEW bytes \in 1..c_held, Release(bytes) PROVE Core(stop)'
  <2>1. c_held \in Nat
    BY DEF Core, TypeOK
  <2>2. bytes \in Nat /\ bytes >= 1 /\ bytes <= c_held
    BY <1>3, <2>1
  <2> QED
    BY <1>3, <2>2, ReleaseStep
<1>4. CASE UNCHANGED vars
  <2> USE <1>4 DEF vars, producerVars, consumerVars, historyVars
  <2>1. TypeOK' /\ ProducersInv' /\ OwnersInv'
    BY DEF Core, TypeOK, ProducersInv, OwnersInv, Reserving, Wrapping, Slot, Start
  <2>2. Shape(stop)' /\ ScanInv(stop)' /\ HoldInv'
    BY DEF Core, Shape, ScanInv, HoldInv, Held, Top, LapEnd, Reserving, Wrapping
  <2> QED
    BY <2>1, <2>2 DEF Core
<1> QED
  BY <1>1, <1>2, <1>3, <1>4 DEF Next, ConsumerStep

\* Until a stale swap happens RingInv holds, for any number of producers,
\* any capacity and any record sizes.
THEOREM RingInvariant == Spec => []RingInv
<1>1. Init => RingInv
  BY InitCore DEF RingInv
<1>2. RingInv /\ [Next]_vars => RingInv'
  <2> SUFFICES ASSUME RingInv, [Next]_vars, stale_cas' = {}
               PROVE  \E s \in 0..Capacity : Core(s)'
    BY DEF RingInv, NoStaleSwap
  <2>1. stale_cas = {}
    BY StaleSwapsStay
  <2>2. PICK stop \in 0..Capacity : Core(stop)
    BY <2>1 DEF RingInv, NoStaleSwap
  <2> QED
    BY <2>2, NextCore
<1> QED
  BY <1>1, <1>2, PTL DEF Spec

\* The variables keep their types: offsets stay inside the buffer.
THEOREM RingTypes == Spec => []TypeInvariant
<1>1. RingInv => TypeInvariant
  BY DEF RingInv, Core, TypeInvariant
<1> QED
  BY <1>1, RingInvariant, PTL

\* The bytes acquire() returns belong to the caller until produce().
THEOREM WriterSafety == Spec => []WritersOwnTheirBytes
<1>1. RingInv => WritersOwnTheirBytes
  <2> SUFFICES ASSUME NEW stop \in 0..Capacity, Core(stop), NEW p \in Producers, Reserving(p),
                      NEW c \in Slot(p)
               PROVE  cells[c] = p
    BY DEF RingInv, WritersOwnTheirBytes
  <2>1. next[p] \in Offsets /\ size[p] \in Sizes
    BY DEF Core, TypeOK, ProducersInv, Reserving
  <2>2. size[p] \in 1..Capacity
    BY <2>1, SizeFacts
  <2>3. c \in Offsets
    BY <2>1, <2>2 DEF Core, ProducersInv, Slot, Start, Wrapping, Offsets
  <2> QED
    BY <2>3 DEF Core, OwnersInv
<1> QED
  BY <1>1, RingInvariant, PTL

\* consume() returns published bytes only, and they stay until release().
THEOREM ReaderSafety == Spec => []ReaderGetsWrittenBytes
<1>1. RingInv => ReaderGetsWrittenBytes
  BY DEF RingInv, Core, HoldInv, ReaderGetsWrittenBytes
<1> QED
  BY <1>1, RingInvariant, PTL

\* When the barriers meet, everything has been delivered and released.
THEOREM Delivery == Spec => []NothingIsSkipped
<1>1. RingInv => NothingIsSkipped
  <2> SUFFICES ASSUME NEW stop \in 0..Capacity, Core(stop), producer_barrier = consumer_barrier,
                      NEW c \in Offsets
               PROVE  cells[c] = Free
    BY DEF RingInv, NothingIsSkipped
  <2>1. consumer_barrier \in Offsets
    BY DEF Core, TypeOK
  <2>2. Top = consumer_barrier
    BY <2>1, OffsetFacts DEF Top, Offsets
  <2> QED
    BY <2>1, <2>2 DEF Core, Shape, Offsets
<1> QED
  BY <1>1, RingInvariant, PTL

\* The bytes of the ring have one owner at a time and are delivered.
THEOREM BytesSafety == Spec => []BytesInv
  BY WriterSafety, ReaderSafety, Delivery, PTL DEF BytesInv

\* The assertions in acquire(), consume() and release() never fail.
THEOREM Assertions == Spec => []AssertionsHold
<1>1. RingInv => AssertionsOfAcquire
  <2> SUFFICES ASSUME NEW stop \in 0..Capacity, Core(stop), NEW p \in Producers
               PROVE  /\ pc[p] = "set_end" => consumer_barrier <= next[p] /\ end = MAX_OFFSET
                      /\ pc[p] = "idle" => seen[p] = MAX_OFFSET
    BY DEF RingInv, AssertionsOfAcquire
  <2> QED
    BY DEF Core, ProducersInv, Shape
<1>2. RingInv => AssertionsOfConsumer
  <2> SUFFICES ASSUME NEW stop \in 0..Capacity, Core(stop)
               PROVE  /\ c_pc = "scan" => c_ready >= consumer_barrier
                      /\ c_pc = "scan" /\ c_scan = {} /\ c_next < consumer_barrier =>
                             c_ready > c_next /\ MinOffset(c_ready, LapEnd) >= consumer_barrier
                      /\ c_pc = "holding" =>
                             consumer_barrier <= end /\ consumer_barrier + c_held <= Capacity
    BY DEF RingInv, AssertionsOfConsumer
  <2>1. consumer_barrier \in Offsets /\ c_next \in Offsets /\ c_ready \in Nat /\ end \in Nat /\ Top \in Nat
    <3>1. TypeOK
      BY DEF Core
    <3> QED
      <4>1. \A o \in Stable : o \in Nat
        BY OffsetFacts DEF Stable, Offsets
      <4> QED
        BY <3>1, <4>1, TopType DEF TypeOK, Stable
  <2>2. c_pc = "scan" /\ c_next < consumer_barrier => consumer_barrier <= LapEnd
    BY <2>1 DEF Core, ScanInv, Shape
  <2>3. consumer_barrier <= end
    <3>1. CASE end = MAX_OFFSET
      BY <2>1, <3>1, OffsetFacts DEF Offsets
    <3>2. CASE end # MAX_OFFSET /\ ~IsLocked(producer_barrier)
      BY <2>1, <3>2 DEF Core, Shape, LapEnd, MinOffset, Offsets
    <3>3. CASE end # MAX_OFFSET /\ IsLocked(producer_barrier)
      <4>1. PICK p \in Producers : Wrapping(p) /\ pc[p] # "acquired"
        BY <3>3 DEF Core, Shape
      <4>2. pc[p] = "unlock_next"
        BY <3>3, <4>1 DEF Core, Shape, Wrapping, Reserving
      <4> QED
        BY <4>1, <4>2 DEF Core, Shape
    <3> QED
      BY <3>1, <3>2, <3>3
  <2> QED
    BY <2>1, <2>2, <2>3 DEF Core, ScanInv, HoldInv, MinOffset, Offsets, LapEnd
<1>3. RingInv => AssertionsHold
  BY <1>1, <1>2 DEF AssertionsHold
<1> QED
  BY <1>3, RingInvariant, PTL

\* A swap that is not stale never reserves a byte that is in use.
THEOREM SwapSafety == Spec => ReservesFreeBytesUnlessStale
<1>1. RingInv /\ [Next]_vars =>
        [\A p \in Producers : Swap(p) /\ stale_cas' = {} => \A c \in Slot(p) : cells[c] = Free]_vars
  <2> SUFFICES ASSUME RingInv, [Next]_vars, NEW p \in Producers, Swap(p), stale_cas' = {}
               PROVE  \A c \in Slot(p) : cells[c] = Free
    OBVIOUS
  <2>1. stale_cas = {} /\ p \notin stale
    BY StaleSwapsStay
  <2>2. PICK stop \in 0..Capacity : Core(stop)
    BY <2>1 DEF RingInv, NoStaleSwap
  <2> QED
    BY <2>1, <2>2, SwapTakesFreeBytes
<1> QED
  BY <1>1, RingInvariant, PTL DEF Spec, ReservesFreeBytesUnlessStale

-----------------------------------------------------------------------------
(* One producer.                                                           *)

\* With one producer the ring never gives out a byte that is in use: the
\* promise of the comment in acquire() holds without a condition, because a
\* producer's offset becomes stale only through the swap of another one.
THEOREM OneProducerSafety ==
    ASSUME NEW only, Producers = {only}
    PROVE  Spec => ReservesFreeBytes
<1> DEFINE Fresh == stale = {} /\ stale_cas = {}
<1>1. Init => Fresh
  BY DEF Init
<1>2. Fresh /\ [Next]_vars => Fresh'
  <2> SUFFICES ASSUME Fresh, [Next]_vars PROVE stale' = {} /\ stale_cas' = {}
    OBVIOUS
  <2>1. CASE Swap(only)
    BY <2>1 DEF Swap
  <2>2. ASSUME ProducerStep(only), ~Swap(only) PROVE stale' = {} /\ stale_cas' = {}
    BY <2>2 DEF ProducerStep, AcquireStep, Register, Unregister, AcquireCall, LoadNext, LockSeen,
       CheckRoom, SwapFails, UnlockSeen, SetEnd, UnlockNext, Produce, historyVars
  <2>3. ASSUME ConsumerStep PROVE stale' = {} /\ stale_cas' = {}
    BY <2>3 DEF ConsumerStep, ConsumeStep, ConsumeLoadNext, ScanWorker, ConsumeWrap, ConsumeRewind,
       ConsumeReturn, Release, historyVars
  <2>4. CASE UNCHANGED vars
    BY <2>4 DEF vars, historyVars
  <2> QED
    BY <2>1, <2>2, <2>3, <2>4 DEF Next
<1>3. RingInv /\ Fresh /\ [Next]_vars =>
        [\A p \in Producers : Swap(p) => \A c \in Slot(p) : cells[c] = Free]_vars
  <2> SUFFICES ASSUME RingInv, Fresh, NEW p \in Producers, Swap(p)
               PROVE  \A c \in Slot(p) : cells[c] = Free
    OBVIOUS
  <2>1. PICK stop \in 0..Capacity : Core(stop)
    BY DEF RingInv, NoStaleSwap
  <2> QED
    BY <2>1, SwapTakesFreeBytes
<1> HIDE DEF Fresh
<1>4. Spec => []Fresh
  BY <1>1, <1>2, PTL DEF Spec
<1> QED
  BY <1>3, <1>4, RingInvariant, PTL DEF Spec, ReservesFreeBytes

-----------------------------------------------------------------------------
(***************************************************************************)
(* The task queue is a FIFO.                                               *)
(*                                                                         *)
(* The invariant joins the bytes of the ring to the order of the records:  *)
(* the records that were reserved and not performed lie one behind the     *)
(* other, from _consumer_barrier to the next free offset, none of them     *)
(* across an offset at which the consumer stops.  at[i] is the offset that *)
(* the swap of the i-th record found; it exists and is not computed, so    *)
(* that no step of the proof needs an induction over the records.          *)
(***************************************************************************)

USE MaxPushesAssumption

\* The records that were reserved and whose tasks were not performed yet.
Window == (Len(performed) + 1)..Len(reserved)

\* A range starts where the swap found the barrier, or at 0 when it does not
\* fit before the end of the buffer.
Wraps(at, i) == at[i] + reserved[i].length > Capacity
First(at, i) == IF Wraps(at, i) THEN 0 ELSE at[i]
Last(at, i) == First(at, i) + reserved[i].length
Bytes(at, i) == First(at, i)..(Last(at, i) - 1)

\* The barrier behind a range that ends at `last'.
Follows(last) == IF last = Capacity THEN 0 ELSE last

\* An offset that is not in the middle of a record.
IsEdge(at, b) == \A i \in Window : ~(First(at, i) < b /\ b < Last(at, i))

QueueTypeOK ==
    /\ pushing \subseteq Producers
    /\ pushes \in [Producers -> 0..MaxPushes]
    /\ filled \subseteq Producers
    /\ reserved \in Seq(Tasks)
    /\ performed \in Seq(Tasks)
    /\ Len(performed) <= Len(reserved)

\* A producer is in push() from the call to produce().
PushInv ==
    \A p \in Producers :
        /\ pc[p] \notin {"new", "idle", "gone"} => p \in pushing
        /\ p \in pushing => pc[p] \notin {"new", "gone"} /\ size[p] \in Sizes /\ pushes[p] > 0
        /\ p \in filled => pc[p] = "acquired" /\ \A c \in Slot(p) : memory[c] = Record(p)

\* No record was reserved twice, and they are performed in order.
OrderInv ==
    /\ \A i \in 1..Len(performed) : performed[i] = reserved[i]
    /\ \A i \in 1..Len(reserved), p \in Producers :
          reserved[i].by = p =>
              /\ reserved[i].nr <= pushes[p]
              /\ reserved[i].nr = pushes[p] => p \notin pushing \/ Reserving(p)

\* The records lie one behind the other from the consumer to the next free
\* offset, and do not overlap.
LayoutInv(stop, at) ==
    /\ Window = {} => Top = consumer_barrier
    /\ \A i \in Window :
          /\ Last(at, i) <= Capacity
          /\ i = Len(performed) + 1 =>
                at[i] = consumer_barrier \/ (consumer_barrier = 0 /\ First(at, i) = 0)
          /\ i = Len(reserved) => Top = Follows(Last(at, i))
          /\ i + 1 \in Window => at[i + 1] = Follows(Last(at, i))
          /\ Wraps(at, i) =>
                \/ i = Len(performed) + 1 /\ consumer_barrier = 0
                \/ Top < consumer_barrier /\ stop = at[i]
    /\ \A i, j \in Window : i # j => Bytes(at, i) \cap Bytes(at, j) = {}

\* A record is either that of a producer which has not published it, or it is
\* written and published.
Pending(at, i) == \E p \in Producers : Reserving(p) /\ reserved[i] = Record(p) /\ at[i] = next[p]
Published(at, i) == \A c \in Bytes(at, i) : cells[c] = Ready /\ memory[c] = reserved[i]

ContentInv(at) == \A i \in Window : Pending(at, i) \/ Published(at, i)

\* The offsets that consume() stops at are edges.
KnownEdge(at, b) ==
    b # MAX_OFFSET /\ consumer_barrier < b => b < Capacity /\ cells[b - 1] # Free /\ IsEdge(at, b)

EdgesInv(at) ==
    /\ c_pc = "scan" => KnownEdge(at, c_next) /\ KnownEdge(at, c_ready)
    /\ c_pc = "holding" => IsEdge(at, consumer_barrier + c_held)

\* The cursor of pop(), and the record whose fiber has not started.
CursorInv(at) ==
    /\ c_pc = "holding" =>
          /\ consumed = consumer_barrier + c_held
          /\ current = Blank => poped = consumer_barrier
    /\ c_pc # "holding" => poped = consumed /\ poped \in Nat /\ current = Blank
    /\ current # Blank =>
          /\ Window # {}
          /\ current = reserved[Len(performed) + 1]
          /\ First(at, Len(performed) + 1) = consumer_barrier
          /\ poped = consumer_barrier + current.length
          /\ current.length <= c_held

QueueCore(stop, at) ==
    /\ Core(stop)
    /\ QueueTypeOK /\ PushInv /\ OrderInv
    /\ LayoutInv(stop, at) /\ ContentInv(at) /\ EdgesInv(at) /\ CursorInv(at)

QueueInv ==
    NoStaleSwap =>
        \E stop \in 0..Capacity, at \in [1..Len(reserved) -> Offsets] : QueueCore(stop, at)

-----------------------------------------------------------------------------
\* What is known of a record of the window.
LEMMA WindowFacts ==
    ASSUME QueueTypeOK, NEW at \in [1..Len(reserved) -> Offsets], NEW i \in Window
    PROVE  /\ i \in 1..Len(reserved) /\ i > Len(performed)
           /\ reserved[i] \in Tasks /\ reserved[i].length \in 1..Capacity
           /\ at[i] \in Offsets /\ at[i] \in Nat /\ at[i] < Capacity
           /\ First(at, i) \in Nat /\ First(at, i) < Capacity /\ First(at, i) \in Bytes(at, i)
           /\ Last(at, i) \in Nat /\ First(at, i) < Last(at, i)
           /\ Last(at, i) = First(at, i) + reserved[i].length
<1>1. i \in 1..Len(reserved) /\ i > Len(performed) /\ Len(reserved) \in Nat /\ Len(performed) \in Nat
  BY DEF Window, QueueTypeOK
<1>2. reserved[i] \in Tasks
  BY <1>1 DEF QueueTypeOK
<1>3. reserved[i].length \in 1..Capacity
  BY <1>2, SizeFacts DEF Tasks
<1>4. at[i] \in Offsets /\ at[i] \in Nat /\ at[i] < Capacity
  BY <1>1 DEF Offsets
<1>5. First(at, i) \in Nat /\ First(at, i) < Capacity
  BY <1>4 DEF First
<1> QED
  BY <1>1, <1>2, <1>3, <1>4, <1>5 DEF Last, Bytes

\* The bytes of the records in the window are in use.
LEMMA BytesInUse ==
    ASSUME NEW stop \in 0..Capacity, NEW at \in [1..Len(reserved) -> Offsets], QueueCore(stop, at),
           NEW i \in Window, NEW c \in Bytes(at, i)
    PROVE  c \in Offsets /\ cells[c] # Free
<1>1. c \in Nat /\ First(at, i) <= c /\ c < Last(at, i) /\ Last(at, i) \in Nat /\ Last(at, i) <= Capacity
  BY WindowFacts DEF QueueCore, LayoutInv, Bytes
<1>2. c \in Offsets
  BY <1>1 DEF Offsets
<1>3. CASE Published(at, i)
  BY <1>2, <1>3 DEF Published
<1>4. CASE Pending(at, i)
  <2>1. PICK p \in Producers : Reserving(p) /\ reserved[i] = Record(p) /\ at[i] = next[p]
    BY <1>4 DEF Pending
  <2>2. reserved[i].length = size[p] /\ size[p] \in 1..Capacity /\ next[p] \in Nat
    BY <2>1, WindowFacts DEF Record, QueueCore
  <2>3. c \in Slot(p)
    BY <2>1, <2>2 DEF Slot, Start, Bytes, First, Last, Wraps
  <2> QED
    BY <1>2, <2>1, <2>3 DEF QueueCore, Core, OwnersInv
<1> QED
  BY <1>3, <1>4 DEF QueueCore, ContentInv

\* A free byte, or one past the buffer, is at an edge.
LEMMA FreeIsEdge ==
    ASSUME NEW stop \in 0..Capacity, NEW at \in [1..Len(reserved) -> Offsets], QueueCore(stop, at),
           NEW b \in Nat, b \in Offsets => cells[b] = Free
    PROVE  IsEdge(at, b)
<1> SUFFICES ASSUME NEW i \in Window, First(at, i) < b, b < Last(at, i)
             PROVE  FALSE
  BY DEF IsEdge
<1>1. First(at, i) \in Nat /\ Last(at, i) \in Nat
  BY WindowFacts DEF QueueCore
<1>2. b \in Bytes(at, i)
  BY <1>1 DEF Bytes
<1> QED
  BY <1>2, BytesInUse

-----------------------------------------------------------------------------
\* A step that moves no barrier, writes nothing and changes nothing of the
\* producers that hold a range keeps the order of the records.
LEMMA RecordsStay ==
    ASSUME NEW stop \in 0..Capacity, NEW at \in [1..Len(reserved) -> Offsets], QueueCore(stop, at),
           UNCHANGED <<Top, consumer_barrier, cells, memory, reserved, performed>>,
           \A q \in Producers : Reserving(q) =>
               /\ Reserving(q)'
               /\ next'[q] = next[q] /\ size'[q] = size[q] /\ pushes'[q] = pushes[q]
    PROVE  /\ LayoutInv(stop, at)' /\ ContentInv(at)'
           /\ \A b : (IsEdge(at, b)' <=> IsEdge(at, b)) /\ (KnownEdge(at, b)' <=> KnownEdge(at, b))
<1>1. /\ Window' = Window
      /\ \A i \in Window : /\ First(at, i)' = First(at, i) /\ Last(at, i)' = Last(at, i)
                           /\ Bytes(at, i)' = Bytes(at, i) /\ (Wraps(at, i)' <=> Wraps(at, i))
  BY DEF Window, First, Last, Bytes, Wraps
<1>2. LayoutInv(stop, at)'
  BY <1>1 DEF QueueCore, LayoutInv, Follows
<1>3. ContentInv(at)'
  <2> SUFFICES ASSUME NEW i \in Window PROVE Pending(at, i)' \/ Published(at, i)'
    BY <1>1 DEF ContentInv
  <2>1. CASE Published(at, i)
    BY <1>1, <2>1 DEF Published
  <2>2. CASE Pending(at, i)
    <3>1. PICK q \in Producers : Reserving(q) /\ reserved[i] = Record(q) /\ at[i] = next[q]
      BY <2>2 DEF Pending
    <3>2. Reserving(q)' /\ next'[q] = next[q] /\ Record(q)' = Record(q)
      BY <3>1 DEF Record
    <3> QED
      BY <3>1, <3>2 DEF Pending
  <2> QED
    BY <2>1, <2>2 DEF QueueCore, ContentInv
<1>4. ASSUME NEW b
      PROVE  (IsEdge(at, b)' <=> IsEdge(at, b)) /\ (KnownEdge(at, b)' <=> KnownEdge(at, b))
  <2>1. IsEdge(at, b)' <=> IsEdge(at, b)
    BY <1>1 DEF IsEdge
  <2> QED
    BY <2>1 DEF KnownEdge
<1> QED
  BY <1>2, <1>3, <1>4

\* The steps of the ring that move no reservation and no cursor.
QuietStepOf(p) ==
    \/ Register(p) \/ Unregister(p) \/ (\E s \in Sizes : AcquireCall(p, s))
    \/ LoadNext(p) \/ LockSeen(p) \/ CheckRoom(p) \/ SwapFails(p)
    \/ UnlockSeen(p) \/ SetEnd(p) \/ UnlockNext(p)

LEMMA QuietRing ==
    ASSUME NEW stop \in 0..Capacity, Core(stop), NEW p \in Producers, QuietStepOf(p)
    PROVE  /\ Core(stop)'
           /\ UNCHANGED <<Top, consumerVars, cells>>
           /\ \A q \in Producers : Reserving(q) =>
                 Reserving(q)' /\ next'[q] = next[q] /\ size'[q] = size[q]
<1>1. Core(stop)'
  BY LocalSteps, UnlockSeenStep, SetEndStep, UnlockNextStep DEF QuietStepOf
<1>2. UNCHANGED <<consumerVars, cells>>
  BY DEF QuietStepOf, Register, Unregister, AcquireCall, LoadNext, LockSeen, CheckRoom, SwapFails,
     UnlockSeen, SetEnd, UnlockNext, historyVars
<1>3. Top' = Top
  <2>1. CASE UnlockNext(p)
    <3>1. Wrapping(p) /\ next[p] \in Offsets /\ size[p] \in Sizes /\ size[p] \in 0..Capacity
      BY <2>1, SizeFacts DEF UnlockNext, Core, ProducersInv, TypeOK
    <3>2. producer_barrier = LockWrapBit(size[p])
      BY <2>1, <3>1 DEF UnlockNext, Core, Shape
    <3>3. Target(next[p], size[p]) = LockWrapBit(size[p])
      BY <3>1, TargetFacts, OffsetFacts DEF Wrapping
    <3>4. producer_barrier' = size[p]
      BY <2>1, <3>1, <3>3, OffsetFacts DEF UnlockNext
    <3> QED
      BY <3>1, <3>2, <3>4, OffsetFacts DEF Top
  <2>2. CASE ~UnlockNext(p)
    BY <2>2 DEF QuietStepOf, Register, Unregister, AcquireCall, LoadNext, LockSeen, CheckRoom,
       SwapFails, UnlockSeen, SetEnd, Top
  <2> QED
    BY <2>1, <2>2
<1>4. ASSUME NEW q \in Producers, Reserving(q)
      PROVE  Reserving(q)' /\ next'[q] = next[q] /\ size'[q] = size[q]
  <2>1. pc \in [Producers -> PcValues] /\ next \in [Producers -> Offsets] /\ size \in [Producers -> Sizes \cup {0}]
    BY DEF Core, TypeOK
  <2>2. CASE q = p
    BY <1>4, <2>1, <2>2 DEF QuietStepOf, Register, Unregister, AcquireCall, LoadNext, LockSeen,
       CheckRoom, SwapFails, UnlockSeen, SetEnd, UnlockNext, Reserving
  <2>3. CASE q # p
    BY <1>4, <2>1, <2>3 DEF QuietStepOf, Register, Unregister, AcquireCall, LoadNext, LockSeen,
       CheckRoom, SwapFails, UnlockSeen, SetEnd, UnlockNext, Reserving
  <2> QED
    BY <2>2, <2>3
<1> QED
  BY <1>1, <1>2, <1>3, <1>4

\* A thread gets or drops its writer, calls push(), or goes on in acquire().
LEMMA PushQuietStep ==
    ASSUME NEW stop \in 0..Capacity, NEW at \in [1..Len(reserved) -> Offsets], QueueCore(stop, at),
           NEW p \in Producers,
           \/ GetWriter(p) \/ (\E s \in Sizes : PushCall(p, s)) \/ PushRetry(p)
           \/ PushAcquire(p) \/ DropWriter(p)
    PROVE  QueueCore(stop, at)' /\ UNCHANGED <<reserved, performed>>
<1> USE DEF QueueCore
<1>1. QuietStepOf(p)
  BY DEF GetWriter, PushCall, PushRetry, PushAcquire, DropWriter, QuietStepOf, PushInv
<1>2. UNCHANGED <<filled, memory, popVars, reserved>>
  BY DEF GetWriter, PushCall, PushRetry, PushAcquire, DropWriter, pushVars
<1>3. /\ Core(stop)' /\ UNCHANGED <<Top, consumerVars, cells>>
      /\ \A q \in Producers : Reserving(q) => Reserving(q)' /\ next'[q] = next[q] /\ size'[q] = size[q]
  BY <1>1, QuietRing
<1>4. pc \in [Producers -> PcValues] /\ size \in [Producers -> Sizes \cup {0}] /\ pushes \in [Producers -> 0..MaxPushes]
  BY DEF Core, TypeOK, QueueTypeOK
<1>5. \/ UNCHANGED <<pushing, pushes>>
      \/ /\ pc[p] = "idle" /\ pushing' = pushing \cup {p} /\ p \notin pushing
         /\ pushes[p] < MaxPushes
         /\ pushes' = [pushes EXCEPT ![p] = @ + 1] /\ \E s \in Sizes : AcquireCall(p, s)
  BY DEF GetWriter, PushCall, PushRetry, PushAcquire, DropWriter, pushVars, AcquireCall
<1>6. \A q \in Producers : Reserving(q) => pushes'[q] = pushes[q]
  BY <1>4, <1>5 DEF Reserving
<1>7. QueueTypeOK'
  <2>1. pushing \subseteq Producers /\ pushing' \subseteq pushing \cup {p}
    BY <1>5 DEF QueueTypeOK
  <2>2. pushes' \in [Producers -> 0..MaxPushes]
    BY <1>4, <1>5
  <2> QED
    BY <1>2, <2>1, <2>2 DEF QueueTypeOK, popVars
<1>8. LayoutInv(stop, at)' /\ ContentInv(at)' /\ EdgesInv(at)'
  <2>1. /\ UNCHANGED <<Top, consumer_barrier, cells, memory, reserved, performed>>
        /\ UNCHANGED <<c_pc, c_next, c_ready, c_held>>
    BY <1>2, <1>3 DEF popVars, consumerVars
  <2>2. \A q \in Producers : Reserving(q) =>
           Reserving(q)' /\ next'[q] = next[q] /\ size'[q] = size[q] /\ pushes'[q] = pushes[q]
    BY <1>3, <1>6
  <2>3. /\ LayoutInv(stop, at)' /\ ContentInv(at)'
        /\ \A b : (IsEdge(at, b)' <=> IsEdge(at, b)) /\ (KnownEdge(at, b)' <=> KnownEdge(at, b))
    BY <2>1, <2>2, RecordsStay
  <2> QED
    BY <2>1, <2>3 DEF EdgesInv
<1>9. CursorInv(at)'
  BY <1>2, <1>3 DEF CursorInv, popVars, consumerVars, Window, First, Wraps, Blank
<1>10. OrderInv'
  <2> SUFFICES ASSUME NEW i \in 1..Len(reserved), NEW q \in Producers, reserved[i].by = q
               PROVE  /\ reserved[i].nr <= pushes'[q]
                      /\ reserved[i].nr = pushes'[q] => q \notin pushing' \/ Reserving(q)'
    BY <1>2 DEF OrderInv, popVars
  <2>1. /\ reserved[i].nr <= pushes[q]
        /\ reserved[i].nr = pushes[q] => q \notin pushing \/ Reserving(q)
    BY DEF OrderInv
  <2>2. \/ pushes'[q] = pushes[q] /\ (q \in pushing' => q \in pushing)
        \/ pushes'[q] = pushes[q] + 1
    BY <1>4, <1>5
  <2>3. Reserving(q) => Reserving(q)'
    BY <1>3
  <2>4. reserved[i].nr \in Nat
    <3>1. reserved[i] \in Tasks
      BY DEF QueueTypeOK
    <3> QED
      BY <3>1 DEF Tasks
  <2> QED
    BY <1>4, <2>1, <2>2, <2>3, <2>4
<1>11. PushInv'
  <2> SUFFICES ASSUME NEW q \in Producers
               PROVE  /\ pc'[q] \notin {"new", "idle", "gone"} => q \in pushing'
                      /\ q \in pushing' => pc'[q] \notin {"new", "gone"} /\ size'[q] \in Sizes /\ pushes'[q] > 0
                      /\ q \in filled' => pc'[q] = "acquired" /\ \A c \in Slot(q)' : memory'[c] = Record(q)'
    BY DEF PushInv
  <2>1. q \in filled => pc[q] = "acquired" /\ (\A c \in Slot(q) : memory[c] = Record(q))
    BY DEF PushInv
  <2>2. q \in filled' => pc'[q] = "acquired" /\ \A c \in Slot(q)' : memory'[c] = Record(q)'
    <3> SUFFICES ASSUME q \in filled
                 PROVE  pc'[q] = "acquired" /\ \A c \in Slot(q)' : memory'[c] = Record(q)'
      BY <1>2
    <3>1. Reserving(q) /\ pc[q] = "acquired"
      BY <2>1 DEF Reserving
    <3>2. pc'[q] = "acquired"
      BY <1>1, <1>4, <3>1 DEF QuietStepOf, Register, Unregister, AcquireCall, LoadNext, LockSeen,
         CheckRoom, SwapFails, UnlockSeen, SetEnd, UnlockNext
    <3>3. Slot(q)' = Slot(q) /\ Record(q)' = Record(q)
      BY <1>3, <1>6, <3>1 DEF Slot, Start, Record
    <3> QED
      BY <1>2, <2>1, <3>2, <3>3
  <2>3. /\ pc[q] \notin {"new", "idle", "gone"} => q \in pushing
        /\ q \in pushing => pc[q] \notin {"new", "gone"} /\ size[q] \in Sizes /\ pushes[q] > 0
    BY DEF PushInv
  <2>4. CASE \E s \in Sizes : PushCall(p, s)
    BY <1>4, <2>2, <2>3, <2>4 DEF PushCall, AcquireCall
  <2>5. CASE GetWriter(p)
    BY <1>4, <2>2, <2>3, <2>5 DEF GetWriter, Register, pushVars
  <2>6. CASE PushRetry(p)
    BY <1>4, <2>2, <2>3, <2>6 DEF PushRetry, AcquireCall, pushVars
  <2>7. CASE DropWriter(p)
    BY <1>4, <2>2, <2>3, <2>7 DEF DropWriter, Unregister, pushVars
  <2>8. CASE PushAcquire(p)
    BY <1>4, <2>2, <2>3, <2>8 DEF PushAcquire, LoadNext, LockSeen, CheckRoom, SwapFails,
       UnlockSeen, SetEnd, UnlockNext, pushVars
  <2> QED
    BY <2>4, <2>5, <2>6, <2>7, <2>8
<1> QED
  BY <1>2, <1>3, <1>7, <1>8, <1>9, <1>10, <1>11 DEF popVars

\* The types of the ring's variables, as numbers.
LEMMA NumberTypes ==
    ASSUME TypeOK
    PROVE  /\ consumer_barrier \in Nat /\ consumer_barrier < Capacity
           /\ c_next \in Nat /\ c_next < Capacity /\ c_ready \in Nat
           /\ c_held \in Nat /\ c_held <= Capacity /\ Top \in Nat
           /\ \A p \in Producers : next[p] \in Nat /\ next[p] < Capacity /\ size[p] \in Nat
<1>1. \A o \in Offsets : o \in Nat /\ o < Capacity
  BY DEF Offsets
<1>2. c_ready \in Nat
  BY <1>1, OffsetFacts DEF TypeOK, Stable
<1>3. ASSUME NEW p \in Producers PROVE next[p] \in Nat /\ next[p] < Capacity /\ size[p] \in Nat
  <2>1. next[p] \in Offsets /\ size[p] \in Sizes \cup {0}
    BY DEF TypeOK
  <2>2. size[p] \in Sizes => size[p] \in 0..Capacity
    BY SizeFacts
  <2>3. size[p] \in Nat
    BY <2>1, <2>2
  <2> QED
    BY <1>1, <2>1, <2>3
<1> QED
  BY <1>1, <1>2, <1>3, TopType DEF TypeOK

\* The bytes of a range in the ring are its producer's.
LEMMA SlotOwned ==
    ASSUME NEW stop \in 0..Capacity, Core(stop), NEW q \in Producers, Reserving(q)
    PROVE  \A c \in Slot(q) : c \in Offsets /\ cells[c] = q
<1>1. next[q] \in Nat /\ next[q] < Capacity /\ size[q] \in 1..Capacity
  <2>1. size[q] \in Sizes
    BY DEF Core, TypeOK, ProducersInv, Reserving
  <2> QED
    BY <2>1, SizeFacts, NumberTypes DEF Core
<1>2. next[q] + size[q] > Capacity \/ next[q] + size[q] <= Capacity
  BY <1>1
<1>3. \A c \in Slot(q) : c \in Offsets
  BY <1>1, <1>2 DEF Slot, Start, Offsets
<1> QED
  BY <1>3 DEF Core, OwnersInv

\* The range of a pending record is that of its producer.
LEMMA PendingSlot ==
    ASSUME TypeOK, NEW at \in [1..Len(reserved) -> Offsets], NEW i \in Window,
           NEW p \in Producers, reserved[i] = Record(p), at[i] = next[p]
    PROVE  First(at, i) = Start(p) /\ Bytes(at, i) = Slot(p) /\ reserved[i].length = size[p]
<1>1. reserved[i].length = size[p]
  BY DEF Record
<1>2. First(at, i) = Start(p)
  BY <1>1 DEF First, Wraps, Start
<1>3. Last(at, i) = Start(p) + size[p]
  BY <1>1, <1>2 DEF Last
<1>4. Start(p) \in Nat /\ size[p] \in Nat
  BY NumberTypes DEF Start
<1> QED
  BY <1>1, <1>2, <1>3, <1>4 DEF Bytes, Slot

\* Nobody writes to the bytes of a record that is published.
LEMMA PushWriteStep ==
    ASSUME NEW stop \in 0..Capacity, NEW at \in [1..Len(reserved) -> Offsets], QueueCore(stop, at),
           NEW p \in Producers, PushWrite(p)
    PROVE  QueueCore(stop, at)' /\ UNCHANGED <<reserved, performed>>
<1>1. /\ UNCHANGED <<vars, pushing, pushes, popVars, reserved>> /\ filled' = filled \cup {p}
      /\ Reserving(p) /\ pc[p] = "acquired" /\ Core(stop)
  BY DEF PushWrite, QueueCore, Reserving
<1>2. \A c \in Slot(p) : c \in Offsets /\ cells[c] = p
  BY <1>1, SlotOwned
<1>3. /\ \A c \in Offsets \ Slot(p) : memory'[c] = memory[c]
      /\ \A c \in Slot(p) : memory'[c] = Record(p)
  BY <1>2 DEF PushWrite
<1>4. Core(stop)'
  BY <1>1 DEF Core, vars, producerVars, consumerVars, historyVars, TypeOK, ProducersInv, OwnersInv,
     Shape, ScanInv, HoldInv, Top, LapEnd, Wrapping, Reserving, Slot, Start, Held
<1>5. QueueTypeOK' /\ OrderInv' /\ CursorInv(at)'
  BY <1>1 DEF QueueCore, QueueTypeOK, OrderInv, CursorInv, popVars, vars, producerVars, consumerVars,
     Window, First, Wraps, Reserving, Blank
<1>6. LayoutInv(stop, at)' /\ EdgesInv(at)'
  BY <1>1 DEF QueueCore, LayoutInv, EdgesInv, KnownEdge, IsEdge, popVars, vars, producerVars,
     consumerVars, historyVars, Window, First, Last, Bytes, Wraps, Top, Follows
<1>7. PushInv'
  <2> SUFFICES ASSUME NEW q \in Producers, q \in filled'
               PROVE  pc[q] = "acquired" /\ \A c \in Slot(q) : memory'[c] = Record(q)
    BY <1>1 DEF QueueCore, PushInv, vars, producerVars, Slot, Start, Record
  <2>1. CASE q = p
    BY <1>1, <1>3, <2>1
  <2>2. CASE q # p
    <3>1. q \in filled /\ pc[q] = "acquired" /\ \A c \in Slot(q) : memory[c] = Record(q)
      BY <1>1, <2>2 DEF QueueCore, PushInv
    <3>2. \A c \in Slot(q) : c \in Offsets /\ cells[c] = q
      BY <1>1, <3>1, SlotOwned DEF Reserving
    <3> QED
      BY <1>2, <1>3, <2>2, <3>1, <3>2
  <2> QED
    BY <2>1, <2>2
<1>8. ContentInv(at)'
  <2> SUFFICES ASSUME NEW i \in Window PROVE Pending(at, i)' \/ Published(at, i)'
    BY <1>1 DEF ContentInv, Window, popVars
  <2>1. CASE Published(at, i)
    <3>1. \A c \in Bytes(at, i) : c \in Offsets /\ c \notin Slot(p)
      BY <1>2, <2>1, BytesInUse DEF Published
    <3>2. Bytes(at, i)' = Bytes(at, i)
      BY <1>1 DEF Bytes, First, Last, Wraps
    <3> QED
      BY <1>1, <1>3, <2>1, <3>1, <3>2 DEF Published, vars, historyVars
  <2>2. CASE Pending(at, i)
    BY <1>1, <2>2 DEF Pending, Reserving, Record, vars, producerVars
  <2> QED
    BY <2>1, <2>2 DEF QueueCore, ContentInv
<1> QED
  BY <1>1, <1>4, <1>5, <1>6, <1>7, <1>8 DEF QueueCore, popVars

\* produce() turns the pending record of a producer into a published one.
LEMMA PushProduceStep ==
    ASSUME NEW stop \in 0..Capacity, NEW at \in [1..Len(reserved) -> Offsets], QueueCore(stop, at),
           NEW p \in Producers, PushProduce(p)
    PROVE  QueueCore(stop, at)' /\ UNCHANGED <<reserved, performed>>
<1>1. /\ UNCHANGED <<pushes, memory, popVars, reserved>> /\ Produce(p) /\ Core(stop)
      /\ pushing' = pushing \ {p} /\ filled' = filled \ {p} /\ Reserving(p)
      /\ \A c \in Slot(p) : memory[c] = Record(p)
  BY DEF PushProduce, QueueCore, Reserving, PushInv, Produce
<1>2. /\ UNCHANGED <<producer_barrier, end, next, size, consumerVars>>
      /\ pc' = [pc EXCEPT ![p] = "idle"] /\ pc \in [Producers -> PcValues]
      /\ \A c \in Slot(p) : c \in Offsets /\ cells[c] = p
      /\ \A c \in Offsets : cells'[c] = IF c \in Slot(p) THEN Ready ELSE cells[c]
  BY <1>1, SlotOwned DEF Produce, Core, TypeOK
<1>3. Core(stop)'
  BY <1>1, ProduceStep
<1>4. \A q \in Producers : /\ q # p => pc'[q] = pc[q] /\ (Reserving(q)' <=> Reserving(q))
                           /\ Slot(q)' = Slot(q) /\ Record(q)' = Record(q)
  BY <1>1, <1>2 DEF Reserving, Slot, Start, Record
<1>5. pc'[p] = "idle"
  BY <1>2
<1>6. QueueTypeOK' /\ OrderInv' /\ CursorInv(at)'
  <2>1. QueueTypeOK'
    BY <1>1 DEF QueueCore, QueueTypeOK, popVars
  <2>2. OrderInv'
    BY <1>1, <1>4 DEF QueueCore, OrderInv, popVars
  <2>3. CursorInv(at)'
    BY <1>1, <1>2 DEF QueueCore, CursorInv, popVars, consumerVars, Window, First, Wraps, Blank
  <2> QED
    BY <2>1, <2>2, <2>3
<1>7. PushInv'
  BY <1>1, <1>2, <1>4, <1>5 DEF QueueCore, PushInv
<1>8. Window' = Window /\ \A i : Bytes(at, i)' = Bytes(at, i)
  BY <1>1 DEF Window, Bytes, First, Last, Wraps, popVars
<1>9. LayoutInv(stop, at)'
  BY <1>1, <1>2 DEF QueueCore, LayoutInv, popVars, consumerVars, Window, First, Last, Bytes, Wraps,
     Top, Follows
<1>10. ASSUME NEW b \in Nat, KnownEdge(at, b) PROVE KnownEdge(at, b)'
  <2>1. IsEdge(at, b) => IsEdge(at, b)'
    BY <1>1 DEF IsEdge, Window, First, Last, Wraps, popVars
  <2>2. b \in 1..Capacity => b - 1 \in Offsets
    BY DEF Offsets
  <2>3. consumer_barrier' = consumer_barrier /\ consumer_barrier \in Nat
    BY <1>1, <1>2 DEF consumerVars, Core, TypeOK, Offsets
  <2> QED
    BY <1>2, <1>10, <2>1, <2>2, <2>3 DEF KnownEdge
<1>11. EdgesInv(at)'
  <2>1. c_next \in Nat /\ c_ready \in Nat
    BY <1>1, OffsetFacts DEF Core, TypeOK, Stable, Offsets
  <2>2. IsEdge(at, consumer_barrier + c_held)' <=> IsEdge(at, consumer_barrier + c_held)
    BY <1>1, <1>2 DEF IsEdge, Window, First, Last, Wraps, popVars, consumerVars
  <2> QED
    BY <1>2, <1>10, <2>1, <2>2 DEF QueueCore, EdgesInv, consumerVars
<1>12. ContentInv(at)'
  <2> SUFFICES ASSUME NEW i \in Window PROVE Pending(at, i)' \/ Published(at, i)'
    BY <1>8 DEF ContentInv
  <2>1. CASE Published(at, i)
    BY <1>1, <1>2, <1>8, <2>1, BytesInUse DEF Published
  <2>2. CASE Pending(at, i)
    <3>1. PICK q \in Producers : Reserving(q) /\ reserved[i] = Record(q) /\ at[i] = next[q]
      BY <2>2 DEF Pending
    <3>2. CASE q # p
      BY <1>1, <1>2, <1>4, <3>1, <3>2 DEF Pending
    <3>3. CASE q = p
      <4>1. Bytes(at, i) = Slot(p) /\ reserved[i] = Record(p)
        BY <1>1, <3>1, <3>3, PendingSlot DEF Core
      <4> QED
        BY <1>1, <1>2, <1>8, <4>1 DEF Published
    <3> QED
      BY <3>2, <3>3
  <2> QED
    BY <2>1, <2>2 DEF QueueCore, ContentInv
<1> QED
  BY <1>1, <1>3, <1>6, <1>7, <1>9, <1>11, <1>12 DEF QueueCore, popVars

-----------------------------------------------------------------------------
\* A record that is being reserved was not reserved before.
LEMMA SwapReservesNew ==
    ASSUME NEW stop, NEW at, QueueCore(stop, at), NEW p \in Producers, Swap(p)
    PROVE  /\ Record(p) \in Tasks /\ p \in pushing /\ p \notin filled /\ ~Reserving(p)
           /\ \A i \in 1..Len(reserved) : reserved[i] # Record(p)
<1>1. p \in pushing /\ pc[p] = "swap" /\ p \notin filled /\ size[p] \in Sizes /\ pushes[p] > 0
  BY DEF QueueCore, PushInv, Swap
<1>2. pushes[p] \in 1..MaxPushes
  BY <1>1 DEF QueueCore, QueueTypeOK
<1>3. Record(p) \in Tasks
  BY <1>1, <1>2 DEF Record, Tasks
<1>4. ~Reserving(p)
  BY <1>1 DEF Reserving
<1>5. ASSUME NEW i \in 1..Len(reserved), reserved[i] = Record(p) PROVE FALSE
  <2>1. reserved[i].by = p /\ reserved[i].nr = pushes[p]
    BY <1>5 DEF Record
  <2> QED
    BY <1>1, <1>4, <2>1 DEF QueueCore, OrderInv
<1> QED
  BY <1>1, <1>3, <1>4, <1>5

\* Where the barrier is after a swap, and that it passes the consumer only
\* when the range starts again at 0.
LEMMA SwapTop ==
    ASSUME NEW stop \in 0..Capacity, Core(stop), NEW p \in Producers, Swap(p), p \notin stale
    PROVE  /\ Top' = Follows(Start(p) + size[p]) /\ Start(p) + size[p] <= Capacity
           /\ Top < consumer_barrier => Top' < consumer_barrier /\ ~IsLocked(producer_barrier')
           /\ next[p] + size[p] > Capacity => Wrapping(p)'
<1> DEFINE n == next[p]
           z == size[p]
<1>1. /\ n = Top /\ n \in Offsets /\ z \in 1..Capacity /\ ~NoRoom(n, z, consumer_barrier)
      /\ size[p] \in Sizes /\ producer_barrier' = Target(n, z)
  BY SwapTakesFreeBytes DEF Swap, Core, ProducersInv
<1>2. consumer_barrier \in Nat /\ consumer_barrier < Capacity /\ n \in Nat /\ n < Capacity /\ z \in Nat
  BY <1>1, NumberTypes DEF Core, Offsets
<1>3. next[p] + size[p] > Capacity => Wrapping(p)'
  BY <1>1 DEF Swap, Core, TypeOK, Wrapping, Reserving
<1>4. CASE n + z < Capacity
  <2>1. Target(n, z) = n + z
    BY <1>1, <1>4, TargetFacts
  <2>2. Top' = n + z /\ ~IsLocked(producer_barrier') /\ Start(p) = n
    BY <1>1, <1>2, <1>4, <2>1, OffsetFacts DEF Top, Start
  <2> QED
    BY <1>1, <1>2, <1>3, <1>4, <2>2 DEF Follows, NoRoom
<1>5. CASE n + z = Capacity
  <2>1. Target(n, z) = 0
    BY <1>1, <1>5, TargetFacts
  <2>2. Top' = 0 /\ ~IsLocked(producer_barrier') /\ Start(p) = n
    BY <1>1, <1>2, <1>5, <2>1, OffsetFacts DEF Top, Start
  <2> QED
    BY <1>1, <1>2, <1>3, <1>5, <2>2 DEF Follows
<1>6. CASE n + z > Capacity
  <2>1. Target(n, z) = LockWrapBit(z) /\ UnlockWrapBit(Target(n, z)) = z
    BY <1>1, <1>2, <1>6, TargetFacts, OffsetFacts
  <2>2. Top' = z /\ Start(p) = 0 /\ z < consumer_barrier
    BY <1>1, <1>2, <1>6, <2>1 DEF Top, Start, NoRoom
  <2> QED
    BY <1>1, <1>2, <1>3, <1>6, <2>2 DEF Follows, NoRoom
<1> QED
  BY <1>2, <1>4, <1>5, <1>6

\* A swap puts one more record, the L-th, behind the others.
LEMMA PushSwapAppends ==
    ASSUME NEW stop \in 0..Capacity, NEW at \in [1..Len(reserved) -> Offsets], QueueCore(stop, at),
           NEW p \in Producers, PushSwap(p), p \notin stale,
           NEW s \in 0..Capacity, Core(s)',
           NEW L \in Nat, L = Len(reserved) + 1,
           NEW a \in [1..L -> Offsets], a[L] = next[p],
           \A i \in 1..Len(reserved) : a[i] = at[i]
    PROVE  QueueCore(s, a)'
<1> DEFINE z == size[p]
<1>1. /\ Swap(p) /\ Core(stop) /\ reserved' = Append(reserved, Record(p))
      /\ UNCHANGED <<pushVars, popVars, next, size, end, consumerVars>>
      /\ pc' = [pc EXCEPT ![p] = "unlock_seen"] /\ pc \in [Producers -> PcValues]
      /\ \A c \in Offsets : cells'[c] = IF c \in Slot(p) THEN p ELSE cells[c]
  BY DEF PushSwap, Swap, QueueCore, Core, TypeOK
<1>2. /\ next[p] = Top /\ next[p] \in Offsets /\ z \in 1..Capacity
      /\ ~IsLocked(producer_barrier)
      /\ \A c \in Slot(p) : c \in Offsets /\ cells[c] = Free
  BY <1>1, SwapTakesFreeBytes
<1>3. Core(s)'
  OBVIOUS
<1>4. /\ Top' = Follows(Start(p) + z) /\ Start(p) + z <= Capacity
      /\ Top < consumer_barrier => Top' < consumer_barrier /\ ~IsLocked(producer_barrier')
      /\ next[p] + z > Capacity => Wrapping(p)'
  BY <1>1, SwapTop
<1>5. /\ Record(p) \in Tasks /\ p \in pushing /\ p \notin filled /\ ~Reserving(p) /\ Reserving(p)'
      /\ \A i \in 1..Len(reserved) : reserved[i] # Record(p)
  BY <1>1, SwapReservesNew DEF Reserving
<1>6. /\ Len(reserved) \in Nat /\ Len(performed) \in Nat /\ Len(performed) <= Len(reserved)
      /\ reserved \in Seq(Tasks) /\ performed \in Seq(Tasks)
  BY DEF QueueCore, QueueTypeOK
<1>7. /\ Len(reserved') = L /\ reserved'[L] = Record(p) /\ reserved' \in Seq(Tasks)
      /\ \A i \in 1..Len(reserved) : reserved'[i] = reserved[i]
  BY <1>1, <1>5, <1>6
<1>8. a[L] = next[p] /\ \A i \in 1..Len(reserved) : a[i] = at[i]
  OBVIOUS
<1>9. /\ Window' = Window \cup {L} /\ L \notin Window
      /\ \A i \in Window : i \in 1..Len(reserved) /\ i < L /\ (i + 1 \in Window' <=> i + 1 \in Window \/ i = L - 1)
      /\ \A i \in Window : i + 1 \in Window <=> i # L - 1
  BY <1>1, <1>6, <1>7 DEF Window, popVars
<1>10. \A i \in Window : /\ First(a, i)' = First(at, i) /\ Last(a, i)' = Last(at, i)
                         /\ Bytes(a, i)' = Bytes(at, i) /\ (Wraps(a, i)' <=> Wraps(at, i))
  <2> SUFFICES ASSUME NEW i \in Window
               PROVE  /\ First(a, i)' = First(at, i) /\ Last(a, i)' = Last(at, i)
                      /\ Bytes(a, i)' = Bytes(at, i) /\ (Wraps(a, i)' <=> Wraps(at, i))
    OBVIOUS
  <2>1. a[i] = at[i] /\ reserved'[i] = reserved[i]
    BY <1>7, <1>8, <1>9
  <2> QED
    BY <2>1 DEF First, Last, Bytes, Wraps
<1>11. /\ First(a, L)' = Start(p) /\ Last(a, L)' = Start(p) + z /\ Bytes(a, L)' = Slot(p)
       /\ Wraps(a, L)' <=> next[p] + z > Capacity
  <2>1. a[L] = next[p] /\ reserved'[L].length = z
    BY <1>7, <1>8 DEF Record
  <2>2. Start(p) \in Nat /\ z \in Nat
    BY <1>2 DEF Start, Offsets
  <2>3. First(a, L)' = Start(p) /\ (Wraps(a, L)' <=> next[p] + z > Capacity)
    BY <2>1 DEF First, Wraps, Start
  <2>4. Last(a, L)' = Start(p) + z
    BY <2>1, <2>3 DEF Last
  <2> QED
    BY <2>2, <2>3, <2>4 DEF Bytes, Slot
<1>12. LayoutInv(s, a)'
  <2>1. consumer_barrier' = consumer_barrier /\ performed' = performed /\ c_pc' = c_pc /\ end' = end
    BY <1>1 DEF consumerVars, popVars
  <2>2. Window' # {}
    BY <1>9
  <2>3. ASSUME NEW i \in Window
        PROVE  /\ Last(a, i)' <= Capacity
               /\ i = Len(performed) + 1 =>
                     a[i] = consumer_barrier \/ (consumer_barrier = 0 /\ First(a, i)' = 0)
               /\ i # Len(reserved')
               /\ i + 1 \in Window' => a[i + 1] = Follows(Last(a, i)')
    <3>1. a[i] = at[i] /\ i \in 1..Len(reserved) /\ i # L
      BY <1>8, <1>9
    <3>2. /\ Last(at, i) <= Capacity
          /\ i = Len(performed) + 1 =>
                at[i] = consumer_barrier \/ (consumer_barrier = 0 /\ First(at, i) = 0)
          /\ i = Len(reserved) => Top = Follows(Last(at, i))
          /\ i + 1 \in Window => at[i + 1] = Follows(Last(at, i))
      BY DEF QueueCore, LayoutInv
    <3>3. i + 1 \in Window' => a[i + 1] = Follows(Last(at, i))
      <4>1. CASE i + 1 \in Window
        BY <1>8, <1>9, <3>2, <4>1
      <4>2. CASE i = L - 1
        BY <1>2, <1>6, <1>8, <3>2, <4>2
      <4> QED
        BY <1>9, <4>1, <4>2
    <3> QED
      BY <1>7, <1>10, <3>1, <3>2, <3>3
  <2>4. ASSUME NEW i \in Window, Wraps(a, i)'
        PROVE  \/ i = Len(performed) + 1 /\ consumer_barrier = 0
               \/ Top' < consumer_barrier /\ s = a[i]
    <3>1. a[i] = at[i] /\ Wraps(at, i)
      BY <1>8, <1>9, <1>10, <2>4
    <3>2. \/ i = Len(performed) + 1 /\ consumer_barrier = 0
          \/ Top < consumer_barrier /\ stop = at[i]
      BY <3>1 DEF QueueCore, LayoutInv
    <3>3. Top < consumer_barrier => s = stop
      <4> SUFFICES ASSUME Top < consumer_barrier PROVE s = stop
        OBVIOUS
      <4>1. LapEnd' = LapEnd
        BY <2>1 DEF LapEnd
      <4>2. IF c_pc = "rewind" THEN stop = consumer_barrier ELSE stop = LapEnd
        BY <1>1, <1>2 DEF Core, Shape
      <4>3. IF c_pc' = "rewind" THEN s = consumer_barrier' ELSE s = LapEnd'
        BY <1>3, <1>4, <2>1 DEF Core, Shape
      <4> QED
        BY <2>1, <4>1, <4>2, <4>3
    <3> QED
      BY <1>4, <3>1, <3>2, <3>3
  <2>5. /\ Last(a, L)' <= Capacity
        /\ L = Len(performed) + 1 => a[L] = consumer_barrier
        /\ Top' = Follows(Last(a, L)')
        /\ L + 1 \notin Window'
        /\ Wraps(a, L)' => Top' < consumer_barrier /\ s = a[L]
    <3>1. L = Len(performed) + 1 => a[L] = consumer_barrier
      <4>1. L = Len(performed) + 1 => Window = {}
        BY <1>6 DEF Window
      <4> QED
        BY <1>2, <1>8, <4>1 DEF QueueCore, LayoutInv
    <3>2. Wraps(a, L)' => Top' < consumer_barrier /\ s = a[L]
      <4>1. Wrapping(p)' => Top' < consumer_barrier' /\ s = next'[p]
        BY <1>3 DEF Core, Shape
      <4> QED
        BY <1>1, <1>4, <1>8, <1>11, <2>1, <4>1
    <3>3. L + 1 \notin Window'
      <4>1. Window = (Len(performed) + 1)..Len(reserved)
        BY DEF Window
      <4> QED
        BY <1>6, <1>9, <4>1
    <3> QED
      BY <1>4, <1>11, <3>1, <3>2, <3>3
  <2>6. ASSUME NEW i \in Window', NEW j \in Window', i # j
        PROVE  Bytes(a, i)' \cap Bytes(a, j)' = {}
    <3>1. \A l \in Window : Bytes(at, l) \cap Slot(p) = {}
      BY <1>2, BytesInUse
    <3>2. \A l, m \in Window : l # m => Bytes(at, l) \cap Bytes(at, m) = {}
      BY DEF QueueCore, LayoutInv
    <3> QED
      BY <1>9, <1>10, <1>11, <2>6, <3>1, <3>2
  <2>7. ASSUME NEW i \in Window'
        PROVE  /\ Last(a, i)' <= Capacity
               /\ i = Len(performed) + 1 =>
                     a[i] = consumer_barrier \/ (consumer_barrier = 0 /\ First(a, i)' = 0)
               /\ i = Len(reserved') => Top' = Follows(Last(a, i)')
               /\ i + 1 \in Window' => a[i + 1] = Follows(Last(a, i)')
               /\ Wraps(a, i)' =>
                     \/ i = Len(performed) + 1 /\ consumer_barrier = 0
                     \/ Top' < consumer_barrier /\ s = a[i]
    <3>1. CASE i \in Window
      BY <2>3, <2>4, <3>1
    <3>2. CASE i = L
      BY <2>5, <3>2
    <3> QED
      BY <1>9, <3>1, <3>2
  <2> QED
    BY <2>1, <2>2, <2>6, <2>7 DEF LayoutInv, Follows
<1>13. ContentInv(a)'
  <2>1. ASSUME NEW i \in Window PROVE Pending(a, i)' \/ Published(a, i)'
    <3>1. a[i] = at[i] /\ reserved'[i] = reserved[i]
      BY <1>7, <1>8, <1>9
    <3>2. CASE Pending(at, i)
      <4>1. PICK q \in Producers : Reserving(q) /\ reserved[i] = Record(q) /\ at[i] = next[q]
        BY <3>2 DEF Pending
      <4>2. Reserving(q)' /\ Record(q)' = Record(q) /\ next'[q] = next[q]
        BY <1>1, <1>5, <4>1 DEF Reserving, Record, pushVars
      <4> QED
        BY <3>1, <4>1, <4>2 DEF Pending
    <3>3. CASE Published(at, i)
      <4>1. \A c \in Bytes(at, i) : c \in Offsets /\ c \notin Slot(p)
        BY <1>2, BytesInUse
      <4> QED
        BY <1>1, <1>10, <3>1, <3>3, <4>1 DEF Published, pushVars
    <3> QED
      BY <3>2, <3>3 DEF QueueCore, ContentInv
  <2>2. Pending(a, L)'
    <3>1. Record(p)' = Record(p) /\ next'[p] = next[p]
      BY <1>1 DEF Record, pushVars
    <3> QED
      BY <1>5, <1>7, <1>8, <3>1 DEF Pending
  <2> QED
    BY <1>9, <2>1, <2>2 DEF ContentInv
<1>14. EdgesInv(a)'
  <2>1. ASSUME NEW b \in Nat, b - 1 \in Offsets, cells[b - 1] # Free, IsEdge(at, b)
        PROVE  IsEdge(a, b)' /\ cells'[b - 1] # Free
    <3>1. b - 1 \notin Slot(p)
      BY <1>2, <2>1
    <3>2. ~(First(a, L)' < b /\ b < Last(a, L)')
      <4>1. Start(p) \in Nat /\ size[p] \in Nat /\ b - 1 \in Nat
        BY <1>2, <2>1 DEF Start, Offsets
      <4> QED
        BY <1>11, <2>1, <3>1, <4>1 DEF Slot
    <3>3. \A i \in Window : ~(First(a, i)' < b /\ b < Last(a, i)')
      BY <1>10, <2>1 DEF IsEdge
    <3> QED
      BY <1>1, <1>9, <2>1, <3>1, <3>2, <3>3 DEF IsEdge
  <2>2. /\ consumer_barrier \in Nat /\ c_next \in Nat /\ c_ready \in Nat /\ c_held \in Nat
    BY <1>1, NumberTypes DEF Core
  <2>3. ASSUME NEW b \in Nat, KnownEdge(at, b) PROVE KnownEdge(a, b)'
    <3>1. consumer_barrier < b /\ b < Capacity => b - 1 \in Offsets
      BY <2>2 DEF Offsets
    <3> QED
      BY <1>1, <2>1, <2>3, <3>1 DEF KnownEdge, consumerVars
  <2>4. c_pc = "scan" => KnownEdge(a, c_next)' /\ KnownEdge(a, c_ready)'
    BY <1>1, <2>2, <2>3 DEF QueueCore, EdgesInv, consumerVars
  <2>5. c_pc = "holding" => IsEdge(a, consumer_barrier + c_held)'
    <3> SUFFICES ASSUME c_pc = "holding" PROVE IsEdge(a, consumer_barrier + c_held)'
      OBVIOUS
    <3>0. PICK b \in Nat : b = consumer_barrier + c_held
      BY <2>2
    <3>1. c_held > 0 /\ b <= Capacity /\ b - 1 \in Held /\ cells[b - 1] = Ready
      BY <1>1, <2>2, <3>0 DEF Core, HoldInv, Held
    <3>2. b - 1 \in Offsets
      BY <2>2, <3>0, <3>1 DEF Offsets
    <3>3. IsEdge(at, b)
      BY <3>0 DEF QueueCore, EdgesInv
    <3>4. IsEdge(a, b)'
      BY <2>1, <3>1, <3>2, <3>3
    <3> QED
      BY <1>1, <3>0, <3>4 DEF consumerVars
  <2> QED
    BY <1>1, <2>4, <2>5 DEF EdgesInv, consumerVars
<1>15. CursorInv(a)'
  <2>1. PICK k \in Nat : k = Len(performed) + 1
    BY <1>6
  <2>2. Window # {} => k \in Window
    BY <1>6, <2>1 DEF Window
  <2>3. Window # {} => First(a, k)' = First(at, k) /\ reserved'[k] = reserved[k] /\ Window' # {}
    BY <1>7, <1>9, <1>10, <2>2
  <2>4. UNCHANGED <<poped, consumed, current, performed, c_pc, c_held, consumer_barrier>>
    BY <1>1 DEF popVars, consumerVars
  <2> QED
    BY <2>1, <2>3, <2>4 DEF QueueCore, CursorInv, Blank
<1>16. QueueTypeOK'
  BY <1>1, <1>6, <1>7 DEF QueueCore, QueueTypeOK, pushVars, popVars
<1>17. PushInv'
  <2> SUFFICES ASSUME NEW q \in Producers
               PROVE  /\ pc'[q] \notin {"new", "idle", "gone"} => q \in pushing
                      /\ q \in pushing => pc'[q] \notin {"new", "gone"} /\ size[q] \in Sizes /\ pushes[q] > 0
                      /\ q \in filled => pc'[q] = "acquired" /\ \A c \in Slot(q) : memory[c] = Record(q)
    BY <1>1 DEF PushInv, pushVars, Slot, Start, Record
  <2>1. /\ pc[q] \notin {"new", "idle", "gone"} => q \in pushing
        /\ q \in pushing => pc[q] \notin {"new", "gone"} /\ size[q] \in Sizes /\ pushes[q] > 0
        /\ q \in filled => pc[q] = "acquired" /\ \A c \in Slot(q) : memory[c] = Record(q)
    BY DEF QueueCore, PushInv
  <2> QED
    BY <1>1, <1>5, <2>1
<1>18. OrderInv'
  <2>1. pushes' = pushes /\ pushing' = pushing /\ performed' = performed
    BY <1>1 DEF pushVars, popVars
  <2>2. \A i \in 1..Len(performed) : performed[i] = reserved'[i]
    BY <1>6, <1>7 DEF QueueCore, OrderInv
  <2>3. ASSUME NEW i \in 1..Len(reserved'), NEW q \in Producers, reserved'[i].by = q
        PROVE  /\ reserved'[i].nr <= pushes[q]
               /\ reserved'[i].nr = pushes[q] => q \notin pushing \/ Reserving(q)'
    <3>1. CASE i = L
      <4>1. reserved'[i].by = p /\ reserved'[i].nr = pushes[p] /\ pushes[p] \in Nat
        BY <1>7, <3>1 DEF Record, QueueCore, QueueTypeOK
      <4> QED
        BY <1>5, <2>3, <4>1
    <3>2. CASE i # L
      <4>1. i \in 1..Len(reserved) /\ reserved'[i] = reserved[i]
        BY <1>6, <1>7, <3>2
      <4>2. Reserving(q) => Reserving(q)'
        BY <1>1, <1>5 DEF Reserving
      <4> QED
        BY <2>3, <4>1, <4>2 DEF QueueCore, OrderInv
    <3> QED
      BY <3>1, <3>2
  <2> QED
    BY <2>1, <2>2, <2>3 DEF OrderInv
<1> QED
  BY <1>3, <1>12, <1>13, <1>14, <1>15, <1>16, <1>17, <1>18 DEF QueueCore

LEMMA PushSwapStep ==
    ASSUME NEW stop \in 0..Capacity, NEW at \in [1..Len(reserved) -> Offsets], QueueCore(stop, at),
           NEW p \in Producers, PushSwap(p), p \notin stale
    PROVE  \E s \in 0..Capacity, a \in [1..Len(reserved') -> Offsets] : QueueCore(s, a)'
<1>1. PICK s \in 0..Capacity : Core(s)'
  BY SwapStep DEF PushSwap, QueueCore
<1>2. /\ next[p] \in Offsets /\ reserved' = Append(reserved, Record(p))
      /\ reserved \in Seq(Tasks) /\ Record(p) \in Tasks
  BY SwapReservesNew DEF PushSwap, Swap, QueueCore, QueueTypeOK, Core, TypeOK
<1>3. PICK L \in Nat : L = Len(reserved) + 1 /\ L = Len(reserved')
  BY <1>2
<1>4. PICK a : a = [i \in 1..L |-> IF i = L THEN next[p] ELSE at[i]]
  OBVIOUS
<1>5. a \in [1..L -> Offsets] /\ a[L] = next[p] /\ \A i \in 1..Len(reserved) : a[i] = at[i]
  BY <1>2, <1>3, <1>4
<1>6. QueueCore(s, a)'
  BY <1>1, <1>3, <1>5, PushSwapAppends
<1> QED
  BY <1>3, <1>5, <1>6

-----------------------------------------------------------------------------
\* The next free offset is an edge, and the one before it is in use.
LEMMA TopIsEdge ==
    ASSUME NEW stop \in 0..Capacity, NEW at \in [1..Len(reserved) -> Offsets], QueueCore(stop, at),
           ~IsLocked(producer_barrier)
    PROVE  KnownEdge(at, Top)
<1> SUFFICES ASSUME consumer_barrier < Top
             PROVE  Top < Capacity /\ cells[Top - 1] # Free /\ IsEdge(at, Top)
  BY DEF KnownEdge
<1>1. TypeOK /\ Shape(stop) /\ Top \in Nat /\ consumer_barrier \in Nat
  BY NumberTypes DEF QueueCore, Core
<1>2. Top = producer_barrier /\ Top \in Offsets
  BY <1>1, OffsetFacts DEF TypeOK, Top, UnlockWrapBit
<1>3. Top < Capacity /\ Top - 1 \in Offsets
  BY <1>1, <1>2 DEF Offsets
<1>4. cells[Top - 1] # Free /\ cells[Top] = Free
  BY <1>1, <1>2, <1>3 DEF Shape
<1> QED
  BY <1>1, <1>3, <1>4, FreeIsEdge

\* What a worker's _seen tells the consumer is an edge: its range begins there,
\* or the old lap ends there.
LEMMA SeenIsEdge ==
    ASSUME NEW stop \in 0..Capacity, NEW at \in [1..Len(reserved) -> Offsets], QueueCore(stop, at),
           NEW p \in Producers, p \in registered, ~IsLocked(seen[p])
    PROVE  KnownEdge(at, seen[p])
<1> SUFFICES ASSUME seen[p] # MAX_OFFSET, consumer_barrier < seen[p]
             PROVE  seen[p] < Capacity /\ cells[seen[p] - 1] # Free /\ IsEdge(at, seen[p])
  BY DEF KnownEdge
<1>1. TypeOK /\ ProducersInv /\ Shape(stop) /\ Core(stop) /\ Top \in Nat /\ consumer_barrier \in Nat
  BY NumberTypes DEF QueueCore, Core
<1>2. next[p] \in Offsets /\ next[p] \in Nat /\ next[p] < Capacity /\ pc[p] \in PcValues
  BY <1>1, NumberTypes DEF TypeOK
<1>3. IsLocked(LockWrapBit(next[p]))
  BY <1>2, OffsetFacts
<1>4. Reserving(p) /\ seen[p] = next[p]
  BY <1>1, <1>2, <1>3 DEF ProducersInv, PcValues, Reserving
<1>5. seen[p] - 1 \in Offsets
  BY <1>1, <1>2, <1>4 DEF Offsets
<1>6. CASE Wrapping(p)
  <2>1. Top < consumer_barrier /\ stop = seen[p]
    BY <1>1, <1>4, <1>6 DEF Shape
  <2>2. cells[seen[p]] = Free /\ cells[seen[p] - 1] # Free
    BY <1>1, <1>2, <1>4, <1>5, <2>1 DEF Shape
  <2> QED
    BY <1>2, <1>4, <2>2, FreeIsEdge
<1>7. CASE ~Wrapping(p)
  <2>1. Start(p) = next[p] /\ next[p] \in Slot(p)
    <3>1. size[p] \in 1..Capacity /\ next[p] + size[p] <= Capacity
      <4>1. size[p] \in Sizes /\ next[p] + size[p] <= Capacity
        BY <1>1, <1>4, <1>7 DEF ProducersInv, Reserving
      <4> QED
        BY <4>1, SizeFacts
    <3> QED
      BY <1>2, <3>1 DEF Start, Slot
  <2>2. cells[seen[p]] = p /\ p # Free /\ p # Ready
    BY <1>1, <1>4, <2>1, SlotOwned
  <2>3. cells[seen[p] - 1] # Free
    BY <1>1, <1>2, <1>4, <1>5, <2>2 DEF Shape
  <2>4. IsEdge(at, seen[p])
    <3> SUFFICES ASSUME NEW i \in Window, First(at, i) < seen[p], seen[p] < Last(at, i)
                 PROVE  FALSE
      BY DEF IsEdge
    <3>1. seen[p] \in Bytes(at, i) /\ First(at, i) \in Nat
      BY <1>2, <1>4, WindowFacts DEF QueueCore, Bytes
    <3>2. PICK q \in Producers : Reserving(q) /\ reserved[i] = Record(q) /\ at[i] = next[q]
      BY <2>2, <3>1 DEF QueueCore, ContentInv, Published, Pending
    <3>3. Bytes(at, i) = Slot(q)
      BY <1>1, <3>2, PendingSlot
    <3>4. First(at, i) = Start(q)
      BY <1>1, <3>2, PendingSlot
    <3>5. q = p
      BY <1>1, <2>2, <3>1, <3>2, <3>3, SlotOwned
    <3> QED
      BY <1>2, <1>4, <2>1, <3>1, <3>4, <3>5
  <2> QED
    BY <1>2, <1>4, <2>3, <2>4
<1> QED
  BY <1>6, <1>7

\* Everything of QueueCore but the facts about the consumer survives a step of
\* consume() that leaves its barrier alone.
LEMMA ConsumerQuiet ==
    ASSUME NEW stop \in 0..Capacity, NEW at \in [1..Len(reserved) -> Offsets], QueueCore(stop, at),
           Core(stop)', UNCHANGED <<producer_barrier, producerVars, historyVars, consumer_barrier>>,
           UNCHANGED <<pushVars, performed, reserved>>
    PROVE  /\ QueueTypeOK' /\ PushInv' /\ OrderInv' /\ LayoutInv(stop, at)' /\ ContentInv(at)'
           /\ \A b : (IsEdge(at, b)' <=> IsEdge(at, b)) /\ (KnownEdge(at, b)' <=> KnownEdge(at, b))
<1>1. QueueTypeOK' /\ OrderInv'
  BY DEF QueueCore, QueueTypeOK, OrderInv, pushVars, producerVars, Reserving
<1>2. PushInv'
  BY DEF QueueCore, PushInv, pushVars, producerVars, Slot, Start, Record
<1>3. UNCHANGED <<Top, consumer_barrier, cells, memory, reserved, performed>>
  BY DEF Top, historyVars, pushVars
<1>4. \A q \in Producers : Reserving(q) =>
         Reserving(q)' /\ next'[q] = next[q] /\ size'[q] = size[q] /\ pushes'[q] = pushes[q]
  BY DEF Reserving, producerVars, pushVars
<1> QED
  BY <1>1, <1>2, <1>3, <1>4, RecordsStay

\* consume() reads the barrier, looks at a worker, or leaves the old lap.
LEMMA PopLooksStep ==
    ASSUME NEW stop \in 0..Capacity, NEW at \in [1..Len(reserved) -> Offsets], QueueCore(stop, at),
           UNCHANGED <<pushVars, popVars, reserved>>,
           ConsumeLoadNext \/ (\E p \in Producers : ScanWorker(p)) \/ ConsumeWrap
    PROVE  QueueCore(stop, at)' /\ UNCHANGED <<reserved, performed>>
<1>1. Core(stop)'
  BY ConsumeLoadNextStep, ScanWorkerStep, ConsumeWrapStep DEF QueueCore
<1>2. /\ UNCHANGED <<producer_barrier, producerVars, historyVars, consumer_barrier, c_held>>
      /\ UNCHANGED <<pushVars, performed, reserved>> /\ UNCHANGED popVars
  BY DEF ConsumeLoadNext, ScanWorker, ConsumeWrap, popVars
<1>3. /\ QueueTypeOK' /\ PushInv' /\ OrderInv' /\ LayoutInv(stop, at)' /\ ContentInv(at)'
      /\ \A b : KnownEdge(at, b)' <=> KnownEdge(at, b)
  BY <1>1, <1>2, ConsumerQuiet
<1>4. c_pc # "holding" /\ c_pc' # "holding"
  BY DEF ConsumeLoadNext, ScanWorker, ConsumeWrap
<1>5. CursorInv(at)'
  BY <1>2, <1>4 DEF QueueCore, CursorInv, popVars, Blank
<1>6. KnownEdge(at, MAX_OFFSET)
  BY DEF KnownEdge
<1>7. c_pc' = "scan" => KnownEdge(at, c_next') /\ KnownEdge(at, c_ready')
  <2> SUFFICES ASSUME c_pc' = "scan" PROVE KnownEdge(at, c_next') /\ KnownEdge(at, c_ready')
    OBVIOUS
  <2>1. CASE ConsumeLoadNext
    <3>1. ~IsLocked(producer_barrier) /\ c_next' = producer_barrier /\ c_ready' = MAX_OFFSET
      BY <2>1 DEF ConsumeLoadNext
    <3>2. c_next' = Top
      BY <3>1 DEF Top, UnlockWrapBit
    <3> QED
      BY <1>6, <3>1, <3>2, TopIsEdge
  <2>2. ASSUME NEW p \in Producers, ScanWorker(p)
        PROVE  KnownEdge(at, c_next') /\ KnownEdge(at, c_ready')
    <3>1. KnownEdge(at, c_next) /\ KnownEdge(at, c_ready) /\ c_next' = c_next
      BY <2>2 DEF ScanWorker, QueueCore, EdgesInv
    <3>2. \/ c_ready' = c_ready
          \/ p \in registered /\ ~IsLocked(seen[p]) /\ c_ready' = seen[p]
      BY <2>2 DEF ScanWorker, MinOffset
    <3> QED
      BY <3>1, <3>2, SeenIsEdge
  <2>3. CASE ConsumeWrap
    BY <2>3 DEF ConsumeWrap
  <2> QED
    BY <2>1, <2>2, <2>3
<1>8. EdgesInv(at)'
  <2>1. PICK b1, b2 : b1 = c_next' /\ b2 = c_ready'
    OBVIOUS
  <2>2. c_pc' = "scan" => KnownEdge(at, b1)' /\ KnownEdge(at, b2)'
    BY <1>3, <1>7, <2>1
  <2> QED
    BY <1>4, <2>1, <2>2 DEF EdgesInv
<1> QED
  BY <1>1, <1>2, <1>3, <1>5, <1>8 DEF QueueCore

\* consume() starts again at 0: the first record is the one that wrapped.
LEMMA PopRewindStep ==
    ASSUME NEW stop \in 0..Capacity, NEW at \in [1..Len(reserved) -> Offsets], QueueCore(stop, at),
           UNCHANGED <<pushVars, popVars, reserved>>, ConsumeRewind
    PROVE  QueueCore(stop, at)' /\ UNCHANGED <<reserved, performed>>
<1>1. Core(stop)'
  BY ConsumeRewindStep DEF QueueCore
<1>2. /\ UNCHANGED <<producer_barrier, producerVars, historyVars, c_held>>
      /\ UNCHANGED <<pushVars, popVars, reserved, performed>>
      /\ consumer_barrier' = 0 /\ c_pc = "rewind" /\ c_pc' = "again"
  BY DEF ConsumeRewind, popVars
<1>3. /\ Top < consumer_barrier /\ stop = consumer_barrier /\ Top \in Nat
      /\ consumer_barrier \in Nat /\ consumer_barrier \in Offsets
  BY <1>2, NumberTypes DEF QueueCore, Core, Shape, TypeOK
<1>4. cells[consumer_barrier] = Free
  BY <1>3 DEF QueueCore, Core, Shape
<1>5. PICK k \in Nat : k = Len(performed) + 1
  BY DEF QueueCore, QueueTypeOK
<1>6. Window # {} /\ k \in Window
  <2>1. Window # {}
    BY <1>3 DEF QueueCore, LayoutInv
  <2> QED
    BY <1>5, <2>1 DEF Window, QueueCore, QueueTypeOK
<1>7. Wraps(at, k) /\ First(at, k) = 0
  <2>1. at[k] = consumer_barrier
    BY <1>3, <1>5, <1>6 DEF QueueCore, LayoutInv
  <2>2. ~Wraps(at, k) => consumer_barrier \in Bytes(at, k)
    BY <1>6, <2>1, WindowFacts DEF QueueCore, First
  <2> QED
    BY <1>4, <1>6, <2>2, BytesInUse DEF First
<1>8. \A i \in Window : Wraps(at, i) => i = k
  <2> SUFFICES ASSUME NEW i \in Window, Wraps(at, i), i # k PROVE FALSE
    OBVIOUS
  <2>1. First(at, i) = 0
    BY DEF First
  <2>2. 0 \in Bytes(at, i) /\ 0 \in Bytes(at, k)
    BY <1>6, <1>7, <2>1, WindowFacts DEF QueueCore
  <2> QED
    BY <1>6, <2>2 DEF QueueCore, LayoutInv
<1>9. /\ Top' = Top /\ Window' = Window /\ performed' = performed /\ reserved' = reserved
      /\ \A i : /\ First(at, i)' = First(at, i) /\ Last(at, i)' = Last(at, i)
                /\ Bytes(at, i)' = Bytes(at, i) /\ (Wraps(at, i)' <=> Wraps(at, i))
  BY <1>2 DEF Top, popVars, Window, First, Last, Bytes, Wraps
<1>10. LayoutInv(stop, at)'
  <2>1. ASSUME NEW i \in Window
        PROVE  /\ Last(at, i) <= Capacity
               /\ i = Len(performed) + 1 => First(at, i) = 0
               /\ i = Len(reserved) => Top = Follows(Last(at, i))
               /\ i + 1 \in Window => at[i + 1] = Follows(Last(at, i))
               /\ Wraps(at, i) => i = Len(performed) + 1
    BY <1>5, <1>7, <1>8 DEF QueueCore, LayoutInv
  <2>2. \A i, j \in Window : i # j => Bytes(at, i) \cap Bytes(at, j) = {}
    BY DEF QueueCore, LayoutInv
  <2> QED
    BY <1>2, <1>6, <1>9, <2>1, <2>2 DEF LayoutInv, Follows
<1>11. ContentInv(at)'
  <2> SUFFICES ASSUME NEW i \in Window PROVE Pending(at, i)' \/ Published(at, i)'
    BY <1>9 DEF ContentInv
  <2>1. CASE Published(at, i)
    BY <1>2, <1>9, <2>1 DEF Published, historyVars, pushVars
  <2>2. CASE Pending(at, i)
    BY <1>2, <1>9, <2>2 DEF Pending, Reserving, Record, producerVars, pushVars
  <2> QED
    BY <2>1, <2>2 DEF QueueCore, ContentInv
<1>12. QueueTypeOK' /\ OrderInv' /\ CursorInv(at)' /\ EdgesInv(at)'
  BY <1>2 DEF QueueCore, QueueTypeOK, OrderInv, CursorInv, EdgesInv, pushVars, popVars, producerVars,
     Reserving, Blank
<1>13. PushInv'
  BY <1>2 DEF QueueCore, PushInv, pushVars, producerVars, Slot, Start, Record
<1> QED
  BY <1>1, <1>9, <1>10, <1>11, <1>12, <1>13 DEF QueueCore

\* When the byte at the consumer is published, the first record begins there
\* and is all written.
LEMMA HeadRecord ==
    ASSUME NEW stop \in 0..Capacity, NEW at \in [1..Len(reserved) -> Offsets], QueueCore(stop, at),
           NEW k \in Nat, k = Len(performed) + 1, cells[consumer_barrier] = Ready
    PROVE  /\ k \in Window /\ First(at, k) = consumer_barrier /\ Published(at, k)
           /\ memory[consumer_barrier] = reserved[k] /\ consumer_barrier \in Bytes(at, k)
<1>1. /\ TypeOK /\ Core(stop) /\ Shape(stop) /\ Top \in Nat /\ consumer_barrier \in Offsets
      /\ consumer_barrier \in Nat
  BY NumberTypes DEF QueueCore, Core, TypeOK
<1>2. k \in Window
  <2>1. Top # consumer_barrier
    BY <1>1 DEF Shape
  <2> QED
    BY <2>1 DEF QueueCore, QueueTypeOK, LayoutInv, Window
<1>3. First(at, k) = consumer_barrier
  <2>1. at[k] = consumer_barrier \/ (consumer_barrier = 0 /\ First(at, k) = 0)
    BY <1>2 DEF QueueCore, LayoutInv
  <2>2. Wraps(at, k) => consumer_barrier = 0 \/ (Top < consumer_barrier /\ stop = at[k])
    BY <1>2 DEF QueueCore, LayoutInv
  <2>3. Top < consumer_barrier => consumer_barrier < stop
    BY <1>1 DEF Shape
  <2> QED
    BY <1>1, <2>1, <2>2, <2>3 DEF First
<1>4. consumer_barrier \in Bytes(at, k)
  BY <1>2, <1>3, WindowFacts DEF QueueCore
<1>5. ~Pending(at, k)
  <2> SUFFICES ASSUME NEW q \in Producers, Reserving(q), reserved[k] = Record(q), at[k] = next[q]
               PROVE  FALSE
    BY DEF Pending
  <2>1. Bytes(at, k) = Slot(q)
    BY <1>1, <1>2, PendingSlot
  <2> QED
    BY <1>1, <1>4, <2>1, SlotOwned
<1>6. Published(at, k)
  BY <1>2, <1>5 DEF QueueCore, ContentInv
<1> QED
  BY <1>2, <1>3, <1>4, <1>6 DEF Published

\* The offset at which consume() stops is an edge.
LEMMA ReturnIsEdge ==
    ASSUME NEW stop \in 0..Capacity, NEW at \in [1..Len(reserved) -> Offsets], QueueCore(stop, at),
           ConsumeReturn, c_held' # 0
    PROVE  IsEdge(at, consumer_barrier + c_held')
<1> DEFINE limit == IF c_next < consumer_barrier THEN LapEnd ELSE c_next
<1>1. /\ TypeOK /\ Core(stop) /\ Shape(stop) /\ Top \in Nat /\ consumer_barrier \in Nat
      /\ c_next \in Nat /\ c_next < Capacity /\ c_ready \in Nat /\ c_held' \in Nat
  <2>1. Core(stop)'
    BY ConsumeReturnStep DEF QueueCore
  <2> QED
    BY <2>1, NumberTypes DEF QueueCore, Core, TypeOK
<1>2. LapEnd \in Nat /\ LapEnd <= Capacity
  BY <1>1, OffsetFacts DEF LapEnd, MinOffset, TypeOK, Stable, Offsets
<1>3. /\ c_pc = "scan" /\ c_held' = MinOffset(c_ready, limit) - consumer_barrier
      /\ KnownEdge(at, c_next) /\ KnownEdge(at, c_ready)
  BY DEF ConsumeReturn, QueueCore, EdgesInv
<1>4. PICK b \in Nat : b = MinOffset(c_ready, limit) /\ b = consumer_barrier + c_held' /\ consumer_barrier < b
  <2>1. MinOffset(c_ready, limit) \in Nat
    BY <1>1, <1>2 DEF MinOffset
  <2> QED
    BY <1>1, <1>3, <2>1
<1>5. IsEdge(at, b)
  <2>1. CASE b = c_ready /\ c_ready # MAX_OFFSET
    BY <1>3, <1>4, <2>1 DEF KnownEdge
  <2>2. CASE b = c_next
    BY <1>1, <1>3, <1>4, <2>2, OffsetFacts DEF KnownEdge
  <2>3. CASE b = LapEnd /\ c_next < consumer_barrier
    <3>1. ~IsLocked(producer_barrier) /\ Top < consumer_barrier
      BY <1>1, <1>3, <2>3 DEF Core, ScanInv
    <3>2. stop = b
      BY <1>1, <1>3, <2>3, <3>1 DEF Shape
    <3>3. b \in Offsets => cells[b] = Free
      <4>1. consumer_barrier < b
        BY <1>4
      <4> QED
        BY <1>1, <3>1, <3>2, <4>1 DEF Shape
    <3> QED
      BY <3>3, FreeIsEdge
  <2> QED
    BY <1>1, <1>2, <1>4, <2>1, <2>2, <2>3, OffsetFacts DEF MinOffset
<1> QED
  BY <1>4, <1>5

\* A record starts to be popped: it is the first one, and fits what is held.
LEMMA TakesHead ==
    ASSUME NEW stop \in 0..Capacity, NEW at \in [1..Len(reserved) -> Offsets], QueueCore(stop, at),
           NEW held \in Nat, held # 0, cells[consumer_barrier] = Ready,
           IsEdge(at, consumer_barrier + held), TakeRecord(consumer_barrier)
    PROVE  /\ Window # {}
           /\ current' = reserved[Len(performed) + 1] /\ current' # Blank
           /\ First(at, Len(performed) + 1) = consumer_barrier
           /\ poped' = consumer_barrier + current'.length
           /\ current'.length <= held
<1>1. PICK k \in Nat : k = Len(performed) + 1
  BY DEF QueueCore, QueueTypeOK
<1>2. k \in Window /\ First(at, k) = consumer_barrier /\ memory[consumer_barrier] = reserved[k]
  BY <1>1, HeadRecord
<1>3. /\ reserved[k] \in Tasks /\ reserved[k].length \in Nat
      /\ First(at, k) \in Nat /\ Last(at, k) \in Nat
      /\ Last(at, k) = First(at, k) + reserved[k].length
  BY <1>2, WindowFacts DEF QueueCore
<1>4. reserved[k].by # Free
  BY <1>3 DEF Tasks
<1>5. current' = reserved[k] /\ poped' = consumer_barrier + reserved[k].length
  BY <1>2 DEF TakeRecord
<1>6. reserved[k] # Blank
  BY <1>4 DEF Blank
<1>7. reserved[k].length <= held
  BY <1>2, <1>3 DEF IsEdge
<1> QED
  BY <1>1, <1>2, <1>5, <1>6, <1>7

\* consume() returns, and pop() takes the first record of what it returned.
LEMMA PopConsumedStep ==
    ASSUME NEW stop \in 0..Capacity, NEW at \in [1..Len(reserved) -> Offsets], QueueCore(stop, at),
           PopConsumed
    PROVE  QueueCore(stop, at)' /\ UNCHANGED <<reserved, performed>>
<1>1. /\ ConsumeReturn /\ c_pc = "scan"
      /\ UNCHANGED <<producer_barrier, producerVars, historyVars, consumer_barrier>>
      /\ UNCHANGED <<pushVars, performed, reserved>>
      /\ c_pc' = IF c_held' = 0 THEN "idle" ELSE "holding"
  BY DEF PopConsumed, ConsumeReturn
<1>2. Core(stop)'
  BY <1>1, ConsumeReturnStep DEF QueueCore
<1>3. /\ QueueTypeOK' /\ PushInv' /\ OrderInv' /\ LayoutInv(stop, at)' /\ ContentInv(at)'
      /\ \A b : IsEdge(at, b)' <=> IsEdge(at, b)
  BY <1>1, <1>2, ConsumerQuiet
<1>4. poped = consumed /\ poped \in Nat /\ current = Blank
  BY <1>1 DEF QueueCore, CursorInv
<1>5. CASE c_held' = 0
  <2>1. c_pc' = "idle" /\ UNCHANGED <<poped, consumed, current>>
    BY <1>1, <1>5 DEF PopConsumed
  <2>2. EdgesInv(at)' /\ CursorInv(at)'
    BY <1>4, <2>1 DEF EdgesInv, CursorInv, Blank
  <2> QED
    BY <1>1, <1>2, <1>3, <2>2 DEF QueueCore
<1>6. CASE c_held' # 0
  <2>1. /\ c_pc' = "holding" /\ consumed' = consumer_barrier + c_held'
        /\ TakeRecord(consumer_barrier)
    BY <1>1, <1>6 DEF PopConsumed
  <2>2. PICK held \in Nat : held = c_held' /\ held # 0
    BY <1>2, <1>6 DEF Core, TypeOK
  <2>3. IsEdge(at, consumer_barrier + held)
    BY <1>1, <1>6, <2>2, ReturnIsEdge
  <2>4. cells[consumer_barrier] = Ready
    <3>1. consumer_barrier \in Nat
      BY NumberTypes DEF QueueCore, Core
    <3>2. consumer_barrier \in consumer_barrier..(consumer_barrier + held - 1)
      <4>1. held # 0
        BY <2>2
      <4> QED
        BY <3>1, <4>1
    <3>3. \A c \in Held' : cells[c] = Ready
      BY <1>1, <1>2, <2>1 DEF Core, HoldInv, historyVars
    <3> QED
      BY <1>1, <2>2, <3>2, <3>3 DEF Held
  <2>5. /\ Window # {}
        /\ current' = reserved[Len(performed) + 1] /\ current' # Blank
        /\ First(at, Len(performed) + 1) = consumer_barrier
        /\ poped' = consumer_barrier + current'.length
        /\ current'.length <= held
    BY <2>1, <2>2, <2>3, <2>4, TakesHead
  <2>6. CursorInv(at)'
    BY <1>1, <2>1, <2>2, <2>5 DEF CursorInv, Window, First, Wraps, Blank
  <2>7. EdgesInv(at)'
    <3>1. PICK b : b = consumer_barrier + held
      OBVIOUS
    <3>2. IsEdge(at, b)'
      BY <1>3, <2>3, <3>1
    <3> QED
      BY <1>1, <2>1, <2>2, <3>1, <3>2 DEF EdgesInv
  <2> QED
    BY <1>1, <1>2, <1>3, <2>6, <2>7 DEF QueueCore
<1> QED
  BY <1>5, <1>6

\* pop() takes the next record of the range it holds.
LEMMA PopBufferedStep ==
    ASSUME NEW stop \in 0..Capacity, NEW at \in [1..Len(reserved) -> Offsets], QueueCore(stop, at),
           PopBuffered
    PROVE  QueueCore(stop, at)' /\ UNCHANGED <<reserved, performed>>
<1>1. /\ current = Blank /\ poped < consumed /\ TakeRecord(poped)
      /\ UNCHANGED <<vars, pushVars, consumed, performed, reserved>>
  BY DEF PopBuffered
<1>2. consumer_barrier \in Nat /\ c_held \in Nat
  BY NumberTypes DEF QueueCore, Core
<1>3. /\ c_pc = "holding" /\ poped = consumer_barrier /\ consumed = consumer_barrier + c_held
      /\ IsEdge(at, consumer_barrier + c_held)
  <2>1. c_pc # "holding" => poped = consumed /\ poped \in Nat
    BY DEF QueueCore, CursorInv
  <2>2. c_pc = "holding"
    BY <1>1, <2>1
  <2> QED
    BY <1>1, <2>2 DEF QueueCore, CursorInv, EdgesInv
<1>4. cells[consumer_barrier] = Ready /\ c_held # 0
  <2>1. c_held > 0 /\ \A c \in consumer_barrier..(consumer_barrier + c_held - 1) : cells[c] = Ready
    BY <1>3 DEF QueueCore, Core, HoldInv, Held
  <2> QED
    BY <1>2, <2>1
<1>5. /\ Window # {}
      /\ current' = reserved[Len(performed) + 1] /\ current' # Blank
      /\ First(at, Len(performed) + 1) = consumer_barrier
      /\ poped' = consumer_barrier + current'.length
      /\ current'.length <= c_held
  BY <1>1, <1>2, <1>3, <1>4, TakesHead
<1>6. /\ UNCHANGED <<producer_barrier, end, producerVars, consumerVars, historyVars>>
      /\ UNCHANGED <<consumer_barrier, c_pc, c_next, c_ready, c_held>>
  BY <1>1 DEF vars, consumerVars
<1>7. Core(stop)'
  BY <1>6 DEF QueueCore, Core, producerVars, consumerVars, historyVars, TypeOK, ProducersInv, OwnersInv,
     Shape, ScanInv, HoldInv, Top, LapEnd, Wrapping, Reserving, Slot, Start, Held
<1>8. /\ QueueTypeOK' /\ PushInv' /\ OrderInv' /\ LayoutInv(stop, at)' /\ ContentInv(at)'
      /\ \A b : (IsEdge(at, b)' <=> IsEdge(at, b)) /\ (KnownEdge(at, b)' <=> KnownEdge(at, b))
  BY <1>1, <1>6, <1>7, ConsumerQuiet
<1>9. EdgesInv(at)'
  BY <1>6, <1>8 DEF QueueCore, EdgesInv
<1>10. CursorInv(at)'
  BY <1>1, <1>3, <1>5, <1>6 DEF CursorInv, Window, First, Wraps, Blank
<1> QED
  BY <1>1, <1>7, <1>8, <1>9, <1>10 DEF QueueCore

\* The consumer gives the first record back: the next one is the first, or the
\* consumer has caught up with the barrier.
LEMMA PerformLayout ==
    ASSUME NEW stop \in 0..Capacity, NEW at \in [1..Len(reserved) -> Offsets], QueueCore(stop, at),
           NEW k \in Nat, k = Len(performed) + 1, k \in Window, NEW len \in Nat,
           First(at, k) = consumer_barrier, Last(at, k) = consumer_barrier + len, len > 0,
           UNCHANGED <<Top, reserved>>, Len(performed') = k,
           consumer_barrier' = Follows(consumer_barrier + len)
    PROVE  /\ LayoutInv(stop, at)'
           /\ Window' = Window \ {k}
           /\ \A i : /\ First(at, i)' = First(at, i) /\ Last(at, i)' = Last(at, i)
                     /\ Bytes(at, i)' = Bytes(at, i)
<1>1. /\ TypeOK /\ Shape(stop) /\ Top \in Nat /\ consumer_barrier \in Nat /\ consumer_barrier < Capacity
      /\ Len(reserved) \in Nat
  BY NumberTypes DEF QueueCore, Core, QueueTypeOK
<1>2. \A i : /\ First(at, i)' = First(at, i) /\ Last(at, i)' = Last(at, i)
             /\ Bytes(at, i)' = Bytes(at, i) /\ (Wraps(at, i)' <=> Wraps(at, i))
  BY DEF First, Last, Bytes, Wraps
<1>3. Window' = Window \ {k} /\ k <= Len(reserved) /\ reserved' = reserved
  BY <1>1 DEF Window
<1>4. /\ Last(at, k) <= Capacity
      /\ k = Len(reserved) => Top = consumer_barrier'
      /\ k + 1 \in Window => at[k + 1] = consumer_barrier'
  BY DEF QueueCore, LayoutInv
<1>5. Window' = {} => Top' = consumer_barrier'
  BY <1>1, <1>3, <1>4 DEF Window
<1>6. ASSUME NEW i \in Window, i # k, Wraps(at, i)
      PROVE  Top < consumer_barrier' /\ stop = at[i]
  <2>1. Top < consumer_barrier /\ stop = at[i] /\ at[i] < Capacity
    BY <1>6, WindowFacts DEF QueueCore, LayoutInv
  <2>2. consumer_barrier + len # Capacity
    <3> SUFFICES ASSUME consumer_barrier + len = Capacity PROVE FALSE
      OBVIOUS
    <3>1. PICK c \in Nat : c = Capacity - 1 /\ c \in Offsets
      BY DEF Offsets
    <3>2. c \in Bytes(at, k)
      BY <1>1, <3>1 DEF Bytes
    <3>3. cells[c] # Free
      BY <3>2, BytesInUse
    <3> QED
      BY <1>1, <2>1, <3>1, <3>3 DEF Shape
  <2> QED
    BY <1>1, <2>1, <2>2 DEF Follows
<1>7. ASSUME NEW i \in Window, i # k
      PROVE  /\ Last(at, i) <= Capacity
             /\ i = k + 1 => at[i] = consumer_barrier'
             /\ i = Len(reserved) => Top = Follows(Last(at, i))
             /\ i + 1 \in Window /\ i + 1 # k => at[i + 1] = Follows(Last(at, i))
  BY <1>4, <1>7 DEF QueueCore, LayoutInv
<1>8. \A i, j \in Window : i # j => Bytes(at, i) \cap Bytes(at, j) = {}
  BY DEF QueueCore, LayoutInv
<1> QED
  BY <1>2, <1>3, <1>5, <1>6, <1>7, <1>8 DEF LayoutInv, Follows

\* The fiber of the popped record gives it back.
LEMMA DoPerformStep ==
    ASSUME NEW stop \in 0..Capacity, NEW at \in [1..Len(reserved) -> Offsets], QueueCore(stop, at),
           DoPerform
    PROVE  /\ QueueCore(stop, at)' /\ UNCHANGED reserved
           /\ Window # {} /\ performed' = Append(performed, reserved[Len(performed) + 1])
           /\ \E bytes \in 1..c_held : Release(bytes)
<1>1. PICK k \in Nat : k = Len(performed) + 1
  BY DEF QueueCore, QueueTypeOK
<1>2. /\ Window # {} /\ current = reserved[k] /\ First(at, k) = consumer_barrier
      /\ poped = consumer_barrier + current.length /\ current.length <= c_held
  BY <1>1 DEF DoPerform, QueueCore, CursorInv
<1>3. k \in Window
  BY <1>1, <1>2 DEF Window, QueueCore, QueueTypeOK
<1>4. PICK len \in 1..Capacity : len = current.length
  BY <1>2, <1>3, WindowFacts DEF QueueCore
<1>5. /\ reserved[k] \in Tasks /\ Last(at, k) = consumer_barrier + len
      /\ performed \in Seq(Tasks) /\ Len(performed) \in Nat
  BY <1>2, <1>3, <1>4, WindowFacts DEF QueueCore, QueueTypeOK
<1>6. /\ Release(len) /\ c_pc = "holding" /\ c_held' = c_held - len
      /\ c_pc' = IF c_held' = 0 THEN "idle" ELSE "holding"
      /\ consumer_barrier' = Follows(consumer_barrier + len)
      /\ \A c \in Offsets : cells'[c] =
            IF c \in consumer_barrier..(consumer_barrier + len - 1) THEN Free ELSE cells[c]
      /\ UNCHANGED <<producer_barrier, producerVars, pushVars, poped, consumed, reserved>>
      /\ performed' = Append(performed, reserved[k]) /\ current' = Blank
  BY <1>2, <1>4 DEF DoPerform, Release, Follows
<1>7. /\ consumer_barrier \in Nat /\ consumer_barrier < Capacity /\ c_held \in Nat /\ len \in Nat
      /\ len >= 1 /\ len <= c_held /\ consumer_barrier + c_held <= Capacity
      /\ consumed = consumer_barrier + c_held /\ poped = consumer_barrier + len
  <2>1. consumed = consumer_barrier + c_held
    BY <1>6 DEF QueueCore, CursorInv
  <2>2. consumer_barrier + c_held <= Capacity
    BY <1>6 DEF QueueCore, Core, HoldInv
  <2>3. consumer_barrier \in Nat /\ consumer_barrier < Capacity /\ c_held \in Nat
    BY NumberTypes DEF QueueCore, Core
  <2> QED
    BY <1>2, <1>4, <2>1, <2>2, <2>3
<1>8. Core(stop)'
  BY <1>6, <1>7, ReleaseStep DEF QueueCore
<1>9. Len(performed') = k /\ performed' \in Seq(Tasks) /\ Top' = Top
  BY <1>1, <1>5, <1>6 DEF Top
<1>10. /\ LayoutInv(stop, at)'
       /\ Window' = Window \ {k}
       /\ \A i : /\ First(at, i)' = First(at, i) /\ Last(at, i)' = Last(at, i)
                 /\ Bytes(at, i)' = Bytes(at, i)
  <2>1. len > 0
    BY <1>4
  <2> QED
    BY <1>1, <1>2, <1>3, <1>5, <1>6, <1>7, <1>9, <2>1, PerformLayout
<1>11. ContentInv(at)'
  <2> SUFFICES ASSUME NEW i \in Window, i # k PROVE Pending(at, i)' \/ Published(at, i)'
    BY <1>10 DEF ContentInv
  <2>1. CASE Pending(at, i)
    BY <1>6, <2>1 DEF Pending, Reserving, Record, producerVars, pushVars
  <2>2. CASE Published(at, i)
    <3>1. Bytes(at, k) = consumer_barrier..(consumer_barrier + len - 1)
      BY <1>2, <1>5, <1>7 DEF Bytes
    <3>2. \A c \in Bytes(at, i) : c \in Offsets /\ c \notin Bytes(at, k)
      BY <1>3, BytesInUse DEF QueueCore, LayoutInv
    <3>3. \A c \in Bytes(at, i) : cells'[c] = Ready /\ memory'[c] = reserved'[i]
      BY <1>6, <2>2, <3>1, <3>2 DEF Published, pushVars
    <3> QED
      BY <1>10, <3>3 DEF Published
  <2> QED
    BY <2>1, <2>2 DEF QueueCore, ContentInv
<1>12. EdgesInv(at)' /\ CursorInv(at)'
  <2>1. c_held' # 0 => consumer_barrier' = consumer_barrier + len
    BY <1>6, <1>7 DEF Follows
  <2>2. c_held' # 0 => consumer_barrier' + c_held' = consumer_barrier + c_held
    BY <1>6, <1>7, <2>1
  <2>3. IsEdge(at, consumer_barrier + c_held)
    BY <1>6 DEF QueueCore, EdgesInv
  <2>4. PICK b : b = consumer_barrier + c_held
    OBVIOUS
  <2>5. IsEdge(at, b)'
    BY <1>10, <2>3, <2>4 DEF IsEdge
  <2>6. EdgesInv(at)'
    BY <1>6, <2>2, <2>4, <2>5 DEF EdgesInv
  <2>7. CursorInv(at)'
    BY <1>6, <1>7, <2>1, <2>2 DEF CursorInv, Blank
  <2> QED
    BY <2>6, <2>7
<1>13. QueueTypeOK'
  <2>1. Len(performed') <= Len(reserved')
    BY <1>3, <1>6, <1>9 DEF Window, QueueCore, QueueTypeOK
  <2> QED
    BY <1>6, <1>9, <2>1 DEF QueueCore, QueueTypeOK, pushVars
<1>14. OrderInv'
  <2>1. \A i \in 1..Len(performed') : performed'[i] = reserved[i]
    BY <1>1, <1>5, <1>6, <1>9 DEF QueueCore, OrderInv
  <2> QED
    BY <1>6, <2>1 DEF QueueCore, OrderInv, pushVars, producerVars, Reserving
<1>15. PushInv'
  BY <1>6 DEF QueueCore, PushInv, pushVars, producerVars, Slot, Start, Record
<1> QED
  BY <1>1, <1>2, <1>6, <1>7, <1>8, <1>10, <1>11, <1>12, <1>13, <1>14, <1>15 DEF QueueCore

-----------------------------------------------------------------------------
LEMMA InitQueueCore ==
    ASSUME QueueInit
    PROVE  \E stop \in 0..Capacity, at \in [1..Len(reserved) -> Offsets] : QueueCore(stop, at)
<1>1. Core(0) /\ 0 \in 0..Capacity
  BY InitCore DEF QueueInit
<1>2. /\ reserved = <<>> /\ performed = <<>> /\ Len(reserved) = 0 /\ Len(performed) = 0
      /\ Window = {} /\ c_pc = "idle" /\ c_held = 0 /\ consumer_barrier = 0 /\ producer_barrier = 0
      /\ pc = [p \in Producers |-> "new"] /\ pushing = {} /\ filled = {}
      /\ pushes = [p \in Producers |-> 0] /\ poped = 0 /\ consumed = 0 /\ current = Blank
  BY DEF QueueInit, Init, Window
<1>3. PICK at : at = [i \in 1..Len(reserved) |-> 0]
  OBVIOUS
<1>4. at \in [1..Len(reserved) -> Offsets]
  BY <1>2, <1>3
<1>5. Top = 0
  BY <1>2, OffsetFacts DEF Top
<1>6. LayoutInv(0, at) /\ ContentInv(at) /\ EdgesInv(at) /\ CursorInv(at)
  BY <1>2, <1>5 DEF LayoutInv, ContentInv, EdgesInv, IsEdge, CursorInv
<1>7. QueueTypeOK /\ PushInv /\ OrderInv
  BY <1>2 DEF QueueTypeOK, PushInv, OrderInv, Reserving
<1> QED
  BY <1>1, <1>4, <1>6, <1>7 DEF QueueCore

\* A stale swap is never forgotten; without one, no step is a stale swap.
LEMMA QueueStaleSwapsStay ==
    ASSUME [QueueNext]_queueVars, stale_cas' = {}
    PROVE  stale_cas = {} /\ \A p \in Producers : PushSwap(p) => p \notin stale
<1> USE DEF historyVars, vars
<1>1. CASE UNCHANGED queueVars
  BY <1>1 DEF queueVars, PushSwap, Swap
<1>2. ASSUME NEW p \in Producers,
             \/ GetWriter(p) \/ (\E s \in Sizes : PushCall(p, s)) \/ PushStep(p) \/ DropWriter(p)
      PROVE  stale_cas \subseteq stale_cas'
  BY <1>2 DEF GetWriter, PushCall, PushStep, DropWriter, PushRetry, PushSwap, PushAcquire, PushWrite,
     PushProduce, Register, Unregister, AcquireCall, LoadNext, LockSeen, CheckRoom, Swap, SwapFails,
     UnlockSeen, SetEnd, UnlockNext, Produce
<1>3. ASSUME PopStep PROVE stale_cas' = stale_cas
  <2>1. CASE PopBuffered
    BY <2>1 DEF PopBuffered
  <2>2. CASE PopConsume
    BY <2>2 DEF PopConsume, ConsumeLoadNext, ScanWorker, ConsumeWrap, ConsumeRewind
  <2>3. CASE PopConsumed
    BY <2>3 DEF PopConsumed, ConsumeReturn
  <2>4. CASE DoPerform
    BY <2>4 DEF DoPerform, Release
  <2> QED
    BY <1>3, <2>1, <2>2, <2>3, <2>4 DEF PopStep
<1>4. stale_cas = {}
  BY <1>1, <1>2, <1>3 DEF QueueNext
<1>5. ASSUME NEW p \in Producers, PushSwap(p) PROVE p \notin stale
  BY <1>5 DEF PushSwap, Swap
<1> QED
  BY <1>4, <1>5

\* Every step but a stale swap keeps the invariant.  The records that were
\* reserved and performed change only when one is reserved or performed.
LEMMA QueueStep ==
    ASSUME NEW stop \in 0..Capacity, NEW at \in [1..Len(reserved) -> Offsets], QueueCore(stop, at),
           [QueueNext]_queueVars, stale_cas' = {}
    PROVE  /\ \E s \in 0..Capacity, a \in [1..Len(reserved') -> Offsets] : QueueCore(s, a)'
           /\ \/ UNCHANGED <<reserved, performed>>
              \/ \E p \in Producers : PushSwap(p)
              \/ DoPerform
<1> DEFINE Goal == /\ \E s \in 0..Capacity, a \in [1..Len(reserved') -> Offsets] : QueueCore(s, a)'
                   /\ \/ UNCHANGED <<reserved, performed>>
                      \/ \E p \in Producers : PushSwap(p)
                      \/ DoPerform
<1>1. ASSUME QueueCore(stop, at)', UNCHANGED reserved, UNCHANGED performed \/ DoPerform PROVE Goal
  BY <1>1
<1>2. ASSUME NEW p \in Producers,
             \/ GetWriter(p) \/ (\E s \in Sizes : PushCall(p, s)) \/ PushStep(p) \/ DropWriter(p)
      PROVE  Goal
  <2>1. CASE \/ GetWriter(p) \/ (\E s \in Sizes : PushCall(p, s)) \/ PushRetry(p)
             \/ PushAcquire(p) \/ DropWriter(p)
    BY <1>1, <2>1, PushQuietStep
  <2>2. CASE PushSwap(p)
    BY <2>2, QueueStaleSwapsStay, PushSwapStep
  <2>3. CASE PushWrite(p)
    BY <1>1, <2>3, PushWriteStep
  <2>4. CASE PushProduce(p)
    BY <1>1, <2>4, PushProduceStep
  <2> QED
    BY <1>2, <2>1, <2>2, <2>3, <2>4 DEF PushStep
<1>3. CASE PopBuffered
  BY <1>1, <1>3, PopBufferedStep
<1>4. CASE PopConsume
  BY <1>1, <1>4, PopLooksStep, PopRewindStep DEF PopConsume
<1>5. CASE PopConsumed
  BY <1>1, <1>5, PopConsumedStep
<1>6. CASE DoPerform
  BY <1>1, <1>6, DoPerformStep
<1>7. CASE UNCHANGED queueVars
  <2>1. UNCHANGED <<vars, pushVars, popVars, reserved>>
    BY <1>7 DEF queueVars
  <2>2. /\ UNCHANGED <<producer_barrier, end, producerVars, consumerVars, historyVars>>
        /\ UNCHANGED <<consumer_barrier, c_pc, c_next, c_ready, c_held>>
        /\ UNCHANGED <<pushVars, performed, reserved>>
    BY <2>1 DEF vars, consumerVars, popVars
  <2>3. Core(stop)'
    BY <2>2 DEF QueueCore, Core, producerVars, consumerVars, historyVars, TypeOK, ProducersInv,
       OwnersInv, Shape, ScanInv, HoldInv, Top, LapEnd, Wrapping, Reserving, Slot, Start, Held
  <2>4. /\ QueueTypeOK' /\ PushInv' /\ OrderInv' /\ LayoutInv(stop, at)' /\ ContentInv(at)'
        /\ \A b : (IsEdge(at, b)' <=> IsEdge(at, b)) /\ (KnownEdge(at, b)' <=> KnownEdge(at, b))
    BY <2>2, <2>3, ConsumerQuiet
  <2>5. EdgesInv(at)' /\ CursorInv(at)'
    BY <2>1, <2>2, <2>4 DEF QueueCore, EdgesInv, CursorInv, popVars, Window, First, Wraps, Blank
  <2> QED
    BY <1>1, <2>2, <2>3, <2>4, <2>5 DEF QueueCore
<1> QED
  BY <1>2, <1>3, <1>4, <1>5, <1>6, <1>7 DEF QueueNext, PopStep

\* Until a stale swap happens QueueInv holds, for any number of threads that
\* post any number of tasks, any buffer and any record sizes.
THEOREM QueueInvariant == QueueSpec => []QueueInv
<1>1. QueueInit => QueueInv
  BY InitQueueCore DEF QueueInv
<1>2. QueueInv /\ [QueueNext]_queueVars => QueueInv'
  <2> SUFFICES ASSUME QueueInv, [QueueNext]_queueVars, stale_cas' = {}
               PROVE  \E s \in 0..Capacity, a \in [1..Len(reserved') -> Offsets] : QueueCore(s, a)'
    BY DEF QueueInv, NoStaleSwap
  <2>1. PICK stop \in 0..Capacity, at \in [1..Len(reserved) -> Offsets] : QueueCore(stop, at)
    BY QueueStaleSwapsStay DEF QueueInv, NoStaleSwap
  <2> QED
    BY <2>1, QueueStep
<1> QED
  BY <1>1, <1>2, PTL DEF QueueSpec

\* pop()'s cursor and the ring agree, and nobody writes over a record between
\* pop() and the deallocator of its task.
THEOREM RecordsSafety == QueueSpec => []RecordsInv
<1>1. QueueInv => RecordsInv
  <2> SUFFICES ASSUME QueueInv, NoStaleSwap PROVE RecordsInv
    BY DEF RecordsInv, CursorsAgree, PoppedRecordIsIntact
  <2>1. PICK stop \in 0..Capacity, at \in [1..Len(reserved) -> Offsets] : QueueCore(stop, at)
    BY DEF QueueInv
  <2>2. consumer_barrier \in Nat /\ c_held \in Nat
    BY <2>1, NumberTypes DEF QueueCore, Core
  <2>3. CursorsAgree
    BY <2>1, <2>2 DEF CursorsAgree, QueueCore, CursorInv, Blank
  <2>4. PoppedRecordIsIntact
    <3> SUFFICES ASSUME current # Blank,
                        NEW c \in consumer_barrier..(consumer_barrier + current.length - 1)
                 PROVE  memory[c] = current
      BY DEF PoppedRecordIsIntact
    <3>1. PICK k \in Nat : k = Len(performed) + 1
      BY <2>1 DEF QueueCore, QueueTypeOK
    <3>2. /\ Window # {} /\ current = reserved[k] /\ First(at, k) = consumer_barrier
          /\ current.length <= c_held /\ c_pc = "holding"
      BY <2>1, <3>1 DEF QueueCore, CursorInv
    <3>3. k \in Window
      BY <2>1, <3>1, <3>2 DEF Window, QueueCore, QueueTypeOK
    <3>4. reserved[k].length \in 1..Capacity /\ Last(at, k) = consumer_barrier + reserved[k].length
      BY <2>1, <3>2, <3>3, WindowFacts DEF QueueCore
    <3>5. cells[consumer_barrier] = Ready
      <4>1. c_held > 0 /\ \A b \in Held : cells[b] = Ready
        BY <2>1, <3>2 DEF QueueCore, Core, HoldInv
      <4>2. consumer_barrier \in Held
        BY <2>2, <4>1 DEF Held
      <4> QED
        BY <4>1, <4>2
    <3>6. Published(at, k)
      BY <2>1, <3>1, <3>5, HeadRecord
    <3>7. c \in Bytes(at, k)
      BY <2>2, <3>2, <3>4 DEF Bytes
    <3> QED
      BY <3>2, <3>6, <3>7 DEF Published
  <2> QED
    BY <2>3, <2>4 DEF RecordsInv
<1> QED
  BY <1>1, QueueInvariant, PTL

-----------------------------------------------------------------------------
\* What waits in the queue, as the abstract specification sees it.
Waiting == SubSeq(reserved, Len(performed) + 1, Len(reserved))

\* A sequence without its first entries.
LEMMA RestProperties ==
    ASSUME NEW r \in Seq(Tasks), NEW n \in Nat, n <= Len(r)
    PROVE  /\ SubSeq(r, n + 1, Len(r)) \in Seq(Tasks)
           /\ Len(SubSeq(r, n + 1, Len(r))) = Len(r) - n
           /\ \A i \in 1..(Len(r) - n) : SubSeq(r, n + 1, Len(r))[i] = r[n + i]
<1>1. Len(r) \in Nat /\ \A i \in (n + 1)..Len(r) : r[i] \in Tasks
  OBVIOUS
<1> QED
  BY <1>1, SubSeqProperties

\* Reserving a record puts a task that was never posted behind the others.
LEMMA SwapAccepts ==
    ASSUME NEW stop, NEW at, QueueCore(stop, at), QueueTypeOK', NEW p \in Producers, PushSwap(p)
    PROVE  Record(p) \in Tasks /\ Fifo!Accept(Record(p))
<1>1. /\ Swap(p) /\ reserved' = Append(reserved, Record(p)) /\ performed' = performed
      /\ QueueTypeOK
  BY DEF PushSwap, popVars, QueueCore
<1>2. Record(p) \in Tasks /\ \A i \in 1..Len(reserved) : reserved[i] # Record(p)
  BY <1>1, SwapReservesNew
<1>3. /\ reserved \in Seq(Tasks) /\ performed \in Seq(Tasks) /\ Len(performed) <= Len(reserved)
      /\ Len(reserved) \in Nat /\ Len(performed) \in Nat
      /\ Len(reserved') = Len(reserved) + 1 /\ reserved'[Len(reserved) + 1] = Record(p)
      /\ \A i \in 1..Len(reserved) : reserved'[i] = reserved[i]
  BY <1>1, <1>2, AppendProperties DEF QueueTypeOK
<1>4. /\ Waiting \in Seq(Tasks) /\ Len(Waiting) = Len(reserved) - Len(performed)
      /\ \A i \in 1..Len(Waiting) : Waiting[i] = reserved[Len(performed) + i]
  BY <1>3, RestProperties DEF Waiting
<1>5. /\ Waiting' \in Seq(Tasks) /\ Len(Waiting') = Len(Waiting) + 1
      /\ \A i \in 1..Len(Waiting') : Waiting'[i] = reserved'[Len(performed) + i]
  <2>1. reserved' \in Seq(Tasks) /\ Len(performed) <= Len(reserved')
    BY <1>3 DEF QueueTypeOK
  <2> QED
    BY <1>1, <1>3, <1>4, <2>1, RestProperties DEF Waiting
<1>6. Waiting' = Append(Waiting, Record(p))
  <2>1. /\ Append(Waiting, Record(p)) \in Seq(Tasks)
        /\ Len(Append(Waiting, Record(p))) = Len(Waiting) + 1
        /\ \A i \in 1..Len(Waiting) : Append(Waiting, Record(p))[i] = Waiting[i]
        /\ Append(Waiting, Record(p))[Len(Waiting) + 1] = Record(p)
    BY <1>2, <1>4, AppendProperties
  <2>2. Len(Waiting) \in Nat
    BY <1>4
  <2>3. ASSUME NEW i \in 1..Len(Waiting') PROVE Waiting'[i] = Append(Waiting, Record(p))[i]
    <3>1. Waiting'[i] = reserved'[Len(performed) + i]
      BY <1>5
    <3>2. CASE i \in 1..Len(Waiting)
      <4>1. Len(performed) + i \in 1..Len(reserved)
        BY <1>3, <1>4, <3>2
      <4> QED
        BY <1>3, <1>4, <2>1, <3>1, <3>2, <4>1
    <3>3. CASE i = Len(Waiting) + 1
      <4>1. Len(performed) + i = Len(reserved) + 1
        BY <1>3, <1>4, <3>3
      <4> QED
        BY <1>3, <2>1, <3>1, <3>3, <4>1
    <3> QED
      BY <1>5, <2>2, <3>2, <3>3
  <2> QED
    BY <1>5, <2>1, <2>3, SeqEqual
<1>7. ~Fifo!Accepted(Record(p))
  <2> SUFFICES ASSUME NEW i \in 1..Len(Waiting \o performed)
               PROVE  (Waiting \o performed)[i] # Record(p)
    BY DEF Fifo!Accepted, Waiting
  <2>1. /\ Len(Waiting \o performed) = Len(Waiting) + Len(performed)
        /\ (Waiting \o performed)[i] = IF i <= Len(Waiting) THEN Waiting[i] ELSE performed[i - Len(Waiting)]
    BY <1>3, <1>4, ConcatProperties
  <2>2. CASE i <= Len(Waiting)
    <3>1. i \in 1..Len(Waiting) /\ Len(performed) + i \in 1..Len(reserved)
      BY <1>3, <1>4, <2>1, <2>2
    <3>2. (Waiting \o performed)[i] = reserved[Len(performed) + i]
      BY <1>4, <2>1, <2>2, <3>1
    <3> QED
      BY <1>2, <3>1, <3>2
  <2>3. CASE ~(i <= Len(Waiting))
    <3>1. i - Len(Waiting) \in 1..Len(performed)
      BY <1>3, <1>4, <2>1, <2>3
    <3>2. performed[i - Len(Waiting)] = reserved[i - Len(Waiting)]
      BY <3>1 DEF QueueCore, OrderInv
    <3> QED
      BY <1>2, <1>3, <2>1, <2>3, <3>1, <3>2
  <2> QED
    BY <2>2, <2>3
<1> QED
  BY <1>1, <1>2, <1>6, <1>7 DEF Fifo!Accept, Waiting

\* Performing a task takes the first one that waits.
LEMMA PerformTakesFirst ==
    ASSUME QueueTypeOK, Window # {}, UNCHANGED reserved,
           performed' = Append(performed, reserved[Len(performed) + 1])
    PROVE  Fifo!Perform
<1>1. /\ reserved \in Seq(Tasks) /\ performed \in Seq(Tasks)
      /\ Len(reserved) \in Nat /\ Len(performed) \in Nat
      /\ Len(performed) + 1 \in 1..Len(reserved)
      /\ Len(reserved) \in (Len(performed) + 1)..Len(reserved)
  BY DEF QueueTypeOK, Window
<1>2. /\ Head(Waiting) = reserved[Len(performed) + 1]
      /\ Tail(Waiting) = SubSeq(reserved, Len(performed) + 2, Len(reserved))
  BY <1>1, HeadTailOfSubSeq DEF Waiting
<1>3. Len(performed') = Len(performed) + 1
  BY <1>1
<1>4. Waiting' = Tail(Waiting)
  <2>1. Len(performed') + 1 = Len(performed) + 2
    BY <1>1, <1>3
  <2>2. Waiting' = SubSeq(reserved, Len(performed) + 2, Len(reserved))
    BY <2>1 DEF Waiting
  <2> QED
    BY <1>2, <2>2
<1>5. Waiting # <<>>
  <2>1. Len(Waiting) = Len(reserved) - Len(performed)
    BY <1>1, RestProperties DEF Waiting
  <2>2. Len(Waiting) # 0
    BY <1>1, <2>1
  <2> QED
    BY <2>2
<1> QED
  BY <1>2, <1>4, <1>5 DEF Fifo!Perform, Waiting

\* The tasks are performed in the order in which they were posted, each of
\* them once: the queue implements TaskFifo until a stale swap happens.
THEOREM FifoRefinement == QueueSpec => ImplementsFifo
<1>1. QueueInit => Fifo!FifoInit
  BY SubSeqEmpty DEF QueueInit, Fifo!FifoInit
<1>2. QueueInv /\ [QueueNext]_queueVars => [NoStaleSwap' => [Fifo!FifoNext]_(Fifo!fifoVars)]_queueVars
  <2> SUFFICES ASSUME QueueInv, [QueueNext]_queueVars, stale_cas' = {}
               PROVE  [Fifo!FifoNext]_(Fifo!fifoVars)
    BY DEF NoStaleSwap
  <2>1. PICK stop \in 0..Capacity, at \in [1..Len(reserved) -> Offsets] : QueueCore(stop, at)
    BY QueueStaleSwapsStay DEF QueueInv, NoStaleSwap
  <2>2. QueueTypeOK /\ QueueTypeOK'
    BY <2>1, QueueStep DEF QueueCore
  <2>3. CASE UNCHANGED <<reserved, performed>>
    BY <2>3 DEF Fifo!fifoVars
  <2>4. ASSUME NEW p \in Producers, PushSwap(p) PROVE Fifo!FifoNext
    BY <2>1, <2>2, <2>4, SwapAccepts DEF Fifo!FifoNext
  <2>5. CASE DoPerform
    BY <2>1, <2>2, <2>5, DoPerformStep, PerformTakesFirst DEF Fifo!FifoNext
  <2> QED
    BY <2>1, <2>3, <2>4, <2>5, QueueStep
<1> QED
  BY <1>1, <1>2, QueueInvariant, PTL DEF QueueSpec, ImplementsFifo

\* With a single posting thread no offset is ever stale, and the queue is a
\* FIFO without reservation.
THEOREM OneThreadFifo ==
    ASSUME NEW only, Producers = {only}
    PROVE  QueueSpec => Fifo!FifoSpec
<1> DEFINE Fresh == stale = {} /\ stale_cas = {}
<1>1. QueueInit => Fresh
  BY DEF QueueInit, Init
<1>2. Fresh /\ [QueueNext]_queueVars => Fresh'
  <2> SUFFICES ASSUME Fresh, [QueueNext]_queueVars PROVE Fresh'
    OBVIOUS
  <2> USE DEF historyVars, vars
  <2>1. CASE UNCHANGED queueVars
    BY <2>1 DEF queueVars
  <2>2. ASSUME NEW p \in Producers,
               \/ GetWriter(p) \/ (\E s \in Sizes : PushCall(p, s)) \/ PushStep(p) \/ DropWriter(p)
        PROVE  Fresh'
    <3>1. CASE PushSwap(p)
      BY <3>1 DEF PushSwap, Swap
    <3>2. CASE PushAcquire(p)
      BY <3>2 DEF PushAcquire, LoadNext, LockSeen, CheckRoom, SwapFails, UnlockSeen, SetEnd, UnlockNext
    <3> QED
      BY <2>2, <3>1, <3>2 DEF GetWriter, PushCall, PushStep, DropWriter, PushRetry, PushWrite,
         PushProduce, Register, Unregister, AcquireCall, Produce
  <2>3. CASE PopBuffered
    BY <2>3 DEF PopBuffered
  <2>4. CASE PopConsume
    BY <2>4 DEF PopConsume, ConsumeLoadNext, ScanWorker, ConsumeWrap, ConsumeRewind
  <2>5. CASE PopConsumed
    BY <2>5 DEF PopConsumed, ConsumeReturn
  <2>6. CASE DoPerform
    BY <2>6 DEF DoPerform, Release
  <2> QED
    BY <2>1, <2>2, <2>3, <2>4, <2>5, <2>6 DEF QueueNext, PopStep
<1>3. Fresh' => NoStaleSwap'
  BY DEF NoStaleSwap
<1>4. [NoStaleSwap' => [Fifo!FifoNext]_(Fifo!fifoVars)]_queueVars /\ NoStaleSwap'
      => [Fifo!FifoNext]_(Fifo!fifoVars)
  BY DEF queueVars, popVars, Fifo!fifoVars
<1> QED
  BY <1>1, <1>2, <1>3, <1>4, FifoRefinement, PTL DEF QueueSpec, ImplementsFifo, Fifo!FifoSpec
=============================================================================
