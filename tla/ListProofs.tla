----------------------------- MODULE ListProofs -----------------------------
(***************************************************************************)
(* The lock-free lists, for any threads, any size of the chunks and any    *)
(* number of nodes and values.                                             *)
(*                                                                         *)
(* The allocator: the free list stays a list, and no node is lost,         *)
(* whatever the lists above do with the nodes that are out.  `list' is the *)
(* free list, from its tail to its head: a sequence that exists and is not *)
(* computed.  There is one lemma per step, which says what the step makes  *)
(* of it; ObjectPool and ListQueue take the same steps.                    *)
(*                                                                         *)
(* ListQueue: `q' are the nodes of the queue, from the dummy to the last   *)
(* one, in the same way.  An instance for ObjectPool has no use for this   *)
(* part.                                                                   *)
(***************************************************************************)
EXTENDS ListQueue, FiniteSetTheorems, SequenceTheorems, TLAPS

\* A set of numbers has a least one (the induction theorems of the library need
\* an operator; well-foundedness of finite sets gives this without).
LEMMA LeastExists ==
    ASSUME NEW S \in SUBSET Nat, S # {}
    PROVE  \E x \in S : \A y \in S : x <= y
  <1> DEFINE R == StrictSubsetOrdering(Nat)
             Below == {1..x : x \in S}
  <1>1. IsWellFoundedOn(R, FiniteSubsetsOf(Nat))
    BY FS_StrictSubsetOrderingWellFounded
  <1>2. \A x \in S : 1..x \in FiniteSubsetsOf(Nat)
    BY FS_Interval DEF FiniteSubsetsOf
  <1>3. Below \subseteq FiniteSubsetsOf(Nat) /\ Below # {}
    BY <1>2
  <1>4. \A x, y \in Nat : y < x => <<1..y, 1..x>> \in R
    <2> SUFFICES ASSUME NEW x \in Nat, NEW y \in Nat, y < x PROVE <<1..y, 1..x>> \in R
      OBVIOUS
    <2>1. 1..y \subseteq 1..x /\ x \in 1..x /\ x \notin 1..y /\ 1..x \subseteq Nat
      OBVIOUS
    <2> QED BY <2>1 DEF StrictSubsetOrdering
  <1> HIDE DEF R
  <1>5. PICK b \in Below : \A c \in Below : ~(<<c, b>> \in R)
    <2> HIDE DEF Below
    <2> QED BY <1>1, <1>3, WFMin
  <1>6. PICK x \in S : b = 1..x
    BY <1>5
  <1>7. \A y \in S : ~(y < x)
    BY <1>4, <1>5, <1>6
  <1> QED BY <1>7

AllocatorSizes ==
    AllocSize \in Nat /\ AllocSize >= 2 /\ MaxNodes \in Nat /\ MaxNodes >= 2

\* A thread that has the tail, one that has a node of its own on its way into
\* or out of the free list, and one that has a link to store there.
TakesTail(t) == pc[t] \in {"alloc_look", "alloc_put"}
Holds(t) == pc[t] \in {"free", "free_give", "alloc_clear", "alloc_link"}
Appends(t) == pc[t] \in {"free_link", "alloc_link"}

\* What it will link in.
Appended(t) == IF pc[t] = "free_link" THEN node[t] ELSE node[t] + AllocSize - 1

InList(list, n) == \E k \in 1..Len(list) : list[k] = n

ListTypeOK(list) ==
    /\ AllocatorTypeOK /\ DOMAIN pc = Threads
    /\ list \in Seq(Nodes) /\ Len(list) >= 1
    /\ \A k, m \in 1..Len(list) : list[k] = list[m] => k = m

\* Where the list begins and ends: a thread that has the tail has it alone.
ListEnds(list) ==
    /\ free_head = list[Len(list)] /\ link[free_head] = Null
    /\ free_tail # Null => free_tail = list[1]
    /\ free_tail = Null => \E t \in Threads : TakesTail(t)
    /\ \A t \in Threads : TakesTail(t) => free_tail = Null /\ node[t] = list[1]
    /\ \A t, u \in Threads : TakesTail(t) /\ TakesTail(u) => t = u
    /\ \A t \in Threads : pc[t] = "alloc_put" /\ succ[t] # Null => succ[t] = link[node[t]]

\* Each node is linked to the next, or the thread that has put the next one
\* there still has to store the link.
LinksLead(list) ==
    \A k \in 1..(Len(list) - 1) :
        \/ link[list[k]] = list[k + 1]
        \/ \E t \in Threads : Appends(t) /\ succ[t] = list[k]

LinksAreDue(list) ==
    /\ \A t \in Threads : Appends(t) =>
            \E k \in 1..(Len(list) - 1) :
                succ[t] = list[k] /\ Appended(t) = list[k + 1] /\ link[list[k]] = Null
    /\ \A t, u \in Threads : Appends(t) /\ Appends(u) /\ succ[t] = succ[u] => t = u

\* Every node that was made is in the list, with one thread, or out; nodes that
\* are on their way, and those not made yet, are linked to nothing.
OnePlace(list) ==
    /\ out \subseteq 1..created
    /\ \A k \in 1..Len(list) : list[k] \in 1..created /\ list[k] \notin out
    /\ \A t \in Threads : Holds(t) =>
            node[t] \in 1..created /\ node[t] \notin out /\ ~InList(list, node[t])
    /\ \A t, u \in Threads : Holds(t) /\ Holds(u) /\ node[t] = node[u] => t = u

SomePlace(list) ==
    \A n \in 1..created :
        n \in out \/ InList(list, n) \/ \E t \in Threads : Holds(t) /\ node[t] = n

Unlinked ==
    /\ \A n \in Nodes : n > created => link[n] = Null
    /\ \A t \in Threads : pc[t] \in {"free_give", "alloc_link"} => link[node[t]] = Null

IsFreeList(list) ==
    /\ ListTypeOK(list) /\ ListEnds(list)
    /\ LinksLead(list) /\ LinksAreDue(list)
    /\ OnePlace(list) /\ SomePlace(list) /\ Unlinked

\* The types that every step needs.
ListBounds(list) ==
    /\ DOMAIN pc = Threads /\ link \in [Nodes -> Nodes \cup {Null}]
    /\ node \in [Threads -> Nodes \cup {Null}] /\ succ \in [Threads -> Nodes \cup {Null}]
    /\ free_head \in Nodes /\ free_tail \in Nodes \cup {Null} /\ created \in Nodes
    /\ 1..created \subseteq Nodes /\ Null \notin Nodes /\ created \in Nat
    /\ Len(list) \in Nat
    /\ \A k \in 1..Len(list) : list[k] \in Nodes /\ InList(list, list[k])
    /\ \A t \in Threads : Holds(t) => node[t] \in Nodes

LEMMA ListFacts ==
    ASSUME AllocatorSizes, NEW list, IsFreeList(list)
    PROVE  ListBounds(list)
  BY DEF IsFreeList, ListTypeOK, AllocatorTypeOK, OnePlace, AllocatorSizes, Nodes, Null, InList, ListBounds

\* It is never longer than there are nodes.
LEMMA ListIsShort ==
    ASSUME AllocatorSizes, NEW list, IsFreeList(list)
    PROVE  Len(list) \in Nat /\ 1 <= Len(list) /\ Len(list) <= MaxNodes
  <1>1. list \in Seq(Nodes) /\ Len(list) \in Nat /\ 1 <= Len(list) /\ MaxNodes \in Nat
    BY DEF IsFreeList, ListTypeOK, AllocatorSizes
  <1> SUFFICES ASSUME MaxNodes < Len(list) PROVE FALSE
    BY <1>1
  <1> DEFINE f == [k \in 1..Len(list) |-> list[k]]
  <1>2. f \in [1..Len(list) -> Nodes]
    BY <1>1
  <1>3. \A n \in Nat : IsFiniteSet(1..n) /\ Cardinality(1..n) = n
    BY FS_Interval
  <1>4. \E x, y \in 1..Len(list) : x # y /\ f[x] = f[y]
    <2> HIDE DEF f
    <2> QED BY <1>1, <1>2, <1>3, FS_PigeonHole DEF Nodes
  <1> QED BY <1>4 DEF IsFreeList, ListTypeOK

-----------------------------------------------------------------------------
(* The steps that leave the list as it is *)

LEMMA AllocTakeKeeps ==
    ASSUME AllocatorSizes, NEW list, IsFreeList(list), NEW t \in Threads, AllocTake(t)
    PROVE  IsFreeList(list)'
  <1>1. ListBounds(list) /\ IsFreeList(list)
    BY ListFacts
  <1>2. /\ pc[t] = "alloc" /\ pc'[t] = "alloc_look" /\ DOMAIN pc' = Threads
        /\ \A u \in Threads : u # t => pc'[u] = pc[u]
        /\ free_tail # Null /\ free_tail' = Null /\ node'[t] = free_tail
        /\ node' \in [Threads -> Nodes \cup {Null}]
        /\ \A u \in Threads : u # t => node'[u] = node[u]
        /\ UNCHANGED <<link, free_head, created, succ, out>>
    BY <1>1 DEF AllocTake, Goto, ListBounds
  <1>3. \A u \in Threads :
            /\ TakesTail(u)' <=> u = t \/ TakesTail(u)
            /\ Holds(u)' <=> Holds(u)
            /\ Holds(u) => node'[u] = node[u]
            /\ Appends(u)' <=> Appends(u)
            /\ Appends(u) => Appended(u)' = Appended(u)
            /\ u # t => pc'[u] = pc[u]
    BY <1>2 DEF TakesTail, Holds, Appends, Appended
  <1>4. ListTypeOK(list)'
    BY <1>1, <1>2 DEF IsFreeList, ListTypeOK, AllocatorTypeOK, ListBounds
  <1>5. ListEnds(list)'
    BY <1>1, <1>2, <1>3 DEF IsFreeList, ListTypeOK, ListEnds, ListBounds
  <1>6. LinksLead(list)' /\ LinksAreDue(list)'
    <2>1. /\ link' = link
          /\ \A u \in Threads : Appends(u)' <=> Appends(u)
          /\ \A u \in Threads : Appends(u) => Appended(u)' = Appended(u) /\ succ'[u] = succ[u]
      BY <1>2, <1>3
    <2>2. LinksLead(list) /\ LinksAreDue(list)
      BY <1>1 DEF IsFreeList
    <2>3. LinksLead(list)'
      BY <2>1, <2>2 DEF LinksLead
    <2>4. LinksAreDue(list)'
      BY <2>1, <2>2 DEF LinksAreDue
    <2> QED BY <2>3, <2>4
  <1>7. OnePlace(list)'
    BY <1>1, <1>2, <1>3 DEF IsFreeList, OnePlace, InList
  <1>8. SomePlace(list)'
    BY <1>1, <1>2, <1>3 DEF IsFreeList, SomePlace, InList
  <1>9. Unlinked'
    BY <1>1, <1>2, <1>3 DEF IsFreeList, Unlinked, Holds
  <1> QED BY <1>4, <1>5, <1>6, <1>7, <1>8, <1>9 DEF IsFreeList

LEMMA AllocLookKeeps ==
    ASSUME AllocatorSizes, NEW list, IsFreeList(list), NEW t \in Threads, AllocLook(t)
    PROVE  IsFreeList(list)'
  <1>1. ListBounds(list) /\ IsFreeList(list)
    BY ListFacts
  <1>2. /\ pc[t] = "alloc_look" /\ pc'[t] = "alloc_put" /\ DOMAIN pc' = Threads
        /\ \A u \in Threads : u # t => pc'[u] = pc[u]
        /\ node[t] \in Nodes /\ succ'[t] = link[node[t]]
        /\ succ' \in [Threads -> Nodes \cup {Null}]
        /\ \A u \in Threads : u # t => succ'[u] = succ[u]
        /\ UNCHANGED <<link, free_head, free_tail, created, node, out>>
    <2>1. node[t] \in Nodes
      BY <1>1 DEF AllocLook, IsFreeList, ListTypeOK, ListEnds, ListBounds, TakesTail
    <2> QED BY <1>1, <2>1 DEF AllocLook, Goto, ListBounds
  <1>3. \A u \in Threads :
            /\ TakesTail(u)' <=> TakesTail(u)
            /\ Holds(u)' <=> Holds(u)
            /\ Appends(u)' <=> Appends(u)
            /\ Appends(u) => Appended(u)' = Appended(u) /\ succ'[u] = succ[u]
            /\ u # t => pc'[u] = pc[u]
    BY <1>2 DEF TakesTail, Holds, Appends, Appended
  <1>4. ListTypeOK(list)'
    BY <1>1, <1>2 DEF IsFreeList, ListTypeOK, AllocatorTypeOK, ListBounds
  <1>5. ListEnds(list)'
    <2>1. ListEnds(list) /\ TakesTail(t)
      BY <1>1, <1>2 DEF IsFreeList, TakesTail
    <2>2. \A u \in Threads : pc'[u] = "alloc_put" /\ succ'[u] # Null => succ'[u] = link[node[u]]
      BY <1>2, <2>1 DEF ListEnds
    <2>3. \A u \in Threads : TakesTail(u)' <=> TakesTail(u)
      BY <1>3
    <2> QED BY <1>2, <2>1, <2>2, <2>3 DEF ListEnds
  <1>6. LinksLead(list)' /\ LinksAreDue(list)'
    <2>1. /\ link' = link
          /\ \A u \in Threads : Appends(u)' <=> Appends(u)
          /\ \A u \in Threads : Appends(u) => Appended(u)' = Appended(u) /\ succ'[u] = succ[u]
      BY <1>2, <1>3
    <2>2. LinksLead(list) /\ LinksAreDue(list)
      BY <1>1 DEF IsFreeList
    <2>3. LinksLead(list)'
      BY <2>1, <2>2 DEF LinksLead
    <2>4. LinksAreDue(list)'
      BY <2>1, <2>2 DEF LinksAreDue
    <2> QED BY <2>3, <2>4
  <1>7. OnePlace(list)'
    BY <1>1, <1>2, <1>3 DEF IsFreeList, OnePlace, InList
  <1>8. SomePlace(list)'
    BY <1>1, <1>2, <1>3 DEF IsFreeList, SomePlace, InList
  <1>9. Unlinked'
    BY <1>1, <1>2, <1>3 DEF IsFreeList, Unlinked, Holds
  <1> QED BY <1>4, <1>5, <1>6, <1>7, <1>8, <1>9 DEF IsFreeList

LEMMA AllocPutBackKeeps ==
    ASSUME AllocatorSizes, NEW list, IsFreeList(list), NEW t \in Threads, AllocPutBack(t)
    PROVE  IsFreeList(list)'
  <1>1. ListBounds(list) /\ IsFreeList(list)
    BY ListFacts
  <1>2. /\ pc[t] = "alloc_put" /\ pc'[t] = "alloc_grow" /\ DOMAIN pc' = Threads
        /\ \A u \in Threads : u # t => pc'[u] = pc[u]
        /\ free_tail' = list[1] /\ list[1] \in Nodes
        /\ UNCHANGED <<link, free_head, created, node, succ, out>>
    BY <1>1 DEF AllocPutBack, Goto, IsFreeList, ListTypeOK, ListEnds, ListBounds, TakesTail
  <1>3. \A u \in Threads :
            /\ TakesTail(u)' <=> u # t /\ TakesTail(u)
            /\ Holds(u)' <=> Holds(u)
            /\ Appends(u)' <=> Appends(u)
            /\ Appends(u) => Appended(u)' = Appended(u)
            /\ u # t => pc'[u] = pc[u]
    BY <1>2 DEF TakesTail, Holds, Appends, Appended
  <1>4. ListTypeOK(list)'
    BY <1>1, <1>2 DEF IsFreeList, ListTypeOK, AllocatorTypeOK, ListBounds
  <1>5. ListEnds(list)'
    BY <1>1, <1>2, <1>3 DEF IsFreeList, ListTypeOK, ListEnds, ListBounds, TakesTail
  <1>6. LinksLead(list)' /\ LinksAreDue(list)'
    <2>1. /\ link' = link
          /\ \A u \in Threads : Appends(u)' <=> Appends(u)
          /\ \A u \in Threads : Appends(u) => Appended(u)' = Appended(u) /\ succ'[u] = succ[u]
      BY <1>2, <1>3
    <2>2. LinksLead(list) /\ LinksAreDue(list)
      BY <1>1 DEF IsFreeList
    <2>3. LinksLead(list)'
      BY <2>1, <2>2 DEF LinksLead
    <2>4. LinksAreDue(list)'
      BY <2>1, <2>2 DEF LinksAreDue
    <2> QED BY <2>3, <2>4
  <1>7. OnePlace(list)'
    BY <1>1, <1>2, <1>3 DEF IsFreeList, OnePlace, InList
  <1>8. SomePlace(list)'
    BY <1>1, <1>2, <1>3 DEF IsFreeList, SomePlace, InList
  <1>9. Unlinked'
    BY <1>1, <1>2, <1>3 DEF IsFreeList, Unlinked, Holds
  <1> QED BY <1>4, <1>5, <1>6, <1>7, <1>8, <1>9 DEF IsFreeList

LEMMA AllocClearKeeps ==
    ASSUME AllocatorSizes, NEW list, IsFreeList(list), NEW t \in Threads, AllocClear(t)
    PROVE  IsFreeList(list)'
  <1>1. ListBounds(list) /\ IsFreeList(list)
    BY ListFacts
  <1>2. /\ pc[t] = "alloc_clear" /\ pc'[t] = "allocated" /\ DOMAIN pc' = Threads
        /\ \A u \in Threads : u # t => pc'[u] = pc[u]
        /\ node[t] \in Nodes /\ node[t] \in 1..created /\ ~InList(list, node[t])
        /\ link' \in [Nodes -> Nodes \cup {Null}] /\ link'[node[t]] = Null
        /\ \A n \in Nodes : n # node[t] => link'[n] = link[n]
        /\ out' = out \cup {node[t]}
        /\ UNCHANGED <<free_head, free_tail, created, node, succ>>
    <2>1. Holds(t)
      BY DEF AllocClear, Holds
    <2> QED BY <1>1, <2>1 DEF AllocClear, Goto, ListBounds, IsFreeList, OnePlace
  <1>3. \A u \in Threads :
            /\ TakesTail(u)' <=> TakesTail(u)
            /\ Holds(u)' <=> u # t /\ Holds(u)
            /\ Appends(u)' <=> Appends(u)
            /\ Appends(u) => Appended(u)' = Appended(u)
            /\ u # t => pc'[u] = pc[u]
    BY <1>2 DEF TakesTail, Holds, Appends, Appended
  <1>4. Holds(t) /\ \A k \in 1..Len(list) : list[k] \in Nodes /\ list[k] # node[t] /\ link'[list[k]] = link[list[k]]
    BY <1>1, <1>2 DEF ListBounds, InList, Holds
  <1>5. ListTypeOK(list)'
    BY <1>1, <1>2 DEF IsFreeList, ListTypeOK, AllocatorTypeOK, ListBounds
  <1>6. ListEnds(list)'
    BY <1>1, <1>2, <1>3, <1>4 DEF IsFreeList, ListTypeOK, ListEnds, ListBounds, TakesTail
  <1>7. LinksLead(list)' /\ LinksAreDue(list)'
    <2>1. LinksLead(list)'
      BY <1>1, <1>2, <1>3, <1>4 DEF IsFreeList, LinksLead, ListBounds
    <2>2. LinksAreDue(list)'
      BY <1>1, <1>2, <1>3, <1>4 DEF IsFreeList, LinksAreDue, ListBounds
    <2> QED BY <2>1, <2>2
  <1>8. OnePlace(list)'
    BY <1>1, <1>2, <1>3, <1>4 DEF IsFreeList, OnePlace, InList
  <1>9. SomePlace(list)'
    BY <1>1, <1>2, <1>3, <1>4 DEF IsFreeList, SomePlace, InList
  <1>10. Unlinked'
    <2>1. \A n \in Nodes : link[n] = Null => link'[n] = Null
      BY <1>2
    <2>2. \A u \in Threads : pc'[u] \in {"free_give", "alloc_link"} =>
            pc[u] \in {"free_give", "alloc_link"} /\ node[u] \in Nodes
      BY <1>1, <1>2, <1>3 DEF ListBounds, Holds
    <2>3. \A u \in Threads : pc[u] \in {"free_give", "alloc_link"} => link[node[u]] = Null
      BY <1>1 DEF IsFreeList, Unlinked
    <2>4. \A n \in Nodes : n > created => link[n] = Null
      BY <1>1 DEF IsFreeList, Unlinked
    <2> QED BY <1>2, <2>1, <2>2, <2>3, <2>4 DEF Unlinked
  <1> QED BY <1>5, <1>6, <1>7, <1>8, <1>9, <1>10 DEF IsFreeList

LEMMA FreeClearKeeps ==
    ASSUME AllocatorSizes, NEW list, IsFreeList(list), NEW t \in Threads, FreeClear(t)
    PROVE  IsFreeList(list)'
  <1>1. ListBounds(list) /\ IsFreeList(list)
    BY ListFacts
  <1>2. /\ pc[t] = "free" /\ pc'[t] = "free_give" /\ DOMAIN pc' = Threads
        /\ \A u \in Threads : u # t => pc'[u] = pc[u]
        /\ node[t] \in Nodes /\ node[t] \in 1..created /\ ~InList(list, node[t])
        /\ link' \in [Nodes -> Nodes \cup {Null}] /\ link'[node[t]] = Null
        /\ \A n \in Nodes : n # node[t] => link'[n] = link[n]
        /\ UNCHANGED <<free_head, free_tail, created, node, succ, out>>
    <2>1. Holds(t)
      BY DEF FreeClear, Holds
    <2> QED BY <1>1, <2>1 DEF FreeClear, Goto, ListBounds, IsFreeList, OnePlace
  <1>3. \A u \in Threads :
            /\ TakesTail(u)' <=> TakesTail(u)
            /\ Holds(u)' <=> Holds(u)
            /\ Appends(u)' <=> Appends(u)
            /\ Appends(u) => Appended(u)' = Appended(u)
            /\ u # t => pc'[u] = pc[u]
    BY <1>2 DEF TakesTail, Holds, Appends, Appended
  <1>4. \A k \in 1..Len(list) : list[k] \in Nodes /\ list[k] # node[t] /\ link'[list[k]] = link[list[k]]
    BY <1>1, <1>2 DEF ListBounds, InList
  <1>5. ListTypeOK(list)'
    BY <1>1, <1>2 DEF IsFreeList, ListTypeOK, AllocatorTypeOK, ListBounds
  <1>6. ListEnds(list)'
    BY <1>1, <1>2, <1>3, <1>4 DEF IsFreeList, ListTypeOK, ListEnds, ListBounds, TakesTail
  <1>7. LinksLead(list)' /\ LinksAreDue(list)'
    <2>1. LinksLead(list)'
      BY <1>1, <1>2, <1>3, <1>4 DEF IsFreeList, LinksLead, ListBounds
    <2>2. LinksAreDue(list)'
      BY <1>1, <1>2, <1>3, <1>4 DEF IsFreeList, LinksAreDue, ListBounds
    <2> QED BY <2>1, <2>2
  <1>8. OnePlace(list)'
    BY <1>1, <1>2, <1>3 DEF IsFreeList, OnePlace, InList
  <1>9. SomePlace(list)'
    BY <1>1, <1>2, <1>3 DEF IsFreeList, SomePlace, InList
  <1>10. Unlinked'
    BY <1>1, <1>2, <1>3 DEF IsFreeList, Unlinked, Holds, ListBounds
  <1> QED BY <1>5, <1>6, <1>7, <1>8, <1>9, <1>10 DEF IsFreeList

\* A link that is due is stored.
LEMMA LinkIsStored ==
    ASSUME AllocatorSizes, NEW list, IsFreeList(list), NEW t \in Threads, Appends(t)
    PROVE  \E k \in 1..(Len(list) - 1) :
                /\ k \in 1..Len(list) /\ k + 1 \in 1..Len(list)
                /\ succ[t] = list[k] /\ Appended(t) = list[k + 1] /\ link[list[k]] = Null
                /\ succ[t] \in Nodes /\ Appended(t) \in Nodes
                /\ list[k] \in 1..created /\ InList(list, list[k])
  <1>1. ListBounds(list)
    BY ListFacts
  <1>2. PICK k \in 1..(Len(list) - 1) :
            succ[t] = list[k] /\ Appended(t) = list[k + 1] /\ link[list[k]] = Null
    BY DEF IsFreeList, LinksAreDue
  <1>3. k \in 1..Len(list) /\ k + 1 \in 1..Len(list)
    BY <1>1 DEF ListBounds
  <1> QED BY <1>1, <1>2, <1>3 DEF ListBounds, IsFreeList, OnePlace

LEMMA AllocLinkKeeps ==
    ASSUME AllocatorSizes, NEW list, IsFreeList(list), NEW t \in Threads, AllocLink(t)
    PROVE  IsFreeList(list)'
  <1>1. ListBounds(list) /\ IsFreeList(list)
    BY ListFacts
  <1>2. Appends(t) /\ Holds(t) /\ Appended(t) = node[t] + AllocSize - 1
    BY DEF AllocLink, Appends, Holds, Appended
  <1>3. PICK k \in 1..(Len(list) - 1) :
            /\ k \in 1..Len(list) /\ k + 1 \in 1..Len(list)
            /\ succ[t] = list[k] /\ Appended(t) = list[k + 1] /\ link[list[k]] = Null
            /\ succ[t] \in Nodes /\ Appended(t) \in Nodes
            /\ list[k] \in 1..created /\ InList(list, list[k])
    BY <1>2, LinkIsStored
  <1>4. /\ pc[t] = "alloc_link" /\ pc'[t] = "allocated" /\ DOMAIN pc' = Threads
        /\ \A u \in Threads : u # t => pc'[u] = pc[u]
        /\ node[t] \in Nodes /\ node[t] \in 1..created /\ ~InList(list, node[t])
        /\ link' \in [Nodes -> Nodes \cup {Null}] /\ link'[list[k]] = list[k + 1]
        /\ \A n \in Nodes : n # list[k] => link'[n] = link[n]
        /\ out' = out \cup {node[t]}
        /\ UNCHANGED <<free_head, free_tail, created, node, succ>>
    BY <1>1, <1>2, <1>3 DEF AllocLink, Goto, ListBounds, IsFreeList, OnePlace
  <1>5. \A u \in Threads :
            /\ TakesTail(u)' <=> TakesTail(u)
            /\ Holds(u)' <=> u # t /\ Holds(u)
            /\ Appends(u)' <=> u # t /\ Appends(u)
            /\ Appends(u) => Appended(u)' = Appended(u) \/ u = t
            /\ u # t => pc'[u] = pc[u]
    BY <1>4 DEF TakesTail, Holds, Appends, Appended
  <1>6. ListTypeOK(list)'
    BY <1>1, <1>4 DEF IsFreeList, ListTypeOK, AllocatorTypeOK, ListBounds
  <1>7. ListEnds(list)'
    <2>1. free_head \in Nodes /\ free_head # list[k]
      BY <1>1, <1>3 DEF IsFreeList, ListTypeOK, ListEnds, ListBounds
    <2>2. ASSUME NEW u \in Threads, pc'[u] = "alloc_put", succ'[u] # Null
          PROVE  succ'[u] = link'[node'[u]]
      <3>1. u # t /\ pc[u] = "alloc_put" /\ succ[u] # Null /\ node[u] \in Nodes
        BY <1>1, <1>4, <2>2 DEF IsFreeList, ListTypeOK, ListEnds, ListBounds, TakesTail
      <3>2. succ[u] = link[node[u]]
        BY <1>1, <3>1 DEF IsFreeList, ListEnds
      <3> QED BY <1>3, <1>4, <3>1, <3>2
    <2> QED BY <1>1, <1>4, <1>5, <2>1, <2>2 DEF IsFreeList, ListEnds
  <1>8. LinksLead(list)'
    <2> SUFFICES ASSUME NEW m \in 1..(Len(list) - 1)
                 PROVE  \/ link'[list[m]] = list[m + 1]
                        \/ \E u \in Threads : Appends(u)' /\ succ'[u] = list[m]
      BY DEF LinksLead
    <2>1. m \in 1..Len(list) /\ list[m] \in Nodes /\ (list[m] = list[k] => m = k)
      BY <1>1, <1>3 DEF IsFreeList, ListTypeOK, ListBounds
    <2>2. CASE m = k
      BY <1>4, <2>2
    <2>3. CASE m # k
      <3>1. link'[list[m]] = link[list[m]]
        BY <1>4, <2>1, <2>3
      <3>2. ASSUME NEW u \in Threads, Appends(u), succ[u] = list[m]
            PROVE  Appends(u)' /\ succ'[u] = list[m]
        BY <1>3, <1>4, <1>5, <2>1, <2>3, <3>2
      <3> QED BY <1>1, <3>1, <3>2 DEF IsFreeList, LinksLead
    <2> QED BY <2>2, <2>3
  <1>9. LinksAreDue(list)'
    <2>1. ASSUME NEW u \in Threads, Appends(u)'
          PROVE  \E m \in 1..(Len(list) - 1) :
                    succ'[u] = list[m] /\ Appended(u)' = list[m + 1] /\ link'[list[m]] = Null
      <3>1. u # t /\ Appends(u) /\ Appended(u)' = Appended(u) /\ succ'[u] = succ[u]
        BY <1>4, <1>5, <2>1
      <3>2. PICK m \in 1..(Len(list) - 1) :
                succ[u] = list[m] /\ Appended(u) = list[m + 1] /\ link[list[m]] = Null
        BY <1>1, <3>1 DEF IsFreeList, LinksAreDue
      <3>3. m \in 1..Len(list) /\ list[m] \in Nodes
        BY <1>1 DEF ListBounds
      <3>4. list[m] # list[k]
        BY <1>1, <1>2, <1>3, <3>1, <3>2 DEF IsFreeList, LinksAreDue
      <3> QED BY <1>4, <3>1, <3>2, <3>3, <3>4
    <2>2. \A u, v \in Threads : Appends(u)' /\ Appends(v)' /\ succ'[u] = succ'[v] => u = v
      BY <1>1, <1>4, <1>5 DEF IsFreeList, LinksAreDue
    <2> QED BY <2>1, <2>2 DEF LinksAreDue
  <1>10. OnePlace(list)'
    BY <1>1, <1>2, <1>4, <1>5 DEF IsFreeList, OnePlace, InList
  <1>11. SomePlace(list)'
    BY <1>1, <1>4, <1>5 DEF IsFreeList, SomePlace, InList
  <1>12. Unlinked'
    BY <1>1, <1>3, <1>4, <1>5 DEF IsFreeList, Unlinked, Holds, OnePlace, ListBounds
  <1> QED BY <1>6, <1>7, <1>8, <1>9, <1>10, <1>11, <1>12 DEF IsFreeList

LEMMA FreeLinkKeeps ==
    ASSUME AllocatorSizes, NEW list, IsFreeList(list), NEW t \in Threads, FreeLink(t)
    PROVE  IsFreeList(list)'
  <1>1. ListBounds(list) /\ IsFreeList(list)
    BY ListFacts
  <1>2. Appends(t) /\ Appended(t) = node[t]
    BY DEF FreeLink, Appends, Appended
  <1>3. PICK k \in 1..(Len(list) - 1) :
            /\ k \in 1..Len(list) /\ k + 1 \in 1..Len(list)
            /\ succ[t] = list[k] /\ Appended(t) = list[k + 1] /\ link[list[k]] = Null
            /\ succ[t] \in Nodes /\ Appended(t) \in Nodes
            /\ list[k] \in 1..created /\ InList(list, list[k])
    BY <1>2, LinkIsStored
  <1>4. /\ pc[t] = "free_link" /\ pc'[t] = "idle" /\ DOMAIN pc' = Threads
        /\ \A u \in Threads : u # t => pc'[u] = pc[u] /\ node'[u] = node[u] /\ succ'[u] = succ[u]
        /\ node' \in [Threads -> Nodes \cup {Null}] /\ succ' \in [Threads -> Nodes \cup {Null}]
        /\ link' \in [Nodes -> Nodes \cup {Null}] /\ link'[list[k]] = list[k + 1]
        /\ \A n \in Nodes : n # list[k] => link'[n] = link[n]
        /\ UNCHANGED <<free_head, free_tail, created, out>>
    BY <1>1, <1>2, <1>3 DEF FreeLink, Finish, Goto, ListBounds
  <1>5. \A u \in Threads :
            /\ TakesTail(u)' <=> u # t /\ TakesTail(u)
            /\ TakesTail(u) => u # t
            /\ Holds(u)' <=> u # t /\ Holds(u)
            /\ Holds(u) => u # t
            /\ Appends(u)' <=> u # t /\ Appends(u)
            /\ Appends(u) => Appended(u)' = Appended(u) \/ u = t
            /\ u # t => pc'[u] = pc[u]
    BY <1>4 DEF TakesTail, Holds, Appends, Appended
  <1>6. ListTypeOK(list)'
    BY <1>1, <1>4 DEF IsFreeList, ListTypeOK, AllocatorTypeOK, ListBounds
  <1>7. ListEnds(list)'
    <2>1. free_head \in Nodes /\ free_head # list[k]
      BY <1>1, <1>3 DEF IsFreeList, ListTypeOK, ListEnds, ListBounds
    <2>2. ASSUME NEW u \in Threads, pc'[u] = "alloc_put", succ'[u] # Null
          PROVE  succ'[u] = link'[node'[u]]
      <3>1. u # t /\ pc[u] = "alloc_put" /\ succ[u] # Null /\ node[u] \in Nodes
        BY <1>1, <1>4, <2>2 DEF IsFreeList, ListTypeOK, ListEnds, ListBounds, TakesTail
      <3>2. succ[u] = link[node[u]]
        BY <1>1, <3>1 DEF IsFreeList, ListEnds
      <3> QED BY <1>3, <1>4, <3>1, <3>2
    <2> QED BY <1>1, <1>4, <1>5, <2>1, <2>2 DEF IsFreeList, ListEnds
  <1>8. LinksLead(list)'
    <2> SUFFICES ASSUME NEW m \in 1..(Len(list) - 1)
                 PROVE  \/ link'[list[m]] = list[m + 1]
                        \/ \E u \in Threads : Appends(u)' /\ succ'[u] = list[m]
      BY DEF LinksLead
    <2>1. m \in 1..Len(list) /\ list[m] \in Nodes /\ (list[m] = list[k] => m = k)
      BY <1>1, <1>3 DEF IsFreeList, ListTypeOK, ListBounds
    <2>2. CASE m = k
      BY <1>4, <2>2
    <2>3. CASE m # k
      <3>1. link'[list[m]] = link[list[m]]
        BY <1>4, <2>1, <2>3
      <3>2. ASSUME NEW u \in Threads, Appends(u), succ[u] = list[m]
            PROVE  Appends(u)' /\ succ'[u] = list[m]
        BY <1>3, <1>4, <1>5, <2>1, <2>3, <3>2
      <3> QED BY <1>1, <3>1, <3>2 DEF IsFreeList, LinksLead
    <2> QED BY <2>2, <2>3
  <1>9. LinksAreDue(list)'
    <2>1. ASSUME NEW u \in Threads, Appends(u)'
          PROVE  \E m \in 1..(Len(list) - 1) :
                    succ'[u] = list[m] /\ Appended(u)' = list[m + 1] /\ link'[list[m]] = Null
      <3>1. u # t /\ Appends(u) /\ Appended(u)' = Appended(u) /\ succ'[u] = succ[u]
        BY <1>4, <1>5, <2>1
      <3>2. PICK m \in 1..(Len(list) - 1) :
                succ[u] = list[m] /\ Appended(u) = list[m + 1] /\ link[list[m]] = Null
        BY <1>1, <3>1 DEF IsFreeList, LinksAreDue
      <3>3. m \in 1..Len(list) /\ list[m] \in Nodes
        BY <1>1 DEF ListBounds
      <3>4. list[m] # list[k]
        BY <1>1, <1>2, <1>3, <3>1, <3>2 DEF IsFreeList, LinksAreDue
      <3> QED BY <1>4, <3>1, <3>2, <3>3, <3>4
    <2>2. \A u, v \in Threads : Appends(u)' /\ Appends(v)' /\ succ'[u] = succ'[v] => u = v
      BY <1>1, <1>4, <1>5 DEF IsFreeList, LinksAreDue
    <2> QED BY <2>1, <2>2 DEF LinksAreDue
  <1>10. OnePlace(list)'
    <2>1. \A u \in Threads : Holds(u)' => Holds(u) /\ node'[u] = node[u]
      BY <1>4, <1>5
    <2> QED BY <1>1, <1>4, <2>1 DEF IsFreeList, OnePlace, InList
  <1>11. SomePlace(list)'
    BY <1>1, <1>4, <1>5 DEF IsFreeList, SomePlace, InList
  <1>12. Unlinked'
    BY <1>1, <1>3, <1>4, <1>5 DEF IsFreeList, Unlinked, Holds, OnePlace, ListBounds
  <1> QED BY <1>6, <1>7, <1>8, <1>9, <1>10, <1>11, <1>12 DEF IsFreeList

-----------------------------------------------------------------------------
(* The steps that change the list *)

\* The tail leaves it.
LEMMA AllocAdvanceKeeps ==
    ASSUME AllocatorSizes, NEW list, IsFreeList(list), NEW t \in Threads, AllocAdvance(t)
    PROVE  \E new : IsFreeList(new)'
  <1>1. ListBounds(list) /\ IsFreeList(list)
    BY ListFacts
  <1>2. TakesTail(t) /\ node[t] = list[1] /\ succ[t] = link[list[1]] /\ link[list[1]] # Null
    BY DEF AllocAdvance, TakesTail, IsFreeList, ListEnds
  <1>3. Len(list) >= 2
    BY <1>1, <1>2 DEF IsFreeList, ListTypeOK, ListEnds, ListBounds
  <1>4. link[list[1]] = list[2]
    <2>1. 1 \in 1..(Len(list) - 1)
      BY <1>1, <1>3 DEF ListBounds
    <2> QED BY <1>2, <2>1 DEF IsFreeList, LinksLead, LinksAreDue, ListTypeOK
  <1>5. PICK new : new = Tail(list)
    OBVIOUS
  <1>6. /\ new \in Seq(Nodes) /\ Len(new) = Len(list) - 1
        /\ \A k \in 1..Len(new) : new[k] = list[k + 1] /\ k + 1 \in 1..Len(list)
    BY <1>1, <1>3, <1>5 DEF IsFreeList, ListTypeOK, ListBounds
  <1>7. \A n : InList(list, n) <=> n = list[1] \/ InList(new, n)
    <2>1. \A k \in 1..Len(list) : k = 1 \/ (k - 1 \in 1..Len(new) /\ list[k] = new[k - 1])
      BY <1>1, <1>3, <1>6 DEF ListBounds
    <2>2. 1 \in 1..Len(list)
      BY <1>1, <1>3 DEF ListBounds
    <2> QED BY <1>6, <2>1, <2>2 DEF InList
  <1>8. ~InList(new, list[1])
    <2> SUFFICES ASSUME NEW k \in 1..Len(new), new[k] = list[1] PROVE FALSE
      BY DEF InList
    <2>1. new[k] = list[k + 1] /\ k + 1 \in 1..Len(list) /\ 1 \in 1..Len(list)
      BY <1>1, <1>3, <1>6 DEF ListBounds
    <2>2. k + 1 = 1
      BY <1>1, <2>1 DEF IsFreeList, ListTypeOK
    <2> QED BY <2>2
  <1>9. /\ pc[t] = "alloc_put" /\ pc'[t] = "alloc_clear" /\ DOMAIN pc' = Threads
        /\ \A u \in Threads : u # t => pc'[u] = pc[u]
        /\ node[t] = list[1] /\ node[t] \in Nodes /\ free_tail' = list[2] /\ list[2] \in Nodes
        /\ list[2] = new[1] /\ node[t] \in 1..created /\ node[t] \notin out
        /\ UNCHANGED <<link, free_head, created, node, succ, out>>
    <2>1. 1 \in 1..Len(list) /\ 2 \in 1..Len(list) /\ 1 \in 1..Len(new)
      BY <1>1, <1>3, <1>6 DEF ListBounds
    <2>2. new[1] = list[1 + 1]
      BY <1>6, <2>1
    <2> QED BY <1>1, <1>2, <1>4, <2>1, <2>2 DEF AllocAdvance, Goto, ListBounds, IsFreeList, OnePlace
  <1>10. \A u \in Threads :
            /\ TakesTail(u)' <=> u # t /\ TakesTail(u)
            /\ Holds(u)' <=> u = t \/ Holds(u)
            /\ Appends(u)' <=> Appends(u)
            /\ Appends(u) => Appended(u)' = Appended(u)
            /\ u # t => pc'[u] = pc[u]
    BY <1>9 DEF TakesTail, Holds, Appends, Appended
  <1>11. ~Holds(t) /\ \A u \in Threads : Holds(u) => node[u] # list[1]
    <2>1. InList(list, list[1])
      BY <1>1, <1>3 DEF ListBounds
    <2> QED BY <1>1, <1>9, <2>1 DEF Holds, IsFreeList, OnePlace
  <1>12. ListTypeOK(new)'
    <2>1. \A k, m \in 1..Len(new) : new[k] = new[m] => k = m
      <3> SUFFICES ASSUME NEW k \in 1..Len(new), NEW m \in 1..Len(new), new[k] = new[m] PROVE k = m
        OBVIOUS
      <3>1. /\ list[k + 1] = list[m + 1]
            /\ k + 1 \in 1..Len(list) /\ m + 1 \in 1..Len(list)
        BY <1>6
      <3>2. k + 1 = m + 1
        BY <1>1, <3>1 DEF IsFreeList, ListTypeOK
      <3> QED BY <3>2
    <2>2. AllocatorTypeOK'
      BY <1>1, <1>9 DEF IsFreeList, ListTypeOK, AllocatorTypeOK, ListBounds
    <2> QED BY <1>1, <1>3, <1>6, <1>9, <2>1, <2>2 DEF ListTypeOK, ListBounds
  <1>13. ListEnds(new)'
    <2>1. new[Len(new)] = list[Len(list)]
      BY <1>1, <1>3, <1>6 DEF ListBounds
    <2>2. \A u \in Threads : ~TakesTail(u)'
      BY <1>1, <1>2, <1>10 DEF IsFreeList, ListEnds
    <2>3. \A u \in Threads : pc'[u] = "alloc_put" => TakesTail(u)'
      BY DEF TakesTail
    <2> QED BY <1>1, <1>9, <2>1, <2>2, <2>3 DEF IsFreeList, ListEnds, ListBounds
  <1>14. LinksLead(new)'
    <2>1. \A k \in 1..(Len(new) - 1) :
            /\ k + 1 \in 1..(Len(list) - 1) /\ k \in 1..Len(new) /\ k + 1 \in 1..Len(new)
            /\ new[k] = list[k + 1] /\ new[k + 1] = list[(k + 1) + 1]
      BY <1>1, <1>6 DEF ListBounds
    <2>2. \A k \in 1..(Len(new) - 1) :
            \/ link[list[k + 1]] = list[(k + 1) + 1]
            \/ \E u \in Threads : Appends(u) /\ succ[u] = list[k + 1]
      BY <1>1, <2>1 DEF IsFreeList, LinksLead
    <2>3. link' = link /\ \A u \in Threads : Appends(u) => Appends(u)' /\ succ'[u] = succ[u]
      BY <1>9, <1>10
    <2> QED BY <2>1, <2>2, <2>3 DEF LinksLead
  <1>15. LinksAreDue(new)'
    <2>1. ASSUME NEW u \in Threads, Appends(u)
          PROVE  \E k \in 1..(Len(new) - 1) :
                    succ[u] = new[k] /\ Appended(u) = new[k + 1] /\ link[new[k]] = Null
      <3>1. PICK k \in 1..(Len(list) - 1) :
                succ[u] = list[k] /\ Appended(u) = list[k + 1] /\ link[list[k]] = Null
        BY <1>1, <2>1 DEF IsFreeList, LinksAreDue
      <3>2. k # 1
        BY <1>2, <3>1
      <3>3. k - 1 \in 1..(Len(new) - 1) /\ new[k - 1] = list[k] /\ new[(k - 1) + 1] = list[k + 1]
        <4>1. PICK j \in Nat : j + 1 = k /\ j >= 1
          BY <3>2
        <4>2. Len(new) = Len(list) - 1 /\ Len(list) \in Nat
          BY <1>1, <1>6 DEF ListBounds
        <4>3. j \in 1..(Len(new) - 1) /\ j \in 1..Len(new) /\ j + 1 \in 1..Len(new) /\ j = k - 1
          BY <3>1, <4>1, <4>2
        <4> QED BY <1>6, <4>1, <4>3
      <3> QED BY <3>1, <3>3
    <2> QED BY <1>1, <1>9, <1>10, <2>1 DEF IsFreeList, LinksAreDue
  <1>16. OnePlace(new)'
    BY <1>1, <1>6, <1>7, <1>8, <1>9, <1>10, <1>11 DEF IsFreeList, OnePlace
  <1>17. SomePlace(new)'
    BY <1>1, <1>7, <1>9, <1>10 DEF IsFreeList, SomePlace
  <1>18. Unlinked'
    BY <1>1, <1>9, <1>10 DEF IsFreeList, Unlinked, Holds
  <1> QED BY <1>12, <1>13, <1>14, <1>15, <1>16, <1>17, <1>18 DEF IsFreeList

\* A node that is given back becomes its head.
LEMMA FreeExchangeKeeps ==
    ASSUME AllocatorSizes, NEW list, IsFreeList(list), NEW t \in Threads, FreeExchange(t)
    PROVE  \E new : IsFreeList(new)'
  <1>1. ListBounds(list) /\ IsFreeList(list)
    BY ListFacts
  <1>2. Holds(t) /\ ~Appends(t) /\ node[t] \in 1..created /\ node[t] \in Nodes /\ ~InList(list, node[t])
        /\ node[t] \notin out /\ link[node[t]] = Null
    BY <1>1 DEF FreeExchange, Holds, Appends, IsFreeList, OnePlace, Unlinked, ListBounds
  <1>3. PICK new : new = Append(list, node[t])
    OBVIOUS
  <1>4. /\ new \in Seq(Nodes) /\ Len(new) = Len(list) + 1 /\ new[Len(new)] = node[t]
        /\ \A k \in 1..Len(list) : new[k] = list[k] /\ k \in 1..Len(new)
    BY <1>1, <1>2, <1>3 DEF IsFreeList, ListTypeOK, ListBounds
  <1>5. \A k \in 1..Len(new) : k \in 1..Len(list) \/ k = Len(new)
    BY <1>1, <1>4 DEF ListBounds
  <1>6. \A n : InList(new, n) <=> n = node[t] \/ InList(list, n)
    <2>1. Len(new) \in 1..Len(new)
      BY <1>1, <1>4 DEF ListBounds
    <2> QED BY <1>4, <1>5, <2>1 DEF InList
  <1>7. /\ pc[t] = "free_give" /\ pc'[t] = "free_link" /\ DOMAIN pc' = Threads
        /\ \A u \in Threads : u # t => pc'[u] = pc[u] /\ succ'[u] = succ[u]
        /\ succ' \in [Threads -> Nodes \cup {Null}] /\ succ'[t] = free_head
        /\ free_head' = node[t]
        /\ UNCHANGED <<link, free_tail, created, node, out>>
    BY <1>1 DEF FreeExchange, Goto, ListBounds
  <1>8. \A u \in Threads :
            /\ TakesTail(u)' <=> TakesTail(u)
            /\ TakesTail(u) => u # t
            /\ Holds(u)' <=> u # t /\ Holds(u)
            /\ Appends(u)' <=> u = t \/ Appends(u)
            /\ Appends(u) => Appended(u)' = Appended(u) /\ u # t
            /\ u # t => pc'[u] = pc[u]
    BY <1>7 DEF TakesTail, Holds, Appends, Appended
  <1>9. Appended(t)' = node[t]
    BY <1>7 DEF Appended
  <1>10. ListTypeOK(new)'
    <2>1. \A k, m \in 1..Len(new) : new[k] = new[m] => k = m
      BY <1>1, <1>2, <1>4, <1>5 DEF IsFreeList, ListTypeOK, InList
    <2> QED BY <1>1, <1>2, <1>4, <1>7, <2>1 DEF IsFreeList, ListTypeOK, AllocatorTypeOK, ListBounds
  <1>11. ListEnds(new)'
    <2>1. 1 \in 1..Len(list)
      BY <1>1 DEF ListBounds, IsFreeList, ListTypeOK
    <2>2. new[1] = list[1]
      BY <1>4, <2>1
    <2>3. \A u \in Threads : pc'[u] = "alloc_put" => u # t
      BY <1>7
    <2> QED BY <1>1, <1>2, <1>4, <1>7, <1>8, <2>2, <2>3 DEF IsFreeList, ListEnds
  <1>12. LinksLead(new)'
    <2> SUFFICES ASSUME NEW k \in 1..(Len(new) - 1)
                 PROVE  \/ link'[new[k]] = new[k + 1]
                        \/ \E u \in Threads : Appends(u)' /\ succ'[u] = new[k]
      BY DEF LinksLead
    <2>1. CASE k = Len(list)
      <3>1. k \in 1..Len(list)
        BY <1>1, <2>1 DEF ListBounds, IsFreeList, ListTypeOK
      <3>2. new[k] = free_head
        BY <1>1, <1>4, <2>1, <3>1 DEF IsFreeList, ListEnds
      <3> QED BY <1>7, <1>8, <3>2
    <2>2. CASE k # Len(list)
      <3>1. k \in 1..(Len(list) - 1) /\ new[k] = list[k] /\ new[k + 1] = list[k + 1]
        BY <1>1, <1>4, <2>2 DEF ListBounds
      <3>2. ASSUME NEW u \in Threads, Appends(u), succ[u] = list[k]
            PROVE  Appends(u)' /\ succ'[u] = new[k]
        BY <1>7, <1>8, <3>1, <3>2
      <3> QED BY <1>1, <1>7, <3>1, <3>2 DEF IsFreeList, LinksLead
    <2> QED BY <2>1, <2>2
  <1>13. LinksAreDue(new)'
    <2>1. /\ Len(list) \in 1..(Len(new) - 1) /\ new[Len(list)] = free_head
          /\ new[Len(list) + 1] = node[t] /\ link[free_head] = Null
      BY <1>1, <1>4 DEF ListBounds, IsFreeList, ListTypeOK, ListEnds
    <2>2. ASSUME NEW u \in Threads, Appends(u)
          PROVE  \E k \in 1..(Len(new) - 1) :
                    /\ succ[u] = new[k] /\ Appended(u) = new[k + 1] /\ link[new[k]] = Null
                    /\ succ[u] # free_head
      <3>1. PICK k \in 1..(Len(list) - 1) :
                succ[u] = list[k] /\ Appended(u) = list[k + 1] /\ link[list[k]] = Null
        BY <1>1, <2>2 DEF IsFreeList, LinksAreDue
      <3>2. k \in 1..(Len(new) - 1) /\ new[k] = list[k] /\ new[k + 1] = list[k + 1]
        BY <1>1, <1>4, <3>1 DEF ListBounds
      <3>3. list[k] # free_head
        BY <1>1, <3>1 DEF IsFreeList, ListEnds, ListTypeOK, ListBounds
      <3> QED BY <3>1, <3>2, <3>3
    <2>3. ASSUME NEW u \in Threads, Appends(u)'
          PROVE  \E k \in 1..(Len(new) - 1) :
                    succ'[u] = new[k] /\ Appended(u)' = new[k + 1] /\ link'[new[k]] = Null
      <3>1. CASE u = t
        BY <1>7, <1>9, <2>1, <3>1
      <3>2. CASE u # t
        BY <1>7, <1>8, <2>2, <2>3, <3>2
      <3> QED BY <3>1, <3>2
    <2>4. ASSUME NEW u \in Threads, NEW v \in Threads, Appends(u)', Appends(v)', succ'[u] = succ'[v]
          PROVE  u = v
      <3>1. \A w \in Threads : Appends(w)' /\ w # t => Appends(w) /\ succ'[w] = succ[w] /\ succ[w] # free_head
        BY <1>7, <1>8, <2>2
      <3> QED BY <1>1, <1>7, <2>4, <3>1 DEF IsFreeList, LinksAreDue
    <2> QED BY <2>3, <2>4 DEF LinksAreDue
  <1>14. OnePlace(new)'
    BY <1>1, <1>2, <1>4, <1>5, <1>6, <1>7, <1>8 DEF IsFreeList, OnePlace
  <1>15. SomePlace(new)'
    BY <1>1, <1>6, <1>7, <1>8 DEF IsFreeList, SomePlace
  <1>16. Unlinked'
    BY <1>1, <1>7, <1>8 DEF IsFreeList, Unlinked
  <1> QED BY <1>10, <1>11, <1>12, <1>13, <1>14, <1>15, <1>16 DEF IsFreeList

\* A chunk is put in front of its head; the link to it is still to come.
LEMMA AllocGrowKeeps ==
    ASSUME AllocatorSizes, NEW list, IsFreeList(list), NEW t \in Threads, AllocGrow(t)
    PROVE  \E new : IsFreeList(new)'
  <1>1. ListBounds(list) /\ IsFreeList(list)
    BY ListFacts
  <1>2. /\ AllocSize \in Nat /\ AllocSize >= 2 /\ created \in Nat
        /\ \A n \in (created + 1)..(created + AllocSize) : n \in Nodes /\ n > created
        /\ created + AllocSize \in Nodes
    BY <1>1 DEF AllocGrow, AllocatorSizes, ListBounds, Nodes
  <1>3. PICK chunk : chunk = [k \in 1..(AllocSize - 1) |-> created + AllocSize + 1 - k]
    OBVIOUS
  <1>4. /\ chunk \in Seq(Nodes) /\ Len(chunk) = AllocSize - 1
        /\ \A k \in 1..Len(chunk) : chunk[k] = created + AllocSize + 1 - k
    <2>1. \A k \in 1..(AllocSize - 1) : created + AllocSize + 1 - k \in Nodes
      BY <1>2
    <2>2. chunk \in [1..(AllocSize - 1) -> Nodes] /\ AllocSize - 1 \in Nat
      BY <1>2, <1>3, <2>1
    <2>3. chunk \in Seq(Nodes)
      BY <2>2
    <2> QED BY <1>2, <1>3, <2>2, <2>3
  <1>5. PICK new : new = list \o chunk
    OBVIOUS
  <1>6. /\ new \in Seq(Nodes) /\ Len(new) = Len(list) + AllocSize - 1
        /\ \A k \in 1..Len(list) : new[k] = list[k]
        /\ \A k \in 1..(AllocSize - 1) : new[Len(list) + k] = created + AllocSize + 1 - k
    <2>1. list \in Seq(Nodes) /\ Len(list) \in Nat
      BY <1>1 DEF ListBounds, IsFreeList, ListTypeOK
    <2>2. new \in Seq(Nodes) /\ Len(new) = Len(list) + Len(chunk)
      BY <1>4, <1>5, <2>1, ConcatProperties
    <2>3. \A k \in 1..(Len(list) + Len(chunk)) :
            new[k] = IF k <= Len(list) THEN list[k] ELSE chunk[k - Len(list)]
      BY <1>4, <1>5, <2>1, ConcatProperties
    <2> HIDE <1>3, <1>5
    <2>4. \A k \in 1..Len(list) : new[k] = list[k]
      BY <1>2, <1>4, <2>1, <2>3
    <2>5. ASSUME NEW k \in 1..(AllocSize - 1) PROVE new[Len(list) + k] = chunk[k]
      <3>1. /\ Len(list) + k \in 1..(Len(list) + Len(chunk)) /\ ~(Len(list) + k <= Len(list))
            /\ (Len(list) + k) - Len(list) = k
        BY <1>2, <1>4, <2>1
      <3> QED BY <2>3, <3>1
    <2> QED BY <1>2, <1>4, <2>1, <2>2, <2>4, <2>5
  <1>7. ASSUME NEW k \in 1..Len(new)
        PROVE  \/ k \in 1..Len(list) /\ new[k] = list[k] /\ new[k] \in 1..created
               \/ /\ k \in (Len(list) + 1)..(Len(list) + AllocSize - 1)
                  /\ new[k] = created + AllocSize + 1 - (k - Len(list))
                  /\ new[k] \in (created + 2)..(created + AllocSize)
    <2>1. CASE k \in 1..Len(list)
      BY <1>1, <1>6, <2>1 DEF IsFreeList, OnePlace
    <2>2. CASE k \notin 1..Len(list)
      <3>1. k - Len(list) \in 1..(AllocSize - 1) /\ Len(list) + (k - Len(list)) = k
        BY <1>1, <1>2, <1>6, <2>2 DEF ListBounds
      <3>2. new[k] = created + AllocSize + 1 - (k - Len(list))
        BY <1>6, <3>1
      <3> QED BY <1>1, <1>2, <1>6, <2>2, <3>1, <3>2 DEF ListBounds
    <2> QED BY <2>1, <2>2
  <1>8. \A n : InList(new, n) <=> InList(list, n) \/ n \in (created + 2)..(created + AllocSize)
    <2>1. ASSUME NEW n \in (created + 2)..(created + AllocSize) PROVE InList(new, n)
      <3>1. PICK k \in 1..(AllocSize - 1) : created + AllocSize + 1 - k = n
        <4>1. created + AllocSize + 1 - n \in 1..(AllocSize - 1)
          BY <1>2
        <4>2. created + AllocSize + 1 - (created + AllocSize + 1 - n) = n
          BY <1>2
        <4> QED BY <4>1, <4>2
      <3>2. new[Len(list) + k] = n
        BY <1>6, <3>1
      <3>3. Len(list) + k \in 1..Len(new)
        BY <1>1, <1>2, <1>6 DEF ListBounds
      <3> QED BY <3>2, <3>3 DEF InList
    <2>2. ASSUME NEW n, InList(list, n) PROVE InList(new, n)
      <3>1. PICK k \in 1..Len(list) : list[k] = n
        BY <2>2 DEF InList
      <3>2. k \in 1..Len(new) /\ new[k] = n
        BY <1>1, <1>2, <1>6, <3>1 DEF ListBounds
      <3> QED BY <3>2 DEF InList
    <2>3. ASSUME NEW n, InList(new, n)
          PROVE  InList(list, n) \/ n \in (created + 2)..(created + AllocSize)
      <3>1. PICK k \in 1..Len(new) : new[k] = n
        BY <2>3 DEF InList
      <3> QED BY <1>7, <3>1 DEF InList
    <2> QED BY <2>1, <2>2, <2>3
  <1>9. /\ pc[t] = "alloc_grow" /\ pc'[t] = "alloc_link" /\ DOMAIN pc' = Threads
        /\ \A u \in Threads : u # t => pc'[u] = pc[u] /\ node'[u] = node[u] /\ succ'[u] = succ[u]
        /\ node' \in [Threads -> Nodes \cup {Null}] /\ node'[t] = created + 1
        /\ succ' \in [Threads -> Nodes \cup {Null}] /\ succ'[t] = free_head
        /\ free_head' = created + 2 /\ created' = created + AllocSize
        /\ UNCHANGED <<free_tail, out>>
    BY <1>1, <1>2 DEF AllocGrow, Goto, ListBounds
  <1>10. /\ link' \in [Nodes -> Nodes \cup {Null}]
         /\ \A n \in Nodes : n \notin (created + 3)..(created + AllocSize) => link'[n] = link[n]
         /\ \A n \in (created + 3)..(created + AllocSize) : link'[n] = n - 1
    <2>1. \A n \in (created + 3)..(created + AllocSize) : n \in Nodes /\ n - 1 \in Nodes
      BY <1>2
    <2> QED BY <1>1, <2>1 DEF AllocGrow, ListBounds
  <1>11. \A n \in 1..created : n \in Nodes /\ link'[n] = link[n] /\ n <= created
    BY <1>1, <1>2, <1>10 DEF ListBounds
  <1>12. \A u \in Threads :
            /\ TakesTail(u)' <=> TakesTail(u)
            /\ TakesTail(u) => u # t
            /\ Holds(u)' <=> u = t \/ Holds(u)
            /\ Holds(u) => u # t
            /\ Appends(u)' <=> u = t \/ Appends(u)
            /\ Appends(u) => Appended(u)' = Appended(u) /\ u # t
            /\ u # t => pc'[u] = pc[u]
    BY <1>9 DEF TakesTail, Holds, Appends, Appended
  <1>13. Appended(t)' = created + AllocSize
    BY <1>2, <1>9 DEF Appended
  <1>14. /\ free_head \in 1..created /\ free_head = list[Len(list)] /\ link[free_head] = Null
         /\ list[1] \in 1..created /\ new[1] = list[1] /\ new[Len(list)] = free_head
         /\ new[Len(list) + 1] = created + AllocSize /\ new[Len(new)] = created + 2
    <2>1. 1 \in 1..Len(list) /\ Len(list) \in 1..Len(list)
      BY <1>1 DEF ListBounds, IsFreeList, ListTypeOK
    <2>2. 1 \in 1..(AllocSize - 1) /\ AllocSize - 1 \in 1..(AllocSize - 1)
      BY <1>2
    <2>3. new[Len(list) + 1] = created + AllocSize + 1 - 1
      BY <1>6, <2>2
    <2>4. new[Len(list) + (AllocSize - 1)] = created + AllocSize + 1 - (AllocSize - 1)
      BY <1>6, <2>2
    <2>5. Len(new) = Len(list) + (AllocSize - 1)
      BY <1>1, <1>2, <1>6 DEF ListBounds
    <2>6. created \in Nat /\ AllocSize \in Nat /\ AllocSize >= 2
      BY <1>1, <1>2 DEF ListBounds
    <2>7. created + AllocSize + 1 - 1 = created + AllocSize
          /\ created + AllocSize + 1 - (AllocSize - 1) = created + 2
      BY <2>6
    <2> QED BY <1>1, <1>2, <1>6, <2>1, <2>3, <2>4, <2>5, <2>7 DEF IsFreeList, ListEnds, OnePlace
  <1>15. ListTypeOK(new)'
    <2>1. \A k, m \in 1..Len(new) : new[k] = new[m] => k = m
      <3> SUFFICES ASSUME NEW k \in 1..Len(new), NEW m \in 1..Len(new), new[k] = new[m] PROVE k = m
        OBVIOUS
      <3>1. ~(new[k] \in 1..created /\ new[k] \in (created + 2)..(created + AllocSize))
        BY <1>2
      <3>2. CASE new[k] \in 1..created
        <4>1. /\ k \in 1..Len(list) /\ m \in 1..Len(list)
              /\ new[k] = list[k] /\ new[m] = list[m]
          BY <1>7, <3>1, <3>2
        <4> QED BY <1>1, <4>1 DEF IsFreeList, ListTypeOK
      <3>3. CASE new[k] \notin 1..created
        <4>1. /\ new[k] = created + AllocSize + 1 - (k - Len(list))
              /\ new[m] = created + AllocSize + 1 - (m - Len(list))
          BY <1>7, <3>3
        <4>2. k \in Nat /\ m \in Nat /\ Len(list) \in Nat
          BY <1>1, <1>2, <1>6 DEF ListBounds
        <4>3. created + AllocSize + 1 - (k - Len(list)) = created + AllocSize + 1 - (m - Len(list))
          BY <4>1
        <4> QED BY <1>2, <4>2, <4>3
      <3> QED BY <3>2, <3>3
    <2>2. AllocatorTypeOK'
      BY <1>1, <1>2, <1>9, <1>10 DEF IsFreeList, ListTypeOK, AllocatorTypeOK, ListBounds
    <2>3. Len(new) >= 1
      BY <1>1, <1>2, <1>6 DEF ListBounds
    <2> QED BY <1>6, <1>9, <2>1, <2>2, <2>3 DEF ListTypeOK
  <1>16. ListEnds(new)'
    <2>1. link'[free_head'] = Null
      BY <1>1, <1>2, <1>9, <1>10 DEF IsFreeList, Unlinked
    <2>2. ASSUME NEW u \in Threads, pc'[u] = "alloc_put", succ'[u] # Null
          PROVE  succ'[u] = link'[node'[u]]
      <3>1. u # t /\ pc[u] = "alloc_put" /\ TakesTail(u) /\ succ'[u] = succ[u] /\ node'[u] = node[u]
        BY <1>9, <2>2 DEF TakesTail
      <3>2. node[u] = list[1] /\ succ[u] = link[node[u]]
        BY <1>1, <2>2, <3>1 DEF IsFreeList, ListEnds
      <3> QED BY <1>11, <1>14, <3>1, <3>2
    <2> QED BY <1>1, <1>9, <1>12, <1>14, <2>1, <2>2 DEF IsFreeList, ListEnds
  <1>17. LinksLead(new)'
    <2> SUFFICES ASSUME NEW k \in 1..(Len(new) - 1)
                 PROVE  \/ link'[new[k]] = new[k + 1]
                        \/ \E u \in Threads : Appends(u)' /\ succ'[u] = new[k]
      BY DEF LinksLead
    <2>1. k \in 1..Len(new) /\ k + 1 \in 1..Len(new)
      BY <1>1, <1>2, <1>6 DEF ListBounds
    <2>2. CASE k \in 1..(Len(list) - 1)
      <3>1. /\ new[k] = list[k] /\ new[k + 1] = list[k + 1] /\ list[k] \in 1..created
        BY <1>1, <1>6, <2>2 DEF ListBounds, IsFreeList, OnePlace
      <3>2. ASSUME NEW u \in Threads, Appends(u), succ[u] = list[k]
            PROVE  Appends(u)' /\ succ'[u] = new[k]
        BY <1>9, <1>12, <3>1, <3>2
      <3> QED BY <1>1, <1>11, <2>2, <3>1, <3>2 DEF IsFreeList, LinksLead
    <2>3. CASE k = Len(list)
      BY <1>9, <1>12, <1>14, <2>3
    <2>4. CASE k > Len(list)
      <3>1. /\ new[k] = created + AllocSize + 1 - (k - Len(list))
            /\ new[k + 1] = created + AllocSize + 1 - ((k + 1) - Len(list))
        BY <1>1, <1>7, <2>1, <2>4 DEF ListBounds
      <3>2. new[k] \in (created + 3)..(created + AllocSize) /\ new[k + 1] = new[k] - 1
        BY <1>1, <1>2, <1>6, <2>4, <3>1 DEF ListBounds
      <3> QED BY <1>10, <3>2
    <2> QED BY <1>1, <2>2, <2>3, <2>4 DEF ListBounds
  <1>18. LinksAreDue(new)'
    <2>1. ASSUME NEW u \in Threads, Appends(u)
          PROVE  \E k \in 1..(Len(new) - 1) :
                    /\ succ[u] = new[k] /\ Appended(u) = new[k + 1] /\ link'[new[k]] = Null
                    /\ succ[u] # free_head
      <3>1. PICK k \in 1..(Len(list) - 1) :
                succ[u] = list[k] /\ Appended(u) = list[k + 1] /\ link[list[k]] = Null
        BY <1>1, <2>1 DEF IsFreeList, LinksAreDue
      <3>2. /\ k \in 1..(Len(new) - 1) /\ new[k] = list[k] /\ new[k + 1] = list[k + 1]
            /\ list[k] \in 1..created
        BY <1>1, <1>2, <1>6, <3>1 DEF ListBounds, IsFreeList, OnePlace
      <3>3. list[k] # free_head
        BY <1>1, <3>1 DEF IsFreeList, ListEnds, ListTypeOK, ListBounds
      <3> QED BY <1>11, <3>1, <3>2, <3>3
    <2>2. Len(list) \in 1..(Len(new) - 1) /\ link'[free_head] = Null
      <3>1. Len(list) \in Nat /\ Len(list) >= 1
        BY <1>1 DEF ListBounds, IsFreeList, ListTypeOK
      <3>2. Len(new) \in Nat /\ Len(new) - 1 >= Len(list)
        BY <1>2, <1>6, <3>1
      <3>3. link'[free_head] = link[free_head]
        BY <1>11, <1>14
      <3> QED BY <1>14, <3>1, <3>2, <3>3
    <2>3. ASSUME NEW u \in Threads, Appends(u)'
          PROVE  \E k \in 1..(Len(new) - 1) :
                    succ'[u] = new[k] /\ Appended(u)' = new[k + 1] /\ link'[new[k]] = Null
      <3>1. CASE u = t
        BY <1>9, <1>13, <1>14, <2>2, <3>1
      <3>2. CASE u # t
        BY <1>9, <1>12, <2>1, <2>3, <3>2
      <3> QED BY <3>1, <3>2
    <2>4. ASSUME NEW u \in Threads, NEW v \in Threads, Appends(u)', Appends(v)', succ'[u] = succ'[v]
          PROVE  u = v
      <3>1. \A w \in Threads : Appends(w)' /\ w # t => Appends(w) /\ succ'[w] = succ[w] /\ succ[w] # free_head
        BY <1>9, <1>12, <2>1
      <3> QED BY <1>1, <1>9, <2>4, <3>1 DEF IsFreeList, LinksAreDue
    <2> QED BY <2>3, <2>4 DEF LinksAreDue
  <1>19. OnePlace(new)'
    <2>1. out' \subseteq 1..created' /\ \A n \in out' : n \in 1..created
      BY <1>1, <1>2, <1>9 DEF IsFreeList, OnePlace
    <2>2. ASSUME NEW k \in 1..Len(new) PROVE new[k] \in 1..created' /\ new[k] \notin out'
      <3>1. CASE k \in 1..Len(list)
        <4>1. new[k] = list[k] /\ list[k] \in 1..created /\ list[k] \notin out
          BY <1>1, <1>6, <3>1 DEF IsFreeList, OnePlace
        <4> QED BY <1>2, <1>9, <4>1
      <3>2. CASE new[k] \in (created + 2)..(created + AllocSize)
        BY <1>2, <1>9, <2>1, <3>2
      <3> QED BY <1>7, <3>1, <3>2
    <2>3. ASSUME NEW u \in Threads, Holds(u)'
          PROVE  node'[u] \in 1..created' /\ node'[u] \notin out' /\ ~InList(new, node'[u])
      <3>1. CASE u = t
        <4>1. ~InList(list, created + 1)
          BY <1>1, <1>2 DEF IsFreeList, OnePlace, InList
        <4> QED BY <1>2, <1>8, <1>9, <2>1, <3>1, <4>1
      <3>2. CASE u # t
        <4>1. node'[u] = node[u] /\ node[u] \in 1..created /\ node[u] \notin out /\ ~InList(list, node[u])
          BY <1>1, <1>9, <1>12, <2>3, <3>2 DEF IsFreeList, OnePlace
        <4> QED BY <1>2, <1>8, <1>9, <4>1
      <3> QED BY <3>1, <3>2
    <2>4. ASSUME NEW u \in Threads, NEW v \in Threads, Holds(u)', Holds(v)', node'[u] = node'[v]
          PROVE  u = v
      <3>1. \A w \in Threads : Holds(w)' /\ w # t => Holds(w) /\ node'[w] = node[w] /\ node[w] \in 1..created
        BY <1>1, <1>9, <1>12 DEF IsFreeList, OnePlace
      <3>2. node'[t] \notin 1..created
        BY <1>2, <1>9
      <3> QED BY <1>1, <2>4, <3>1, <3>2 DEF IsFreeList, OnePlace
    <2> QED BY <2>1, <2>2, <2>3, <2>4 DEF OnePlace
  <1>20. SomePlace(new)'
    <2> SUFFICES ASSUME NEW n \in 1..created'
                 PROVE  n \in out' \/ InList(new, n) \/ \E u \in Threads : Holds(u)' /\ node'[u] = n
      BY DEF SomePlace
    <2>1. n \in 1..created \/ n = created + 1 \/ n \in (created + 2)..(created + AllocSize)
      BY <1>2, <1>9
    <2>2. CASE n \in 1..created
      BY <1>1, <1>8, <1>9, <1>12, <2>2 DEF IsFreeList, SomePlace
    <2>3. CASE n = created + 1
      BY <1>9, <1>12, <2>3
    <2>4. CASE n \in (created + 2)..(created + AllocSize)
      BY <1>8, <2>4
    <2> QED BY <2>1, <2>2, <2>3, <2>4
  <1>21. Unlinked'
    <2>1. \A n \in Nodes : n > created' => link'[n] = Null
      BY <1>1, <1>2, <1>9, <1>10 DEF IsFreeList, Unlinked, Nodes, AllocatorSizes
    <2>2. ASSUME NEW u \in Threads, pc'[u] \in {"free_give", "alloc_link"} PROVE link'[node'[u]] = Null
      <3>1. CASE u = t
        <4>1. created + 1 \in Nodes /\ created + 1 > created /\ created + 1 \notin (created + 3)..(created + AllocSize)
          BY <1>2
        <4> QED BY <1>1, <1>9, <1>10, <3>1, <4>1 DEF IsFreeList, Unlinked
      <3>2. CASE u # t
        <4>1. Holds(u) /\ pc[u] \in {"free_give", "alloc_link"} /\ node'[u] = node[u]
          BY <1>9, <2>2, <3>2 DEF Holds
        <4> QED BY <1>1, <1>11, <4>1 DEF IsFreeList, Unlinked, OnePlace
      <3> QED BY <3>1, <3>2
    <2> QED BY <2>1, <2>2 DEF Unlinked
  <1> QED BY <1>15, <1>16, <1>17, <1>18, <1>19, <1>20, <1>21 DEF IsFreeList

-----------------------------------------------------------------------------
(* The allocator as a whole, and what those who use it may do *)

FreeListInv == \E list : IsFreeList(list)

LEMMA AllocatorStarts == ASSUME AllocatorSizes, AllocatorInit PROVE FreeListInv
  <1>1. PICK list : list = <<2>>
    OBVIOUS
  <1>2. list \in Seq(Nodes) /\ Len(list) = 1 /\ list[1] = 2
    BY <1>1 DEF AllocatorSizes, Nodes
  <1>3. /\ \A t \in Threads : ~TakesTail(t) /\ ~Holds(t) /\ ~Appends(t) /\ pc[t] = "idle"
        /\ \A n \in Nodes : link[n] = Null
        /\ 1 \in Nodes /\ 2 \in Nodes
    BY DEF AllocatorInit, TakesTail, Holds, Appends, AllocatorSizes, Nodes
  <1>4. ListTypeOK(list)
    BY <1>2, <1>3 DEF AllocatorInit, ListTypeOK, AllocatorTypeOK
  <1>5. ListEnds(list)
    BY <1>2, <1>3 DEF AllocatorInit, ListEnds, Null
  <1>6. LinksLead(list) /\ LinksAreDue(list)
    BY <1>2, <1>3 DEF LinksLead, LinksAreDue
  <1>7. OnePlace(list) /\ SomePlace(list)
    BY <1>2, <1>3 DEF AllocatorInit, OnePlace, SomePlace, InList
  <1>8. Unlinked
    BY <1>3 DEF Unlinked
  <1> QED BY <1>4, <1>5, <1>6, <1>7, <1>8 DEF FreeListInv, IsFreeList

LEMMA AllocatorKeeps ==
    ASSUME AllocatorSizes, FreeListInv, NEW t \in Threads, AllocStep(t) \/ FreeStep(t)
    PROVE  FreeListInv'
  <1>1. PICK list : IsFreeList(list)
    BY DEF FreeListInv
  <1> QED BY <1>1, AllocTakeKeeps, AllocLookKeeps, AllocPutBackKeeps, AllocAdvanceKeeps,
             AllocClearKeeps, AllocGrowKeeps, AllocLinkKeeps, FreeClearKeeps, FreeExchangeKeeps,
             FreeLinkKeeps DEF FreeListInv, AllocStep, FreeStep

\* A thread that is not in the allocator, or only waits for it.
Outside(t) == ~TakesTail(t) /\ ~Holds(t) /\ ~Appends(t)

\* The list is left alone; nodes that are out may be linked as one likes.
ListRests ==
    /\ DOMAIN pc' = Threads
    /\ node' \in [Threads -> Nodes \cup {Null}] /\ succ' \in [Threads -> Nodes \cup {Null}]
    /\ link' \in [Nodes -> Nodes \cup {Null}]
    /\ \A n \in Nodes : n \notin out => link'[n] = link[n]
    /\ UNCHANGED <<free_head, free_tail, created>>

Stands(u) == pc'[u] = pc[u] /\ node'[u] = node[u] /\ succ'[u] = succ[u]

LEMMA OutsideKeeps ==
    ASSUME AllocatorSizes, FreeListInv, ListRests, out' = out,
           \A u \in Threads : Stands(u) \/ (Outside(u) /\ Outside(u)')
    PROVE  FreeListInv'
  <1>1. PICK list : IsFreeList(list)
    BY DEF FreeListInv
  <1>2. ListBounds(list)
    BY <1>1, ListFacts
  <1>3. \A u \in Threads :
            /\ TakesTail(u)' <=> TakesTail(u)
            /\ Holds(u)' <=> Holds(u)
            /\ Appends(u)' <=> Appends(u)
            /\ ~Outside(u) => pc'[u] = pc[u] /\ node'[u] = node[u] /\ succ'[u] = succ[u]
            /\ Appends(u) => Appended(u)' = Appended(u)
    BY DEF Stands, Outside, TakesTail, Holds, Appends, Appended
  <1>4. \A k \in 1..Len(list) : list[k] \in Nodes /\ link'[list[k]] = link[list[k]]
    BY <1>1, <1>2 DEF ListRests, ListBounds, IsFreeList, OnePlace
  <1>5. ListTypeOK(list)'
    BY <1>1, <1>2 DEF ListRests, IsFreeList, ListTypeOK, AllocatorTypeOK, ListBounds
  <1>6. ListEnds(list)'
    <2>1. \A u \in Threads : pc'[u] = "alloc_put" => TakesTail(u)'
      BY DEF TakesTail
    <2>2. 1 \in 1..Len(list) /\ Len(list) \in 1..Len(list)
      BY <1>1, <1>2 DEF IsFreeList, ListTypeOK, ListBounds
    <2> QED BY <1>1, <1>3, <1>4, <2>1, <2>2 DEF ListRests, IsFreeList, ListEnds, Outside
  <1>7. LinksLead(list)'
    <2>1. \A k \in 1..(Len(list) - 1) : k \in 1..Len(list)
      BY <1>2 DEF ListBounds
    <2> QED BY <1>1, <1>3, <1>4, <2>1 DEF IsFreeList, LinksLead, Outside
  <1>8. LinksAreDue(list)'
    <2>1. \A k \in 1..(Len(list) - 1) : k \in 1..Len(list)
      BY <1>2 DEF ListBounds
    <2> QED BY <1>1, <1>3, <1>4, <2>1 DEF IsFreeList, LinksAreDue, Outside
  <1>9. OnePlace(list)'
    BY <1>1, <1>3 DEF ListRests, IsFreeList, OnePlace, Outside, InList
  <1>10. SomePlace(list)'
    BY <1>1, <1>3 DEF ListRests, IsFreeList, SomePlace, Outside, InList
  <1>11. Unlinked'
    <2>1. \A n \in Nodes : n > created => link'[n] = Null
      <3>1. \A n \in out : ~(n > created)
        BY <1>1, <1>2 DEF IsFreeList, OnePlace, ListBounds
      <3> QED BY <1>1, <3>1 DEF ListRests, IsFreeList, Unlinked
    <2>2. ASSUME NEW u \in Threads, pc'[u] \in {"free_give", "alloc_link"} PROVE link'[node'[u]] = Null
      <3>1. Holds(u)'
        BY <2>2 DEF Holds
      <3>2. Holds(u) /\ pc[u] = pc'[u] /\ node'[u] = node[u]
        BY <1>3, <3>1 DEF Outside
      <3>3. node[u] \in Nodes /\ node[u] \notin out
        BY <1>1, <1>2, <3>2 DEF ListBounds, IsFreeList, OnePlace
      <3> QED BY <1>1, <2>2, <3>2, <3>3 DEF ListRests, IsFreeList, Unlinked
    <2> QED BY <2>1, <2>2 DEF ListRests, Unlinked
  <1> QED BY <1>5, <1>6, <1>7, <1>8, <1>9, <1>10, <1>11 DEF FreeListInv, IsFreeList

\* A thread goes to free() with a node that was out.
LEMMA GiveBackKeeps ==
    ASSUME AllocatorSizes, FreeListInv, ListRests, link' = link, NEW t \in Threads,
           Outside(t), pc'[t] = "free", node'[t] \in out, out' = out \ {node'[t]},
           \A u \in Threads : u # t => Stands(u)
    PROVE  FreeListInv'
  <1>1. PICK list : IsFreeList(list)
    BY DEF FreeListInv
  <1>2. ListBounds(list)
    BY <1>1, ListFacts
  <1>3. \A u \in Threads :
            /\ TakesTail(u)' <=> TakesTail(u)
            /\ Holds(u)' <=> u = t \/ Holds(u)
            /\ Appends(u)' <=> Appends(u)
            /\ ~Outside(u) => pc'[u] = pc[u] /\ node'[u] = node[u] /\ succ'[u] = succ[u] /\ u # t
            /\ Appends(u) => Appended(u)' = Appended(u)
    BY DEF Stands, Outside, TakesTail, Holds, Appends, Appended
  <1>4. ListTypeOK(list)'
    BY <1>1, <1>2 DEF ListRests, IsFreeList, ListTypeOK, AllocatorTypeOK, ListBounds
  <1>5. ListEnds(list)'
    <2>1. \A u \in Threads : pc'[u] = "alloc_put" => TakesTail(u)'
      BY DEF TakesTail
    <2> QED BY <1>1, <1>3, <2>1 DEF ListRests, IsFreeList, ListEnds, Outside
  <1>6. LinksLead(list)'
    BY <1>1, <1>3 DEF IsFreeList, LinksLead, Outside
  <1>7. LinksAreDue(list)'
    BY <1>1, <1>3 DEF IsFreeList, LinksAreDue, Outside
  <1>8. OnePlace(list)'
    <2>1. \A k \in 1..Len(list) : list[k] \in 1..created' /\ list[k] \notin out'
      BY <1>1 DEF ListRests, IsFreeList, OnePlace
    <2>2. node'[t] \in 1..created' /\ node'[t] \notin out' /\ ~InList(list, node'[t])
      BY <1>1 DEF ListRests, IsFreeList, OnePlace, InList
    <2>3. \A u \in Threads : u # t /\ Holds(u)' => Holds(u) /\ node'[u] = node[u]
      BY <1>3 DEF Outside
    <2>4. \A u \in Threads : u # t /\ Holds(u)' =>
            node'[u] \in 1..created' /\ node'[u] \notin out' /\ ~InList(list, node'[u]) /\ node'[u] # node'[t]
      BY <1>1, <2>3 DEF ListRests, IsFreeList, OnePlace
    <2>5. \A u, v \in Threads : Holds(u)' /\ Holds(v)' /\ node'[u] = node'[v] => u = v
      BY <1>1, <2>3, <2>4 DEF IsFreeList, OnePlace
    <2>6. out' \subseteq 1..created'
      BY <1>1 DEF ListRests, IsFreeList, OnePlace
    <2> QED BY <2>1, <2>2, <2>4, <2>5, <2>6 DEF OnePlace
  <1>9. SomePlace(list)'
    BY <1>1, <1>3 DEF ListRests, IsFreeList, SomePlace, Outside, InList
  <1>10. Unlinked'
    <2>1. \A u \in Threads : pc'[u] \in {"free_give", "alloc_link"} => Holds(u)' /\ u # t
      BY DEF Holds
    <2> QED BY <1>1, <1>3, <2>1 DEF ListRests, IsFreeList, Unlinked, Outside
  <1> QED BY <1>4, <1>5, <1>6, <1>7, <1>8, <1>9, <1>10 DEF FreeListInv, IsFreeList


-----------------------------------------------------------------------------
(* ListQueue *)

QueueSizes == AllocatorSizes /\ Producer \in Threads /\ MaxValues \in Nat

\* A consumer that has the dummy, and one that has moved the value after it.
Consuming(c) == pc[c] \in {"dequeue_look", "dequeue_found", "dequeue_tail"}
Moved(c) == pc[c] = "dequeue_tail"

\* The producer has a node of its own until it is linked in.
Producing == pc[Producer] \in {"allocated", "enqueue_link"}

\* How many values have left the list `q', whose first node is the dummy.
Gone(q) == Len(entered) + 1 - Len(q)

QueueTypeOK(q) ==
    /\ q \in Seq(Nodes) /\ Len(q) >= 1 /\ head \in Nodes /\ tail \in Nodes \cup {Null}
    /\ data \in [Nodes -> Nat] /\ entered \in Seq(Nat) /\ taken \in Seq(Nat)
    /\ \A k, m \in 1..Len(q) : q[k] = q[m] => k = m
    /\ \A k \in 1..Len(q) : q[k] \in out
    /\ \A c \in Consumers : ~(pc[c] \in {"allocated", "enqueue_link", "enqueue_head"})
    /\ pc[Producer] \notin {"free", "free_give", "free_link", "dequeue_look", "dequeue_found", "dequeue_tail"}

\* The list is linked from the dummy to the last node, where _head is, or will
\* be once the producer has stored it.  Until then _head is the node before,
\* which a consumer may have taken out of the list already.
QueueLinks(q) ==
    /\ \A k \in 1..(Len(q) - 1) : link[q[k]] = q[k + 1]
    /\ link[q[Len(q)]] = Null
    /\ pc[Producer] # "enqueue_head" => head = q[Len(q)]
    /\ pc[Producer] = "enqueue_head" => node[Producer] = q[Len(q)]

\* The dummy belongs to one consumer, or to nobody.
QueueEnds(q) ==
    /\ tail # Null => tail = q[1]
    /\ \A c \in Consumers : Consuming(c) => node[c] = q[1] /\ (tail = Null \/ Consumers = {c})
    /\ \A c, d \in Consumers : Consuming(c) /\ Consuming(d) => c = d
    /\ \A c \in Consumers : (pc[c] = "dequeue_found" /\ succ[c] # Null) \/ Moved(c) =>
            Len(q) >= 2 /\ succ[c] = q[2]

\* The values in the list are those that have not been taken.
ValuesInOrder(q) ==
    /\ \A i \in 1..Len(entered) : entered[i] = i
    /\ \A i \in 1..Len(taken) : taken[i] = i
    /\ Gone(q) \in Nat
    /\ \A k \in 1..(Len(q) - 1) : data[q[k + 1]] = Gone(q) + k
    /\ (\A c \in Consumers : ~Moved(c)) => Len(taken) = Gone(q)
    /\ (\E c \in Consumers : Moved(c)) => Len(taken) = Gone(q) + 1

\* The node that the producer puts in is its own, and linked to nothing.
QueueOwn(q) ==
    /\ Producing => node[Producer] \in out /\ ~InList(q, node[Producer]) /\ link[node[Producer]] = Null
    /\ pc[Producer] = "enqueue_link" => data[node[Producer]] = Len(entered) + 1

IsQueue(q) == QueueTypeOK(q) /\ QueueLinks(q) /\ QueueEnds(q) /\ ValuesInOrder(q) /\ QueueOwn(q)

\* The producer is busy with a value that there may be.
MayEnter == pc[Producer] \notin {"idle", "enqueue_head"} => Len(entered) < MaxValues

QueueInd == FreeListInv /\ (\E q : IsQueue(q)) /\ MayEnter

\* A step of the allocator leaves the nodes alone that are out; one that it gives
\* out is linked to nothing.
LEMMA OutIsLeftAlone ==
    ASSUME AllocatorSizes, FreeListInv, NEW t \in Threads, AllocStep(t) \/ FreeStep(t)
    PROVE  /\ link' \in [Nodes -> Nodes \cup {Null}] /\ DOMAIN pc' = Threads
           /\ \A n \in out : link'[n] = link[n] /\ n \in out' /\ n \in Nodes
           /\ \A u \in Threads : u # t => Stands(u)
           /\ pc'[t] = "allocated" =>
                node'[t] \in out' /\ node'[t] \notin out /\ node'[t] \in Nodes /\ link'[node'[t]] = Null
           /\ AllocStep(t) => pc[t] \in {"alloc", "alloc_look", "alloc_put", "alloc_grow",
                                         "alloc_clear", "alloc_link"}
           /\ AllocStep(t) => pc'[t] \in {"alloc_look", "alloc_put", "alloc_grow", "alloc_clear",
                                          "alloc_link", "allocated"}
           /\ FreeStep(t) => pc[t] \in {"free", "free_give", "free_link"}
           /\ FreeStep(t) => pc'[t] \in {"free_give", "free_link", "idle"}
  <1>1. PICK list : IsFreeList(list)
    BY DEF FreeListInv
  <1>2. ListBounds(list) /\ out \subseteq 1..created /\ out \subseteq Nodes
    BY <1>1, ListFacts DEF IsFreeList, OnePlace, ListBounds
  <1>3. /\ \A k \in 1..Len(list) : list[k] \notin out
        /\ \A u \in Threads : Holds(u) => node[u] \notin out /\ ~InList(list, node[u])
        /\ \A u \in Threads : pc[u] \in {"free_give", "alloc_link"} => link[node[u]] = Null
        /\ FreeListInv'
    BY <1>1, AllocatorKeeps DEF IsFreeList, OnePlace, Unlinked
  <1>4. link' \in [Nodes -> Nodes \cup {Null}] /\ DOMAIN pc' = Threads
    BY <1>3, ListFacts DEF FreeListInv, IsFreeList, ListTypeOK, AllocatorTypeOK
  <1>5. \A u \in Threads : u # t => Stands(u)
    BY <1>2 DEF ListBounds, Stands, AllocStep, FreeStep, AllocTake, AllocLook, AllocPutBack,
       AllocAdvance, AllocClear, AllocGrow, AllocLink, FreeClear, FreeExchange, FreeLink, Goto, Finish
  <1>6. /\ AllocStep(t) => pc[t] \in {"alloc", "alloc_look", "alloc_put", "alloc_grow",
                                      "alloc_clear", "alloc_link"}
        /\ AllocStep(t) => pc'[t] \in {"alloc_look", "alloc_put", "alloc_grow", "alloc_clear",
                                       "alloc_link", "allocated"}
        /\ FreeStep(t) => pc[t] \in {"free", "free_give", "free_link"}
        /\ FreeStep(t) => pc'[t] \in {"free_give", "free_link", "idle"}
    BY <1>2 DEF ListBounds, AllocStep, FreeStep, AllocTake, AllocLook, AllocPutBack,
       AllocAdvance, AllocClear, AllocGrow, AllocLink, FreeClear, FreeExchange, FreeLink, Goto, Finish
  <1>7. CASE AllocClear(t) \/ FreeClear(t)
    <2>1. Holds(t) /\ node[t] \in Nodes /\ node[t] \notin out
      BY <1>2, <1>3, <1>7 DEF AllocClear, FreeClear, Holds, ListBounds
    <2>2. /\ link'[node[t]] = Null /\ \A n \in Nodes : n # node[t] => link'[n] = link[n]
          /\ node' = node
      BY <1>2, <1>7, <2>1 DEF AllocClear, FreeClear, ListBounds
    <2>3. AllocClear(t) => node[t] \in out' /\ out \subseteq out'
      BY DEF AllocClear
    <2>4. FreeClear(t) => pc'[t] # "allocated" /\ out \subseteq out'
      BY <1>2 DEF FreeClear, Goto, ListBounds
    <2> QED BY <1>2, <1>4, <1>5, <1>6, <1>7, <2>1, <2>2, <2>3, <2>4
  <1>8. CASE AllocLink(t) \/ FreeLink(t)
    <2>1. Appends(t)
      BY <1>8 DEF AllocLink, FreeLink, Appends
    <2>2. PICK k \in 1..(Len(list) - 1) :
            /\ k \in 1..Len(list) /\ succ[t] = list[k] /\ succ[t] \in Nodes /\ InList(list, list[k])
      BY <1>1, <2>1, LinkIsStored
    <2>3. \A n \in Nodes : n # succ[t] => link'[n] = link[n]
      BY <1>2, <1>8 DEF AllocLink, FreeLink, ListBounds
    <2>4. succ[t] \notin out
      BY <1>3, <2>2
    <2>5. \A n \in out : link'[n] = link[n] /\ n \in out' /\ n \in Nodes
      BY <1>2, <1>8, <2>3, <2>4 DEF AllocLink, FreeLink
    <2>6. FreeLink(t) => pc'[t] # "allocated"
      BY <1>2 DEF FreeLink, Finish, Goto, ListBounds
    <2>7. AllocLink(t) => /\ node'[t] \in out' /\ node'[t] \notin out /\ node'[t] \in Nodes
                          /\ link'[node'[t]] = Null
      <3> SUFFICES ASSUME AllocLink(t) PROVE /\ node'[t] \in out' /\ node'[t] \notin out
                                             /\ node'[t] \in Nodes /\ link'[node'[t]] = Null
        OBVIOUS
      <3>1. Holds(t) /\ pc[t] = "alloc_link" /\ node' = node /\ out' = out \cup {node[t]}
        BY DEF AllocLink, Holds
      <3>2. node[t] \in Nodes /\ node[t] \notin out /\ ~InList(list, node[t]) /\ link[node[t]] = Null
        BY <1>2, <1>3, <3>1 DEF ListBounds
      <3> QED BY <2>2, <2>3, <3>1, <3>2
    <2> QED BY <1>4, <1>5, <1>6, <1>8, <2>5, <2>6, <2>7
  <1>9. CASE AllocGrow(t)
    <2>1. \A n \in Nodes : n \in 1..created => link'[n] = link[n]
      BY <1>2, <1>9 DEF AllocGrow, ListBounds
    <2>2. pc'[t] # "allocated" /\ out' = out
      BY <1>2, <1>9 DEF AllocGrow, Goto, ListBounds
    <2> QED BY <1>2, <1>4, <1>5, <1>6, <2>1, <2>2
  <1>10. CASE AllocTake(t) \/ AllocLook(t) \/ AllocPutBack(t) \/ AllocAdvance(t) \/ FreeExchange(t)
    <2>1. link' = link /\ out' = out /\ pc'[t] # "allocated"
      BY <1>2, <1>10 DEF AllocTake, AllocLook, AllocPutBack, AllocAdvance, FreeExchange, Goto, ListBounds
    <2> QED BY <1>2, <1>4, <1>5, <1>6, <2>1
  <1> QED BY <1>7, <1>8, <1>9, <1>10 DEF AllocStep, FreeStep

\* The types that every step needs.
QueueBounds(q) ==
    /\ DOMAIN pc = Threads /\ link \in [Nodes -> Nodes \cup {Null}]
    /\ node \in [Threads -> Nodes \cup {Null}] /\ succ \in [Threads -> Nodes \cup {Null}]
    /\ Null \notin Nodes /\ out \subseteq Nodes
    /\ Len(q) \in Nat /\ Len(entered) \in Nat /\ Len(taken) \in Nat
    /\ 1 \in 1..Len(q) /\ Len(q) \in 1..Len(q)
    /\ \A k \in 1..Len(q) : q[k] \in Nodes /\ q[k] \in out /\ InList(q, q[k])
    /\ \A k \in 1..(Len(q) - 1) : k \in 1..Len(q) /\ k + 1 \in 1..Len(q)
    /\ Producer \in Threads /\ Consumers \subseteq Threads /\ Producer \notin Consumers
    /\ \A t \in Threads : t = Producer \/ t \in Consumers

LEMMA QueueFacts ==
    ASSUME QueueSizes, FreeListInv, NEW q, IsQueue(q)
    PROVE  QueueBounds(q)
  <1>1. PICK list : IsFreeList(list)
    BY DEF FreeListInv
  <1>2. ListBounds(list) /\ out \subseteq Nodes
    BY <1>1, ListFacts DEF QueueSizes, IsFreeList, ListTypeOK, AllocatorTypeOK
  <1>3. q \in Seq(Nodes) /\ Len(q) >= 1 /\ entered \in Seq(Nat) /\ taken \in Seq(Nat)
        /\ \A k \in 1..Len(q) : q[k] \in out
    BY DEF IsQueue, QueueTypeOK
  <1>4. Producer \in Threads /\ Consumers \subseteq Threads /\ Producer \notin Consumers
        /\ \A t \in Threads : t = Producer \/ t \in Consumers
    BY DEF QueueSizes, Consumers
  <1> QED BY <1>2, <1>3, <1>4 DEF QueueBounds, ListBounds, InList

\* A thread in the allocator does not disturb the queue.
LEMMA AllocatorLeavesQueue ==
    ASSUME QueueSizes, FreeListInv, NEW q, IsQueue(q), NEW t \in Threads, UNCHANGED queueVars,
           \/ t = Producer /\ AllocStep(t)
           \/ t \in Consumers /\ FreeStep(t)
    PROVE  FreeListInv' /\ IsQueue(q)'
  <1>1. QueueBounds(q) /\ AllocatorSizes /\ FreeListInv'
    BY QueueFacts, AllocatorKeeps DEF QueueSizes
  <1>2. /\ \A n \in out : link'[n] = link[n] /\ n \in out'
        /\ \A u \in Threads : u # t => pc'[u] = pc[u] /\ node'[u] = node[u] /\ succ'[u] = succ[u]
        /\ pc'[t] = "allocated" => node'[t] \in out' /\ node'[t] \notin out /\ link'[node'[t]] = Null
        /\ pc[t] \notin {"dequeue_look", "dequeue_found", "dequeue_tail", "allocated",
                         "enqueue_link", "enqueue_head"}
        /\ pc'[t] \notin {"dequeue_look", "dequeue_found", "dequeue_tail",
                          "enqueue_link", "enqueue_head"}
        /\ t = Producer => pc'[t] \notin {"free", "free_give", "free_link"}
        /\ t # Producer => pc'[t] # "allocated"
    BY <1>1, OutIsLeftAlone DEF Stands, QueueBounds
  <1>3. head' = head /\ tail' = tail /\ data' = data /\ entered' = entered /\ taken' = taken
    BY DEF queueVars
  <1>4. \A c \in Consumers :
            /\ Consuming(c)' <=> Consuming(c)
            /\ Moved(c)' <=> Moved(c)
            /\ Consuming(c) => pc'[c] = pc[c] /\ node'[c] = node[c] /\ succ'[c] = succ[c]
    BY <1>1, <1>2 DEF QueueBounds, Consuming, Moved
  <1>5. QueueTypeOK(q)'
    BY <1>1, <1>2, <1>3 DEF QueueBounds, IsQueue, QueueTypeOK
  <1>6. QueueLinks(q)'
    <2>1. /\ pc'[Producer] = "enqueue_head" <=> pc[Producer] = "enqueue_head"
          /\ pc'[Producer] = "enqueue_head" => node'[Producer] = node[Producer]
      BY <1>1, <1>2 DEF QueueBounds
    <2>2. \A k \in 1..Len(q) : link'[q[k]] = link[q[k]]
      BY <1>1, <1>2 DEF QueueBounds
    <2> QED BY <1>1, <1>3, <2>1, <2>2 DEF QueueBounds, IsQueue, QueueLinks
  <1>7. QueueEnds(q)'
    BY <1>1, <1>3, <1>4 DEF QueueBounds, IsQueue, QueueEnds, Consuming, Moved
  <1>8. ValuesInOrder(q)'
    BY <1>3, <1>4 DEF IsQueue, ValuesInOrder, Gone
  <1>9. QueueOwn(q)'
    <2>1. CASE t = Producer
      <3>1. ~InList(q, node'[t]) \/ pc'[t] # "allocated"
        BY <1>1, <1>2 DEF QueueBounds, InList
      <3> QED BY <1>2, <2>1, <3>1 DEF QueueOwn, Producing, InList
    <2>2. CASE t # Producer
      <3>1. pc'[Producer] = pc[Producer] /\ node'[Producer] = node[Producer]
        BY <1>1, <1>2, <2>2 DEF QueueBounds
      <3>2. Producing => /\ node[Producer] \in out /\ node'[Producer] \in out'
                         /\ ~InList(q, node'[Producer]) /\ link'[node'[Producer]] = Null
        BY <1>2, <3>1 DEF IsQueue, QueueOwn
      <3> QED BY <1>3, <3>1, <3>2 DEF IsQueue, QueueOwn, Producing, InList
    <2> QED BY <2>1, <2>2
  <1> QED BY <1>1, <1>5, <1>6, <1>7, <1>8, <1>9 DEF IsQueue

LEMMA EnqueueKeeps ==
    ASSUME QueueSizes, FreeListInv, NEW q, IsQueue(q), Enqueue
    PROVE  FreeListInv' /\ IsQueue(q)'
  <1>1. QueueBounds(q)
    BY QueueFacts
  <1>2. /\ pc[Producer] = "idle" /\ pc'[Producer] = "alloc" /\ DOMAIN pc' = Threads
        /\ \A u \in Threads : u # Producer => pc'[u] = pc[u]
        /\ UNCHANGED <<link, free_head, free_tail, created, node, succ, out, head, tail, data,
                       entered, taken>>
    BY <1>1 DEF Enqueue, Goto, queueVars, QueueBounds
  <1>3. FreeListInv'
    <2>1. ListRests
      BY <1>1, <1>2 DEF ListRests, QueueBounds
    <2>2. Outside(Producer) /\ Outside(Producer)'
      BY <1>2 DEF Outside, TakesTail, Holds, Appends
    <2>3. \A u \in Threads : u # Producer => Stands(u)
      BY <1>2 DEF Stands
    <2> QED BY <1>2, <2>1, <2>2, <2>3, OutsideKeeps DEF QueueSizes
  <1>4. \A c \in Consumers : pc'[c] = pc[c] /\ (Consuming(c)' <=> Consuming(c)) /\ (Moved(c)' <=> Moved(c))
    BY <1>1, <1>2 DEF QueueBounds, Consuming, Moved
  <1>5. QueueTypeOK(q)' /\ QueueLinks(q)'
    BY <1>2, <1>4 DEF IsQueue, QueueTypeOK, QueueLinks
  <1>6. QueueEnds(q)' /\ ValuesInOrder(q)'
    BY <1>2, <1>4 DEF IsQueue, QueueEnds, ValuesInOrder, Gone
  <1>7. QueueOwn(q)'
    BY <1>2 DEF QueueOwn, Producing
  <1> QED BY <1>3, <1>5, <1>6, <1>7 DEF IsQueue

LEMMA EnqueueDataKeeps ==
    ASSUME QueueSizes, FreeListInv, NEW q, IsQueue(q), EnqueueData
    PROVE  FreeListInv' /\ IsQueue(q)'
  <1>1. QueueBounds(q)
    BY QueueFacts
  <1>2. Producing /\ node[Producer] \in Nodes /\ ~InList(q, node[Producer])
    BY <1>1 DEF EnqueueData, Producing, IsQueue, QueueOwn, QueueBounds
  <1>3. /\ pc[Producer] = "allocated" /\ pc'[Producer] = "enqueue_link" /\ DOMAIN pc' = Threads
        /\ \A u \in Threads : u # Producer => pc'[u] = pc[u]
        /\ data' \in [Nodes -> Nat] /\ data'[node[Producer]] = Len(entered) + 1
        /\ \A n \in Nodes : n # node[Producer] => data'[n] = data[n]
        /\ UNCHANGED <<link, free_head, free_tail, created, node, succ, out, head, tail, entered, taken>>
    BY <1>1, <1>2 DEF EnqueueData, Goto, QueueBounds, IsQueue, QueueTypeOK
  <1>4. FreeListInv'
    <2>1. ListRests
      BY <1>1, <1>3 DEF ListRests, QueueBounds
    <2>2. Outside(Producer) /\ Outside(Producer)'
      BY <1>3 DEF Outside, TakesTail, Holds, Appends
    <2>3. \A u \in Threads : u # Producer => Stands(u)
      BY <1>3 DEF Stands
    <2> QED BY <1>3, <2>1, <2>2, <2>3, OutsideKeeps DEF QueueSizes
  <1>5. \A c \in Consumers : pc'[c] = pc[c] /\ (Consuming(c)' <=> Consuming(c)) /\ (Moved(c)' <=> Moved(c))
    BY <1>1, <1>3 DEF QueueBounds, Consuming, Moved
  <1>6. QueueTypeOK(q)' /\ QueueLinks(q)'
    BY <1>3, <1>5 DEF IsQueue, QueueTypeOK, QueueLinks
  <1>7. QueueEnds(q)'
    BY <1>3, <1>5 DEF IsQueue, QueueEnds
  <1>8. ValuesInOrder(q)'
    <2>1. \A k \in 1..(Len(q) - 1) : data'[q[k + 1]] = data[q[k + 1]]
      BY <1>1, <1>2, <1>3 DEF QueueBounds, InList
    <2> QED BY <1>3, <1>5, <2>1 DEF IsQueue, ValuesInOrder, Gone
  <1>9. QueueOwn(q)'
    BY <1>2, <1>3 DEF IsQueue, QueueOwn, Producing, InList
  <1> QED BY <1>4, <1>6, <1>7, <1>8, <1>9 DEF IsQueue

\* The producer's node comes to the end of the list.
LEMMA EnqueueLinkKeeps ==
    ASSUME QueueSizes, FreeListInv, NEW q, IsQueue(q), EnqueueLink
    PROVE  FreeListInv' /\ \E r : IsQueue(r)'
  <1>1. QueueBounds(q)
    BY QueueFacts
  <1>2. /\ node[Producer] \in Nodes /\ node[Producer] \in out /\ ~InList(q, node[Producer])
        /\ link[node[Producer]] = Null /\ data[node[Producer]] = Len(entered) + 1
        /\ head = q[Len(q)] /\ head \in Nodes /\ head \in out
    BY <1>1 DEF EnqueueLink, Producing, IsQueue, QueueOwn, QueueLinks, QueueBounds
  <1>3. /\ pc[Producer] = "enqueue_link" /\ pc'[Producer] = "enqueue_head" /\ DOMAIN pc' = Threads
        /\ \A u \in Threads : u # Producer => pc'[u] = pc[u]
        /\ link' \in [Nodes -> Nodes \cup {Null}] /\ link'[q[Len(q)]] = node[Producer]
        /\ \A n \in Nodes : n # q[Len(q)] => link'[n] = link[n]
        /\ entered' = Append(entered, Len(entered) + 1)
        /\ UNCHANGED <<free_head, free_tail, created, node, succ, out, head, tail, data, taken>>
    BY <1>1, <1>2 DEF EnqueueLink, Goto, QueueBounds
  <1>4. FreeListInv'
    <2>1. ListRests
      BY <1>1, <1>2, <1>3 DEF ListRests, QueueBounds
    <2>2. Outside(Producer) /\ Outside(Producer)'
      BY <1>3 DEF Outside, TakesTail, Holds, Appends
    <2>3. \A u \in Threads : u # Producer => Stands(u)
      BY <1>3 DEF Stands
    <2> QED BY <1>3, <2>1, <2>2, <2>3, OutsideKeeps DEF QueueSizes
  <1>5. \A c \in Consumers : pc'[c] = pc[c] /\ (Consuming(c)' <=> Consuming(c)) /\ (Moved(c)' <=> Moved(c))
    BY <1>1, <1>3 DEF QueueBounds, Consuming, Moved
  <1>6. PICK r : r = Append(q, node[Producer])
    OBVIOUS
  <1>7. /\ r \in Seq(Nodes) /\ Len(r) = Len(q) + 1 /\ r[Len(r)] = node[Producer]
        /\ \A k \in 1..Len(q) : r[k] = q[k] /\ k \in 1..Len(r)
    BY <1>2, <1>6 DEF IsQueue, QueueTypeOK
  <1>8. /\ \A k \in 1..Len(r) : k \in 1..Len(q) \/ k = Len(r)
        /\ \A k \in 1..(Len(r) - 1) : k \in 1..Len(q) /\ (k = Len(q) \/ k \in 1..(Len(q) - 1))
        /\ \A k \in 1..(Len(q) - 1) : k + 1 \in 1..Len(q)
        /\ Len(r) - 1 = Len(q) /\ Len(r) >= 2 /\ r[1] = q[1] /\ (Len(q) >= 2 => r[2] = q[2])
    <2>1. Len(q) \in Nat /\ Len(q) >= 1 /\ Len(r) = Len(q) + 1
      BY <1>1, <1>7 DEF QueueBounds
    <2>2. r[1] = q[1] /\ (Len(q) >= 2 => r[2] = q[2])
      BY <1>7, <2>1
    <2> QED BY <2>1, <2>2
  <1>9. /\ entered' \in Seq(Nat) /\ Len(entered') = Len(entered) + 1
        /\ \A i \in 1..Len(entered) : entered'[i] = entered[i]
        /\ entered'[Len(entered) + 1] = Len(entered) + 1
        /\ \A i \in 1..Len(entered') : i \in 1..Len(entered) \/ i = Len(entered) + 1
    BY <1>1, <1>3 DEF IsQueue, QueueTypeOK, QueueBounds
  <1>10. \A k \in 1..Len(q) : q[k] # node[Producer] /\ q[k] \in Nodes
    BY <1>1, <1>2 DEF QueueBounds, InList
  <1>11. QueueTypeOK(r)'
    <2>1. ASSUME NEW k \in 1..Len(r), NEW m \in 1..Len(r), r[k] = r[m] PROVE k = m
      <3>1. CASE k \in 1..Len(q) /\ m \in 1..Len(q)
        <4>1. q[k] = q[m]
          BY <1>7, <2>1, <3>1
        <4> QED BY <3>1, <4>1 DEF IsQueue, QueueTypeOK
      <3>2. CASE k \notin 1..Len(q) \/ m \notin 1..Len(q)
        <4>1. r[Len(r)] = node[Producer] /\ \A i \in 1..Len(q) : r[i] # node[Producer]
          BY <1>7, <1>10
        <4>2. k = Len(r) \/ m = Len(r)
          BY <1>8, <3>2
        <4>3. r[k] = node[Producer] /\ r[m] = node[Producer]
          BY <2>1, <4>1, <4>2
        <4> QED BY <1>8, <4>1, <4>3
      <3> QED BY <3>1, <3>2
    <2>2. \A k \in 1..Len(r) : r[k] \in out
      BY <1>1, <1>2, <1>7, <1>8 DEF QueueBounds
    <2>3. data' \in [Nodes -> Nat] /\ taken' \in Seq(Nat) /\ head' \in Nodes /\ tail' \in Nodes \cup {Null}
      BY <1>3 DEF IsQueue, QueueTypeOK
    <2>4. /\ \A c \in Consumers : ~(pc'[c] \in {"allocated", "enqueue_link", "enqueue_head"})
          /\ pc'[Producer] = "enqueue_head" /\ out' = out
      BY <1>3, <1>5 DEF IsQueue, QueueTypeOK
    <2>5. r \in Seq(Nodes) /\ Len(r) >= 1 /\ entered' \in Seq(Nat)
      BY <1>1, <1>7, <1>9 DEF QueueBounds
    <2>6. \A k, m \in 1..Len(r) : r[k] = r[m] => k = m
      BY <2>1
    <2> QED BY <2>2, <2>3, <2>4, <2>5, <2>6 DEF QueueTypeOK
  <1>12. QueueLinks(r)'
    <2>1. \A k \in 1..(Len(q) - 1) : link'[r[k]] = r[k + 1]
      <3> SUFFICES ASSUME NEW k \in 1..(Len(q) - 1) PROVE link'[r[k]] = r[k + 1]
        OBVIOUS
      <3>1. k \in 1..Len(q) /\ k + 1 \in 1..Len(q) /\ k # Len(q) /\ Len(q) \in 1..Len(q)
        BY <1>1 DEF QueueBounds
      <3>2. q[k] # q[Len(q)] /\ link[q[k]] = q[k + 1]
        BY <3>1 DEF IsQueue, QueueTypeOK, QueueLinks
      <3> QED BY <1>3, <1>7, <1>10, <3>1, <3>2
    <2>2. link'[r[Len(q)]] = r[Len(q) + 1]
      BY <1>1, <1>3, <1>7 DEF QueueBounds
    <2>3. \A k \in 1..(Len(r) - 1) : link'[r[k]] = r[k + 1]
      BY <1>8, <2>1, <2>2
    <2>4. link'[r[Len(r)]] = Null
      BY <1>1, <1>2, <1>3, <1>7, <1>10 DEF QueueBounds
    <2> QED BY <1>3, <1>7, <2>3, <2>4 DEF QueueLinks
  <1>13. QueueEnds(r)'
    BY <1>3, <1>5, <1>8 DEF IsQueue, QueueEnds
  <1>14. ValuesInOrder(r)'
    <2>1. Gone(r)' = Gone(q)
      BY <1>1, <1>7, <1>9 DEF Gone, QueueBounds
    <2>2. \A k \in 1..(Len(r) - 1) : data[r[k + 1]] = Gone(q) + k
      <3>1. \A k \in 1..(Len(q) - 1) : data[r[k + 1]] = Gone(q) + k
        BY <1>7, <1>8 DEF IsQueue, ValuesInOrder
      <3>2. data[r[Len(q) + 1]] = Gone(q) + Len(q)
        BY <1>1, <1>2, <1>7 DEF Gone, QueueBounds
      <3> QED BY <1>8, <3>1, <3>2
    <2>3. \A i \in 1..Len(entered') : entered'[i] = i
      BY <1>9 DEF IsQueue, ValuesInOrder
    <2> QED BY <1>3, <1>5, <2>1, <2>2, <2>3 DEF IsQueue, ValuesInOrder
  <1>15. QueueOwn(r)'
    BY <1>3 DEF QueueOwn, Producing
  <1> QED BY <1>4, <1>11, <1>12, <1>13, <1>14, <1>15 DEF IsQueue

LEMMA EnqueueHeadKeeps ==
    ASSUME QueueSizes, FreeListInv, NEW q, IsQueue(q), EnqueueHead
    PROVE  FreeListInv' /\ IsQueue(q)'
  <1>1. QueueBounds(q)
    BY QueueFacts
  <1>2. /\ pc[Producer] = "enqueue_head" /\ pc'[Producer] = "idle" /\ DOMAIN pc' = Threads
        /\ \A u \in Threads : u # Producer => Stands(u)
        /\ node' \in [Threads -> Nodes \cup {Null}] /\ succ' \in [Threads -> Nodes \cup {Null}]
        /\ head' = q[Len(q)] /\ head' \in Nodes
        /\ UNCHANGED <<link, free_head, free_tail, created, out, tail, data, entered, taken>>
    BY <1>1 DEF EnqueueHead, Finish, Goto, Stands, QueueBounds, IsQueue, QueueLinks
  <1>3. FreeListInv'
    <2>1. ListRests
      BY <1>1, <1>2 DEF ListRests, QueueBounds
    <2>2. Outside(Producer) /\ Outside(Producer)'
      BY <1>2 DEF Outside, TakesTail, Holds, Appends
    <2> QED BY <1>2, <2>1, <2>2, OutsideKeeps DEF QueueSizes
  <1>4. \A c \in Consumers : /\ pc'[c] = pc[c] /\ node'[c] = node[c] /\ succ'[c] = succ[c]
                             /\ (Consuming(c)' <=> Consuming(c)) /\ (Moved(c)' <=> Moved(c))
    BY <1>1, <1>2 DEF QueueBounds, Consuming, Moved, Stands
  <1>5. QueueTypeOK(q)' /\ QueueLinks(q)'
    BY <1>2, <1>4 DEF IsQueue, QueueTypeOK, QueueLinks
  <1>6. QueueEnds(q)' /\ ValuesInOrder(q)'
    BY <1>2, <1>4 DEF IsQueue, QueueEnds, ValuesInOrder, Gone
  <1>7. QueueOwn(q)'
    BY <1>2 DEF QueueOwn, Producing
  <1> QED BY <1>3, <1>5, <1>6, <1>7 DEF IsQueue

LEMMA TakeKeeps ==
    ASSUME QueueSizes, FreeListInv, NEW q, IsQueue(q), NEW c \in Consumers, DequeueMc(c) \/ DequeueSc(c)
    PROVE  FreeListInv' /\ IsQueue(q)'
  <1>1. QueueBounds(q) /\ c \in Threads /\ c # Producer
    BY QueueFacts DEF QueueBounds
  <1>2. /\ pc[c] = "idle" /\ pc'[c] = "dequeue_look" /\ DOMAIN pc' = Threads
        /\ tail # Null /\ tail \in Nodes /\ node'[c] = tail /\ node' \in [Threads -> Nodes \cup {Null}]
        /\ tail' = Null \/ (tail' = tail /\ Consumers = {c})
        /\ \A u \in Threads : u # c => pc'[u] = pc[u] /\ node'[u] = node[u]
        /\ UNCHANGED <<link, free_head, free_tail, created, succ, out, head, data, entered, taken>>
    BY <1>1 DEF DequeueMc, DequeueSc, Take, Goto, QueueBounds, IsQueue, QueueTypeOK
  <1>3. FreeListInv'
    <2>1. ListRests
      BY <1>1, <1>2 DEF ListRests, QueueBounds
    <2>2. Outside(c) /\ Outside(c)'
      BY <1>2 DEF Outside, TakesTail, Holds, Appends
    <2>3. \A u \in Threads : u # c => Stands(u)
      BY <1>2 DEF Stands
    <2> QED BY <1>2, <2>1, <2>2, <2>3, OutsideKeeps DEF QueueSizes
  <1>4. /\ pc'[Producer] = pc[Producer] /\ node'[Producer] = node[Producer]
        /\ \A d \in Consumers : d # c => pc'[d] = pc[d] /\ node'[d] = node[d]
    BY <1>1, <1>2 DEF QueueBounds
  <1>5. \A d \in Consumers : (Consuming(d)' <=> d = c) /\ (Moved(d)' <=> Moved(d)) /\ ~Moved(d)
    <2>1. \A d \in Consumers : ~Consuming(d)
      BY <1>2 DEF IsQueue, QueueEnds, Consuming
    <2> QED BY <1>2, <1>4, <2>1 DEF Consuming, Moved
  <1>6. tail = q[1] /\ tail' \in Nodes \cup {Null} /\ (tail' # Null => tail' = q[1])
    BY <1>2 DEF IsQueue, QueueEnds
  <1>7. QueueTypeOK(q)' /\ QueueLinks(q)'
    BY <1>2, <1>4, <1>6 DEF IsQueue, QueueTypeOK, QueueLinks
  <1>8. QueueEnds(q)'
    BY <1>2, <1>4, <1>5, <1>6 DEF QueueEnds, Consuming, Moved
  <1>9. ValuesInOrder(q)' /\ QueueOwn(q)'
    BY <1>2, <1>4, <1>5 DEF IsQueue, ValuesInOrder, Gone, QueueOwn, Producing
  <1> QED BY <1>3, <1>7, <1>8, <1>9 DEF IsQueue

\* What it reads in the dummy is the second node, if there is one.
LEMMA DequeueLookKeeps ==
    ASSUME QueueSizes, FreeListInv, NEW q, IsQueue(q), NEW c \in Consumers, DequeueLook(c)
    PROVE  FreeListInv' /\ IsQueue(q)'
  <1>1. QueueBounds(q) /\ c \in Threads /\ c # Producer
    BY QueueFacts DEF QueueBounds
  <1>2. Consuming(c) /\ node[c] = q[1] /\ node[c] \in Nodes
    BY <1>1 DEF DequeueLook, Consuming, IsQueue, QueueEnds, QueueBounds
  <1>3. /\ pc[c] = "dequeue_look" /\ pc'[c] = "dequeue_found" /\ DOMAIN pc' = Threads
        /\ succ'[c] = link[q[1]] /\ succ' \in [Threads -> Nodes \cup {Null}]
        /\ \A u \in Threads : u # c => pc'[u] = pc[u] /\ succ'[u] = succ[u]
        /\ UNCHANGED <<link, free_head, free_tail, created, node, out, head, tail, data, entered, taken>>
    BY <1>1, <1>2 DEF DequeueLook, Goto, QueueBounds, queueVars
  <1>4. FreeListInv'
    <2>1. ListRests
      BY <1>1, <1>3 DEF ListRests, QueueBounds
    <2>2. Outside(c) /\ Outside(c)'
      BY <1>3 DEF Outside, TakesTail, Holds, Appends
    <2>3. \A u \in Threads : u # c => Stands(u)
      BY <1>3 DEF Stands
    <2> QED BY <1>3, <2>1, <2>2, <2>3, OutsideKeeps DEF QueueSizes
  <1>5. /\ pc'[Producer] = pc[Producer]
        /\ \A d \in Consumers : d # c => pc'[d] = pc[d] /\ succ'[d] = succ[d]
    BY <1>1, <1>3 DEF QueueBounds
  <1>6. \A d \in Consumers : (Consuming(d)' <=> Consuming(d)) /\ (Moved(d)' <=> Moved(d))
    BY <1>3, <1>5 DEF Consuming, Moved
  <1>7. link[q[1]] # Null => Len(q) >= 2 /\ link[q[1]] = q[2]
    <2>1. link[q[1]] # Null => Len(q) # 1
      BY DEF IsQueue, QueueLinks
    <2>2. Len(q) \in Nat /\ Len(q) >= 1
      BY <1>1 DEF QueueBounds, IsQueue, QueueTypeOK
    <2>3. Len(q) = 1 \/ (Len(q) >= 2 /\ 1 \in 1..(Len(q) - 1))
      <3>1. \A n \in Nat : n >= 1 => n = 1 \/ (n >= 2 /\ 1 \in 1..(n - 1))
        OBVIOUS
      <3> QED BY <2>2, <3>1
    <2>4. 1 \in 1..(Len(q) - 1) => link[q[1]] = q[1 + 1]
      BY DEF IsQueue, QueueLinks
    <2> QED BY <2>1, <2>3, <2>4
  <1>8. QueueTypeOK(q)' /\ QueueLinks(q)'
    BY <1>3, <1>5 DEF IsQueue, QueueTypeOK, QueueLinks
  <1>9. QueueEnds(q)'
    BY <1>3, <1>5, <1>6, <1>7 DEF IsQueue, QueueEnds, Moved
  <1>10. ValuesInOrder(q)' /\ QueueOwn(q)'
    BY <1>3, <1>5, <1>6 DEF IsQueue, ValuesInOrder, Gone, QueueOwn, Producing
  <1> QED BY <1>4, <1>8, <1>9, <1>10 DEF IsQueue

LEMMA DequeueEmptyKeeps ==
    ASSUME QueueSizes, FreeListInv, NEW q, IsQueue(q), NEW c \in Consumers, DequeueEmpty(c)
    PROVE  FreeListInv' /\ IsQueue(q)'
  <1>1. QueueBounds(q) /\ c \in Threads /\ c # Producer
    BY QueueFacts DEF QueueBounds
  <1>2. Consuming(c) /\ node[c] = q[1] /\ node[c] \in Nodes
    BY <1>1 DEF DequeueEmpty, Consuming, IsQueue, QueueEnds, QueueBounds
  <1>3. /\ pc[c] = "dequeue_found" /\ pc'[c] = "idle" /\ DOMAIN pc' = Threads
        /\ tail' = q[1] /\ tail' \in Nodes
        /\ node' \in [Threads -> Nodes \cup {Null}] /\ succ' \in [Threads -> Nodes \cup {Null}]
        /\ \A u \in Threads : u # c => pc'[u] = pc[u] /\ node'[u] = node[u] /\ succ'[u] = succ[u]
        /\ UNCHANGED <<link, free_head, free_tail, created, out, head, data, entered, taken>>
    BY <1>1, <1>2 DEF DequeueEmpty, Finish, Goto, QueueBounds
  <1>4. FreeListInv'
    <2>1. ListRests
      BY <1>1, <1>3 DEF ListRests, QueueBounds
    <2>2. Outside(c) /\ Outside(c)'
      BY <1>3 DEF Outside, TakesTail, Holds, Appends
    <2>3. \A u \in Threads : u # c => Stands(u)
      BY <1>3 DEF Stands
    <2> QED BY <1>3, <2>1, <2>2, <2>3, OutsideKeeps DEF QueueSizes
  <1>5. /\ pc'[Producer] = pc[Producer] /\ node'[Producer] = node[Producer]
        /\ \A d \in Consumers : d # c => pc'[d] = pc[d]
    BY <1>1, <1>3 DEF QueueBounds
  <1>6. \A d \in Consumers : ~Consuming(d)' /\ ~Moved(d)' /\ ~Moved(d)
    <2>1. \A d \in Consumers : Consuming(d) => d = c
      BY <1>2 DEF IsQueue, QueueEnds
    <2> QED BY <1>3, <1>5, <2>1 DEF Consuming, Moved
  <1>7. QueueTypeOK(q)' /\ QueueLinks(q)'
    BY <1>3, <1>5 DEF IsQueue, QueueTypeOK, QueueLinks
  <1>8. QueueEnds(q)'
    BY <1>3, <1>6 DEF QueueEnds, Consuming, Moved
  <1>9. ValuesInOrder(q)' /\ QueueOwn(q)'
    BY <1>3, <1>5, <1>6 DEF IsQueue, ValuesInOrder, Gone, QueueOwn, Producing
  <1> QED BY <1>4, <1>7, <1>8, <1>9 DEF IsQueue

\* The value that is moved out is the one after those taken before.
LEMMA WhatIsMoved ==
    ASSUME QueueSizes, FreeListInv, NEW q, IsQueue(q), NEW c \in Consumers, DequeueMove(c)
    PROVE  /\ succ[c] = q[2] /\ Len(q) >= 2 /\ Len(taken) = Gone(q)
           /\ data[succ[c]] = Len(taken) + 1 /\ Len(taken) < Len(entered)
           /\ \A d \in Consumers : ~Moved(d)
  <1>1. QueueBounds(q)
    BY QueueFacts
  <1>2. Consuming(c) /\ pc[c] = "dequeue_found" /\ succ[c] # Null
    BY DEF DequeueMove, Consuming
  <1>3. succ[c] = q[2] /\ Len(q) >= 2
    BY <1>2 DEF IsQueue, QueueEnds
  <1>4. \A d \in Consumers : Consuming(d) => d = c
    BY <1>2 DEF IsQueue, QueueEnds
  <1>5. \A d \in Consumers : ~Moved(d)
    BY <1>2, <1>4 DEF Moved, Consuming
  <1>6. Len(taken) = Gone(q)
    BY <1>5 DEF IsQueue, ValuesInOrder
  <1>7. 1 \in 1..(Len(q) - 1)
    BY <1>1, <1>3 DEF QueueBounds
  <1>8. data[q[1 + 1]] = Gone(q) + 1
    BY <1>7 DEF IsQueue, ValuesInOrder
  <1>9. Len(taken) < Len(entered)
    BY <1>1, <1>3, <1>6 DEF Gone, QueueBounds
  <1> QED BY <1>3, <1>5, <1>6, <1>8, <1>9

LEMMA DequeueMoveKeeps ==
    ASSUME QueueSizes, FreeListInv, NEW q, IsQueue(q), NEW c \in Consumers, DequeueMove(c)
    PROVE  FreeListInv' /\ IsQueue(q)'
  <1>1. QueueBounds(q) /\ c \in Threads /\ c # Producer
    BY QueueFacts DEF QueueBounds
  <1>2. /\ succ[c] = q[2] /\ Len(q) >= 2 /\ Len(taken) = Gone(q)
        /\ data[succ[c]] = Len(taken) + 1
        /\ \A d \in Consumers : ~Moved(d)
    BY WhatIsMoved
  <1>3. /\ pc[c] = "dequeue_found" /\ pc'[c] = "dequeue_tail" /\ DOMAIN pc' = Threads
        /\ \A u \in Threads : u # c => pc'[u] = pc[u]
        /\ UNCHANGED <<link, free_head, free_tail, created, node, succ, out, head, tail, data, entered>>
    BY <1>1 DEF DequeueMove, Goto, QueueBounds
  <1>4. /\ taken' \in Seq(Nat) /\ Len(taken') = Len(taken) + 1
        /\ \A i \in 1..Len(taken') : taken'[i] = i
    <2>1. taken' = Append(taken, Len(taken) + 1) /\ taken \in Seq(Nat) /\ Len(taken) \in Nat
      BY <1>1, <1>2 DEF DequeueMove, IsQueue, QueueTypeOK, QueueBounds
    <2>2. \A i \in 1..Len(taken) : taken[i] = i
      BY DEF IsQueue, ValuesInOrder
    <2> QED BY <2>1, <2>2
  <1>5. FreeListInv'
    <2>1. ListRests
      BY <1>1, <1>3 DEF ListRests, QueueBounds
    <2>2. Outside(c) /\ Outside(c)'
      BY <1>3 DEF Outside, TakesTail, Holds, Appends
    <2>3. \A u \in Threads : u # c => Stands(u)
      BY <1>3 DEF Stands
    <2> QED BY <1>3, <2>1, <2>2, <2>3, OutsideKeeps DEF QueueSizes
  <1>6. pc'[Producer] = pc[Producer] /\ \A d \in Consumers : d # c => pc'[d] = pc[d]
    BY <1>1, <1>3 DEF QueueBounds
  <1>7. \A d \in Consumers : (Consuming(d)' <=> Consuming(d)) /\ (Moved(d)' <=> d = c)
    BY <1>2, <1>3, <1>6 DEF Consuming, Moved
  <1>8. QueueTypeOK(q)' /\ QueueLinks(q)'
    BY <1>3, <1>4, <1>6 DEF IsQueue, QueueTypeOK, QueueLinks
  <1>9. QueueEnds(q)'
    BY <1>2, <1>3, <1>6, <1>7 DEF IsQueue, QueueEnds
  <1>10. ValuesInOrder(q)' /\ QueueOwn(q)'
    BY <1>2, <1>3, <1>4, <1>6, <1>7 DEF IsQueue, ValuesInOrder, Gone, QueueOwn, Producing
  <1> QED BY <1>5, <1>8, <1>9, <1>10 DEF IsQueue

\* The dummy goes to the free list, the node after it is the new one.
LEMMA DequeueTailKeeps ==
    ASSUME QueueSizes, FreeListInv, NEW q, IsQueue(q), NEW c \in Consumers, DequeueTail(c)
    PROVE  FreeListInv' /\ \E r : IsQueue(r)'
  <1>1. QueueBounds(q) /\ c \in Threads /\ c # Producer
    BY QueueFacts DEF QueueBounds
  <1>2. /\ Consuming(c) /\ Moved(c) /\ node[c] = q[1] /\ node[c] \in Nodes /\ node[c] \in out
        /\ Len(q) >= 2 /\ succ[c] = q[2] /\ succ[c] \in Nodes
    <2>1. pc[c] = "dequeue_tail"
      BY DEF DequeueTail
    <2>2. Consuming(c) /\ Moved(c)
      BY <2>1 DEF Consuming, Moved
    <2>3. node[c] = q[1] /\ Len(q) >= 2 /\ succ[c] = q[2]
      BY <2>2 DEF IsQueue, QueueEnds
    <2>4. 1 \in 1..Len(q) /\ 2 \in 1..Len(q)
      BY <1>1, <2>3 DEF QueueBounds
    <2> QED BY <1>1, <2>2, <2>3, <2>4 DEF QueueBounds
  <1>3. /\ pc[c] = "dequeue_tail" /\ pc'[c] = "free" /\ DOMAIN pc' = Threads
        /\ tail' = q[2] /\ tail' \in Nodes /\ out' = out \ {q[1]}
        /\ \A u \in Threads : u # c => pc'[u] = pc[u]
        /\ UNCHANGED <<link, free_head, free_tail, created, node, succ, head, data, entered, taken>>
    BY <1>1, <1>2 DEF DequeueTail, Goto, QueueBounds
  <1>4. FreeListInv'
    <2>1. ListRests
      BY <1>1, <1>3 DEF ListRests, QueueBounds
    <2>2. Outside(c)
      BY <1>3 DEF Outside, TakesTail, Holds, Appends
    <2>3. \A u \in Threads : u # c => Stands(u)
      BY <1>3 DEF Stands
    <2>4. node'[c] \in out /\ out' = out \ {node'[c]}
      BY <1>2, <1>3
    <2> QED BY <1>1, <1>3, <2>1, <2>2, <2>3, <2>4, GiveBackKeeps DEF QueueSizes
  <1>5. /\ pc'[Producer] = pc[Producer] /\ node'[Producer] = node[Producer]
        /\ \A d \in Consumers : d # c => pc'[d] = pc[d]
    BY <1>1, <1>3 DEF QueueBounds
  <1>6. \A d \in Consumers : ~Consuming(d)' /\ ~Moved(d)'
    <2>1. \A d \in Consumers : Consuming(d) => d = c
      BY <1>2 DEF IsQueue, QueueEnds
    <2> QED BY <1>3, <1>5, <2>1 DEF Consuming, Moved
  <1>7. PICK r : r = Tail(q)
    OBVIOUS
  <1>8. /\ r \in Seq(Nodes) /\ Len(r) = Len(q) - 1 /\ Len(q) \in Nat
        /\ \A k \in 1..Len(r) : r[k] = q[k + 1]
    BY <1>1, <1>2, <1>7 DEF IsQueue, QueueTypeOK, QueueBounds
  <1>9. /\ \A k \in 1..Len(r) : k + 1 \in 1..Len(q) /\ k + 1 # 1 /\ k \in 1..(Len(q) - 1)
        /\ \A k \in 1..(Len(r) - 1) : k \in 1..Len(r) /\ k + 1 \in 1..(Len(q) - 1)
                                      /\ k + 1 \in 1..Len(r) /\ r[k + 1] = q[(k + 1) + 1]
        /\ Len(r) >= 1 /\ r[1] = q[2] /\ r[Len(r)] = q[Len(q)]
        /\ 1 \in 1..Len(r) /\ Len(r) \in 1..Len(r)
    BY <1>2, <1>8
  <1>10. \A k \in 1..Len(r) : r[k] \in out /\ r[k] # q[1]
    <2> SUFFICES ASSUME NEW k \in 1..Len(r) PROVE r[k] \in out /\ r[k] # q[1]
      OBVIOUS
    <2>1. 1 \in 1..Len(q) /\ k + 1 \in 1..Len(q) /\ k + 1 # 1 /\ r[k] = q[k + 1]
      BY <1>1, <1>8, <1>9 DEF QueueBounds
    <2>2. q[k + 1] \in out
      BY <1>1, <2>1 DEF QueueBounds
    <2>3. q[k + 1] # q[1]
      BY <2>1 DEF IsQueue, QueueTypeOK
    <2> QED BY <2>1, <2>2, <2>3
  <1>11. QueueTypeOK(r)'
    <2>1. ASSUME NEW k \in 1..Len(r), NEW m \in 1..Len(r), r[k] = r[m] PROVE k = m
      <3>1. k + 1 \in 1..Len(q) /\ m + 1 \in 1..Len(q) /\ q[k + 1] = q[m + 1]
        BY <1>8, <1>9, <2>1
      <3>2. k + 1 = m + 1
        BY <3>1 DEF IsQueue, QueueTypeOK
      <3> QED BY <3>2
    <2>2. \A k, m \in 1..Len(r) : r[k] = r[m] => k = m
      BY <2>1
    <2>3. \A k \in 1..Len(r) : r[k] \in out'
      BY <1>3, <1>10
    <2> QED BY <1>3, <1>5, <1>8, <1>9, <2>2, <2>3 DEF IsQueue, QueueTypeOK
  <1>12. QueueLinks(r)'
    <2>1. \A k \in 1..(Len(r) - 1) : link[r[k]] = r[k + 1]
      BY <1>8, <1>9 DEF IsQueue, QueueLinks
    <2> QED BY <1>3, <1>5, <1>9, <2>1 DEF IsQueue, QueueLinks
  <1>13. QueueEnds(r)'
    <2>1. tail' = r[1]
      BY <1>3, <1>9
    <2> QED BY <1>6, <2>1 DEF QueueEnds, Consuming, Moved
  <1>14. ValuesInOrder(r)'
    <2>1. Gone(r)' = Gone(q) + 1 /\ Gone(q) \in Nat
      BY <1>1, <1>3, <1>8 DEF Gone, QueueBounds, IsQueue, ValuesInOrder
    <2>2. Len(taken) = Gone(q) + 1
      BY <1>2 DEF IsQueue, ValuesInOrder
    <2>3. \A k \in 1..(Len(r) - 1) : data[r[k + 1]] = (Gone(q) + 1) + k
      <3> SUFFICES ASSUME NEW k \in 1..(Len(r) - 1) PROVE data[r[k + 1]] = (Gone(q) + 1) + k
        OBVIOUS
      <3>1. k + 1 \in 1..(Len(q) - 1) /\ r[k + 1] = q[(k + 1) + 1]
        BY <1>9
      <3>2. data[q[(k + 1) + 1]] = Gone(q) + (k + 1)
        BY <3>1 DEF IsQueue, ValuesInOrder
      <3> QED BY <2>1, <3>1, <3>2
    <2> QED BY <1>3, <1>6, <2>1, <2>2, <2>3 DEF IsQueue, ValuesInOrder
  <1>15. QueueOwn(r)'
    <2>1. Producing => node[Producer] \in out' /\ ~InList(r, node[Producer])
      <3>1. Producing => node[Producer] \in out /\ ~InList(q, node[Producer])
        BY DEF IsQueue, QueueOwn
      <3>2. \A n : InList(r, n) => InList(q, n)
        BY <1>8, <1>9 DEF InList
      <3>3. InList(q, q[1])
        BY <1>1 DEF QueueBounds
      <3> QED BY <1>3, <3>1, <3>2, <3>3
    <2>2. Producing' <=> Producing
      BY <1>5 DEF Producing
    <2> QED BY <1>3, <1>5, <2>1, <2>2 DEF IsQueue, QueueOwn, InList
  <1> QED BY <1>4, <1>11, <1>12, <1>13, <1>14, <1>15 DEF IsQueue

-----------------------------------------------------------------------------
(* ListQueue as a whole *)

LEMMA QueueIndInit == ASSUME QueueSizes PROVE Init => QueueInd
  <1> SUFFICES ASSUME Init PROVE QueueInd
    OBVIOUS
  <1>1. FreeListInv
    BY AllocatorStarts DEF QueueSizes, Init
  <1>2. PICK q : q = <<1>>
    OBVIOUS
  <1>3. q \in Seq(Nodes) /\ Len(q) = 1 /\ q[1] = 1 /\ 1 \in Nodes
    BY <1>2 DEF QueueSizes, AllocatorSizes, Nodes
  <1>4. /\ head = 1 /\ tail = 1 /\ data = [n \in Nodes |-> 0] /\ entered = <<>> /\ taken = <<>>
        /\ link = [n \in Nodes |-> Null] /\ out = {1} /\ \A t \in Threads : pc[t] = "idle"
        /\ Producer \in Threads /\ Consumers \subseteq Threads
    BY DEF Init, AllocatorInit, QueueSizes, Consumers
  <1>5. \A c \in Consumers : ~Consuming(c) /\ ~Moved(c)
    BY <1>4 DEF Consuming, Moved
  <1>6. QueueTypeOK(q) /\ QueueLinks(q)
    BY <1>3, <1>4 DEF QueueTypeOK, QueueLinks
  <1>7. QueueEnds(q) /\ ValuesInOrder(q)
    BY <1>3, <1>4, <1>5 DEF QueueEnds, ValuesInOrder, Gone, Moved, Consuming
  <1>8. QueueOwn(q)
    BY <1>4 DEF QueueOwn, Producing
  <1> QED BY <1>1, <1>4, <1>6, <1>7, <1>8 DEF IsQueue, QueueInd, MayEnter

\* What a step of the queue does to the values: the producer enters the next
\* number, or a consumer takes the value that entered after those taken before.
LEMMA ValuesStep ==
    ASSUME QueueSizes, QueueInd, [Next]_vars
    PROVE  /\ MayEnter'
           /\ \/ UNCHANGED <<entered, taken>>
              \/ /\ entered' = Append(entered, Len(entered) + 1) /\ taken' = taken
                 /\ Len(entered) < MaxValues
              \/ /\ taken' = Append(taken, Len(taken) + 1) /\ entered' = entered
                 /\ Len(taken) < Len(entered)
  <1>1. PICK q : IsQueue(q)
    BY DEF QueueInd
  <1>2. QueueBounds(q) /\ FreeListInv /\ AllocatorSizes /\ MayEnter
    BY <1>1, QueueFacts DEF QueueInd, QueueSizes
  <1>3. CASE UNCHANGED vars
    BY <1>2, <1>3 DEF vars, allocatorVars, queueVars, MayEnter
  <1>4. CASE Enqueue \/ EnqueueData \/ EnqueueHead
    BY <1>2, <1>4 DEF Enqueue, EnqueueData, EnqueueHead, Finish, Goto, queueVars, MayEnter, QueueBounds
  <1>5. CASE EnqueueLink
    BY <1>2, <1>5 DEF EnqueueLink, Goto, MayEnter, QueueBounds
  <1>6. CASE AllocStep(Producer) /\ UNCHANGED queueVars
    <2>1. pc[Producer] \notin {"idle", "enqueue_head"}
      BY <1>2, <1>6, OutIsLeftAlone DEF QueueBounds
    <2> QED BY <1>2, <1>6, <2>1 DEF MayEnter, queueVars
  <1>7. ASSUME NEW c \in Consumers, ConsumerStep(c)
        PROVE  /\ MayEnter' /\ entered' = entered
               /\ \/ taken' = taken
                  \/ taken' = Append(taken, Len(taken) + 1) /\ Len(taken) < Len(entered)
    <2>1. pc'[Producer] = pc[Producer] /\ entered' = entered
      BY <1>2, <1>7 DEF ConsumerStep, DequeueMc, DequeueSc, Take, DequeueStep, DequeueLook,
         DequeueEmpty, DequeueMove, DequeueTail, FreeStep, FreeClear, FreeExchange, FreeLink,
         Goto, Finish, queueVars, QueueBounds
    <2>2. CASE DequeueMove(c)
      <3>1. data[succ[c]] = Len(taken) + 1 /\ Len(taken) < Len(entered)
        BY <1>1, <1>2, <2>2, WhatIsMoved
      <3> QED BY <1>2, <2>1, <2>2, <3>1 DEF DequeueMove, MayEnter
    <2>3. CASE ~DequeueMove(c)
      <3>1. taken' = taken
        BY <1>7, <2>3 DEF ConsumerStep, DequeueMc, DequeueSc, Take, DequeueStep, DequeueLook,
           DequeueEmpty, DequeueTail, queueVars
      <3> QED BY <1>2, <2>1, <3>1 DEF MayEnter
    <2> QED BY <2>2, <2>3
  <1> QED BY <1>3, <1>4, <1>5, <1>6, <1>7 DEF Next, ProducerStep

LEMMA QueueStep ==
    ASSUME QueueSizes, QueueInd, [Next]_vars
    PROVE  QueueInd'
  <1>1. PICK q : IsQueue(q)
    BY DEF QueueInd
  <1>2. QueueBounds(q) /\ FreeListInv /\ AllocatorSizes
    BY <1>1, QueueFacts DEF QueueInd, QueueSizes
  <1>3. CASE UNCHANGED vars
    <2>1. UNCHANGED <<link, free_head, free_tail, created, pc, node, succ, out, head, tail, data, entered, taken>>
      BY <1>3 DEF vars, allocatorVars, queueVars
    <2>2. ListRests /\ \A u \in Threads : Stands(u)
      BY <1>2, <2>1 DEF QueueBounds, ListRests, Stands
    <2>3. FreeListInv'
      BY <1>2, <2>1, <2>2, OutsideKeeps
    <2>4. IsQueue(q)'
      BY <1>1, <2>1 DEF IsQueue, QueueTypeOK, QueueLinks, QueueEnds, ValuesInOrder, Gone, QueueOwn,
         Consuming, Moved, Producing
    <2> QED BY <1>3, <2>3, <2>4, ValuesStep DEF QueueInd
  <1>4. CASE ProducerStep
    BY <1>1, <1>2, <1>4, EnqueueKeeps, EnqueueDataKeeps, EnqueueLinkKeeps, EnqueueHeadKeeps,
       AllocatorLeavesQueue, ValuesStep DEF Next, ProducerStep, QueueInd, QueueBounds
  <1>5. ASSUME NEW c \in Consumers, ConsumerStep(c) PROVE QueueInd'
    BY <1>1, <1>2, <1>5, TakeKeeps, DequeueLookKeeps, DequeueEmptyKeeps, DequeueMoveKeeps,
       DequeueTailKeeps, AllocatorLeavesQueue, ValuesStep
       DEF Next, ConsumerStep, DequeueStep, QueueInd, QueueBounds
  <1> QED BY <1>3, <1>4, <1>5 DEF Next

\* A consumer that finds no successor of the dummy finds an empty queue.
LEMMA NothingIsThere ==
    ASSUME QueueSizes, QueueInd PROVE FindsWhatIsThere
  <1> SUFFICES ASSUME NEW c \in Consumers, DequeueLook(c), link[node[c]] = Null
               PROVE  Len(taken) = Len(entered)
    BY DEF FindsWhatIsThere
  <1>1. PICK q : IsQueue(q)
    BY DEF QueueInd
  <1>2. QueueBounds(q)
    BY <1>1, QueueFacts DEF QueueInd
  <1>3. Consuming(c) /\ pc[c] = "dequeue_look"
    BY DEF DequeueLook, Consuming
  <1>4. node[c] = q[1] /\ \A d \in Consumers : Consuming(d) => d = c
    BY <1>1, <1>3 DEF IsQueue, QueueEnds
  <1>5. Len(taken) = Gone(q)
    BY <1>1, <1>3, <1>4 DEF IsQueue, ValuesInOrder, Moved, Consuming
  <1>6. Len(q) = 1
    <2> SUFFICES ASSUME Len(q) # 1 PROVE FALSE
      OBVIOUS
    <2>1. 1 \in 1..(Len(q) - 1) /\ 1 + 1 \in 1..Len(q)
      <3>1. Len(q) \in Nat /\ Len(q) >= 1
        BY <1>1, <1>2 DEF QueueBounds, IsQueue, QueueTypeOK
      <3>2. \A n \in Nat : n >= 1 => n = 1 \/ (1 \in 1..(n - 1) /\ 1 + 1 \in 1..n)
        OBVIOUS
      <3> QED BY <3>1, <3>2
    <2>2. link[q[1]] = q[1 + 1] /\ q[1 + 1] \in Nodes
      BY <1>1, <1>2, <2>1 DEF IsQueue, QueueLinks, QueueBounds
    <2> QED BY <1>2, <1>4, <2>2 DEF QueueBounds
  <1> QED BY <1>2, <1>5, <1>6 DEF Gone, QueueBounds

-----------------------------------------------------------------------------
(* ListQueue implements TaskFifo *)

\* The values that are in the queue, as the abstract specification sees them.
Waiting == SubSeq(entered, Len(taken) + 1, Len(entered))

LEMMA WaitingIs ==
    ASSUME NEW r \in Seq(Nat), NEW n \in Nat, n <= Len(r)
    PROVE  /\ SubSeq(r, n + 1, Len(r)) \in Seq(Nat)
           /\ Len(SubSeq(r, n + 1, Len(r))) = Len(r) - n
           /\ \A i \in 1..(Len(r) - n) : SubSeq(r, n + 1, Len(r))[i] = r[n + i]
  <1>1. Len(r) \in Nat /\ \A i \in (n + 1)..Len(r) : r[i] \in Nat
    OBVIOUS
  <1> QED BY <1>1, SubSeqProperties

\* What was taken is the first part of what was entered.
LEMMA TakenInOrder ==
    ASSUME QueueSizes, QueueInd
    PROVE  /\ entered \in Seq(Nat) /\ taken \in Seq(Nat)
           /\ Len(entered) \in Nat /\ Len(taken) \in Nat /\ Len(taken) <= Len(entered)
           /\ \A i \in 1..Len(entered) : entered[i] = i
           /\ \A i \in 1..Len(taken) : taken[i] = i
  <1>1. PICK q : IsQueue(q)
    BY DEF QueueInd
  <1>2. QueueBounds(q)
    BY <1>1, QueueFacts DEF QueueInd
  <1>3. Len(taken) <= Len(entered)
    <2>1. CASE \A c \in Consumers : ~Moved(c)
      BY <1>1, <1>2, <2>1 DEF IsQueue, ValuesInOrder, Gone, QueueBounds, QueueTypeOK
    <2>2. CASE \E c \in Consumers : Moved(c)
      <3>1. Len(q) >= 2 /\ Len(taken) = Gone(q) + 1
        BY <1>1, <2>2 DEF IsQueue, ValuesInOrder, QueueEnds
      <3> QED BY <1>2, <3>1 DEF Gone, QueueBounds
    <2> QED BY <2>1, <2>2
  <1> QED BY <1>1, <1>2, <1>3 DEF IsQueue, ValuesInOrder, QueueTypeOK, QueueBounds

LEMMA EnterAccepts ==
    ASSUME QueueSizes, QueueInd, QueueInd',
           entered' = Append(entered, Len(entered) + 1), taken' = taken
    PROVE  Fifo!Accept(Len(entered) + 1)
  <1>1. /\ entered \in Seq(Nat) /\ taken \in Seq(Nat)
        /\ Len(entered) \in Nat /\ Len(taken) \in Nat /\ Len(taken) <= Len(entered)
        /\ \A i \in 1..Len(entered) : entered[i] = i
        /\ \A i \in 1..Len(taken) : taken[i] = i
    BY TakenInOrder
  <1>2. PICK new : new = Append(entered, Len(entered) + 1)
    OBVIOUS
  <1>3. /\ new \in Seq(Nat) /\ Len(new) = Len(entered) + 1 /\ entered' = new
        /\ \A i \in 1..Len(new) : new[i] = i
    BY <1>1, <1>2
  <1>4. /\ Waiting \in Seq(Nat) /\ Len(Waiting) = Len(entered) - Len(taken)
        /\ \A i \in 1..Len(Waiting) : Waiting[i] = entered[Len(taken) + i]
    BY <1>1, WaitingIs DEF Waiting
  <1>5. /\ Waiting' \in Seq(Nat) /\ Len(Waiting') = Len(new) - Len(taken)
        /\ \A i \in 1..Len(Waiting') : Waiting'[i] = new[Len(taken) + i]
    <2>1. Len(taken) <= Len(new)
      BY <1>1, <1>3
    <2>2. Waiting' = SubSeq(new, Len(taken) + 1, Len(new))
      BY <1>3 DEF Waiting
    <2>3. /\ SubSeq(new, Len(taken) + 1, Len(new)) \in Seq(Nat)
          /\ Len(SubSeq(new, Len(taken) + 1, Len(new))) = Len(new) - Len(taken)
          /\ \A i \in 1..(Len(new) - Len(taken)) :
                SubSeq(new, Len(taken) + 1, Len(new))[i] = new[Len(taken) + i]
      BY <1>1, <1>3, <2>1, WaitingIs
    <2> QED BY <2>2, <2>3
  <1>6. /\ \A i \in 1..Len(Waiting) : Waiting[i] = Len(taken) + i
        /\ \A i \in 1..Len(Waiting') : Waiting'[i] = Len(taken) + i
    <2>1. \A i \in 1..(Len(entered) - Len(taken)) : Len(taken) + i \in 1..Len(entered)
      BY <1>1
    <2>2. \A i \in 1..(Len(new) - Len(taken)) : Len(taken) + i \in 1..Len(new)
      BY <1>1, <1>3
    <2> QED BY <1>1, <1>3, <1>4, <1>5, <2>1, <2>2
  <1>7. Waiting' = Append(Waiting, Len(entered) + 1)
    <2>1. PICK w : w = Append(Waiting, Len(entered) + 1)
      OBVIOUS
    <2>2. /\ w \in Seq(Nat) /\ Len(w) = Len(Waiting) + 1
          /\ \A i \in 1..Len(Waiting) : w[i] = Waiting[i]
          /\ w[Len(Waiting) + 1] = Len(entered) + 1
      BY <1>1, <1>4, <2>1
    <2>3. Len(Waiting') = Len(w)
      BY <1>1, <1>3, <1>4, <1>5, <2>2
    <2>4. \A i \in 1..Len(w) : w[i] = Len(taken) + i
      <3>1. \A i \in 1..Len(w) : i \in 1..Len(Waiting) \/ i = Len(Waiting) + 1
        <4>1. Len(Waiting) \in Nat
          BY <1>1, <1>4
        <4> QED BY <2>2, <4>1
      <3>2. Len(entered) + 1 = Len(taken) + (Len(Waiting) + 1)
        BY <1>1, <1>4
      <3> QED BY <1>6, <2>2, <3>1, <3>2
    <2>5. \A i \in 1..Len(w) : Waiting'[i] = w[i]
      BY <1>6, <2>3, <2>4
    <2>6. Waiting' = w
      BY <1>5, <2>2, <2>3, <2>5, SeqEqual
    <2> QED BY <2>1, <2>6
  <1>8. ~Fifo!Accepted(Len(entered) + 1)
    <2> SUFFICES ASSUME NEW i \in 1..Len(Waiting \o taken)
                 PROVE  (Waiting \o taken)[i] # Len(entered) + 1
      BY DEF Fifo!Accepted, Waiting
    <2>1. /\ Len(Waiting \o taken) = Len(Waiting) + Len(taken)
          /\ (Waiting \o taken)[i] = IF i <= Len(Waiting) THEN Waiting[i] ELSE taken[i - Len(Waiting)]
      <3>1. Waiting \in Seq(Nat) /\ taken \in Seq(Nat)
        BY <1>1, <1>4
      <3> QED BY <3>1, ConcatProperties
    <2>2. CASE i <= Len(Waiting)
      <3>1. i \in 1..Len(Waiting)
        BY <1>1, <1>4, <2>1, <2>2
      <3> QED BY <1>1, <1>4, <1>6, <2>1, <2>2, <3>1
    <2>3. CASE ~(i <= Len(Waiting))
      <3>1. i - Len(Waiting) \in 1..Len(taken)
        BY <1>1, <1>4, <2>1, <2>3
      <3>2. taken[i - Len(Waiting)] = i - Len(Waiting)
        BY <1>1, <3>1
      <3>3. i - Len(Waiting) # Len(entered) + 1
        BY <1>1, <3>1
      <3> QED BY <2>1, <2>3, <3>2, <3>3
    <2> QED BY <2>2, <2>3
  <1> QED BY <1>7, <1>8 DEF Fifo!Accept, Waiting

LEMMA TakeIsFirst ==
    ASSUME QueueSizes, QueueInd, entered' = entered, taken' = Append(taken, Len(taken) + 1),
           Len(taken) < Len(entered)
    PROVE  Fifo!Perform
  <1>1. /\ entered \in Seq(Nat) /\ taken \in Seq(Nat)
        /\ Len(entered) \in Nat /\ Len(taken) \in Nat
        /\ Len(taken) + 1 \in 1..Len(entered) /\ Len(entered) \in (Len(taken) + 1)..Len(entered)
        /\ entered[Len(taken) + 1] = Len(taken) + 1
    BY TakenInOrder
  <1>2. /\ Head(Waiting) = entered[Len(taken) + 1]
        /\ Tail(Waiting) = SubSeq(entered, (Len(taken) + 1) + 1, Len(entered))
    BY <1>1, HeadTailOfSubSeq DEF Waiting
  <1>3. Len(taken') = Len(taken) + 1
    BY <1>1
  <1>4. Waiting' = Tail(Waiting)
    BY <1>2, <1>3 DEF Waiting
  <1>5. Waiting # <<>>
    <2>1. Len(Waiting) = Len(entered) - Len(taken)
      BY <1>1, WaitingIs DEF Waiting
    <2>2. Len(Waiting) # 0
      BY <1>1, <2>1
    <2> QED BY <2>2
  <1> QED BY <1>1, <1>2, <1>4, <1>5 DEF Fifo!Perform, Waiting

LEMMA FifoStep ==
    ASSUME QueueSizes, QueueInd, [Next]_vars
    PROVE  [Fifo!FifoNext]_(Fifo!fifoVars)
  <1>1. QueueInd'
    BY QueueStep
  <1>2. CASE UNCHANGED <<entered, taken>>
    BY <1>2 DEF Fifo!fifoVars
  <1>3. CASE entered' = Append(entered, Len(entered) + 1) /\ taken' = taken /\ Len(entered) < MaxValues
    <2>1. Len(entered) + 1 \in 1..MaxValues
      BY <1>3, TakenInOrder DEF QueueSizes
    <2> QED BY <1>1, <1>3, <2>1, EnterAccepts DEF Fifo!FifoNext
  <1>4. CASE /\ taken' = Append(taken, Len(taken) + 1) /\ entered' = entered
             /\ Len(taken) < Len(entered)
    BY <1>4, TakeIsFirst DEF Fifo!FifoNext
  <1> QED BY <1>2, <1>3, <1>4, ValuesStep

LEMMA FifoStart == Init => Fifo!FifoInit
  BY SubSeqEmpty DEF Init, Fifo!FifoInit

\* Of ListQueue: a dequeue finds what is there, and the values are taken in the
\* order in which they were linked in, each of them once.
THEOREM ListQueueSafety ==
    ASSUME QueueSizes
    PROVE  /\ Spec => []QueueInd
           /\ Spec => [][FindsWhatIsThere]_vars
           /\ Spec => ImplementsFifo
  <1>1. Spec => []QueueInd
    BY QueueIndInit, QueueStep, PTL DEF Spec
  <1>2. Spec => [][FindsWhatIsThere]_vars
    <2>1. QueueInd /\ [Next]_vars => [FindsWhatIsThere]_vars
      BY NothingIsThere
    <2> QED BY <1>1, <2>1, PTL DEF Spec
  <1>3. Spec => ImplementsFifo
    BY <1>1, FifoStart, FifoStep, PTL DEF Spec, ImplementsFifo, Fifo!FifoSpec
  <1> QED BY <1>1, <1>2, <1>3
=============================================================================
