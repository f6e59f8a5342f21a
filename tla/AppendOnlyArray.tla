-------------------------- MODULE AppendOnlyArray --------------------------
(***************************************************************************)
(* The array that threads append to without a lock                         *)
(* (core/detail/AppendOnlyArray.{h,hpp}).  Bucket a has room for 2^a       *)
(* elements and is allocated when the first of them comes; elements are    *)
(* published in the order of their indices.                                *)
(*                                                                         *)
(* One action is one access to shared memory, under sequential             *)
(* consistency.  The element that a thread appends stands for the thread   *)
(* and the number of its call.                                             *)
(***************************************************************************)
EXTENDS Integers, Sequences

CONSTANTS
    Writers,    \* threads that call push() or emplace()
    Readers,    \* threads that call at()
    MaxCalls,   \* bound: calls of each writer
    Buckets     \* APPEND_ONLY_ARRAY_BUCKET_SIZE

Callers == Writers \cup Readers
Null == 0
NoElement == <<>>

\* The powers of two, of which the tables are made.
Twofold[a \in Nat] == IF a = 0 THEN 1 ELSE 2 * Twofold[a - 1]

\* _bucket_size, _bucket_size_sum, and bucket and place of an index.
BucketSize(a) == Twofold[a]
BucketSizeSum(a) == Twofold[a + 1] - 1
ArrayIndex(i) == CHOOSE a \in 0..i : Twofold[a] <= i + 1 /\ i + 1 < Twofold[a + 1]
IndexInBucket(i) == IF ArrayIndex(i) > 0 THEN i - BucketSizeSum(ArrayIndex(i) - 1) ELSE i

VARIABLES
    next_index, \* _index
    size,       \* _size
    array,      \* _array: which allocation is the bucket
    memory,     \* the allocations made for buckets, each with its elements
    pc,         \* where each thread is
    calls,      \* how many calls each writer has made
    index,      \* local: the index of the element
    bucket,     \* local: the allocation it goes to
    appended,   \* the element of each index (history)
    read        \* what at() has returned (history)

vars == <<next_index, size, array, memory, pc, calls, index, bucket, appended, read>>

Init ==
    /\ next_index = 0
    /\ size = 0
    /\ array = [a \in 0..(Buckets - 1) |-> Null]
    /\ memory = <<>>
    /\ pc = [t \in Callers |-> "idle"]
    /\ calls = [t \in Writers |-> 0]
    /\ index = [t \in Callers |-> 0]
    /\ bucket = [t \in Writers |-> Null]
    /\ appended = <<>>
    /\ read = [t \in Readers |-> NoElement]

Goto(t, place) == pc' = [pc EXCEPT ![t] = place]
ElementAt(i) == appended[i + 1]

\* What the array has at an index; nothing comes from a bucket that is not there.
Lookup(i) ==
    LET a == ArrayIndex(i)
    IN  IF array[a] = Null THEN NoElement ELSE memory[array[a]][IndexInBucket(i)]

-----------------------------------------------------------------------------
(* emplace(), and push(), which calls it *)

EmplaceIndex(t) ==
    /\ pc[t] = "idle"
    /\ calls[t] < MaxCalls
    /\ calls' = [calls EXCEPT ![t] = @ + 1]
    /\ index' = [index EXCEPT ![t] = next_index]
    /\ next_index' = next_index + 1
    /\ appended' = Append(appended, <<t, calls'[t]>>)
    /\ Goto(t, "load")
    /\ UNCHANGED <<size, array, memory, bucket, read>>

EmplaceLoad(t) ==
    /\ pc[t] = "load"
    /\ ArrayIndex(index[t]) < Buckets
    /\ bucket' = [bucket EXCEPT ![t] = array[ArrayIndex(index[t])]]
    /\ Goto(t, IF bucket'[t] = Null THEN "allocate" ELSE "assign")
    /\ UNCHANGED <<next_index, size, array, memory, calls, index, appended, read>>

EmplaceAllocate(t) ==
    /\ pc[t] = "allocate"
    /\ memory' = Append(memory, [k \in 0..(BucketSize(ArrayIndex(index[t])) - 1) |-> NoElement])
    /\ bucket' = [bucket EXCEPT ![t] = Len(memory')]
    /\ Goto(t, "install")
    /\ UNCHANGED <<next_index, size, array, calls, index, appended, read>>

EmplaceInstall(t) ==
    /\ pc[t] = "install"
    /\ array[ArrayIndex(index[t])] = Null
    /\ array' = [array EXCEPT ![ArrayIndex(index[t])] = bucket[t]]
    /\ Goto(t, "assign")
    /\ UNCHANGED <<next_index, size, memory, calls, index, bucket, appended, read>>

\* Faulty variants are what a slip in the code would make of the definition
\* that follows them; no action uses them.  Faulty: the thread that comes
\* second keeps its own bucket.
EmplaceKeepBucket(t) ==
    /\ pc[t] = "install"
    /\ array[ArrayIndex(index[t])] # Null
    /\ Goto(t, "assign")
    /\ UNCHANGED <<next_index, size, array, memory, calls, index, bucket, appended, read>>

\* Another thread was first: take its bucket and free the own one.
EmplaceDiscard(t) ==
    /\ pc[t] = "install"
    /\ array[ArrayIndex(index[t])] # Null
    /\ bucket' = [bucket EXCEPT ![t] = array[ArrayIndex(index[t])]]
    /\ Goto(t, "assign")
    /\ UNCHANGED <<next_index, size, array, memory, calls, index, appended, read>>

EmplaceAssign(t) ==
    /\ pc[t] = "assign"
    /\ memory' = [memory EXCEPT ![bucket[t]][IndexInBucket(index[t])] = ElementAt(index[t])]
    /\ Goto(t, "wait")
    /\ UNCHANGED <<next_index, size, array, calls, index, bucket, appended, read>>

\* Spins until all elements before this one are published.
EmplaceWait(t) ==
    /\ pc[t] = "wait"
    /\ size = index[t]
    /\ Goto(t, "publish")
    /\ UNCHANGED <<next_index, size, array, memory, calls, index, bucket, appended, read>>

\* Faulty: _size is left one short.
EmplacePublishIndex(t) ==
    /\ pc[t] = "publish"
    /\ size' = index[t]
    /\ Goto(t, "idle")
    /\ UNCHANGED <<next_index, array, memory, calls, index, bucket, appended, read>>

EmplacePublish(t) ==
    /\ pc[t] = "publish"
    /\ size' = index[t] + 1
    /\ Goto(t, "idle")
    /\ UNCHANGED <<next_index, array, memory, calls, index, bucket, appended, read>>

-----------------------------------------------------------------------------
(* at() *)

\* An index beyond the size throws, which changes nothing.
AtCheck(t, i) ==
    /\ pc[t] = "idle"
    /\ i < size
    /\ index' = [index EXCEPT ![t] = i]
    /\ Goto(t, "read")
    /\ UNCHANGED <<next_index, size, array, memory, calls, bucket, appended, read>>

AtRead(t) ==
    /\ pc[t] = "read"
    /\ read' = [read EXCEPT ![t] = Lookup(index[t])]
    /\ Goto(t, "returned")
    /\ UNCHANGED <<next_index, size, array, memory, calls, index, bucket, appended>>

AtReturn(t) ==
    /\ pc[t] = "returned"
    /\ read' = [read EXCEPT ![t] = NoElement]
    /\ index' = [index EXCEPT ![t] = 0]
    /\ Goto(t, "idle")
    /\ UNCHANGED <<next_index, size, array, memory, calls, bucket, appended>>

-----------------------------------------------------------------------------
EmplaceStep(t) ==
    \/ EmplaceIndex(t) \/ EmplaceLoad(t) \/ EmplaceAllocate(t) \/ EmplaceInstall(t)
    \/ EmplaceDiscard(t) \/ EmplaceAssign(t) \/ EmplaceWait(t) \/ EmplacePublish(t)

AtStep(t) == (\E i \in 0..(size - 1) : AtCheck(t, i)) \/ AtRead(t) \/ AtReturn(t)

Next == (\E t \in Writers : EmplaceStep(t)) \/ (\E t \in Readers : AtStep(t))

Spec == Init /\ [][Next]_vars

-----------------------------------------------------------------------------
\* The types of the variables; a writer assigns to the installed bucket.
TypeOK ==
    /\ next_index = Len(appended)
    /\ size \in 0..next_index
    /\ \A a \in DOMAIN array : array[a] # Null =>
            array[a] \in DOMAIN memory /\ DOMAIN memory[array[a]] = 0..(BucketSize(a) - 1)
    /\ \A t \in Writers : bucket[t] \in DOMAIN memory \cup {Null}
    /\ \A t \in Writers : pc[t] = "assign" => bucket[t] = array[ArrayIndex(index[t])]

\* Whatever is below size() is there, in the bucket where at() looks for it,
\* and is what was appended: publishing never runs ahead of an element, and no
\* element is left behind in a bucket that lost the race to be installed.
PublishedIsComplete == \A i \in 0..(size - 1) : Lookup(i) = ElementAt(i)

\* at() returns the element of its index, while writers append and install
\* buckets.
AtReturnsElement == \A t \in Readers : pc[t] = "returned" => read[t] = ElementAt(index[t])

\* Every writer has made its calls.
AllReturned == \A t \in Writers : calls[t] = MaxCalls /\ pc[t] = "idle"

\* What readers rely on: elements below size() are there and stay, and at()
\* returns them.
ArrayInv == TypeOK /\ PublishedIsComplete /\ AtReturnsElement
=============================================================================
