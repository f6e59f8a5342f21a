------------------------- MODULE ThreadLocalStorage -------------------------
(***************************************************************************)
(* ObjectScopedThreadLocalStorage (core/concurrency/detail): a value for   *)
(* each pair of an object and a thread.  Each object has an index, each    *)
(* thread a vector of slots; indices of dead objects are used again.  The  *)
(* value of a slot is made by the first get() and handed to the return     *)
(* function when the object or the thread dies, whichever is first.        *)
(*                                                                         *)
(* What is done under s_mutex is one action: the rest of get() touches     *)
(* only the slot of the calling thread and of an object that is alive.     *)
(* An object is not destroyed while a thread is in its get(), and a thread *)
(* does not end in the middle of a call.  Every object has both functions; *)
(* values are numbered as they are made.                                   *)
(***************************************************************************)
EXTENDS Integers, SequencesExt

CONSTANTS
    Threads,    \* threads that come and go
    MaxObjects, \* bound: how many objects are constructed
    MaxValues   \* bound: how many values are made

Objects == 1..MaxObjects    \* _my_id
Values == 1..MaxValues
None == 0                   \* no owner, no value, no object
NoIndex == 0                \* indices are counted from 1 here

VARIABLES
    s_id,           \* the last id that was given out
    s_available,    \* indices that were returned
    s_owners,       \* the owner of each index
    s_thread_locals,\* threads whose slots are registered
    alive,          \* objects that are constructed and not yet destroyed
    my_index,       \* _my_index of each object
    slots,          \* the slots of each thread: owner and value
    pc,             \* where get() of each thread is
    object,         \* local: `this' of get()
    made,           \* how many values were made
    owner_of,       \* object and thread that each value was made for (history)
    returns         \* how often each value was returned (history)

staticVars == <<s_id, s_available, s_owners, s_thread_locals>>
objectVars == <<alive, my_index>>
getVars == <<pc, object>>
valueVars == <<made, owner_of, returns>>
vars == <<staticVars, objectVars, slots, getVars, valueVars>>

FreeSlot == [owner |-> None, value |-> None]

Init ==
    /\ s_id = 0
    /\ s_available = <<>>
    /\ s_owners = <<>>
    /\ s_thread_locals = {}
    /\ alive = {}
    /\ my_index = [o \in Objects |-> NoIndex]
    /\ slots = [t \in Threads |-> <<>>]
    /\ pc = [t \in Threads |-> "idle"]
    /\ object = [t \in Threads |-> None]
    /\ made = 0
    /\ owner_of = [v \in Values |-> <<>>]
    /\ returns = [v \in Values |-> 0]

-----------------------------------------------------------------------------
(* Objects *)

\* The next object gets the index freed last, of which `owners' says whose it is
\* from then on, or else a new one.
TakeIndex(o, owners) ==
    /\ s_id < MaxObjects
    /\ o = s_id + 1
    /\ s_id' = o
    /\ alive' = alive \cup {o}
    /\ IF s_available # <<>>
       THEN /\ my_index' = [my_index EXCEPT ![o] = Last(s_available)]
            /\ s_available' = Front(s_available)
            /\ s_owners' = owners
       ELSE /\ my_index' = [my_index EXCEPT ![o] = Len(s_owners) + 1]
            /\ s_owners' = Append(s_owners, o)
            /\ UNCHANGED s_available
    /\ UNCHANGED <<s_thread_locals, slots, getVars, valueVars>>

\* Faulty variants are what a slip in the code would make of the definition
\* that follows them; no action uses them.  Faulty: an index that is used
\* again keeps its old owner.
ConstructKeepsOwner(o) == TakeIndex(o, s_owners)

Construct(o) == TakeIndex(o, [s_owners EXCEPT ![Last(s_available)] = o])

\* The slots of registered threads that hold a value of o.
Holders(o) ==
    {t \in s_thread_locals : my_index[o] \in DOMAIN slots[t] /\ slots[t][my_index[o]].owner = o}

ReturnAll(values) ==
    returns' = [v \in Values |-> IF v \in values THEN returns[v] + 1 ELSE returns[v]]

\* The index is given back; when nobody has one, both vectors start anew.
ReleaseIndex(i) ==
    IF Len(s_available) + 1 = Len(s_owners)
    THEN s_available' = <<>> /\ s_owners' = <<>>
    ELSE s_available' = Append(s_available, i) /\ s_owners' = [s_owners EXCEPT ![i] = None]

Destroy(o) ==
    /\ o \in alive
    /\ \A t \in Threads : object[t] # o
    /\ alive' = alive \ {o}
    /\ ReturnAll({slots[t][my_index[o]].value : t \in Holders(o)})
    /\ slots' = [t \in Threads |->
                    IF t \in Holders(o) THEN [slots[t] EXCEPT ![my_index[o]].owner = None]
                    ELSE slots[t]]
    /\ ReleaseIndex(my_index[o])
    /\ UNCHANGED <<s_id, s_thread_locals, my_index, getVars, made, owner_of>>

-----------------------------------------------------------------------------
(* get() *)

\* The first get() of a thread constructs its ObjectStorage.
GetStorage(t, o) ==
    /\ pc[t] = "idle"
    /\ o \in alive
    /\ object' = [object EXCEPT ![t] = o]
    /\ s_thread_locals' = s_thread_locals \cup {t}
    /\ pc' = [pc EXCEPT ![t] = IF my_index[o] > Len(slots[t]) THEN "resize" ELSE "slot"]
    /\ UNCHANGED <<s_id, s_available, s_owners, objectVars, slots, valueVars>>

GetResize(t) ==
    /\ pc[t] = "resize"
    /\ slots' = [slots EXCEPT ![t] =
                    [i \in 1..my_index[object[t]] |-> IF i \in DOMAIN @ THEN @[i] ELSE FreeSlot]]
    /\ pc' = [pc EXCEPT ![t] = "slot"]
    /\ UNCHANGED <<staticVars, objectVars, object, valueVars>>

MySlot(t) == slots[t][my_index[object[t]]]

GetDefault(t) ==
    /\ pc[t] = "slot"
    /\ MySlot(t).owner = None
    /\ made < MaxValues
    /\ made' = made + 1
    /\ owner_of' = [owner_of EXCEPT ![made'] = <<object[t], t>>]
    /\ slots' = [slots EXCEPT ![t][my_index[object[t]]].value = made']
    /\ pc' = [pc EXCEPT ![t] = "own"]
    /\ UNCHANGED <<staticVars, objectVars, object, returns>>

GetOwn(t) ==
    /\ pc[t] = "own"
    /\ slots' = [slots EXCEPT ![t][my_index[object[t]]].owner = object[t]]
    /\ pc' = [pc EXCEPT ![t] = "slot"]
    /\ UNCHANGED <<staticVars, objectVars, object, valueVars>>

\* The value of MySlot(t) is what the caller gets.
GetReturn(t) ==
    /\ pc[t] = "slot"
    /\ MySlot(t).owner # None
    /\ pc' = [pc EXCEPT ![t] = "idle"]
    /\ object' = [object EXCEPT ![t] = None]
    /\ UNCHANGED <<staticVars, objectVars, slots, valueVars>>

-----------------------------------------------------------------------------
(* Threads *)

\* The slots whose value is returned: those of the present owner of the index.
Owned(t) ==
    {i \in DOMAIN slots[t] \cap DOMAIN s_owners :
        slots[t][i].owner # None /\ slots[t][i].owner = s_owners[i]}

\* ~ObjectStorage(); a thread of the same name may come later.
ThreadExits(t) ==
    /\ pc[t] = "idle"
    /\ t \in s_thread_locals
    /\ ReturnAll({slots[t][i].value : i \in Owned(t)})
    /\ s_thread_locals' = s_thread_locals \ {t}
    /\ slots' = [slots EXCEPT ![t] = <<>>]
    /\ UNCHANGED <<s_id, s_available, s_owners, objectVars, getVars, made, owner_of>>

-----------------------------------------------------------------------------
GetStep(t) ==
    \/ \E o \in alive : GetStorage(t, o)
    \/ GetResize(t) \/ GetDefault(t) \/ GetOwn(t) \/ GetReturn(t)

Next ==
    \/ \E o \in Objects : Construct(o) \/ Destroy(o)
    \/ \E t \in Threads : GetStep(t) \/ ThreadExits(t)

Spec == Init /\ [][Next]_vars

-----------------------------------------------------------------------------
\* The types of the variables.
TypeOK ==
    /\ s_id \in 0..MaxObjects
    /\ \A k \in DOMAIN s_available : s_available[k] \in DOMAIN s_owners
    /\ \A i \in DOMAIN s_owners : s_owners[i] \in alive \cup {None}
    /\ s_thread_locals \subseteq Threads /\ alive \subseteq 1..s_id
    /\ pc \in [Threads -> {"idle", "resize", "slot", "own"}]
    /\ object \in [Threads -> alive \cup {None}]

\* Two objects that are alive have different indices, and the index of each
\* is registered for it: an index that was returned is not given out twice.
IndicesAreOwned == \A o \in alive : my_index[o] \in DOMAIN s_owners /\ s_owners[my_index[o]] = o

\* A value goes to the return function at most once, in whatever order its
\* object and its thread die and whoever uses the index afterwards.
ReturnedOnce == \A v \in Values : returns[v] <= 1

\* No value is forgotten: until it is returned, its object and its thread are
\* both alive and its slot still has it.
NoValueIsLost ==
    \A v \in 1..made : returns[v] = 0 =>
        LET o == owner_of[v][1]
            t == owner_of[v][2]
        IN  o \in alive /\ t \in s_thread_locals /\ slots[t][my_index[o]].value = v

\* get() returns a value that was made for this object in this thread and is
\* not returned yet, although the slot may have belonged to another object.
GetReturnsOwnValue ==
    \A t \in Threads : pc[t] = "slot" /\ MySlot(t).owner # None =>
        owner_of[MySlot(t).value] = <<object[t], t>> /\ returns[MySlot(t).value] = 0

\* Indices, slots and values agree: each value belongs to one object and one
\* thread, and is returned once when the first of them dies.
StorageInv ==
    /\ TypeOK
    /\ IndicesAreOwned
    /\ ReturnedOnce
    /\ NoValueIsLost
    /\ GetReturnsOwnValue
=============================================================================
