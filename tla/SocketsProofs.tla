--------------------------- MODULE SocketsProofs ---------------------------
(***************************************************************************)
(* Proofs about Sockets, for any threads, sockets and descriptors: who     *)
(* owns a descriptor, a notifier and a registration.                       *)
(***************************************************************************)
EXTENDS Sockets, FiniteSetTheorems, TLAPS

-----------------------------------------------------------------------------
(* Numbers *)

\* A set of numbers has a least one (the induction theorems of the library need
\* an operator; well-foundedness of finite sets gives this without).
LEMMA LeastExists ==
    ASSUME NEW S \in SUBSET Nat, S # {}
    PROVE  \E x \in S : \A y \in S : x <= y
  <1> DEFINE R == StrictSubsetOrdering(Nat)
             Below == {1..x : x \in S}
  <1>1. IsWellFoundedOn(R, FiniteSubsetsOf(Nat))
    BY FS_StrictSubsetOrderingWellFounded
  <1>2. \A x \in S : 1..x \in FiniteSubsetsOf(Nat)
    BY FS_Interval DEF FiniteSubsetsOf
  <1>3. Below \subseteq FiniteSubsetsOf(Nat) /\ Below # {}
    BY <1>2
  <1>4. \A x, y \in Nat : y < x => <<1..y, 1..x>> \in R
    <2> SUFFICES ASSUME NEW x \in Nat, NEW y \in Nat, y < x PROVE <<1..y, 1..x>> \in R
      OBVIOUS
    <2>1. 1..y \subseteq 1..x /\ x \in 1..x /\ x \notin 1..y /\ 1..x \subseteq Nat
      OBVIOUS
    <2> QED BY <2>1 DEF StrictSubsetOrdering
  <1> HIDE DEF R
  <1>5. PICK b \in Below : \A c \in Below : ~(<<c, b>> \in R)
    <2> HIDE DEF Below
    <2> QED BY <1>1, <1>3, WFMin
  <1>6. PICK x \in S : b = 1..x
    BY <1>5
  <1>7. \A y \in S : ~(y < x)
    BY <1>4, <1>5, <1>6
  <1> QED BY <1>7

LEMMA MinIsMember == ASSUME NEW S \in SUBSET Nat, S # {} PROVE Min(S) \in S
  <1>1. PICK x \in S : \A y \in S : x <= y
    BY LeastExists
  <1> QED BY <1>1 DEF Min

\* A socket without a notifier leaves one for it: there are as many notifiers
\* as sockets.
LEMMA SomeNotifierIsFree ==
    ASSUME NEW N \in Nat, NEW f \in [1..N -> 0..N], NEW s \in 1..N, f[s] = 0
    PROVE  \E n \in 1..N : \A r \in 1..N : f[r] # n
  <1> SUFFICES ASSUME \A n \in 1..N : \E r \in 1..N : f[r] = n PROVE FALSE
    OBVIOUS
  <1> DEFINE g == [r \in (1..N) \ {s} |-> IF f[r] = 0 THEN s ELSE f[r]]
  <1>1. IsFiniteSet(1..N) /\ Cardinality(1..N) = N
    BY FS_Interval
  <1>2. IsFiniteSet((1..N) \ {s}) /\ Cardinality((1..N) \ {s}) = N - 1
    BY <1>1, FS_RemoveElement
  <1>3. g \in [(1..N) \ {s} -> 1..N]
    <2>1. \A n \in 0..N : n # 0 => n \in 1..N
      OBVIOUS
    <2>2. \A r \in (1..N) \ {s} : (IF f[r] = 0 THEN s ELSE f[r]) \in 1..N
      BY <2>1
    <2> QED BY <2>2
  <1>4. \A n \in 1..N : \E r \in (1..N) \ {s} : g[r] = n
    <2> SUFFICES ASSUME NEW n \in 1..N PROVE \E r \in (1..N) \ {s} : g[r] = n
      <3> HIDE DEF g
      <3> QED OBVIOUS
    <2>1. PICK r \in 1..N : f[r] = n
      OBVIOUS
    <2>2. n # 0
      OBVIOUS
    <2>3. r # s /\ f[r] # 0
      BY <2>1, <2>2, Zenon
    <2> QED BY <2>1, <2>3
  <1>5. g \in Surjection((1..N) \ {s}, 1..N)
    <2> HIDE DEF g
    <2> QED BY <1>3, <1>4 DEF Surjection
  <1>6. Cardinality(1..N) <= Cardinality((1..N) \ {s})
    BY <1>2, <1>5, FS_Surjection
  <1> QED BY <1>1, <1>2, <1>6

SocketSizes == MaxSockets \in Nat /\ MaxFds \in Nat

SocketTypes ==
    /\ files \in [Fds -> Socks \cup {None}]
    /\ interest \subseteq Fds \X Socks \X Notifiers
    /\ made \in 0..MaxSockets
    /\ state \in [Socks -> {"unused", "setup", "open", "closed", "gone"}]
    /\ handle \in [Socks -> Fds \cup {None}]
    /\ notifier \in [Socks -> Notifiers \cup {None}]
    /\ watched \in [Notifiers -> Fds \cup {None}]
    /\ pooled \subseteq Notifiers
    /\ pc \in [Threads -> {"idle", "init", "dial_init", "dial", "finally", "close", "deregister", "close_again"}]
    /\ mine \in [Threads -> Socks \cup {None}]
    /\ dial_handle \in [Threads -> Fds \cup {None}]

\* A thread at work has a socket to itself, which is in the state that its work
\* tells.
OneOwner ==
    /\ \A t \in Threads : pc[t] = "idle" <=> mine[t] = None
    /\ \A t, u \in Threads : mine[t] = mine[u] /\ mine[t] # None => t = u
    /\ \A s \in Socks : state[s] = "unused" <=> s > made
    /\ \A t \in Threads :
          /\ pc[t] \in {"init", "dial_init", "dial"} => state[mine[t]] = "setup"
          /\ pc[t] = "finally" => state[mine[t]] = "open"
          /\ pc[t] \in {"close", "deregister", "close_again"} => state[mine[t]] = "gone"
    /\ \A s \in Socks : Open(s) => handle[s] # None

\* Who has a notifier; nobody shares one, and the others are in the pool.
NotifiersAreOwned ==
    /\ \A t \in Threads :
          /\ pc[t] \in {"init", "dial_init", "close_again"} => notifier[mine[t]] = None
          /\ pc[t] \in {"dial", "close", "deregister"} => notifier[mine[t]] # None
    /\ \A s \in Socks : state[s] \in {"open", "closed"} => notifier[s] # None
    /\ \A s \in Socks : state[s] = "unused" => notifier[s] = None
    /\ \A s, r \in Socks : notifier[s] = notifier[r] /\ notifier[s] # None => s = r
    /\ \A n \in Notifiers : n \in pooled <=> \A s \in Socks : notifier[s] # n

\* An open file is that of a socket in use, or of one whose destructor has a
\* close() to come.
FilesAreOwned ==
    \A f \in Fds : files[f] # None =>
        /\ handle[files[f]] = f
        /\ \/ Open(files[f])
           \/ \E t \in Threads : mine[t] = files[f] /\ pc[t] \in {"close", "close_again"}

\* A registration is of an open file and has a notifier in use, which watches
\* it: deregisterObject() finds it by the descriptor.
InterestIsLive ==
    \A r \in interest : files[r[1]] = r[2] /\ watched[r[3]] = r[1] /\ r[3] \notin pooled

SocketInd == SocketTypes /\ OneOwner /\ NotifiersAreOwned /\ FilesAreOwned /\ InterestIsLive

LEMMA SocketNumbers ==
    ASSUME SocketSizes
    PROVE  /\ None \notin Socks /\ None \notin Fds /\ None \notin Notifiers
           /\ Socks \subseteq Nat /\ Fds \subseteq Nat /\ Notifiers \subseteq Nat
           /\ \A n \in 0..MaxSockets : n < MaxSockets => n + 1 \in Socks /\ n + 1 \in 0..MaxSockets
  BY DEF SocketSizes, None, Socks, Fds, Notifiers

\* accept4() and socket() find a descriptor that is free.
MakesSocket(t, f, place) ==
    /\ pc[t] = "idle" /\ made < MaxSockets /\ files[f] = None
    /\ made' = made + 1
    /\ files' = [files EXCEPT ![f] = made + 1]
    /\ handle' = [handle EXCEPT ![made + 1] = f]
    /\ dial_handle' = [dial_handle EXCEPT ![t] = IF place = "dial_init" THEN f ELSE None]
    /\ state' = [state EXCEPT ![made + 1] = "setup"]
    /\ mine' = [mine EXCEPT ![t] = made + 1]
    /\ pc' = [pc EXCEPT ![t] = place]
    /\ UNCHANGED <<interest, notifier, watched, pooled>>

LEMMA NewSocketIs ==
    ASSUME SocketSizes, NEW t \in Threads, Accept(t) \/ DialOpen(t)
    PROVE  \E f \in Fds, place \in {"init", "dial_init"} : MakesSocket(t, f, place)
  <1>1. PICK place \in {"init", "dial_init"} : NewSocket(t, place)
    BY DEF Accept, DialOpen
  <1> DEFINE free == {g \in Fds : files[g] = None}
             f == Min(free)
  <1>2. f \in free
    <2>1. free \in SUBSET Nat /\ free # {}
      BY <1>1, SocketNumbers DEF NewSocket
    <2> HIDE DEF free
    <2> QED BY <2>1, MinIsMember
  <1>3. MakesSocket(t, f, place)
    BY <1>1, <1>2 DEF NewSocket, Goto, MakesSocket
  <1> QED BY <1>2, <1>3

\* init() finds a notifier in the pool.
InitsObject(t, n) ==
    /\ pc[t] \in {"init", "dial_init"}
    /\ files[handle[mine[t]]] # None
    /\ \A r \in interest : r[2] # files[handle[mine[t]]]
    /\ pooled' = pooled \ {n}
    /\ watched' = [watched EXCEPT ![n] = handle[mine[t]]]
    /\ interest' = interest \cup {<<handle[mine[t]], files[handle[mine[t]]], n>>}
    /\ notifier' = [notifier EXCEPT ![mine[t]] = n]
    /\ state' = IF pc[t] = "init" THEN [state EXCEPT ![mine[t]] = "open"] ELSE state
    /\ pc' = [pc EXCEPT ![t] = IF pc[t] = "init" THEN "finally" ELSE "dial"]
    /\ UNCHANGED <<files, made, handle, mine, dial_handle>>

LEMMA InitObjectIs ==
    ASSUME SocketSizes, SocketInd, NEW t \in Threads, InitObject(t)
    PROVE  \E n \in pooled : InitsObject(t, n)
  <1> DEFINE n == Min(pooled)
  <1>1. mine[t] \in Socks /\ notifier[mine[t]] = None
    BY DEF InitObject, SocketInd, SocketTypes, OneOwner, NotifiersAreOwned
  <1>2. pooled # {}
    <2>1. notifier \in [1..MaxSockets -> 0..MaxSockets] /\ mine[t] \in 1..MaxSockets /\ notifier[mine[t]] = 0
      BY <1>1, 0..MaxSockets = 1..MaxSockets \cup {0}
      DEF SocketSizes, SocketInd, SocketTypes, Socks, Notifiers, None
    <2>2. PICK m \in 1..MaxSockets : \A r \in 1..MaxSockets : notifier[r] # m
      BY <2>1, SomeNotifierIsFree DEF SocketSizes
    <2> QED BY <2>2 DEF SocketInd, NotifiersAreOwned, Socks, Notifiers
  <1>3. n \in pooled
    BY <1>2, SocketNumbers, MinIsMember DEF SocketInd, SocketTypes
  <1>4. InitsObject(t, n)
    BY DEF InitObject, Goto, InitsObject, SocketInd, SocketTypes
  <1> QED BY <1>3, <1>4

\* Making a connection keeps the parts of the invariant, also when it fails.
LEMMA MakingKeeps ==
    ASSUME SocketSizes, SocketInd, NEW t \in Threads, MakeStep(t)
    PROVE  SocketInd'
  <1> USE DEF SocketInd, SocketTypes, OneOwner, NotifiersAreOwned
  <1>0. pc[t] # "idle" => mine[t] \in Socks
    OBVIOUS
  <1>1. CASE Accept(t) \/ DialOpen(t)
    <2>1. PICK f \in Fds, place \in {"init", "dial_init"} : MakesSocket(t, f, place)
      BY <1>1, NewSocketIs
    <2> USE <1>0, SocketNumbers, <2>1 DEF MakesSocket
    <2>2. SocketTypes'
      OBVIOUS
    <2>3. OneOwner'
      <3>1. made + 1 \in Socks /\ made \in Nat /\ f # None
        BY DEF SocketSizes
      <3>2. state[made + 1] = "unused" /\ made' = made + 1
        BY <3>1
      <3>3. \A s \in Socks : state'[s] = "unused" <=> s > made'
        <4> SUFFICES ASSUME NEW s \in Socks PROVE state'[s] = "unused" <=> s > made'
          OBVIOUS
        <4>1. s \in Nat /\ (s > made + 1 <=> s > made /\ s # made + 1)
          BY <3>1
        <4> QED BY <3>1, <3>2, <4>1
      <3>4. \A s \in Socks : Open(s)' => handle'[s] # None
        BY <3>1 DEF Open
      <3>5. \A u \in Threads : mine[u] # made + 1
        BY <3>1, <3>2
      <3> QED BY <3>1, <3>2, <3>3, <3>4, <3>5
    <2>4. NotifiersAreOwned'
      OBVIOUS
    <2>5. FilesAreOwned'
      BY DEF FilesAreOwned, Open
    <2>6. InterestIsLive'
      BY DEF InterestIsLive
    <2> QED BY <2>2, <2>3, <2>4, <2>5, <2>6
  <1>2. CASE InitObject(t)
    <2>1. PICK n \in pooled : InitsObject(t, n)
      BY <1>2, InitObjectIs
    <2>2. handle[mine[t]] \in Fds
      BY <1>0, <2>1 DEF InitsObject, Open
    <2>3. files[handle[mine[t]]] \in Socks
      BY <2>1, <2>2 DEF InitsObject
    <2> USE <1>0, SocketNumbers, <2>1, <2>2, <2>3 DEF InitsObject
    <2>4. SocketTypes'
      OBVIOUS
    <2>5. OneOwner'
      BY DEF Open
    <2>6. NotifiersAreOwned'
      OBVIOUS
    <2>7. FilesAreOwned'
      BY DEF FilesAreOwned, Open
    <2>8. InterestIsLive'
      BY DEF InterestIsLive
    <2> QED BY <2>4, <2>5, <2>6, <2>7, <2>8
  <1>3. CASE InitObjectFails(t)
    <2> USE <1>0, SocketNumbers, <1>3 DEF InitObjectFails, Goto, kernelVars, objectVars
    <2>1. SocketTypes'
      OBVIOUS
    <2>2. OneOwner'
      BY DEF Open
    <2>3. NotifiersAreOwned'
      OBVIOUS
    <2>4. FilesAreOwned'
      BY DEF FilesAreOwned, Open
    <2>5. InterestIsLive'
      BY DEF InterestIsLive
    <2> QED BY <2>1, <2>2, <2>3, <2>4, <2>5
  <1>4. CASE DialFails(t)
    <2> USE <1>0, SocketNumbers, <1>4 DEF DialFails, Goto, kernelVars, objectVars
    <2>1. SocketTypes'
      OBVIOUS
    <2>2. OneOwner'
      BY DEF Open
    <2>3. NotifiersAreOwned'
      OBVIOUS
    <2>4. FilesAreOwned'
      BY DEF FilesAreOwned, Open
    <2>5. InterestIsLive'
      BY DEF InterestIsLive
    <2> QED BY <2>1, <2>2, <2>3, <2>4, <2>5
  <1>5. CASE DialRelease(t)
    <2> USE <1>0, SocketNumbers, <1>5 DEF DialRelease, Deregister, FreeNotifier, Goto, kernelVars, objectVars
    <2>1. SocketTypes'
      OBVIOUS
    <2>2. OneOwner'
      BY DEF Open
    <2>3. NotifiersAreOwned'
      OBVIOUS
    <2>4. FilesAreOwned'
      BY DEF FilesAreOwned, Open
    <2>5. InterestIsLive'
      BY DEF InterestIsLive
    <2> QED BY <2>1, <2>2, <2>3, <2>4, <2>5
  <1>6. CASE Finally(t)
    <2> USE <1>0, SocketNumbers, <1>6 DEF Finally, CloseFile, Finish, Goto, kernelVars, objectVars
    <2>1. SocketTypes'
      OBVIOUS
    <2>2. OneOwner'
      BY DEF Open
    <2>3. NotifiersAreOwned'
      OBVIOUS
    <2>4. FilesAreOwned'
      BY DEF FilesAreOwned, Open
    <2>5. InterestIsLive'
      BY DEF InterestIsLive
    <2> QED BY <2>1, <2>2, <2>3, <2>4, <2>5
  <1> QED BY <1>1, <1>2, <1>3, <1>4, <1>5, <1>6 DEF MakeStep

LEMMA EndingKeeps ==
    ASSUME SocketSizes, SocketInd, NEW t \in Threads, EndStep(t)
    PROVE  SocketInd'
  <1> USE DEF SocketInd, SocketTypes, OneOwner, NotifiersAreOwned
  <1>0. pc[t] # "idle" => mine[t] \in Socks
    OBVIOUS
  <1>1. ASSUME NEW s \in Socks, Close(t, s) PROVE SocketInd'
    <2> USE <1>0, SocketNumbers, <1>1 DEF Close, CloseSocket, CloseFile
    <2>1. SocketTypes'
      OBVIOUS
    <2>2. OneOwner'
      BY DEF Open
    <2>3. NotifiersAreOwned'
      OBVIOUS
    <2>4. FilesAreOwned'
      BY DEF FilesAreOwned, Open
    <2>5. InterestIsLive'
      BY DEF InterestIsLive
    <2> QED BY <2>1, <2>2, <2>3, <2>4, <2>5
  <1>2. ASSUME NEW s \in Socks, Destroy(t, s) PROVE SocketInd'
    <2> USE <1>0, SocketNumbers, <1>2 DEF Destroy, Goto, kernelVars
    <2>1. SocketTypes'
      OBVIOUS
    <2>2. OneOwner'
      BY DEF Open
    <2>3. NotifiersAreOwned'
      OBVIOUS
    <2>4. FilesAreOwned'
      BY DEF FilesAreOwned, Open
    <2>5. InterestIsLive'
      BY DEF InterestIsLive
    <2> QED BY <2>1, <2>2, <2>3, <2>4, <2>5
  <1>3. CASE DestroyClose(t)
    <2> USE <1>0, SocketNumbers, <1>3 DEF DestroyClose, CloseSocket, CloseFile, Goto, kernelVars, objectVars
    <2>1. SocketTypes'
      OBVIOUS
    <2>2. OneOwner'
      BY DEF Open
    <2>3. NotifiersAreOwned'
      OBVIOUS
    <2>4. FilesAreOwned'
      BY DEF FilesAreOwned, Open
    <2>5. InterestIsLive'
      BY DEF InterestIsLive
    <2> QED BY <2>1, <2>2, <2>3, <2>4, <2>5
  <1>4. CASE DestroyDeregister(t)
    <2> USE <1>0, SocketNumbers, <1>4 DEF DestroyDeregister, Deregister, FreeNotifier, Goto, kernelVars, objectVars
    <2>1. SocketTypes'
      OBVIOUS
    <2>2. OneOwner'
      BY DEF Open
    <2>3. NotifiersAreOwned'
      OBVIOUS
    <2>4. FilesAreOwned'
      BY DEF FilesAreOwned, Open
    <2>5. InterestIsLive'
      BY DEF InterestIsLive
    <2> QED BY <2>1, <2>2, <2>3, <2>4, <2>5
  <1>5. CASE DestroySocket(t)
    <2> USE <1>0, SocketNumbers, <1>5 DEF DestroySocket, CloseSocket, CloseFile, Finish, Goto, kernelVars, objectVars
    <2>1. SocketTypes'
      OBVIOUS
    <2>2. OneOwner'
      BY DEF Open
    <2>3. NotifiersAreOwned'
      OBVIOUS
    <2>4. FilesAreOwned'
      BY DEF FilesAreOwned, Open
    <2>5. InterestIsLive'
      BY DEF InterestIsLive
    <2> QED BY <2>1, <2>2, <2>3, <2>4, <2>5
  <1> QED BY <1>1, <1>2, <1>3, <1>4, <1>5 DEF EndStep

LEMMA SocketStep == ASSUME SocketSizes, SocketInd, [Next]_vars PROVE SocketInd'
  <1>1. CASE UNCHANGED vars
    BY <1>1 DEF vars, kernelVars, objectVars, SocketInd, SocketTypes, OneOwner, NotifiersAreOwned,
                FilesAreOwned, InterestIsLive, Open
  <1> QED BY <1>1, MakingKeeps, EndingKeeps DEF Next

LEMMA SocketInit == ASSUME SocketSizes PROVE Init => SocketInd
  <1> SUFFICES ASSUME Init PROVE SocketInd
    OBVIOUS
  <1>1. SocketTypes
    BY DEF SocketSizes, Init, SocketTypes
  <1>2. OneOwner
    <2>1. \A s \in Socks : s > 0
      BY DEF Socks
    <2> QED BY <2>1 DEF Init, OneOwner, Open
  <1>3. NotifiersAreOwned
    BY SocketNumbers DEF Init, NotifiersAreOwned
  <1>4. FilesAreOwned /\ InterestIsLive
    BY DEF Init, FilesAreOwned, InterestIsLive
  <1> QED BY <1>1, <1>2, <1>3, <1>4 DEF SocketInd

LEMMA SocketImplies == SocketInd => SocketsInv
  BY DEF SocketInd, SocketTypes, OneOwner, NotifiersAreOwned, FilesAreOwned, InterestIsLive,
     SocketsInv, TypeOK, EpollHasLiveNotifiers, NoDescriptorLeak

-----------------------------------------------------------------------------
(* One thread, which does not call TcpConnection::close() *)

\* Nothing happens between the close() that succeeds and the one that follows:
\* no other connection has got the descriptor.
OneThreadInd(t) ==
    /\ KeepsItsDescriptor /\ StaysRegistered
    /\ \A s \in Socks : state[s] # "closed"
    /\ \A s \in Socks : state[s] = "open" => watched[notifier[s]] = handle[s]
    /\ pc[t] \notin {"dial_init", "dial"} => dial_handle[t] = None
    /\ pc[t] \in {"dial", "close"} => watched[notifier[mine[t]]] = handle[mine[t]]
    /\ pc[t] \in {"close", "deregister", "close_again"} => handle[mine[t]] # None
    /\ pc[t] = "close" => files[handle[mine[t]]] = mine[t]
    /\ pc[t] = "deregister" =>
            files[watched[notifier[mine[t]]]] = None /\ files[handle[mine[t]]] = None
    /\ pc[t] = "close_again" => files[handle[mine[t]]] \in {None, mine[t]}

LEMMA OneThreadInit == ASSUME NEW t, Threads = {t} PROVE Init => OneThreadInd(t)
  BY DEF Init, OneThreadInd, KeepsItsDescriptor, StaysRegistered, Open

LEMMA OneThreadStep ==
    ASSUME SocketSizes, SocketInd, NEW t, Threads = {t}, ~MayClose, OneThreadInd(t), [Next]_vars
    PROVE  OneThreadInd(t)'
  <1> USE SocketNumbers DEF OneThreadInd, KeepsItsDescriptor, StaysRegistered, Open,
      SocketInd, SocketTypes, OneOwner, NotifiersAreOwned, FilesAreOwned, InterestIsLive
  <1>0. pc[t] # "idle" => mine[t] \in Socks
    OBVIOUS
  <1>1. CASE UNCHANGED vars
    BY <1>1 DEF vars, kernelVars, objectVars
  <1>2. CASE Accept(t) \/ DialOpen(t)
    <2>1. PICK f \in Fds, place \in {"init", "dial_init"} : MakesSocket(t, f, place)
      BY <1>2, NewSocketIs
    <2> QED BY <2>1 DEF MakesSocket
  <1>3. CASE InitObject(t)
    <2>1. PICK n \in pooled : InitsObject(t, n)
      BY <1>3, InitObjectIs
    <2> QED BY <1>0, <2>1 DEF InitsObject
  <1>4. CASE InitObjectFails(t) \/ DialFails(t)
    BY <1>0, <1>4 DEF InitObjectFails, DialFails, Goto, kernelVars, objectVars
  <1>5. CASE DialRelease(t)
    BY <1>0, <1>5 DEF DialRelease, Deregister, FreeNotifier, Goto, kernelVars, objectVars
  <1>6. CASE Finally(t)
    BY <1>0, <1>6 DEF Finally, CloseFile, Finish, Goto, kernelVars, objectVars
  <1>7. CASE DestroyClose(t)
    BY <1>0, <1>7 DEF DestroyClose, CloseSocket, CloseFile, Goto, kernelVars, objectVars
  <1>8. CASE DestroyDeregister(t)
    BY <1>0, <1>8 DEF DestroyDeregister, Deregister, FreeNotifier, Goto, kernelVars, objectVars
  <1>9. CASE DestroySocket(t)
    BY <1>0, <1>9 DEF DestroySocket, CloseSocket, CloseFile, Finish, Goto, kernelVars, objectVars
  <1>10. ASSUME NEW s \in Socks, Destroy(t, s) PROVE OneThreadInd(t)'
    BY <1>10 DEF Destroy, Goto, kernelVars
  <1> QED BY <1>1, <1>2, <1>3, <1>4, <1>5, <1>6, <1>7, <1>8, <1>9, <1>10
          DEF Next, MakeStep, EndStep, Close

=============================================================================
