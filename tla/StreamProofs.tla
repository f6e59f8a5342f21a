---------------------------- MODULE StreamProofs ----------------------------
(***************************************************************************)
(* Proofs about the streams of a connection, for any sizes of the buffers, *)
(* any operations and any number of calls, timeouts and interrupts.        *)
(***************************************************************************)
EXTENDS ReactorStream, SequenceTheorems, TLAPS

StreamTypeOK ==
    /\ received \in Nat /\ arrived \in 0..StreamLength /\ received <= arrived
    /\ wire \in Seq(Int) /\ drained \in Nat
    /\ drained <= Len(wire) /\ Len(wire) - drained <= SendBuffer
    /\ permits \in [Events -> Int]
    /\ running \in Events \cup {"nobody"}
    /\ pc \in [Events -> {"idle", "is_open", "try", "suspend", "wait"}]
    /\ calls \in [Events -> Nat]
    /\ base \in [Events -> Nat]
    /\ offset \in [Events -> Nat] /\ left \in [Events -> Nat]
    /\ \A e \in Events : offset[e] + left[e] <= Length
    /\ error \in [Events -> {"0", "EAGAIN"}]
    /\ result \in [Events -> {"0", "CLOSED", "REMOTELY_CLOSED", "EAGAIN", "TIMEOUT", "assert"}]

\* A fiber in an operation that does not wait has the thread.
ThreadIsHeld == \A e \in Events : pc[e] \in {"is_open", "try", "suspend"} => running = e

\* Therefore select() does not run between a look at the socket and the wait
\* that follows it: if something arrives in between, epoll still has the edge.
\* A reader that waits has taken one permit too many at most, unless a wait has
\* timed out; and a read counts its bytes from the start.
ReaderInd ==
    /\ "IN" \notin expired => permits["IN"] >= -1
    /\ "IN" \notin expired /\ pc["IN"] # "wait" => permits["IN"] >= 0
    /\ pc["IN"] = "suspend" /\ Readable => pending
    /\ NoMissedInput
    /\ (pc["IN"] = "idle" /\ result["IN"] = "assert") \/ offset["IN"] = received - base["IN"]

StreamInd == StreamTypeOK /\ ThreadIsHeld /\ ReaderInd

LEMMA StreamIndImplies == StreamInd => StreamInv
  <1> SUFFICES ASSUME StreamInd PROVE StreamInv
    OBVIOUS
  <1>1. TypeOK
    BY SizesAssumption DEF StreamInd, StreamTypeOK, TypeOK, Space, Events, Nobody
  <1>2. ReadCountsItsBytes
    BY DEF StreamInd, ReaderInd, ReadCountsItsBytes
  <1> QED BY <1>1, <1>2 DEF StreamInd, ReaderInd, StreamInv

LEMMA StreamIndInit == Init => StreamInd
  <1> SUFFICES ASSUME Init PROVE StreamInd
    OBVIOUS
  <1>1. StreamTypeOK
    BY SizesAssumption DEF Init, StreamTypeOK, Events, Nobody
  <1>2. \A e \in Events : pc[e] = "idle" /\ permits[e] = 0 /\ offset[e] = 0 /\ base[e] = 0
    BY DEF Init, Events
  <1> QED BY <1>1, <1>2 DEF Init, StreamInd, ThreadIsHeld, ReaderInd, Events, NoMissedInput

LEMMA BothEvents == "IN" \in Events /\ "OUT" \in Events /\ "IN" # "OUT"
  BY DEF Events

LEMMA NobodyIsNoEvent == "nobody" \notin Events
  BY DEF Events

LEMMA SizeFacts ==
    Length \in Nat /\ StreamLength \in Nat /\ SendBuffer \in Nat /\ \A n \in 1..Length : n \in Nat
  BY SizesAssumption

LEMMA TransferredTypes ==
    ASSUME StreamTypeOK, NEW e \in Events, NEW n \in 1..Length, OnTransferred(e, n)
    PROVE  /\ running' \in Events \cup {"nobody"}
           /\ pc' \in [Events -> {"idle", "is_open", "try", "suspend", "wait"}]
           /\ offset' \in [Events -> Nat] /\ left' \in [Events -> Nat]
           /\ \A d \in Events : offset'[d] + left'[d] <= Length
           /\ error' \in [Events -> {"0", "EAGAIN"}]
           /\ result' \in [Events -> {"0", "CLOSED", "REMOTELY_CLOSED", "EAGAIN", "TIMEOUT", "assert"}]
  <1>1. /\ n \in Nat /\ offset[e] \in Nat /\ left[e] \in Nat /\ offset[e] + left[e] <= Length
        /\ Length \in Nat
    BY SizeFacts DEF StreamTypeOK
  <1>2. \/ /\ n <= left[e]
           /\ offset' = [offset EXCEPT ![e] = offset[e] + n]
           /\ left' = [left EXCEPT ![e] = left[e] - n]
        \/ offset' = offset /\ left' = left
    <2>1. CASE n <= left[e]
      BY <2>1 DEF OnTransferred
    <2>2. CASE ~(n <= left[e])
      BY <2>2 DEF OnTransferred, StreamTypeOK
    <2> QED BY <2>1, <2>2
  <1>3. /\ offset' \in [Events -> Nat] /\ left' \in [Events -> Nat]
        /\ \A d \in Events : offset'[d] + left'[d] <= Length
    <2>1. CASE offset' = offset /\ left' = left
      BY <2>1 DEF StreamTypeOK
    <2>2. CASE /\ n <= left[e]
               /\ offset' = [offset EXCEPT ![e] = offset[e] + n]
               /\ left' = [left EXCEPT ![e] = left[e] - n]
      <3>1. offset[e] + n \in Nat /\ left[e] - n \in Nat
        BY <1>1, <2>2
      <3>2. (offset[e] + n) + (left[e] - n) <= Length
        BY <1>1
      <3>3. offset' \in [Events -> Nat] /\ left' \in [Events -> Nat]
        BY <2>2, <3>1 DEF StreamTypeOK
      <3>4. /\ offset'[e] = offset[e] + n /\ left'[e] = left[e] - n
            /\ \A d \in Events : d # e => offset'[d] = offset[d] /\ left'[d] = left[d]
        BY <2>2 DEF StreamTypeOK
      <3>5. \A d \in Events : offset'[d] + left'[d] <= Length
        BY <3>2, <3>4 DEF StreamTypeOK
      <3> QED BY <3>3, <3>5
    <2> QED BY <1>2, <2>1, <2>2
  <1>4. /\ running' \in Events \cup {"nobody"}
        /\ pc' \in [Events -> {"idle", "is_open", "try", "suspend", "wait"}]
        /\ error' \in [Events -> {"0", "EAGAIN"}]
        /\ result' \in [Events -> {"0", "CLOSED", "REMOTELY_CLOSED", "EAGAIN", "TIMEOUT", "assert"}]
    BY DEF StreamTypeOK, OnTransferred, Return, Nobody
  <1> QED BY <1>3, <1>4

LEMMA StreamTypes ==
    ASSUME StreamTypeOK, [Next]_vars
    PROVE  StreamTypeOK'
  <1> USE DEF StreamTypeOK, Nobody, Return,
              socketVars, stopVars, callVars, resultVars
  <1>1. CASE UNCHANGED vars
    BY <1>1 DEF vars
  <1>2. CASE PeerStep
    <2>1. ASSUME NEW n \in 1..Length, PeerSends(n) PROVE StreamTypeOK'
      BY <2>1, SizesAssumption DEF PeerSends
    <2>2. ASSUME NEW n \in 1..Length, PeerReads(n) PROVE StreamTypeOK'
      <3>1. n \in Nat /\ SendBuffer \in Nat
        BY SizeFacts
      <3>2. /\ drained' = drained + n /\ drained' <= Len(wire) /\ wire' = wire
            /\ UNCHANGED <<arrived, received, permits, running, pc, calls, base, offset, left, error, result>>
        BY <2>2 DEF PeerReads
      <3>3. drained' \in Nat /\ Len(wire) - drained' <= SendBuffer
        BY <3>1, <3>2
      <3> HIDE DEF Return
      <3> QED BY <3>2, <3>3
    <2>3. CASE PeerCloses
      BY <2>3 DEF PeerCloses
    <2> QED BY <1>2, <2>1, <2>2, <2>3 DEF PeerStep
  <1>3. CASE ShutdownStep
    <2>1. PICK e \in Events : ShutdownStream(e) \/ ShutdownSocket(e) \/ ShutdownInterrupt(e)
      BY <1>3 DEF ShutdownStep
    <2>2. permits[e] + 1 \in Int
      OBVIOUS
    <2>3. permits' \in [Events -> Int]
      BY <2>1, <2>2 DEF ShutdownStream, ShutdownSocket, ShutdownInterrupt
    <2> QED BY <2>1, <2>3 DEF ShutdownStream, ShutdownSocket, ShutdownInterrupt
  <1>4. ASSUME NEW e \in Events, Interrupt(e) PROVE StreamTypeOK'
    <2>1. permits' = [permits EXCEPT ![e] = permits[e] + 1] /\ permits \in [Events -> Int]
      BY <1>4 DEF Interrupt
    <2>2. permits[e] + 1 \in Int
      BY <2>1
    <2>3. permits' \in [Events -> Int]
      BY <2>1, <2>2
    <2> QED BY <1>4, <2>3 DEF Interrupt
  <1>5. CASE Select
    BY <1>5 DEF Select, ReportEvent
  <1>6. ASSUME NEW e \in Events, OperationStep(e) PROVE StreamTypeOK'
    <2>1. CASE IsOpen(e)
      BY <2>1 DEF IsOpen
    <2>2. CASE Suspend(e)
      <3>1. permits' = [permits EXCEPT ![e] = permits[e] - 1] /\ permits \in [Events -> Int]
        BY <2>2 DEF Suspend
      <3>2. permits[e] - 1 \in Int
        BY <3>1
      <3>3. permits' \in [Events -> Int]
        BY <3>1, <3>2
      <3> QED BY <2>2, <3>3 DEF Suspend
    <2>3. CASE Resume(e)
      BY <2>3 DEF Resume
    <2>4. CASE WaitTimesOut(e)
      BY <2>4 DEF WaitTimesOut
    <2> QED BY <1>6, <2>1, <2>2, <2>3, <2>4 DEF OperationStep
  <1>7. ASSUME NEW e \in Events, NEW function, NEW has_timeout, Call(e, function, has_timeout)
        PROVE  StreamTypeOK'
    <2>1. calls[e] + 1 \in Nat /\ base[e] + offset[e] \in Nat /\ received \in Nat /\ Length \in Nat
      <3>1. calls[e] \in Nat /\ base[e] \in Nat /\ offset[e] \in Nat /\ received \in Nat
        OBVIOUS
      <3>2. \A m, n \in Nat : m + 1 \in Nat /\ m + n \in Nat
        OBVIOUS
      <3> HIDE DEF StreamTypeOK, Nobody, Return
      <3> QED BY <3>1, <3>2, SizeFacts
    <2>2. calls' \in [Events -> Nat] /\ base' \in [Events -> Nat]
      BY <1>7, <2>1 DEF Call
    <2>3. offset' \in [Events -> Nat] /\ left' \in [Events -> Nat]
      BY <1>7, <2>1 DEF Call
    <2>4. \A d \in Events : offset'[d] + left'[d] <= Length
      BY <1>7, <2>1 DEF Call
    <2> QED BY <1>7, <2>2, <2>3, <2>4 DEF Call
  <1>8. CASE ReceiveEnd \/ ReceiveAgain \/ SendEnd \/ SendAgain
    <2>1. CASE ReceiveEnd
      BY <2>1, BothEvents DEF ReceiveEnd
    <2>2. CASE ReceiveAgain
      BY <2>2, BothEvents DEF ReceiveAgain
    <2>3. CASE SendEnd
      BY <2>3, BothEvents DEF SendEnd
    <2>4. CASE SendAgain
      BY <2>4, BothEvents DEF SendAgain
    <2> QED BY <1>8, <2>1, <2>2, <2>3, <2>4
  <1>9. ASSUME NEW n \in 1..Length, Receive(n) PROVE StreamTypeOK'
    <2>1. /\ OnTransferred("IN", n) /\ received' = received + n /\ n <= arrived - received
          /\ UNCHANGED <<arrived, wire, drained, permits, calls, base>>
      BY <1>9 DEF Receive, Available
    <2>2. received' \in Nat /\ received' <= arrived
      BY <2>1, <1>9, SizeFacts
    <2> QED BY <2>1, <2>2, BothEvents, TransferredTypes, <1>9
  <1>10. ASSUME NEW n \in 1..Length, Send(n) PROVE StreamTypeOK'
    <2>1. /\ OnTransferred("OUT", n) /\ n <= SendBuffer - (Len(wire) - drained)
          /\ wire' = wire \o [i \in 1..n |-> base["OUT"] + i]
          /\ UNCHANGED <<arrived, received, drained, permits, calls, base>>
      BY <1>10 DEF Send, Space
    <2> DEFINE bytes == [i \in 1..n |-> base["OUT"] + i]
    <2>2. n \in Nat
      BY <1>10, SizeFacts
    <2>3. bytes \in Seq(Int) /\ Len(bytes) = n
      <3>1. base["OUT"] \in Nat
        BY BothEvents
      <3>2. \A i \in 1..n : base["OUT"] + i \in Int
        BY <3>1, <2>2
      <3> QED BY <3>2, <2>2
    <2> HIDE DEF bytes
    <2>4. wire' \in Seq(Int) /\ Len(wire') = Len(wire) + n
      BY <2>1, <2>3, ConcatProperties DEF bytes
    <2>5. drained <= Len(wire') /\ Len(wire') - drained <= SendBuffer
      BY <2>1, <2>2, <2>4, SizeFacts
    <2> QED BY <2>1, <2>4, <2>5, BothEvents, TransferredTypes, <1>10
  <1> QED
    BY <1>1, <1>2, <1>3, <1>4, <1>5, <1>6, <1>7, <1>8, <1>9, <1>10
    DEF Next, ThreadStep, Transfer, Events

LEMMA ThreadStaysHeld ==
    ASSUME StreamTypeOK, ThreadIsHeld, [Next]_vars
    PROVE  ThreadIsHeld'
  <1> USE DEF ThreadIsHeld, Return, Nobody, Events
  <1>1. pc \in [Events -> {"idle", "is_open", "try", "suspend", "wait"}]
    BY DEF StreamTypeOK
  <1>2. CASE UNCHANGED <<running, pc>>
    BY <1>2
  <1>3. ASSUME NEW e \in Events, OperationStep(e) PROVE ThreadIsHeld'
    <2>1. \A d \in Events : d # e => pc'[d] = pc[d]
      BY <1>1, <1>3 DEF OperationStep, IsOpen, Suspend, Resume, WaitTimesOut
    <2>2. running = e \/ running = "nobody"
      BY <1>3 DEF OperationStep, IsOpen, Suspend, Resume, WaitTimesOut
    <2>3. \A d \in Events : d # e => pc'[d] \notin {"is_open", "try", "suspend"}
      BY <2>1, <2>2, NobodyIsNoEvent
    <2>4. pc'[e] \in {"is_open", "try", "suspend"} => running' = e
      BY <1>1, <1>3 DEF OperationStep, IsOpen, Suspend, Resume, WaitTimesOut
    <2> QED BY <2>3, <2>4
  <1>4. ASSUME NEW e \in Events, NEW function, NEW has_timeout, Call(e, function, has_timeout)
        PROVE  ThreadIsHeld'
    <2>1. \A d \in Events : pc'[d] # pc[d] => d = e
      BY <1>1, <1>4 DEF Call
    <2>2. \A d \in Events : pc[d] \notin {"is_open", "try", "suspend"}
      BY <1>4, NobodyIsNoEvent DEF Call
    <2> QED BY <1>4, <2>1, <2>2 DEF Call
  <1>5. CASE ReceiveEnd \/ ReceiveAgain \/ SendEnd \/ SendAgain
    BY <1>1, <1>5, BothEvents DEF ReceiveEnd, ReceiveAgain, SendEnd, SendAgain
  <1>6. ASSUME NEW n, Receive(n) \/ Send(n) PROVE ThreadIsHeld'
    BY <1>1, <1>6, BothEvents DEF Receive, Send, OnTransferred
  <1>7. CASE PeerStep \/ ShutdownStep \/ Select
    BY <1>2, <1>7 DEF PeerStep, PeerSends, PeerReads, PeerCloses,
       ShutdownStep, ShutdownStream, ShutdownSocket, ShutdownInterrupt,
       Select, ReportEvent
  <1>8. ASSUME NEW e \in Events, Interrupt(e) PROVE ThreadIsHeld'
    BY <1>2, <1>8 DEF Interrupt
  <1>9. CASE UNCHANGED vars
    BY <1>2, <1>9 DEF vars
  <1> QED
    BY <1>3, <1>4, <1>5, <1>6, <1>7, <1>8, <1>9 DEF Next, ThreadStep, Transfer, Events

\* What ReaderInd is about.
ReaderTypes ==
    /\ permits \in [Events -> Int] /\ received \in Nat /\ arrived \in Nat
    /\ pc \in [Events -> {"idle", "is_open", "try", "suspend", "wait"}]
    /\ offset \in [Events -> Nat] /\ base \in [Events -> Nat] /\ left \in [Events -> Nat]
    /\ result \in [Events -> {"0", "CLOSED", "REMOTELY_CLOSED", "EAGAIN", "TIMEOUT", "assert"}]

LEMMA ReaderTypesHold == StreamTypeOK => ReaderTypes
  BY SizesAssumption DEF StreamTypeOK, ReaderTypes

LEMMA ReaderUntouched ==
    ASSUME ReaderInd, pending => pending', Readable' => Readable \/ pending',
           pc'["IN"] = pc["IN"], result'["IN"] = result["IN"], permits'["IN"] = permits["IN"],
           offset'["IN"] = offset["IN"], base'["IN"] = base["IN"], received' = received,
           UNCHANGED expired \/ expired' = expired \cup {"OUT"}
    PROVE  ReaderInd'
  BY DEF ReaderInd, NoMissedInput

\* An interrupt of the reader, or of a shutdown(), gives it a permit.
LEMMA ReaderGetsPermit ==
    ASSUME ReaderInd, permits["IN"] \in Int, permits'["IN"] = permits["IN"] + 1,
           pending => pending', Readable' => Readable,
           pc'["IN"] = pc["IN"], result'["IN"] = result["IN"], UNCHANGED expired,
           offset'["IN"] = offset["IN"], base'["IN"] = base["IN"], received' = received
    PROVE  ReaderInd'
  BY DEF ReaderInd, NoMissedInput

LEMMA OutsideKeepsReader ==
    ASSUME ReaderTypes, ReaderInd,
           \/ PeerStep
           \/ ShutdownStep
           \/ \E e \in Events : Interrupt(e)
    PROVE  ReaderInd'
  <1> USE DEF Readable, Available, socketVars, stopVars, callVars, resultVars
  <1>1. CASE PeerStep
    <2>1. CASE \E n \in 1..Length : PeerSends(n)
      BY <2>1, ReaderUntouched DEF PeerSends
    <2>2. ASSUME NEW n, PeerReads(n) PROVE ReaderInd'
      <3>1. pending' = (pending \/ no_space)
        BY <2>2 DEF PeerReads
      <3>2. pending => pending'
        BY <3>1
      <3> QED BY <2>2, <3>2, ReaderUntouched DEF PeerReads
    <2>3. CASE PeerCloses
      BY <2>3, ReaderUntouched DEF PeerCloses
    <2> QED BY <1>1, <2>1, <2>2, <2>3 DEF PeerStep
  <1>2. CASE \E e \in Events : ShutdownStream(e) \/ ShutdownSocket(e)
    BY <1>2, ReaderUntouched DEF ShutdownStream, ShutdownSocket
  <1>3. ASSUME NEW e \in Events, ShutdownInterrupt(e) \/ Interrupt(e) PROVE ReaderInd'
    <2>1. /\ permits' = [permits EXCEPT ![e] = permits[e] + 1]
          /\ UNCHANGED <<pending, arrived, received, peer_closed, half_closed, pc, expired, result, offset, base>>
      BY <1>3 DEF ShutdownInterrupt, Interrupt
    <2>2. permits["IN"] \in Int
      BY BothEvents DEF ReaderTypes
    <2>3. CASE e = "IN"
      <3>1. permits'["IN"] = permits["IN"] + 1
        BY <2>1, <2>3, BothEvents DEF ReaderTypes
      <3> QED BY <2>1, <2>2, <3>1, ReaderGetsPermit
    <2>4. CASE e # "IN"
      <3>1. permits'["IN"] = permits["IN"]
        BY <2>1, <2>4, BothEvents DEF ReaderTypes
      <3> QED BY <2>1, <3>1, ReaderUntouched
    <2> QED BY <2>3, <2>4
  <1> QED BY <1>1, <1>2, <1>3 DEF ShutdownStep, Events

LEMMA WaitingKeepsReader ==
    ASSUME ReaderTypes, ReaderInd, ThreadIsHeld,
           \/ Select
           \/ \E e \in Events : OperationStep(e)
           \/ ReceiveEnd \/ ReceiveAgain \/ SendEnd \/ SendAgain
    PROVE  ReaderInd'
  <1> USE DEF Readable, Available, socketVars, stopVars, callVars, resultVars
  <1>1. /\ permits["IN"] \in Int
        /\ pc \in [Events -> {"idle", "is_open", "try", "suspend", "wait"}]
        /\ result \in [Events -> {"0", "CLOSED", "REMOTELY_CLOSED", "EAGAIN", "TIMEOUT", "assert"}]
    BY BothEvents DEF ReaderTypes
  <1>2. CASE Select
    <2>1. /\ pending /\ ~pending' /\ running = "nobody" /\ ~Ready("IN")
          /\ UNCHANGED <<arrived, received, peer_closed, half_closed, pc, expired, result, offset, base>>
          /\ permits' = [e \in DOMAIN permits |->
                           IF e = (IF Readable THEN "IN" ELSE IF Writable THEN "OUT" ELSE "nobody")
                           THEN permits[e] + 1 ELSE permits[e]]
      BY <1>2 DEF Select, ReportEvent, Events, Nobody
    <2>2. DOMAIN permits = Events
      BY DEF ReaderTypes
    <2>3. pc["IN"] # "suspend"
      BY <2>1, BothEvents, NobodyIsNoEvent DEF ThreadIsHeld
    <2>4. CASE Readable
      <3>1. permits'["IN"] = permits["IN"] + 1
        BY <2>1, <2>2, <2>4, BothEvents
      <3> QED BY <1>1, <2>1, <2>3, <3>1 DEF ReaderInd, NoMissedInput
    <2>5. CASE ~Readable
      <3>1. permits'["IN"] = permits["IN"]
        BY <2>1, <2>2, <2>5, BothEvents
      <3> QED BY <1>1, <2>1, <2>3, <2>5, <3>1 DEF ReaderInd, NoMissedInput
    <2> QED BY <2>4, <2>5
  <1>3. CASE SendEnd \/ SendAgain \/ OperationStep("OUT")
    <2>1. /\ UNCHANGED <<arrived, received, peer_closed, half_closed, pending, offset, base>>
          /\ UNCHANGED expired \/ expired' = expired \cup {"OUT"}
          /\ pc'["IN"] = pc["IN"] /\ result'["IN"] = result["IN"]
      BY <1>1, <1>3, BothEvents
      DEF SendEnd, SendAgain, OperationStep, Return,
          IsOpen, Suspend, Resume, WaitTimesOut
    <2>2. permits'["IN"] = permits["IN"]
      BY <1>3, BothEvents
      DEF ReaderTypes, SendEnd, SendAgain, OperationStep,
          IsOpen, Suspend, Resume, WaitTimesOut
    <2> QED BY <2>1, <2>2, ReaderUntouched
  <1>4. CASE IsOpen("IN")
    BY <1>1, <1>4, BothEvents DEF ReaderInd, NoMissedInput, IsOpen, Return
  <1>5. CASE Suspend("IN")
    <2>1. /\ UNCHANGED <<arrived, received, peer_closed, half_closed, pending, expired, result, offset, base>>
          /\ pc["IN"] = "suspend"
          /\ \/ permits["IN"] >= 1 /\ pc'["IN"] = "is_open"
             \/ pc'["IN"] = "wait"
      BY <1>1, <1>5, BothEvents DEF Suspend
    <2>2. permits'["IN"] = permits["IN"] - 1
      BY <1>5, BothEvents DEF Suspend, ReaderTypes
    <2> QED BY <1>1, <2>1, <2>2 DEF ReaderInd, NoMissedInput
  <1>6. CASE Resume("IN")
    BY <1>1, <1>6, BothEvents DEF ReaderInd, NoMissedInput, Resume, Ready
  <1>7. CASE WaitTimesOut("IN")
    BY <1>1, <1>7, BothEvents DEF ReaderInd, NoMissedInput, WaitTimesOut, Return
  <1>8. CASE ReceiveEnd
    BY <1>1, <1>8, BothEvents DEF ReaderInd, NoMissedInput, ReceiveEnd, Return
  <1>9. CASE ReceiveAgain
    BY <1>1, <1>9, BothEvents DEF ReaderInd, NoMissedInput, ReceiveAgain
  <1> QED
    BY <1>2, <1>3, <1>4, <1>5, <1>6, <1>7, <1>8, <1>9 DEF OperationStep, Events

LEMMA CallKeepsReader ==
    ASSUME ReaderTypes, ReaderInd, NEW e \in Events, NEW function, NEW has_timeout,
           Call(e, function, has_timeout)
    PROVE  ReaderInd'
  <1> USE DEF Readable, Available, socketVars, stopVars
  <1>1. UNCHANGED <<arrived, received, peer_closed, half_closed, pending, permits, expired>>
    BY DEF Call
  <1>2. CASE e = "OUT"
    <2>1. /\ pc'["IN"] = pc["IN"] /\ result'["IN"] = result["IN"]
          /\ offset'["IN"] = offset["IN"] /\ base'["IN"] = base["IN"]
      BY <1>2, BothEvents DEF Call, ReaderTypes
    <2> QED BY <1>1, <2>1, ReaderUntouched
  <1>3. CASE e = "IN"
    <2>1. /\ pc["IN"] = "idle" /\ pc'["IN"] = "is_open"
          /\ offset'["IN"] = 0 /\ base'["IN"] = received /\ received \in Nat
      BY <1>3, BothEvents DEF Call, ReaderTypes
    <2>2. offset'["IN"] = received' - base'["IN"]
      BY <1>1, <2>1
    <2> QED BY <1>1, <2>1, <2>2 DEF ReaderInd, NoMissedInput
  <1> QED BY <1>2, <1>3 DEF Events

\* A read that gets more than it asked for ends with a failed assertion.
LEMMA TransferKeepsReader ==
    ASSUME ReaderTypes, ReaderInd, NEW n \in 1..Length,
           Receive(n) \/ Send(n)
    PROVE  ReaderInd'
  <1> USE DEF Readable, Available, callVars, stopVars
  <1>1. CASE Send(n)
    <2>1. /\ UNCHANGED <<arrived, received, peer_closed, half_closed, pending, permits, expired, base>>
          /\ OnTransferred("OUT", n)
      BY <1>1 DEF Send
    <2>2. pc'["IN"] = pc["IN"] /\ result'["IN"] = result["IN"] /\ offset'["IN"] = offset["IN"]
      BY <2>1, BothEvents DEF OnTransferred, Return, ReaderTypes
    <2> QED BY <2>1, <2>2, ReaderUntouched
  <1>2. CASE Receive(n)
    <2>1. /\ UNCHANGED <<arrived, peer_closed, half_closed, pending, permits, expired, base>>
          /\ OnTransferred("IN", n) /\ received' = received + n
          /\ pc["IN"] = "try" /\ n \in Nat /\ n <= arrived - received
      BY <1>2, SizeFacts DEF Receive
    <2>2. /\ received \in Nat /\ arrived \in Nat /\ offset["IN"] \in Nat /\ base["IN"] \in Nat
          /\ left["IN"] \in Nat /\ permits["IN"] \in Int
      BY BothEvents DEF ReaderTypes
    <2>3. offset["IN"] = received - base["IN"]
      BY <2>1 DEF ReaderInd
    <2>4. pc'["IN"] = "idle" \/ pc'["IN"] = "is_open"
      BY <2>1, BothEvents DEF OnTransferred, Return, ReaderTypes
    <2>5. CASE n <= left["IN"]
      <3>1. offset'["IN"] = offset["IN"] + n /\ base'["IN"] = base["IN"]
        BY <2>1, <2>5, BothEvents DEF OnTransferred, ReaderTypes
      <3>2. offset'["IN"] = received' - base'["IN"]
        BY <2>1, <2>2, <2>3, <3>1
      <3> QED BY <2>1, <2>4, <3>2 DEF ReaderInd, NoMissedInput
    <2>6. CASE ~(n <= left["IN"])
      <3>1. n >= left["IN"]
        BY <2>1, <2>2, <2>6
      <3>2. pc'["IN"] = "idle" /\ result'["IN"] = "assert"
        BY <2>1, <2>6, <3>1, BothEvents DEF OnTransferred, Return, ReaderTypes
      <3> QED BY <2>1, <3>2 DEF ReaderInd, NoMissedInput
    <2> QED BY <2>5, <2>6
  <1> QED BY <1>1, <1>2

\* A reader does not wait beside input that nobody will report, and a read
\* counts the bytes that it took from the socket, for any sizes and any number
\* of calls and interrupts.
THEOREM StreamSafety == Spec => []StreamInv
  <1>1. Init => StreamInd
    BY StreamIndInit
  <1>2. StreamInd /\ [Next]_vars => StreamInd'
    <2> SUFFICES ASSUME StreamInd, [Next]_vars PROVE StreamInd'
      OBVIOUS
    <2> USE DEF StreamInd
    <2>1. ReaderTypes
      BY ReaderTypesHold
    <2>2. CASE UNCHANGED vars
      BY <2>2, ReaderUntouched DEF vars, socketVars, stopVars, callVars,
         resultVars, Readable, Available, StreamTypeOK, ThreadIsHeld
    <2>3. CASE Next
      <3>1. StreamTypeOK' /\ ThreadIsHeld'
        BY <2>3, StreamTypes, ThreadStaysHeld
      <3>2. ReaderInd'
        BY <2>1, <2>3, OutsideKeepsReader, WaitingKeepsReader, CallKeepsReader, TransferKeepsReader
        DEF Next, ThreadStep, Transfer, Events
      <3> QED BY <3>1, <3>2
    <2> QED BY <2>2, <2>3
  <1> QED BY <1>1, <1>2, StreamIndImplies, PTL DEF Spec
=============================================================================
