------------------------------ MODULE TaskFifo ------------------------------
(***************************************************************************)
(* What the remote task queue of a Context promises: the tasks that        *)
(* threads post are put in one order, and they are performed one at a      *)
(* time, each exactly once and in that order.                              *)
(***************************************************************************)
EXTENDS Naturals, Sequences

CONSTANT Tasks

VARIABLES
    waiting,    \* accepted and not yet performed, oldest first
    performed   \* performed, oldest first

fifoVars == <<waiting, performed>>

FifoInit == waiting = <<>> /\ performed = <<>>

Accepted(t) ==
    \E i \in 1..Len(waiting \o performed) : (waiting \o performed)[i] = t

Accept(t) ==
    /\ ~Accepted(t)
    /\ waiting' = Append(waiting, t)
    /\ UNCHANGED performed

Perform ==
    /\ waiting # <<>>
    /\ performed' = Append(performed, Head(waiting))
    /\ waiting' = Tail(waiting)

FifoNext == Perform \/ \E t \in Tasks : Accept(t)

FifoSpec == FifoInit /\ [][FifoNext]_fifoVars
=============================================================================
