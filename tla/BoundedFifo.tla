---------------------------- MODULE BoundedFifo ----------------------------
(***************************************************************************)
(* What a context's response queue promises its users, whatever the ring   *)
(* buffer behind it looks like: responses are handed out in the order in   *)
(* which they were accepted, each exactly once; a store is refused only    *)
(* when the queue holds Capacity responses; a read comes back empty only   *)
(* when nothing is pending.                                                *)
(***************************************************************************)
EXTENDS Integers, Sequences

CONSTANTS
    Capacity,   \* responses the queue can hold
    Responses,  \* the responses that can be stored
    Writers,    \* who may store
    None        \* what a read of an empty queue returns

VARIABLES
    queue,      \* the pending responses, oldest first
    result,     \* per writer, what its last store returned (1 accepted, 0 refused)
    out         \* what the last read returned

fifoVars == <<queue, result, out>>

FifoInit ==
    /\ queue = <<>>
    /\ result = [w \in Writers |-> 0]
    /\ out = None

Accept(w, v) ==
    /\ Len(queue) < Capacity
    /\ queue' = Append(queue, v)
    /\ result' = [result EXCEPT ![w] = 1]
    /\ UNCHANGED out

Refuse(w) ==
    /\ Len(queue) = Capacity
    /\ result' = [result EXCEPT ![w] = 0]
    /\ UNCHANGED <<queue, out>>

Deliver ==
    /\ queue # <<>>
    /\ out' = Head(queue)
    /\ queue' = Tail(queue)
    /\ UNCHANGED result

DeliverNone ==
    /\ queue = <<>>
    /\ out' = None
    /\ UNCHANGED <<queue, result>>

FifoNext ==
    \/ \E w \in Writers : (\E v \in Responses : Accept(w, v)) \/ Refuse(w)
    \/ Deliver
    \/ DeliverNone

FifoSpec == FifoInit /\ [][FifoNext]_fifoVars
=============================================================================
