-------------------------------- MODULE Fifo --------------------------------
(***************************************************************************)
(* What bqueue.h promises of a queue: an element is added to the back and  *)
(* removed from the front.  returned is the result of the last removal.    *)
(***************************************************************************)
EXTENDS Sequences

CONSTANTS Value,   \* what is queued
          NoValue  \* the NULL result of a removal from an empty queue

VARIABLES items, returned

Init == items = <<>> /\ returned = NoValue

Enqueue(v) == items' = Append(items, v) /\ UNCHANGED returned

Dequeue ==
  \/ items # <<>> /\ items' = Tail(items) /\ returned' = Head(items)
  \/ items = <<>> /\ returned' = NoValue /\ UNCHANGED items

Next == Dequeue \/ \E v \in Value : Enqueue(v)

Spec == Init /\ [][Next]_<<items, returned>>
=============================================================================
