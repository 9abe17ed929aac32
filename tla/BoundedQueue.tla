---------------------------- MODULE BoundedQueue ----------------------------
(***************************************************************************)
(* What a circular queue promises its one producer and its one consumer: a  *)
(* first-in first-out queue of bounded length whose operations are atomic.  *)
(* TLoEEndpoint uses its queues as if they were this.                       *)
(***************************************************************************)
EXTENDS Naturals, Sequences

CONSTANT CAPACITY   \* elements the queue has room for

VARIABLES queue,    \* what has been enqueued and not dequeued
          put,      \* everything enqueued so far
          got       \* everything dequeued so far

vars == <<queue, put, got>>

Init == queue = <<>> /\ put = <<>> /\ got = <<>>

Enqueue ==
    /\ Len(queue) < CAPACITY
    /\ LET item == Len(put) + 1
       IN  queue' = Append(queue, item) /\ put' = Append(put, item)
    /\ UNCHANGED got

Dequeue ==
    /\ queue # <<>>
    /\ got' = Append(got, Head(queue))
    /\ queue' = Tail(queue)
    /\ UNCHANGED put

Next == Enqueue \/ Dequeue

Spec == Init /\ [][Next]_vars
=============================================================================
