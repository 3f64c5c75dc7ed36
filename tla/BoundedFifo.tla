---------------------------- MODULE BoundedFifo -----------------------------
(***************************************************************************)
(* What a kBuffer promises its callers: a bounded first-in first-out       *)
(* queue, with no ring, no semaphores and no threads.                      *)
(***************************************************************************)
EXTENDS Naturals, Sequences

CONSTANTS Item, Capacity, Initially

VARIABLE queue

Init == queue = Initially

Put(i) == Len(queue) < Capacity /\ queue' = Append(queue, i)

Get == queue # <<>> /\ queue' = Tail(queue)

Next == Get \/ \E i \in Item : Put(i)

Spec == Init /\ [][Next]_queue
=============================================================================
