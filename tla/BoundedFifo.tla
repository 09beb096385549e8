---------------------------- MODULE BoundedFifo -----------------------------
(***************************************************************************)
(* What the send buffer of a connection promises: packets enter at the end *)
(* and leave at the front, one at a time, and the bytes held never exceed  *)
(* the capacity.                                                           *)
(***************************************************************************)
EXTENDS Naturals, SequencesExt

CONSTANT Capacity

VARIABLE queue    \* the packets held

Bytes(q) ==
    LET sum[k \in 0 .. Len(q)] == IF k = 0 THEN 0 ELSE sum[k - 1] + q[k].size
    IN  sum[Len(q)]

Init == queue = <<>>

\* Packets enter behind those that are there.
Enter == IsPrefix(queue, queue')

\* The first packet leaves; the room it made may be used at once.
Leave == queue # <<>> /\ IsPrefix(Tail(queue), queue')

Next == (Enter \/ Leave) /\ Bytes(queue') <= Capacity

Spec == Init /\ [][Next]_queue
=============================================================================
