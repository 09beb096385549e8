---------------------------- MODULE PacketStream ----------------------------
(***************************************************************************)
(* detail::packet_stream, the connection's _send_buf, with ice_send_loop   *)
(* that empties it.  packet_queue is external: it holds Capacity bytes and *)
(* refuses a packet that does not fit.  A shared_promise wakes everybody   *)
(* who waits, in the order they came; who still does not fit waits again.  *)
(***************************************************************************)
EXTENDS Naturals, SequencesExt

CONSTANT Capacity

ASSUME CapacityAssumption == Capacity \in Nat

VARIABLES
    buf,      \* _buf
    waiting,  \* packets in async_write that wait for _writer
    running   \* ice_send_loop runs; it has the first packet of buf in its hands

streamVars == <<buf, waiting, running>>

Bytes(q) ==
    LET sum[k \in 0 .. Len(q)] == IF k = 0 THEN 0 ELSE sum[k - 1] + q[k].size
    IN  sum[Len(q)]

\* packet_queue::write succeeds.
Fits(q, p) == Bytes(q) + p.size <= Capacity

\* A packet that does not fit overwrites the newest one.
MutantTryWrite(q, p) == IF Fits(q, p) \/ q = <<>> THEN Append(q, p) ELSE Append(Front(q), p)

\* try_write: the packet is dropped by the caller when it does not fit.
try_write(q, p) == IF Fits(q, p) THEN Append(q, p) ELSE q

\* async_write waits when it does not fit.
async_write(p) ==
    /\ buf' = try_write(buf, p)
    /\ waiting' = IF Fits(buf, p) THEN waiting ELSE Append(waiting, p)

\* A writer that was woken tries once more, and waits again if it must.
TryAgain(acc, p) ==
    [buf |-> try_write(acc.buf, p),
     waiting |-> IF Fits(acc.buf, p) THEN acc.waiting ELSE Append(acc.waiting, p)]

\* Nobody is told of the room.
MutantPop == [buf |-> Tail(buf), waiting |-> waiting]

\* pop: the first packet leaves and the writers that wait try again.
pop ==
    LET tried[k \in 0 .. Len(waiting)] ==
            IF k = 0 THEN [buf |-> Tail(buf), waiting |-> <<>>]
            ELSE TryAgain(tried[k - 1], waiting[k])
    IN  tried[Len(waiting)]

StreamInit == buf = <<>> /\ waiting = <<>> /\ running = FALSE

\* do_connect spawns ice_send_loop.
StartIceLoop == ~running /\ running' = TRUE /\ UNCHANGED <<buf, waiting>>

\* _agent.sendto completes, well or not, and the scope guard pops.
IceSent ==
    /\ running /\ buf # <<>>
    /\ buf' = pop.buf /\ waiting' = pop.waiting
    /\ UNCHANGED running

\* The application cancels a send that waits.
CancelWrite(i) ==
    /\ i \in DOMAIN waiting
    /\ waiting' = RemoveAt(waiting, i)
    /\ UNCHANGED <<buf, running>>
=============================================================================
