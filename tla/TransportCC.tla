---------------------------- MODULE TransportCC -----------------------------
(***************************************************************************)
(* transport_cc: collects the transport-wide numbers and arrival times of  *)
(* received packets and turns them into RTCP transport-cc feedback, when   *)
(* the nack loop asks for a report and when too many packets wait for one. *)
(* Bounds of the code are constants: numbers have SeqMod values (2^16), a  *)
(* report has at most MaxStatus statuses (100), at most MaxRecv packets    *)
(* wait (200), the feedback count has CountMod values (2^8), a status      *)
(* chunk holds ChunkSyms symbols (7), a small delta lies within            *)
(* -ByteMod/2 .. ByteMod/2-1 (ByteMod = 2^8) and a large one within        *)
(* -WordMod/2 .. WordMod/2-1 (2^16) ticks; reference times are multiples   *)
(* of RefTicks (64 ms, 256 ticks of 250 us).  Arrival times are whole      *)
(* ticks.                                                                  *)
(***************************************************************************)
EXTENDS Integers, Sequences, FiniteSets, SequencesExt, FiniteSetsExt

CONSTANTS
    SeqSpace, MaxStatus, MaxRecv, CountMod, ChunkSyms, ByteMod, WordMod, RefTicks,
    Start,      \* the number of the first packet the remote side sends
    MaxTop,     \* bound: packets sent
    Reorder,    \* bound: how far behind the newest packet one may arrive
    MaxClock    \* bound: arrival times

\* What waits and what the network may still deliver spans less than half a cycle of
\* numbers, so that int16_t differences order it, and a reference time is less than
\* half a large delta's range before the first arrival.
ASSUME BoundsAssumption ==
    /\ {SeqSpace, MaxStatus, MaxRecv, CountMod, ChunkSyms, ByteMod, WordMod, RefTicks} \subseteq Nat \ {0}
    /\ Start \in 0..SeqSpace - 1
    /\ Reorder \in Nat
    /\ Reorder + 2 * MaxRecv < SeqSpace \div 2
    /\ RefTicks <= WordMod \div 2

VARIABLES
    recv,             \* entries [seq, ts] waiting to be reported, in order of number
    next_report_seq,
    fb_count,
    out,              \* the feedback packets sent in the last step
    \* the remote sender and the network
    top,              \* highest packet that arrived, not wrapped
    arrived,          \* packets that arrived, not wrapped
    crossed,          \* a packet arrived after a report had passed its number
    clock

twccVars == <<recv, next_report_seq, fb_count>>
netVars == <<top, arrived, crossed, clock>>
vars == <<twccVars, out, netVars>>

State == [recv |-> recv, next |-> next_report_seq, count |-> fb_count, out |-> <<>>]

-----------------------------------------------------------------------------
\* static_cast<int16_t>(a - b) < 0
SeqBefore(a, b) == a # b /\ (b - a) % SeqSpace < SeqSpace \div 2

\* lower_bound, then insert unless the number is already there.
Insert(list, e) ==
    LET at == Cardinality({i \in 1..Len(list) : SeqBefore(list[i].seq, e.seq)}) + 1
    IN  IF at <= Len(list) /\ list[at].seq = e.seq THEN list ELSE InsertAt(list, at, e)

\* How many statuses precede the entry's own, when numbering starts at next.
Places(list, next) ==
    LET place[i \in 1..Len(list)] ==
          IF i = 1 THEN (list[1].seq - next) % SeqSpace
          ELSE place[i - 1] + ((list[i].seq - list[i - 1].seq) % SeqSpace)
    IN  place

\* Every received packet is given a small delta.
MutantStatus(delta) == "small"

\* Which of the status symbols describes a packet received delta ticks after the previous one.
DeltaStatus(delta) ==
    IF -(ByteMod \div 2) <= delta /\ delta < ByteMod \div 2 THEN "small"
    ELSE IF -(WordMod \div 2) <= delta /\ delta < WordMod \div 2 THEN "large"
    ELSE "without_delta"

\* The deltas: one byte for a small one, a word for a large one, none for the others.
DeltaBytes(packets) ==
    LET one(p) == IF p.status = "small" THEN << <<"byte", p.delta % ByteMod>> >>
                  ELSE IF p.status = "large" THEN << <<"word", p.delta % WordMod>> >>
                  ELSE << >>
    IN  FlattenSeq([i \in 1..Len(packets) |-> one(packets[i])])

\* Status vector chunks of two-bit symbols; the symbols left over are zero.
StatusChunks(packets) ==
    [c \in 1..((Len(packets) + ChunkSyms - 1) \div ChunkSyms) |->
        [j \in 1..ChunkSyms |->
            LET i == (c - 1) * ChunkSyms + j
            IN  IF i <= Len(packets) THEN packets[i].status ELSE "not_received"]]

tcc_build_packet_status(packets) ==
    [chunks |-> StatusChunks(packets), deltas |-> DeltaBytes(packets)]

\* The fixed part of the feedback in front of the chunks (padding is left out).
build_transport_cc(base, n, ref, count, packets) ==
    LET body == tcc_build_packet_status(packets)
    IN  [base_seq |-> base, status_count |-> n, reference_time |-> ref,
         feedback_packet_count |-> count, chunks |-> body.chunks, deltas |-> body.deltas]

\* Entries are dropped although the report had no room for them.
MutantConsumed(list, place, n) == Len(list)

\* The last entry reported stays in the list.
MutantRoom(list, place, n) == Cardinality({i \in 1..Len(list) : place[i] + 1 < n})

\* How many entries the report has room for.
Consumed(list, place, n) == Cardinality({i \in 1..Len(list) : place[i] < n})

report(st) ==
    LET next  == IF st.count = 0 THEN st.recv[1].seq ELSE st.next
        place == Places(st.recv, next)
        n     == Min({MaxStatus, place[Len(st.recv)] + 1})
        used  == Consumed(st.recv, place, n)
        ref   == (st.recv[1].ts \div RefTicks) * RefTicks
        delta(i) == st.recv[i].ts - (IF i = 1 THEN ref ELSE st.recv[i - 1].ts)
        info(k) == IF \E i \in 1..Len(st.recv) : place[i] = k - 1
                   THEN LET i == CHOOSE i \in 1..Len(st.recv) : place[i] = k - 1
                        IN  [status |-> DeltaStatus(delta(i)), delta |-> delta(i)]
                   ELSE [status |-> "not_received", delta |-> 0]
        count == (st.count + 1) % CountMod
    IN  IF st.recv = <<>> THEN st
        ELSE [recv |-> SubSeq(st.recv, used + 1, Len(st.recv)),
              next |-> (next + n) % SeqSpace,
              count |-> count,
              out |-> Append(st.out, build_transport_cc(next, n, ref, count,
                                                        [k \in 1..n |-> info(k)]))]

\* while (_recv.size() > 200) report(): MaxRecv + 1 packets wait at most, and that
\* many reports go round the number space once and reach the first of them.
Drain(st) ==
    LET rounds == (SeqSpace \div MaxStatus) + 1
        round[k \in 0..rounds] ==
          IF k = 0 THEN st
          ELSE LET prev == round[k - 1]
               IN  IF Len(prev.recv) > MaxRecv THEN report(prev) ELSE prev
    IN  round[rounds]

handle_incoming(st, seq, now) ==
    Drain([st EXCEPT !.recv = Insert(@, [seq |-> seq, ts |-> now])])

-----------------------------------------------------------------------------
Becomes(st) ==
    /\ recv' = st.recv
    /\ next_report_seq' = st.next
    /\ fb_count' = st.count
    /\ out' = st.out

Init ==
    /\ recv = <<>> /\ next_report_seq = 0 /\ fb_count = 0 /\ out = <<>>
    /\ top = Start - 1 /\ arrived = {} /\ crossed = FALSE /\ clock = 0

\* A report has already passed this number.
Passed(seq) ==
    /\ next_report_seq # seq /\ SeqBefore(seq, next_report_seq)
    /\ \E n \in arrived : \A i \in 1..Len(recv) : recv[i].seq # n % SeqSpace

\* Packet n arrives: a new one, one that was overtaken, or a copy.
Arrive(n, pause) ==
    /\ n >= Start /\ n <= MaxTop
    /\ clock + pause <= MaxClock
    /\ \E st \in {handle_incoming(State, n % SeqSpace, clock + pause)} : Becomes(st)
    /\ top' = Max({top, n})
    /\ arrived' = arrived \cup {n}
    /\ crossed' = (crossed \/ Passed(n % SeqSpace))
    /\ clock' = clock + pause

\* One round of the nack loop.
NackLoopReport ==
    /\ recv # <<>>
    /\ UNCHANGED netVars
    /\ \E st \in {report(State)} : Becomes(st)

Next ==
    \/ \E n \in (top - Reorder)..(top + 2), pause \in {0, 1, ByteMod} : Arrive(n, pause)
    \/ NackLoopReport

Spec == Init /\ [][Next]_vars

-----------------------------------------------------------------------------
\* What the remote side reads out of one feedback packet.
Symbol(fb, k) == fb.chunks[(k - 1) \div ChunkSyms + 1][((k - 1) % ChunkSyms) + 1]
NumberOf(fb, k) == (fb.base_seq + k - 1) % SeqSpace
ToldReceived(fb) == {NumberOf(fb, k) : k \in {j \in 1..fb.status_count : Symbol(fb, j) # "not_received"}}
ToldLost(fb) == {NumberOf(fb, k) : k \in {j \in 1..fb.status_count : Symbol(fb, j) = "not_received"}}

\* The arrival times: the reference time plus the deltas, a small one unsigned.
DecodedTimes(fb) ==
    LET signed(d) == IF d[1] = "word" /\ d[2] >= WordMod \div 2 THEN d[2] - WordMod ELSE d[2]
        t[i \in 0..Len(fb.deltas)] ==
          IF i = 0 THEN fb.reference_time ELSE t[i - 1] + signed(fb.deltas[i])
    IN  [i \in 1..Len(fb.deltas) |-> t[i]]

Numbers(list) == {list[i].seq : i \in 1..Len(list)}
Recent == {n % SeqSpace : n \in {m \in arrived : m > top - SeqSpace \div 2}}

\* After every packet the list is back under its limit, in strictly
\* ascending order of number: the while loop of handle_incoming ends even
\* when the number it must reach lies almost a full cycle ahead.
BacklogOrdered ==
    /\ Len(recv) <= MaxRecv
    /\ \A i \in 1..Len(recv) - 1 : SeqBefore(recv[i].seq, recv[i + 1].seq)

\* As long as no packet came after a report had passed its number, a number
\* that a feedback declares lost belongs to no packet that has arrived,
\* across wraps of the number and of the feedback count.
LossesTrue ==
    ~crossed => \A f \in 1..Len(out) : ToldLost(out[f]) \cap Recent = {}

\* The backlog stays ordered and bounded, and so the losses told are true.
FeedbackTrue == BacklogOrdered /\ LossesTrue

\* No receipt is forgotten or invented: what a step reports as received and
\* what still waits are the packets that waited and at most one more, which
\* arrived; nothing is both reported and kept.  Truncated reports (MaxStatus)
\* keep the rest of the list for the next one.
ReceiptsConserved ==
    [][LET told  == UNION {ToldReceived(out'[f]) : f \in 1..Len(out')}
           after == told \cup Numbers(recv')
           extra == after \ Numbers(recv)
       IN  /\ Numbers(recv) \subseteq after
           /\ Cardinality(extra) <= 1
           /\ extra \subseteq {n % SeqSpace : n \in arrived'}
           /\ told \cap Numbers(recv') = {}]_vars

\* A report's deltas give back the arrival times of the packets it covers,
\* when they arrived in order of number and no pause exceeds a large delta.
TimesDecode ==
    [][LET ts == [i \in 1..(Len(recv) - Len(recv')) |-> recv[i].ts]
       IN  (/\ NackLoopReport
            /\ \A i \in 1..Len(ts) - 1 : ts[i + 1] - ts[i] \in 0..(WordMod \div 2) - 1)
           => DecodedTimes(out'[1]) = ts]_vars
=============================================================================
