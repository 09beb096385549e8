----------------------------- MODULE RtpSender ------------------------------
(***************************************************************************)
(* One rtp_sender of a connected connection_impl: _sender_send_loop with   *)
(* the packet history, the application's send_rtp, retransmission on NACK  *)
(* and the feedback of the connection, which share _send_buf.              *)
(*                                                                         *)
(* Packets of a stream are numbered from 1 without wrapping; on the wire   *)
(* packet n has the number n % SeqSpace.  A packet's payload and timestamp   *)
(* are known by its n.  RTX packets have size RtxSize in the buffer.       *)
(***************************************************************************)
EXTENDS PacketStream, RtpDemux

CONSTANTS
    Streams,       \* number of _streams (simulcast layers)
    SeqSpace,      \* values of a sequence number, 0x10000 in the code
    HISTORY_SIZE,  \* 128 in the code
    Tracks,        \* tracks the application has
    Frames,        \* what recv may yield: for each payload its stream
    RawSizes,      \* sizes of packets given to send_rtp
    RtxSize,       \* size of a retransmission, and of feedback
    NackForms,     \* datagrams in which the peer sends NACKs
    MaxNumbers,    \* bound on the packets of all streams
    MaxSync        \* bound on NACKs and feedback

ASSUME SenderAssumption ==
    /\ Streams \in Nat \ {0} /\ HISTORY_SIZE \in Nat \ {0} /\ SeqSpace \in Nat \ {0}
    /\ SeqSpace % HISTORY_SIZE = 0
    /\ Frames \subseteq Seq(1 .. Streams)
    /\ RtxSize \in Nat /\ RawSizes \subseteq 1 .. Capacity
    /\ MaxNumbers \in Nat /\ MaxSync \in Nat

VARIABLES
    track,    \* rtp_sender::_track, or "none"
    stopped,  \* rtp_sender::_stopped
    loop,     \* _sender_send_loop: where it is, its track, streams still to send on
    streams,  \* per stream: last number n, rtx_seq, history, packet_count
    raws,     \* numbers of the first stream that send_rtp used
    failed,   \* per stream, packets numbered but not sent
    asked,    \* <<stream, number>> that the last step's NACK asked for
    sync      \* NACKs and feedback so far

loopVars == <<track, stopped, loop>>
senderVars == <<streamVars, loopVars, streams, raws, failed, asked, sync>>

S == 1 .. Streams
Slots == 0 .. HISTORY_SIZE - 1
Seq16(n) == n % SeqSpace
Slot(n) == Seq16(n) % HISTORY_SIZE
NoEntry == 0

Numbers == FoldFunction(LAMBDA st, sum : st.n + sum, 0, streams)

Init ==
    /\ StreamInit
    /\ track \in Tracks \cup {"none"} /\ stopped = FALSE
    /\ loop = [pc |-> "none", track |-> "none", todo |-> <<>>]
    /\ streams = [s \in S |-> [n |-> 0, rtx_seq |-> 0, packet_count |-> 0,
                               history |-> [i \in Slots |-> NoEntry]]]
    /\ raws = {} /\ failed = [s \in S |-> 0] /\ asked = {} /\ sync = 0

-----------------------------------------------------------------------------
\* _start_sender_loops: no loop without a track; its direction is not read.
StartLoops ==
    /\ loop.pc = "none" /\ ~stopped /\ track # "none"
    /\ loop' = [loop EXCEPT !.pc = "waiting", !.track = track]
    /\ asked' = {}
    /\ UNCHANGED <<streamVars, track, stopped, streams, raws, failed, sync>>

\* replace_track and set_track.  A running loop keeps the track it has.
SetTrack(t) ==
    /\ track # t /\ track' = t
    /\ asked' = {}
    /\ UNCHANGED <<streamVars, stopped, loop, streams, raws, failed, sync>>

\* The packet is stored under the number before its own.
MutantEmit(sts, s) ==
    LET n == sts[s].n + 1
    IN  [sts EXCEPT ![s].n = n, ![s].history[Slot(n - 1)] = n]

\* The packet gets its number and goes into the history before it is sent.
Emit(sts, s) ==
    LET n == sts[s].n + 1
    IN  [sts EXCEPT ![s].n = n, ![s].history[Slot(n)] = n]

AfterFrame == [loop EXCEPT !.pc = IF stopped THEN "done" ELSE "waiting", !.todo = <<>>]

\* recv yields frames: the first packet is made and handed to the transport.
TrackYields(todo) ==
    /\ loop.pc = "waiting" /\ Numbers + Len(todo) <= MaxNumbers
    /\ IF todo = <<>> THEN loop' = AfterFrame /\ UNCHANGED streams
       ELSE /\ loop' = [loop EXCEPT !.pc = "sending", !.todo = todo]
            /\ streams' = Emit(streams, Head(todo))
    /\ asked' = {}
    /\ UNCHANGED <<streamVars, track, stopped, raws, failed, sync>>

\* recv yields nothing: the loop ends.
TrackEnds ==
    /\ loop.pc = "waiting" /\ loop' = [loop EXCEPT !.pc = "done"]
    /\ asked' = {}
    /\ UNCHANGED <<streamVars, track, stopped, streams, raws, failed, sync>>

\* The packet is not counted.
MutantCount(sts, s) == sts

\* update_send_stats.
Count(sts, s) == [sts EXCEPT ![s].packet_count = @ + 1]

\* send_rtp completes; the next packet, the next frame or the end follows.
SendCompletes(ok) ==
    /\ loop.pc = "sending"
    /\ LET s == Head(loop.todo)
           rest == Tail(loop.todo)
       IN  IF ~ok
           THEN /\ loop' = [loop EXCEPT !.pc = "done", !.todo = <<>>]
                /\ failed' = [failed EXCEPT ![s] = @ + 1]
                /\ UNCHANGED streams
           ELSE /\ loop' = IF rest = <<>> THEN AfterFrame ELSE [loop EXCEPT !.todo = rest]
                /\ streams' = IF rest = <<>> THEN Count(streams, s)
                              ELSE Emit(Count(streams, s), Head(rest))
                /\ UNCHANGED failed
    /\ asked' = {}
    /\ UNCHANGED <<streamVars, track, stopped, raws, sync>>

\* rtp_transceiver::stop only sets the flag; rtp_sender::stop also cancels
\* what the loop waits for.
Stop(cancel) ==
    /\ ~stopped /\ stopped' = TRUE
    /\ IF cancel /\ loop.pc \in {"waiting", "sending"}
       THEN /\ loop' = [loop EXCEPT !.pc = "done", !.todo = <<>>]
            /\ failed' = IF loop.pc = "sending" THEN [failed EXCEPT ![Head(loop.todo)] = @ + 1]
                         ELSE failed
       ELSE UNCHANGED <<loop, failed>>
    /\ asked' = {}
    /\ UNCHANGED <<streamVars, track, streams, raws, sync>>

\* send_rtp of the application: rewrite_rtp_packet numbers the packet, which
\* is not stored, and async_write queues it.
RawSend(size) ==
    /\ Numbers < MaxNumbers
    /\ LET n == streams[1].n + 1
           p == [kind |-> "raw", s |-> 1, n |-> n, size |-> size]
       IN  /\ async_write(p)
           /\ streams' = [streams EXCEPT ![1].n = n,
                              ![1].packet_count = IF Fits(buf, p) THEN @ + 1 ELSE @]
           /\ raws' = raws \cup {n}
    /\ asked' = {}
    /\ UNCHANGED <<running, loopVars, failed, sync>>

\* Or encrypt_rtp fails once the packet has its number: upon_error turns that
\* into false and nothing is written.
RawUnencrypted ==
    /\ Numbers < MaxNumbers
    /\ streams' = [streams EXCEPT ![1].n = @ + 1]
    /\ raws' = raws \cup {streams[1].n + 1}
    /\ failed' = [failed EXCEPT ![1] = @ + 1]
    /\ asked' = {}
    /\ UNCHANGED <<streamVars, loopVars, sync>>

-----------------------------------------------------------------------------
\* The number of the entry is not compared.
MutantStored(s, seq) == streams[s].history[seq % HISTORY_SIZE]

\* The history entry for a number, or NoEntry.
Stored(s, seq) ==
    LET e == streams[s].history[seq % HISTORY_SIZE]
    IN  IF e # NoEntry /\ Seq16(e) = seq THEN e ELSE NoEntry

\* do_on_rtp_rtcp_packet for one lost number: the first stream that has it.
\* ssrc 0 stands for every stream.
Retransmit(acc, seq, ssrc) ==
    LET has == { s \in S : ssrc \in {0, s} /\ Stored(s, seq) # NoEntry }
        s == CHOOSE s \in has : \A t \in has : s <= t
    IN  IF has = {} THEN acc
        ELSE [streams |-> [acc.streams EXCEPT ![s].rtx_seq = @ + 1],
              buf |-> try_write(acc.buf, [kind |-> "rtx", s |-> s, n |-> Stored(s, seq),
                                          size |-> RtxSize])]

\* A NACK of the peer for some numbers, in a datagram d.
Nack(d, lost, ssrc) ==
    /\ sync < MaxSync /\ sync' = sync + 1
    /\ LET done[k \in 0 .. Len(lost)] ==
               IF k = 0 THEN [streams |-> streams, buf |-> buf]
               ELSE Retransmit(done[k - 1], lost[k], ssrc)
           r == done[IF ReachesRtcp(d) THEN Len(lost) ELSE 0]
       IN  streams' = r.streams /\ buf' = r.buf
    /\ asked' = IF ssrc = 0 THEN {} ELSE { <<ssrc, seq>> : seq \in ToSet(lost) }
    /\ UNCHANGED <<waiting, running, loopVars, raws, failed>>

\* sync_send_rtcp: a NACK, PLI or TWCC report of ours, dropped when there is
\* no room.
Feedback ==
    /\ sync < MaxSync /\ sync' = sync + 1
    /\ buf' = try_write(buf, [kind |-> "rtcp", s |-> 0, n |-> 0, size |-> RtxSize])
    /\ asked' = {}
    /\ UNCHANGED <<waiting, running, loopVars, streams, raws, failed>>

\* The buffer's own steps; writers that got room are counted.
IceLoopStarts ==
    /\ StartIceLoop /\ asked' = {}
    /\ UNCHANGED <<loopVars, streams, raws, failed, sync>>

IceLoopSent ==
    /\ IceSent
    /\ streams' = [streams EXCEPT ![1].packet_count = @ + Len(waiting) - Len(waiting')]
    /\ asked' = {}
    /\ UNCHANGED <<loopVars, raws, failed, sync>>

RawCancelled(i) ==
    /\ CancelWrite(i)
    /\ failed' = [failed EXCEPT ![1] = @ + 1]
    /\ asked' = {}
    /\ UNCHANGED <<loopVars, streams, raws, sync>>

Next ==
    \/ StartLoops
    \/ \E t \in Tracks \cup {"none"} : SetTrack(t)
    \/ \E todo \in Frames : TrackYields(todo)
    \/ TrackEnds
    \/ \E ok \in BOOLEAN : SendCompletes(ok)
    \/ \E cancel \in BOOLEAN : Stop(cancel)
    \/ \E size \in RawSizes : RawSend(size)
    \/ RawUnencrypted
    \/ \E d \in NackForms, seq \in 0 .. SeqSpace - 1, ssrc \in 0 .. Streams :
          Nack(d, <<seq, Seq16(seq + 1)>>, ssrc)
    \/ Feedback
    \/ IceLoopStarts
    \/ IceLoopSent
    \/ \E i \in DOMAIN waiting : RawCancelled(i)

Spec == Init /\ [][Next]_senderVars

\* _agent.sendto always completes.
FairSpec == Spec /\ WF_senderVars(IceLoopSent)

-----------------------------------------------------------------------------
(***************************************************************************)
(* Properties                                                              *)
(***************************************************************************)
\* _send_buf with its waiting writers and the loop that reads it is a
\* bounded FIFO queue.
Fifo == INSTANCE BoundedFifo WITH Capacity <- Capacity, queue <- buf

\* However try_write, async_write and ice_send_loop interleave, packets leave
\* in the order they were accepted and the capacity is kept.
ImplementsFifo == Fifo!Spec

\* The packet counter of a sender report is right at every await: what was
\* numbered is counted, in flight, waiting for room, or failed.
StatsAddUp ==
    \A s \in S :
        LET sending == IF loop.pc = "sending" /\ Head(loop.todo) = s THEN 1 ELSE 0
            queued  == IF s = 1 THEN Len(waiting) ELSE 0
        IN  streams[s].n = streams[s].packet_count + sending + queued + failed[s]

NewRtx == { p \in ToSet(buf') \ ToSet(buf) : p.kind = "rtx" }

\* A retransmission repeats the packet that was lost and never one a cycle or
\* a window away: no later packet of the track had its number.  (send_rtp
\* uses numbers without storing them, so an old entry may answer for one.)
RtxIsFaithful ==
    [][\A p \in NewRtx :
          /\ p.n \in 1 .. streams[p.s].n
          /\ asked' # {} => <<p.s, Seq16(p.n)>> \in asked'
          /\ \A m \in p.n + 1 .. streams[p.s].n :
                Seq16(m) = Seq16(p.n) => p.s = 1 /\ m \in raws]_senderVars

Recent(s) == { n \in 1 .. streams[s].n :
                  n > streams[s].n - HISTORY_SIZE /\ ~(s = 1 /\ n \in raws) }

\* A NACK for one of the last HISTORY_SIZE packets of the track, across wraps
\* and with packets of send_rtp in between, is answered unless the buffer is
\* full (README.md:26 "NACK - packet loss retransmission").
NacksAnswered ==
    [][\A a \in asked', s \in S :
          s = a[1] => \A n \in Recent(s) : Seq16(n) = a[2] =>
             \/ [kind |-> "rtx", s |-> s, n |-> n, size |-> RtxSize] \in ToSet(buf')
             \/ Bytes(buf') + RtxSize > Capacity]_senderVars

\* While ice_send_loop runs, a send that waits for room gets it or is
\* cancelled, once the packets that may overtake it have stopped coming.
WritersFinish == (running /\ waiting # <<>>) ~> (waiting = <<>>)
=============================================================================
