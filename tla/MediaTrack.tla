----------------------------- MODULE MediaTrack -----------------------------
(***************************************************************************)
(* A received media_track_impl (src/src/media_track_impl.cpp): dispatch_rtp *)
(* pushes packets into its jitter buffer and wakes one reader; a reader in *)
(* recv_packet holds the mutex, polls the buffer and, when no frame is     *)
(* ready, waits for the next push.  No timer wakes it.  Readers that wait  *)
(* for the mutex are not told apart from readers that have not called yet. *)
(*                                                                         *)
(* The network may lose, delay, reorder and duplicate packets: any packet  *)
(* within Reach of the newest one may arrive at any time.  Packets are     *)
(* counted from the cycle of the sequence number that the first one is in. *)
(***************************************************************************)
EXTENDS JitterBuffer

CONSTANTS
    FirstPackets,  \* where the stream may start
    Packets,       \* the packet numbers of the stream
    Reach,         \* how far behind or ahead of the newest packet one may be
    MaxTime        \* bound on the clock

ASSUME TrackAssumption ==
    /\ FirstPackets \subseteq Packets \cap 0 .. SeqMod - 1 /\ Packets \subseteq Nat
    /\ Reach \in 1 .. Half - 1 /\ MaxTime \in Nat

VARIABLES
    now,        \* steady_clock
    reader,     \* "idle", "running" or "waiting" in recv_packet
    first,      \* the first packet that arrived, or None
    newest,     \* the newest packet that arrived, or None
    arrivedAt,  \* when each packet first arrived
    delivered,  \* the newest packet handed to the application, or None
    crossed     \* a packet came from an earlier cycle than the buffer had reached, or
                \* half a cycle from where the reader is, and its cycle cannot be told

trackVars == <<jitterVars, now, reader, first, newest, arrivedAt, delivered, crossed>>

TrackInit ==
    /\ Init
    /\ now = 0 /\ reader = "idle"
    /\ first = None /\ newest = None
    /\ arrivedAt = [n \in Packets |-> None]
    /\ delivered = None /\ crossed = FALSE

\* media_track_impl::push_frame.
PushFrame(n) ==
    /\ IF first = None THEN n \in FirstPackets ELSE n - newest \in -Reach .. Reach
    /\ push(n)
    /\ reader' = IF reader = "waiting" THEN "running" ELSE reader
    /\ first' = IF first = None THEN n ELSE first
    /\ newest' = IF n > newest THEN n ELSE newest
    /\ arrivedAt' = [arrivedAt EXCEPT ![n] = IF @ = None THEN now ELSE @]
    /\ crossed' = (\/ crossed \/ n \div SeqMod < next \div SeqMod
                   \/ ~firstPacket /\ n - next \notin -Half .. Half - 1)
    /\ UNCHANGED <<now, delivered>>

\* recv_packet is called and takes the mutex.
Recv ==
    /\ reader = "idle"
    /\ reader' = "running"
    /\ UNCHANGED <<jitterVars, now, first, newest, arrivedAt, delivered, crossed>>

\* The first frame in the buffer is also the last.
TailFrame == Entries # {} /\ Run(Min(Entries)) = Entries

\* One round of the loop in recv_packet.
Poll ==
    /\ reader = "running"
    /\ pop_frame(now)
    /\ reader' = IF popped' = {} THEN "waiting" ELSE "idle"
    /\ delivered' = IF popped' = {} THEN delivered ELSE Max(popped' \cup {delivered})
    /\ UNCHANGED <<now, first, newest, arrivedAt, crossed>>

Tick ==
    /\ now < MaxTime
    /\ now' = now + 1
    /\ UNCHANGED <<jitterVars, reader, first, newest, arrivedAt, delivered, crossed>>

TrackNext == (\E n \in Packets : PushFrame(n)) \/ Recv \/ Poll \/ Tick

TrackSpec == TrackInit /\ [][TrackNext]_trackVars

\* Time passes, the application keeps reading and a runnable reader runs;
\* the network owes nothing.
TrackFairSpec == TrackSpec /\ WF_trackVars(Tick) /\ WF_trackVars(Recv) /\ WF_trackVars(Poll)

-----------------------------------------------------------------------------
Pops == popped' # {} /\ reader = "running" /\ reader' = "idle"

\* "RTP reorder and frame assembly" (README.md:25): what recv_packet hands out
\* is a run of one timestamp without a hole in it, and packets leave in sending
\* order, each at most once, however the network shuffled or repeated them.
\* The order holds across the wrap of the sequence numbers until a packet
\* from before the wrap comes when the buffer is behind it, for which
\* _extend_seq has no case, or the reader falls half a cycle behind.
OrderedFrames ==
    [][Pops => /\ \A n \in popped' : Timestamp(n) = Timestamp(Min(popped'))
               /\ popped' = Min(popped') .. Max(popped')
               /\ ~crossed => Min(popped') > delivered]_trackVars

Dropped(n) ==
    /\ arrivedAt[n] = None /\ arrivedAt'[n] # None
    /\ n \notin Range(sorted')

\* A packet is dropped as late only after the buffer has waited MaxDelay for
\* it: some later packet arrived at least that long before.  (Packets older
\* than the first one that arrived are always dropped; one from before a wrap
\* that the buffer is behind is not dropped but misplaced.)
NoEarlyDrop ==
    [][\A n \in Packets : Dropped(n) /\ n > first /\ ~crossed' =>
            \E m \in Packets : m > n /\ arrivedAt[m] # None /\ now - arrivedAt[m] >= MaxDelay]_trackVars

\* The comment in pop_frame on a video frame at the end of the buffer, "Wait
\* for more packets via timeout": the wait ends by timeout, not only by
\* another packet.
TailFrameTimesOut ==
    (reader = "waiting" /\ TailFrame /\ videoWait # None /\ ~TailWaits(now)) ~> (reader # "waiting")
=============================================================================
