---------------------------- MODULE JitterBuffer ----------------------------
(***************************************************************************)
(* jitter_buffer (src/src/jitter_buffer.cpp): packets sorted by extended   *)
(* sequence number, handed out one frame (run of equal timestamps) at a    *)
(* time.  A packet is abstracted to its number n in sending order: the     *)
(* sequence number on the wire is n % SeqMod (2^16 in the code) and its    *)
(* RTP timestamp is Timestamp(n).  Extended numbers are 32 bits wide and   *)
(* are not wrapped here.                                                   *)
(***************************************************************************)
EXTENDS Integers, FiniteSetsExt, Functions

CONSTANTS
    Half,        \* half the sequence number space, 2^15 in the code
    FrameSize,   \* packets per frame
    MaxDelay,    \* _max_delay, 500 ms in the code
    IsVideo      \* _is_video

ASSUME JitterAssumption ==
    /\ Half \in Nat \ {0} /\ FrameSize \in 1 .. 2 * Half - 1
    /\ MaxDelay \in Nat \ {0} /\ IsVideo \in BOOLEAN

VARIABLES
    sorted,       \* _sorted, from extended sequence number to packet
    next,         \* _next_extended_seq
    firstPacket,  \* _first_packet
    gapStart,     \* _gap_start, or None
    videoWait,    \* _video_wait_start, or None
    popped        \* what the last pop_frame returned

jitterVars == <<sorted, next, firstPacket, gapStart, videoWait, popped>>

None == -1
SeqMod == 2 * Half
Timestamp(n) == n \div FrameSize

Init ==
    /\ sorted = [e \in {} |-> 0] /\ next = 0 /\ firstPacket = TRUE
    /\ gapStart = None /\ videoWait = None /\ popped = {}

-----------------------------------------------------------------------------
\* _extend_seq: the cycle of last, or the one after it when seq is more than
\* half the number space behind last.  There is no case for the cycle before.
extend_seq(seq, last) ==
    LET extended == (last - (last % SeqMod)) + seq
    IN  IF extended + Half < last THEN extended + SeqMod ELSE extended

\* push, for a packet with a payload (dispatch_rtp drops the others): late
\* packets and duplicates are ignored.
push(n) ==
    LET extended == extend_seq(n % SeqMod, next)
    IN  /\ firstPacket' = FALSE
        /\ next' = IF firstPacket THEN extended ELSE next
        /\ sorted' = IF extended >= next' /\ extended \notin DOMAIN sorted
                     THEN [e \in DOMAIN sorted \cup {extended} |->
                              IF e = extended THEN n ELSE sorted[e]]
                     ELSE sorted
        /\ UNCHANGED <<gapStart, videoWait, popped>>

-----------------------------------------------------------------------------
\* The entries pop_frame considers, and the consecutive ones from e on that
\* share its timestamp.
Entries == { e \in DOMAIN sorted : e >= next }

Run(e) == { x \in Entries : x >= e /\ \A y \in e .. x :
                y \in Entries /\ Timestamp(sorted[y]) = Timestamp(sorted[e]) }

\* Nothing is ready: what was older than next is erased.
Wait ==
    /\ popped' = {}
    /\ sorted' = Restrict(sorted, Entries)

MutantDeliver(run) ==
    /\ popped' = { sorted[e] : e \in run }
    /\ sorted' = Restrict(sorted, Entries \ run)
    /\ UNCHANGED next

Deliver(run) ==
    /\ popped' = { sorted[e] : e \in run }
    /\ sorted' = Restrict(sorted, Entries \ run)
    /\ next' = Max(run) + 1

\* The gap in front of the first entry: how long it has been waited for.
GapSince(now) == IF gapStart = None THEN now ELSE gapStart

MutantGapExpired(now) == TRUE

GapExpired(now) == now - GapSince(now) >= MaxDelay

\* A video frame that ends the buffer may miss its last packets.
TailSince(now) == IF videoWait = None THEN now ELSE videoWait
TailWaits(now) == now - TailSince(now) < MaxDelay \div 2

\* The first entry is the next one, or the gap in front of it was given up.
Ready(head, now) ==
    /\ gapStart' = None
    /\ IF IsVideo /\ Run(head) = { e \in Entries : e >= head }
       THEN /\ videoWait' = TailSince(now)
            /\ IF TailWaits(now) THEN Wait /\ next' = head ELSE Deliver(Run(head))
       ELSE videoWait' = None /\ Deliver(Run(head))

pop_frame(now) ==
    /\ \/ Entries = {} /\ Wait /\ UNCHANGED <<next, gapStart, videoWait>>
       \/ /\ Entries # {} /\ Min(Entries) > next /\ ~GapExpired(now)
          /\ gapStart' = GapSince(now)
          /\ Wait /\ UNCHANGED <<next, videoWait>>
       \/ /\ Entries # {} /\ (Min(Entries) = next \/ GapExpired(now))
          /\ Ready(Min(Entries), now)
    /\ UNCHANGED firstPacket
=============================================================================
