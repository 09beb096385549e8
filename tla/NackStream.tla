----------------------------- MODULE NackStream -----------------------------
(***************************************************************************)
(* nack_generator in its place: dispatch_rtp hands it the sequence number  *)
(* of every packet of one SSRC that arrives, and _nack_loop polls it every *)
(* NackInterval.  Packets are numbered without wrapping here (the number   *)
(* on the wire is n % SeqMod), so that what the generator asks for can be  *)
(* compared with what really is missing.  The network loses, reorders and  *)
(* duplicates packets within Reach of the newest one.                      *)
(***************************************************************************)
EXTENDS NackGenerator

CONSTANTS
    FirstPackets,  \* where the stream may start
    MaxPacket,     \* bound on the packet numbers
    Reach,         \* how far from the newest packet one may arrive
    NackInterval,  \* the timer of _nack_loop, 20 ms
    MaxTime,       \* bound on the clock
    RttSamples     \* RTTs that reception reports may yield

ASSUME StreamAssumption ==
    /\ MaxPacket \in Nat /\ FirstPackets \subseteq 0 .. MaxPacket
    /\ Reach \in 1 .. Half - 1
    /\ NackInterval \in Nat \ {0} /\ MaxTime \in Nat /\ RttSamples \subseteq Nat

VARIABLES
    now,      \* steady_clock, in milliseconds
    first,    \* the first packet that arrived, or -1
    newest,   \* the newest packet that arrived, or -1
    arrived,  \* the packets that arrived, of the last HistorySize
    asked     \* how often each packet was asked for, and when last

streamVars == <<nackVars, now, first, newest, arrived, asked>>

Packets == 0 .. MaxPacket
Recent(n) == { m \in Packets : m > n - HistorySize }

\* do_connect starts _nack_loop before the first packet arrives.
StreamInit ==
    /\ Init
    /\ now = 0 /\ first = -1 /\ newest = -1 /\ arrived = {}
    /\ asked = [n \in Packets |-> [count |-> 0, last |-> 0]]

\* dispatch_rtp: one packet arrives.
Arrive(n) ==
    /\ IF first = -1 THEN n \in FirstPackets ELSE n - newest \in -Reach .. Reach
    /\ receive_packet(n % SeqMod)
    /\ first' = IF first = -1 THEN n ELSE first
    /\ newest' = IF n > newest THEN n ELSE newest
    /\ arrived' = (arrived \cup {n}) \cap Recent(newest')
    /\ UNCHANGED <<now, asked>>

\* The packet a number of the current window stands for.
PacketOf(s) == CHOOSE n \in Recent(newest) : n <= newest /\ n % SeqMod = s

\* _nack_loop: the timer fires and the numbers due are asked for.
Poll ==
    /\ now + NackInterval <= MaxTime
    /\ now' = now + NackInterval
    /\ get_nacks(now')
    /\ LET due == { PacketOf(s) : s \in nacks' }
       IN  asked' = [n \in Packets |-> IF n \in due
                                       THEN [count |-> asked[n].count + 1, last |-> now']
                                       ELSE asked[n]]
    /\ UNCHANGED <<first, newest, arrived>>

\* A reception report updates the round-trip time.
RttUpdate ==
    /\ \E r \in RttSamples : update_rtt(r)
    /\ UNCHANGED <<now, first, newest, arrived, asked>>

StreamNext == (\E n \in Packets : Arrive(n)) \/ Poll \/ RttUpdate

StreamSpec == StreamInit /\ [][StreamNext]_streamVars

-----------------------------------------------------------------------------
Asks(n) == asked'[n].count > asked[n].count

\* Only packets that are really missing are asked for: none that arrived
\* (in whatever order), none from before the start of the stream, although
\* the ring keeps one slot for numbers HistorySize apart and the numbers wrap.
OnlyMissingAsked ==
    [][\A n \in Packets : Asks(n) => n \notin arrived /\ n > first /\ n < newest]_streamVars

\* No packet is asked for more than MaxRetries times (no NACK storm), also
\* when its slot was used by an older packet with its own retry count.
RetriesBounded == \A n \in Packets : asked[n].count <= MaxRetries

\* The same packet is asked for again only after a round trip and the offset.
BackoffRespected ==
    [][\A n \in Packets : Asks(n) /\ asked[n].count > 0
            => now' - asked[n].last >= rtt + BackoffOffset]_streamVars

Lowest == newest - seq_distance(lowest, highest)

\* A poll leaves no gap unasked: each missing packet strictly inside the
\* window has been asked for once the timer has fired, even when a slot was
\* received or given up one window earlier.  (The lowest number of the window
\* is never scanned, although the comment of get_nacks includes it.)
GapsAreAsked ==
    [][now' # now => \A n \in Packets : n > Lowest /\ n < newest /\ n \notin arrived
            => asked'[n].count > 0]_streamVars
=============================================================================
