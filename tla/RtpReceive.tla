----------------------------- MODULE RtpReceive -----------------------------
(***************************************************************************)
(* What connection_impl does with the datagrams SrtpTransport decrypts:    *)
(* do_on_rtp_rtcp_packet, rewrite_rtx_packet and dispatch_rtp, and the     *)
(* receiver reports of _receiver_rtcp_loop.  NackGenerator, TransportCC    *)
(* and the jitter buffer, which are fed from here, and the retransmissions *)
(* a NACK asks for (RtpSender) have modules of their own.                  *)
(*                                                                         *)
(* The remote peer sends one video stream with a repair stream and a       *)
(* stream that only its MID identifies; the network loses, reorders and    *)
(* duplicates.  Packets are numbered without wrapping (n), on the wire     *)
(* with n % SeqMod.                                                        *)
(***************************************************************************)
EXTENDS SrtpTransport, SsrcContext

CONSTANTS
    Roles,         \* the DTLS roles this side may have
    RemoteMedias,  \* the m-lines the remote description may have
    Packets,       \* the packet numbers of the video stream
    FirstPackets,  \* where it may start
    Reach,         \* how far from the newest packet one may arrive
    MaxAccepted,   \* bound on the datagrams that are decrypted
    Noise          \* datagrams besides the video stream, without their key

\* A datagram, and what rtp_packet::parse finds in it once it is decrypted.
Content ==
    [ssrc : STRING, pt : Nat, seq : 0 .. SeqMod - 1, osn : 0 .. SeqMod - 1, mid : STRING,
     short : BOOLEAN, n : Nat \cup {-1}]

Datagram ==
    [len : Nat, v2 : BOOLEAN, type : Nat, count : Nat, ext : Nat, ssrc : STRING, index : Int,
     key : STRING, proto : {"rtp", "rtcp"}, reports : SUBSET [type : STRING, ssrc : STRING],
     content : Content]

ASSUME ReceiveAssumption ==
    /\ Roles \subseteq {"client", "server"}
    /\ Reach \in Nat /\ 2 * Reach < SeqMod /\ MaxAccepted \in Nat
    /\ FirstPackets \subseteq Packets /\ Packets \subseteq Nat

\* The remote description announces the video stream and, in a group, the
\* stream that repairs it.
ASSUME DescriptionAssumption ==
    \A m \in RemoteMedias :
        /\ m.mid # "" /\ m.ssrcs \subseteq {"video", "rtx"}
        /\ \A g \in m.groups : g.sem \in {"FID", "FEC"} /\ g.repair = "rtx" /\ g.ssrc = "video"
        /\ "rtx" \in m.ssrcs => m.groups # {}

\* The other datagrams belong to neither stream, but for packets of the
\* repair stream that have no payload.
ASSUME NoiseAssumption ==
    /\ Noise \subseteq Datagram
    /\ \A d \in Noise :
          /\ d.proto = "rtcp" => d.ssrc \notin {"video", "rtx"}
          /\ d.proto = "rtp" => /\ d.content.ssrc # "video" /\ d.content.n = -1
                                /\ d.content.ssrc = "rtx" => d.content.short

VARIABLES
    media,      \* the remote m-line, as build_ssrc_map reads it
    ctxs,       \* _ssrc_set: the context of each SSRC
    pushed,     \* what the last step handed to the track
    pli,        \* whether the last step sent a PLI
    senderInfo, \* SSRCs in _remote_outbound_stats
    blockInfo,  \* SSRCs in _remote_inbound_stats
    stopped,    \* rtp_receiver::_stopped
    first, top, \* first and newest video packet that arrived, or -1
    arrived,    \* the video packets that arrived, in whatever form
    crossed,    \* a packet arrived from an earlier cycle than the newest
    trusted     \* the last datagram was protected by the remote peer

netVars == <<first, top, arrived, crossed, trusted>>
statVars == <<ctxs, senderInfo, blockInfo>>
receiveVars == <<srtpVars, media, statVars, pushed, pli, stopped, netVars>>

PeerKey == IF sendKey = "client" THEN "server" ELSE "client"

-----------------------------------------------------------------------------
\* build_ssrc_map: where repair streams belong, and a context for every SSRC
\* that is not one.
Sends(m) == m.port # 0 /\ m.dir # "recvonly"
RtxPt(m) == IF Sends(m) THEN m.apt ELSE <<>>
Pairs(m, sem) == { g \in m.groups : Sends(m) /\ g.sem = sem }
RtxSsrc(m) == { <<g.repair, g.ssrc>> : g \in Pairs(m, "FID") }
RepairSsrcs(m) == { g.repair : g \in Pairs(m, "FID") \cup Pairs(m, "FEC") }
ContextSsrcs(m) == IF Sends(m) THEN m.ssrcs \ RepairSsrcs(m) ELSE {}

\* The number of the packet is taken from the repair stream.
MutantRewriteRtx(p) ==
    IF p.short \/ p.pt \notin DOMAIN RtxPt(media) \/ \A r \in RtxSsrc(media) : r[1] # p.ssrc
    THEN p
    ELSE [p EXCEPT !.pt = RtxPt(media)[p.pt],
                   !.ssrc = (CHOOSE r \in RtxSsrc(media) : r[1] = p.ssrc)[2]]

\* A packet of a repair stream becomes the one it repeats.
rewrite_rtx_packet(p) ==
    IF p.short \/ p.pt \notin DOMAIN RtxPt(media) \/ \A r \in RtxSsrc(media) : r[1] # p.ssrc
    THEN p
    ELSE [p EXCEPT !.pt = RtxPt(media)[p.pt], !.seq = p.osn,
                   !.ssrc = (CHOOSE r \in RtxSsrc(media) : r[1] = p.ssrc)[2]]

\* The transceiver is found by the MID of the packet, else by its SSRC.
FindsReceiver(p) == p.mid = media.mid \/ p.ssrc \in DOMAIN ctxs

\* The loss count is not reset when a PLI was sent or no gap was seen.
MutantAfterPacket(c, seq) ==
    LET t == track_packet(c, seq)
    IN  IF check_gap(t, c.packets_expected)
        THEN [t EXCEPT !.consecutive_lost = (@ + 1) % 3] ELSE t

\* Three packets in a row that each open a gap ask for a key frame.
AfterPacket(c, seq) ==
    LET t == track_packet(c, seq)
    IN  IF check_gap(t, c.packets_expected)
        THEN [t EXCEPT !.consecutive_lost = IF @ + 1 >= 3 THEN 0 ELSE @ + 1]
        ELSE [t EXCEPT !.consecutive_lost = 0]

\* keep: the application's on_rtp callback lets the packet pass and depayload
\* leaves something of it.
dispatch_rtp(p0, keep) ==
    LET p == rewrite_rtx_packet(p0)
        known == FindsReceiver(p) /\ p.ssrc \in DOMAIN ctxs
    IN  /\ ctxs' = IF known THEN [ctxs EXCEPT ![p.ssrc] = AfterPacket(@, p.seq)] ELSE ctxs
        /\ pli' = (known /\ ctxs[p.ssrc].consecutive_lost >= 2
                         /\ check_gap(ctxs'[p.ssrc], ctxs[p.ssrc].packets_expected))
        /\ pushed' = IF FindsReceiver(p) /\ keep
                     THEN {[ssrc |-> p.ssrc, seq |-> p.seq, n |-> p.n]} ELSE {}
        /\ UNCHANGED <<senderInfo, blockInfo>>

\* What rtp_packet::parse makes of an RTCP packet: no MID, a type from 72 up.
AsRtp(d) == [ssrc |-> d.ssrc, pt |-> d.type % 128, seq |-> 0, osn |-> 0, mid |-> "",
             short |-> FALSE, n |-> -1]

\* The step hands nothing on.
Quiet == pli' = FALSE /\ pushed' = {}

\* The RTCP packets of a compound that do_on_rtp_rtcp_packet acts on here.
HandleCompound(cps) ==
    LET of(type) == { cp.ssrc : cp \in { c \in cps : c.type = type } }
    IN  /\ ctxs' = [s \in DOMAIN ctxs |-> IF s \in of("SR") THEN record_sr(ctxs[s]) ELSE ctxs[s]]
        /\ senderInfo' = senderInfo \cup of("SR")
        /\ blockInfo' = blockInfo \cup of("RR")
        /\ Quiet

\* Everything that parses as RTP is taken for it, RTCP included.
do_on_rtp_rtcp_packet(d, keep) ==
    IF parse(d)
    THEN dispatch_rtp(IF d.proto = "rtp" THEN d.content ELSE AsRtp(d), keep)
    ELSE HandleCompound(d.reports)

-----------------------------------------------------------------------------
\* The datagrams of the video stream: packet n and its retransmission.
VideoDatagram(n, key) ==
    [len |-> 20, v2 |-> TRUE, type |-> 96, count |-> 0, ext |-> 0, ssrc |-> "video",
     index |-> n, key |-> key, proto |-> "rtp", reports |-> {},
     content |-> [ssrc |-> "video", pt |-> 96, seq |-> n % SeqMod, osn |-> 0, mid |-> "",
                  short |-> FALSE, n |-> n]]

RtxDatagram(n, key) ==
    [VideoDatagram(n, key) EXCEPT !.type = 97, !.ssrc = "rtx",
        !.content = [@ EXCEPT !.ssrc = "rtx", !.pt = 97, !.seq = 0, !.osn = n % SeqMod]]

Init ==
    /\ SrtpInit
    /\ media \in RemoteMedias
    /\ ctxs = [s \in ContextSsrcs(media) |-> NewContext]
    /\ pushed = {} /\ pli = FALSE /\ senderInfo = {} /\ blockInfo = {} /\ stopped = FALSE
    /\ first = -1 /\ top = -1 /\ arrived = {} /\ crossed = FALSE /\ trusted = TRUE

NoDatagram ==
    /\ Quiet /\ trusted' = TRUE
    /\ UNCHANGED <<first, top, arrived, crossed>>

\* do_connect makes the transport; setup may throw half way.
Connect(role) ==
    /\ sendKey = "none"
    /\ setup(role) \/ setup_fails(role)
    /\ NoDatagram
    /\ UNCHANGED <<media, statVars, stopped>>

Receive(d) ==
    /\ sendKey # "none"
    /\ Verdict(d) \in {"rtp", "rtcp"} => Cardinality(replay) < MaxAccepted
    /\ datagram_received(d)
    /\ trusted' = (d.key = PeerKey)
    /\ IF Verdict(d) \in {"rtp", "rtcp"} THEN \E keep \in BOOLEAN : do_on_rtp_rtcp_packet(d, keep)
       ELSE Quiet /\ UNCHANGED statVars
    /\ UNCHANGED <<media, stopped>>

Counted(d) ==
    /\ "video" \in DOMAIN ctxs /\ Verdict(d) = "rtp"
    /\ d.ssrc = "video" \/ (RtxSsrc(media) # {} /\ 97 \in DOMAIN RtxPt(media))

\* Packet n of the video stream arrives, as it was sent first or repeated,
\* protected by the peer or not (our own key stands for any other).
ReceiveVideo(n, d) ==
    /\ IF first = -1 THEN n \in FirstPackets ELSE n - top \in -Reach .. Reach
    /\ Receive(d)
    /\ IF Counted(d)
       THEN /\ first' = IF first = -1 THEN n ELSE first
            /\ top' = IF n > top THEN n ELSE top
            /\ arrived' = arrived \cup {n}
            /\ crossed' = (crossed \/ n \div SeqMod < top \div SeqMod)
       ELSE UNCHANGED <<first, top, arrived, crossed>>

ReceiveOther(d) ==
    /\ Receive(d)
    /\ UNCHANGED <<first, top, arrived, crossed>>

\* One turn of _receiver_rtcp_loop: a block for every SSRC with packets.
ReceiverReport ==
    /\ recvKey # "none" /\ ~stopped
    /\ \E s \in DOMAIN ctxs : ctxs[s].packets_received > 0
    /\ ctxs' = [s \in DOMAIN ctxs |-> IF ctxs[s].packets_received > 0
                                      THEN advance_prior(ctxs[s]) ELSE ctxs[s]]
    /\ NoDatagram
    /\ UNCHANGED <<srtpVars, media, senderInfo, blockInfo, stopped>>

\* rtp_receiver::stop.  Packets are still dispatched.
StopReceiver ==
    /\ ~stopped /\ stopped' = TRUE
    /\ NoDatagram
    /\ UNCHANGED <<srtpVars, media, statVars>>

Next ==
    \/ \E role \in Roles : Connect(role)
    \/ \E key \in {"client", "server"} :
          \/ \E n \in Packets : \/ ReceiveVideo(n, VideoDatagram(n, key))
                               \/ ReceiveVideo(n, RtxDatagram(n, key))
          \/ \E d \in Noise : ReceiveOther([d EXCEPT !.key = key])
    \/ ReceiverReport
    \/ StopReceiver

Spec == Init /\ [][Next]_receiveVars

-----------------------------------------------------------------------------
(***************************************************************************)
(* Properties                                                              *)
(***************************************************************************)
\* A datagram that the remote peer did not protect (forged, or one of our own
\* packets sent back to us) changes no state at all: no SSRC is admitted and
\* nothing is counted, answered or delivered.
ForgeryInert == [][~trusted' => UNCHANGED <<srtpVars, statVars>> /\ ~pli' /\ pushed' = {}]_receiveVars

\* At most MAX_ACTIVE_SSRCS are admitted, each after a packet of the remote
\* peer with that SSRC, whatever order known, unknown and forged ones come in.
AdmissionBounded ==
    /\ Cardinality(active) <= MAX_ACTIVE_SSRCS
    /\ \A s \in active : \E r \in replay : r[1] = "rtp" /\ r[2] = s

\* The lost fraction of every interval between two reports fits eight bits.
FractionFits == \A s \in DOMAIN ctxs : LostFraction(ctxs[s]) <= 255

\* Unless a packet from before a wrap arrives after one from behind it, the
\* context counts as expected exactly the packets from the first to the
\* newest one, through losses, reordering, retransmissions and wraps.
ExpectedIsTrue ==
    ~crossed /\ first # -1 => ctxs["video"].packets_expected = top - first + 1

\* What receiver reports say: the true number of expected packets, and a
\* fraction that is one.
CountsAreTrue == ExpectedIsTrue /\ FractionFits

\* A key frame is requested only when three packets are really missing.
NoPliWithoutLoss ==
    [][pli' /\ ~crossed' => Cardinality((first' .. top') \ arrived') >= 3]_receiveVars

\* What reaches the track under the number of a media packet is that packet,
\* whether it came first or as a retransmission; a packet of the repair
\* stream itself gets there only if it repeats nothing.
DeliveredWasSent ==
    \A p \in pushed :
        /\ p.ssrc = "video" => p.seq = p.n % SeqMod
        /\ p.ssrc = "rtx" => p.n = -1
=============================================================================
