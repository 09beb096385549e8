------------------------- MODULE RtpReceive_proofs --------------------------
(***************************************************************************)
(* Proofs about the receive path, for every limit of admitted SSRCs, width *)
(* of the sequence number, remote description and mix of datagrams: what   *)
(* is not protected by the remote peer changes nothing, admission keeps    *)
(* its limit, what reaches the track is what was sent, and the statistics  *)
(* count what they say they count.                                         *)
(***************************************************************************)
EXTENDS RtpReceive, ModularArithmetic, FiniteSetTheorems

(***************************************************************************)
(* Keys and admission.                                                     *)
(***************************************************************************)
\* The receive session has the write key of the other DTLS role.
KeysFit ==
    /\ sendKey \in {"none", "client", "server"}
    /\ recvKey \in {"none", PeerKey}
    /\ sendKey = "none" => recvKey = "none"

Admission == IsFiniteSet(active) /\ AdmissionBounded

\* Only the remote peer's datagrams are decrypted.
LEMMA AcceptedIsTrusted ==
    ASSUME KeysFit, NEW d, Verdict(d) \in {"rtp", "rtcp"}
    PROVE  d.key = PeerKey /\ Verdict(d) = d.proto
BY DEF KeysFit, Verdict, unprotect

\* A datagram changes the admitted SSRCs only within the limit, and each
\* admission leaves an entry in the replay database.
LEMMA AdmissionStep ==
    ASSUME Admission, NEW d, datagram_received(d) PROVE Admission'
<1> USE SrtpAssumption
<1>1. CASE Verdict(d) # "rtp"
  BY <1>1 DEF datagram_received, Admission, AdmissionBounded
<1>2. CASE Verdict(d) = "rtp"
  <2>1. active' = active \cup {d.ssrc} /\ replay' = replay \cup {<<d.proto, d.ssrc, d.index>>}
    BY <1>2 DEF datagram_received
  <2>2. Admits(d) /\ d.proto = "rtp"
    BY <1>2 DEF Verdict, unprotect
  <2>3. /\ IsFiniteSet(active')
        /\ Cardinality(active') = IF d.ssrc \in active THEN Cardinality(active)
                                  ELSE Cardinality(active) + 1
    BY <2>1, FS_AddElement DEF Admission
  <2>4. Cardinality(active) \in Nat /\ Cardinality(active) <= MAX_ACTIVE_SSRCS
    BY FS_CardinalityType DEF Admission, AdmissionBounded
  <2>5. Cardinality(active') <= MAX_ACTIVE_SSRCS
    BY <2>2, <2>3, <2>4 DEF Admits
  <2>6. ASSUME NEW s \in active' PROVE \E r \in replay' : r[1] = "rtp" /\ r[2] = s
    <3>1. CASE s \in active
      BY <2>1, <3>1 DEF Admission, AdmissionBounded
    <3>2. CASE s = d.ssrc
      <4>1. <<d.proto, d.ssrc, d.index>> \in replay'
        BY <2>1
      <4> QED BY <2>2, <3>2, <4>1
    <3> QED BY <2>1, <3>1, <3>2
  <2> QED BY <2>3, <2>5, <2>6 DEF Admission, AdmissionBounded
<1> QED BY <1>1, <1>2

\* The datagrams a step may receive.
Keys == {"client", "server"}
Incoming ==
    { VideoDatagram(n, key) : n \in Packets, key \in Keys }
        \cup { RtxDatagram(n, key) : n \in Packets, key \in Keys }
        \cup { [d EXCEPT !.key = key] : d \in Noise, key \in Keys }

\* A step of the receive path: setting up the transport, receiving one
\* datagram, or one that receives nothing.
LEMMA StepCases ==
    ASSUME [Next]_receiveVars
    PROVE  \/ \E role \in Roles : Connect(role)
           \/ \E d \in Incoming : Receive(d)
           \/ UNCHANGED srtpVars /\ (trusted' = TRUE \/ UNCHANGED receiveVars)
<1>1. ASSUME NEW key \in Keys, NEW n \in Packets,
             ReceiveVideo(n, VideoDatagram(n, key)) \/ ReceiveVideo(n, RtxDatagram(n, key))
      PROVE  \E d \in Incoming : Receive(d)
  <2>1. VideoDatagram(n, key) \in Incoming /\ RtxDatagram(n, key) \in Incoming
    BY DEF Incoming
  <2>2. Receive(VideoDatagram(n, key)) \/ Receive(RtxDatagram(n, key))
    BY <1>1 DEF ReceiveVideo
  <2> QED BY <2>1, <2>2
<1>2. ASSUME NEW key \in Keys, NEW d \in Noise, ReceiveOther([d EXCEPT !.key = key])
      PROVE  \E e \in Incoming : Receive(e)
  <2>1. [d EXCEPT !.key = key] \in Incoming
    BY DEF Incoming
  <2>2. Receive([d EXCEPT !.key = key])
    BY <1>2 DEF ReceiveOther
  <2> QED BY <2>1, <2>2
<1>3. CASE ReceiverReport \/ StopReceiver
  BY <1>3 DEF ReceiverReport, StopReceiver, NoDatagram
<1>4. CASE UNCHANGED receiveVars
  BY <1>4 DEF receiveVars
<1> QED BY <1>1, <1>2, <1>3, <1>4 DEF Next, Keys

Sessions == KeysFit /\ Admission

\* No session and nothing admitted at the start.
LEMMA SessionsInit == Init => Sessions
BY FS_EmptySet, SrtpAssumption
   DEF Init, SrtpInit, Sessions, KeysFit, Admission, AdmissionBounded, PeerKey

\* Setting up the transport and receiving keep the keys and the limit.
LEMMA SessionsStep == ASSUME Sessions, [Next]_receiveVars PROVE Sessions'
<1>1. ASSUME NEW role \in Roles, Connect(role) PROVE Sessions'
  <2>1. UNCHANGED <<active, replay>> /\ sendKey' = role /\ role \in {"client", "server"}
    BY <1>1, ReceiveAssumption DEF Connect, setup, setup_fails
  <2>2. recvKey' \in {"none", PeerKey'}
    BY <1>1, <2>1 DEF Connect, setup, setup_fails, PeerKey, Sessions, KeysFit
  <2> QED BY <2>1, <2>2 DEF Sessions, KeysFit, Admission, AdmissionBounded
<1>2. ASSUME NEW d \in Incoming, Receive(d) PROVE Sessions'
  BY <1>2, AdmissionStep DEF Receive, datagram_received, Sessions, KeysFit, PeerKey
<1>3. CASE UNCHANGED srtpVars
  BY <1>3 DEF srtpVars, Sessions, KeysFit, Admission, AdmissionBounded, PeerKey
<1> QED BY <1>1, <1>2, <1>3, StepCases

\* The keys and the limit hold through setups that fail half way, forged
\* datagrams and SSRCs never seen before.
THEOREM SessionsAlways == Spec => []Sessions
BY SessionsInit, SessionsStep, PTL DEF Spec

\* At most MAX_ACTIVE_SSRCS are admitted, each after a packet the remote peer
\* protected.
THEOREM AdmissionAlwaysBounded == Spec => []AdmissionBounded
<1>1. Sessions => AdmissionBounded
  BY DEF Sessions, Admission
<1> QED BY <1>1, SessionsAlways, PTL

\* datagram_received lets no datagram through that the remote peer did not
\* protect, and leaves no trace of one.
THEOREM ForgeriesAreInert == Spec => ForgeryInert
<1>1. ASSUME Sessions, [Next]_receiveVars, ~trusted', ~UNCHANGED receiveVars
      PROVE  UNCHANGED <<srtpVars, statVars>> /\ ~pli' /\ pushed' = {}
  <2>1. \A role \in Roles : ~Connect(role)
    BY <1>1 DEF Connect, NoDatagram
  <2>2. PICK d \in Incoming : Receive(d)
    BY <1>1, <2>1, StepCases
  <2>3. d.key # PeerKey
    BY <1>1, <2>2 DEF Receive
  <2>4. Verdict(d) \notin {"rtp", "rtcp"}
    BY <1>1, <2>3, AcceptedIsTrusted DEF Sessions
  <2> QED BY <2>2, <2>4 DEF Receive, datagram_received, Quiet, srtpVars
<1>2. Sessions /\ [Next]_receiveVars =>
        [~trusted' => UNCHANGED <<srtpVars, statVars>> /\ ~pli' /\ pushed' = {}]_receiveVars
  BY <1>1
<1> QED BY <1>2, SessionsAlways, PTL DEF Spec, ForgeryInert

(***************************************************************************)
(* What is dispatched.                                                     *)
(***************************************************************************)
\* The only repair stream repairs the video, and it has no context.
LEMMA Streams ==
    ASSUME media \in RemoteMedias
    PROVE  /\ \A r \in RtxSsrc(media) : r[1] = "rtx" /\ r[2] = "video"
           /\ ContextSsrcs(media) \subseteq {"video"} /\ media.mid # ""
<1>1. \A g \in media.groups : g.sem \in {"FID", "FEC"} /\ g.repair = "rtx" /\ g.ssrc = "video"
  BY DescriptionAssumption
<1>2. "rtx" \in media.ssrcs /\ Sends(media) => "rtx" \in RepairSsrcs(media)
  BY <1>1, DescriptionAssumption DEF RepairSsrcs, Pairs
<1>3. ASSUME NEW r \in RtxSsrc(media) PROVE r[1] = "rtx" /\ r[2] = "video"
  <2>1. PICK g \in media.groups : r = <<g.repair, g.ssrc>>
    BY DEF RtxSsrc, Pairs
  <2> QED BY <1>1, <2>1
<1> QED BY <1>2, <1>3, DescriptionAssumption DEF ContextSsrcs

\* What do_on_rtp_rtcp_packet takes for the RTP packet, and what is left of it
\* after rewrite_rtx_packet.
Parsed(d) == IF d.proto = "rtp" THEN d.content ELSE AsRtp(d)
Heard(d) == rewrite_rtx_packet(Parsed(d))

\* A packet is left as it is unless it has payload and is of the repair stream.
LEMMA LeftAlone ==
    ASSUME media \in RemoteMedias, NEW p, p.short \/ p.ssrc # "rtx"
    PROVE  rewrite_rtx_packet(p) = p
<1>1. p.short \/ \A r \in RtxSsrc(media) : r[1] # p.ssrc
  BY Streams
<1> QED BY <1>1, Zenon DEF rewrite_rtx_packet

\* p is packet n of the video stream.
IsVideo(p, n) == p.ssrc = "video" /\ p.seq = n % SeqMod /\ p.n = n

\* The header fields of the two datagrams that carry a packet of the video.
Carries(d, ssrc) == d.proto = "rtp" /\ d.ssrc = ssrc /\ d.len = 20 /\ d.count = 0

\* A packet of the video is left as it is.
LEMMA VideoHeard ==
    ASSUME media \in RemoteMedias, NEW n \in Nat, NEW key
    PROVE  /\ Carries(VideoDatagram(n, key), "video")
           /\ IsVideo(Heard(VideoDatagram(n, key)), n)
<1> DEFINE d == VideoDatagram(n, key)
<1>1. Carries(d, "video") /\ IsVideo(d.content, n)
  BY DEF VideoDatagram, Carries, IsVideo
<1> HIDE DEF d
<1>2. d.content.ssrc # "rtx" /\ d.proto = "rtp"
  BY <1>1 DEF IsVideo, Carries
<1>3. Heard(d) = d.content
  BY <1>2, LeftAlone DEF Heard, Parsed
<1> QED BY <1>1, <1>3 DEF d

\* The fields of a retransmission.
IsRtx(d, n) ==
    /\ Carries(d, "rtx")
    /\ DOMAIN d.content = {"ssrc", "pt", "seq", "osn", "mid", "short", "n"}
    /\ d.content.ssrc = "rtx" /\ d.content.pt = 97 /\ d.content.osn = n % SeqMod
    /\ d.content.mid = "" /\ ~d.content.short /\ d.content.n = n

\* A datagram of the repair stream has them.
LEMMA RtxFields == ASSUME NEW n \in Nat, NEW key PROVE IsRtx(RtxDatagram(n, key), n)
BY DEF IsRtx, Carries, RtxDatagram, VideoDatagram

\* The description says what the repair stream repairs.
Rewritten == RtxSsrc(media) # {} /\ 97 \in DOMAIN RtxPt(media)

\* A retransmission becomes the packet it repeats, if the description says
\* what it repairs, and stays a packet of the repair stream otherwise.
LEMMA RtxHeard ==
    ASSUME media \in RemoteMedias, NEW n \in Nat, NEW key
    PROVE  /\ Rewritten => IsVideo(Heard(RtxDatagram(n, key)), n)
           /\ ~Rewritten => /\ Heard(RtxDatagram(n, key)).ssrc = "rtx"
                            /\ Heard(RtxDatagram(n, key)).mid = ""
<1> DEFINE d == RtxDatagram(n, key)
           c == d.content
<1>0. IsRtx(d, n)
  BY RtxFields
<1> HIDE DEF d
<1>1. /\ d.proto = "rtp" /\ DOMAIN c = {"ssrc", "pt", "seq", "osn", "mid", "short", "n"}
      /\ c.ssrc = "rtx" /\ c.pt = 97 /\ c.osn = n % SeqMod /\ c.mid = "" /\ ~c.short /\ c.n = n
  BY <1>0 DEF IsRtx, Carries
<1>2. Heard(d) = rewrite_rtx_packet(c)
  BY <1>1 DEF Heard, Parsed
<1>3. Rewritten <=> c.pt \in DOMAIN RtxPt(media) /\ ~(\A r \in RtxSsrc(media) : r[1] # c.ssrc)
  <2>1. (\A r \in RtxSsrc(media) : r[1] # "rtx") <=> RtxSsrc(media) = {}
    BY Streams
  <2> QED BY <1>1, <2>1 DEF Rewritten
<1> HIDE DEF c
<1>4. CASE Rewritten
  <2> DEFINE r == CHOOSE r \in RtxSsrc(media) : r[1] = c.ssrc
  <2>1. \E x \in RtxSsrc(media) : x[1] = c.ssrc
    BY <1>3, <1>4
  <2>2. r \in RtxSsrc(media)
    BY <2>1
  <2>3. rewrite_rtx_packet(c) = [c EXCEPT !.pt = RtxPt(media)[c.pt], !.seq = c.osn, !.ssrc = r[2]]
    BY <1>1, <1>3, <1>4, Zenon DEF rewrite_rtx_packet
  <2> HIDE DEF r
  <2>4. r[2] = "video"
    BY <2>2, Streams
  <2>5. /\ Heard(d).n = c.n /\ Heard(d).mid = c.mid /\ Heard(d).ssrc = r[2]
        /\ Heard(d).seq = c.osn
    <3> DEFINE q == RtxPt(media)[c.pt]
    <3> HIDE DEF q
    <3>1. Heard(d) = [c EXCEPT !.pt = q, !.seq = c.osn, !.ssrc = r[2]]
      BY <1>2, <2>3 DEF q
    <3> QED BY <1>1, <3>1
  <2> QED BY <1>1, <1>4, <2>4, <2>5 DEF d, IsVideo
<1>5. CASE ~Rewritten
  <2>1. rewrite_rtx_packet(c) = c
    BY <1>3, <1>5, Zenon DEF rewrite_rtx_packet
  <2> QED BY <1>1, <1>2, <1>5, <2>1 DEF d
<1> QED BY <1>4, <1>5

\* No other datagram is heard as a packet of the video.
LEMMA NoiseHeard ==
    ASSUME media \in RemoteMedias, NEW d \in Noise, NEW key
    PROVE  LET p == Heard([d EXCEPT !.key = key]) IN p.ssrc # "video" /\ p.n = -1
<1> DEFINE e == [d EXCEPT !.key = key]
<1>1. /\ e.proto = d.proto /\ e.content = d.content /\ e.ssrc = d.ssrc /\ e.type = d.type
      /\ d.proto \in {"rtp", "rtcp"}
  BY NoiseAssumption DEF Datagram
<1> HIDE DEF e
<1>2. CASE d.proto = "rtp"
  <2>1. Parsed(e) = d.content
    BY <1>1, <1>2 DEF Parsed
  <2>2. /\ d.content.ssrc # "video" /\ d.content.n = -1
        /\ d.content.ssrc = "rtx" => d.content.short
    BY <1>2, NoiseAssumption
  <2>3. Heard(e) = d.content
    BY <2>1, <2>2, LeftAlone DEF Heard
  <2> QED BY <2>2, <2>3 DEF e
<1>3. CASE d.proto = "rtcp"
  <2>1. Parsed(e) = AsRtp(e) /\ AsRtp(e).ssrc \notin {"video", "rtx"} /\ AsRtp(e).n = -1
    BY <1>1, <1>3, NoiseAssumption DEF Parsed, AsRtp
  <2>2. Heard(e) = AsRtp(e)
    BY <2>1, LeftAlone DEF Heard
  <2> QED BY <2>1, <2>2 DEF e
<1> QED BY <1>1, <1>2, <1>3

\* What an accepted datagram does: its packet is counted if its SSRC has a
\* context and handed on if a receiver is found; reports count nothing.
LEMMA Dispatched ==
    ASSUME NEW d, Receive(d), DOMAIN ctxs \subseteq {"video"},
           ctxs = [s \in DOMAIN ctxs |-> ctxs[s]]
    PROVE  LET p == Heard(d)
               heard == Verdict(d) \in {"rtp", "rtcp"} /\ parse(d)
           IN  /\ pushed' \subseteq { q \in {[ssrc |-> p.ssrc, seq |-> p.seq, n |-> p.n]} :
                                        heard /\ FindsReceiver(p) }
               /\ heard /\ p.ssrc \in DOMAIN ctxs =>
                     /\ ctxs' = [ctxs EXCEPT ![p.ssrc] = AfterPacket(@, p.seq)]
                     /\ pli' = (/\ ctxs[p.ssrc].consecutive_lost >= 2
                                /\ check_gap(ctxs'[p.ssrc], ctxs[p.ssrc].packets_expected))
               /\ ~(heard /\ p.ssrc \in DOMAIN ctxs) =>
                     /\ pli' = FALSE
                     /\ \/ ctxs' = ctxs
                        \/ ctxs' = [s \in DOMAIN ctxs |-> record_sr(ctxs[s])]
<1> DEFINE p == Heard(d)
           heard == Verdict(d) \in {"rtp", "rtcp"} /\ parse(d)
<1>1. CASE Verdict(d) \notin {"rtp", "rtcp"}
  BY <1>1 DEF Receive, Quiet, statVars
<1>2. CASE Verdict(d) \in {"rtp", "rtcp"} /\ ~parse(d)
  <2>1. HandleCompound(d.reports)
    BY <1>2 DEF Receive, do_on_rtp_rtcp_packet
  <2>2. pli' = FALSE /\ pushed' = {}
    BY <2>1 DEF HandleCompound, Quiet
  <2> DEFINE srs == { cp.ssrc : cp \in { c \in d.reports : c.type = "SR" } }
  <2>3. ctxs' = [s \in DOMAIN ctxs |-> IF s \in srs THEN record_sr(ctxs[s]) ELSE ctxs[s]]
    BY <2>1 DEF HandleCompound
  <2> HIDE DEF srs
  <2>4. CASE "video" \in srs
    BY <1>2, <2>2, <2>3, <2>4
  <2>5. CASE "video" \notin srs
    <3>1. ctxs' = [s \in DOMAIN ctxs |-> ctxs[s]]
      BY <2>3, <2>5
    <3> QED BY <1>2, <2>2, <3>1
  <2> QED BY <2>4, <2>5
<1>3. CASE heard
  <2>1. PICK keep \in BOOLEAN : do_on_rtp_rtcp_packet(d, keep)
    BY <1>3 DEF Receive
  <2>2. dispatch_rtp(Parsed(d), keep)
    BY <1>3, <2>1 DEF do_on_rtp_rtcp_packet, Parsed
  <2>3. pushed' = IF FindsReceiver(p) /\ keep THEN {[ssrc |-> p.ssrc, seq |-> p.seq, n |-> p.n]} ELSE {}
    BY <2>2 DEF dispatch_rtp, Heard
  <2>4. p.ssrc \in DOMAIN ctxs => FindsReceiver(p)
    BY DEF FindsReceiver
  <2>5. p.ssrc \in DOMAIN ctxs =>
            /\ ctxs' = [ctxs EXCEPT ![p.ssrc] = AfterPacket(@, p.seq)]
            /\ pli' = (/\ ctxs[p.ssrc].consecutive_lost >= 2
                       /\ check_gap(ctxs'[p.ssrc], ctxs[p.ssrc].packets_expected))
    BY <2>2, <2>4 DEF dispatch_rtp, Heard
  <2>6. p.ssrc \notin DOMAIN ctxs => pli' = FALSE /\ ctxs' = ctxs
    BY <2>2 DEF dispatch_rtp, Heard
  <2> QED BY <1>3, <2>3, <2>5, <2>6
<1> QED BY <1>1, <1>2, <1>3

\* The contexts there are, as build_ssrc_map left them.
ContextsFit ==
    /\ media \in RemoteMedias
    /\ DOMAIN ctxs \subseteq {"video"} /\ ctxs = [s \in DOMAIN ctxs |-> ctxs[s]]

\* A context that only took note of a sender report, or not even that.
OnlyReports == ctxs' = ctxs \/ ctxs' = [s \in DOMAIN ctxs |-> record_sr(ctxs[s])]

\* The video packet n, or its retransmission, counts exactly when Counted says
\* so, under its own number, and is handed to the track as itself.
LEMMA VideoReceived ==
    ASSUME KeysFit, ContextsFit, NEW n \in Nat, NEW key, NEW d,
           d = VideoDatagram(n, key) \/ d = RtxDatagram(n, key), Receive(d)
    PROVE  /\ Counted(d) =>
                 /\ ctxs' = [ctxs EXCEPT !["video"] = AfterPacket(@, n % SeqMod)]
                 /\ pli' = (/\ ctxs["video"].consecutive_lost >= 2
                            /\ check_gap(ctxs'["video"], ctxs["video"].packets_expected))
           /\ ~Counted(d) => pli' = FALSE /\ OnlyReports
           /\ \A p \in pushed' : IsVideo(p, n)
<1> DEFINE p == Heard(d)
<1>0. media \in RemoteMedias
  BY DEF ContextsFit
<1>1. \/ Carries(d, "video") /\ IsVideo(p, n)
      \/ Carries(d, "rtx") /\ Rewritten /\ IsVideo(p, n)
      \/ Carries(d, "rtx") /\ ~Rewritten /\ p.ssrc = "rtx" /\ p.mid = ""
  <2>1. CASE d = VideoDatagram(n, key)
    BY <1>0, <2>1, VideoHeard
  <2>2. CASE d = RtxDatagram(n, key)
    <3>1. Carries(d, "rtx")
      BY <2>2, RtxFields DEF IsRtx
    <3> QED BY <1>0, <2>2, <3>1, RtxHeard
  <2> QED BY <2>1, <2>2
<1> HIDE DEF p
<1>2. parse(d) /\ d.proto = "rtp"
  <2>1. d.len = 20 /\ d.count = 0 /\ d.proto = "rtp"
    BY <1>1 DEF Carries
  <2>2. 0 % 16 = 0
    OBVIOUS
  <2> QED BY <2>1, <2>2 DEF parse
<1>3. /\ p.ssrc = "video" <=> d.ssrc = "video" \/ Rewritten
      /\ p.ssrc = "video" => IsVideo(p, n)
      /\ p.ssrc # "video" => p.ssrc = "rtx" /\ p.mid = ""
  BY <1>1 DEF Carries, IsVideo
<1>4. Verdict(d) \in {"rtp", "rtcp"} <=> Verdict(d) = "rtp"
  BY <1>2, AcceptedIsTrusted
<1>5. Counted(d) <=> Verdict(d) \in {"rtp", "rtcp"} /\ parse(d) /\ p.ssrc \in DOMAIN ctxs
  BY <1>2, <1>3, <1>4 DEF Counted, ContextsFit, Rewritten
<1>6. p.ssrc # "video" => ~FindsReceiver(p)
  BY <1>3, Streams DEF FindsReceiver, ContextsFit
<1>7. Counted(d) => p.ssrc = "video"
  BY <1>5 DEF ContextsFit
<1>8. \A q \in pushed' : FindsReceiver(p) /\ q = [ssrc |-> p.ssrc, seq |-> p.seq, n |-> p.n]
  BY Dispatched DEF ContextsFit, p
<1>9. \A q \in pushed' : IsVideo(q, n)
  <2>1. \A q \in pushed' : p.ssrc = "video" /\ q.ssrc = p.ssrc /\ q.seq = p.seq /\ q.n = p.n
    BY <1>6, <1>8
  <2> QED BY <1>3, <2>1 DEF IsVideo
<1>10. ASSUME Counted(d)
       PROVE  /\ ctxs' = [ctxs EXCEPT !["video"] = AfterPacket(@, n % SeqMod)]
              /\ pli' = (/\ ctxs["video"].consecutive_lost >= 2
                         /\ check_gap(ctxs'["video"], ctxs["video"].packets_expected))
  <2>1. /\ ctxs' = [ctxs EXCEPT ![p.ssrc] = AfterPacket(@, p.seq)]
        /\ pli' = (/\ ctxs[p.ssrc].consecutive_lost >= 2
                   /\ check_gap(ctxs'[p.ssrc], ctxs[p.ssrc].packets_expected))
    BY <1>5, <1>10, Dispatched DEF ContextsFit, p
  <2> QED BY <1>3, <1>7, <1>10, <2>1 DEF IsVideo
<1>11. ~Counted(d) => pli' = FALSE /\ OnlyReports
  BY <1>5, Dispatched DEF ContextsFit, p, OnlyReports
<1> QED BY <1>9, <1>10, <1>11

\* No other datagram counts or is taken for a packet of the video.
LEMMA OtherReceived ==
    ASSUME ContextsFit, NEW d \in Noise, NEW key, Receive([d EXCEPT !.key = key])
    PROVE  /\ pli' = FALSE /\ OnlyReports
           /\ \A p \in pushed' : p.ssrc # "video" /\ p.n = -1
<1> DEFINE e == [d EXCEPT !.key = key]
           p == Heard(e)
<1>1. p.ssrc # "video" /\ p.n = -1
  BY NoiseHeard DEF ContextsFit
<1>2. Receive(e)
  OBVIOUS
<1> HIDE DEF e
<1>3. p.ssrc \notin DOMAIN ctxs
  BY <1>1 DEF ContextsFit
<1>4. pli' = FALSE /\ OnlyReports
  BY <1>2, <1>3, Dispatched DEF ContextsFit, OnlyReports
<1>5. \A q \in pushed' : q = [ssrc |-> p.ssrc, seq |-> p.seq, n |-> p.n]
  BY <1>2, Dispatched DEF ContextsFit
<1> QED BY <1>1, <1>4, <1>5


(***************************************************************************)
(* The statistics.                                                         *)
(***************************************************************************)
\* A context that counts: what is expected are the numbers from the first to
\* the highest, and an interval that expects packets has received some.
Context ==
    [max_seq : 0 .. SeqMod - 1, cycles : Nat, base_seq : 0 .. SeqMod - 1, base_seq_set : BOOLEAN,
     packets_expected : Nat, packets_received : Nat, expected_prior : Nat, received_prior : Nat,
     consecutive_lost : 0 .. 2, lsr : BOOLEAN]

Counts(c) ==
    IF c.base_seq_set
    THEN c.base_seq <= extended_max(c) /\ c.packets_expected = extended_max(c) - c.base_seq + 1
    ELSE c.max_seq = 0 /\ c.cycles = 0 /\ c.packets_expected = 0

Intervals(c) ==
    /\ c.expected_prior <= c.packets_expected /\ c.received_prior <= c.packets_received
    /\ c.packets_received = c.received_prior => c.packets_expected = c.expected_prior

ContextFit(c) == c \in Context /\ Counts(c) /\ Intervals(c)

\* The packets of the video that are missing.
Missing == (first .. top) \ arrived

\* The context of the video is at the newest packet, and has counted no gap
\* in a row that is not there.
OnTime(c) ==
    /\ c.max_seq = top % SeqMod
    /\ c.cycles = SeqMod * ((top \div SeqMod) - (first \div SeqMod))
    /\ Cardinality(Missing) >= c.consecutive_lost

Started ==
    /\ "video" \in DOMAIN ctxs /\ first \in Nat /\ top \in Nat /\ first <= top
    /\ arrived \subseteq 0 .. top
    /\ ctxs["video"].base_seq_set /\ ctxs["video"].base_seq = first % SeqMod
    /\ ~crossed => OnTime(ctxs["video"])

NotStarted ==
    /\ first = -1 /\ top = -1 /\ arrived = {}
    /\ "video" \in DOMAIN ctxs => ~ctxs["video"].base_seq_set

Timeline ==
    /\ ContextsFit /\ \A s \in DOMAIN ctxs : ContextFit(ctxs[s])
    /\ crossed \in BOOLEAN /\ (NotStarted \/ Started)


\* What AfterPacket assigns, field by field.
Tracked(c, seq, d) ==
    LET base   == IF c.base_seq_set THEN c.base_seq ELSE seq
        cycles == IF Wraps(c, seq) THEN c.cycles + SeqMod ELSE c.cycles
        max    == IF Wraps(c, seq) \/ seq >= c.max_seq THEN seq ELSE c.max_seq
    IN  /\ d.base_seq_set = TRUE /\ d.base_seq = base /\ d.cycles = cycles /\ d.max_seq = max
        /\ d.packets_expected = cycles + max - base + 1
        /\ d.packets_received = c.packets_received + 1
        /\ d.expected_prior = c.expected_prior /\ d.received_prior = c.received_prior

GapSeen(c, d) == d.packets_expected > c.packets_expected + 1

\* A context with the counts of one packet more, as long as they are counts.
LEMMA TrackedFields ==
    ASSUME NEW c \in Context, NEW seq \in 0 .. SeqMod - 1, Counts(c)
    PROVE  LET t == track_packet(c, seq)
           IN  /\ t \in Context /\ Tracked(c, seq, t)
               /\ t.lsr = c.lsr /\ t.consecutive_lost = c.consecutive_lost
<1> DEFINE base   == IF c.base_seq_set THEN c.base_seq ELSE seq
           cycles == IF Wraps(c, seq) THEN c.cycles + SeqMod ELSE c.cycles
           max    == IF Wraps(c, seq) \/ seq >= c.max_seq THEN seq ELSE c.max_seq
           expected == cycles + max - base + 1
           received == c.packets_received + 1
           t == track_packet(c, seq)
<1>1. t = [c EXCEPT !.base_seq_set = TRUE, !.base_seq = base, !.cycles = cycles,
                    !.max_seq = max, !.packets_expected = expected, !.packets_received = received]
  BY DEF track_packet
<1>2. /\ base \in 0 .. SeqMod - 1 /\ max \in 0 .. SeqMod - 1 /\ cycles \in Nat
      /\ received \in Nat
  BY SeqModAssumption DEF Context
<1>3. expected \in Nat
  <2>1. CASE c.base_seq_set
    BY <2>1, SeqModAssumption DEF Context, Counts, extended_max, Wraps
  <2>2. CASE ~c.base_seq_set
    BY <2>2, SeqModAssumption DEF Context, Counts, Wraps
  <2> QED BY <2>1, <2>2
<1>4. Tracked(c, seq, t) <=>
        /\ t.base_seq_set = TRUE /\ t.base_seq = base /\ t.cycles = cycles /\ t.max_seq = max
        /\ t.packets_expected = expected /\ t.packets_received = received
        /\ t.expected_prior = c.expected_prior /\ t.received_prior = c.received_prior
  BY DEF Tracked
<1> HIDE DEF base, cycles, max, expected, received, t
<1>5. t \in Context
  BY <1>1, <1>2, <1>3 DEF Context
<1>6. /\ t.base_seq_set = TRUE /\ t.base_seq = base /\ t.cycles = cycles /\ t.max_seq = max
      /\ t.packets_expected = expected /\ t.packets_received = received
      /\ t.expected_prior = c.expected_prior /\ t.received_prior = c.received_prior
      /\ t.lsr = c.lsr /\ t.consecutive_lost = c.consecutive_lost
  BY <1>1 DEF Context
<1> QED BY <1>4, <1>5, <1>6 DEF t

\* AfterPacket counts the packet, and the gaps in a row.
LEMMA AfterPacketFields ==
    ASSUME NEW c \in Context, NEW seq \in 0 .. SeqMod - 1, Counts(c)
    PROVE  LET d == AfterPacket(c, seq)
           IN  /\ d \in Context /\ Tracked(c, seq, d)
               /\ check_gap(d, c.packets_expected) <=> GapSeen(c, d)
               /\ d.consecutive_lost = IF ~GapSeen(c, d) \/ c.consecutive_lost + 1 >= 3 THEN 0
                                       ELSE c.consecutive_lost + 1
<1> DEFINE t == track_packet(c, seq)
           d == AfterPacket(c, seq)
           lost == IF ~GapSeen(c, t) \/ c.consecutive_lost + 1 >= 3 THEN 0
                   ELSE c.consecutive_lost + 1
<1>1. t \in Context /\ Tracked(c, seq, t) /\ t.consecutive_lost = c.consecutive_lost
  BY TrackedFields
<1>2. t.base_seq_set = TRUE
  BY <1>1 DEF Tracked
<1>3. check_gap(t, c.packets_expected) <=> GapSeen(c, t)
  BY <1>2 DEF check_gap, GapSeen
<1>4. d = [t EXCEPT !.consecutive_lost = lost]
  BY <1>1, <1>3 DEF AfterPacket, Context
<1>5. lost \in 0 .. 2
  BY DEF Context
<1> HIDE DEF t, d, lost
<1>6. /\ d \in Context /\ d.consecutive_lost = lost
      /\ d.base_seq_set = t.base_seq_set /\ d.base_seq = t.base_seq /\ d.cycles = t.cycles
      /\ d.max_seq = t.max_seq /\ d.packets_expected = t.packets_expected
      /\ d.packets_received = t.packets_received
      /\ d.expected_prior = t.expected_prior /\ d.received_prior = t.received_prior
  BY <1>1, <1>4, <1>5 DEF Context
<1>7. Tracked(c, seq, d)
  BY <1>1, <1>6 DEF Tracked
<1>8. GapSeen(c, d) <=> GapSeen(c, t)
  BY <1>6 DEF GapSeen
<1>9. check_gap(d, c.packets_expected) <=> GapSeen(c, d)
  BY <1>2, <1>6 DEF check_gap, GapSeen
<1> QED BY <1>6, <1>7, <1>8, <1>9 DEF d, lost


\* A packet keeps a context that counts one that counts, and never lowers what
\* is expected.
LEMMA PacketFit ==
    ASSUME NEW c, ContextFit(c), NEW seq \in 0 .. SeqMod - 1
    PROVE  ContextFit(AfterPacket(c, seq))
<1> DEFINE d == AfterPacket(c, seq)
<1>1. c \in Context /\ Counts(c) /\ Intervals(c)
  BY DEF ContextFit
<1>2. d \in Context /\ Tracked(c, seq, d)
  BY <1>1, AfterPacketFields
<1> HIDE DEF d
<1>3. Counts(d) /\ c.packets_expected <= d.packets_expected
  <2>1. CASE c.base_seq_set
    BY <1>1, <1>2, <2>1, SeqModAssumption DEF Context, Counts, Tracked, extended_max, Wraps
  <2>2. CASE ~c.base_seq_set
    BY <1>1, <1>2, <2>2, SeqModAssumption DEF Context, Counts, Tracked, extended_max, Wraps
  <2> QED BY <2>1, <2>2
<1>4. Intervals(d)
  BY <1>1, <1>2, <1>3 DEF Intervals, Tracked, Context
<1> QED BY <1>2, <1>3, <1>4 DEF ContextFit, d

\* So do a sender report and a receiver report, which count nothing.
LEMMA ReportFit ==
    ASSUME NEW c, ContextFit(c), NEW d, d \in {record_sr(c), advance_prior(c)}
    PROVE  /\ ContextFit(d) /\ d.max_seq = c.max_seq /\ d.cycles = c.cycles
           /\ d.base_seq = c.base_seq /\ d.base_seq_set = c.base_seq_set
           /\ d.consecutive_lost = c.consecutive_lost
<1>1. c \in Context /\ Counts(c) /\ Intervals(c)
  BY DEF ContextFit
<1>2. /\ d \in Context /\ d.max_seq = c.max_seq /\ d.cycles = c.cycles
      /\ d.base_seq = c.base_seq /\ d.base_seq_set = c.base_seq_set
      /\ d.consecutive_lost = c.consecutive_lost
      /\ d.packets_expected = c.packets_expected /\ d.packets_received = c.packets_received
      /\ \/ d.expected_prior = c.expected_prior /\ d.received_prior = c.received_prior
         \/ d.expected_prior = c.packets_expected /\ d.received_prior = c.packets_received
  <2>1. CASE d = record_sr(c)
    BY <1>1, <2>1 DEF Context, record_sr
  <2>2. CASE d = advance_prior(c)
    BY <1>1, <2>2 DEF Context, advance_prior
  <2> QED BY <2>1, <2>2
<1>3. Counts(d)
  BY <1>1, <1>2 DEF Counts, extended_max
<1>4. Intervals(d)
  BY <1>1, <1>2 DEF Intervals, Context
<1> QED BY <1>2, <1>3, <1>4 DEF ContextFit

\* The lost fraction of a context that counts fits eight bits.
LEMMA Fraction == ASSUME NEW c, ContextFit(c) PROVE LostFraction(c) <= 255
<1> DEFINE ei == ExpectedInterval(c)
           li == LostInterval(c)
           q == (li * 256) \div ei
           r == (li * 256) % ei
<1>1. c \in Context /\ Intervals(c)
  BY DEF ContextFit
<1>2. ei \in Int /\ li \in Int /\ (ei = 0 \/ li < ei)
  BY <1>1 DEF Context, Intervals, ExpectedInterval, LostInterval
<1>3. CASE ei = 0 \/ li <= 0
  BY <1>3 DEF LostFraction
<1>4. CASE ei # 0 /\ li > 0
  <2>1. LostFraction(c) = q
    <3>1. ~(ei = 0 \/ li <= 0)
      BY <1>2, <1>4
    <3> QED BY <3>1, Zenon DEF LostFraction
  <2>2. ei \in Nat \ {0} /\ li * 256 \in Int
    BY <1>2, <1>4
  <2>3. q \in Int /\ r \in 0 .. ei - 1 /\ li * 256 = ei * q + r
    BY <2>2, DivMod, Zenon
  <2> HIDE DEF ei, li, q, r
  <2>4. ei * q < ei * 256
    BY <1>2, <1>4, <2>2, <2>3
  <2>5. q < 256
    <3>1. CASE q >= 256
      <4>1. q - 256 \in Nat /\ ei \in Nat
        BY <2>2, <2>3, <3>1
      <4>2. ei * (q - 256) >= 0
        BY <4>1
      <4> QED BY <2>2, <2>3, <2>4, <4>2
    <3> QED BY <2>3, <3>1
  <2> QED BY <2>1, <2>3, <2>5
<1> QED BY <1>2, <1>3, <1>4


\* A packet of the timeline, not from an earlier cycle, seen through wrapping
\* numbers: the context wraps exactly when the timeline enters the next cycle.
LEMMA WrapIsTrue ==
    ASSUME NEW c \in Context, NEW t \in Nat, NEW n \in Nat, c.max_seq = t % SeqMod,
           n - t <= Reach, t - n <= Reach, n \div SeqMod >= t \div SeqMod
    PROVE  LET seq == n % SeqMod
               new == IF n > t THEN n ELSE t
           IN  /\ (IF Wraps(c, seq) \/ seq >= c.max_seq THEN seq ELSE c.max_seq) = new % SeqMod
               /\ (IF Wraps(c, seq) THEN SeqMod ELSE 0)
                      = SeqMod * ((new \div SeqMod) - (t \div SeqMod))
<1> DEFINE seq == n % SeqMod
           max == t % SeqMod
           p == n \div SeqMod
           q == t \div SeqMod
           h == SeqMod \div 2
<1>1. /\ SeqMod \in Nat \ {0} /\ Reach \in Nat /\ 2 * Reach < SeqMod
      /\ h \in Int /\ SeqMod = 2 * h
  BY SeqModAssumption, ReceiveAssumption
<1>2. n \in Int /\ t \in Int
  OBVIOUS
<1>3. p \in Int /\ seq \in 0 .. SeqMod - 1 /\ n = SeqMod * p + seq
  BY <1>1, <1>2, DivMod, Zenon
<1>4. q \in Int /\ max \in 0 .. SeqMod - 1 /\ t = SeqMod * q + max
  BY <1>1, <1>2, DivMod, Zenon
<1>5. p >= q
  OBVIOUS
<1>6. Wraps(c, seq) <=> seq < max /\ max - seq > h
  BY DEF Wraps
<1>7. c.max_seq = max
  OBVIOUS
<1> HIDE DEF seq, max, p, q, h
<1>8. n - t = SeqMod * (p - q) + (seq - max)
  BY <1>1, <1>3, <1>4
<1>9. p = q \/ p = q + 1
  <2>1. ASSUME p - q >= 2 PROVE FALSE
    <3>1. SeqMod * (p - q - 2) >= 0
      BY <1>1, <1>3, <1>4, <2>1
    <3>2. SeqMod * (p - q) = SeqMod * (p - q - 2) + 2 * SeqMod
      BY <1>1, <1>3, <1>4
    <3> QED BY <1>1, <1>3, <1>4, <1>8, <3>1, <3>2
  <2> QED BY <1>3, <1>4, <1>5, <2>1
<1> DEFINE new == IF n > t THEN n ELSE t
<1>10. CASE p = q
  <2>1. n - t = seq - max /\ ~Wraps(c, seq)
    <3>1. SeqMod * (p - q) = 0
      BY <1>1, <1>3, <1>4, <1>10
    <3> QED BY <1>1, <1>3, <1>4, <1>6, <1>8, <3>1
  <2>2. (IF n > t THEN seq ELSE max) = (IF seq >= max THEN seq ELSE max)
    BY <1>2, <1>3, <1>4, <2>1
  <2>3. new % SeqMod = (IF n > t THEN seq ELSE max) /\ new \div SeqMod = q
    BY <1>10 DEF seq, max, p, q
  <2>4. SeqMod * (q - q) = 0
    BY <1>1, <1>4
  <2> QED BY <1>7, <2>1, <2>2, <2>3, <2>4 DEF q, seq
<1>11. CASE p = q + 1
  <2>1. n - t = SeqMod + (seq - max) /\ Wraps(c, seq) /\ n > t
    <3>1. SeqMod * (p - q) = SeqMod
      BY <1>1, <1>4, <1>11
    <3> QED BY <1>1, <1>3, <1>4, <1>6, <1>8, <3>1
  <2>2. new = n
    BY <2>1
  <2>3. SeqMod * (p - q) = SeqMod
    BY <1>1, <1>4, <1>11
  <2> QED BY <2>1, <2>2, <2>3 DEF q, p, seq
<1> QED BY <1>9, <1>10, <1>11


\* What ReceiveVideo does with a packet that counts.
CountsPacket(n) ==
    /\ "video" \in DOMAIN ctxs
    /\ IF first = -1 THEN TRUE ELSE n - top \in -Reach .. Reach
    /\ first' = (IF first = -1 THEN n ELSE first) /\ top' = (IF n > top THEN n ELSE top)
    /\ arrived' = arrived \cup {n} /\ crossed' = (crossed \/ n \div SeqMod < top \div SeqMod)
    /\ ctxs' = [ctxs EXCEPT !["video"] = AfterPacket(@, n % SeqMod)]

\* The packet that starts the timeline opens no gap.
LEMMA FirstPacket ==
    ASSUME NotStarted, NEW n \in Nat, CountsPacket(n), ContextFit(ctxs["video"]),
           DOMAIN ctxs \subseteq {"video"}
    PROVE  Started' /\ ~GapSeen(ctxs["video"], ctxs'["video"])
<1> DEFINE c == ctxs["video"]
           seq == n % SeqMod
           d == AfterPacket(c, seq)
<1>0. SeqMod \in Nat \ {0} /\ n \in Int
  BY SeqModAssumption
<1>1. seq \in 0 .. SeqMod - 1
  BY <1>0, DivMod, Zenon
<1>2. /\ first' = n /\ top' = n /\ arrived' = {n} /\ ctxs'["video"] = d
      /\ DOMAIN ctxs' = DOMAIN ctxs
  BY DEF NotStarted, CountsPacket
<1>3. c \in Context /\ Counts(c) /\ ~c.base_seq_set
  BY DEF NotStarted, CountsPacket, ContextFit
<1>4. /\ d \in Context /\ Tracked(c, seq, d)
      /\ d.consecutive_lost = IF ~GapSeen(c, d) \/ c.consecutive_lost + 1 >= 3 THEN 0
                              ELSE c.consecutive_lost + 1
  BY <1>1, <1>3, AfterPacketFields
<1> HIDE DEF seq, d, c
<1>5. c.max_seq = 0 /\ c.cycles = 0 /\ c.packets_expected = 0
  BY <1>3 DEF Counts
<1>6. ~Wraps(c, seq)
  BY <1>1, <1>5 DEF Wraps
<1>7. /\ d.base_seq_set = TRUE /\ d.base_seq = seq /\ d.cycles = 0 /\ d.max_seq = seq
      /\ d.packets_expected = 1
  BY <1>1, <1>3, <1>4, <1>5, <1>6 DEF Tracked
<1>8. ~GapSeen(c, d) /\ d.consecutive_lost = 0
  BY <1>4, <1>5, <1>7 DEF GapSeen
<1>9. Missing' = {} /\ Cardinality({}) = 0
  <2>1. (n .. n) \ {n} = {}
    OBVIOUS
  <2> QED BY <1>2, <2>1, FS_EmptySet DEF Missing
<1>10. SeqMod * ((n \div SeqMod) - (n \div SeqMod)) = 0
  <2>1. n \div SeqMod \in Int
    BY <1>0, DivMod, Zenon
  <2> QED BY <1>0, <2>1
<1>11. OnTime(ctxs["video"])'
  <2>1. d.max_seq = n % SeqMod /\ d.cycles = SeqMod * ((n \div SeqMod) - (n \div SeqMod))
    BY <1>7, <1>10 DEF seq
  <2>2. Cardinality(Missing') >= d.consecutive_lost
    BY <1>8, <1>9
  <2> QED BY <1>2, <2>1, <2>2 DEF OnTime
<1>12. d.base_seq = n % SeqMod /\ d.base_seq_set
  BY <1>7 DEF seq
<1>13. /\ "video" \in DOMAIN ctxs' /\ first' \in Nat /\ top' \in Nat /\ first' <= top'
       /\ arrived' \subseteq 0 .. top'
  <2>1. "video" \in DOMAIN ctxs
    BY DEF CountsPacket
  <2> QED BY <1>2, <2>1
<1>14. Started'
  BY <1>2, <1>11, <1>12, <1>13 DEF Started
<1> QED BY <1>2, <1>8, <1>14 DEF c

\* A later packet moves context and timeline together, and opens a gap only
\* where one is.
LEMMA LaterPacket ==
    ASSUME Started, NEW n \in Nat, CountsPacket(n), ContextFit(ctxs["video"])
    PROVE  /\ Started'
           /\ ~crossed' /\ GapSeen(ctxs["video"], ctxs'["video"]) =>
                 Cardinality(Missing') > ctxs["video"].consecutive_lost
<1> DEFINE c == ctxs["video"]
           seq == n % SeqMod
           d == AfterPacket(c, seq)
<1>0. SeqMod \in Nat \ {0} /\ n \in Int /\ top \in Int /\ first \in Int
  BY SeqModAssumption DEF Started
<1>1. seq \in 0 .. SeqMod - 1
  BY <1>0, DivMod, Zenon
<1>2. /\ first' = first /\ top' = (IF n > top THEN n ELSE top) /\ arrived' = arrived \cup {n}
      /\ ctxs'["video"] = d /\ DOMAIN ctxs' = DOMAIN ctxs
  BY DEF Started, CountsPacket
<1>3. c \in Context /\ Counts(c) /\ c.base_seq_set
  BY DEF Started, ContextFit
<1>4. /\ d \in Context /\ Tracked(c, seq, d)
      /\ d.consecutive_lost = IF ~GapSeen(c, d) \/ c.consecutive_lost + 1 >= 3 THEN 0
                              ELSE c.consecutive_lost + 1
  BY <1>1, <1>3, AfterPacketFields
<1>5. d.base_seq_set = TRUE /\ d.base_seq = first % SeqMod
  BY <1>3, <1>4 DEF Tracked, Started
<1>6. ASSUME ~crossed'
      PROVE  OnTime(ctxs["video"])' /\ (GapSeen(c, d) => Cardinality(Missing') > c.consecutive_lost)
  <2> DEFINE q == top \div SeqMod
             p == first \div SeqMod
             r == top' \div SeqMod
  <2>1. ~crossed /\ ~(n \div SeqMod < top \div SeqMod)
    BY <1>6 DEF CountsPacket
  <2>2. OnTime(c) /\ c.max_seq = top % SeqMod
    BY <2>1 DEF Started, OnTime
  <2>3. n \div SeqMod \in Int /\ q \in Int /\ p \in Int /\ top % SeqMod \in 0 .. SeqMod - 1
    BY <1>0, DivMod, Zenon
  <2>4. n - top <= Reach /\ top - n <= Reach /\ n \div SeqMod >= top \div SeqMod
    <3>1. n - top \in -Reach .. Reach /\ Reach \in Nat
      BY ReceiveAssumption DEF CountsPacket, Started
    <3>2. n \div SeqMod >= top \div SeqMod
      BY <2>1, <2>3
    <3> QED BY <1>0, <3>1, <3>2
  <2>5. top' \in Nat /\ top' \in Int /\ top \in Nat
    BY <1>2 DEF Started
  <2>6. /\ (IF Wraps(c, seq) \/ seq >= c.max_seq THEN seq ELSE c.max_seq) = top' % SeqMod
        /\ (IF Wraps(c, seq) THEN SeqMod ELSE 0) = SeqMod * (r - q)
    BY <1>2, <1>3, <2>2, <2>4, <2>5, WrapIsTrue
  <2>7. r \in Int /\ top' % SeqMod \in 0 .. SeqMod - 1 /\ top = SeqMod * q + (top % SeqMod)
        /\ top' = SeqMod * r + (top' % SeqMod)
    BY <1>0, <2>5, DivMod, Zenon
  <2>8. c.cycles = SeqMod * (q - p)
    BY <2>2 DEF OnTime
  <2>9. /\ d.max_seq = (IF Wraps(c, seq) \/ seq >= c.max_seq THEN seq ELSE c.max_seq)
        /\ d.cycles = c.cycles + (IF Wraps(c, seq) THEN SeqMod ELSE 0)
        /\ d.packets_expected = d.cycles + d.max_seq - c.base_seq + 1
    BY <1>0, <1>3, <1>4 DEF Tracked, Context
  <2> DEFINE m == top % SeqMod
             mm == top' % SeqMod
  <2>10. d.max_seq = mm /\ c.max_seq = m
    BY <2>2, <2>6, <2>9
  <2> HIDE DEF p, q, r, m, mm
  <2>11. d.cycles = SeqMod * (r - p)
    <3>1. SeqMod * (r - p) = SeqMod * (q - p) + SeqMod * (r - q)
      BY <1>0, <2>3, <2>7
    <3>2. d.cycles = c.cycles + SeqMod * (r - q)
      BY <2>6, <2>9
    <3> QED BY <2>8, <3>1, <3>2
  <2>12. c.packets_expected = c.cycles + c.max_seq - c.base_seq + 1
    <3> HIDE DEF c
    <3> QED BY <1>3 DEF Counts, extended_max, Context
  <2>13. d.packets_expected - c.packets_expected = top' - top
    <3>1. /\ c.cycles = SeqMod * q - SeqMod * p /\ d.cycles = SeqMod * r - SeqMod * p
          /\ SeqMod * q \in Int /\ SeqMod * r \in Int /\ SeqMod * p \in Int
      <4>1. SeqMod * (q - p) = SeqMod * q - SeqMod * p /\ SeqMod * (r - p) = SeqMod * r - SeqMod * p
        BY <1>0, <2>3, <2>7
      <4>2. SeqMod * q \in Int /\ SeqMod * r \in Int /\ SeqMod * p \in Int
        BY <1>0, <2>3, <2>7
      <4> QED BY <2>8, <2>11, <4>1, <4>2
    <3>2. top = SeqMod * q + m /\ top' = SeqMod * r + mm /\ m \in Int /\ mm \in Int
      BY <2>3, <2>7 DEF m, mm
    <3>3. c.base_seq \in Int
      BY <1>3 DEF Context
    <3> HIDE DEF c, d
    <3> QED BY <2>9, <2>10, <2>12, <3>1, <3>2, <3>3
  <2>14. GapSeen(c, d) <=> top' > top + 1
    <3>1. d.packets_expected \in Int /\ c.packets_expected \in Int
      BY <1>3, <1>4 DEF Context
    <3> HIDE DEF c, d
    <3> QED BY <1>0, <2>5, <2>13, <3>1 DEF GapSeen
  <2>15. IsFiniteSet(Missing) /\ IsFiniteSet(Missing')
    <3>1. IsFiniteSet(first .. top) /\ IsFiniteSet(first .. top')
      BY <1>0, <2>5, FS_Interval
    <3> QED BY <1>2, <3>1, FS_Difference DEF Missing
  <2>16. Cardinality(Missing) \in Nat /\ Cardinality(Missing') \in Nat
         /\ Cardinality(Missing) >= c.consecutive_lost /\ c.consecutive_lost \in 0 .. 2
    BY <1>3, <2>2, <2>15, FS_CardinalityType DEF OnTime, Context
  <2>17. ASSUME GapSeen(c, d) PROVE Cardinality(Missing') > Cardinality(Missing)
    <3>1. n = top' /\ n > top + 1
      BY <1>0, <1>2, <2>14, <2>17
    <3>2. arrived \subseteq 0 .. top /\ first <= top
      BY DEF Started
    <3>3. Missing \cup {top + 1} \subseteq Missing' /\ top + 1 \notin Missing
      BY <1>0, <1>2, <3>1, <3>2 DEF Missing
    <3>4. Cardinality(Missing \cup {top + 1}) = Cardinality(Missing) + 1
      BY <2>15, <3>3, FS_AddElement
    <3>5. Cardinality(Missing \cup {top + 1}) <= Cardinality(Missing')
      BY <2>15, <3>3, FS_Subset
    <3> QED BY <2>16, <3>4, <3>5
  <2>18. Cardinality(Missing') >= d.consecutive_lost
    BY <1>4, <2>16, <2>17
  <2>19. d.max_seq = top' % SeqMod /\ d.cycles = SeqMod * ((top' \div SeqMod) - (first \div SeqMod))
    BY <2>10, <2>11 DEF mm, r, p
  <2>20. OnTime(ctxs["video"])'
    BY <1>2, <2>18, <2>19 DEF OnTime
  <2> QED BY <2>16, <2>17, <2>20
<1>7. /\ "video" \in DOMAIN ctxs' /\ first' \in Nat /\ top' \in Nat /\ first' <= top'
      /\ arrived' \subseteq 0 .. top'
  BY <1>2 DEF Started
<1> QED BY <1>2, <1>5, <1>6, <1>7 DEF Started


\* Reports move no context against the timeline.
LEMMA ReportsKeep ==
    ASSUME Timeline, UNCHANGED <<media, first, top, arrived, crossed>>,
           DOMAIN ctxs' = DOMAIN ctxs, ctxs' = [s \in DOMAIN ctxs |-> ctxs'[s]],
           \A s \in DOMAIN ctxs :
               ctxs'[s] \in {ctxs[s], record_sr(ctxs[s]), advance_prior(ctxs[s])}
    PROVE  Timeline'
<1>1. ContextsFit'
  BY DEF Timeline, ContextsFit
<1>2. ASSUME NEW s \in DOMAIN ctxs
      PROVE  /\ ContextFit(ctxs'[s]) /\ ctxs'[s].max_seq = ctxs[s].max_seq
             /\ ctxs'[s].cycles = ctxs[s].cycles /\ ctxs'[s].base_seq = ctxs[s].base_seq
             /\ ctxs'[s].base_seq_set = ctxs[s].base_seq_set
             /\ ctxs'[s].consecutive_lost = ctxs[s].consecutive_lost
  <2>1. ContextFit(ctxs[s])
    BY DEF Timeline
  <2>2. CASE ctxs'[s] = ctxs[s]
    BY <2>1, <2>2
  <2>3. CASE ctxs'[s] \in {record_sr(ctxs[s]), advance_prior(ctxs[s])}
    BY <2>1, <2>3, ReportFit
  <2> QED BY <2>2, <2>3
<1>3. NotStarted => NotStarted'
  BY <1>2 DEF NotStarted
<1>4. Started => Started'
  <2>1. ASSUME Started, ~crossed PROVE OnTime(ctxs["video"])'
    <3>1. OnTime(ctxs["video"]) /\ "video" \in DOMAIN ctxs
      BY <2>1 DEF Started
    <3>2. Missing' = Missing
      BY DEF Missing
    <3> QED BY <1>2, <3>1, <3>2 DEF OnTime
  <2> QED BY <1>2, <2>1 DEF Started
<1> QED BY <1>1, <1>2, <1>3, <1>4 DEF Timeline

\* The same when the reports are those of one datagram.
LEMMA OnlyReportsKeep ==
    ASSUME Timeline, UNCHANGED <<media, first, top, arrived, crossed>>, OnlyReports
    PROVE  Timeline'
<1>1. ctxs = [s \in DOMAIN ctxs |-> ctxs[s]]
  BY DEF Timeline, ContextsFit
<1>2. /\ DOMAIN ctxs' = DOMAIN ctxs /\ ctxs' = [s \in DOMAIN ctxs |-> ctxs'[s]]
      /\ \A s \in DOMAIN ctxs : ctxs'[s] \in {ctxs[s], record_sr(ctxs[s])}
  BY <1>1 DEF OnlyReports
<1> QED BY <1>2, ReportsKeep

\* A packet that counts keeps context and timeline together, and asks for a
\* key frame only if three packets are missing.
LEMMA PacketKeeps ==
    ASSUME Timeline, NEW n \in Nat, CountsPacket(n), UNCHANGED media
    PROVE  /\ Timeline'
           /\ /\ ctxs["video"].consecutive_lost >= 2
              /\ check_gap(ctxs'["video"], ctxs["video"].packets_expected)
              /\ ~crossed'
              => Cardinality(Missing') >= 3
<1> DEFINE c == ctxs["video"]
<1>1. /\ "video" \in DOMAIN ctxs /\ DOMAIN ctxs \subseteq {"video"} /\ ContextFit(c)
      /\ c \in Context /\ Counts(c)
  BY DEF Timeline, ContextsFit, CountsPacket, ContextFit
<1>2. n % SeqMod \in 0 .. SeqMod - 1
  <2>1. n \in Int /\ SeqMod \in Nat \ {0}
    BY SeqModAssumption
  <2> QED BY <2>1, DivMod, Zenon
<1>3. ctxs' = [ctxs EXCEPT !["video"] = AfterPacket(c, n % SeqMod)]
  BY DEF CountsPacket
<1> DEFINE d == AfterPacket(c, n % SeqMod)
<1>4. ContextFit(d) /\ d \in Context
  BY <1>1, <1>2, PacketFit DEF ContextFit
<1>5. check_gap(d, c.packets_expected) <=> GapSeen(c, d)
  BY <1>1, <1>2, AfterPacketFields
<1> HIDE DEF d
<1>6. DOMAIN ctxs' = DOMAIN ctxs /\ ctxs'["video"] = d /\ ctxs' = [s \in DOMAIN ctxs |-> ctxs'[s]]
  BY <1>1, <1>3 DEF d
<1>7. ContextsFit' /\ \A s \in DOMAIN ctxs' : ContextFit(ctxs'[s])
  BY <1>1, <1>4, <1>6 DEF Timeline, ContextsFit
<1>8. crossed' \in BOOLEAN
  BY DEF CountsPacket, Timeline
<1>9. Started' /\ (~crossed' /\ GapSeen(c, d) => Cardinality(Missing') > c.consecutive_lost)
  <2>1. CASE NotStarted
    BY <1>1, <1>6, <2>1, FirstPacket
  <2>2. CASE Started
    BY <1>1, <1>6, <2>2, LaterPacket
  <2> QED BY <2>1, <2>2 DEF Timeline
<1>10. ~crossed' /\ GapSeen(c, d) /\ c.consecutive_lost >= 2 => Cardinality(Missing') >= 3
  <2>1. ASSUME ~crossed' PROVE Cardinality(Missing') \in Nat
    <3>1. first' \in Int /\ top' \in Int
      BY <1>9 DEF Started
    <3>2. IsFiniteSet(first' .. top')
      BY <3>1, FS_Interval
    <3>3. IsFiniteSet(Missing')
      BY <3>2, FS_Difference DEF Missing
    <3> QED BY <3>3, FS_CardinalityType
  <2>2. c.consecutive_lost \in 0 .. 2
    BY <1>1 DEF Context
  <2> QED BY <1>9, <2>1, <2>2
<1> QED BY <1>5, <1>6, <1>7, <1>8, <1>9, <1>10 DEF Timeline


(***************************************************************************)
(* The invariant of the receive path, and what follows from it.            *)
(***************************************************************************)
ReceiveInv == Sessions /\ Timeline /\ DeliveredWasSent

\* What a step that hands nothing on leaves to show.
LEMMA NothingPushed == ASSUME pushed' = {} PROVE DeliveredWasSent'
BY DEF DeliveredWasSent

\* build_ssrc_map makes contexts that have counted nothing.
LEMMA TimelineInit == Init => Timeline /\ DeliveredWasSent
<1> SUFFICES ASSUME Init PROVE Timeline /\ DeliveredWasSent
  OBVIOUS
<1>1. /\ media \in RemoteMedias /\ ctxs = [s \in ContextSsrcs(media) |-> NewContext]
      /\ pushed = {} /\ first = -1 /\ top = -1 /\ arrived = {} /\ crossed = FALSE
  BY DEF Init
<1>2. ContextSsrcs(media) \subseteq {"video"}
  BY <1>1, Streams
<1>3. ContextsFit
  BY <1>1, <1>2 DEF ContextsFit
<1>4. ContextFit(NewContext) /\ ~NewContext.base_seq_set
  BY SeqModAssumption DEF ContextFit, Context, Counts, Intervals, NewContext
<1>5. NotStarted
  BY <1>1, <1>4 DEF NotStarted
<1>6. \A s \in DOMAIN ctxs : ContextFit(ctxs[s])
  BY <1>1, <1>4
<1> QED BY <1>1, <1>3, <1>5, <1>6 DEF Timeline, DeliveredWasSent

\* A datagram of the video stream.
LEMMA VideoStep ==
    ASSUME ReceiveInv, NEW n \in Packets, NEW key, NEW d,
           d = VideoDatagram(n, key) \/ d = RtxDatagram(n, key), ReceiveVideo(n, d)
    PROVE  /\ Timeline' /\ DeliveredWasSent'
           /\ pli' /\ ~crossed' => Cardinality(Missing') >= 3
<1>1. n \in Nat /\ KeysFit /\ ContextsFit /\ Receive(d) /\ UNCHANGED media /\ Timeline
  BY ReceiveAssumption DEF ReceiveInv, Sessions, Timeline, ReceiveVideo, Receive
<1>2. /\ Counted(d) =>
            /\ ctxs' = [ctxs EXCEPT !["video"] = AfterPacket(@, n % SeqMod)]
            /\ pli' = (/\ ctxs["video"].consecutive_lost >= 2
                       /\ check_gap(ctxs'["video"], ctxs["video"].packets_expected))
      /\ ~Counted(d) => pli' = FALSE /\ OnlyReports
      /\ \A p \in pushed' : IsVideo(p, n)
  BY <1>1, VideoReceived
<1>3. DeliveredWasSent'
  BY <1>2 DEF DeliveredWasSent, IsVideo
<1>4. CASE Counted(d)
  <2>1. CountsPacket(n)
    BY <1>2, <1>4 DEF ReceiveVideo, Counted, CountsPacket
  <2>2. /\ Timeline'
        /\ /\ ctxs["video"].consecutive_lost >= 2
           /\ check_gap(ctxs'["video"], ctxs["video"].packets_expected)
           /\ ~crossed'
           => Cardinality(Missing') >= 3
    BY <1>1, <2>1, PacketKeeps
  <2> QED BY <1>2, <1>3, <1>4, <2>2
<1>5. CASE ~Counted(d)
  <2>1. UNCHANGED <<media, first, top, arrived, crossed>>
    BY <1>1, <1>5 DEF ReceiveVideo
  <2>2. pli' = FALSE /\ OnlyReports
    BY <1>2, <1>5
  <2> QED BY <1>1, <1>3, <2>1, <2>2, OnlyReportsKeep
<1> QED BY <1>4, <1>5

\* Every step.
LEMMA TimelineStep ==
    ASSUME ReceiveInv, Next
    PROVE  /\ Timeline' /\ DeliveredWasSent'
           /\ pli' /\ ~crossed' => Cardinality(Missing') >= 3
<1>1. Timeline /\ ContextsFit
  BY DEF ReceiveInv, Timeline
<1>2. ASSUME UNCHANGED <<media, ctxs, first, top, arrived, crossed>>, pli' = FALSE, pushed' = {}
      PROVE  Timeline' /\ DeliveredWasSent'
  BY <1>1, <1>2, OnlyReportsKeep, NothingPushed DEF OnlyReports
<1>3. ASSUME NEW role \in Roles, Connect(role) PROVE Timeline' /\ DeliveredWasSent' /\ ~pli'
  BY <1>2, <1>3 DEF Connect, NoDatagram, Quiet, statVars
<1>4. CASE StopReceiver
  BY <1>2, <1>4 DEF StopReceiver, NoDatagram, Quiet, statVars
<1>5. CASE ReceiverReport
  <2>1. /\ UNCHANGED <<media, first, top, arrived, crossed>> /\ pli' = FALSE /\ pushed' = {}
        /\ ctxs' = [s \in DOMAIN ctxs |-> IF ctxs[s].packets_received > 0
                                          THEN advance_prior(ctxs[s]) ELSE ctxs[s]]
    BY <1>5 DEF ReceiverReport, NoDatagram, Quiet
  <2>2. Timeline'
    BY <1>1, <2>1, ReportsKeep
  <2> QED BY <2>1, <2>2, NothingPushed
<1>6. ASSUME NEW key \in Keys, NEW n \in Packets,
             ReceiveVideo(n, VideoDatagram(n, key)) \/ ReceiveVideo(n, RtxDatagram(n, key))
      PROVE  /\ Timeline' /\ DeliveredWasSent'
             /\ pli' /\ ~crossed' => Cardinality(Missing') >= 3
  BY <1>6, VideoStep
<1>7. ASSUME NEW key \in Keys, NEW d \in Noise, ReceiveOther([d EXCEPT !.key = key])
      PROVE  Timeline' /\ DeliveredWasSent' /\ ~pli'
  <2>1. UNCHANGED <<media, first, top, arrived, crossed>> /\ Receive([d EXCEPT !.key = key])
    BY <1>7 DEF ReceiveOther, Receive
  <2>2. pli' = FALSE /\ OnlyReports /\ \A p \in pushed' : p.ssrc # "video" /\ p.n = -1
    BY <1>1, <2>1, OtherReceived
  <2>3. Timeline'
    BY <1>1, <2>1, <2>2, OnlyReportsKeep
  <2> QED BY <2>2, <2>3 DEF DeliveredWasSent
<1> QED BY <1>3, <1>4, <1>5, <1>6, <1>7 DEF Next, Keys

\* The invariant holds through losses, reordering, retransmissions, wraps,
\* reports and whatever else arrives.
THEOREM ReceiveAlways == Spec => []ReceiveInv
<1>1. Init => ReceiveInv
  BY SessionsInit, TimelineInit DEF ReceiveInv
<1>2. ASSUME ReceiveInv, [Next]_receiveVars PROVE ReceiveInv'
  <2>1. Sessions'
    BY <1>2, SessionsStep DEF ReceiveInv
  <2>2. CASE Next
    BY <1>2, <2>1, <2>2, TimelineStep DEF ReceiveInv
  <2>3. CASE UNCHANGED receiveVars
    <3>1. UNCHANGED <<media, ctxs, pushed, first, top, arrived, crossed>>
      BY <2>3 DEF receiveVars, netVars, statVars
    <3>2. Timeline'
      BY <1>2, <3>1, OnlyReportsKeep DEF ReceiveInv, OnlyReports
    <3>3. DeliveredWasSent'
      BY <1>2, <3>1 DEF ReceiveInv, DeliveredWasSent
    <3> QED BY <2>1, <3>2, <3>3 DEF ReceiveInv
  <2> QED BY <1>2, <2>2, <2>3
<1> QED BY <1>1, <1>2, PTL DEF Spec

\* dispatch_rtp hands the track no packet under another one's number, and
\* rewrite_rtx_packet no packet of the repair stream that repeats one.
THEOREM DeliveredAlwaysSent == Spec => []DeliveredWasSent
<1>1. ReceiveInv => DeliveredWasSent
  BY DEF ReceiveInv
<1> QED BY <1>1, ReceiveAlways, PTL

\* A receiver report expects exactly the packets from the first to the newest,
\* and its lost fraction fits eight bits.
THEOREM CountsAlwaysTrue == Spec => []CountsAreTrue
<1>1. ReceiveInv => CountsAreTrue
  <2> SUFFICES ASSUME ReceiveInv PROVE CountsAreTrue
    OBVIOUS
  <2>1. Timeline
    BY DEF ReceiveInv
  <2>2. FractionFits
    BY <2>1, Fraction DEF Timeline, FractionFits
  <2>3. ASSUME ~crossed, first # -1 PROVE ctxs["video"].packets_expected = top - first + 1
    <3> DEFINE c == ctxs["video"]
               q == top \div SeqMod
               p == first \div SeqMod
               m == top % SeqMod
               b == first % SeqMod
    <3>1. /\ first \in Int /\ top \in Int /\ SeqMod \in Nat \ {0} /\ c.base_seq = b
          /\ c.base_seq_set /\ ContextFit(c) /\ OnTime(c)
      BY <2>1, <2>3, SeqModAssumption DEF Timeline, NotStarted, Started
    <3>2. c.cycles = SeqMod * (q - p) /\ c.max_seq = m
      BY <3>1 DEF OnTime
    <3>3. /\ q \in Int /\ m \in 0 .. SeqMod - 1 /\ top = SeqMod * q + m
          /\ p \in Int /\ b \in 0 .. SeqMod - 1 /\ first = SeqMod * p + b
      BY <3>1, DivMod, Zenon
    <3> HIDE DEF c, q, p, m, b
    <3>4. c.packets_expected = (c.cycles + c.max_seq) - c.base_seq + 1
      BY <3>1 DEF ContextFit, Counts, extended_max
    <3>5. SeqMod * (q - p) = SeqMod * q - SeqMod * p
      BY <3>1, <3>3
    <3>6. SeqMod * q \in Int /\ SeqMod * p \in Int
      BY <3>1, <3>3
    <3>7. c.packets_expected = top - first + 1
      BY <3>1, <3>2, <3>3, <3>4, <3>5, <3>6
    <3> QED BY <3>7 DEF c
  <2> QED BY <2>2, <2>3 DEF CountsAreTrue, ExpectedIsTrue
<1> QED BY <1>1, ReceiveAlways, PTL

\* The three gaps in a row that make dispatch_rtp ask for a key frame are three
\* packets that are missing.
THEOREM PliAlwaysEarned == Spec => NoPliWithoutLoss
<1>1. ASSUME ReceiveInv, [Next]_receiveVars
      PROVE  [pli' /\ ~crossed' => Cardinality((first' .. top') \ arrived') >= 3]_receiveVars
  BY <1>1, TimelineStep DEF Missing
<1> QED BY <1>1, ReceiveAlways, PTL DEF Spec, NoPliWithoutLoss
=============================================================================
