--------------------------- MODULE MCRtpReceive ----------------------------
(***************************************************************************)
(* A video line with a repair stream, the same line without one, and one   *)
(* that only receives; every kind of datagram that is not the video.       *)
(***************************************************************************)
EXTENDS RtpReceive

Fid == [sem |-> "FID", ssrc |-> "video", repair |-> "rtx"]
Line(apt, groups, dir) ==
    [port |-> 9, dir |-> dir, mid |-> "0", apt |-> apt, groups |-> groups,
     ssrcs |-> {"video"} \cup { g.repair : g \in groups }]

MCRemoteMedias == { Line([p \in {97} |-> 96], {Fid}, "sendrecv"),
                    Line(<<>>, {}, "sendonly"), Line(<<>>, {}, "recvonly") }

\* A packet of an SSRC without a context, with the MID, and one without
\* payload on the repair stream.
Alt == [VideoDatagram(0, "") EXCEPT !.ssrc = "alt",
          !.content = [@ EXCEPT !.ssrc = "alt", !.mid = "0", !.n = -1]]
Padding == [RtxDatagram(0, "") EXCEPT !.index = -1,
          !.content = [@ EXCEPT !.mid = "0", !.short = TRUE, !.n = -1]]

Rtcp(type, len, count, ssrc, reports) ==
    [Alt EXCEPT !.type = type, !.len = len, !.count = count, !.ssrc = ssrc,
                !.proto = "rtcp", !.reports = reports]

\* A sender report as every peer sends it, a compound behind an APP packet
\* that does not parse as RTP, a lone PLI, a short RTCP packet, STUN.
SR == [type |-> "SR", ssrc |-> "video"]
RR == [type |-> "RR", ssrc |-> "ours"]
MCNoise ==
    { Alt, Padding,
      Rtcp(200, 28, 0, "ntp", {SR}), Rtcp(204, 60, 15, "app", {SR, RR}),
      Rtcp(206, 12, 1, "ours", {}),
      [Alt EXCEPT !.v2 = FALSE], [Alt EXCEPT !.len = 7], [Alt EXCEPT !.len = 11] }
=============================================================================
