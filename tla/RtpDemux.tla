------------------------------ MODULE RtpDemux ------------------------------
(***************************************************************************)
(* How the receive path tells RTCP from RTP: srtp_transport_base looks at  *)
(* the second byte before it decrypts, do_on_rtp_rtcp_packet tries         *)
(* rtp_packet::parse on what was decrypted.                                *)
(*                                                                         *)
(* A datagram has a length (len), a second byte (type), the five low bits  *)
(* of the first byte (count: the CSRC count and the extension bit of RTP,  *)
(* the report count of RTCP) and the words of a header extension (ext).    *)
(***************************************************************************)
EXTENDS Integers

is_rtcp_packet(d) == d.len >= 8 /\ d.type \in 200 .. 204

\* rtp_packet::parse (padding is not used).
parse(d) ==
    LET fixed == 12 + 4 * (d.count % 16)
    IN  /\ d.len >= fixed
        /\ d.count >= 16 => d.len >= fixed + 4 + 4 * d.ext

\* Whether the RTCP packets inside are looked at.  A packet that is not taken
\* for RTCP fails to decrypt as RTP.
ReachesRtcp(d) == is_rtcp_packet(d) /\ ~parse(d)
=============================================================================
