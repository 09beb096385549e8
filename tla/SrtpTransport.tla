---------------------------- MODULE SrtpTransport ---------------------------
(***************************************************************************)
(* srtp_transport_base: which datagrams of the ICE transport it takes, how *)
(* it tells RTCP from RTP before decrypting, and which SSRCs it admits.    *)
(* libsrtp is external: a packet is decrypted when it was protected with   *)
(* the receive session's key for its protocol and was not seen before.     *)
(*                                                                         *)
(* A datagram is that of RtpDemux with a first byte in 128 .. 191 or not   *)
(* (v2), the word at offset 8 (ssrc), the index libsrtp checks for replays *)
(* (index), the key that protects it and for which protocol (key, proto),  *)
(* and its content.                                                        *)
(***************************************************************************)
EXTENDS RtpDemux, FiniteSets

CONSTANT MAX_ACTIVE_SSRCS

ASSUME SrtpAssumption == MAX_ACTIVE_SSRCS \in Nat

VARIABLES
    sendKey,   \* key of _send_session, or "none"
    recvKey,   \* key of _recv_session, or "none"
    active,    \* _active_ssrcs
    replay     \* libsrtp's replay database: <<protocol, ssrc, index>>

srtpVars == <<sendKey, recvKey, active, replay>>

SrtpInit == sendKey = "none" /\ recvKey = "none" /\ active = {} /\ replay = {}

\* Both sessions get the same key.
MutantSetup(role) ==
    /\ sendKey' = role /\ recvKey' = role
    /\ UNCHANGED <<active, replay>>

\* setup: each side sends with the write key of its own DTLS role and
\* receives with that of the other one.
setup(role) ==
    /\ sendKey' = role
    /\ recvKey' = IF role = "client" THEN "server" ELSE "client"
    /\ UNCHANGED <<active, replay>>

\* setup when the second create_session throws.
setup_fails(role) ==
    /\ sendKey' = role
    /\ UNCHANGED <<recvKey, active, replay>>

\* srtp_unprotect and srtp_unprotect_rtcp.
unprotect(d, proto) ==
    /\ d.key = recvKey /\ d.proto = proto
    /\ <<proto, d.ssrc, d.index>> \notin replay

\* do_on_new_ssrc looks at the datagram before it is decrypted; the tag at
\* its end is not counted in len.
\* Without a callback of the application that is all.
do_on_new_ssrc(d) == parse(d)

\* There is no limit.
MutantAdmits(d) ==
    \/ d.ssrc \in active
    \/ do_on_new_ssrc(d)

\* Whether the SSRC is known or may be admitted.
Admits(d) ==
    \/ d.ssrc \in active
    \/ Cardinality(active) < MAX_ACTIVE_SSRCS /\ do_on_new_ssrc(d)

\* datagram_received.  "pass": not taken, the next receiver of the transport
\* gets it; "drop": taken and dropped; "rtcp" and "rtp": decrypted and handed
\* to _on_rtp_rtcp_packet.
Verdict(d) ==
    IF d.len < 8 \/ ~d.v2 THEN "pass"
    ELSE IF recvKey = "none" THEN "drop"
    ELSE IF is_rtcp_packet(d) THEN IF unprotect(d, "rtcp") THEN "rtcp" ELSE "drop"
    ELSE IF d.len < 12 \/ ~Admits(d) THEN "pass"
    ELSE IF unprotect(d, "rtp") THEN "rtp" ELSE "drop"

\* The SSRC is inserted before the packet is decrypted and erased again by
\* the scope guard unless that succeeds.
datagram_received(d) ==
    /\ active' = IF Verdict(d) = "rtp" THEN active \cup {d.ssrc} ELSE active
    /\ replay' = IF Verdict(d) \in {"rtp", "rtcp"} THEN replay \cup {<<d.proto, d.ssrc, d.index>>}
                 ELSE replay
    /\ UNCHANGED <<sendKey, recvKey>>
=============================================================================
