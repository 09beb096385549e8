----------------------------- MODULE RtcpFormat -----------------------------
(***************************************************************************)
(* RTCP packets as bytes: rtcp_packet::write_to, parse and parse_compound, *)
(* the SDES, NACK, PLI and transport-cc writers and the NACK reader.  A    *)
(* 32-bit field whose value no code looks into has its value in its last   *)
(* byte.  An optional result is a sequence of at most one element.         *)
(***************************************************************************)
EXTENDS Integers, Sequences, SequencesExt

SR == 200
RR == 201
SDES == 202
BYE == 203
APP == 204
RTPFB == 205
PSFB == 206

Word(x) == <<0, 0, 0, x>>
Half(x) == <<x \div 256, x % 256>>
Zero(n) == [i \in 1..n |-> 0]
Missing(n) == (4 - (n % 4)) % 4

Header(padding, count, type, body) ==
    <<128 + (IF padding THEN 32 ELSE 0) + count, type>> \o Half(Len(body) \div 4)

\* A packet as parse fills it in; write_to takes the same record.
EmptyPacket ==
    [type |-> 0, padding |-> FALSE, report_count |-> 0, ssrc |-> 0, media_ssrc |-> 0,
     info |-> <<>>, blocks |-> <<>>, payload |-> <<>>]

-----------------------------------------------------------------------------
\* Report blocks: ssrc, fraction lost and cumulative loss (24 bits) in one word, highest number,
\* jitter, lsr, dlsr.

write_report_block(b) ==
    Word(b.ssrc)
    \o <<b.fraction_lost, (b.cumulative_lost \div 65536) % 256>> \o Half(b.cumulative_lost % 65536)
    \o Word(b.ext_highest_seq) \o Word(b.jitter) \o Word(b.lsr) \o Word(b.dlsr)

parse_report_block(w) ==
    [ssrc |-> w[4], fraction_lost |-> w[5],
     cumulative_lost |-> w[6] * 65536 + w[7] * 256 + w[8],
     ext_highest_seq |-> w[12], jitter |-> w[16], lsr |-> w[20], dlsr |-> w[24]]

-----------------------------------------------------------------------------
\* rtcp_packet::write_to
WriteRtcp(p) ==
    LET own   == IF p.type \in {SR, RR} THEN Word(p.ssrc) ELSE <<>>
        info  == IF p.type = SR THEN FlattenSeq([i \in 1..5 |-> Word(p.info[i])]) ELSE <<>>
        known == own \o info
                 \o FlattenSeq([i \in 1..Len(p.blocks) |-> write_report_block(p.blocks[i])])
                 \o p.payload
        pad   == IF Len(known) % 4 = 0 THEN 4 ELSE Missing(Len(known))
        body  == known \o (IF p.padding THEN Zero(pad - 1) \o <<pad>> ELSE <<>>)
    IN  Header(p.padding, p.report_count, p.type, body) \o body

\* Padding is left in the payload.
MutantPayload(b, off, total) == << SubSeq(b, off + 1, total) >>

\* The bytes of b from off to the packet's end, without padding; <<>> if the padding is wrong.
ParsePayload(b, off, total) ==
    LET n   == total - off
        pad == b[total]
    IN  IF b[1] % 64 < 32 \/ n = 0 THEN << SubSeq(b, off + 1, total) >>
        ELSE IF pad = 0 \/ pad > n THEN <<>>
        ELSE << SubSeq(b, off + 1, total - pad) >>

PacketSize(b) == (b[3] * 256 + b[4] + 1) * 4

\* rtcp_packet::parse
ParseRtcp(b) ==
    LET total == PacketSize(b)
        type  == b[2]
        count == b[1] % 32
        fixed == CASE type = SR -> 28 [] type = RR -> 8 [] type \in {RTPFB, PSFB} -> 12 [] OTHER -> 4
        off   == IF type \in {SR, RR} THEN fixed + 24 * count ELSE fixed
        known == type \in {SR, RR, SDES, BYE, APP, RTPFB, PSFB}
        rest  == IF known THEN ParsePayload(b, off, total) ELSE << <<>> >>
        block(i) == parse_report_block(SubSeq(b, fixed + 24 * (i - 1) + 1, fixed + 24 * i))
    IN  IF Len(b) < 4 THEN <<>>
        ELSE IF total > Len(b) \/ total < off THEN <<>>
        ELSE IF rest = <<>> THEN <<>>
        ELSE << [EmptyPacket EXCEPT
                   !.type = type, !.padding = (b[1] % 64 >= 32), !.report_count = count,
                   !.ssrc = IF type \in {SR, RR} THEN b[8] ELSE 0,
                   !.media_ssrc = IF type \in {RTPFB, PSFB} THEN b[12] ELSE 0,
                   !.info = IF type = SR THEN [i \in 1..5 |-> b[8 + 4 * i]] ELSE <<>>,
                   !.blocks = IF type \in {SR, RR} THEN [i \in 1..count |-> block(i)] ELSE <<>>,
                   !.payload = rest[1]] >>

\* parse_compound: up to the first packet that does not fit or cannot be read.
parse_compound(b) ==
    LET from[off \in 0..Len(b)] ==
          LET rest == SubSeq(b, off + 1, Len(b))
              pkt  == ParseRtcp(SubSeq(rest, 1, PacketSize(rest)))
          IN  IF Len(rest) < 4 THEN <<>>
              ELSE IF PacketSize(rest) > Len(rest) THEN <<>>
              ELSE IF pkt = <<>> THEN <<>>
              ELSE pkt \o from[off + PacketSize(rest)]
    IN  from[0]

-----------------------------------------------------------------------------
\* sdes_chunk::bytes
SdesBytes(ssrc, cname) ==
    LET data == Word(ssrc) \o <<1, Len(cname)>> \o cname \o <<0, 0>>
        body == data \o Zero(Missing(Len(data)))
    IN  Header(FALSE, 1, SDES, body) \o body

\* rtcp_rtpfb::bytes: one item per lost packet, its bit mask empty.
NackBytes(sender, media, lost) ==
    LET body == Word(sender) \o Word(media)
                \o FlattenSeq([i \in 1..Len(lost) |-> Half(lost[i]) \o <<0, 0>>])
    IN  Header(FALSE, 1, RTPFB, body) \o body

\* rtcp_psfb::bytes
PsfbBytes(fmt, sender, media, fci) ==
    LET body == Word(sender) \o Word(media) \o fci IN Header(FALSE, fmt, PSFB, body) \o body

\* build_transport_cc: the feedback's fields (eight bytes) and chunks, padded.
TccBytes(sender, media, fields, chunks) ==
    LET data == Word(sender) \o Word(media) \o fields \o chunks
        pad  == Missing(Len(data))
        body == data \o (IF pad = 0 THEN <<>> ELSE Zero(pad - 1) \o <<pad>>)
    IN  Header(pad > 0, 15, RTPFB, body) \o body

Bit(mask, i) == (mask \div 2^i) % 2 = 1

\* parse_nack: the packet and, for every bit of the mask, one of the sixteen after it.
parse_nack(data) ==
    LET item(k) == SubSeq(data, 4 * (k - 1) + 1, 4 * k)
        pid(k)  == item(k)[1] * 256 + item(k)[2]
        after(k) == LET mask == item(k)[3] * 256 + item(k)[4]
                        set == SelectSeq([i \in 1..16 |-> i - 1], LAMBDA i : Bit(mask, i))
                    IN  [j \in 1..Len(set) |-> (pid(k) + set[j] + 1) % 65536]
    IN  FlattenSeq([k \in 1..(Len(data) \div 4) |-> <<pid(k)>> \o after(k)])
=============================================================================
