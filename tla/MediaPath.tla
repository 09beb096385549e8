----------------------------- MODULE MediaPath ------------------------------
(***************************************************************************)
(* One frame after another on its way through the formats: packetizer,     *)
(* make_rtp, rtp_packet::write_to, a network that may lose packets,        *)
(* rtp_packet::parse, depayload, and the frame media_track_impl::recv puts *)
(* together (the jitter buffer, modelled in JitterBuffer, hands it over in *)
(* order).  After a frame, RTCP compounds take the same way.  The remote  *)
(* side may also send what this code only reads: STAP-A, padding, CSRCs.   *)
(***************************************************************************)
EXTENDS Packetizer, RtpFormat, RtcpFormat, FiniteSets

CONSTANTS
    H264Frames,    \* frames as sequences of [code, nal]: start code length and NAL unit
    ByteFrames,    \* frames of the other codecs, as bytes
    Codecs,        \* of the frames in ByteFrames
    PictureIds,    \* where the picture id may start
    ExtConfigs,    \* [mid, rid, abs, twcc], each an element [id, data]
    Csrcs,         \* lists of contributing sources a remote packet may carry
    Compounds,     \* RTCP compounds as sequences of messages
    MaxFrames

VARIABLES
    picture_id,    \* of the VPX packetizer
    frames,        \* frames sent so far
    sent,          \* the frame on its way, [codec, data, nals]
    config,        \* its header extensions
    flight,        \* its packets, [wire, whole]: bytes, and the NAL units they hold completely
    got,           \* payloads that arrived, without descriptor
    whole,         \* NAL units that arrived in one packet
    lossy,         \* a packet of the frame was lost
    read,          \* the header extension elements of the last packet
    out, done,     \* the frame the application receives, once it has
    said, control, heard    \* an RTCP compound: messages, bytes, what the reader makes of it

mediaVars == <<picture_id, frames, sent, config, flight, got, whole, lossy, read, out, done>>
controlVars == <<said, control, heard>>
vars == <<mediaVars, controlVars>>

NoFrame == [codec |-> "none", data |-> <<>>, nals |-> <<>>]
NoElement == [id |-> 0, data |-> <<>>]
NoConfig == [mid |-> NoElement, rid |-> NoElement, abs |-> NoElement, twcc |-> NoElement]

AnnexB(frame) ==
    FlattenSeq([i \in 1..Len(frame) |-> Zeros(frame[i].code - 1) \o <<1>> \o frame[i].nal])

\* make_rtp for one payload, with what only a remote sender adds.
make_rtp(payload, marker, seq, c, padding, csrcs) ==
    LET data == ExtensionData(c.mid, c.rid, c.abs, c.twcc)
    IN  write_to([padding |-> padding, extension |-> data # <<>>, csrcs |-> csrcs,
                  marker |-> marker, sequence_number |-> seq,
                  extension_data |-> data, payload |-> payload])

\* A remote H.264 sender's aggregation packet.
StapA(nals) ==
    <<24>> \o FlattenSeq([i \in 1..Len(nals) |-> Half(Len(nals[i])) \o nals[i]])

Packets(payloads, nals, c, padding, csrcs) ==
    [k \in 1..Len(payloads) |->
        [wire  |-> make_rtp(payloads[k], k = Len(payloads), k, c, padding, csrcs),
         whole |-> {nals[i] : i \in {j \in 1..Len(nals) : nals[j] = payloads[k] \/ payloads[k][1] = 24}}]]

Init ==
    /\ picture_id \in PictureIds /\ frames = 0
    /\ sent = NoFrame /\ config = NoConfig /\ flight = <<>> /\ got = <<>>
    /\ whole = {} /\ lossy = FALSE /\ read = <<>> /\ out = <<>> /\ done = FALSE
    /\ said = <<>> /\ control = <<>> /\ heard = <<>>

Start(frame, payloads, c, padding, csrcs) ==
    /\ frames < MaxFrames /\ sent = NoFrame /\ said = <<>>
    /\ sent' = frame /\ config' = c
    /\ flight' = Packets(payloads, frame.nals, c, padding, csrcs)
    /\ frames' = frames + 1
    /\ got' = <<>> /\ whole' = {} /\ lossy' = FALSE /\ read' = <<>> /\ out' = <<>> /\ done' = FALSE
    /\ UNCHANGED controlVars

SendH264(units, c, padding, csrcs) ==
    LET nals  == [i \in 1..Len(units) |-> units[i].nal]
        frame == [codec |-> "h264", data |-> AnnexB(units), nals |-> nals]
    IN  /\ Start(frame, Pack("h264", frame.data, 0), c, padding, csrcs)
        /\ UNCHANGED picture_id

SendAggregate(units, c) ==
    LET nals  == [i \in 1..Len(units) |-> units[i].nal]
        frame == [codec |-> "h264", data |-> AnnexB(units), nals |-> nals]
    IN  Start(frame, <<StapA(nals)>>, c, FALSE, <<>>) /\ UNCHANGED picture_id

SendBytes(codec, data, c, padding, csrcs) ==
    /\ Start([codec |-> codec, data |-> data, nals |-> <<>>],
             Pack(codec, data, picture_id), c, padding, csrcs)
    /\ picture_id' = IF codec = "opus" THEN picture_id ELSE (picture_id + 1) % 32768

Deliver ==
    /\ flight # <<>>
    /\ LET pkt == ParseRtp(Head(flight).wire)
       IN  IF pkt = <<>> THEN UNCHANGED <<got, whole, read>>
           ELSE /\ got' = Append(got, depayload(sent.codec, pkt[1].payload))
                /\ whole' = whole \cup Head(flight).whole
                /\ read' = SelectSeq(ExtElements(pkt[1].extension_data), LAMBDA e : e.id # 0)
    /\ flight' = Tail(flight)
    /\ UNCHANGED <<picture_id, frames, sent, config, lossy, out, done, controlVars>>

Lose ==
    /\ flight # <<>>
    /\ flight' = Tail(flight)
    /\ lossy' = TRUE
    /\ UNCHANGED <<picture_id, frames, sent, config, got, whole, read, out, done, controlVars>>

Receive ==
    /\ flight = <<>> /\ sent # NoFrame /\ ~done
    /\ got # <<>>
    /\ out' = FrameOf(sent.codec, got)
    /\ done' = TRUE
    /\ UNCHANGED <<picture_id, frames, sent, config, flight, got, whole, lossy, read, controlVars>>

Finish ==
    /\ flight = <<>> /\ sent # NoFrame
    /\ done \/ got = <<>>
    /\ sent' = NoFrame /\ read' = <<>> /\ out' = <<>> /\ got' = <<>> /\ whole' = {}
    /\ lossy' = FALSE /\ config' = NoConfig /\ done' = FALSE
    /\ UNCHANGED <<picture_id, frames, flight, controlVars>>

-----------------------------------------------------------------------------
\* A remote side may put the losses after the first into the item's bit mask.
CompactNack(media, lost) ==
    LET bit(i) == 2^((lost[i] - lost[1] - 1) % 65536)
        mask   == FoldSet(LAMBDA i, sum : sum + bit(i), 0, 2..Len(lost))
    IN  Header(FALSE, 1, RTPFB, Zero(12)) \o Word(0) \o Word(media) \o Half(lost[1]) \o Half(mask)

\* A message is [kind, ssrc, info, blocks, list].
Bytes(m, compact) ==
    CASE m.kind = "sr" -> WriteRtcp([EmptyPacket EXCEPT !.type = SR, !.ssrc = m.ssrc, !.info = m.info])
      [] m.kind = "rr" -> WriteRtcp([EmptyPacket EXCEPT !.type = RR, !.ssrc = m.ssrc, !.blocks = m.blocks,
                                       !.report_count = Len(m.blocks), !.padding = (m.list # <<>>)])
      [] m.kind = "sdes" -> SdesBytes(0, m.list)
      [] m.kind = "nack" -> IF compact /\ m.list # <<>> THEN CompactNack(m.ssrc, m.list)
                            ELSE NackBytes(0, m.ssrc, m.list)
      [] m.kind = "pli" -> PsfbBytes(1, 0, m.ssrc, <<>>)
      [] m.kind = "tcc" -> TccBytes(0, m.ssrc, Zero(8), m.list)

\* What do_on_rtp_rtcp_packet finds in a parsed packet.
Meaning(p) ==
    CASE p.type = SR -> [kind |-> "sr", ssrc |-> p.ssrc, info |-> p.info, blocks |-> <<>>, list |-> <<>>]
      [] p.type = RR -> [kind |-> "rr", ssrc |-> p.ssrc, info |-> <<>>, blocks |-> p.blocks,
                         list |-> IF p.padding THEN <<1>> ELSE <<>>]
      [] p.type = SDES -> [kind |-> "sdes", ssrc |-> 0, info |-> <<>>, blocks |-> <<>>,
                           list |-> SubSeq(p.payload, 7, 6 + p.payload[6])]
      [] p.type = RTPFB /\ p.report_count = 1 ->
           [kind |-> "nack", ssrc |-> p.media_ssrc, info |-> <<>>, blocks |-> <<>>, list |-> parse_nack(p.payload)]
      [] p.type = RTPFB /\ p.report_count = 15 ->
           [kind |-> "tcc", ssrc |-> p.media_ssrc, info |-> <<>>, blocks |-> <<>>,
            list |-> SubSeq(p.payload, 9, Len(p.payload))]
      [] p.type = PSFB -> [kind |-> "pli", ssrc |-> p.media_ssrc, info |-> <<>>, blocks |-> <<>>, list |-> <<>>]

SendControl(ms, compact) ==
    /\ sent = NoFrame /\ control = <<>>
    /\ said' = ms
    /\ control' = FlattenSeq([i \in 1..Len(ms) |-> Bytes(ms[i], compact)])
    /\ heard' = <<>>
    /\ UNCHANGED mediaVars

ReceiveControl ==
    /\ control # <<>>
    /\ LET ps == parse_compound(control) IN heard' = [i \in 1..Len(ps) |-> Meaning(ps[i])]
    /\ control' = <<>>
    /\ UNCHANGED <<said, mediaVars>>

Next ==
    \/ \E f \in H264Frames, c \in ExtConfigs, pad \in BOOLEAN, cs \in Csrcs : SendH264(f, c, pad, cs)
    \/ \E f \in H264Frames, c \in ExtConfigs : SendAggregate(f, c)
    \/ \E codec \in Codecs, d \in ByteFrames, c \in ExtConfigs, pad \in BOOLEAN, cs \in Csrcs :
          SendBytes(codec, d, c, pad, cs)
    \/ Deliver \/ Lose \/ Receive \/ Finish
    \/ \E ms \in Compounds, compact \in BOOLEAN : SendControl(ms, compact)
    \/ ReceiveControl

Spec == Init /\ [][Next]_vars

-----------------------------------------------------------------------------
\* A frame none of whose packets was lost reaches the application with its
\* bytes: fragments are put together, descriptors, padding and header
\* extensions taken off; of an H.264 frame only the start codes may be shorter.
FrameSurvives ==
    done /\ ~lossy =>
        IF sent.codec = "h264" THEN NalUnits(out) = sent.nals ELSE out = sent.data

\* A lost packet damages only the NAL unit it belonged to: every unit that
\* arrived in one packet is still delimited as itself in the frame, whatever
\* fragments around it are missing.
LossIsLocal ==
    done /\ sent.codec = "h264" => whole \subseteq {NalUnits(out)[i] : i \in 1..Len(NalUnits(out))}

\* rtp_ext_iterator finds in every packet the elements make_rtp wrote, in
\* order, and nothing else but padding; the MID is its first character.
ExtensionsReadBack ==
    got # <<>> =>
        read = ElementsOf(<<[config.mid EXCEPT !.data = IF @ = <<>> THEN <<48>> ELSE <<@[1]>>],
                            config.rid, config.abs, config.twcc>>)

\* Whatever arrives is read as it was written, frames and header extensions.
MediaReadBack == FrameSurvives /\ ExtensionsReadBack

\* A compound is read back message by message: reports with their blocks (a
\* cumulative loss modulo 2^24), the CNAME, the lost packets, the feedback
\* without its padding.
ControlReadBack ==
    control = <<>> /\ said # <<>> =>
        heard = [i \in 1..Len(said) |->
                   [said[i] EXCEPT !.blocks =
                       [j \in 1..Len(@) |-> [@[j] EXCEPT !.cumulative_lost = @ % 16777216]]]]
=============================================================================
