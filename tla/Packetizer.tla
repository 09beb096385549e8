----------------------------- MODULE Packetizer -----------------------------
(***************************************************************************)
(* The RTP packetizers and their inverses on the receiving side: H.264     *)
(* (single NAL unit, FU-A; STAP-A when receiving), VP8 and VP9 with the    *)
(* VP8 payload descriptor, Opus.  A payload is a sequence of bytes.        *)
(* kPacketMax is PacketMax here.                                           *)
(***************************************************************************)
EXTENDS Integers, Sequences, SequencesExt, FiniteSetsExt

CONSTANT PacketMax

\* A field of a byte: its lowest bit has the value lo, the field n values.
Bits(byte, lo, n) == (byte \div lo) % n

-----------------------------------------------------------------------------
\* H.264

\* The first start code at or after from: where it is and its length, 0 if there is none.
find_start_code(data, from) ==
    LET three(i) == data[i + 2] = 1
        four(i)  == i + 3 <= Len(data) /\ data[i + 2] = 0 /\ data[i + 3] = 1
        hits == {i \in from..Len(data) - 2 :
                    data[i] = 0 /\ data[i + 1] = 0 /\ (three(i) \/ four(i))}
    IN  IF hits = {} THEN [at |-> 0, len |-> 0]
        ELSE [at |-> Min(hits), len |-> IF three(Min(hits)) THEN 3 ELSE 4]

NalUnits(data) ==
    LET from[off \in 1..Len(data) + 1] ==
          LET code1 == find_start_code(data, off)
              begin == off + code1.len
              code2 == find_start_code(data, begin)
              end   == IF code2.len = 0 THEN Len(data) + 1 ELSE code2.at
              nal   == SubSeq(data, begin, end - 1)
          IN  IF code1.len = 0 THEN <<>>
              ELSE (IF nal = <<>> THEN <<>> ELSE <<nal>>) \o from[end]
    IN  from[1]

\* The end bit is set by comparing with the packet size instead of the rest.
MutantFuA(nal) ==
    LET size == PacketMax - 2
        n == (Len(nal) - 1 + size - 1) \div size
        part(k) == SubSeq(nal, 2 + (k - 1) * size, Min({Len(nal), 1 + k * size}))
        header(k) == (nal[1] % 32) + (IF k = 1 THEN 128 ELSE 0) + (IF Len(part(k)) < size THEN 64 ELSE 0)
    IN  [k \in 1..n |-> <<Bits(nal[1], 32, 4) * 32 + 28, header(k)>> \o part(k)]

\* FU-A: indicator and header in front of each part of the unit, without its own header.
FuA(nal) ==
    LET size == PacketMax - 2
        n == (Len(nal) - 1 + size - 1) \div size
        part(k) == SubSeq(nal, 2 + (k - 1) * size, Min({Len(nal), 1 + k * size}))
        header(k) == (nal[1] % 32) + (IF k = 1 THEN 128 ELSE 0) + (IF k = n THEN 64 ELSE 0)
    IN  [k \in 1..n |-> <<Bits(nal[1], 32, 4) * 32 + 28, header(k)>> \o part(k)]

\* H264Packetizer::pack
H264Pack(data) ==
    LET one(nal) == IF Len(nal) <= PacketMax THEN <<nal>> ELSE FuA(nal)
        nals == NalUnits(data)
    IN  FlattenSeq([i \in 1..Len(nals) |-> one(nals[i])])

StartCode == <<0, 0, 1>>

\* The units of an aggregation packet, each behind its two-byte size.
StapUnits(in) ==
    LET from[off \in 2..Len(in) + 2] ==
          LET size == in[off] * 256 + in[off + 1]
          IN  IF off + 1 > Len(in) THEN <<>>
              ELSE IF size = 0 \/ off + 1 + size > Len(in) THEN <<>>
              ELSE StartCode \o SubSeq(in, off + 2, off + 1 + size) \o from[off + 2 + size]
    IN  from[2]

FuStart(in) == Bits(in[2], 128, 2) = 1
FuEnd(in) == Bits(in[2], 64, 2) = 1

FuStep(acc, in) ==
    LET rest == SubSeq(in, 3, Len(in))
        partial == IF FuStart(in)
                   THEN <<((in[1] \div 32) * 32) + (in[2] % 32)>> \o rest
                   ELSE IF acc.in_fu THEN acc.partial \o rest ELSE acc.partial
    IN  IF FuEnd(in)
        THEN [out |-> acc.out \o StartCode \o partial, partial |-> <<>>, in_fu |-> FALSE]
        ELSE [acc EXCEPT !.partial = partial, !.in_fu = @ \/ FuStart(in)]

\* A complete unit is skipped while a fragmented one is open.
MutantAnnexBStep(acc, in) ==
    LET type == in[1] % 32
    IN  IF in = <<>> THEN acc
        ELSE IF type = 24 THEN [acc EXCEPT !.out = @ \o StapUnits(in)]
        ELSE IF type = 28 THEN (IF Len(in) < 2 THEN acc ELSE FuStep(acc, in))
        ELSE IF type \in 1..23 /\ ~acc.in_fu THEN [acc EXCEPT !.out = @ \o StartCode \o in]
        ELSE acc

AnnexBStep(acc, in) ==
    LET type == in[1] % 32
    IN  IF in = <<>> THEN acc
        ELSE IF type = 24 THEN [acc EXCEPT !.out = @ \o StapUnits(in)]
        ELSE IF type = 28 THEN (IF Len(in) < 2 THEN acc ELSE FuStep(acc, in))
        ELSE IF type \in 1..23 THEN [acc EXCEPT !.out = @ \o StartCode \o in]
        ELSE acc

\* The payloads of one frame put together again.
h264_packets_to_annex_b(payloads) ==
    FoldLeft(AnnexBStep, [out |-> <<>>, partial |-> <<>>, in_fu |-> FALSE], payloads).out

-----------------------------------------------------------------------------
\* VP8 and VP9: of the payload descriptor's options the packetizers use the picture id.

DescriptorBytes(start, picture_id) ==
    <<128 + (IF start THEN 16 ELSE 0), 128>>
    \o IF picture_id < 128 THEN <<picture_id>>
       ELSE <<128 + (picture_id \div 256), picture_id % 256>>

\* Vp8Packetizer::pack, Vp9Packetizer::pack
VpxPack(data, picture_id) ==
    LET size == PacketMax - Len(DescriptorBytes(TRUE, picture_id))
        n == (Len(data) + size - 1) \div size
        chunk(k) == SubSeq(data, 1 + (k - 1) * size, Min({Len(data), k * size}))
    IN  [k \in 1..n |-> DescriptorBytes(k = 1, picture_id) \o chunk(k)]

\* How many bytes depayload takes for the descriptor.
DescriptorSize(d) ==
    IF Bits(d[1], 128, 2) = 0 \/ Len(d) < 2 THEN 1
    ELSE LET skip(pos, bits, n) == IF bits # 0 /\ Len(d) > pos THEN pos + n ELSE pos
             width == IF Len(d) > 2 /\ d[3] >= 128 THEN 2 ELSE 1
             id  == skip(2, Bits(d[2], 128, 2), width)
             tl0 == skip(id, Bits(d[2], 64, 2), 1)
         IN  skip(tl0, Bits(d[2], 16, 4), 1)

depayload(codec, payload) ==
    IF codec \in {"vp8", "vp9"} /\ payload # <<>> /\ DescriptorSize(payload) <= Len(payload)
    THEN SubSeq(payload, DescriptorSize(payload) + 1, Len(payload))
    ELSE payload

-----------------------------------------------------------------------------
OpusPack(data) == <<data>>

Pack(codec, data, picture_id) ==
    CASE codec = "h264" -> H264Pack(data)
      [] codec \in {"vp8", "vp9"} -> VpxPack(data, picture_id)
      [] codec = "opus" -> OpusPack(data)

\* media_track_impl::recv: the frame an application receives.
FrameOf(codec, payloads) ==
    IF codec = "h264" THEN h264_packets_to_annex_b(payloads) ELSE FlattenSeq(payloads)
=============================================================================
