----------------------------- MODULE RtpFormat ------------------------------
(***************************************************************************)
(* RTP packets as bytes: rtp_packet::write_to and parse, the one-byte      *)
(* header extensions make_rtp writes and rtp_ext_iterator reads.  The      *)
(* fixed header stays a record; rest is every byte after it.  An optional  *)
(* result is a sequence of at most one element.                            *)
(***************************************************************************)
EXTENDS Integers, Sequences, SequencesExt

Zeros(n) == [i \in 1..n |-> 0]

\* Bytes missing to the next multiple of four.
Short(n) == (4 - (n % 4)) % 4

\* What write_to adds when the padding bit is set: one word when nothing is missing.
Padding(n) == LET pad == IF n % 4 = 0 THEN 4 ELSE 4 - (n % 4)
              IN  Zeros(pad - 1) \o <<pad>>

\* Profile 0xBEDE, length in words, the data, zeros up to a word.
WriteExtension(p) ==
    <<190, 222, 0, (Len(p.extension_data) + 3) \div 4>>
    \o p.extension_data \o Zeros(Short(Len(p.extension_data)))

write_to(p) ==
    LET csrcs == FlattenSeq([i \in 1..Len(p.csrcs) |-> <<0, 0, 0, p.csrcs[i]>>])
        body  == csrcs \o (IF p.extension THEN WriteExtension(p) ELSE <<>>) \o p.payload
    IN  [padding |-> p.padding, extension |-> p.extension, csrc_count |-> Len(p.csrcs),
         marker |-> p.marker, sequence_number |-> p.sequence_number,
         rest |-> body \o (IF p.padding THEN Padding(Len(body)) ELSE <<>>)]

\* rtp_packet::parse
ParseRtp(w) ==
    LET len   == Len(w.rest)
        at    == 4 * w.csrc_count
        words == w.rest[at + 4]
        start == IF w.extension THEN at + 4 + 4 * words ELSE at
        tail  == SubSeq(w.rest, start + 1, len)
        pad   == Last(tail)
        padded == w.padding /\ tail # <<>>
        bad == \/ len < at
               \/ w.extension /\ (len < at + 4 \/ len < start)
               \/ padded /\ (pad = 0 \/ pad > Len(tail))
    IN  IF bad THEN <<>>
        ELSE << [padding |-> w.padding, extension |-> w.extension,
                 csrcs |-> [i \in 1..w.csrc_count |-> w.rest[4 * i]],
                 marker |-> w.marker, sequence_number |-> w.sequence_number,
                 extension_data |-> IF w.extension THEN SubSeq(w.rest, at + 5, start) ELSE <<>>,
                 payload |-> IF padded THEN SubSeq(tail, 1, Len(tail) - pad) ELSE tail] >>

-----------------------------------------------------------------------------
\* One-byte header extension elements, [id, data].

Element(e) == <<e.id * 16 + Len(e.data) - 1>> \o e.data

\* The identifiers 0 (not negotiated) and 15 and above are left out.
ElementsOf(list) == SelectSeq(list, LAMBDA e : e.id \in 1..14 /\ e.data # <<>>)

\* The extension data of make_rtp; the MID is cut to its first character.
ExtensionData(mid, rid, abs, twcc) ==
    LET cut  == [mid EXCEPT !.data = IF mid.data = <<>> THEN <<48>> ELSE <<mid.data[1]>>]
        list == ElementsOf(<<cut, rid, abs, twcc>>)
        data == FlattenSeq([i \in 1..Len(list) |-> Element(list[i])])
    IN  data \o Zeros(Short(Len(data)))

\* rtp_ext_iterator from begin to its sentinel; padding is read as elements with id 0.
ExtElements(data) ==
    LET size(i) == (data[i] % 16) + 1
        from[i \in 1..Len(data) + 1] ==
          IF i > Len(data) THEN <<>>
          ELSE IF i + size(i) > Len(data) THEN <<>>
          ELSE <<[id |-> data[i] \div 16, data |-> SubSeq(data, i + 1, i + size(i))]>>
               \o from[i + size(i) + 1]
    IN  from[1]
=============================================================================
