---------------------------- MODULE MCMediaPath -----------------------------
EXTENDS MediaPath

\* NAL units of one byte, of a full packet, of fragments that are full and that are not;
\* 101 is an IDR slice (type 5), 65 a slice (type 1); zeros and ones as an
\* encoder may leave them in a unit.
MCNals == {<<101>>, <<65, 0, 0, 3, 1>>, <<101, 1, 9, 0, 9, 8, 7>>, <<65, 9, 0, 0, 2, 0, 1, 9, 7>>}
MCUnits == [code : {3, 4}, nal : MCNals]
MCH264Frames == {<<u>> : u \in MCUnits} \cup {<<u, v>> : u \in MCUnits, v \in MCUnits}
MCByteFrames == {<<1>>, <<128, 0>>, <<9, 8, 7>>, <<0, 0, 1, 9, 255>>}
MCCodecs == {"vp8", "opus"}
MCPictureIds == {127, 32767}

El(id, data) == [id |-> id, data |-> data]
MCExtConfigs ==
    { [mid |-> El(0, <<>>), rid |-> El(0, <<>>), abs |-> El(0, <<>>), twcc |-> El(0, <<>>)],
      [mid |-> El(1, <<50, 51>>), rid |-> El(0, <<>>), abs |-> El(0, <<>>), twcc |-> El(4, <<1, 255>>)],
      [mid |-> El(1, <<>>), rid |-> El(14, <<104, 105>>), abs |-> El(2, <<7, 0, 32>>), twcc |-> El(4, <<0, 0>>)],
      [mid |-> El(1, <<50>>), rid |-> El(3, <<>>), abs |-> El(2, <<0, 0, 0>>), twcc |-> El(15, <<1, 1>>)] }
MCCsrcs == {<<>>, <<5>>}

Block(ssrc, fraction, cumulative) ==
    [ssrc |-> ssrc, fraction_lost |-> fraction, cumulative_lost |-> cumulative,
     ext_highest_seq |-> 3, jitter |-> 4, lsr |-> 0, dlsr |-> 6]
Msg(kind, ssrc, info, blocks, list) ==
    [kind |-> kind, ssrc |-> ssrc, info |-> info, blocks |-> blocks, list |-> list]
MCReports ==
    {Msg("sr", s, <<1, 2, 3, 4, 5>>, <<>>, <<>>) : s \in {1, 2}}
    \cup {Msg("rr", 1, <<>>, bs, pad) : pad \in {<<>>, <<1>>},
              bs \in {<<>>, <<Block(2, 255, 16777215)>>, <<Block(2, 0, 16777216), Block(3, 1, 70000)>>}}
MCSdes == {Msg("sdes", 0, <<>>, <<>>, name) : name \in {<<>>, <<97>>, <<97, 98>>, <<97, 98, 99>>}}
MCFeedback ==
    {Msg("nack", 9, <<>>, <<>>, lost) : lost \in {<<>>, <<65535>>, <<65535, 0, 15>>}}
    \cup {Msg("pli", 9, <<>>, <<>>, <<>>)}
    \cup {Msg("tcc", 9, <<>>, <<>>, chunks) : chunks \in {<<200, 0>>, <<200, 0, 3>>, <<200, 0, 3, 4, 5>>}}
MCCompounds ==
    {<<r, s>> : r \in MCReports, s \in MCSdes} \cup {<<f>> : f \in MCFeedback}
    \cup {<<r, s, f>> : r \in MCReports, s \in MCSdes, f \in MCFeedback}
=============================================================================
