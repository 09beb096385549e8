---------------------------- MODULE MCMediaTrack ----------------------------
(***************************************************************************)
(* MediaTrack with frames of two packets and a delay of two ticks.         *)
(***************************************************************************)
EXTENDS MediaTrack

\* Parts of three frames across the wrap of the sequence numbers at 16,
\* starting inside a frame or at its beginning.
MCPackets == 13 .. 17
MCFirstPackets == {13, 14}

\* Two frames far from the wrap.
MCFewPackets == 0 .. 3
MCFewFirst == {0, 1}
=============================================================================
