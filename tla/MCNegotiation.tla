---------------------------- MODULE MCNegotiation ---------------------------
(***************************************************************************)
(* Negotiation with model values for peers and codecs.  The peers, and the *)
(* video codecs, are interchangeable, and only safety is checked, so the   *)
(* symmetry is sound.                                                      *)
(***************************************************************************)
EXTENDS Negotiation, TLC

MCWanted == {{"send", "recv"}, {"recv"}}
MCSymmetry == Permutations(Peers) \cup Permutations(Codecs \ Audio)
=============================================================================
