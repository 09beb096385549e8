---------------------------- MODULE MCNackStream ----------------------------
(***************************************************************************)
(* NackStream with a sequence space of 16 numbers and a window of 4: the   *)
(* stream starts just below the wrap and runs past it.                     *)
(***************************************************************************)
EXTENDS NackStream

MCFirstPackets == {13}
MCRttSamples == {180}
=============================================================================
