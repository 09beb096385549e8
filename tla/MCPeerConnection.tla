-------------------------- MODULE MCPeerConnection --------------------------
(***************************************************************************)
(* PeerConnection against a peer that may send any description: every      *)
(* setup role, every kind of m-line, with and without BUNDLE, trickle and  *)
(* candidates.  Nothing is bounded: the state space is finite.             *)
(***************************************************************************)
EXTENDS PeerConnection

\* All descriptions.
MCRemoteDescs == Desc
=============================================================================
