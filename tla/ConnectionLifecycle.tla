------------------------ MODULE ConnectionLifecycle -------------------------
(***************************************************************************)
(* What a peer connection promises about the two states it shows to the    *)
(* application (signaling_state_t and connection_state_t of                *)
(* src/include/asiortc/peer_connection.hpp): one offer/answer exchange,    *)
(* without renegotiation, and one connection attempt after it.             *)
(***************************************************************************)
VARIABLES signaling, connState

vars == <<signaling, connState>>

Init == signaling = "stable" /\ connState = "init"

\* One side is described, then the other.
Describe ==
    \/ signaling = "stable" /\ signaling' \in {"have_local_offer", "have_remote_offer"}
    \/ signaling = "have_local_offer" /\ signaling' = "have_remote_pranswer"
    \/ signaling = "have_remote_offer" /\ signaling' = "have_local_pranswer"

\* The attempt starts with the second description or later.
Start ==
    /\ signaling' \in {"have_local_pranswer", "have_remote_pranswer"}
    /\ connState = "init" /\ connState' = "connecting"

Finish == connState = "connecting" /\ connState' \in {"connected", "failed"}

Close == connState' = "closed"

Next ==
    \/ Describe /\ (Start \/ UNCHANGED connState)
    \/ UNCHANGED signaling /\ (Start \/ Finish \/ Close)

Spec == Init /\ [][Next]_vars
=============================================================================
