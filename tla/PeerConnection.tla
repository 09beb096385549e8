--------------------------- MODULE PeerConnection ---------------------------
(***************************************************************************)
(* The signalling and connection life cycle of one connection_impl         *)
(* (src/src/connection_impl.cpp).                                          *)
(*                                                                         *)
(* All of connection_impl runs on one executor, so a step of this module   *)
(* is what runs between two suspension points: a public call up to its     *)
(* first co_await, or the resumption of a suspended coroutine up to its    *)
(* next co_await.  Two coroutines can be in flight: the application's      *)
(* set_local/remote_description suspended inside apply_descriptions        *)
(* (applying), and do_connect, spawned into _scope (task).  close() can    *)
(* run between any two steps.                                              *)
(*                                                                         *)
(* A session description is abstracted to what this code reads of it: its  *)
(* type, the setup role, which kinds of m-line it holds, whether it has a  *)
(* BUNDLE group, announces trickle ICE, and carries candidates.  The       *)
(* m-lines themselves are in module Negotiation.  A call that throws       *)
(* changes nothing and is not a step.                                      *)
(*                                                                         *)
(* ICE, DTLS, SCTP and the scope belong to libraries outside the           *)
(* repository and are modelled from their use here: each awaited operation *)
(* completes with success or failure (OperationCompletes), and the         *)
(* coroutine is resumed by a handler posted to the executor (Resume...).   *)
(***************************************************************************)
EXTENDS Naturals

CONSTANTS
    RemoteDescs,   \* the descriptions the application may receive from the peer
    StopOnResume   \* TRUE: a coroutine of _scope whose awaited operation has
                   \* already completed is still stopped by request_stop() when
                   \* its resumption is only queued on the executor

VARIABLES
    signaling,     \* _signaling_state
    local,         \* *_local_desc, or NoDesc
    remote,        \* *_remote_desc, or NoDesc
    draft,         \* what create_offer/create_answer last returned, held by the application
    rolesSet,      \* _roles_set
    needSctp,      \* _need_sctp
    hasAv,         \* _transceivers is not empty
    trickle,       \* _agent.config().trickle_ice
    controlling,   \* _agent.config().ice_controlling
    gathering,     \* _gathering_state
    gatherTask,    \* _gathering_task and the operation it stands for
    applying,      \* the set_*_description call suspended in apply_descriptions
    cancelled,     \* the application cancelled that call
    connState,     \* _connection_state
    task,          \* where do_connect is suspended
    posted,        \* the result of the operation do_connect awaits, once known
    active,        \* we_are_active, a local variable of do_connect
    transports,    \* _ice_transport and _dtls_transport are set
    srtp,          \* _srtp_transport is set
    sctp,          \* _sctp_transport is set
    dcm,           \* _data_channel_manager
    loops,         \* the send, cleaning, NACK and RTCP loops are in _scope
    closed         \* close() was called

sigVars   == <<signaling, local, remote, draft, controlling>>
appVars   == <<needSctp, hasAv>>
iceVars   == <<trickle, gathering, gatherTask>>
applyVars == <<rolesSet, applying, cancelled>>
taskVars  == <<connState, task, posted, active, loops>>
mediaVars == <<srtp, sctp, dcm>>
vars == <<sigVars, appVars, iceVars, applyVars, taskVars, mediaVars, transports, closed>>

-----------------------------------------------------------------------------
SignalingStates == {"stable", "have_local_offer", "have_remote_offer",
                    "have_local_pranswer", "have_remote_pranswer"}
Negotiated      == {"have_local_pranswer", "have_remote_pranswer"}
ConnStates      == {"init", "connecting", "connected", "failed", "closed"}
Awaits          == {"gather", "ice", "dtls", "sctp"}

Desc == [type : {"offer", "answer"}, setup : {"actpass", "active", "passive", "none"},
         media : SUBSET {"av", "app"}, bundle : BOOLEAN, trickle : BOOLEAN, cands : BOOLEAN]

NoDesc == [type |-> "none"]

\* What create_offer and create_answer write: an offer leaves the DTLS role
\* open, an answer settles it.
LocalDesc == {d \in Desc : d.setup \in IF d.type = "offer" THEN {"actpass"} ELSE {"active", "passive"}}

ASSUME RemoteDescsAssumption == RemoteDescs \subseteq Desc
ASSUME StopOnResumeAssumption == StopOnResume \in BOOLEAN

TypeOK ==
    /\ signaling \in SignalingStates
    /\ local \in LocalDesc \cup {NoDesc} /\ draft \in LocalDesc \cup {NoDesc}
    /\ remote \in Desc \cup {NoDesc}
    /\ rolesSet \in BOOLEAN /\ needSctp \in BOOLEAN /\ hasAv \in BOOLEAN
    /\ trickle \in BOOLEAN /\ controlling \in BOOLEAN
    /\ gathering \in {"init", "gathering", "complete"}
    /\ gatherTask \in {"none", "running", "done", "orphan"}
    /\ applying \in {"no", "set_local", "set_remote"} /\ cancelled \in BOOLEAN
    /\ connState \in ConnStates
    /\ task \in {"none", "done", "crashed"} \cup Awaits
    /\ posted \in {"none", "ok", "fail"} /\ active \in BOOLEAN
    /\ transports \in BOOLEAN /\ srtp \in BOOLEAN /\ sctp \in BOOLEAN
    /\ dcm \in {"none", "running", "stopped"}
    /\ loops \in BOOLEAN /\ closed \in BOOLEAN

Init ==
    /\ signaling = "stable"
    /\ local = NoDesc /\ remote = NoDesc /\ draft = NoDesc
    /\ rolesSet = FALSE /\ needSctp = FALSE /\ hasAv = FALSE
    /\ trickle \in BOOLEAN /\ controlling = FALSE
    /\ gathering = "init" /\ gatherTask = "none"
    /\ applying = "no" /\ cancelled = FALSE
    /\ connState = "init" /\ task = "none" /\ posted = "none" /\ active = FALSE
    /\ transports = FALSE /\ srtp = FALSE /\ sctp = FALSE /\ dcm = "none"
    /\ loops = FALSE /\ closed = FALSE

-----------------------------------------------------------------------------
(* The application's calls that only build descriptions.                   *)

AddTransceiver ==
    /\ hasAv' = TRUE
    /\ UNCHANGED <<sigVars, needSctp, iceVars, applyVars, taskVars, mediaVars, transports, closed>>

MutantCreateDataChannel ==
    /\ needSctp' = TRUE
    /\ UNCHANGED <<sigVars, hasAv, iceVars, applyVars, taskVars, mediaVars, transports, closed>>

CreateDataChannel ==
    /\ ~(rolesSet /\ ~sctp)
    /\ needSctp' = TRUE
    /\ UNCHANGED <<sigVars, hasAv, iceVars, applyVars, taskVars, mediaVars, transports, closed>>

\* The kinds of m-line of the next offer: those of the current local
\* description are kept, SCTP and new transceivers are added.
OfferMedia ==
    (IF local = NoDesc THEN {} ELSE local.media)
        \cup (IF hasAv THEN {"av"} ELSE {}) \cup (IF needSctp THEN {"app"} ELSE {})

CreateOffer ==
    /\ draft' = [type |-> "offer", setup |-> "actpass", media |-> OfferMedia,
                 bundle |-> OfferMedia # {}, trickle |-> TRUE, cands |-> FALSE]
    /\ UNCHANGED <<signaling, local, remote, controlling, appVars, iceVars, applyVars,
                   taskVars, mediaVars, transports, closed>>

\* setup_from: a description without a setup attribute counts as passive.
SetupFrom(d) == IF d.setup = "none" THEN "passive" ELSE d.setup

WeAreActive(d) == SetupFrom(d) # "active"

\* The answer repeats the role of the offer.
MutantEchoSetup(d) == SetupFrom(d)

\* The answer picks the other role.
MutantAnswerSetup(d) == IF SetupFrom(d) = "actpass" THEN "passive" ELSE "active"

AnswerSetup(d) == IF WeAreActive(d) THEN "active" ELSE "passive"

CreateAnswer ==
    /\ remote # NoDesc /\ signaling = "have_remote_offer"
    /\ draft' = [type |-> "answer", setup |-> AnswerSetup(remote), media |-> remote.media,
                 bundle |-> remote.media # {}, trickle |-> remote.trickle, cands |-> FALSE]
    /\ UNCHANGED <<signaling, local, remote, controlling, appVars, iceVars, applyVars,
                   taskVars, mediaVars, transports, closed>>

-----------------------------------------------------------------------------
(* set_local_description and set_remote_description.                       *)

\* Operations that have not finished keep the counting scope open.
Outstanding == gatherTask \in {"running", "orphan"} \/ task \in Awaits \/ loops

\* Once close() has started the join, the scope takes new work only while
\* old work is outstanding; a spawn it refuses never starts.
ScopeAccepts == ~closed \/ Outstanding

\* What the rest of the function does after apply_descriptions: set_local
\* starts gathering, and both start do_connect when both descriptions are
\* there.  do_connect runs up to its first co_await: it waits for gathering
\* first when the peer does not trickle.
StartGathering ==
    /\ gathering' = "gathering"
    /\ gatherTask' = IF ScopeAccepts THEN "running" ELSE "none"

StartConnecting(loc, rem) ==
    IF loc # NoDesc /\ rem # NoDesc /\ ScopeAccepts
    THEN /\ connState' = "connecting"
         /\ task' = IF ~trickle' /\ gatherTask' \in {"running", "done"} THEN "gather" ELSE "ice"
         /\ posted' = "none"
         /\ UNCHANGED <<active, loops>>
    ELSE UNCHANGED taskVars

\* Only set_local_description goes on to connect.
MutantAfterApply(call, loc, rem) ==
    IF call = "set_local"
    THEN StartGathering /\ StartConnecting(loc, rem)
    ELSE UNCHANGED <<gathering, gatherTask, taskVars>>

AfterApply(call, loc, rem) ==
    /\ IF call = "set_local" THEN StartGathering ELSE UNCHANGED <<gathering, gatherTask>>
    /\ StartConnecting(loc, rem)

\* apply_descriptions awaits the agent when the peer's description carries
\* candidates, or carries none and promises none.
Suspends(rem) == rem.cands \/ ~rem.trickle

\* A set_*_description call from apply_descriptions on.
ApplyDescriptions(call, loc, rem) ==
    IF rolesSet \/ loc = NoDesc \/ rem = NoDesc
    THEN /\ UNCHANGED <<applyVars, trickle, transports>>
         /\ AfterApply(call, loc, rem)
    ELSE /\ rolesSet' = TRUE /\ trickle' = rem.trickle /\ transports' = TRUE
         /\ UNCHANGED cancelled
         /\ IF Suspends(rem)
            THEN applying' = call /\ UNCHANGED <<gathering, gatherTask, taskVars>>
            ELSE applying' = "no" /\ AfterApply(call, loc, rem)

SetLocalDescription ==
    /\ draft # NoDesc
    /\ \/ /\ signaling = "stable" /\ draft.type = "offer"
          /\ signaling' = "have_local_offer"
       \/ /\ signaling = "have_remote_offer" /\ draft.type = "answer"
          /\ signaling' = "have_local_pranswer"
    /\ local' = draft /\ draft' = NoDesc
    /\ controlling' = (draft.type = "offer")
    /\ ApplyDescriptions("set_local", draft, remote)
    /\ UNCHANGED <<remote, appVars, mediaVars, closed>>

\* A second answer accepted after the first.
MutantSetRemoteDescription(d) ==
    /\ \/ /\ signaling = "stable" /\ d.type = "offer" /\ d.bundle
          /\ signaling' = "have_remote_offer"
       \/ /\ signaling \in {"have_local_offer", "have_remote_pranswer"} /\ d.type = "answer"
          /\ signaling' = "have_remote_pranswer"
    /\ remote' = d
    /\ controlling' = (d.type = "answer")
    /\ ApplyDescriptions("set_remote", local, d)
    /\ UNCHANGED <<local, draft, appVars, mediaVars, closed>>

SetRemoteDescription(d) ==
    /\ \/ /\ signaling = "stable" /\ d.type = "offer" /\ d.bundle
          /\ signaling' = "have_remote_offer"
       \/ /\ signaling = "have_local_offer" /\ d.type = "answer"
          /\ signaling' = "have_remote_pranswer"
    /\ remote' = d
    /\ controlling' = (d.type = "answer")
    /\ ApplyDescriptions("set_remote", local, d)
    /\ UNCHANGED <<local, draft, appVars, mediaVars, closed>>

\* The agent took the candidates: the suspended call goes on, with the
\* descriptions as they are now (close() may have dropped them).
ApplyCompletes ==
    /\ applying # "no"
    /\ applying' = "no" /\ UNCHANGED trickle
    /\ AfterApply(applying, local, remote)
    /\ UNCHANGED <<sigVars, appVars, rolesSet, cancelled, mediaVars, transports, closed>>

\* The application cancels the suspended call; nothing after the co_await runs.
CancelApply ==
    /\ applying # "no"
    /\ applying' = "no" /\ cancelled' = TRUE
    /\ UNCHANGED <<sigVars, appVars, iceVars, rolesSet, taskVars, mediaVars, transports, closed>>

-----------------------------------------------------------------------------
(* Candidate gathering.                                                    *)

\* do_on_candidates with candidates: they become part of the local description.
LocalCandidates ==
    /\ gatherTask = "running" /\ local # NoDesc
    /\ local' = [local EXCEPT !.cands = TRUE]
    /\ UNCHANGED <<signaling, remote, draft, controlling, appVars, iceVars, applyVars,
                   taskVars, mediaVars, transports, closed>>

\* do_on_candidates with none: the agent reports the end of its candidates,
\* before the gathering operation itself completes.
EndOfCandidates ==
    /\ gatherTask = "running" /\ gathering = "gathering"
    /\ gathering' = "complete"
    /\ UNCHANGED <<sigVars, appVars, trickle, gatherTask, applyVars, taskVars, mediaVars,
                   transports, closed>>

\* gather_candidates completes, or is stopped after close().
GatherCompletes ==
    /\ \/ gatherTask = "running" /\ gatherTask' = "done" /\ gathering' = "complete"
       \/ gatherTask = "orphan" /\ gatherTask' = "none" /\ gathering' \in {gathering, "complete"}
    /\ UNCHANGED <<sigVars, appVars, trickle, applyVars, taskVars, mediaVars, transports, closed>>

-----------------------------------------------------------------------------
(* do_connect.                                                             *)

\* The operation do_connect awaits ends; its resumption is queued.  After
\* close() an operation that had not succeeded no longer does.
OperationCompletes(ok) ==
    /\ task \in {"ice", "dtls", "sctp"} /\ posted = "none"
    /\ ok => ~closed
    /\ posted' = IF ok THEN "ok" ELSE "fail"
    /\ UNCHANGED <<sigVars, appVars, iceVars, applyVars, connState, task, active, loops,
                   mediaVars, transports, closed>>

\* The guard of every resumption: the stop request has not taken effect.
Resumes(step, result) ==
    /\ task = step /\ posted = result
    /\ ~(closed /\ StopOnResume)

\* do_connect returns without its on_exit guard.
MutantExitTask(state) ==
    /\ task' = "done" /\ posted' = "none"
    /\ connState' = state

\* do_connect returns or is unwound: on_exit turns connecting into failed.
ExitTask(state) ==
    /\ task' = "done" /\ posted' = "none"
    /\ connState' = IF state = "connecting" THEN "failed" ELSE state

ResumeGather ==
    /\ task = "gather" /\ gatherTask = "done" /\ ~(closed /\ StopOnResume)
    /\ task' = "ice" /\ gatherTask' = "none"
    /\ UNCHANGED <<sigVars, appVars, trickle, gathering, applyVars, connState, posted, active,
                   loops, mediaVars, transports, closed>>

\* ICE is connected: the loops start and the DTLS role is read from the
\* remote description, which is dereferenced without a check.
ResumeIce ==
    /\ Resumes("ice", "ok")
    /\ loops' = TRUE /\ posted' = "none"
    /\ IF remote = NoDesc
       THEN task' = "crashed" /\ UNCHANGED active
       ELSE task' = "dtls" /\ active' = WeAreActive(remote)
    /\ UNCHANGED <<sigVars, appVars, iceVars, applyVars, connState, mediaVars, transports, closed>>

NeedsSrtp == remote # NoDesc /\ "av" \in remote.media
NeedsSctp == needSctp \/ (remote # NoDesc /\ "app" \in remote.media)

\* DTLS is up; keys says whether the handshake negotiated an SRTP profile.
ResumeDtls(keys) ==
    /\ Resumes("dtls", "ok")
    /\ srtp' = (srtp \/ (NeedsSrtp /\ keys))
    /\ IF ~NeedsSctp
       THEN ExitTask("connected") /\ UNCHANGED sctp
       ELSE /\ sctp' = TRUE /\ posted' = "none"
            /\ task' = IF transports THEN "sctp" ELSE "crashed"
            /\ UNCHANGED connState
    /\ UNCHANGED <<sigVars, appVars, iceVars, applyVars, active, loops, dcm, transports, closed>>

ResumeSctp ==
    /\ Resumes("sctp", "ok")
    /\ IF sctp
       THEN dcm' = "running" /\ ExitTask("connected")
       ELSE task' = "crashed" /\ UNCHANGED <<dcm, connState, posted>>
    /\ UNCHANGED <<sigVars, appVars, iceVars, applyVars, active, loops, srtp, sctp, transports, closed>>

\* An operation failed: do_connect returns.
ResumeFailed ==
    /\ \E step \in {"ice", "dtls", "sctp"} : Resumes(step, "fail")
    /\ ExitTask(connState)
    /\ UNCHANGED <<sigVars, appVars, iceVars, applyVars, active, loops, mediaVars, transports, closed>>

\* The stop request reaches the suspended do_connect and unwinds it.
StopTask ==
    /\ closed /\ task \in Awaits
    /\ posted # "none" => StopOnResume
    /\ ExitTask(connState)
    /\ UNCHANGED <<sigVars, appVars, iceVars, applyVars, active, loops, mediaVars, transports, closed>>

\* The loops see the stop request.
StopLoops ==
    /\ closed /\ loops
    /\ loops' = FALSE
    /\ UNCHANGED <<sigVars, appVars, iceVars, applyVars, connState, task, posted, active,
                   mediaVars, transports, closed>>

-----------------------------------------------------------------------------
CloseEffects ==
    /\ connState' = "closed"
    /\ transports' = FALSE /\ srtp' = FALSE /\ sctp' = FALSE
    /\ dcm' = IF dcm = "none" THEN "none" ELSE "stopped"
    /\ hasAv' = FALSE
    /\ local' = NoDesc /\ remote' = NoDesc
    /\ gatherTask' = IF gatherTask \in {"running", "orphan"} THEN "orphan" ELSE "none"
    /\ UNCHANGED <<signaling, draft, controlling, needSctp, trickle, gathering, applyVars,
                   task, posted, active, loops>>

\* close() without _scope.request_stop().
MutantClose == CloseEffects /\ UNCHANGED closed

Close == CloseEffects /\ closed' = TRUE

AppNext ==
    \/ AddTransceiver \/ CreateDataChannel \/ CreateOffer \/ CreateAnswer
    \/ SetLocalDescription \/ CancelApply \/ Close

\* What the executor runs by itself.
ExecNext ==
    \/ ApplyCompletes \/ EndOfCandidates \/ GatherCompletes
    \/ ResumeGather \/ ResumeIce \/ (\E keys \in BOOLEAN : ResumeDtls(keys)) \/ ResumeSctp
    \/ ResumeFailed \/ StopTask \/ StopLoops

Next ==
    \/ AppNext
    \/ \E d \in RemoteDescs : SetRemoteDescription(d)
    \/ LocalCandidates
    \/ ExecNext
    \/ \E ok \in BOOLEAN : OperationCompletes(ok)

\* do_connect waits for the peer to begin: async_handshake as DTLS server, or
\* accept() of an SCTP association.  It has sent nothing that it could repeat
\* and give up on, and no timer runs.
WaitsForPeer ==
    /\ posted = "none"
    /\ \/ task = "dtls" /\ ~active
       \/ task = "sctp" /\ active

\* The executor keeps running.  An operation that we begin ends: ICE has a
\* connectivity_check_timeout, and a DTLS client and an SCTP connect() give
\* up after their retransmissions.  The peer and the application owe nothing.
Fairness ==
    /\ WF_vars(ExecNext)
    /\ WF_vars(~WaitsForPeer /\ \E ok \in BOOLEAN : OperationCompletes(ok))

Spec == Init /\ [][Next]_vars
FairSpec == Spec /\ Fairness

-----------------------------------------------------------------------------
(* Properties.                                                             *)

LC == INSTANCE ConnectionLifecycle WITH signaling <- signaling, connState <- connState

\* The connection does what ConnectionLifecycle promises: signalling only
\* moves forward, a connection attempt starts once, only when both sides
\* have been described, and close() is final whatever set_*_description or
\* do_connect was suspended when it ran.
ImplementsLifecycle == LC!Spec

\* A connected connection has what it negotiated: the ICE and DTLS
\* transports, and a running data channel manager whenever the peer offered
\* m=application or create_data_channel handed out a channel, even when that
\* call came while the connection was being set up.
ConnectedIsComplete ==
    connState = "connected" =>
        /\ transports
        /\ needSctp \/ (remote # NoDesc /\ "app" \in remote.media) => dcm = "running"

\* do_connect never resumes on state that close() has torn down: it reads
\* *_remote_desc after the ICE await and builds on _dtls_transport and
\* _sctp_transport after the later ones.
NoDanglingResume == task # "crashed"

TaskRank(t) == CASE t = "none" -> 0 [] t = "gather" -> 1 [] t = "ice" -> 2
                 [] t = "dtls" -> 3 [] t = "sctp" -> 4 [] OTHER -> 5

\* There is one do_connect: no later description restarts it or puts a second
\* one beside it (both would drive the same transports).
AttemptOnlyAdvances == [][TaskRank(task') >= TaskRank(task)]_vars

\* The DTLS role do_connect plays is the one the answer announced, although
\* the answer was written by create_answer and the role is computed again
\* from _remote_desc after ICE connected.
AdvertisedRoleIsPlayed ==
    task \in {"dtls", "sctp"} /\ local # NoDesc /\ local.type = "answer"
        => active = (local.setup = "active")

\* An attempt ends, connected, failed or closed, unless it has come to a
\* point where do_connect waits for the peer to begin; from there it may show
\* connecting for ever.  After close() do_connect ends wherever it waits.
ConnectingEnds ==
    /\ connState = "connecting" ~> (connState # "connecting" \/ WaitsForPeer)
    /\ closed ~> task \notin Awaits

\* Once both descriptions are accepted do_connect is started, unless the
\* application cancels the call that was applying them (the signalling state
\* has moved on by then, so no later call can start it either).
DescriptionsStartConnect ==
    local # NoDesc /\ remote # NoDesc ~> connState # "init" \/ cancelled
=============================================================================
