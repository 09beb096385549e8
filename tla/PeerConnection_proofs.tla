----------------------- MODULE PeerConnection_proofs ------------------------
(***************************************************************************)
(* Proofs about PeerConnection, for every set of remote descriptions.  All *)
(* but type correctness rest on the assumption that a stop request also    *)
(* reaches a coroutine whose resumption is already queued (StopOnResume).  *)
(***************************************************************************)
EXTENDS PeerConnection, TLAPS

(***************************************************************************)
(* The inductive invariant, part by part.                                  *)
(***************************************************************************)
\* The connection state follows do_connect until close() and is final after it.
StateFollowsTask ==
    /\ closed => connState = "closed"
    /\ ~closed => /\ connState # "closed"
                  /\ connState = "init" <=> task = "none"
                  /\ connState = "connecting" <=> task \in Awaits

\* do_connect and a suspended apply exist only once signalling has ended,
\* and never together before do_connect is started.
TaskAfterSignaling ==
    /\ task # "none" => signaling \in Negotiated
    /\ applying # "no" => signaling \in Negotiated /\ task = "none" /\ rolesSet
    /\ signaling = "stable" => local = NoDesc /\ remote = NoDesc /\ gatherTask = "none"
    /\ loops => task # "none"

\* While work outlives close(), the descriptions close() dropped are not
\* both back, so no second attempt can slip into the scope being joined.
NoRestartWhileClosing ==
    /\ closed /\ task # "none" => local = NoDesc /\ remote = NoDesc
    /\ closed /\ Outstanding =>
          /\ signaling = "have_local_offer" => local = NoDesc
          /\ signaling = "have_remote_offer" => remote = NoDesc
          /\ signaling \in Negotiated => local = NoDesc \/ remote = NoDesc

\* What do_connect finds when it is resumed.
TaskHasItsState ==
    /\ task # "crashed"
    /\ ~closed /\ task # "none" => local # NoDesc /\ remote # NoDesc /\ rolesSet
    /\ ~closed /\ rolesSet => transports
    /\ ~closed /\ task \in {"none", "gather", "ice", "dtls"} => ~sctp
    /\ ~closed /\ task = "sctp" => sctp
    /\ connState = "connected" => (NeedsSctp => sctp) /\ (sctp => dcm = "running")

\* An answer, in the application's hands or set, settles the role from the
\* remote description still in place, and do_connect has played that role.
AnswersMatch ==
    /\ draft.type = "answer" => signaling = "have_remote_offer"
    /\ local.type = "answer" => signaling = "have_local_pranswer"
    /\ ~closed /\ draft.type = "answer" => draft.setup = AnswerSetup(remote)
    /\ ~closed /\ local.type = "answer" => local.setup = AnswerSetup(remote)
    /\ ~closed /\ task \in {"dtls", "sctp"} => active = WeAreActive(remote)

IInv ==
    /\ TypeOK
    /\ StateFollowsTask
    /\ TaskAfterSignaling
    /\ NoRestartWhileClosing
    /\ TaskHasItsState
    /\ AnswersMatch

-----------------------------------------------------------------------------
(***************************************************************************)
(* Descriptions.                                                           *)
(***************************************************************************)
\* A real description is never mistaken for a missing one.
LEMMA DescIsSomething == \A d \in Desc : d # NoDesc /\ d.type \in {"offer", "answer"}
BY DEF Desc, NoDesc

\* create_answer settles the role, whatever the offer's setup attribute says.
LEMMA AnswerSetupSettles == ASSUME NEW d \in Desc PROVE AnswerSetup(d) \in {"active", "passive"}
BY DEF AnswerSetup

\* Adding candidates to a local description leaves the rest of it alone.
LEMMA CandidatesKeepDesc ==
    ASSUME NEW d \in LocalDesc
    PROVE  LET e == [d EXCEPT !.cands = TRUE]
           IN  e \in LocalDesc /\ e.type = d.type /\ e.setup = d.setup /\ e.media = d.media
BY DEF LocalDesc, Desc

(***************************************************************************)
(* Type correctness.                                                       *)
(***************************************************************************)
\* The initial state has the right types.
LEMMA TypeInit == Init => TypeOK
BY DEF Init, TypeOK, SignalingStates, ConnStates

\* The values of the variables that set_*_description may change.
ApplyTypes ==
    /\ rolesSet \in BOOLEAN /\ applying \in {"no", "set_local", "set_remote"}
    /\ cancelled \in BOOLEAN
    /\ trickle \in BOOLEAN /\ transports \in BOOLEAN
    /\ gathering \in {"init", "gathering", "complete"}
    /\ gatherTask \in {"none", "running", "done", "orphan"}
    /\ connState \in ConnStates
    /\ task \in {"none", "done", "crashed"} \cup Awaits
    /\ posted \in {"none", "ok", "fail"} /\ active \in BOOLEAN /\ loops \in BOOLEAN

\* start_gathering and start_connecting keep the types of what they assign.
LEMMA AfterApplyKeepsTypes ==
    ASSUME ApplyTypes, NEW loc, NEW rem, NEW call \in {"set_local", "set_remote"},
           AfterApply(call, loc, rem)
    PROVE  /\ gathering' \in {"init", "gathering", "complete"}
           /\ gatherTask' \in {"none", "running", "done", "orphan"}
           /\ connState' \in ConnStates
           /\ task' \in {"none", "done", "crashed"} \cup Awaits
           /\ posted' \in {"none", "ok", "fail"} /\ active' \in BOOLEAN /\ loops' \in BOOLEAN
<1>1. /\ gathering' \in {"init", "gathering", "complete"}
      /\ gatherTask' \in {"none", "running", "done", "orphan"}
  BY DEF AfterApply, StartGathering, ApplyTypes
<1>2. /\ connState' \in ConnStates
      /\ task' \in {"none", "done", "crashed"} \cup Awaits
      /\ posted' \in {"none", "ok", "fail"} /\ active' \in BOOLEAN /\ loops' \in BOOLEAN
  BY DEF AfterApply, StartConnecting, ApplyTypes, taskVars, ConnStates, Awaits
<1> QED BY <1>1, <1>2

\* apply_descriptions and what follows it keep the types of what they assign.
LEMMA ApplyKeepsTypes ==
    ASSUME ApplyTypes, NEW loc, NEW rem \in Desc \cup {NoDesc},
           NEW call \in {"set_local", "set_remote"}, ApplyDescriptions(call, loc, rem)
    PROVE  ApplyTypes'
<1>1. CASE rolesSet \/ loc = NoDesc \/ rem = NoDesc
  BY <1>1, AfterApplyKeepsTypes DEF ApplyDescriptions, ApplyTypes, applyVars
<1>2. CASE ~(rolesSet \/ loc = NoDesc \/ rem = NoDesc)
  <2>1. rem.trickle \in BOOLEAN
    BY <1>2 DEF Desc
  <2>2. CASE Suspends(rem)
    BY <1>2, <2>1, <2>2 DEF ApplyDescriptions, ApplyTypes, taskVars
  <2>3. CASE ~Suspends(rem)
    BY <1>2, <2>1, <2>3, AfterApplyKeepsTypes DEF ApplyDescriptions, ApplyTypes
  <2> QED BY <2>2, <2>3
<1> QED BY <1>1, <1>2

\* Every step keeps the types.
LEMMA TypeStep == ASSUME TypeOK, [Next]_vars PROVE TypeOK'
<1> USE RemoteDescsAssumption
<1>a. ApplyTypes
  BY DEF TypeOK, ApplyTypes
<1>b. OfferMedia \in SUBSET {"av", "app"}
  BY DEF OfferMedia, TypeOK, LocalDesc, Desc
<1>1. CASE AddTransceiver
  BY <1>1 DEF AddTransceiver, TypeOK, sigVars, iceVars, applyVars, taskVars, mediaVars
<1>2. CASE CreateDataChannel
  BY <1>2 DEF CreateDataChannel, TypeOK, sigVars, iceVars, applyVars, taskVars, mediaVars
<1>3. CASE CreateOffer
  <2>1. draft' \in LocalDesc
    BY <1>3, <1>b DEF CreateOffer, LocalDesc, Desc
  <2> QED
    BY <1>3, <2>1 DEF CreateOffer, TypeOK, appVars, iceVars, applyVars, taskVars, mediaVars
<1>4. CASE CreateAnswer
  <2>1. remote \in Desc
    BY <1>4 DEF CreateAnswer, TypeOK
  <2>2. draft' \in LocalDesc
    BY <1>4, <2>1, AnswerSetupSettles DEF CreateAnswer, LocalDesc, Desc
  <2> QED
    BY <1>4, <2>2 DEF CreateAnswer, TypeOK, appVars, iceVars, applyVars, taskVars, mediaVars
<1>5. CASE SetLocalDescription
  <2>1. ApplyTypes'
    BY <1>5, <1>a, ApplyKeepsTypes DEF SetLocalDescription, TypeOK
  <2> QED
    BY <1>5, <2>1 DEF SetLocalDescription, TypeOK, ApplyTypes, SignalingStates, appVars,
           mediaVars
<1>6. ASSUME NEW d \in RemoteDescs, SetRemoteDescription(d) PROVE TypeOK'
  <2>1. ApplyTypes'
    BY <1>6, <1>a, ApplyKeepsTypes DEF SetRemoteDescription
  <2> QED
    BY <1>6, <2>1 DEF SetRemoteDescription, TypeOK, ApplyTypes, SignalingStates, appVars,
           mediaVars
<1>7. CASE ApplyCompletes
  <2>1. applying \in {"set_local", "set_remote"} /\ AfterApply(applying, local, remote)
    BY <1>7 DEF ApplyCompletes, TypeOK
  <2>2. ApplyTypes'
    BY <1>7, <1>a, <2>1, AfterApplyKeepsTypes DEF ApplyCompletes, ApplyTypes
  <2> QED
    BY <1>7, <2>2 DEF ApplyCompletes, TypeOK, ApplyTypes, sigVars, appVars, mediaVars
<1>8. CASE CancelApply
  BY <1>8 DEF CancelApply, TypeOK, sigVars, appVars, iceVars, taskVars, mediaVars
<1>9. CASE LocalCandidates
  <2>1. local' \in LocalDesc
    BY <1>9, CandidatesKeepDesc DEF LocalCandidates, TypeOK
  <2> QED
    BY <1>9, <2>1 DEF LocalCandidates, TypeOK, appVars, iceVars, applyVars, taskVars, mediaVars
<1>10. CASE EndOfCandidates
  BY <1>10 DEF EndOfCandidates, TypeOK, sigVars, appVars, applyVars, taskVars, mediaVars
<1>11. CASE GatherCompletes
  BY <1>11 DEF GatherCompletes, TypeOK, sigVars, appVars, applyVars, taskVars, mediaVars
<1>12. ASSUME NEW ok \in BOOLEAN, OperationCompletes(ok) PROVE TypeOK'
  BY <1>12 DEF OperationCompletes, TypeOK, sigVars, appVars, iceVars, applyVars, mediaVars
<1>13. CASE ResumeGather
  BY <1>13 DEF ResumeGather, TypeOK, sigVars, appVars, applyVars, mediaVars, Awaits
<1>14. CASE ResumeIce
  <2>1. loops' \in BOOLEAN /\ active' \in BOOLEAN /\ posted' \in {"none", "ok", "fail"}
    BY <1>14 DEF ResumeIce, WeAreActive, TypeOK
  <2>2. task' \in {"none", "done", "crashed"} \cup Awaits
    BY <1>14 DEF ResumeIce, Awaits
  <2> QED
    BY <1>14, <2>1, <2>2 DEF ResumeIce, TypeOK, sigVars, appVars, iceVars, applyVars, mediaVars
<1>15. ASSUME NEW keys \in BOOLEAN, ResumeDtls(keys) PROVE TypeOK'
  <2>1. srtp' \in BOOLEAN
    BY <1>15 DEF ResumeDtls, NeedsSrtp, TypeOK
  <2>2. /\ sctp' \in BOOLEAN /\ posted' \in {"none", "ok", "fail"} /\ connState' \in ConnStates
        /\ task' \in {"none", "done", "crashed"} \cup Awaits
    BY <1>15 DEF ResumeDtls, ExitTask, TypeOK, Awaits, ConnStates
  <2> QED
    BY <1>15, <2>1, <2>2 DEF ResumeDtls, TypeOK, sigVars, appVars, iceVars, applyVars
<1>16. CASE ResumeSctp
  BY <1>16 DEF ResumeSctp, ExitTask, TypeOK, sigVars, appVars, iceVars, applyVars, Awaits,
         ConnStates
<1>17. CASE ResumeFailed
  BY <1>17 DEF ResumeFailed, ExitTask, TypeOK, sigVars, appVars, iceVars, applyVars,
         mediaVars, ConnStates
<1>18. CASE StopTask
  BY <1>18 DEF StopTask, ExitTask, TypeOK, sigVars, appVars, iceVars, applyVars, mediaVars,
         ConnStates
<1>19. CASE StopLoops
  <2>1. loops' \in BOOLEAN
    BY <1>19 DEF StopLoops
  <2> QED
    BY <1>19, <2>1 DEF StopLoops, TypeOK, sigVars, appVars, iceVars, applyVars, mediaVars
<1>20. CASE Close
  <2>1. /\ connState' \in ConnStates
        /\ dcm' \in {"none", "running", "stopped"}
        /\ gatherTask' \in {"none", "running", "done", "orphan"}
    BY <1>20 DEF Close, CloseEffects, TypeOK, ConnStates
  <2>2. /\ transports' \in BOOLEAN /\ srtp' \in BOOLEAN /\ sctp' \in BOOLEAN
        /\ hasAv' \in BOOLEAN /\ closed' \in BOOLEAN
    BY <1>20 DEF Close, CloseEffects
  <2>3. /\ local' = NoDesc /\ remote' = NoDesc
        /\ UNCHANGED <<signaling, draft, controlling, needSctp, trickle, gathering, rolesSet,
                       applying, cancelled, task, posted, active, loops>>
    BY <1>20 DEF Close, CloseEffects, applyVars
  <2> QED
    BY <2>1, <2>2, <2>3 DEF TypeOK
<1>21. CASE UNCHANGED vars
  BY <1>21 DEF vars, TypeOK, sigVars, appVars, iceVars, applyVars, taskVars, mediaVars
<1> QED
  BY <1>1, <1>2, <1>3, <1>4, <1>5, <1>6, <1>7, <1>8, <1>9, <1>10,
     <1>11, <1>12, <1>13, <1>14, <1>15, <1>16, <1>17, <1>18, <1>19, <1>20, <1>21 DEF Next, AppNext, ExecNext

\* Every state of the connection is well typed, whatever the peer sends and
\* whenever the scope stops its coroutines; in particular the descriptions
\* the application may send are valid ones: an offer leaves the DTLS role
\* open and an answer never does.
THEOREM TypeCorrect == Spec => []TypeOK
BY TypeInit, TypeStep, PTL DEF Spec

-----------------------------------------------------------------------------
(***************************************************************************)
(* The safety invariant.                                                   *)
(***************************************************************************)
\* What is left of IInv besides the types.
Safe ==
    /\ StateFollowsTask
    /\ TaskAfterSignaling
    /\ NoRestartWhileClosing
    /\ TaskHasItsState
    /\ AnswersMatch

\* What set_*_description may do to do_connect and to gathering: nothing, or
\* start it, which takes both descriptions and a scope that accepts work.
ConnectEffect(loc, rem) ==
    /\ \/ UNCHANGED taskVars
       \/ /\ loc # NoDesc /\ rem # NoDesc /\ ScopeAccepts
          /\ connState' = "connecting" /\ task' \in {"gather", "ice"}
          /\ UNCHANGED <<active, loops>>
    /\ \/ gatherTask' \in {gatherTask, "none"}
       \/ ScopeAccepts /\ gatherTask' = "running"

\* start_gathering and start_connecting do what ConnectEffect says.
LEMMA AfterApplyEffect ==
    ASSUME NEW call, NEW loc, NEW rem, AfterApply(call, loc, rem)
    PROVE  ConnectEffect(loc, rem)
BY DEF AfterApply, StartGathering, StartConnecting, ConnectEffect, taskVars

\* What a set_*_description call does from apply_descriptions on, whether it
\* suspends or not.
LEMMA ApplyEffect ==
    ASSUME NEW call, NEW loc, NEW rem, ApplyDescriptions(call, loc, rem)
    PROVE  /\ ConnectEffect(loc, rem)
           /\ \/ loc # NoDesc /\ rem # NoDesc /\ rolesSet' = TRUE
              \/ (loc = NoDesc \/ rem = NoDesc) /\ UNCHANGED rolesSet
           /\ \/ transports' = TRUE
              \/ UNCHANGED <<rolesSet, transports>>
           /\ \/ applying' \in {applying, "no"}
              \/ loc # NoDesc /\ rem # NoDesc /\ UNCHANGED taskVars
<1>1. CASE rolesSet \/ loc = NoDesc \/ rem = NoDesc
  BY <1>1, AfterApplyEffect DEF ApplyDescriptions, applyVars
<1>2. CASE ~(rolesSet \/ loc = NoDesc \/ rem = NoDesc)
  BY <1>2, AfterApplyEffect DEF ApplyDescriptions, ConnectEffect
<1> QED BY <1>1, <1>2

\* A description arrives: loc and rem are the descriptions after the call.
LEMMA DescribeEffect ==
    ASSUME TypeOK, Safe, NEW call, NEW loc, NEW rem, ApplyDescriptions(call, loc, rem),
           signaling \notin Negotiated,
           signaling = "stable" => loc = NoDesc \/ rem = NoDesc,
           signaling = "have_local_offer" => loc = local,
           signaling = "have_remote_offer" => rem = remote
    PROVE  /\ task = "none" /\ applying = "no" /\ ~loops /\ loops' = loops
           /\ \/ UNCHANGED <<connState, task>>
              \/ /\ ~closed /\ loc # NoDesc /\ rem # NoDesc
                 /\ connState' = "connecting" /\ task' \in {"gather", "ice"}
           /\ applying' # "no" => loc # NoDesc /\ rem # NoDesc /\ rolesSet' /\ task' = "none"
           /\ task' # "none" => rolesSet'
           /\ ~closed /\ rolesSet' => transports'
           /\ closed /\ gatherTask' \in {"running", "orphan"} => Outstanding
<1>1. task = "none" /\ applying = "no" /\ ~loops
  BY DEF Safe, TaskAfterSignaling
<1>2. closed /\ ScopeAccepts => loc = NoDesc \/ rem = NoDesc
  <2> SUFFICES ASSUME closed, ScopeAccepts PROVE loc = NoDesc \/ rem = NoDesc
    OBVIOUS
  <2>1. Outstanding
    BY DEF ScopeAccepts
  <2> QED
    BY <2>1 DEF Safe, NoRestartWhileClosing, TypeOK, SignalingStates, Negotiated
<1>3. loops' = loops
  BY ApplyEffect DEF ConnectEffect, taskVars
<1>4. \/ UNCHANGED <<connState, task>>
      \/ /\ ~closed /\ loc # NoDesc /\ rem # NoDesc
         /\ connState' = "connecting" /\ task' \in {"gather", "ice"}
  BY <1>2, ApplyEffect DEF ConnectEffect, taskVars
<1>5. applying' # "no" => loc # NoDesc /\ rem # NoDesc /\ rolesSet' /\ task' = "none"
  BY <1>1, ApplyEffect DEF taskVars
<1>6. task' # "none" => rolesSet'
  BY <1>1, <1>4, ApplyEffect
<1>7. ~closed /\ rolesSet' => transports'
  BY ApplyEffect DEF Safe, TaskHasItsState
<1>8. closed /\ gatherTask' \in {"running", "orphan"} => Outstanding
  BY ApplyEffect DEF ConnectEffect, ScopeAccepts, Outstanding
<1> QED BY <1>1, <1>3, <1>4, <1>5, <1>6, <1>7, <1>8

\* The initial state satisfies the safety part of the invariant.
LEMMA SafeInit == Init => Safe
BY DEF Init, Safe, StateFollowsTask, TaskAfterSignaling, NoRestartWhileClosing, TaskHasItsState,
       AnswersMatch, Outstanding, Awaits, Negotiated, NoDesc, NeedsSctp

\* Every step keeps the safety part of the invariant; one case per action.
LEMMA SafeStep == ASSUME StopOnResume, TypeOK, Safe, [Next]_vars PROVE Safe'
<1> USE RemoteDescsAssumption
<1>1. CASE AddTransceiver
  BY <1>1 DEF AddTransceiver, Safe, StateFollowsTask, TaskAfterSignaling,
         NoRestartWhileClosing, TaskHasItsState, AnswersMatch, Outstanding, NeedsSctp,
         sigVars, iceVars, applyVars, taskVars, mediaVars
<1>2. CASE CreateDataChannel
  BY <1>2 DEF CreateDataChannel, Safe, StateFollowsTask, TaskAfterSignaling,
         NoRestartWhileClosing, TaskHasItsState, AnswersMatch, Outstanding, NeedsSctp,
         sigVars, iceVars, applyVars, taskVars, mediaVars
<1>3. CASE CreateOffer
  <2>1. StateFollowsTask'
    BY <1>3 DEF CreateOffer, Safe, StateFollowsTask, Awaits, taskVars
  <2>2. TaskAfterSignaling'
    BY <1>3 DEF CreateOffer, Safe, TaskAfterSignaling, Negotiated, iceVars, applyVars, taskVars
  <2>3. NoRestartWhileClosing'
    BY <1>3 DEF CreateOffer, Safe, NoRestartWhileClosing, Outstanding, Awaits, iceVars, taskVars
  <2>4. TaskHasItsState'
    BY <1>3 DEF CreateOffer, Safe, TaskHasItsState, NeedsSctp, appVars, applyVars, taskVars,
           mediaVars
  <2>5. AnswersMatch'
    BY <1>3 DEF CreateOffer, Safe, AnswersMatch, taskVars, mediaVars
  <2> QED BY <2>1, <2>2, <2>3, <2>4, <2>5 DEF Safe
<1>4. CASE CreateAnswer
  <2>1. StateFollowsTask'
    BY <1>4 DEF CreateAnswer, Safe, StateFollowsTask, Awaits, taskVars
  <2>2. TaskAfterSignaling'
    BY <1>4 DEF CreateAnswer, Safe, TaskAfterSignaling, Negotiated, iceVars, applyVars, taskVars
  <2>3. NoRestartWhileClosing'
    BY <1>4 DEF CreateAnswer, Safe, NoRestartWhileClosing, Outstanding, Awaits, iceVars,
           taskVars
  <2>4. TaskHasItsState'
    BY <1>4 DEF CreateAnswer, Safe, TaskHasItsState, NeedsSctp, appVars, applyVars, taskVars,
           mediaVars
  <2>5. AnswersMatch'
    BY <1>4 DEF CreateAnswer, Safe, AnswersMatch, taskVars, mediaVars
  <2> QED BY <2>1, <2>2, <2>3, <2>4, <2>5 DEF Safe
<1>5. CASE SetLocalDescription
  <2>1. /\ signaling \notin Negotiated /\ local' = draft /\ remote' = remote /\ draft' = NoDesc
        /\ ApplyDescriptions("set_local", draft, remote)
        /\ UNCHANGED <<closed, sctp, dcm, needSctp>>
        /\ \/ signaling = "stable" /\ draft.type = "offer" /\ signaling' = "have_local_offer"
           \/ signaling = "have_remote_offer" /\ draft.type = "answer"
              /\ signaling' = "have_local_pranswer"
    BY <1>5 DEF SetLocalDescription, Negotiated, mediaVars, appVars
  <2>2. signaling = "stable" => remote = NoDesc
    BY DEF Safe, TaskAfterSignaling
  <2>3. signaling # "have_local_offer"
    BY <2>1
  <2> DEFINE Effect ==
        /\ task = "none" /\ applying = "no" /\ ~loops /\ loops' = loops
        /\ \/ UNCHANGED <<connState, task>>
           \/ /\ ~closed /\ draft # NoDesc /\ remote # NoDesc
              /\ connState' = "connecting" /\ task' \in {"gather", "ice"}
        /\ applying' # "no" => draft # NoDesc /\ remote # NoDesc /\ rolesSet' /\ task' = "none"
        /\ task' # "none" => rolesSet'
        /\ ~closed /\ rolesSet' => transports'
        /\ closed /\ gatherTask' \in {"running", "orphan"} => Outstanding
  <2>4. Effect
    BY <2>1, <2>2, <2>3, DescribeEffect
  <2>5. StateFollowsTask'
    BY <2>1, <2>4 DEF Safe, StateFollowsTask, Awaits
  <2>6. TaskAfterSignaling'
    BY <2>1, <2>2, <2>4 DEF TaskAfterSignaling, Negotiated
  <2>7. NoRestartWhileClosing'
    BY <2>1, <2>4 DEF Safe, NoRestartWhileClosing, TaskAfterSignaling, Outstanding, Awaits, Negotiated
  <2>8. TaskHasItsState'
    BY <2>1, <2>4 DEF Safe, TaskHasItsState, StateFollowsTask, NeedsSctp
  <2>9. AnswersMatch'
    BY <2>1, <2>4 DEF Safe, AnswersMatch, NoDesc
  <2> QED BY <2>5, <2>6, <2>7, <2>8, <2>9 DEF Safe
<1>6. ASSUME NEW d \in RemoteDescs, SetRemoteDescription(d) PROVE Safe'
  <2>1. /\ signaling \notin Negotiated /\ local' = local /\ remote' = d /\ draft' = draft
        /\ ApplyDescriptions("set_remote", local, d)
        /\ UNCHANGED <<closed, sctp, dcm, needSctp>>
        /\ \/ signaling = "stable" /\ signaling' = "have_remote_offer"
           \/ signaling = "have_local_offer" /\ signaling' = "have_remote_pranswer"
    BY <1>6 DEF SetRemoteDescription, Negotiated, mediaVars, appVars
  <2>2. signaling = "stable" => local = NoDesc
    BY DEF Safe, TaskAfterSignaling
  <2>3. signaling # "have_remote_offer"
    BY <2>1
  <2> DEFINE Effect ==
        /\ task = "none" /\ applying = "no" /\ ~loops /\ loops' = loops
        /\ \/ UNCHANGED <<connState, task>>
           \/ /\ ~closed /\ local # NoDesc /\ d # NoDesc
              /\ connState' = "connecting" /\ task' \in {"gather", "ice"}
        /\ applying' # "no" => local # NoDesc /\ d # NoDesc /\ rolesSet' /\ task' = "none"
        /\ task' # "none" => rolesSet'
        /\ ~closed /\ rolesSet' => transports'
        /\ closed /\ gatherTask' \in {"running", "orphan"} => Outstanding
  <2>4. Effect
    BY <2>1, <2>2, <2>3, DescribeEffect
  <2>5. StateFollowsTask'
    BY <2>1, <2>4 DEF Safe, StateFollowsTask, Awaits
  <2>6. TaskAfterSignaling'
    BY <2>1, <2>2, <2>4 DEF TaskAfterSignaling, Negotiated
  <2>7. NoRestartWhileClosing'
    BY <2>1, <2>4 DEF Safe, NoRestartWhileClosing, TaskAfterSignaling, Outstanding, Awaits, Negotiated
  <2>8. TaskHasItsState'
    BY <2>1, <2>4 DEF Safe, TaskHasItsState, StateFollowsTask, NeedsSctp
  <2>9. AnswersMatch'
    BY <2>1, <2>4 DEF Safe, AnswersMatch
  <2> QED BY <2>5, <2>6, <2>7, <2>8, <2>9 DEF Safe
<1>7. CASE ApplyCompletes
  <2>1. /\ signaling \in Negotiated /\ task = "none" /\ rolesSet /\ applying' = "no"
        /\ UNCHANGED <<sigVars, appVars, rolesSet, mediaVars, transports, closed>>
        /\ ConnectEffect(local, remote)
    BY <1>7, AfterApplyEffect DEF ApplyCompletes, Safe, TaskAfterSignaling
  <2>2. \/ UNCHANGED <<connState, task>>
        \/ /\ ~closed /\ local # NoDesc /\ remote # NoDesc
           /\ connState' = "connecting" /\ task' \in {"gather", "ice"}
    BY <2>1 DEF ConnectEffect, taskVars, ScopeAccepts, Safe, NoRestartWhileClosing
  <2>3. closed /\ Outstanding' => Outstanding
    BY <2>1, <2>2 DEF ConnectEffect, taskVars, ScopeAccepts, Outstanding, Awaits
  <2>4. loops' = loops
    BY <2>1 DEF ConnectEffect, taskVars
  <2>5. StateFollowsTask'
    BY <2>1, <2>2 DEF Safe, StateFollowsTask, Awaits
  <2>6. TaskAfterSignaling'
    BY <2>1, <2>2, <2>4 DEF Safe, TaskAfterSignaling, Negotiated, sigVars
  <2>7. NoRestartWhileClosing'
    BY <2>1, <2>2, <2>3 DEF Safe, NoRestartWhileClosing, sigVars
  <2>8. TaskHasItsState'
    BY <2>1, <2>2 DEF Safe, TaskHasItsState, StateFollowsTask, NeedsSctp, sigVars, appVars, mediaVars
  <2>9. AnswersMatch'
    BY <2>1, <2>2 DEF Safe, AnswersMatch, sigVars
  <2> QED BY <2>5, <2>6, <2>7, <2>8, <2>9 DEF Safe
<1>8. CASE CancelApply
  BY <1>8 DEF CancelApply, Safe, StateFollowsTask, TaskAfterSignaling, NoRestartWhileClosing,
         TaskHasItsState, AnswersMatch, Outstanding, NeedsSctp, sigVars, appVars, iceVars,
         taskVars, mediaVars
<1>9. CASE LocalCandidates
  <2>1. /\ local # NoDesc /\ local' # NoDesc /\ local'.type = local.type /\ local'.setup = local.setup
        /\ gatherTask = "running"
        /\ UNCHANGED <<signaling, remote, draft, appVars, iceVars, applyVars, taskVars,
                       mediaVars, transports, closed>>
    <3>1. local \in LocalDesc /\ local' = [local EXCEPT !.cands = TRUE]
      BY <1>9 DEF LocalCandidates, TypeOK
    <3>2. local' \in LocalDesc /\ local'.type = local.type /\ local'.setup = local.setup
      BY <3>1, CandidatesKeepDesc
    <3> QED BY <1>9, <3>2, DescIsSomething DEF LocalCandidates, LocalDesc
  <2>2. StateFollowsTask'
    BY <2>1 DEF Safe, StateFollowsTask, taskVars
  <2>3. TaskAfterSignaling'
    BY <2>1 DEF Safe, TaskAfterSignaling, taskVars, applyVars, iceVars
  <2>4. NoRestartWhileClosing'
    BY <2>1 DEF Safe, NoRestartWhileClosing, Outstanding, taskVars, iceVars
  <2>5. TaskHasItsState'
    BY <2>1 DEF Safe, TaskHasItsState, NeedsSctp, taskVars, applyVars, appVars, mediaVars
  <2>6. AnswersMatch'
    BY <2>1 DEF Safe, AnswersMatch, taskVars
  <2> QED BY <2>2, <2>3, <2>4, <2>5, <2>6 DEF Safe
<1>10. CASE EndOfCandidates
  BY <1>10 DEF EndOfCandidates, Safe, StateFollowsTask, TaskAfterSignaling,
         NoRestartWhileClosing, TaskHasItsState, AnswersMatch, Outstanding, NeedsSctp,
         sigVars, appVars, applyVars, taskVars, mediaVars
<1>11. CASE GatherCompletes
  <2>1. StateFollowsTask'
    BY <1>11 DEF GatherCompletes, Safe, StateFollowsTask, Awaits, taskVars
  <2>2. TaskAfterSignaling'
    BY <1>11 DEF GatherCompletes, Safe, TaskAfterSignaling, Negotiated, sigVars, applyVars,
           taskVars
  <2>3. NoRestartWhileClosing'
    BY <1>11 DEF GatherCompletes, Safe, NoRestartWhileClosing, Outstanding, Awaits, sigVars,
           taskVars
  <2>4. TaskHasItsState'
    BY <1>11 DEF GatherCompletes, Safe, TaskHasItsState, NeedsSctp, sigVars, appVars,
           applyVars, taskVars, mediaVars
  <2>5. AnswersMatch'
    BY <1>11 DEF GatherCompletes, Safe, AnswersMatch, sigVars, taskVars, mediaVars
  <2> QED BY <2>1, <2>2, <2>3, <2>4, <2>5 DEF Safe
<1>12. ASSUME NEW ok \in BOOLEAN, OperationCompletes(ok) PROVE Safe'
  <2>1. StateFollowsTask'
    BY <1>12 DEF OperationCompletes, Safe, StateFollowsTask, Awaits
  <2>2. TaskAfterSignaling'
    BY <1>12 DEF OperationCompletes, Safe, TaskAfterSignaling, Negotiated, sigVars, iceVars,
           applyVars
  <2>3. NoRestartWhileClosing'
    BY <1>12 DEF OperationCompletes, Safe, NoRestartWhileClosing, Outstanding, Awaits,
           sigVars, iceVars
  <2>4. TaskHasItsState'
    BY <1>12 DEF OperationCompletes, Safe, TaskHasItsState, NeedsSctp, sigVars, appVars,
           applyVars, mediaVars
  <2>5. AnswersMatch'
    BY <1>12 DEF OperationCompletes, Safe, AnswersMatch, sigVars, mediaVars
  <2> QED BY <2>1, <2>2, <2>3, <2>4, <2>5 DEF Safe
<1>13. CASE ResumeGather
  <2>1. StateFollowsTask'
    BY <1>13 DEF ResumeGather, Safe, StateFollowsTask, Awaits
  <2>2. TaskAfterSignaling'
    BY <1>13 DEF ResumeGather, Safe, TaskAfterSignaling, Negotiated, sigVars, applyVars
  <2>3. NoRestartWhileClosing'
    BY <1>13 DEF ResumeGather, Safe, NoRestartWhileClosing, Outstanding, Awaits, sigVars
  <2>4. TaskHasItsState'
    BY <1>13 DEF ResumeGather, Safe, TaskHasItsState, NeedsSctp, sigVars, appVars, applyVars,
           mediaVars
  <2>5. AnswersMatch'
    BY <1>13 DEF ResumeGather, Safe, AnswersMatch, sigVars, mediaVars
  <2> QED BY <2>1, <2>2, <2>3, <2>4, <2>5 DEF Safe
<1>14. CASE ResumeIce
  <2>1. StateFollowsTask'
    BY <1>14 DEF ResumeIce, Resumes, Safe, StateFollowsTask, TaskHasItsState, Awaits
  <2>2. TaskAfterSignaling'
    BY <1>14 DEF ResumeIce, Resumes, Safe, TaskAfterSignaling, Negotiated, sigVars, iceVars,
           applyVars
  <2>3. NoRestartWhileClosing'
    BY <1>14 DEF ResumeIce, Resumes, Safe, NoRestartWhileClosing, Outstanding, Awaits,
           sigVars, iceVars
  <2>4. TaskHasItsState'
    BY <1>14 DEF ResumeIce, Resumes, Safe, TaskHasItsState, NeedsSctp, sigVars, appVars,
           applyVars, mediaVars
  <2>5. AnswersMatch'
    BY <1>14 DEF ResumeIce, Resumes, Safe, AnswersMatch, sigVars, mediaVars
  <2> QED BY <2>1, <2>2, <2>3, <2>4, <2>5 DEF Safe
<1>15. ASSUME NEW keys \in BOOLEAN, ResumeDtls(keys) PROVE Safe'
  <2>1. StateFollowsTask'
    BY <1>15 DEF ResumeDtls, Resumes, ExitTask, Safe, StateFollowsTask, TaskHasItsState, Awaits
  <2>2. TaskAfterSignaling'
    BY <1>15 DEF ResumeDtls, Resumes, ExitTask, Safe, TaskAfterSignaling, Negotiated, sigVars,
           iceVars, applyVars
  <2>3. NoRestartWhileClosing'
    BY <1>15 DEF ResumeDtls, Resumes, ExitTask, Safe, NoRestartWhileClosing, Outstanding,
           Awaits, sigVars, iceVars
  <2>4. TaskHasItsState'
    BY <1>15 DEF ResumeDtls, Resumes, ExitTask, Safe, TaskHasItsState, NeedsSctp, sigVars,
           appVars, applyVars
  <2>5. AnswersMatch'
    BY <1>15 DEF ResumeDtls, Resumes, ExitTask, Safe, AnswersMatch, sigVars
  <2> QED BY <2>1, <2>2, <2>3, <2>4, <2>5 DEF Safe
<1>16. CASE ResumeSctp
  <2>1. StateFollowsTask'
    BY <1>16 DEF ResumeSctp, Resumes, ExitTask, Safe, StateFollowsTask, TaskHasItsState, Awaits
  <2>2. TaskAfterSignaling'
    BY <1>16 DEF ResumeSctp, Resumes, ExitTask, Safe, TaskAfterSignaling, Negotiated, sigVars,
           iceVars, applyVars
  <2>3. NoRestartWhileClosing'
    BY <1>16 DEF ResumeSctp, Resumes, ExitTask, Safe, NoRestartWhileClosing, Outstanding,
           Awaits, sigVars, iceVars
  <2>4. TaskHasItsState'
    BY <1>16 DEF ResumeSctp, Resumes, ExitTask, Safe, TaskHasItsState, NeedsSctp, sigVars,
           appVars, applyVars
  <2>5. AnswersMatch'
    BY <1>16 DEF ResumeSctp, Resumes, ExitTask, Safe, AnswersMatch, sigVars
  <2> QED BY <2>1, <2>2, <2>3, <2>4, <2>5 DEF Safe
<1>17. CASE ResumeFailed
  <2>1. StateFollowsTask'
    BY <1>17 DEF ResumeFailed, Resumes, ExitTask, Safe, StateFollowsTask, Awaits
  <2>2. TaskAfterSignaling'
    BY <1>17 DEF ResumeFailed, Resumes, ExitTask, Safe, TaskAfterSignaling, Negotiated,
           sigVars, iceVars, applyVars
  <2>3. NoRestartWhileClosing'
    BY <1>17 DEF ResumeFailed, Resumes, ExitTask, Safe, NoRestartWhileClosing, Outstanding,
           Awaits, sigVars, iceVars
  <2>4. TaskHasItsState'
    BY <1>17 DEF ResumeFailed, Resumes, ExitTask, Safe, TaskHasItsState, NeedsSctp, sigVars,
           appVars, applyVars, mediaVars
  <2>5. AnswersMatch'
    BY <1>17 DEF ResumeFailed, Resumes, ExitTask, Safe, AnswersMatch, sigVars, mediaVars
  <2> QED BY <2>1, <2>2, <2>3, <2>4, <2>5 DEF Safe
<1>18. CASE StopTask
  <2>1. StateFollowsTask'
    BY <1>18 DEF StopTask, ExitTask, Safe, StateFollowsTask, Awaits
  <2>2. TaskAfterSignaling'
    BY <1>18 DEF StopTask, ExitTask, Safe, TaskAfterSignaling, Negotiated, Awaits, sigVars,
           iceVars, applyVars
  <2>3. NoRestartWhileClosing'
    BY <1>18 DEF StopTask, ExitTask, Safe, NoRestartWhileClosing, Outstanding, Awaits,
           sigVars, iceVars
  <2>4. TaskHasItsState'
    BY <1>18 DEF StopTask, ExitTask, Safe, TaskHasItsState, NeedsSctp, sigVars, appVars,
           applyVars, mediaVars
  <2>5. AnswersMatch'
    BY <1>18 DEF StopTask, ExitTask, Safe, AnswersMatch, sigVars, mediaVars
  <2> QED BY <2>1, <2>2, <2>3, <2>4, <2>5 DEF Safe
<1>19. CASE StopLoops
  <2>1. StateFollowsTask'
    BY <1>19 DEF StopLoops, Safe, StateFollowsTask, Awaits
  <2>2. TaskAfterSignaling'
    BY <1>19 DEF StopLoops, Safe, TaskAfterSignaling, Negotiated, sigVars, iceVars, applyVars
  <2>3. NoRestartWhileClosing'
    BY <1>19 DEF StopLoops, Safe, NoRestartWhileClosing, Outstanding, Awaits, sigVars, iceVars
  <2>4. TaskHasItsState'
    BY <1>19 DEF StopLoops, Safe, TaskHasItsState, NeedsSctp, sigVars, appVars, applyVars,
           mediaVars
  <2>5. AnswersMatch'
    BY <1>19 DEF StopLoops, Safe, AnswersMatch, sigVars, mediaVars
  <2> QED BY <2>1, <2>2, <2>3, <2>4, <2>5 DEF Safe
<1>20. CASE Close
  <2>1. StateFollowsTask'
    BY <1>20 DEF Close, CloseEffects, Safe, StateFollowsTask, Awaits
  <2>2. TaskAfterSignaling'
    BY <1>20 DEF Close, CloseEffects, Safe, TaskAfterSignaling, Negotiated, applyVars
  <2>3. NoRestartWhileClosing'
    BY <1>20 DEF Close, CloseEffects, Safe, NoRestartWhileClosing, Outstanding, Awaits
  <2>4. TaskHasItsState'
    BY <1>20 DEF Close, CloseEffects, Safe, TaskHasItsState, NeedsSctp, applyVars
  <2>5. AnswersMatch'
    BY <1>20 DEF Close, CloseEffects, Safe, AnswersMatch, NoDesc
  <2> QED BY <2>1, <2>2, <2>3, <2>4, <2>5 DEF Safe
<1>21. CASE UNCHANGED vars
  BY <1>21 DEF vars, Safe, StateFollowsTask, TaskAfterSignaling, NoRestartWhileClosing,
         TaskHasItsState, AnswersMatch, Outstanding, NeedsSctp, sigVars, appVars, iceVars,
         applyVars, taskVars, mediaVars
<1> QED
  BY <1>1, <1>2, <1>3, <1>4, <1>5, <1>6, <1>7, <1>8, <1>9, <1>10,
     <1>11, <1>12, <1>13, <1>14, <1>15, <1>16, <1>17, <1>18, <1>19, <1>20, <1>21 DEF Next, AppNext, ExecNext

\* The inductive invariant: how the connection state, the signalling state, the
\* descriptions and the transports follow the place where do_connect is.
THEOREM Invariance == ASSUME StopOnResume PROVE Spec => []IInv
<1>1. Init => IInv
  BY TypeInit, SafeInit DEF IInv, Safe
<1>2. IInv /\ [Next]_vars => IInv'
  BY TypeStep, SafeStep DEF IInv, Safe
<1> QED BY <1>1, <1>2, PTL DEF Spec

\* do_connect never resumes on state that close() has torn down, wherever it
\* was suspended when close() ran.
THEOREM ResumesAreSafe == ASSUME StopOnResume PROVE Spec => []NoDanglingResume
<1>1. IInv => NoDanglingResume
  BY DEF IInv, TaskHasItsState, NoDanglingResume
<1> QED BY <1>1, Invariance, PTL

\* A connected connection has its transports, and a running data channel
\* manager whenever a data channel was negotiated or handed out.
THEOREM ConnectedComplete == ASSUME StopOnResume PROVE Spec => []ConnectedIsComplete
<1>1. IInv => ConnectedIsComplete
  BY DEF IInv, StateFollowsTask, TaskHasItsState, ConnectedIsComplete, NeedsSctp, TypeOK
<1> QED BY <1>1, Invariance, PTL

\* do_connect plays the DTLS role the answer it sent has announced.
THEOREM RolesAgree == ASSUME StopOnResume PROVE Spec => []AdvertisedRoleIsPlayed
<1>1. IInv => AdvertisedRoleIsPlayed
  BY DEF IInv, AnswersMatch, NoRestartWhileClosing, AdvertisedRoleIsPlayed, AnswerSetup, WeAreActive
<1> QED BY <1>1, Invariance, PTL

\* do_connect is started at most once and only moves on.
THEOREM OneAttempt == ASSUME StopOnResume PROVE Spec => AttemptOnlyAdvances
<1>1. IInv /\ [Next]_vars => [TaskRank(task') >= TaskRank(task)]_vars
  <2> SUFFICES ASSUME IInv, Next PROVE TaskRank(task') >= TaskRank(task)
    OBVIOUS
  <2>1. TaskRank("none") <= TaskRank(task')
    BY DEF TaskRank
  <2>2. CASE UNCHANGED task
    BY <2>2 DEF TaskRank
  <2>3. CASE task = "none"
    BY <2>1, <2>3 DEF TaskRank
  <2>4. CASE task # "none" /\ task' # task
    <3>1. applying = "no" /\ signaling \in Negotiated
      BY <2>4 DEF IInv, TaskAfterSignaling
    <3>2. ~SetLocalDescription /\ (\A d \in RemoteDescs : ~SetRemoteDescription(d)) /\ ~ApplyCompletes
      BY <3>1 DEF SetLocalDescription, SetRemoteDescription, ApplyCompletes, Negotiated
    <3>3. ResumeGather \/ ResumeIce \/ (\E keys \in BOOLEAN : ResumeDtls(keys)) \/ ResumeSctp
          \/ ResumeFailed \/ StopTask
      BY <2>4, <3>2 DEF Next, AppNext, ExecNext, AddTransceiver, CreateDataChannel, CreateOffer,
             CreateAnswer, CancelApply, Close, CloseEffects, EndOfCandidates, GatherCompletes,
             StopLoops, LocalCandidates, OperationCompletes, taskVars
    <3> QED
      BY <3>3 DEF ResumeGather, ResumeIce, ResumeDtls, ResumeSctp, ResumeFailed, StopTask,
             Resumes, ExitTask, Awaits, TaskRank
  <2> QED BY <2>2, <2>3, <2>4
<1> QED BY <1>1, Invariance, PTL DEF Spec, AttemptOnlyAdvances

-----------------------------------------------------------------------------
(***************************************************************************)
(* The connection implements ConnectionLifecycle.                          *)
(***************************************************************************)
\* Every step is a step of ConnectionLifecycle or leaves its states alone.
LEMMA LifecycleStep ==
    ASSUME StopOnResume, IInv, [Next]_vars PROVE [LC!Next]_(LC!vars)
<1> USE RemoteDescsAssumption DEF LC!vars
<1>1. CASE UNCHANGED <<signaling, connState>>
  BY <1>1
<1>2. CASE SetLocalDescription
  <2>1. /\ signaling \notin Negotiated /\ ConnectEffect(draft, remote)
        /\ \/ signaling = "stable" /\ signaling' = "have_local_offer"
           \/ signaling = "have_remote_offer" /\ signaling' = "have_local_pranswer"
    BY <1>2, ApplyEffect DEF SetLocalDescription, Negotiated
  <2>2. LC!Describe
    BY <2>1 DEF LC!Describe
  <2>3. CASE UNCHANGED connState
    BY <2>2, <2>3 DEF LC!Next
  <2>4. CASE ~UNCHANGED connState
    <3>1. remote # NoDesc /\ draft # NoDesc /\ ScopeAccepts /\ connState' = "connecting"
      BY <2>1, <2>4 DEF ConnectEffect, taskVars
    <3>2. ~closed /\ signaling = "have_remote_offer"
      BY <2>1, <3>1 DEF IInv, TaskAfterSignaling, NoRestartWhileClosing, ScopeAccepts
    <3>3. connState = "init"
      BY <2>1, <3>2 DEF IInv, StateFollowsTask, TaskAfterSignaling
    <3> QED BY <2>1, <2>2, <3>1, <3>2, <3>3 DEF LC!Next, LC!Start
  <2> QED BY <2>3, <2>4
<1>3. ASSUME NEW d \in RemoteDescs, SetRemoteDescription(d) PROVE [LC!Next]_(LC!vars)
  <2>1. /\ signaling \notin Negotiated /\ ConnectEffect(local, d)
        /\ \/ signaling = "stable" /\ signaling' = "have_remote_offer"
           \/ signaling = "have_local_offer" /\ signaling' = "have_remote_pranswer"
    BY <1>3, ApplyEffect DEF SetRemoteDescription, Negotiated
  <2>2. LC!Describe
    BY <2>1 DEF LC!Describe
  <2>3. CASE UNCHANGED connState
    BY <2>2, <2>3 DEF LC!Next
  <2>4. CASE ~UNCHANGED connState
    <3>1. local # NoDesc /\ ScopeAccepts /\ connState' = "connecting"
      BY <2>1, <2>4 DEF ConnectEffect, taskVars
    <3>2. ~closed /\ signaling = "have_local_offer"
      BY <2>1, <3>1 DEF IInv, TaskAfterSignaling, NoRestartWhileClosing, ScopeAccepts
    <3>3. connState = "init"
      BY <2>1, <3>2 DEF IInv, StateFollowsTask, TaskAfterSignaling
    <3> QED BY <2>1, <2>2, <3>1, <3>2, <3>3 DEF LC!Next, LC!Start
  <2> QED BY <2>3, <2>4
<1>4. CASE ApplyCompletes
  <2>1. /\ signaling \in Negotiated /\ task = "none" /\ UNCHANGED signaling
        /\ ConnectEffect(local, remote)
    BY <1>4, AfterApplyEffect DEF ApplyCompletes, IInv, TaskAfterSignaling, sigVars
  <2>2. CASE ~UNCHANGED connState
    <3>1. local # NoDesc /\ remote # NoDesc /\ ScopeAccepts /\ connState' = "connecting"
      BY <2>1, <2>2 DEF ConnectEffect, taskVars
    <3>2. connState = "init"
      BY <2>1, <3>1 DEF IInv, StateFollowsTask, NoRestartWhileClosing, ScopeAccepts
    <3> QED BY <2>1, <3>1, <3>2 DEF LC!Next, LC!Start, Negotiated
  <2> QED BY <2>1, <2>2
<1>5. CASE ResumeFailed \/ StopTask \/ ResumeSctp \/ (\E keys \in BOOLEAN : ResumeDtls(keys))
  <2>1. UNCHANGED signaling
    BY <1>5 DEF ResumeFailed, StopTask, ResumeSctp, ResumeDtls, sigVars
  <2>2. /\ task \in Awaits
        /\ ~closed \/ connState' = IF connState = "connecting" THEN "failed" ELSE connState
        /\ connState' \in {connState, "connected", "failed"}
    BY <1>5 DEF ResumeFailed, StopTask, ResumeSctp, ResumeDtls, Resumes, ExitTask, Awaits
  <2>3. connState = "connecting" \/ connState' = connState
    BY <2>2 DEF IInv, StateFollowsTask
  <2> QED BY <2>1, <2>2, <2>3 DEF LC!Next, LC!Finish
<1>6. CASE Close
  BY <1>6 DEF Close, CloseEffects, LC!Next, LC!Close
<1>7. CASE AddTransceiver \/ CreateDataChannel \/ CreateOffer \/ CreateAnswer \/ CancelApply
           \/ LocalCandidates \/ EndOfCandidates \/ GatherCompletes \/ ResumeGather \/ ResumeIce
           \/ StopLoops \/ (\E ok \in BOOLEAN : OperationCompletes(ok)) \/ UNCHANGED vars
  <2>1. UNCHANGED <<signaling, connState>>
    BY <1>7 DEF AddTransceiver, CreateDataChannel, CreateOffer, CreateAnswer, CancelApply,
           LocalCandidates, EndOfCandidates, GatherCompletes, ResumeGather, ResumeIce,
           StopLoops, OperationCompletes, vars, sigVars, taskVars
  <2> QED BY <2>1
<1> QED
  BY <1>2, <1>3, <1>4, <1>5, <1>6, <1>7 DEF Next, AppNext, ExecNext

\* Signalling only moves forward, the attempt starts once and with both
\* descriptions, and close() is final: what the states shown to the
\* application do is what ConnectionLifecycle allows.
THEOREM Refinement == ASSUME StopOnResume PROVE Spec => ImplementsLifecycle
<1>1. Init => LC!Init
  BY DEF Init, LC!Init
<1>2. IInv /\ [Next]_vars => [LC!Next]_(LC!vars)
  BY LifecycleStep
<1> QED BY <1>1, <1>2, Invariance, PTL DEF Spec, ImplementsLifecycle, LC!Spec
=============================================================================
