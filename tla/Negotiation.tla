----------------------------- MODULE Negotiation ----------------------------
(***************************************************************************)
(* The m-lines of the offer/answer exchange between two connection_impls:  *)
(* create_offer, create_answer, set_local_description and                  *)
(* set_remote_description of src/src/connection_impl.cpp with the methods  *)
(* of rtp_transceiver they call (src/src/rtp_transceiver.cpp).  Signalling *)
(* is in order and reliable: each peer applies the description the other   *)
(* one has set.  What the exchange starts (gathering, do_connect) is in    *)
(* PeerConnection.                                                         *)
(*                                                                         *)
(* A direction is the set of what it enables, as the enum's bits are; an   *)
(* m-line is its MID, its codec ("app" for SCTP), whether it is live (port *)
(* 9) or rejected (port 0), and its direction.  SDP text, ICE and DTLS     *)
(* attributes, header extensions and SSRCs are left out.                   *)
(***************************************************************************)
EXTENDS Integers, SequencesExt

CONSTANTS
    Peers,         \* the two peers
    Codecs,        \* codecs of transceivers
    Audio,         \* those of them that are audio
    Wanted,        \* the directions the application asks for
    MaxTrs,        \* bound on the transceivers of both peers
    MaxDrafts,     \* bound on the descriptions created by both peers
    MaxEdits       \* bound on the changes to existing transceivers

ASSUME NegotiationAssumption ==
    /\ \A p \in Peers : \E q \in Peers : Peers = {p, q} /\ p # q
    /\ Audio \subseteq Codecs /\ "app" \notin Codecs
    /\ Wanted \subseteq SUBSET {"send", "recv"}
    /\ MaxTrs \in Nat /\ MaxDrafts \in Nat /\ MaxEdits \in Nat

VARIABLES
    trs,        \* _transceivers
    needSctp,   \* _need_sctp
    midCounter, \* _mid_counter
    signaling,  \* _signaling_state
    local,      \* _local_desc
    remote,     \* _remote_desc
    drafts,     \* what create_offer and create_answer returned to the application
    edits       \* how often an application changed a transceiver it has

appVars == <<trs, needSctp, edits>>
vars == <<appVars, midCounter, signaling, local, remote, drafts>>

Directions == SUBSET {"send", "recv"}
NoMid == -1
NoLine == -1
NoSdp == [type |-> "none", lines |-> <<>>]

\* A line has mid, codec ("app" for SCTP), live and dir; a transceiver has codec,
\* mid, mline, dir, stopped and track.
Other(p) == CHOOSE q \in Peers : q # p
SameKind(c, d) == c \in Audio <=> d \in Audio

Init ==
    /\ trs = [p \in Peers |-> <<>>]
    /\ needSctp = [p \in Peers |-> FALSE]
    /\ midCounter = [p \in Peers |-> 0]
    /\ signaling = [p \in Peers |-> "stable"]
    /\ local = [p \in Peers |-> NoSdp] /\ remote = [p \in Peers |-> NoSdp]
    /\ drafts = [p \in Peers |-> {}]
    /\ edits = 0

-----------------------------------------------------------------------------
(* The application's calls on transceivers and data channels.              *)

add_transceiver(p, codec, dir, track) ==
    /\ dir # {} /\ Len(trs[p]) + Len(trs[Other(p)]) < MaxTrs
    /\ trs' = [trs EXCEPT ![p] = Append(@,
            [codec |-> codec, mid |-> NoMid, mline |-> NoLine, dir |-> dir,
             stopped |-> FALSE, track |-> track])]
    /\ UNCHANGED <<needSctp, edits, midCounter, signaling, local, remote, drafts>>

\* One change of an existing transceiver.
Edit(p, i, tr) ==
    /\ edits < MaxEdits /\ edits' = edits + 1
    /\ trs' = [trs EXCEPT ![p][i] = tr]
    /\ UNCHANGED <<needSctp, midCounter, signaling, local, remote, drafts>>

\* add_track: the first transceiver of that codec without a track is reused
\* and starts to send; otherwise there is a new one.
add_track(p, codec) ==
    LET i == SelectInSeq(trs[p], LAMBDA t : ~t.stopped /\ ~t.track /\ t.codec = codec)
    IN  IF i = 0
        THEN add_transceiver(p, codec, {"send", "recv"}, TRUE)
        ELSE Edit(p, i, [trs[p][i] EXCEPT !.track = TRUE, !.dir = @ \cup {"send"}])

set_direction(p, i, dir) == Edit(p, i, [trs[p][i] EXCEPT !.dir = dir])

stop(p, i) == ~trs[p][i].stopped /\ Edit(p, i, [trs[p][i] EXCEPT !.stopped = TRUE])

\* create_data_channel: once both descriptions are set it needs the SCTP
\* transport, which do_connect makes when the peer's description asks for it.
create_data_channel(p) ==
    /\ ~needSctp[p]
    /\ \/ local[p] = NoSdp \/ remote[p] = NoSdp
       \/ \E k \in DOMAIN remote[p].lines : remote[p].lines[k].codec = "app"
    /\ needSctp' = [needSctp EXCEPT ![p] = TRUE]
    /\ UNCHANGED <<trs, edits, midCounter, signaling, local, remote, drafts>>

-----------------------------------------------------------------------------
(* create_offer.                                                           *)

Draft(p, d) ==
    /\ Cardinality(drafts[p]) + Cardinality(drafts[Other(p)]) < MaxDrafts
    /\ drafts' = [drafts EXCEPT ![p] = @ \cup {d}]

\* Those of the first n positions that are in P, in order.
Positions(n, P) ==
    LET upto[k \in 0 .. n] == IF k = 0 THEN <<>>
                             ELSE IF k \in P THEN Append(upto[k - 1], k) ELSE upto[k - 1]
    IN  upto[n]

\* The entries of the next offer, in order: lines of the current description
\* keep their place, recycled places go to newcomers first (SCTP, then the
\* new transceivers), and a place nobody claims is filled with a rejected
\* copy.  The place of the application line is never marked as claimed.
Entries(p) ==
    LET cur      == local[p].lines
        media    == { i \in DOMAIN cur : cur[i].codec # "app" }
        apps     == (DOMAIN cur) \ media
        keeper(i) == SelectInSeq(trs[p], LAMBDA t : t.mid = cur[i].mid)
        kept     == { i \in media : keeper(i) # 0 }
        recycled == { i \in media \ kept : ~cur[i].live }
        places   == Positions(Len(cur), recycled)
        newTrs   == Positions(Len(trs[p]), { t \in DOMAIN trs[p] :
                                                trs[p][t].mid = NoMid /\ ~trs[p][t].stopped })
        newcomers == (IF apps = {} /\ needSctp[p] THEN <<0>> ELSE <<>>) \o newTrs
        place(k) == IF k <= Len(places) THEN places[k] ELSE Len(cur) + k - Len(places)
        claimed  == kept \cup { place(k) : k \in DOMAIN newcomers }
        entry(at, kind, t, mid) == [at |-> at, kind |-> kind, tr |-> t, mid |-> mid]
        all      ==
            { entry(i, "rtp", keeper(i), cur[i].mid) : i \in kept }
              \cup { entry(i, "app", 0, cur[i].mid) : i \in apps }
              \cup { entry(place(k), IF newcomers[k] = 0 THEN "app" ELSE "rtp", newcomers[k], NoMid)
                         : k \in DOMAIN newcomers }
              \cup { entry(i, "copy", 0, cur[i].mid) : i \in (DOMAIN cur) \ claimed }
    IN  FlattenSeq([i \in 1 .. Max({Len(cur)} \cup claimed) |-> SetToSeq({ e \in all : e.at = i })])

\* The counter is not advanced.
MutantSameMid(p, n, used) == [k \in 1 .. n |-> midCounter[p]]

\* next_mid, n times: the numbers from the counter on that are not in use.
FreshMids(p, n, used) ==
    [k \in 1 .. n |-> CHOOSE m \in midCounter[p] .. midCounter[p] + n + Cardinality(used) :
                          m \notin used /\ Cardinality((midCounter[p] .. m) \ used) = k]

to_offer_sdp_media(t, mid) ==
    [mid |-> mid, codec |-> t.codec, live |-> ~t.stopped,
     dir |-> IF t.stopped THEN {} ELSE t.dir]

create_offer(p) ==
    LET entries == Entries(p)
        unnamed == Positions(Len(entries), { k \in DOMAIN entries : entries[k].mid = NoMid })
        fresh   == FreshMids(p, Len(unnamed), { entries[k].mid : k \in DOMAIN entries })
        midOf(k) == IF entries[k].mid # NoMid THEN entries[k].mid
                    ELSE fresh[SelectInSeq(unnamed, LAMBDA u : u = k)]
        line(k) ==
            CASE entries[k].kind = "app" ->
                   [mid |-> midOf(k), codec |-> "app", live |-> needSctp[p], dir |-> {"send", "recv"}]
              [] entries[k].kind = "copy" ->
                   [local[p].lines[entries[k].at] EXCEPT !.live = FALSE, !.dir = {}]
              [] OTHER -> to_offer_sdp_media(trs[p][entries[k].tr], midOf(k))
        lineOf(t) == SelectInSeq(entries, LAMBDA e : e.tr = t)
    IN  /\ Draft(p, [type |-> "offer", lines |-> [k \in DOMAIN entries |-> line(k)]])
        /\ midCounter' = [midCounter EXCEPT ![p] = IF fresh = <<>> THEN @ ELSE Last(fresh) + 1]
        /\ trs' = [trs EXCEPT ![p] = [t \in DOMAIN @ |->
                IF lineOf(t) = 0 THEN @[t] ELSE [@[t] EXCEPT !.mline = lineOf(t)]]]
        /\ UNCHANGED <<needSctp, edits, signaling, local, remote>>

-----------------------------------------------------------------------------
(* create_answer.                                                          *)

reverse_direction(dir) == { IF x = "send" THEN "recv" ELSE "send" : x \in dir }

\* Mutant: the remote direction is not seen from our side.
MutantNegotiate(loc, rem) == loc \cap rem

negotiate_direction(loc, rem) == loc \cap reverse_direction(rem)

\* The codec is the matching one, or else the first one of the offer.
to_answer_sdp_media(t, rm) ==
    LET dir == IF t.stopped THEN {} ELSE negotiate_direction(t.dir, rm.dir)
    IN  [rm EXCEPT !.live = dir # {}, !.dir = dir]

create_answer(p) ==
    LET answer(rm) ==
            LET i == SelectInSeq(trs[p], LAMBDA t : t.mid = rm.mid)
            IN  CASE rm.codec = "app" -> [rm EXCEPT !.live = TRUE]
                  [] rm.codec # "app" /\ i # 0 -> to_answer_sdp_media(trs[p][i], rm)
                  [] OTHER -> [rm EXCEPT !.live = FALSE, !.dir = {}]
        lines == remote[p].lines
    IN  /\ signaling[p] = "have_remote_offer"
        /\ Draft(p, [type |-> "answer", lines |-> [k \in DOMAIN lines |-> answer(lines[k])]])
        /\ UNCHANGED <<appVars, midCounter, signaling, local, remote>>

-----------------------------------------------------------------------------
(* set_local_description and set_remote_description.                       *)

\* Each transceiver that has been in an offer must find its line in this one.
MatchesOffer(t, lines) ==
    t.mline # NoLine => /\ t.mline <= Len(lines)
                        /\ t.mid \in {NoMid, lines[t.mline].mid}

TakeMid(t, lines) ==
    IF t.mline = NoLine THEN t ELSE [t EXCEPT !.mid = lines[t.mline].mid]

set_local_description(p, d) ==
    /\ d \in drafts[p]
    /\ \/ /\ d.type = "offer" /\ signaling[p] = "stable"
          /\ \A i \in DOMAIN trs[p] : MatchesOffer(trs[p][i], d.lines)
          /\ trs' = [trs EXCEPT ![p] = [i \in DOMAIN @ |-> TakeMid(@[i], d.lines)]]
          /\ signaling' = [signaling EXCEPT ![p] = "have_local_offer"]
       \/ /\ d.type = "answer" /\ signaling[p] = "have_remote_offer"
          /\ signaling' = [signaling EXCEPT ![p] = "have_local_pranswer"]
          /\ UNCHANGED trs
    /\ local' = [local EXCEPT ![p] = d]
    /\ UNCHANGED <<needSctp, edits, midCounter, remote, drafts>>

\* Mutants: the codec is not looked at; the direction of the peer is not.
MutantAnyCodec(t, rm) == [t EXCEPT !.dir = negotiate_direction(@, rm.dir)]
MutantOwnDirection(t, rm) == [t EXCEPT !.dir = IF t.codec = rm.codec THEN @ ELSE {}]

\* from_remote_offer and from_remote_answer, as far as m-lines go.
FromRemote(t, rm) ==
    [t EXCEPT !.dir = IF t.codec = rm.codec THEN negotiate_direction(@, rm.dir) ELSE {}]

\* An offered m-line takes the first transceiver of its kind that has no MID.
BindOffered(ts, rm) ==
    LET i == SelectInSeq(ts, LAMBDA t : t.mid = NoMid /\ ~t.stopped /\ SameKind(t.codec, rm.codec))
    IN  IF rm.codec = "app" \/ i = 0 THEN ts
        ELSE [ts EXCEPT ![i] = FromRemote([@ EXCEPT !.mid = rm.mid], rm)]

BindAll(ts, lines) ==
    LET bound[k \in 0 .. Len(lines)] ==
            IF k = 0 THEN ts ELSE BindOffered(bound[k - 1], lines[k])
    IN  bound[Len(lines)]

\* A transceiver the answer does not know, or has no direction left for, is stopped.
ApplyAnswer(t, lines) ==
    LET k == SelectInSeq(lines, LAMBDA rm : rm.mid = t.mid)
        n == IF k = 0 THEN [t EXCEPT !.dir = {}] ELSE FromRemote(t, lines[k])
    IN  IF n.dir = {} THEN [n EXCEPT !.stopped = TRUE] ELSE n

\* The BUNDLE group of an offer names its live lines; without one, or with a
\* rejected application line outside it, the offer is refused.
Bundled(lines) ==
    /\ \E k \in DOMAIN lines : lines[k].live
    /\ \A k \in DOMAIN lines : lines[k].codec = "app" => lines[k].live

set_remote_description(p) ==
    LET d == local[Other(p)]
    IN  /\ \/ /\ d.type = "offer" /\ signaling[p] = "stable" /\ Bundled(d.lines)
             /\ trs' = [trs EXCEPT ![p] = BindAll(@, d.lines)]
             /\ signaling' = [signaling EXCEPT ![p] = "have_remote_offer"]
          \/ /\ d.type = "answer" /\ signaling[p] = "have_local_offer"
             /\ trs' = [trs EXCEPT ![p] = [i \in DOMAIN @ |-> ApplyAnswer(@[i], d.lines)]]
             /\ signaling' = [signaling EXCEPT ![p] = "have_remote_pranswer"]
        /\ remote' = [remote EXCEPT ![p] = d]
        /\ UNCHANGED <<needSctp, edits, midCounter, local, drafts>>

-----------------------------------------------------------------------------
AppNext(p) ==
    \/ \E codec \in Codecs, dir \in Wanted : add_transceiver(p, codec, dir, FALSE)
    \/ \E codec \in Codecs : add_track(p, codec)
    \/ \E i \in DOMAIN trs[p] : stop(p, i) \/ \E dir \in Wanted : set_direction(p, i, dir)
    \/ create_data_channel(p)

Next ==
    \E p \in Peers :
        \/ AppNext(p)
        \/ create_offer(p) \/ create_answer(p)
        \/ \E d \in drafts[p] : set_local_description(p, d)
        \/ set_remote_description(p)

Spec == Init /\ [][Next]_vars

-----------------------------------------------------------------------------
(* Properties.                                                             *)

\* RFC 3264: a peer's answer answers the offer it has, line by line: the same
\* MIDs and kinds in the same places, no line live that was offered as
\* rejected, and nothing sent or received that the offer does not allow.
AnswerFitsOffer ==
    \A p \in Peers : signaling[p] = "have_local_pranswer" =>
        LET offer == remote[p].lines
            answer == local[p].lines
        IN  /\ DOMAIN answer = DOMAIN offer
            /\ \A k \in DOMAIN answer :
                  /\ answer[k].mid = offer[k].mid
                  /\ answer[k].codec = "app" <=> offer[k].codec = "app"
                  /\ answer[k].live => offer[k].live
                  /\ answer[k].dir \subseteq reverse_direction(offer[k].dir)

\* Two transceivers in use never share a MID, by which packets and answers
\* find their transceiver, whichever of its offers the application sets and
\* whatever it stopped or added in between.
LiveMidsUnique ==
    \A p \in Peers : \A i, j \in DOMAIN trs[p] :
        i # j /\ ~trs[p][i].stopped /\ ~trs[p][j].stopped /\ trs[p][i].mid # NoMid
            => trs[p][i].mid # trs[p][j].mid

Negotiated(p) ==
    { t \in ToSet(trs[p]) : ~t.stopped /\ t.mid # NoMid /\ t.dir # {} }

\* Once the offerer has the answer, the two peers agree: the same MIDs with
\* the same codecs are in use on both sides, in mirrored directions, unless an
\* application changed a transceiver in the meantime.  The offerer reaches
\* this state from the answer, the answerer from the offer.
DirectionsAgree ==
    \A p \in Peers : signaling[p] = "have_remote_pranswer" /\ edits = 0 =>
        { <<t.mid, t.codec, t.dir>> : t \in Negotiated(p) }
            = { <<t.mid, t.codec, reverse_direction(t.dir)>> : t \in Negotiated(Other(p)) }

\* After the answer is applied, each transceiver of the offerer still in use
\* has a live m-line in it, of its own codec, and sends and receives only
\* what the answer lets it.
AnswerIsObeyed ==
    [][\A p \in Peers : signaling'[p] = "have_remote_pranswer" /\ signaling[p] # signaling'[p] =>
            \A i \in DOMAIN trs'[p] : LET t == trs'[p][i] IN ~t.stopped =>
                \E k \in DOMAIN remote'[p].lines : LET rm == remote'[p].lines[k] IN
                    /\ rm.mid = t.mid /\ rm.live /\ rm.codec = t.codec
                    /\ t.dir \subseteq reverse_direction(rm.dir)]_vars
=============================================================================
