------------------------------ MODULE SdpText ------------------------------
(***************************************************************************)
(* The text of a session description: do_parse, which reads it line by     *)
(* line, and session_description::to_string, which writes it.  A line is   *)
(* its type letter, the attribute's name and the words of its value; words *)
(* are strings, and a number is a word its width admits (U8, U16, U32).    *)
(* Names of media types, directions and the like are compared without      *)
(* case; here each has one spelling.                                       *)
(***************************************************************************)
EXTENDS Naturals, SequencesExt

CONSTANTS
    Lines,          \* the lines a text may be made of
    MaxLines,       \* bound on the number of lines
    U8, U16, U32,   \* the words that are numbers of that width
    ParamOrder,     \* names of rid parameters in the order of std::map
    Padded          \* attribute names that end in a blank, with the names without it

ASSUME SdpAssumption ==
    /\ MaxLines \in Nat
    /\ U8 \subseteq U16 /\ U16 \subseteq U32 /\ {"0", "9"} \subseteq U8

VARIABLES
    sdp,       \* the session_description
    status,    \* "reading", "refused", "crashed", "accepted" or "rewritten"
    read       \* number of lines read

sdpVars == <<sdp, status, read>>

Attr(n, v) == [t |-> "a", n |-> n, v |-> v]
Text(t, v) == [t |-> t, n |-> "", v |-> v]

MediaTypes == {"audio", "video", "application", "text", "message"}
Protos == {"UDP", "RTP/AVP", "RTP/SAVP", "RTP/SAVPF", "UDP/TLS/RTP/SAVPF",
           "DTLS/SCTP", "UDP/DTLS/SCTP", "TCP/DTLS/SCTP"}
Directions == {"inactive", "sendonly", "recvonly", "sendrecv"}
SetupRoles == {"active", "passive", "actpass", "holdconn"}
BandwidthTypes == {"CT", "AS", "TIAS", "RS", "RR"}

DefaultOrigin == <<"-", "0", "0", "IN", "IP4", "0.0.0.0">>

\* How apply_session_attr and apply_media_attr treat a name: the last value
\* counts, all values are kept, or only that it was there.
SessionSingle == {"ice-ufrag", "ice-pwd", "setup", "msid-semantic"}
SessionList   == {"group", "ice-options", "candidate", "fingerprint"}
SessionFlag   == {"ice-lite", "extmap-allow-mixed"}
MediaSingle   == {"mid", "ice-ufrag", "ice-pwd", "setup", "rtcp", "sctp-port",
                  "max-message-size"}
MediaList     == {"extmap", "ssrc", "ssrc-group", "msid", "ice-options",
                  "candidate", "fingerprint", "crypto", "rid"}
MediaFlag     == {"rtcp-mux", "rtcp-mux-only", "rtcp-rsize",
                  "extmap-allow-mixed", "end-of-candidates"}

EmptySession ==
    [head   |-> [v |-> <<"0">>, o |-> DefaultOrigin, s |-> <<"-">>,
                 u |-> <<>>, e |-> <<>>, p |-> <<>>],
     bands  |-> <<>>,
     dir    |-> "",
     single |-> [n \in SessionSingle |-> <<>>],
     list   |-> [n \in SessionList |-> <<>>],
     flags  |-> {},
     attrs  |-> <<>>,
     medias |-> <<>>]

\* parse_media_line.  v is type, port, the part behind the port's slash,
\* protocol, formats.  A port that is no number is 9 if it has a slash.
MediaLineOk(v) ==
    /\ Len(v) >= 4
    /\ v[1] \in MediaTypes
    /\ v[3] # "" \/ v[2] \in U16

MediaOf(v) ==
    [m |-> <<v[1], IF v[2] \in U16 THEN v[2] ELSE "9", "",
             IF v[4] \in Protos THEN v[4] ELSE "RTP/AVP">>,
     fmts      |-> IF v[1] = "application" THEN SubSeq(v, 5, Len(v)) ELSE <<>>,
     dir       |-> "sendrecv",
     single    |-> [n \in MediaSingle |-> <<>>],
     list      |-> [n \in MediaList |-> <<>>],
     flags     |-> {},
     rtpmaps   |-> <<>>,
     fbs       |-> <<>>,
     simulcast |-> [send |-> <<>>, recv |-> <<>>],
     attrs     |-> <<>>]

-----------------------------------------------------------------------------
(***************************************************************************)
(* Values                                                                  *)
(***************************************************************************)
\* The parts of s between the words sep; empty parts are dropped.
SplitBy(s, sep) ==
    LET Step(acc, w) == IF w = sep THEN Append(acc, <<>>)
                        ELSE Append(Front(acc), Append(Last(acc), w))
    IN  SelectSeq(FoldLeft(Step, << <<>> >>, s), LAMBDA part : part # <<>>)

\* parse_simulcast_layers: layers are separated by ";", the alternatives of
\* a layer by ",".  A paused stream's word starts with "~" and stays one word.
parse_simulcast_layers(words) ==
    LET alts(layer) == SelectSeq(layer, LAMBDA w : w # ",")
        layers == SplitBy(words, ";")
    IN  SelectSeq([i \in DOMAIN layers |-> alts(layers[i])], LAMBDA l : l # <<>>)

\* parse_simulcast: "send" and "recv" sections, each overwriting an earlier
\* one of its kind; a section without streams, or another word, ends it.
parse_simulcast(words) ==
    LET other(d) == IF d = "send" THEN "recv" ELSE "send"
        RECURSIVE Loop(_, _)
        Loop(v, acc) ==
            IF Len(v) < 2 \/ v[1] \notin {"send", "recv"} THEN acc
            ELSE LET k == SelectInSubSeq(v, 3, Len(v), LAMBDA w : w = other(v[1]))
                     end == IF k = 0 THEN Len(v) ELSE k - 1
                     new == [acc EXCEPT ![v[1]] =
                                parse_simulcast_layers(SubSeq(v, 2, end))]
                 IN  Loop(SubSeq(v, end + 1, Len(v)), new)
    IN  Loop(words, [send |-> <<>>, recv |-> <<>>])

\* parse_rid.  The parameters are separated by ";": pt=96,97 starts a list of
\* payload types that bare numbers continue until the next parameter; of two
\* parameters with one name the first counts.
parse_rid(v) ==
    LET Step(rid, part) ==
            IF Len(part) >= 3 /\ part[2] = "="
            THEN IF part[1] = "pt"
                 THEN [rid EXCEPT !.inPts = TRUE,
                                  !.pts = @ \o SelectSeq(SubSeq(part, 3, Len(part)),
                                                         LAMBDA w : w \in U8)]
                 ELSE [rid EXCEPT !.inPts = FALSE,
                                  !.params = [k \in DOMAIN @ \cup {part[1]} |->
                                                IF k \in DOMAIN @ THEN @[k] ELSE part[3]]]
            ELSE IF rid.inPts /\ Len(part) = 1 /\ part[1] \in U8
                 THEN [rid EXCEPT !.pts = Append(@, part[1])]
                 ELSE rid
        r == FoldLeft(Step, [inPts |-> FALSE, pts |-> <<>>, params |-> <<>>],
                      SplitBy(SubSeq(v, 3, Len(v)), ";"))
    IN  [id |-> v[1], dir |-> v[2], pts |-> r.pts, params |-> r.params]

\* parse_ssrc: an attribute and its value, either of which may be empty.
parse_ssrc(v) ==
    LET rest == Tail(v)
        k == SelectInSeq(rest, LAMBDA w : w = ":")
    IN  [ssrc      |-> v[1],
         attribute |-> IF k = 0 THEN rest ELSE SubSeq(rest, 1, k - 1),
         value     |-> IF k = 0 THEN <<>> ELSE SubSeq(rest, k + 1, Len(rest))]

\* The colon is left out with the value.
SsrcWords(x) == <<x.ssrc>> \o x.attribute \o (IF x.value = <<>> THEN <<>> ELSE <<":">> \o x.value)

RidWords(rid) ==
    LET pts == FoldLeft(LAMBDA acc, p : acc \o (IF acc = <<>> THEN <<"pt", "=", p>>
                                                ELSE <<",", p>>), <<>>, rid.pts)
        keys == SelectSeq(ParamOrder, LAMBDA k : k \in DOMAIN rid.params)
        Add(acc, k) == acc \o (IF acc = <<>> THEN <<>> ELSE <<";">>)
                           \o <<k, "=", rid.params[k]>>
    IN  <<rid.id, rid.dir>> \o FoldLeft(Add, pts, keys)

SimulcastWords(s) ==
    LET Join(words, sep) == FoldLeft(LAMBDA acc, w : IF acc = <<>> THEN w
                                                      ELSE acc \o <<sep>> \o w, <<>>, words)
        layer(l) == Join([i \in DOMAIN l |-> <<l[i]>>], ",")
        layers(ls) == Join([i \in DOMAIN ls |-> layer(ls[i])], ";")
        sect(d) == IF s[d] = <<>> THEN <<>> ELSE <<d>> \o layers(s[d])
    IN  sect("send") \o sect("recv")

BandwidthOk(v)   == Len(v) = 2 /\ v[1] \in BandwidthTypes /\ v[2] \in U32
CryptoOk(v)      == Len(v) >= 3 /\ v[1] \in U32
RtcpOk(v)        == Len(v) \in {1, 4} /\ v[1] \in U16
GroupOk(v)       == Len(v) >= 2
FingerprintOk(v) == Len(v) >= 2
RtpmapOk(v)      == /\ Len(v) \in {3, 4} /\ v[1] \in U8 /\ v[3] \in U32
                    /\ Len(v) = 4 => v[4] \in U8
ExtmapOk(v)      == Len(v) >= 3 /\ (v[2] # "" => v[1] \in U16 /\ v[2] \in Directions)
RtcpFbOk(v)      == Len(v) >= 2 /\ v[1] \in U8 \cup {"*"}
SsrcOk(v)        == Len(v) >= 2 /\ v[1] \in U32
SsrcGroupOk(v)   == Len(v) >= 2 /\ \A i \in 2 .. Len(v) : v[i] \in U32

\* What parse_rtpmap and the other parse functions accept.
Accepts(n, v) ==
    CASE n = "rtpmap"     -> RtpmapOk(v)
      [] n = "fmtp"       -> Len(v) >= 2 /\ v[1] \in U8
      [] n = "rtcp-fb"    -> RtcpFbOk(v)
      [] n = "extmap"     -> ExtmapOk(v)
      [] n = "ssrc"       -> SsrcOk(v)
      [] n = "ssrc-group" -> SsrcGroupOk(v)
      [] n = "fingerprint" -> FingerprintOk(v)
      [] n = "group"      -> GroupOk(v)
      [] n = "setup"      -> Len(v) = 1 /\ v[1] \in SetupRoles
      [] n = "crypto"     -> CryptoOk(v)
      [] n = "rtcp"       -> RtcpOk(v)
      [] n = "sctp-port"  -> Len(v) = 1 /\ v[1] \in U16
      [] n = "max-message-size" -> Len(v) = 1 /\ v[1] \in U32
      [] n = "rid"        -> Len(v) >= 2 /\ v[2] \in {"send", "recv"}
      [] OTHER            -> TRUE

\* An extmap without a direction whose id is no number keeps the id 0.
ValueOf(n, v) ==
    CASE n = "extmap" -> IF v[1] \in U16 THEN v ELSE [v EXCEPT ![1] = "0"]
      [] n = "rid"    -> parse_rid(v)
      [] n = "ssrc"   -> parse_ssrc(v)
      [] OTHER        -> v

-----------------------------------------------------------------------------
(***************************************************************************)
(* Reading                                                                 *)
(***************************************************************************)
Refused == [ok |-> FALSE, status |-> "refused"]
Crashed == [ok |-> FALSE, status |-> "crashed"]
Ok(x)   == [ok |-> TRUE, val |-> x]

\* The attributes both levels treat alike: x is the session or a media.
ApplyCommon(x, single, list, flags, n, v) ==
    IF ~Accepts(n, v) THEN Refused
    ELSE IF n \in single THEN Ok([x EXCEPT !.single[n] = ValueOf(n, v)])
    ELSE IF n = "ice-options" THEN Ok([x EXCEPT !.list[n] = @ \o v])
    ELSE IF n \in list THEN Ok([x EXCEPT !.list[n] = Append(@, ValueOf(n, v))])
    ELSE IF n \in flags THEN Ok([x EXCEPT !.flags = @ \cup {n}])
    ELSE IF n \in Directions THEN Ok([x EXCEPT !.dir = n])
    ELSE Ok([x EXCEPT !.attrs = Append(@, <<n>> \o v)])

\* Names the session does not know are kept as they are, whatever they hold.
\* parse_msid_semantic takes the first of no words from a vector that has no
\* storage.
apply_session_attr(s, n, v) ==
    IF n = "msid-semantic" /\ v = <<>> THEN Crashed
    ELSE IF n \in SessionSingle \cup SessionList \cup SessionFlag \cup Directions
    THEN ApplyCommon(s, SessionSingle, SessionList, SessionFlag, n, v)
    ELSE Ok([s EXCEPT !.attrs = Append(@, <<n>> \o v)])

FindRtpmap(m, pt) == SelectInSeq(m.rtpmaps, LAMBDA r : r.pt = pt)

\* A payload type that is mapped already keeps its map; the first map of a
\* media discards its format words.
add_rtpmap(m, v) ==
    IF FindRtpmap(m, v[1]) # 0 THEN m
    ELSE [m EXCEPT !.fmts = <<>>,
                   !.rtpmaps = Append(@, [pt |-> v[1], codec |-> Tail(v), params |-> <<>>])]

SameFeedback(f, g) == Tail(f) = Tail(g)

\* The wildcard is appended without dropping what it covers.
MutantAddFeedback(m, fb) ==
    IF \E i \in DOMAIN m.fbs : m.fbs[i] = fb THEN m ELSE [m EXCEPT !.fbs = Append(@, fb)]

\* An entry for all payload types replaces the single ones and hides later ones.
add_feedback(m, fb) ==
    IF fb[1] # "*"
    THEN IF \E i \in DOMAIN m.fbs : SameFeedback(m.fbs[i], fb) /\ m.fbs[i][1] \in {"*", fb[1]}
         THEN m
         ELSE [m EXCEPT !.fbs = Append(@, fb)]
    ELSE [m EXCEPT !.fbs = Append(SelectSeq(@, LAMBDA f : ~SameFeedback(f, fb)), fb)]

apply_media_attr(m, n, v) ==
    IF n \in {"mid", "ice-ufrag", "ice-pwd", "ice-options"} /\ v = <<>> THEN Refused
    ELSE IF n = "group" THEN Ok([m EXCEPT !.attrs = Append(@, <<n>> \o v)])
    ELSE IF ~Accepts(n, v) THEN Refused
    ELSE IF n = "rtpmap" THEN Ok(add_rtpmap(m, v))
    ELSE IF n = "fmtp"
         THEN IF FindRtpmap(m, v[1]) = 0 THEN Refused
              ELSE Ok([m EXCEPT !.rtpmaps[FindRtpmap(m, v[1])].params = Tail(v)])
    ELSE IF n = "rtcp-fb" THEN Ok(add_feedback(m, v))
    ELSE IF n = "simulcast" THEN Ok([m EXCEPT !.simulcast = parse_simulcast(v)])
    ELSE ApplyCommon(m, MediaSingle, MediaList, MediaFlag, n, v)

\* check_msid: all msids of a media have one track.
check_msid(m) ==
    LET track(i) == Tail(m.list["msid"][i])
    IN  \A i \in DOMAIN m.list["msid"] : track(i) = track(1)

\* The lines before the first media.  Origins that do not have six words are
\* the default one, versions that are no number are skipped.
SessionLine(s, l) ==
    CASE l.t = "v" -> Ok(IF Len(l.v) = 1 /\ l.v[1] \in U8 THEN [s EXCEPT !.head.v = l.v] ELSE s)
      [] l.t = "o" -> Ok([s EXCEPT !.head.o = IF Len(l.v) >= 6 THEN SubSeq(l.v, 1, 6)
                                              ELSE DefaultOrigin])
      [] l.t \in {"s", "u", "e", "p"} -> Ok([s EXCEPT !.head[l.t] = l.v])
      [] l.t = "b" -> IF BandwidthOk(l.v)
                      THEN Ok([s EXCEPT !.bands = Append(@, l.v)]) ELSE Refused
      [] l.t = "a" -> apply_session_attr(s, l.n, l.v)
      [] OTHER     -> Ok(s)

\* One turn of do_parse.  The msids of a media are checked when the next
\* media begins.  A line without "=" has the type "".
ParseLine(s, l) ==
    IF l.t = "" THEN Refused
    ELSE IF l.t = "m"
    THEN IF (s.medias # <<>> => check_msid(Last(s.medias))) /\ MediaLineOk(l.v)
         THEN Ok([s EXCEPT !.medias = Append(@, MediaOf(l.v))])
         ELSE Refused
    ELSE IF s.medias = <<>> THEN SessionLine(s, l)
    ELSE IF l.t # "a" THEN Ok(s)
    ELSE LET r == apply_media_attr(Last(s.medias), l.n, l.v)
         IN  IF r.ok THEN Ok([s EXCEPT !.medias[Len(s.medias)] = r.val]) ELSE r

do_parse(text) ==
    FoldLeft(LAMBDA acc, l : IF acc.ok THEN ParseLine(acc.val, l) ELSE acc,
             IF text = <<>> THEN Refused ELSE Ok(EmptySession), text)

-----------------------------------------------------------------------------
(***************************************************************************)
(* Writing                                                                 *)
(***************************************************************************)
Map(s, Op(_)) == [i \in DOMAIN s |-> Op(s[i])]
OneIf(c, l)   == IF c THEN <<l>> ELSE <<>>

\* The lines of a name, as far as it has a value.
SingleLine(x, n) == OneIf(x.single[n] # <<>>, Attr(n, x.single[n]))
\* Flags are not written.
MutantFlagLine(x, n) == <<>>
FlagLine(x, n)   == OneIf(n \in x.flags, Attr(n, <<>>))
ListLines(x, n) ==
    IF n = "ice-options" THEN OneIf(x.list[n] # <<>>, Attr(n, x.list[n]))
    ELSE IF n = "rid" THEN Map(x.list[n], LAMBDA r : Attr(n, RidWords(r)))
    ELSE IF n = "ssrc" THEN Map(x.list[n], LAMBDA s : Attr(n, SsrcWords(s)))
    ELSE Map(x.list[n], LAMBDA v : Attr(n, v))

\* Without a value the colon is left out too, so that a blank at the end of the
\* name is trimmed off when the line is read.
AttrLines(x) ==
    Map(x.attrs, LAMBDA a : Attr(IF Tail(a) = <<>> /\ Head(a) \in DOMAIN Padded
                                 THEN Padded[Head(a)] ELSE Head(a), Tail(a)))

FeedbackLines(m, pt) ==
    Map(SelectSeq(m.fbs, LAMBDA f : f[1] = pt), LAMBDA f : Attr("rtcp-fb", f))

\* The fmtp line is written before the map it belongs to.
MutantRtpmapLines(m) ==
    FlattenSeq(Map(m.rtpmaps, LAMBDA r :
        OneIf(r.params # <<>>, Attr("fmtp", <<r.pt>> \o r.params))
        \o <<Attr("rtpmap", <<r.pt>> \o r.codec)>>
        \o FeedbackLines(m, r.pt)))

\* Feedback for one payload type is written behind the map of that type.
RtpmapLines(m) ==
    FlattenSeq(Map(m.rtpmaps, LAMBDA r :
        <<Attr("rtpmap", <<r.pt>> \o r.codec)>>
        \o OneIf(r.params # <<>>, Attr("fmtp", <<r.pt>> \o r.params))
        \o FeedbackLines(m, r.pt)))

MediaLines(m) ==
    <<Text("m", m.m \o (IF m.rtpmaps # <<>> THEN Map(m.rtpmaps, LAMBDA r : r.pt)
                        ELSE m.fmts)),
      Attr(m.dir, <<>>)>>
    \o SingleLine(m, "mid") \o ListLines(m, "msid")
    \o SingleLine(m, "ice-ufrag") \o SingleLine(m, "ice-pwd")
    \o ListLines(m, "ice-options") \o ListLines(m, "candidate")
    \o ListLines(m, "fingerprint") \o SingleLine(m, "setup")
    \o FlagLine(m, "extmap-allow-mixed") \o FlagLine(m, "rtcp-mux")
    \o FlagLine(m, "rtcp-mux-only") \o FlagLine(m, "rtcp-rsize")
    \o SingleLine(m, "rtcp") \o ListLines(m, "extmap")
    \o RtpmapLines(m) \o FeedbackLines(m, "*")
    \o ListLines(m, "ssrc") \o ListLines(m, "ssrc-group") \o ListLines(m, "crypto")
    \o SingleLine(m, "sctp-port") \o SingleLine(m, "max-message-size")
    \o OneIf(m.simulcast.send # <<>> \/ m.simulcast.recv # <<>>,
             Attr("simulcast", SimulcastWords(m.simulcast)))
    \o ListLines(m, "rid") \o FlagLine(m, "end-of-candidates") \o AttrLines(m)

to_string(s) ==
    <<Text("v", s.head.v), Text("o", s.head.o), Text("s", s.head.s)>>
    \o OneIf(s.head.u # <<>>, Text("u", s.head.u))
    \o OneIf(s.head.e # <<>>, Text("e", s.head.e))
    \o OneIf(s.head.p # <<>>, Text("p", s.head.p))
    \o Map(s.bands, LAMBDA b : Text("b", b)) \o <<Text("t", <<"0", "0">>)>>
    \o OneIf(s.dir # "", Attr(s.dir, <<>>))
    \o SingleLine(s, "ice-ufrag") \o SingleLine(s, "ice-pwd")
    \o ListLines(s, "ice-options") \o FlagLine(s, "ice-lite")
    \o ListLines(s, "fingerprint") \o SingleLine(s, "setup")
    \o FlagLine(s, "extmap-allow-mixed")
    \o OneIf(Len(s.single["msid-semantic"]) > 1,
             Attr("msid-semantic", s.single["msid-semantic"]))
    \o ListLines(s, "group") \o AttrLines(s) \o ListLines(s, "candidate")
    \o FlattenSeq(Map(s.medias, MediaLines))

-----------------------------------------------------------------------------
(***************************************************************************)
(* A text is read line by line to its end; what was accepted is written    *)
(* and read again, as a peer that runs the same code would.                *)
(***************************************************************************)
Init == sdp = EmptySession /\ status = "reading" /\ read = 0

ReadLine(l) ==
    /\ status = "reading" /\ read < MaxLines
    /\ read' = read + 1
    /\ LET r == ParseLine(sdp, l)
       IN  /\ status' = IF r.ok THEN "reading" ELSE r.status
           /\ sdp' = IF r.ok THEN r.val ELSE EmptySession

EndOfText ==
    /\ status = "reading"
    /\ status' = IF read = 0 THEN "refused" ELSE "accepted"
    /\ UNCHANGED <<sdp, read>>

Rewrite ==
    /\ status = "accepted"
    /\ LET r == do_parse(to_string(sdp))
       IN  /\ status' = IF r.ok THEN "rewritten" ELSE r.status
           /\ sdp' = IF r.ok THEN r.val ELSE EmptySession
    /\ UNCHANGED read

Next == (\E l \in Lines : ReadLine(l)) \/ EndOfText \/ Rewrite

Spec == Init /\ [][Next]_sdpVars

-----------------------------------------------------------------------------
(***************************************************************************)
(* Properties                                                              *)
(***************************************************************************)
\* What the description asks of payload type pt.
FeedbackFor(m, pt) == { Tail(m.fbs[i]) : i \in { j \in DOMAIN m.fbs : m.fbs[j][1] \in {pt, "*"} } }

SameMedia(m, n) ==
    /\ [m EXCEPT !.fbs = <<>>] = [n EXCEPT !.fbs = <<>>]
    /\ \A i \in DOMAIN m.rtpmaps :
          FeedbackFor(m, m.rtpmaps[i].pt) = FeedbackFor(n, m.rtpmaps[i].pt)

\* The description holds something that to_string writes as a line with a
\* blank at its end: an ssrc with neither attribute nor value (read from
\* "a=ssrc:1 :"), or an unknown attribute without value whose name ends in one
\* (read from "a=mid :").  do_parse trims lines, and what it then reads may be
\* another attribute or none.
EndsInBlank(s) ==
    LET PaddedIn(x) == \E i \in DOMAIN x.attrs : Len(x.attrs[i]) = 1 /\ x.attrs[i][1] \in DOMAIN Padded
    IN  \/ PaddedIn(s)
        \/ \E k \in DOMAIN s.medias :
              \/ PaddedIn(s.medias[k])
              \/ \E x \in ToSet(s.medias[k].list["ssrc"]) : x.attribute = <<>> /\ x.value = <<>>

\* A text the parser accepted is written in a form the parser accepts, unless
\* a line of it ends in a blank: whatever else was read, to_string writes no
\* line that do_parse refuses.
OwnTextAccepted ==
    [][status = "accepted" /\ ~EndsInBlank(sdp) => status' = "rewritten"]_sdpVars

\* Writing and reading a description keeps its meaning: to_string writes
\* every field apply_*_attr stored, in an order in which do_parse finds each
\* rtpmap before the lines that need it, with the feedback each payload type
\* has (its order, and feedback for unmapped types, may change) and without a
\* semantic that names no stream.  Lines that end in a blank are the exception.
MeaningKept ==
    [][status = "accepted" /\ ~EndsInBlank(sdp) =>
        LET drop(s) == [s EXCEPT !.medias = <<>>,
                                 !.single["msid-semantic"] = IF Len(@) > 1 THEN @ ELSE <<>>]
        IN  /\ drop(sdp') = drop(sdp)
            /\ Len(sdp'.medias) = Len(sdp.medias)
            /\ \A i \in DOMAIN sdp.medias : SameMedia(sdp.medias[i], sdp'.medias[i])]_sdpVars

\* What was written once is not changed by writing it again.
RewriteIsStable == status = "rewritten" => do_parse(to_string(sdp)) = Ok(sdp)

\* In whatever order rtcp-fb lines come, no entry of a media says again what
\* another one says (add_feedback).
FeedbackSaidOnce ==
    \A k \in DOMAIN sdp.medias :
        LET fbs == sdp.medias[k].fbs
        IN  \A i, j \in DOMAIN fbs :
               i # j /\ SameFeedback(fbs[i], fbs[j]) => fbs[i][1] # fbs[j][1] /\ "*" \notin {fbs[i][1], fbs[j][1]}

\* Descriptions are in normal form: nothing is said twice, and one that was
\* written and read is a fixed point of do_parse and to_string.
NormalForm == FeedbackSaidOnce /\ RewriteIsStable
=============================================================================
