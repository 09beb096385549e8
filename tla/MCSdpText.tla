----------------------------- MODULE MCSdpText -----------------------------
(***************************************************************************)
(* Texts of a few lines from a pool with a well-formed and a malformed     *)
(* line of most kinds.  Three begin a media.                               *)
(***************************************************************************)
EXTENDS SdpText

MCU8 == {"0", "9", "96", "97"}
MCU16 == MCU8 \cup {"5000"}
MCU32 == MCU16 \cup {"90000", "70000"}
MCParamOrder == <<"max-fps", "max-width">>
MCPadded == "mid " :> "mid"

HeadLines ==
    { Text("", <<"junk">>), Text("v", <<"0">>), Text("v", <<"x">>),
      Text("o", <<"a", "1", "2", "IN", "IP4", "h">>), Text("o", <<"a">>),
      Text("b", <<"AS", "96">>), Text("b", <<"XX", "96">>) }

MediaHeads ==
    { Text("m", <<"video", "9", "", "RTP/SAVPF", "96">>),
      Text("m", <<"application", "x", "2", "odd", "chan">>),
      Text("m", <<"video", "x", "", "RTP/SAVPF", "96">>) }

ValueLines ==
    { Attr("rtpmap", <<"96", "vp8", "90000">>), Attr("rtpmap", <<"96", "vp9", "90000">>),
      Attr("rtpmap", <<"96", "vp8">>), Attr("fmtp", <<"96", "x=1">>), Attr("rtcp-fb", <<"96", "nack">>),
      Attr("rtcp-fb", <<"97", "nack">>), Attr("rtcp-fb", <<"*", "nack">>),
      Attr("extmap", <<"x", "", "mid">>), Attr("extmap", <<"9", "sendonly", "twcc">>),
      Attr("ssrc", <<"70000", "cname", ":", "c">>), Attr("ssrc", <<"9", ":">>), Attr("ssrc-group", <<"FID", "96", "97">>),
      Attr("msid", <<"s", "a">>), Attr("msid", <<"s", "b">>),
      Attr("simulcast", <<"recv", "1", ",", "~2", ";", "3">>),
      Attr("rid", <<"1", "send", "pt", "=", "96", ",", "300", ";", "97", ";", "max-width", "=", "9">>) }

PlainLines ==
    { Attr("mid", <<"0">>), Attr("mid", <<>>), Attr("mid ", <<>>), Attr("ice-options", <<"trickle", "x">>),
      Attr("setup", <<"actpass">>), Attr("setup", <<"odd">>), Attr("group", <<"BUNDLE", "0">>),
      Attr("msid-semantic", <<"WMS">>), Attr("msid-semantic", <<>>), Attr("inactive", <<>>), Attr("ice-lite", <<>>),
      Attr("end-of-candidates", <<>>), Attr("candidate", <<"c">>), Attr("x-odd", <<"1">>),
      Attr("rtcp", <<"9">>), Attr("fingerprint", <<"sha">>) }

MCLines == HeadLines \cup MediaHeads \cup ValueLines \cup PlainLines
=============================================================================
