---------------------------- MODULE MC_SdpParse ----------------------------
(***************************************************************************)
(* Lines as ffmpeg and cameras send them, and some that are refused or     *)
(* read in part.                                                           *)
(***************************************************************************)
EXTENDS SdpParse

\* With INT_MAX a million, 2300 thousand wraps to 202848.
const_Number == {-1, 0, 1, 2, 59, 96, 202, 480, 500, 640, 2300, 8000, 44100}
const_Mixed == ("96x" :> [n |-> 96, more |-> 1]) @@ ("8000Hz" :> [n |-> 8000, more |-> 2])

\* Once there is room for the parameters below, but not twice.
const_Fits(t) == Len(t) <= 12

VideoLine == L("m", <<"video", " ", "0", " ", "RTP", "/", "AVP", " ", "96">>)
AudioLine == L("m", <<"audio", " ", "0", " ", "RTP", "/", "AVP", " ", "96">>)
OtherLine == L("m", <<"application", " ", "0", " ", "RTP", "/", "AVP", " ", "0">>)
TcpLine == L("m", <<"video", " ", "0", " ", "RTP", "/", "AVP", "/", "TCP", " ", "96">>)
Url == <<"rtsp", ":", "/", "/", "host", "/", "live">>

const_Line ==
  { VideoLine, AudioLine, OtherLine, TcpLine,
    L("c", <<"IN", " ", "IP4", " ", "host">>),
    L("c", <<"IN", " ", "IP4", " ", "group", "/", "1">>),
    L("b", <<"AS", ":", "500">>), L("b", <<"AS", ":", "-1">>), L("b", <<"AS", ":", "2300">>),
    L("s", <<"title">>), L("i", <<"comment">>),
    L("a", <<"control", ":">> \o Url),
    L("a", <<"control", ":", "track">>),
    L("a", <<"rtpmap", ":", "96", " ", "NAME", "/", "8000", "/", "2">>),
    L("a", <<"rtpmap", ":", "96x", " ", "NAME", "/", "8000Hz", "/", "2">>),
    L("a", <<"rtpmap", ":", "0", " ", "NAME">>),
    L("a", <<"fmtp", ":", "96", " ", "mode", "=", "1", ";", " ", "key", "=", "val", "=", ";", "x">>),
    L("a", <<"framesize", ":", "96", " ", "640", "-", "480">>),
    L("a", <<"framesize", ":", "96", " ", "640">>) }

ASSUME PathsArePlain == PlainPaths
=============================================================================
