------------------------------ MODULE SdpParse ------------------------------
(***************************************************************************)
(* SdpUtil: the session description an ANNOUNCE brings is read line by     *)
(* line, and written for every DESCRIBE.  A line is a letter and a text;   *)
(* what the parser keeps between two lines is the description so far, the  *)
(* address of the session and whether the present media is skipped.  The   *)
(* codec id that getCodecID looks up is left out: nothing reads it.        *)
(***************************************************************************)
EXTENDS SdpText

CONSTANTS Line,               \* the lines a publisher may send
          Fits(_),            \* the texts of less than DEF_HTTP_FORMAT_SIZE characters
          MAX_SDP_MEDIA_CNT,  \* places for media in a description
          MAX_LINES           \* bound: lines of a description

DEFAULT_SAMPLERATE == 44100
DEFAULT_CHANNELS == 1
UNNAMED == <<"No Name">>

\* A line says so many thousand bits; an int keeps the bits.
Thousand(n) == Wrap(n * 1000)

\* A line is a letter and a text.  The defaults are numbers, and so is any bit
\* rate that is written.
ASSUME LineAssumption ==
  /\ Line \subseteq [letter : STRING, val : Seq(STRING)]
  /\ {DEFAULT_SAMPLERATE, DEFAULT_CHANNELS} \subseteq Number \cap 0 .. INT_MAX
  /\ \A n \in Number : Thousand(n) > 0 => Thousand(n) \div 1000 \in Number

L(letter, val) == [letter |-> letter, val |-> val]

VARIABLES lines,  \* the lines read
          sdp     \* SdpData and SdpParseStat

vars == <<lines, sdp>>

EmptySdp == [title |-> << >>, comment |-> << >>, url |-> << >>, media |-> << >>,
             ip |-> << >>, ttl |-> 0, skip |-> FALSE]

\* parseMedia, up to the codec: a media begins with what the session says.
NewMedia(s, type, port, payload) ==
  [type |-> type, port |-> port, payload |-> payload, ip |-> s.ip, ttl |-> s.ttl,
   url |-> s.url, path |-> << >>, idx |-> Len(s.media), name |-> << >>, rate |-> 0,
   channels |-> 0, bitRate |-> 0, width |-> 0, height |-> 0, config |-> << >>]

InMedia(s) == s.media # << >>
Media(s) == s.media[Len(s.media)]
SetMedia(s, m) == [s EXCEPT !.media[Len(s.media)] = m]

\* A media whose control was a URL has the path of the URL.
PostMedia(m) ==
  IF m.path = << >> /\ m.url # << >> THEN [m EXCEPT !.path = SplitUrl(m.url).path] ELSE m

Protocol == << <<"RTP">>, <<"AVP">>, <<"UDP">> >>

\* The parts of the protocol are compared one by one; it has to end before
\* the list does.
IsUdp(proto) ==
  LET got == Take(proto, <<"/", "/", "/">>).got
  IN /\ proto # << >>
     /\ \E n \in 0 .. 2 : got[n + 1] = << >> /\ SubSeq(got, 1, n) = SubSeq(Protocol, 1, n)

\* The kind, the port, the protocol and the payload.
Refused(got) ==
  \/ got[1] \notin {<<"audio">>, <<"video">>, <<"application">>}
  \/ ~IsNum(got[2]) \/ ~IsUdp(got[3]) \/ ~IsNum(got[4])

ParseMedia(s, txt) ==
  LET got == Take(txt, <<BLANK, BLANK, BLANK, BLANK>>).got
      posted == IF InMedia(s) THEN SetMedia(s, PostMedia(Media(s))) ELSE s
  IN IF Refused(got) THEN [posted EXCEPT !.skip = TRUE]
     ELSE [posted EXCEPT
             !.media = Append(@, NewMedia(s, got[1], Num(got[2]), Num(got[4]))), !.skip = FALSE]

\* An address with a time to live is not taken.
ParseConn(s, txt) ==
  LET got == Take(txt, <<BLANK, BLANK, "/", "/">>).got
  IN IF got[1] = <<"IN">> /\ got[2] = <<"IP4">> /\ got[3] # << >> /\ got[4] = << >>
     THEN IF InMedia(s) THEN SetMedia(s, [Media(s) EXCEPT !.ip = got[3], !.ttl = 0])
          ELSE [s EXCEPT !.ip = got[3], !.ttl = 0]
     ELSE s

\* Whether the text is a number is not asked.
ParseBitRate(s, txt) ==
  LET kv == Split(txt, ":")
  IN IF IsSplit(kv) /\ kv.key = <<"AS">> /\ InMedia(s)
     THEN SetMedia(s, [Media(s) EXCEPT !.bitRate = Thousand(Num(kv.val))]) ELSE s

ParseControl(s, txt) ==
  LET url == SplitUrl(txt)
  IN IF InMedia(s)
     THEN IF url.schema # << >> THEN SetMedia(s, [Media(s) EXCEPT !.url = txt])
          ELSE SetMedia(s, [Media(s) EXCEPT !.path = url.path])
     ELSE IF url.schema # << >> THEN [s EXCEPT !.url = txt] ELSE s

\* The rate and, of audio, the channels: each is taken if it and the ones before
\* it could be read.  An encoding of audio brings defaults for both.
OrDefault(t, default) == IF IsNum(t) /\ Num(t) > 0 THEN Num(t) ELSE default
Rated(m, rate, channels) ==
  CASE m.type = <<"audio">> ->
         [m EXCEPT !.rate = OrDefault(rate, DEFAULT_SAMPLERATE),
                   !.channels = OrDefault(IF IsNum(rate) THEN channels ELSE << >>,
                                          DEFAULT_CHANNELS)]
    [] m.type = <<"video">> -> [m EXCEPT !.rate = OrDefault(rate, @)]
    [] OTHER -> m

\* An attribute of a format belongs to the last media, if it has that format.
Concerns(s, payload) == InMedia(s) /\ IsNum(payload) /\ Num(payload) = Media(s).payload

ParseRtpmap(s, txt) ==
  LET got == Take(txt, <<BLANK, "/", "/", "/">>).got
  IN IF Concerns(s, got[1]) /\ got[2] # << >>
     THEN SetMedia(s, Rated([Media(s) EXCEPT !.name = got[2]], got[3], got[4])) ELSE s

\* The parameters that have a name and a value, up to one that is blank; they
\* are put behind what is already there.
Needles(txt) ==
  LET got == Take(txt, [i \in DOMAIN txt |-> SEMICOLON]).got
  IN SubSeq(got, 1, Find(got \o << << >> >>, << >>) - 1)
WithPair(sofar, kv) ==
  IF IsSplit(kv)
  THEN sofar \o (IF sofar # << >> THEN <<SEMICOLON>> ELSE << >>) \o kv.key \o <<"=">> \o kv.val
  ELSE sofar
WithParam(sofar, needle) == WithPair(sofar, Split(needle, "="))
ConfigOf(needles) ==
  LET Sofar[n \in 0 .. Len(needles)] ==
        IF n = 0 THEN << >> ELSE WithParam(Sofar[n - 1], needles[n])
  IN Sofar[Len(needles)]
Config(txt) == ConfigOf(Needles(txt))

ParseFmtp(s, txt) ==
  LET payload == Take(txt, <<BLANK>>)
  IN IF Concerns(s, payload.got[1])
     THEN SetMedia(s, [Media(s) EXCEPT !.config = @ \o Config(payload.rest)]) ELSE s

\* Both numbers are written, 0 for one that is not there, but the height is
\* left alone behind a bad width.
ParseFrameSize(s, txt) ==
  LET got == Take(txt, <<BLANK, "-", "-">>).got
  IN IF Concerns(s, got[1])
     THEN SetMedia(s, [Media(s) EXCEPT !.width = Num(got[2]),
                                       !.height = IF IsNum(got[2]) THEN Num(got[3]) ELSE @])
     ELSE s

ParseAttr(s, txt) ==
  LET kv == Split(txt, ":")
  IN IF ~IsSplit(kv) THEN s
     ELSE CASE kv.key = <<"control">> -> ParseControl(s, kv.val)
            [] kv.key = <<"rtpmap">> -> ParseRtpmap(s, kv.val)
            [] kv.key = <<"fmtp">> -> ParseFmtp(s, kv.val)
            [] kv.key = <<"framesize">> -> ParseFrameSize(s, kv.val)
            [] OTHER -> s

ParseTitle(s, txt) == [s EXCEPT !.title = txt]
ParseDesc(s, txt) == [s EXCEPT !.comment = txt]

\* Mutant: m_skip_media is not looked at.
SkippedNot(s, letter) == FALSE

\* What is skipped ends at the next media.
Skipped(s, letter) == s.skip /\ letter # "m"

ParseSdpLine(s, line) ==
  IF Skipped(s, line.letter) THEN s
  ELSE CASE line.letter = "m" -> ParseMedia(s, line.val)
         [] line.letter = "c" -> ParseConn(s, line.val)
         [] line.letter = "a" -> ParseAttr(s, line.val)
         [] line.letter = "b" -> ParseBitRate(s, line.val)
         [] line.letter = "s" -> ParseTitle(s, line.val)
         [] line.letter = "i" -> ParseDesc(s, line.val)
         [] OTHER -> s

\* The description after each of the lines.
Reading(text) ==
  LET Sofar[n \in 0 .. Len(text)] ==
        IF n = 0 THEN EmptySdp ELSE ParseSdpLine(Sofar[n - 1], text[n])
  IN Sofar
ParseSDP(text) == Reading(text)[Len(text)]
-----------------------------------------------------------------------------
\* Writing.

WriteSdpHeader(s) ==
  << L("v", <<"0">>), L("o", <<"-">>),
     L("s", IF s.title # << >> THEN s.title ELSE UNNAMED),
     L("c", <<"IN", BLANK, "IP4", BLANK, "0.0.0.0">>), L("t", <<"0", BLANK, "0">>),
     L("a", <<"tool", ":", "libavformat">>) >>

WriteMediaType(m) ==
  << L("m", m.type \o <<BLANK, "0", BLANK, "RTP", "/", "AVP", BLANK, Numeral(m.payload)>>) >>

\* addFormat: a text too long for its buffer is not written.  Only parameters can
\* be that long: the other texts stand in arrays of 256 characters or less.
AddFormat(line) == IF Fits(line.val) THEN <<line>> ELSE << >>
FmtpText(m) == <<"fmtp", ":", Numeral(m.payload), BLANK>> \o m.config
FmtpLine(m) == AddFormat(L("a", FmtpText(m)))

\* Mutant: no channels.
WriteMediaAttrPlain(m) ==
  LET N(n) == Numeral(n)
      map == <<"rtpmap", ":", N(m.payload), BLANK>> \o m.name \o <<"/", N(m.rate)>>
  IN (CASE m.type = <<"video">> -> << L("a", map) >>
        [] m.type = <<"audio">> -> << L("a", map) >>
        [] OTHER -> << >>)
     \o (IF m.width > 0 /\ m.height > 0
         THEN << L("a", <<"framesize", ":", N(m.payload), BLANK, N(m.width), "-", N(m.height)>>) >>
         ELSE << >>)
     \o (IF m.config # << >>
         THEN FmtpLine(m) ELSE << >>)

WriteMediaAttr(m) ==
  LET N(n) == Numeral(n)
      map == <<"rtpmap", ":", N(m.payload), BLANK>> \o m.name \o <<"/", N(m.rate)>>
  IN (CASE m.type = <<"video">> -> << L("a", map) >>
        [] m.type = <<"audio">> -> << L("a", map \o <<"/", N(m.channels)>>) >>
        [] OTHER -> << >>)
     \o (IF m.width > 0 /\ m.height > 0
         THEN << L("a", <<"framesize", ":", N(m.payload), BLANK, N(m.width), "-", N(m.height)>>) >>
         ELSE << >>)
     \o (IF m.config # << >>
         THEN FmtpLine(m) ELSE << >>)

WriteSdpMedia(m) ==
  WriteMediaType(m)
  \o (IF m.ttl > 0
      THEN << L("c", <<"IN", BLANK, "IP4", BLANK>> \o m.ip \o <<"/", Numeral(m.ttl)>>) >> ELSE << >>)
  \o (IF m.bitRate > 0
      THEN << L("b", <<"AS", ":", Numeral(m.bitRate \div 1000)>>) >> ELSE << >>)
  \o WriteMediaAttr(m)
  \o << L("a", <<"control", ":">> \o m.path) >>

GenSDP(s) == WriteSdpHeader(s) \o FlattenSeq([i \in DOMAIN s.media |-> WriteSdpMedia(s.media[i])])
-----------------------------------------------------------------------------
Init == lines = << >> /\ sdp = EmptySdp

\* One line of the text.  More media than there are places are not modelled.
Read(letter, Parse(_, _)) ==
  \E line \in Line :
    /\ line.letter = letter
    /\ Len(lines) < MAX_LINES /\ (letter = "m" => Len(sdp.media) < MAX_SDP_MEDIA_CNT)
    /\ lines' = Append(lines, line)
    /\ sdp' = IF Skipped(sdp, letter) THEN sdp ELSE Parse(sdp, line.val)

ReadMedia == Read("m", ParseMedia)
ReadConn == Read("c", ParseConn)
ReadAttr == Read("a", ParseAttr)
ReadBitRate == Read("b", ParseBitRate)
ReadTitle == Read("s", ParseTitle)
ReadDesc == Read("i", ParseDesc)

Next == ReadMedia \/ ReadConn \/ ReadAttr \/ ReadBitRate \/ ReadTitle \/ ReadDesc

Spec == Init /\ [][Next]_vars
-----------------------------------------------------------------------------
\* The lines that open a media; the lines in front of the first one, and those up
\* to the next one.
Heads == {i \in DOMAIN lines : lines[i].letter = "m"}
EndOf(i) == Min({j \in Heads : j > i} \cup {Len(lines) + 1}) - 1
Session == SubSeq(lines, 1, EndOf(0))
Block(i) == SubSeq(lines, i, EndOf(i))

\* What a block gives behind the session, when there is no other; the next head
\* completes it.
Alone(i) == ParseSDP(Session \o Block(i)).media
Posted(i) == IF EndOf(i) < Len(lines) THEN PostMedia(Alone(i)[1]) ELSE Alone(i)[1]
Taken == {i \in Heads : Alone(i) # << >>}
Place(i) == Cardinality({j \in Taken : j <= i})

\* A media depends on the lines in front of the first media and on its own: the
\* media of a description are those that its blocks give alone, one after the
\* other.  Nothing of a media that is skipped reaches its neighbours.
BlocksIndependent ==
  /\ \A i \in Heads : Len(Alone(i)) <= 1
  /\ Len(sdp.media) = Cardinality(Taken)
  /\ \A i \in Taken : sdp.media[Place(i)] = [Posted(i) EXCEPT !.idx = Place(i) - 1]

\* What a player is told of a media.  Parameters that do not fit in a line are
\* left out, and a bit rate is told in thousands, if it is not negative.
HasRate(m) == m.type # <<"application">>
HasSize(m) == m.width > 0 /\ m.height > 0
Said(m) ==
  [type |-> m.type, payload |-> m.payload, path |-> m.path,
   config |-> IF Fits(FmtpText(m)) THEN m.config ELSE << >>,
   bitRate |-> IF m.bitRate > 0 THEN m.bitRate \div 1000 ELSE 0,
   encoding |-> IF HasRate(m) THEN <<m.name, m.rate, m.channels>> ELSE << >>,
   size |-> IF HasSize(m) THEN <<m.width, m.height>> ELSE << >>]

\* DESCRIBE passes on what ANNOUNCE said: read by the same rules, the text that
\* is written of a description gives the same media, in the same order, with
\* the format, rates, parameters, sizes and paths that were announced.  Two
\* things are lost on the way and so not asked for: parameters that make a line
\* of 1024 characters or more (httputil.cpp:589), and of a bit rate that is not
\* positive, as "-1" or a product that overflowed, everything, of another one
\* what is below a thousand (rtspsdp.cpp:272).
DescribedAsAnnounced ==
  LET again == ParseSDP(GenSDP(sdp)).media
  IN /\ DOMAIN again = DOMAIN sdp.media
     /\ \A i \in DOMAIN again : Said(again[i]) = Said(sdp.media[i])

\* What that takes: no line has a URL whose path is again a URL.  It would be
\* written as the path of a media, and read as the address of one.
PlainPaths ==
  \A line \in Line :
    LET p == SplitUrl(Split(line.val, ":").val).path IN SplitUrl(p) = [schema |-> << >>, path |-> p]
=============================================================================
