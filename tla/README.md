# A TLA+ development of rtsp_platform

This directory holds TLA+ models of the RTSP server in `src/src`, TLC
configurations that check them, and proofs that TLAPS checks. File names and
line numbers refer to the repository.

## The system

A client announces a group of media (ANNOUNCE with an SDP), sets up one stream
per media (SETUP, which creates a session) and records (RECORD): it sends RTP
packets over UDP to the server. Other clients set up streams on the same media
and play (PLAY): the server sends them each packet it accepts, under its own
SSRC and sequence numbers. RTCP reports and BYE packets travel on a second
socket. TEARDOWN removes streams.

The frame library `sockapi` (only its headers are here) reads sockets, hands
bytes to `parseData`, queues what `dispatch` is given, and calls `process`,
`onClose` and the timers. The code has no lock: the models assume, as it does,
that one thread runs the handlers. A handler is one atomic step; the order of
handlers is arbitrary.

| component | files | state | operations | depends on |
|---|---|---|---|---|
| RtpInstMng, RtpCenter | `encoding/rtpinst.cpp`, `rtpcenter.cpp`, `rtpdata.h` | per instance: two address maps, SSRC map, player and publisher list, sequence number; per stream: role, SSRC, addresses, statistics | addFF, removeFF, activateFF, procRtp, procRtcp (SR, RR, SDES, BYE), sendRtp, sendSR, sendRR | RtpTool, MsgCenter |
| RtspHandler | `encoding/rtspcenter.cpp` | the slots of each session | dealAnnounce, dealSetup, dealPlay, dealRecord, dealTeardown, dealDescribe | RtspSess, RtspRes, RtpInstMng |
| RtspSess | `rtspsess.cpp` | sessions by id | genSess, addSess, findSess | |
| RtspRes | `encoding/rtspres.cpp` | groups by path, their instances, ports and sockets | addGrp, findGrp, findInst, setupFF, delFF, bindInst | SdpUtil, BitSet, RtpCenter |
| BitSet | `bitset.cpp` | bits of the ports, free count, cursor | nextPort, recyclePort | |
| SdpUtil | `encoding/rtspsdp.cpp` | none | parseSDP, genSDP | HttpUtil |
| RtpTool, Encoder, Decoder | `encoding/rtpproto.cpp`, `encoder.cpp` | none | parse and generate RTP and RTCP packets | |
| HttpTool | `http/httptool.cpp` | per connection: read state, head, body, lengths | parseData | HttpCenter |
| HttpCenter, TestDemo, HttpCli, HttpSvr, Service | `http/`, `service.cpp` | dealers; connection contexts | parse, process, onClose, procFrameHd; the demo echo, the load client | HttpTool, MsgCenter |
| MsgCenter | `msgcenter.cpp` | messages; caches with a count of users | creat, ref, release, dispatch, send | sockapi |
| HttpUtil, TokenUtil, BaseConfig | | none or configuration | strings, buffers | |

What is hard in it:

* Datagrams and requests of several clients interleave. Streams are found by
  address, SSRCs by a map, and both outlive or forget streams in ways that
  depend on the order of SETUP, TEARDOWN and BYE.
* Paths: a request path can name a group, a media, or both at once.
* The role of a stream is kept twice, as a flag and as membership in a list.
* Ports are a bounded resource behind a bit mask that marks the wrong bits, and
  a pair whose second port fails to open is half taken.
* Frames, replies and contexts share caches that their last user frees; a
  connection may end in the middle of each.
* TCP cuts messages anywhere; the parser keeps its state across cuts.
* 16- and 32-bit counters and clocks wrap in the statistics, which are cut into
  intervals by the reports themselves.

What makes each component correct is listed with the hazards in `PROJECT.json`
and stated by the properties below.

## Modules

### The media server

`RtpInstOps`: the operations on an instance and its streams, as operators on
records: the functions of RtpInstMng and `validSsrc`. Lists are sets, a map is
a total function with `NoFF` where it has no entry. The SSRC map holds the
address of the holder in the code; here it holds the holder, `Own` for the
instance itself.

`RtpInst` (extends it): one instance with all streams ever set up on it, and
six actions: `Announce`, `Setup`, `Activate` (PLAY and RECORD), `Teardown`,
`ProcRtp`, `ProcRtcp`. Any datagram may come from any address at any time, so
loss, duplication and reordering are covered. The verdict of `validSeq` on a
sequence number is an input. Two history variables: `last`, the last sequence
number sent to each stream, and `forgotten`, the SSRCs that a BYE erased while
in use.

`RtspServer` (extends `RtpInstOps`): sessions, their slots, the groups and all
instances. A path is a sequence of names, because groups and media share one
name space. It implements `RtpInst` for every instance:
`Instance(i) == INSTANCE RtpInst WITH ...` maps the slots set up elsewhere to
fresh ones (`View`). `RtpInst` is thus the abstract specification of what the
server does to one instance, whatever sessions do with the others.

`ClockTime`: the clocks, as fractions of a second that wrap: an NTP time, its
middle 32 bits, media time. `RecvStat` (extends it): `validSeq`,
`updateRtpRecv`, `chkRecv`, `genReport` and `procSR` as operators on the
statistics of a publisher. `SendStat`: `sendRtp`, `chkSend`, `genSender` on
those of a player. `MediaStat` composes them: a packet that arrives goes through
both, up to the last report it gives rise to, next to a history that numbers and
counts without wrapping. The network drops, delays, repeats and reorders packets
and SRs, the publisher may start over, players come and go.

`PortPool`: BitSet with one iteration of the scan in `nextPort` as a step, so
that its termination can be stated. `MediaPorts` composes it with `addGrp`,
`bindInst` and sockets that fail to open at any time: every step of it is one of
`PortPool` or leaves the pool alone. Two things of the code have no action
there: `bindInst` never returns a failure, because an exhausted pool keeps
`nextPort` from returning, so that the clean-up of a half-built group
(`freeGrp`) closes no socket; and `recyclePort` has no caller. The latter is an
action of `PortPool` under the constant `Recycles`: the proofs cover it, the runs
set it to FALSE as the code has it.

### The formats

`Octets`: Encoder and Decoder on sequences of octets. `RtpFormat` (extends it):
what RtpTool and the `gen` functions of RtpCenter write and read. `RtcpWire`
(extends that): one RTCP datagram, from the packets that were meant over what
was written and what arrived to what was read, in one step per packet. `RtpRelay`
(extends that) adds one media packet on its way through servers.

`SdpText`: TokenUtil and `splitUrl` on sequences of words. `SdpParse` (extends
it): SdpUtil, one action per kind of line; `ParseSDP` and `GenSDP` are the
whole parser and generator, the first by the step that the actions take, line by
line (`Reading`). The codec id is left out: nothing reads it.

### The connection

`HttpStream`: what a peer sends. A character is CR, LF or a symbol of a head
line (its command, a field that matters, one that does not, digits of a length)
or of a body; a plan has the characters of some messages, the frames they are
owed and from which character on the parser may give up. `HttpFrames`: the
abstract specification, a queue of the frames owed. `HttpParser`: HttpTool,
one step per iteration of `parseData`, with the bytes arriving in fragments of
any size; `ImplementsFrames` is the refinement.

`HttpEcho`: both ends of a connection as HttpCenter sees them, with the dealers
(RtspHandler, TestDemo, HttpCli) as owners of the frames, and CacheUtil's counts of
users. It takes the parser's promise for granted: a frame is read and dispatched
in three steps, head, body, frame. Of the library behind MsgCenter it assumes
what the code relies on: the messages of an end are processed and written in
the order they were given to it, one handler at a time, different ends in any
order; a connection may end at any time; after `closeData` nothing more is parsed and no
reply is taken, but frames that wait may still be processed; a message that is
freed releases its caches. A cache with no user is handed out again.

### The others

`MC_*`: values for TLC. `RtpInst_proofs`, `RtspServer_proofs`, `MediaPorts_proofs` (of
`PortPool` too), `MediaStat_proofs`, `RtpRelay_proofs` (of `RtcpWire` too),
`SdpParse_proofs`, `HttpParser_proofs`, `HttpEcho_proofs`: theorems.

Definitions called mutants are variants of the definition that follows them,
each with a bug such code could have. They are used by no specification; each
property has one that it detects (`PROJECT.json`, "mutants").

## Runs

| run | instance | shows |
|---|---|---|
| `rtp_inst` | 2 slots, 2 addresses, SSRCs 0, 1, 2, sequence numbers modulo 2 | the properties of `RtpInst` |
| `rtsp_server` | 2 sessions of 1 slot, 2 nested groups, datagrams; or 1 session of 3 slots, 3 paths, groups of 2 media | every instance implements `RtpInst`; streams stay reachable under the path of their SETUP |
| `media_stat` | numbers of 3 bits, 3 clock ticks across a wrap of seconds, 5 packets, one player | reports say what was received, lost, sent and when |
| `media_ports` | 2 words of 16 bits, 24 usable ports, 2 groups and a nameless one of up to 2 media | instances have their own pairs, sockets have an owner, an ANNOUNCE is answered |
| `wire` | RTCP datagrams of up to 2 packets, padded or not; reports of the server; media packets with sources, extension and padding through 2 servers; every cut | packets are read as written, one after the other; reports fit their buffers; the payload arrives, and nothing else |
| `sdp_parse` | up to 4 lines out of 19 | media are parsed apart from each other; what is described is what was announced |
| `http_parser` | one message of 23, or two, cut anywhere | the frames dispatched are those of the messages |
| `http_echo` | a peer with 3 of 5 kinds of requests, or the load client with 2 under way | caches are used while somebody needs them, each request is answered once and in order |
| `unique_ssrc` | as `rtp_inst` | violated: two streams with one SSRC after a BYE |
| `port_pool_returns` | 2 words of 16 bits, no ports come back, as in the code | violated: the scan of an exhausted pool never ends |
| `head_lines` | as `http_parser` | violated: a line that is one too many is noted behind its array |
| `sdes_end` | as `wire` | violated: a chunk whose END octet ends a word is refused |

### Bounds, and why they are enough

`RtpInst`. Two slots are the least that share an address, an SSRC or a player
list; two addresses let one slot use different ones for RTP and RTCP and let
slots swap them. An SSRC is 0, the instance's or another one: with three, two
streams can compete for one that is not the instance's. Sequence numbers only
have to differ from the next one. The proofs have no such bounds.

`RtspServer`. The one SSRC but 0 is the instance's, because `rtp_inst` has the
rest; the point is which instances and slots a step touches. Requests that act on
several streams of a session need three slots, for which all datagrams are too many, so that
a behaviour keeps to one of two bounds of `MC_RtspServer`: `Sessions` (two sessions of one slot
each, datagrams) or `Slots` (one session with all its slots, groups of two media, no
datagrams). Slots are never
given back by the code, so that a behaviour ends when all are used: deadlock
is not checked. The code does not compare `m_stream_cnt` with the size of its
array; the models stop there, as `SdpParse` does at the ninth media.

`PortPool`, `MediaPorts`. A pair reaches four bits on: a 16-bit word has pairs that
overlap, and two that meet its end, and two words make the cursor go around. The
upper bits are no UDP ports, as in the code. Two groups of two media are enough
for sockets of one group to be in the way of the other; the third path is the
empty one, which `add` refuses.

`MediaStat`. `RTP_SEQ_MOD` = 8 stands for 2^16 and its square for 2^32, with the
windows of `validSeq` scaled (`MAX_DROPOUT` 4, `MAX_MISORDER` 3). A publisher
starts just before a wrap or at 0; with steps of up to four numbers five packets run
over two wraps of the narrow counter. A second has 3 ticks and the media time
5, which divide neither each other nor the fractions; three moments lie more than
the intervals of the reports apart and around a wrap of the seconds; the
publisher's clock is 5 ticks ahead. A packet has
2800 octets, so that a report is due after every two. Packets and clock are bounded:
deadlock is not checked.

`HttpEcho`. The requests have no body, or one of one frame or two, go on or end the
connection, and are for RTSP or for the demo; three of them make the third start
while the first is not written. Only one RTSP frame per request: RtspHandler
would answer each frame. The ends of different connections share nothing but the heap, so
that one connection at a time is enough; ten caches (`MaxCaches`) are never all in
use, so that `Room`, which stands for memory to be had, never keeps a step from
being taken. A connection may end for good: no deadlock check.

`RtcpWire`, `RtpRelay`. Names of 0 to 4 octets have every residue modulo 4, which is all
that padding depends on; the server's own names are the 16 digits `genSess`
makes. (`calcSdesLen` would be too small for names of length 2 or 3 modulo 4.)
Two packets show whether the reader finds the next one. Losses go to the end of
the range of 24 bits; the counter has 32, and beyond 2^23 the number read is
negative. Of a chunk with more than `MAX_ITEM_SIZE` items, the
first ones are kept. A datagram is read once: no deadlock check. Of the media
packets: sources 0, 1, 15; no, an empty, a longer extension; padding 0, 1 and
4; types at both ends of the range that is RTCP's; payloads of 0, 1, 3 octets.

`SdpParse`. Four lines are a media that is taken, one that is refused or whose
attributes have another format, and lines between, in front and behind. The
lines are the kinds the parser tells apart, and malformed ones of each that it
reads in part; none has a path that is a URL again (`PathsArePlain`). An int has 21 bits, so
that a bit rate of 2300 thousand does not fit; another one is negative; numbers have one or more
letters behind them. Parameters fit in a line (12 words), but not together with those of a
second `fmtp`. Names, paths and addresses are shorter than the arrays they are copied to (32 to
256 characters), where `TokenUtil::copy` would cut them.

`HttpParser`. The limits are scaled so that messages of a few characters are
just below, at and above each: a body of a frame has 2 characters, a head 13,
4 lines, a chunk length 4 digits, the content 8, an int 4 bits. Every message
of `MC_HttpParser` comes alone and behind the three that leave most in the
context: a head at its limit, a body with a length and a chunked one, both of
several frames. A head at its limit is refused if a fragment ends inside the
empty line after it: the `limit` messages, after which the abstract
specification allows the connection to break. A peer may stop sending and a
connection is given up after an error: no deadlock check.

Symmetry is declared over interchangeable slots, addresses and sessions in runs
without liveness properties only.

### Fairness

`WF_vars(Scan)` in `PortPool`, the same of `BindInst` in `MediaPorts` and of
`ParseData` in `HttpParser`: loops that wait for nothing. `HttpEcho`: the library
reads, processes and writes whatever an end has (`ParseData`, `Process`, `Write` of
each end), which is all that it is there for, and the server accepts
the load client. Nothing is assumed of clients, networks and the ends of
connections.

## Properties

Of an instance. `RegistrySound`, `FoundUnlessShared`: the maps lead to streams
that are set up and to all whose address no other slot was given. `ListsSound`.
`HolderUsesIt`: no SSRC stays reserved without a user. `ConflictOnlyAfterBye`:
what is left of SSRC uniqueness. `PlayersUpToDate`: a player misses no packet
from its first one on. `RoleSticks`: the first of PLAY and RECORD decides the
list for good. `MediaIsVouchedFor`: packets leave on behalf of a live publisher.

Of the server. `StreamsReachable`: a stream that is set up is among the slots
requests look at. `AddressableAsSetUp`: the path of its SETUP reaches it
whatever was announced since. `OncePerInstance`. `OnHomeOnly`: no instance but
its own knows a stream. `GroupsStay`. `InstancesImplemented`.

Of the statistics. `NumbersKept`: cycles, highest number and loss, with what was
put away at the last report, are the publisher's. `ReportTrue`: a report is what
the history says. `RoundTrip`: the publisher gets the time an SR was under way
from it, up to three roundings. `SrTrue`: an SR counts what its player was sent. `SameTimeline`: media
time runs with the clock an SR ties it to, whenever a player joined. `ReportsEarned`:
each report is paid for by media of its own, which no other report counts, not across
restarts either. The price is what `chkSend` and `chkRecv` ask: octets of which 0.5% are
`DEF_RTCP_MIN_SIZE` = 28. That does not keep reports within the 0.5% of rtpproto.h:34: a report
has 28 or 32 octets, and behind them a chunk of 12 and the name.

Of the ports. `PairsDisjoint`; `SocketsOwned`: every open socket belongs to one
instance or to the pair being tried, and no two instances share a port (instances of a
group that `add` refused included: nobody closes their sockets, and no property asks for it);
`AnnounceReturns`.

Of the formats. `ReadInOrder`, `WhatArrivedIsRead`, `ReportsGoOut`;
`PayloadKept`: the payload arrives whole at the player, for every type that is not
RTCP's, or the packet is refused; `BlocksIndependent`: the
media of a text are those of its blocks, each parsed alone behind the lines of
the session, whatever the media before it, taken or refused; `DescribedAsAnnounced`: what `genSDP` writes of a description,
read by `parseSDP`, says the same, but for parameters that make a line of 1024 characters or
more, which `addFormat` drops, and bit rates, which are written in thousands and if positive.

Of the parser. `ImplementsFrames`, and what its refinement mapping does not
see: `NeverBack`, `BuffersKept` (also that it stays within the fragment, and that the lines of a
head go at most one place behind their array, when the connection is given up), `Prompt`
(no frame waits for bytes it does not need). `LinesKept`, which the code violates: the lines stay
in their array.

Of the connection. `UsersCounted`: the count of a cache is that of the contexts,
frames and replies that use it. `OneReplyEach`, `EchoTrue`: a request is
answered once, in order, with its own body. `ClosesWhenDone`: a connection is
given up only after the whole request that asks for it. `LoadKept`: the load
client keeps its requests under way. `Answered`.

## Proofs

They rest on the assumptions of the modules about their constants only:
`OpsAssumption`, `InstAssumption`, `ServerAssumption`, `PoolAssumption`,
`MediaPortsAssumption`, `ClockAssumption`, `StatAssumption`, `SendAssumption`,
`MediaAssumption`, `FormatAssumption`, `WireAssumption`, `PeerAssumption`, `RelayAssumption`,
`StreamAssumption`, `ParserAssumption` and `EchoAssumption`. That
is any number of slots, addresses, SSRCs, paths, sessions, words, medias, servers,
connections and caches, any width of a number, clock and sample rate, any limits of
the parser, any bytes, any media packet that has the shape of one, and any requests
that have the shape of a message. `WireAssumption` leaves out names of the server of
length 3 modulo 4, for which `calcSdesLen` is too small and which `genSess` does not make.
`PeerAssumption` is what makes octets a packet of a peer: whole words, a count of five
bits, a length of sixteen, and padding whose last octet counts it.

`RtpInst_proofs`: all properties of the run `rtp_inst`. None of
them is inductive alone: the lookup in `validSsrc` detects a conflict
only if every SSRC in use is registered, which is `RegisteredUnlessForgotten`;
that a torn-down stream leaves no map entry needs that an entry is under the
stream's own address (`RegistrySound`), since `removeFF` erases by address.
`IInv` is their conjunction. There is a lemma per handler that states its
effect (`...Effect`, the `...Post` operators), one that `IInv` survives it
(`...IInv`), and `Inductive` combines them.

`RtspServer_proofs`, first part: `TypeOK`, `StreamsReachable` and `AddressableAsSetUp`. Their
`IInv` adds `NotYet` (a slot beyond a session's count is untouched: what makes
the next SETUP find a fresh one), `AtHome` and `EntriesAtHome` (a stream points
to, and is known by, no instance but the one it was set up on: a TEARDOWN
reaches only one instance), and `GroupsSetUp` (an instance is set up when and
only when its group is announced). A request is a set of streams it acts on;
the lemmas about the operations of `RtpInstOps` say what that does to one instance.

Second part: `OnHomeOnly`, `OncePerInstance`, `GroupsStay`. The first rests on
`OwnEntries`: every entry of an instance is one of its streams, under the address or
SSRC which that stream holds, so that a TEARDOWN, which erases by these, leaves
none; for SSRCs this needs that a stream that changes its SSRC gives up the
old one. And the refinement: the specification of the server implies that of every
instance (`Refines`, `AllRefine`), under the mapping the runs check. A step of
the server is a step of each instance or leaves it alone; the case that needs
the invariant is a request that acts on streams of several instances.

`MediaPorts_proofs`, of the pool: `PairsDisjoint`, `BitsOwned`, `CountKept`, with recycling or without.
Each needs the others: a pair is disjoint from those handed out because every
bit of theirs is 1, and recycling one leaves the bits of the others because
they are disjoint. That the cursor stays in the pool and even is nonlinear
arithmetic, in lemmas of its own.

Of the handler: every step is one of the pool or leaves it alone
(`PortsImplementPool`), and `SocketsAreOwned`. Its `MInv` adds what the handler
knows at each stage, above all that the port whose first socket is open is on no
socket of an instance. This comes from the attempt to open it and not from the
pool, whose pairs may overlap with the second port of another.

`MediaStat_proofs`: all properties of the run `media_stat`. The inductive invariant
says what each narrow counter stands for: `Numbers` ties five sums of the counters
to the publisher's unbounded numbers, each modulo its own width. The loss, which is
what a report needs, is none of them: it is put together from the number expected at
the last report and what was put away then, so that all five have to be kept for
one of them to be. `BoundsInv` (what was reported was received before) keeps the
numbers in order; `ShareRecvInv` and `ShareSendInv` count the octets that a report
has used up, since `ReportsEarned` alone does not survive the next report; `SentInv`
ties a player's counters to the relayed total. For the times, `TimeInv` and `TripInv`
say which moment each stored time stands for; the rest is that a difference of two
wrapped times is the difference of the moments up to the rounding of each
conversion, three in a round trip (`rounding` in the property).
Three of these theorems have a hypothesis, because the code has a limit there.
`ReportsAreTrue`: twice the numbers and the packets since the publisher started are
within 32 bits (`Countable`); beyond, `genReport` reads a loss as a surplus.
`TimelineIsKept` and `RoundTripIsTold`: the server runs for less than the 136 years
that the seconds of an NTP time can count (`Counting`). `TimelineIsKept` has another one: a
sample rate times 1000 fits in 32 bits (`RateFits`, up to about 4.3 MHz), because `ntp2Unit`
multiplies milliseconds by the rate (rtpinst.cpp:96), and nothing limits the rate of an SDP.

`RtpRelay_proofs`: `ReportsGoOut`, `WhatArrivedIsRead`, `ReadInOrder`, `PayloadKept`.
For the first, an encoder is followed through what is written (`Wrote`: it did not fail,
and has so many octets; `Keeps`: those before are not touched); the last octets are the
zeros of the chunk, which fit or are not needed (`ChunkWrote`). For the second, `Put`
says what the octets of a packet must be for a reader to get from its first to its last:
`FinishRtcp` makes them so (`FinishWrote`), the peer's do (`PeerPacket`), they stay so
whatever is appended and cut off behind (`PutStays`), and `parseRtcpPkg` takes such a
packet if and only if it is there up to its end (`ReadPacket`). `WireInv` says that the
datagram is such packets one behind the other, that the reader stands between two of
them, and why it stopped.

For the third, `Lies(d, b, s)` is the one idea: the octets `s` are in `d` behind the
first `b`, whatever is around them. What is put together lies in it (`LiesConcat`, and
`Stacked` of any number of parts, for `FlattenSeq`), what lies in a part lies in the
whole (`LiesWithin`), stays there (`LiesOn`), and is the field the decoder takes
(`LiesField`). So each kind of packet is read from where it lies: reports
(`ReadReports`, with the sign of their three octets, `ThreeOctets`), chunks
(`ReadSdes`), goodbyes (`ReadBye`), `APP` (`ReadApp`). The items of a chunk are a
recursion from the end of the packet, the chunks one from its beginning: an induction
over the octets and one over the chunks, by the least place where it fails (`ItemsIs`,
`ReadItems`, `ChunksIs`, `ReadChunks`). The zeros behind a chunk are counted before the
END by the writer and behind it by the reader, which is the same unless the chunk fills
a word (`SamePadding`); in the server's own chunk they may be missing, if the name ends
with a word (`NameEnds`). `Says` is what the reader needs of the octets between two
ends: the count, the type and the payload of the packet, in front of the padding.
`ReadInv` adds to `WireInv` that all packets of the datagram say what was written, and
that those taken so far were read so. The theorem `AsItWasWritten` has a hypothesis,
because the code has a limit there: `genReport` keeps the losses it reports from being
negative but does not clamp them to the three octets of their field. That the reader is
never out of place needs no such hypothesis (`NeverOutOfPlace`).

For the fourth, `PacketShape` says where the fields of a packet are among its octets,
`ParseCut` what `parseRtpPkg` makes of it wherever it was cut, `ParsePlain` what it
makes of a packet of a server. The property is about players and says nothing of a
datagram on its way; `RelayInv` says of every datagram between two servers that its
octets behind the header are those of the payload, and that its type is none of RTCP,
for which the next server would drop it.

`SdpParse_proofs`: `BlocksIndependent` and `DescribedAsAnnounced`. Of the constants it
is assumed that a line is a letter and words, that a number has one numeral, which
is no delimiter, that the defaults of the formats are numbers, and that what an int keeps of a
number, or of a thousand times one, is a number (`NumberAssumption`, `LineAssumption`). What
`toNum` makes of a word that is no numeral is a constant (`Mixed`), and so is what `addFormat`
has room for (`Fits`). For the first, the
whole text and its last block alone are read in step: `Same` says that their last media agree but for
their number, and that they skip together; a line of a media finds the same in both and
does the same to both (`Alike`, a lemma for each kind of line), and to no other media
(`Follows`). The head of a media is where they part (`HeadIs`): the long text completes
what was last, which may have been completed before by a media that was refused, so
that `postMedia` has to do nothing the second time (`PostIs`). `TextInv` puts the
blocks in their places. `ParseSDP` of one more line is a step from that of the text
(`ParseAppend`), which is an induction over the lines, by the least line where it fails.

For the second, that a line is written and read back the same depends on what was
taken into the description: `parseSDP` has to normalise whatever it keeps to what
`genSDP` can write. `GoodSdp` says so, and is the inductive invariant: a name has no
blanks around it and no slash; parameters are `key=value` with one semicolon between two
of them (`Laid` has the places of the semicolons), and stay so when another `fmtp` line is
joined (`ConfigJoined`); a path is what `splitUrl` gives of itself; a number is one that an int holds (`Value`), a rate not
negative; a bit rate is none or its thousands can be read back (`RateGood`); there is no time to
live. `LineGood` is the step, with a lemma
for each kind of line, that must show it for every text that a peer can send, since
tokens are cut out of it wherever the delimiters are. Then the text of a media is read
line by line: each `...Again` lemma says that one line, read into a media that has what
the lines before it say (`Shows`), adds its own and keeps the others. `Runs` is what
the parser makes of several lines, `BlockAgain` puts those of a media together and
`BlocksRun` the medias, an induction over their number. The parameters are taken
apart at the semicolons one by one and joined again (`ConfigAgain`), which ends where they
began since they were normalised once. What is lost on the way is part of what is stated, in
`Said`: parameters too long for a line, and a bit rate but for its thousands (`Kept`, `Told`).
The hypothesis of `AnnouncedIsDescribed` is
`PlainPaths`, because the code has a limit there: a path that was cut out of a URL and
looks like a URL itself is cut again when it is read. TLC refutes the property with
such a line among those of `MC_SdpParse`, whose paths are plain (`PathsArePlain`).

`HttpParser_proofs`: `BuffersKept`, `NeverBack`. The first allows what the code does: the line that
is one too many is noted in `lines[MAX_LINE_CNT]` (httptool.cpp:333) before `isValidHead` refuses
the head, so that this place is written, no other, and only as the connection is given up
(`LinesInv`). The sizes alone are not inductive.
`CtxInv` adds why they hold: of the head, that there is at most one range for every
LF in it (`analyseHead` skips the empty line, the only one that `isValidHead` is
not asked about, hence the limit + 2), which takes counting the lines of a text that
is longer than the one checked before (`LinesUpTo`, `FeedsConcat`); of a chunk length,
that what was kept of it has no LF, so that the first LF lies in what this fragment
added and no more than that is given back (`AddedFeed`); of `m_rd_len`, what it
stands for in each read state, as one field serves them all. Nothing is assumed of
the plans but that they are characters, so that this holds for malformed input too.

`HttpEcho_proofs`: `UsersCounted`. The set of users is that of all ends together; a
step changes what one end uses (`Holds`: its context, frames and messages), and the
lemma `UsersChange` says that the whole set changes by as much, so that it is enough to
compare that with what the step does to the counts. `EndsOK` has why they agree: a
context that is about to be replaced holds nothing, since `onClose` or the last frame
freed it, and no frame has one cache as its head and its body, since the second is
handed out while the first is in use. The counts are compared where caches are taken
and given up in one handler, several at a time (`DispatchFrame`, the dealers,
`OnClose`), which `DelFrameIs`, `DispatchCaches` and `HeldIs` add up.

Then `EchoTrue` and `ClosesWhenDone`, from the counts and `EInv`. A cache in use keeps
its text in every step (`UsedStep`, `StepStays`), so that what was true of a text when it
was read is true when it is written. Neither property is inductive: that the k-th
reply answers the k-th request needs that frames are processed in the order of the
requests, and that exactly the first of each is answered. `EInv` says this locally: a frame
has the head of its request and its piece of the body (`FrameOK`), and is followed by the
next piece or by the first of the next request (`Follows`), the last one by what the
context reads next; the first that waits belongs to the request after the last one that was
replied to, or goes on with that one (`TurnOK`); the message to write at place k
is the reply to the k-th request without one (`ReplyOK`). For `ClosesWhenDone`, the
request that asked for the end was parsed to its last frame and replied to (`LastOK`), and
stays so; a connection of `HttpCli` only carries requests that go on (`LoadOK`).
The lemmas about `Serves` are one for each handler, of one end in isolation; `PeerStep`
puts them together, and `Elsewhere` says that no other connection is touched, but for
the caches all share.

Last, `OneReplyEach` and `LoadKept`, of all that is under way on a connection. `Waiting`
takes the first frames of the requests in the order they wait, so that the lemma `Turns`
has to count them: in a queue that `EInv` describes, the n-th first frame is of the n-th
request of those that wait. It is an induction over the places of a queue, by the least
place where it fails (`First`). `LInv` adds what the load needs: `Total` counts both ends
together, with a request of which frames are out counted by its first frame and no more
by the text it is parsed from (`Unbegun`); and what comes back has at most one piece
(`ShortOK`, from the texts that the demo may send back), since `HttpCli` answers each
frame and not each reply. Each step takes from one place what it adds to another
(`CliParses`, `SvrAnswers`, ...).

Only model-checked: the frames the parser owes (`Prompt`, the refinement of
`HttpFrames`), since what is read of a whole plan takes an induction over its messages.
Out of the prover's reach, too: liveness and ENABLED (`Answered`, `AnnounceReturns`,
`AlwaysReturns`).

## Disagreements in the code

"findings" in `PROJECT.json` quotes the lines.

* A BYE unregisters SSRCs of others, so that conflicts go undetected.
* An exhausted port pool makes `nextPort` loop forever instead of returning -1.
* A chunk whose END octet ends a word is refused.
* `readHead` notes a line that is one too many behind its array before it refuses the head.

One comment is contradicted without a run: "0.5% bandwidth" (rtpproto.h:34). `chkRecv` lets a
receiver report go when the 0.5% are 28 octets, the size of an SR without a chunk, but the
packet has 32, and a chunk of 12 and the name. `ReportsEarned` is what does hold.

No line of the repository speaks of the following, so that they are only noted:
the first packet of a publisher counts as jitter since time 0; the time stamps of
relayed packets are the time of their arrival, not the publisher's; `addGrp` ignores that
`add` refuses a group, whose sockets then stay open without one; the pairs of a
group are never given back;
the last media of an SDP gets no path from a control URL (`postMedia` runs when
the next one begins); an address with a time to live is not taken; `RTP/AVP/UDP`
is refused although the table of protocols has three parts; two `fmtp` lines
are joined without a semicolon; the path of a URL that has another URL in it is cut a
second time when the description is read back; `addFormat` drops a line of 1024 characters or
more, so that long parameters of a format are not described; a bit rate may be negative, and
then is not described, or overflow; `toNum` accepts a number with one character behind it
("96x"); `procSdes` takes the first item of the first
chunk whatever its type.

## Not modelled

* The value of the jitter: it depends on the clocks of two hosts, and no
  decision on it.
* How heads of requests and replies are read and formatted field by field (RtspRequest,
  HttpUtil): the models take the method, path, session and what `HttpStream`
  keeps of a head. An RTSP request whose body takes several frames is handled
  frame by frame; the models exclude it.
* BaseConfig: read once at the start, before any handler.
* `sockapi`: an external library of which only headers are here; what is assumed
  of it is stated with `HttpEcho`.
* The table of codecs in `avcodec.h`: only names of media are looked up in it.

What could follow: a proof of `Prompt`; the composition of `HttpEcho` with
`HttpFrames` in the place of its three parsing steps.
