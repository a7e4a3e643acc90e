------------------------------ MODULE RtcpWire ------------------------------
(***************************************************************************)
(* One RTCP datagram, from the packets its writer puts in to what the      *)
(* reader, procRtcp, takes out.  The server writes reports; a peer writes  *)
(* any sequence of packets, with padding.  What arrives may be cut short,  *)
(* as a datagram is that exceeds the buffer it is received into.  The      *)
(* reader of the server's reports is a peer that runs the same code.       *)
(***************************************************************************)
EXTENDS RtpFormat, FiniteSetsExt

CONSTANTS Packets,     \* RTCP packets of a peer
          Pads,        \* octets of padding, zero or more words
          CNames,      \* names of the server, <<>> for none
          LostCounts,  \* cumulative losses reported by the server
          MaxPackets   \* bound: packets in a datagram

\* genSess makes names of sixteen digits.  For a name of 4 n + 3 calcSdesLen has no
\* room up to the next word, and one of more than 255 has no length.
ASSUME WireAssumption ==
  /\ \A cname \in CNames : cname \in Seq(Octet) /\ Len(cname) <= 255 /\ Len(cname) % 4 # 3
  /\ LostCounts \subseteq Int

VARIABLES written,  \* history: the packets written, as they are to be read
          ends,     \* history: where each of them ends
          data,     \* the datagram that was written
          arrived,  \* the datagram that is read
          upto,     \* octets taken by the reader
          got,      \* what procRtcpBody made of each packet
          stage     \* see RtcpStage; RtpRelay adds those of RTP datagrams

vars == <<written, ends, data, arrived, upto, got, stage>>

RtcpStage == {"write", "send", "unsent", "read", "done"}

Init ==
  /\ written = <<>> /\ ends = <<>> /\ data = <<>> /\ arrived = <<>>
  /\ upto = 0 /\ got = <<>> /\ stage = "write"
-----------------------------------------------------------------------------
\* A peer.

\* The octets of a packet, as genReport, genChunk and genBye write them, with
\* any number of reports, sources, chunks and items.
ItemOctets(item) == <<item.type, Len(item.desc)>> \o item.desc
ItemsOctets(chunk) ==
  chunk.src \o FlattenSeq([i \in DOMAIN chunk.items |-> ItemOctets(chunk.items[i])])
ChunkOctets(chunk) ==
  ItemsOctets(chunk) \o Zeros(Padding(Len(ItemsOctets(chunk))))
ReportOctets(p) ==
  p.body.ssrc \o Zeros(IF p.pt = SR THEN 20 ELSE 0)
  \o FlattenSeq([i \in DOMAIN p.body.reports |-> ReportBlk(p.body.reports[i])])
SdesOctets(p) == FlattenSeq([i \in DOMAIN p.body |-> ChunkOctets(p.body[i])])
ByeOctets(p) ==
  FlattenSeq(p.body.srcs)
  \o (IF p.body.reason = <<>> THEN <<>>
      ELSE OctetsOf(Len(p.body.reason), 2) \o p.body.reason)
AppOctets(p) == p.body.ssrc \o Zeros(4)
BodyOctets(p) ==
  CASE p.pt \in {SR, RR} -> ReportOctets(p)
    [] p.pt = SDES -> SdesOctets(p)
    [] p.pt = BYE -> ByeOctets(p)
    [] p.pt = APP -> AppOctets(p)
    [] OTHER -> <<>>
Count(p) ==
  CASE p.pt \in {SR, RR} -> Len(p.body.reports)
    [] p.pt = SDES -> Len(p.body)
    [] p.pt = BYE -> Len(p.body.srcs)
    [] OTHER -> 0

\* What the fields of a packet have room for: an SSRC four octets, a count of losses
\* three, the text of an item as many as one octet can say, a reason as many as two.
SsrcOctets == [1 .. 4 -> Octet]
LostCount == -(2 ^ 23) .. 2 ^ 23 - 1
SrcReport == [ssrc : SsrcOctets, lost : LostCount]
SrcItem == [type : 1 .. 8, desc : {s \in Seq(Octet) : Len(s) \in Octet}]
SrcChunk == [src : SsrcOctets, items : Seq(SrcItem)]
Fits(p) ==
  \/ p \in [pt : {SR, RR}, body : [ssrc : SsrcOctets, reports : Seq(SrcReport)]]
  \/ p \in [pt : {SDES}, body : Seq(SrcChunk)]
  \/ p \in [pt : {BYE}, body : [srcs : Seq(SsrcOctets),
                                reason : {s \in Seq(Octet) : Len(s) \in Word}]]
  \/ p \in [pt : {APP}, body : [ssrc : SsrcOctets]]
  \/ p \in [pt : Octet \ {SR, RR, SDES, BYE, APP}, body : {<<>>}]

\* Packets have whole words, no more than their length can say, and padding one of
\* whose octets says how long it is.
ASSUME PeerAssumption ==
  /\ \A p \in Packets :
       /\ Fits(p) /\ IsRtcpPt(p.pt) /\ Count(p) \in 0 .. 2 ^ 5 - 1
       /\ BodyOctets(p) \in Seq(Octet) /\ Len(BodyOctets(p)) % 4 = 0
       /\ \A pad \in Pads : (Len(BodyOctets(p)) + pad) \div 4 \in Word
  /\ \A pad \in Pads : pad \in Octet /\ pad % 4 = 0

PacketOctets(p, pad) ==
  LET body == BodyOctets(p) \o (IF pad = 0 THEN <<>> ELSE Zeros(pad - 1) \o <<pad>>)
      padded == IF pad = 0 THEN 0 ELSE 1
  IN <<GenBit(GenBit(DEF_RTP_VERSION, 1, padded), 5, Count(p)), p.pt>>
     \o OctetsOf(Len(body) \div 4, 2) \o body

PeerWrites ==
  /\ stage = "write" /\ Len(written) < MaxPackets
  /\ \E p \in Packets, pad \in Pads :
       /\ data' = data \o PacketOctets(p, pad)
       /\ written' = Append(written, p)
  /\ ends' = Append(ends, Len(data'))
  /\ UNCHANGED <<arrived, upto, got, stage>>
-----------------------------------------------------------------------------
\* The server.

\* The datagram is sent, or given up if the encoder failed.
Send(e, size, p, cname) ==
  /\ stage = "write" /\ written = <<>>
  /\ data' = e.data
  /\ written' = IF cname = <<>> THEN <<p>>
                ELSE <<p, Packet(SDES, <<Chunk(Ssrc, <<Item(CNAME, cname)>>)>>)>>
  /\ ends' = IF cname = <<>> THEN <<size>> ELSE <<size, Len(e.data)>>
  /\ stage' = IF e.ok THEN "send" ELSE "unsent"
  /\ UNCHANGED <<arrived, upto, got>>

SendSR ==
  \E cname \in CNames :
    Send(GenSR(cname), MIN_SR_SIZE, Packet(SR, [ssrc |-> Ssrc, reports |-> <<>>]), cname)

SendRR ==
  \E cname \in CNames, lost \in LostCounts :
    LET report == Report(Ssrc, lost)
    IN Send(GenRR(report, cname), MIN_RR_SIZE,
            Packet(RR, [ssrc |-> Ssrc, reports |-> <<report>>]), cname)
-----------------------------------------------------------------------------
\* The reader.

ParseRtcp ==
  /\ stage = "send" \/ (stage = "write" /\ written # <<>>)
  /\ \E n \in 0 .. Len(data) : arrived' = SubSeq(data, 1, n)
  /\ stage' = IF IsRtcpHeader(arrived') THEN "read" ELSE "done"
  /\ UNCHANGED <<written, ends, data, upto, got>>

Stop == stage' = "done" /\ UNCHANGED <<upto, got>>

\* The loop of procRtcp: the first packet must be a report.
ProcRtcp ==
  /\ stage = "read"
  /\ IF upto = Len(arrived) THEN Stop
     ELSE LET pkg == ParseRtcpPkg(arrived, upto)
          IN IF pkg = Bad \/ (upto = 0 /\ pkg.pt \notin {SR, RR}) THEN Stop
             ELSE /\ got' = Append(got, ParseBody(pkg))
                  /\ upto' = pkg.next
                  /\ UNCHANGED stage
  /\ UNCHANGED <<written, ends, data, arrived>>

Rtcp == PeerWrites \/ SendSR \/ SendRR \/ ParseRtcp \/ ProcRtcp
-----------------------------------------------------------------------------
\* Properties.

\* The buffer that sendSR and sendRR ask for has room for what genSR and genRR
\* write: a report never fails when its turn has come.
ReportsGoOut == stage # "unsent"

\* A chunk whose END is the last octet of a word: the reader looks for a word of
\* zeros behind it.
FillsWord(p) ==
  p.pt = SDES /\ \E k \in DOMAIN p.body : Len(ItemsOctets(p.body[k])) % 4 = 3

\* Of a chunk with many items the first ones are kept.
KeptItems(items) == SubSeq(items, 1, Min({MAX_ITEM_SIZE, Len(items)}))
Kept(p) ==
  IF p.pt # SDES THEN p
  ELSE Packet(SDES, [k \in DOMAIN p.body |->
                       Chunk(p.body[k].src, KeptItems(p.body[k].items))])

\* Between two packets the reader is where the writer ended the one before.
InPlace == Len(got) <= Len(written) /\ upto = IF got = <<>> THEN 0 ELSE ends[Len(got)]

\* What the server makes of a datagram is what was written, packet by packet, and
\* it is never out of place, whatever the packets contain, and wherever the
\* datagram was cut.
ReadInOrder == stage \in RtcpStage =>
  /\ InPlace
  /\ \A k \in DOMAIN got : FillsWord(written[k]) \/ got[k] = Kept(written[k])

\* Every packet that arrived in full is taken, and none that did not, if the
\* datagram begins with a report.
WhatArrivedIsRead ==
  stage = "done" =>
    Len(got) = IF written[1].pt \in {SR, RR}
               THEN Cardinality({k \in DOMAIN ends : ends[k] <= Len(arrived)}) ELSE 0

\* Chunks are read as they were written: "type == 0 indicates end of item".
SdesReadAsWritten == stage \in RtcpStage =>
  \A k \in DOMAIN got : written[k].pt = SDES => got[k] = Kept(written[k])
=============================================================================
