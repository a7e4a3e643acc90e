------------------------------ MODULE RtpFormat ------------------------------
(***************************************************************************)
(* The formats of RtpTool: RTP packets, and the packets an RTCP datagram   *)
(* is made of, as the server writes and reads them.  Times, jitter and     *)
(* counters in the reports are zeros here: only their place matters.       *)
(***************************************************************************)
EXTENDS Octets

CONSTANTS MAX_ITEM_SIZE,  \* items of a chunk that are kept
          Ssrc,           \* the four octets of the server's SSRC
          Bad             \* what cannot be read

\* An RTP packet, see ParseRtpPkg.
RtpPkg == [m_marker : {0, 1}, m_pt : 0 .. 2 ^ 7 - 1, m_payload_beg : Nat, m_payload_size : Nat]
\* A packet of RTCP, see ParseRtcpPkg.
RtcpPkg == [pt : Octet, rc : 0 .. 2 ^ 5 - 1, payload : Seq(Octet), next : Nat]

ASSUME FormatAssumption ==
  /\ MAX_ITEM_SIZE \in Nat
  /\ Ssrc \in Seq(Octet) /\ Len(Ssrc) = 4 /\ Bad \notin RtpPkg /\ Bad \notin RtcpPkg

DEF_RTP_VERSION == 2
MIN_RTP_HDR_SIZE == 12
MIN_RTCP_HDR_SIZE == 4
MIN_SR_SIZE == 28
MIN_RR_SIZE == 32
SR == 200
RR == 201
SDES == 202
BYE == 203
APP == 204
CNAME == 1

IsRtcpPt(pt) == pt \in 200 .. 210 \/ pt \in 192 .. 195
IsVerValid(octet) == ParseBit(octet, 6, 2) = DEF_RTP_VERSION

\* What a packet says, as far as it is kept.
Report(ssrc, lost) == [ssrc |-> ssrc, lost |-> lost]
Chunk(src, items) == [src |-> src, items |-> items]
Item(type, desc) == [type |-> type, desc |-> desc]
Packet(pt, body) == [pt |-> pt, body |-> body]
-----------------------------------------------------------------------------
\* Writing RTCP.

GenRtcpHeader(e, rc, pt) ==
  Gen(e, <<GenBit(GenBit(DEF_RTP_VERSION, 1, 0), 5, rc), pt, 0, 0>>)

\* The length counts the words behind the first one; a packet has whole words.
FinishRtcp(e, beg) ==
  IF e.ok /\ beg % 4 = 0 /\ Len(e.data) % 4 = 0
  THEN WriteU16(e, (Len(e.data) - beg) \div 4 - 1, beg + 2)
  ELSE [e EXCEPT !.ok = FALSE]

ReportBlk(r) == r.ssrc \o <<0>> \o OctetsOf(r.lost, 3) \o Zeros(16)

\* One to four zeros: the END item, up to the next word.
Padding(pos) == 4 - (pos % 4)

\* The zeros of a chunk are not missed if there is no space for them.
GenChunk(e, ssrc, type, desc) ==
  LET c == GenStrU8(Gen(Gen(e, ssrc), <<type>>), desc)
      n == Padding(Len(c.data))
  IN IF c.ok /\ MakeSpace(c, n) THEN Gen(c, Zeros(n)) ELSE c

GenSdes(e, cname) ==
  FinishRtcp(GenChunk(GenRtcpHeader(e, 1, SDES), Ssrc, CNAME, cname), Len(e.data))

\* Mutant: the header and the SSRC are one word.
CalcSdesLenShort(cname) == 4 + Len(cname) + 4
CalcSdesLen(cname) == 4 + 4 + Len(cname) + 4

\* A report and, if the server has a name, its name, in a buffer of the size
\* sendSR and sendRR ask for.
GenReports(pt, size, rc, body, cname) ==
  LET total == IF cname = <<>> THEN size ELSE size + CalcSdesLen(cname)
      e == FinishRtcp(Gen(GenRtcpHeader(Encoder(total), rc, pt), Ssrc \o body), 0)
  IN IF e.ok /\ cname # <<>> THEN GenSdes(e, cname) ELSE e

GenSR(cname) == GenReports(SR, MIN_SR_SIZE, 0, Zeros(20), cname)
GenRR(report, cname) == GenReports(RR, MIN_RR_SIZE, 1, ReportBlk(report), cname)
-----------------------------------------------------------------------------
\* Reading RTCP.

\* Mutant: the length is compared as if the header came twice.
IsRtcpHeaderOff(data) ==
  /\ Left(data, 0, MIN_RTCP_HDR_SIZE)
  /\ IsVerValid(data[1]) /\ IsRtcpPt(data[2])
  /\ Left(data, 8, 4 * Num(Field(data, 2, 2)))
IsRtcpHeader(data) ==
  /\ Left(data, 0, MIN_RTCP_HDR_SIZE)
  /\ IsVerValid(data[1]) /\ IsRtcpPt(data[2])
  /\ Left(data, 4, 4 * Num(Field(data, 2, 2)))

\* The octets of padding in a packet with size octets behind its first word.
\* Mutant: the flag is not looked at.
PadLenNone(data, upto, size) == 0
PadLen(data, upto, size) ==
  IF ParseBit(data[upto + 1], 5, 1) = 1 THEN data[upto + 4 + size] ELSE 0

\* The packet behind upto octets: its type, count and payload without padding,
\* and where the next one begins; or Bad.
ParseRtcpPkg(data, upto) ==
  LET size == 4 * Num(Field(data, upto + 2, 2))
      padLen == PadLen(data, upto, size)
  IN IF /\ Left(data, upto, MIN_RTCP_HDR_SIZE)
        /\ IsVerValid(data[upto + 1]) /\ IsRtcpPt(data[upto + 2])
        /\ Left(data, upto + 4, size)
        /\ padLen <= size
     THEN [pt |-> data[upto + 2], rc |-> ParseBit(data[upto + 1], 0, 5),
           payload |-> Field(data, upto + 4, size - padLen), next |-> upto + 4 + size]
     ELSE Bad

ParseReportBlk(data, at) ==
  Report(Field(data, at, 4), Int24(Field(data, at + 5, 3)))

\* SR and RR: an SSRC, the sender's part, and rc reports that end the packet.
ParseReports(pt, rc, data) ==
  LET beg == IF pt = SR THEN 24 ELSE 4
  IN IF Len(data) = beg + 24 * rc
     THEN Packet(pt, [ssrc |-> Field(data, 0, 4),
            reports |-> [i \in 1 .. rc |-> ParseReportBlk(data, beg + 24 * (i - 1))]])
     ELSE Packet(pt, Bad)

\* The items of a chunk up to END, or to the end of the packet: where the chunk
\* ends and what it has, for every octet that it may begin with.
Items(data) ==
  LET items[p \in 0 .. Len(data)] ==
        IF p = Len(data) THEN [ok |-> TRUE, next |-> p, items |-> <<>>]
        ELSE IF data[p + 1] = 0
        THEN [ok |-> Left(data, p + 1, Padding(p + 1)),
              next |-> p + 1 + Padding(p + 1), items |-> <<>>]
        ELSE IF data[p + 1] <= 8 /\ Left(data, p, 2) /\ Left(data, p + 2, data[p + 2])
        THEN LET rest == items[p + 2 + data[p + 2]]
             IN [rest EXCEPT !.items =
                   <<Item(data[p + 1], Field(data, p + 2, data[p + 2]))>> \o @]
        ELSE [ok |-> FALSE, next |-> p, items |-> <<>>]
  IN items

\* The first ones are kept.
ParseItems(data, beg) ==
  LET all == Items(data)[beg]
      kept == IF Len(all.items) <= MAX_ITEM_SIZE THEN Len(all.items) ELSE MAX_ITEM_SIZE
  IN [all EXCEPT !.items = SubSeq(@, 1, kept)]

\* The chunks so far, one after the other.
Chunks(rc, data) ==
  LET chunks[k \in 0 .. rc] ==
        IF k = 0 THEN [ok |-> TRUE, next |-> 0, chunks |-> <<>>]
        ELSE LET before == chunks[k - 1]
                 c == ParseItems(data, before.next + 4)
             IN IF before.ok /\ Left(data, before.next, 4)
                THEN [ok |-> c.ok, next |-> c.next,
                      chunks |-> Append(before.chunks,
                        Chunk(Field(data, before.next, 4), c.items))]
                ELSE [before EXCEPT !.ok = FALSE]
  IN chunks

\* rc chunks, which must end with the packet.
ParseSdes(rc, data) ==
  LET all == Chunks(rc, data)[rc]
  IN Packet(SDES, IF all.ok /\ all.next = Len(data) THEN all.chunks ELSE Bad)

\* rc sources, and a reason that ends the packet.
ParseBye(rc, data) ==
  LET at == 4 * rc
      reason == Field(data, at + 2, Len(data) - at - 2)
      ok == \/ Len(data) = at
            \/ Left(data, at, 2) /\ Num(Field(data, at, 2)) = Len(reason)
  IN Packet(BYE, IF ok THEN [srcs |-> [i \in 1 .. rc |-> Field(data, 4 * (i - 1), 4)],
                             reason |-> reason]
                       ELSE Bad)

ParseApp(data) ==
  Packet(APP, IF Left(data, 0, 8) THEN [ssrc |-> Field(data, 0, 4)] ELSE Bad)

\* What procRtcpBody makes of a packet.
ParseBody(pkg) ==
  CASE pkg.pt \in {SR, RR} -> ParseReports(pkg.pt, pkg.rc, pkg.payload)
    [] pkg.pt = SDES -> ParseSdes(pkg.rc, pkg.payload)
    [] pkg.pt = BYE -> ParseBye(pkg.rc, pkg.payload)
    [] pkg.pt = APP -> ParseApp(pkg.payload)
    [] OTHER -> Packet(pkg.pt, <<>>)
-----------------------------------------------------------------------------
\* RTP.

GenRtpHeader(e, marker, pt, seq) ==
  Gen(e, <<GenBit(DEF_RTP_VERSION, 6, 0), GenBit(marker, 7, pt)>>
         \o OctetsOf(seq, 2) \o Zeros(4) \o Ssrc)

\* The first check of a datagram reads the marker as a bit of the type.
IsRtpHeader(data) ==
  /\ Left(data, 0, MIN_RTP_HDR_SIZE)
  /\ IsVerValid(data[1]) /\ ~IsRtcpPt(data[2])

\* Where the payload begins.  Mutant: the words of the extension are octets.
PayloadBegOctets(data, ext) == ext + 4 + Num(Field(data, ext + 2, 2))
PayloadBeg(data, ext) == ext + 4 + 4 * Num(Field(data, ext + 2, 2))

\* Marker, type and the place of the payload behind the sources and the
\* extension and before the padding; or Bad.
ParseRtpPkg(data) ==
  LET ext == 12 + 4 * ParseBit(data[1], 0, 4)
      extended == ParseBit(data[1], 4, 1) = 1
      beg == IF extended THEN PayloadBeg(data, ext) ELSE ext
      padLen == IF ParseBit(data[1], 5, 1) = 1 THEN data[Len(data)] ELSE 0
      pt == ParseBit(data[2], 0, 7)
  IN IF /\ Left(data, 0, MIN_RTP_HDR_SIZE)
        /\ IsVerValid(data[1]) /\ ~IsRtcpPt(pt + 128)
        /\ Left(data, ext, IF extended THEN 4 ELSE 0) /\ Left(data, beg, padLen)
     THEN [m_marker |-> ParseBit(data[2], 7, 1), m_pt |-> pt, m_payload_beg |-> beg,
           m_payload_size |-> Len(data) - beg - padLen]
     ELSE Bad

\* genRtpMsg: the server's header in front of the payload that came.
GenRtpMsg(pkg, data, seq) ==
  GenRtpHeader(Encoder(MIN_RTP_HDR_SIZE), pkg.m_marker, pkg.m_pt, seq).data
  \o Field(data, pkg.m_payload_beg, pkg.m_payload_size)
=============================================================================
