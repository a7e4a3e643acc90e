------------------------------ MODULE RtpRelay ------------------------------
(***************************************************************************)
(* The datagrams of both sockets of an instance: those of RtcpWire, and    *)
(* the way of one RTP packet from its publisher through servers.  procRtp  *)
(* takes it apart and handleRtp sends its payload on under a plain header, *)
(* to players that may be servers themselves.  The datagram of the         *)
(* publisher may be cut short.                                             *)
(***************************************************************************)
EXTENDS RtcpWire

CONSTANTS MediaPackets,  \* packets of the publisher, see RtpOctets
          MaxHops        \* bound: servers on the way

\* A packet as publishers write it: with contributing sources, an extension of
\* some words or none (-1), and padding.
MediaPacket == [marker : {0, 1}, pt : 0 .. 2 ^ 7 - 1, cc : 0 .. 2 ^ 4 - 1, ext : {-1} \cup Word,
                payload : Seq(Octet), pad : Octet]

ASSUME RelayAssumption == MediaPackets \subseteq MediaPacket /\ MaxHops \in Nat \ {0}

\* Of an RTP datagram, written has the packet that was published, upto the
\* octets of it that arrived, data and arrived the datagram at the present
\* hop, and got what each server made of it.
RtpStage == {"sent", "parse", "dropped", "played"}

RtpOctets(p) ==
  LET padded == IF p.pad > 0 THEN 1 ELSE 0
      extended == IF p.ext >= 0 THEN 1 ELSE 0
  IN
  <<GenBit(GenBit(GenBit(DEF_RTP_VERSION, 1, padded), 1, extended), 4, p.cc),
    GenBit(p.marker, 7, p.pt)>>
  \o Zeros(10 + 4 * p.cc)
  \o (IF p.ext >= 0 THEN <<0, 1>> \o OctetsOf(p.ext, 2) \o Zeros(4 * p.ext) ELSE <<>>)
  \o p.payload \o (IF p.pad > 0 THEN Zeros(p.pad - 1) \o <<p.pad>> ELSE <<>>)

Publish ==
  /\ stage = "write" /\ written = <<>>
  /\ \E p \in MediaPackets :
       /\ data' = RtpOctets(p)
       /\ written' = <<p>>
  /\ ends' = <<Len(data')>>
  /\ stage' = "sent"
  /\ UNCHANGED <<arrived, upto, got>>

\* Only between the publisher and the first server is the datagram cut.
ParseRtp ==
  /\ stage = "sent"
  /\ \E n \in 0 .. Len(data) :
       /\ got = <<>> \/ n = Len(data)
       /\ arrived' = SubSeq(data, 1, n)
       /\ upto' = IF got = <<>> THEN n ELSE upto
  /\ stage' = IF IsRtpHeader(arrived') THEN "parse" ELSE "dropped"
  /\ UNCHANGED <<written, ends, data, got>>

ProcRtp ==
  /\ stage = "parse"
  /\ \E pkg \in {ParseRtpPkg(arrived)} :
       IF pkg = Bad THEN stage' = "dropped" /\ UNCHANGED <<data, got>>
       ELSE /\ data' = GenRtpMsg(pkg, arrived, Len(got))
            /\ got' = Append(got, pkg)
            /\ stage' = IF Len(got') < MaxHops THEN "sent" ELSE "played"
  /\ UNCHANGED <<written, ends, arrived, upto>>

Rtp == Publish \/ ParseRtp \/ ProcRtp

Next == Rtcp \/ Rtp
Spec == Init /\ [][Next]_vars
-----------------------------------------------------------------------------
\* Properties.

Payload == SubSeq(data, MIN_RTP_HDR_SIZE + 1, Len(data))
Whole == upto = ends[1]

\* A player gets the payload as it was published, without a source, extension
\* or padding, with its marker and type.  Of a packet that was cut he gets the
\* octets that came before the cut, or fewer, and none of the header as media.
\* A packet that is whole is dropped only for a type that is one of RTCP, and
\* what one server sends the next one accepts.
PayloadKept ==
  /\ stage \in RtpStage /\ got # <<>> =>
       LET media == RtpOctets(written[1])
           header == RtpOctets([written[1] EXCEPT !.payload = <<>>, !.pad = 0])
       IN /\ IsPrefix(Payload, SubSeq(media, Len(header) + 1, Len(media)))
          /\ Whole => /\ Payload = written[1].payload
                      /\ data[2] = GenBit(written[1].marker, 7, written[1].pt)
  /\ stage = "dropped" => got = <<>> /\ (Whole => IsRtcpPt(written[1].pt + 128))
=============================================================================
