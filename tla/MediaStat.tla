------------------------------ MODULE MediaStat ------------------------------
(***************************************************************************)
(* RtpCenter as it counts: the packets of one publisher, the receiver      *)
(* reports (RR) he gets, the packets that go on to the players, and the    *)
(* sender reports (SR) they get.  A packet is handled in one step, from    *)
(* validSeq to the last report it gives rise to.                           *)
(*                                                                         *)
(* The network may drop, delay, repeat and reorder packets and SRs, and    *)
(* the publisher may start over with another number.  Time is counted in   *)
(* milliseconds; the clocks of server and publisher run alike, the         *)
(* publisher's Skew ahead.                                                 *)
(***************************************************************************)
EXTENDS SendStat

CONSTANTS
  Player,
  Payload,     \* payload sizes of packets
  Starts,      \* numbers a publisher may begin with
  Clock,       \* when something happens, in milliseconds
  Skew,
  m_base_unit,
  MaxPackets   \* bound: packets relayed

ASSUME MediaAssumption ==
  /\ Payload \subseteq Nat /\ Starts \subseteq Nat /\ Clock \subseteq Nat
  /\ Skew \in Int
  /\ m_base_unit \in 0 .. RTP_SEQ_MOD * RTP_SEQ_MOD - 1
  /\ MaxPackets \in Nat

VARIABLES
  now,         \* the time
  statis,      \* RecvStatis of the publisher
  report,      \* the last RR since he started, or NoReport
  inst,        \* InstStat: the time media began, and the packets relayed
  snd,         \* SendStatis of each player, or NotPlaying
  sr,          \* the last SR to each player and how many there were, or NoSr
  media,       \* the media time of the last packet relayed
  sender,      \* history: what was really received, see Sender
  total,       \* history: octets received and RRs sent since ever
  joined       \* history: what had been relayed when a player joined

vars == <<now, statis, report, inst, snd, sr, media, sender, total, joined>>

NoReport == [m_max_seq |-> -1]
NoSr == [cnt |-> 0]
NotPlaying == [m_snd_pkg_cnt |-> -1]
Never == [sent |-> -1, arrived |-> -1]
Ntp == NtpTime(now)

\* The numbers without wrapping: the first and the highest one received and how
\* many packets were; highest and number at the last report, and what it should
\* have said; when the last SR was sent and arrived, now and at the last report.
Sender(seq) ==
  [first |-> seq, high |-> seq, got |-> 0, reported |-> seq - 1, gotThen |-> 0,
   owed |-> NoReport, sr |-> Never, then |-> [at |-> -1, sr |-> Never]]

Init ==
  /\ now \in {t \in Clock : \A u \in Clock : t <= u}
  /\ statis = RecvStatis
  /\ report = NoReport
  /\ inst = [m_first_ntp |-> Ntp, m_base_unit |-> m_base_unit, m_seq |-> 0]
  /\ snd = [p \in Player |-> NotPlaying]
  /\ sr = [p \in Player |-> NoSr]
  /\ media = [ts |-> m_base_unit, at |-> now]
  /\ sender \in {Sender(seq) : seq \in Starts}
  /\ total = [octets |-> 0, rr |-> 0]
  /\ joined = [p \in Player |-> [seq |-> 0, octets |-> 0]]

\* What a report on packets up to number high, got of them, should say: the
\* highest number counted from the cycle of the first, the loss since the first
\* packet, if any, and the part of the packets since the last report, in 256ths.
Owed(high, got) ==
  LET lost == high - sender.first + 1 - got
      lately == high - sender.reported - (got - sender.gotThen)
  IN [m_max_seq |-> Mod32(high - sender.first + Mod16(sender.first)),
      m_cumm_pkg_lost |-> IF lost > 0 THEN lost ELSE 0,
      m_frac_lost |-> IF lately > 0 THEN (lately * 256) \div (high - sender.reported)
                                    ELSE 0]

\* procRtpData up to sendRR, and what the history makes of it.
Receive(e, size) ==
  LET s == UpdateRtpRecv(ValidSeq(statis, Mod16(e)), size)
      high == IF e > sender.high THEN e ELSE sender.high
      got == sender.got + 1
      seen == [sender EXCEPT !.high = high, !.got = got]
      due == ChkRecv(s, Ntp)
  IN /\ statis' = IF due THEN Reported(s, Ntp) ELSE s
     /\ report' = IF due THEN Report(s, Ntp) ELSE report
     /\ total' = [octets |-> total.octets + size,
                  rr |-> IF due THEN total.rr + 1 ELSE total.rr]
     /\ sender' = IF due THEN [seen EXCEPT !.reported = high, !.gotThen = got,
                                 !.owed = Owed(high, got),
                                 !.then = [at |-> now, sr |-> sender.sr]]
                         ELSE seen

\* handleRtp, publishRtp: the packet goes on to every player, after each of
\* them the SR that is due.
Relay(size) ==
  LET sent == [p \in Player |-> SendRtp(snd[p], inst, size, Ntp)]
      playing(p) == snd[p] # NotPlaying
  IN /\ inst' = [inst EXCEPT !.m_seq = @ + 1]
     /\ media' = [ts |-> Ts(inst.m_first_ntp, inst.m_base_unit, Ntp), at |-> now]
     /\ snd' = [p \in Player |-> IF playing(p) THEN sent[p].statis ELSE snd[p]]
     /\ sr' = [p \in Player |->
          IF playing(p) /\ sent[p].due
          THEN [sender |-> sent[p].sender, at |-> now, seq |-> inst.m_seq + 1,
                octets |-> total.octets + size, cnt |-> sr[p].cnt + 1]
          ELSE sr[p]]

\* The packet with number e, counted without wrapping, arrives: one of the
\* next ones, or one that is late, or one again.
Packet(e, size) ==
  /\ inst.m_seq < MaxPackets
  /\ statis.m_has_rtp \/ e = sender.first
  /\ sender.high - MAX_MISORDER < e /\ e < sender.high + MAX_DROPOUT
  /\ Receive(e, size)
  /\ Relay(size)
  /\ UNCHANGED <<now, joined>>

\* The publisher starts over: the statistics are erased and the packet is
\* dropped.  The one that arrives next counts as the first.
Restart(seq, next) ==
  /\ Restarts(statis, seq)
  /\ statis' = RecvStatis
  /\ sender' = Sender(next)
  /\ report' = NoReport
  /\ UNCHANGED <<now, inst, snd, sr, media, total, joined>>

\* procSR: an SR the publisher sent at time t arrives, any time later, in any
\* order, once or again.
ArriveSR(t) ==
  /\ t <= now
  /\ statis' = ProcSR(statis, RtpTime(NtpTime(t + Skew)), Ntp)
  /\ sender' = [sender EXCEPT !.sr = [sent |-> t, arrived |-> now]]
  /\ UNCHANGED <<now, report, inst, snd, sr, media, total, joined>>

\* SETUP and PLAY; setupFF clears the statistics.
Join(p) ==
  /\ snd[p] = NotPlaying
  /\ snd' = [snd EXCEPT ![p] = SendStatis]
  /\ joined' = [joined EXCEPT ![p] = [seq |-> inst.m_seq, octets |-> total.octets]]
  /\ UNCHANGED <<now, statis, report, inst, sr, media, sender, total>>

\* TEARDOWN
Leave(p) ==
  /\ snd[p] # NotPlaying
  /\ snd' = [snd EXCEPT ![p] = NotPlaying]
  /\ sr' = [sr EXCEPT ![p] = NoSr]
  /\ joined' = [joined EXCEPT ![p] = [seq |-> 0, octets |-> 0]]
  /\ UNCHANGED <<now, statis, report, inst, media, sender, total>>

Tick ==
  /\ now' \in {t \in Clock : t > now}
  /\ UNCHANGED <<statis, report, inst, snd, sr, media, sender, total, joined>>

Next ==
  \/ \E e \in sender.high - MAX_MISORDER .. sender.high + MAX_DROPOUT,
        size \in Payload : Packet(e, size)
  \/ \E seq \in 0 .. RTP_SEQ_MOD - 1, next \in Starts : Restart(seq, next)
  \/ \E t \in Clock : ArriveSR(t)
  \/ \E p \in Player : Join(p) \/ Leave(p)
  \/ Tick

Spec == Init /\ [][Next]_vars
-------------------------------------------------------------------------------
\* Properties.

\* The cycles counted in the current interval and before, and the highest
\* number, are those of the publisher: no wrap is missed, none counted twice,
\* whatever comes late or twice around the wrap and whenever a report is sent.
\* The loss up to the last report and that of the current interval add up to the
\* packets that are missing since the first one.
NumbersKept ==
  statis.m_has_rtp =>
    /\ Mod32((statis.m_cumm_cycles + statis.m_cycles) * RTP_SEQ_MOD + statis.m_max_seq)
         = Mod32(sender.high - sender.first + Mod16(sender.first))
    /\ CummLost(statis) = Mod32(sender.high - sender.first + 1 - sender.got)

\* Each receiver report says what was received and lost, although it is
\* computed from narrow counters that are reset at each report
\* (rtpproto.h:130 to 138; rtpdata.h:108: "must be uint_32").
ReportTrue ==
  report = NoReport \/ \A n \in DOMAIN sender.owed : report[n] = sender.owed[n]

\* From the two times in a report (rtpproto.h:135 to 137) the publisher computes
\* how long the last SR that arrived was under way, up to the rounding of the
\* times and of the delay, across the wraps of seconds, with SRs lost, late or out of order; a
\* publisher who started over is told of none of his earlier SRs.
RoundTrip == report # NoReport =>
  LET arrival == Rtp2U32(RtpTime(NtpTime(sender.then.at + Skew)))
      last == sender.then.sr
      way == ((last.arrived - last.sent) * RTP_SEQ_MOD) \div Msecs
  IN IF last = Never
     THEN report.m_ntp_lsr = 0 /\ report.m_delay_lsr = 0
     ELSE \E rounding \in 0 .. 2 :
            Mod32(arrival - report.m_ntp_lsr - report.m_delay_lsr) = Mod32(way + rounding)

\* An SR counts exactly the packets and octets its player was sent since he
\* joined, the one it follows included, as the sequence numbers do: a player
\* who compares them sees no loss but the network's.
SrTrue == \A p \in Player : sr[p] # NoSr =>
  /\ sr[p].sender.m_snd_pkt_cnt = Mod32(sr[p].seq - joined[p].seq)
  /\ sr[p].sender.m_snd_octet_cnt = sr[p].octets - joined[p].octets

\* An SR ties media time to the clock, and every later packet keeps to it,
\* whenever the player joined: its media time is that of the SR and the time
\* since then, up to rounding.
SameTimeline == \A p \in Player : sr[p] # NoSr =>
  \E rounding \in 0 .. 1 :
    Mod32(media.ts - sr[p].sender.m_rtp_ts)
      = Mod32(((media.at - sr[p].at) * m_sample_rate) \div Msecs + rounding)

\* Each report is earned by octets of media of its own, of which RTCP_TX_RATIO makes
\* DEF_RTCP_MIN_SIZE: no octet counts for two reports, not across restarts
\* either, which forget when the last RR was sent; only the first SR to a player
\* is free.  It does not make the reports "0.5% bandwidth" (rtpproto.h:34): a report
\* has MIN_RR_SIZE or MIN_SR_SIZE octets and those of a name behind them, more than
\* DEF_RTCP_MIN_SIZE, and takes as much more than that share.
Paid(reports, octets) ==
  reports * DEF_RTCP_MIN_SIZE * RTCP_TX_RATIO_DEN <= octets * RTCP_TX_RATIO_NUM

ReportsEarned ==
  /\ Paid(total.rr, total.octets)
  /\ \A p \in Player : sr[p] # NoSr => Paid(sr[p].cnt - 1, snd[p].m_snd_octet_cnt)
===============================================================================
