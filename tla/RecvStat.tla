------------------------------- MODULE RecvStat -------------------------------
(***************************************************************************)
(* RecvStatis: what the server knows of the packets of one publisher, and  *)
(* the receiver report it makes of it.  The publisher numbers his packets  *)
(* with 16 bits; the counters have 16 and 32 bits.                         *)
(*                                                                         *)
(* Octets, which are only compared within one report interval, do not wrap *)
(* here.  m_cumm_recv, the jitter and the first SR decide nothing and are  *)
(* left out.                                                               *)
(***************************************************************************)
EXTENDS ClockTime

CONSTANTS MAX_DROPOUT, MAX_MISORDER,
          DEF_RTCP_RR_INTERVAL_SEC, RTCP_TX_RATIO_NUM, RTCP_TX_RATIO_DEN,
          DEF_RTCP_MIN_SIZE

\* The windows of validSeq are apart.
ASSUME StatAssumption ==
  /\ MAX_DROPOUT \in Nat \ {0} /\ MAX_MISORDER \in Nat \ {0}
  /\ MAX_DROPOUT + MAX_MISORDER <= RTP_SEQ_MOD
  /\ RTCP_TX_RATIO_NUM \in Nat /\ RTCP_TX_RATIO_DEN \in Nat \ {0}
  /\ DEF_RTCP_RR_INTERVAL_SEC \in Nat /\ DEF_RTCP_MIN_SIZE \in Nat

\* After bzero.
RecvStatis ==
  [m_cycles |-> 0, m_max_seq |-> 0, m_last_expect_seq |-> 0, m_cumm_lost |-> 0,
   m_cumm_cycles |-> 0, m_has_rtp |-> FALSE, m_rcv_octet_cnt |-> 0,
   m_rcv_pkg_cnt |-> 0, m_last_rcv_octet_cnt |-> 0, m_last_rr_ntp |-> Zero,
   m_has_sr |-> FALSE, m_last_sr_rtp |-> [m_sec |-> 0, m_frac |-> 0],
   m_last_rcv_sr_ntp |-> Zero]

\* validSeq: a number far from the highest one is that of a publisher who
\* starts over, all others are accepted.
Restarts(s, seq) ==
  LET delta == Mod16(seq - s.m_max_seq)
  IN s.m_has_rtp /\ MAX_DROPOUT <= delta /\ delta <= RTP_SEQ_MOD - MAX_MISORDER

ValidSeq(s, seq) ==
  LET delta == Mod16(seq - s.m_max_seq)
  IN CASE ~s.m_has_rtp ->
            [s EXCEPT !.m_max_seq = seq, !.m_last_expect_seq = Mod32(seq - 1),
                      !.m_has_rtp = TRUE]
       [] s.m_has_rtp /\ delta < MAX_DROPOUT ->
            [s EXCEPT !.m_max_seq = seq,
                      !.m_cycles = IF seq < s.m_max_seq THEN Mod16(@ + 1) ELSE @]
       [] s.m_has_rtp /\ delta >= MAX_DROPOUT -> s

UpdateRtpRecv(s, size) ==
  [s EXCEPT !.m_rcv_octet_cnt = @ + size, !.m_rcv_pkg_cnt = Mod32(@ + 1)]

\* chkRecv, chkSend: the octets since the last report make room for another.
Earned(octets) ==
  DEF_RTCP_MIN_SIZE <= (octets * RTCP_TX_RATIO_NUM) \div RTCP_TX_RATIO_DEN

ChkRecv(s, ntp) ==
  /\ DEF_RTCP_RR_INTERVAL_SEC <= Minus(ntp, s.m_last_rr_ntp).m_sec
  /\ Earned(s.m_rcv_octet_cnt - s.m_last_rcv_octet_cnt)

\* procSR: what an SR of the publisher leaves.  Mutant: the arrival of the first
ProcSRFirst(s, rtp, ntp) ==
  [s EXCEPT !.m_has_sr = TRUE, !.m_last_sr_rtp = rtp,
            !.m_last_rcv_sr_ntp = IF s.m_has_sr THEN @ ELSE ntp]
ProcSR(s, rtp, ntp) ==
  [s EXCEPT !.m_has_sr = TRUE, !.m_last_sr_rtp = rtp, !.m_last_rcv_sr_ntp = ntp]

\* genReport: the numbers of a report, and the statistics after it.
ExpectedInterval(s) ==
  Mod32(s.m_cycles * RTP_SEQ_MOD + s.m_max_seq - s.m_last_expect_seq)

CummLost(s) == Mod32(s.m_cumm_lost + ExpectedInterval(s) - s.m_rcv_pkg_cnt)

\* Mutant: a surplus of repeated packets counts as loss
ReportUnsigned(s, ntp) ==
  LET expected == ExpectedInterval(s)
      lost == expected - s.m_rcv_pkg_cnt
  IN [m_max_seq |-> Mod32((s.m_cumm_cycles + s.m_cycles) * RTP_SEQ_MOD + s.m_max_seq),
      m_cumm_pkg_lost |-> CummLost(s),
      m_frac_lost |-> IF lost > 0 THEN Rescale(lost, 256, expected) % 256 ELSE 0,
      m_ntp_lsr |-> IF s.m_has_sr THEN Rtp2U32(s.m_last_sr_rtp) ELSE 0,
      m_delay_lsr |->
        IF s.m_has_sr THEN Ntp2U32(Minus(ntp, s.m_last_rcv_sr_ntp)) ELSE 0]

Report(s, ntp) ==
  LET expected == ExpectedInterval(s)
      lost == expected - s.m_rcv_pkg_cnt
  IN [m_max_seq |-> Mod32((s.m_cumm_cycles + s.m_cycles) * RTP_SEQ_MOD + s.m_max_seq),
      m_cumm_pkg_lost |->
        IF CummLost(s) < Mod32(-1) \div 2 + 1 THEN CummLost(s) ELSE 0,
      m_frac_lost |-> IF lost > 0 THEN Rescale(lost, 256, expected) % 256 ELSE 0,
      m_ntp_lsr |-> IF s.m_has_sr THEN Rtp2U32(s.m_last_sr_rtp) ELSE 0,
      m_delay_lsr |->
        IF s.m_has_sr THEN Ntp2U32(Minus(ntp, s.m_last_rcv_sr_ntp)) ELSE 0]

\* Mutant: the cycles of the interval count again in the next one
ReportedTwice(s, ntp) ==
  [s EXCEPT !.m_cumm_lost = CummLost(s), !.m_cumm_cycles = Mod32(@ + s.m_cycles),
            !.m_rcv_pkg_cnt = 0, !.m_last_expect_seq = s.m_max_seq,
            !.m_last_rr_ntp = ntp, !.m_last_rcv_octet_cnt = s.m_rcv_octet_cnt]

Reported(s, ntp) ==
  [s EXCEPT !.m_cumm_lost = CummLost(s), !.m_cumm_cycles = Mod32(@ + s.m_cycles),
            !.m_cycles = 0, !.m_rcv_pkg_cnt = 0, !.m_last_expect_seq = s.m_max_seq,
            !.m_last_rr_ntp = ntp, !.m_last_rcv_octet_cnt = s.m_rcv_octet_cnt]
===============================================================================
