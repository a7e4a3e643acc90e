------------------------------- MODULE SendStat -------------------------------
(***************************************************************************)
(* SendStatis: what the server has sent to one player, and the sender      *)
(* report it makes of it.  The members that nothing reads are left out.    *)
(***************************************************************************)
EXTENDS RecvStat

CONSTANTS DEF_RTCP_SR_INTERVAL_SEC

ASSUME SendAssumption == DEF_RTCP_SR_INTERVAL_SEC \in Nat

\* After bzero.
SendStatis ==
  [m_ready |-> FALSE, m_has_send_sr |-> FALSE, m_base_unit |-> 0, m_first_ntp |-> Zero,
   m_snd_pkg_cnt |-> 0, m_snd_octet_cnt |-> 0, m_last_snd_octet_cnt |-> 0,
   m_last_sr_ntp |-> Zero]

\* genRtpMsg, genSender: the media time of ntp
Ts(first_ntp, base_unit, ntp) == Mod32(Ntp2Unit(Minus(ntp, first_ntp)) + base_unit)

\* Mutant: the time of a player begins with his first packet
ReadyNow(s, inst, ntp) ==
  IF s.m_ready THEN s
  ELSE [s EXCEPT !.m_ready = TRUE, !.m_first_ntp = ntp, !.m_base_unit = inst.m_base_unit]

\* sendRtp: with his first packet a player takes over the time of the instance.
Ready(s, inst, ntp) ==
  IF s.m_ready THEN s
  ELSE [s EXCEPT !.m_ready = TRUE, !.m_first_ntp = inst.m_first_ntp,
                 !.m_base_unit = inst.m_base_unit]

Counted(s, size) ==
  [s EXCEPT !.m_snd_octet_cnt = @ + size, !.m_snd_pkg_cnt = Mod32(@ + 1)]

ChkSend(s, ntp) ==
  \/ ~s.m_has_send_sr
  \/ /\ DEF_RTCP_SR_INTERVAL_SEC <= Minus(ntp, s.m_last_sr_ntp).m_sec
     /\ Earned(s.m_snd_octet_cnt - s.m_last_snd_octet_cnt)

\* genSender
SenderInfo(s, ntp) ==
  [m_snd_pkt_cnt |-> s.m_snd_pkg_cnt, m_snd_octet_cnt |-> s.m_snd_octet_cnt,
   m_rtp_ts |-> Ts(s.m_first_ntp, s.m_base_unit, ntp), m_ntp |-> RtpTime(ntp)]

\* Mutant: the octets that earned a report earn the next one too
SentSRAgain(s, ntp) == [s EXCEPT !.m_has_send_sr = TRUE, !.m_last_sr_ntp = ntp]

\* sendSR
SentSR(s, ntp) ==
  [s EXCEPT !.m_has_send_sr = TRUE, !.m_last_sr_ntp = ntp,
            !.m_last_snd_octet_cnt = s.m_snd_octet_cnt]

\* Mutant: the packet is counted when the report is out
SendRtpLate(s, inst, size, ntp) ==
  LET c == Ready(s, inst, ntp)
      due == ChkSend(Counted(c, size), ntp)
  IN [statis |-> Counted(IF due THEN SentSR(c, ntp) ELSE c, size), due |-> due,
      sender |-> SenderInfo(c, ntp)]

\* sendRtp, updateRtpSend
SendRtp(s, inst, size, ntp) ==
  LET c == Counted(Ready(s, inst, ntp), size)
      due == ChkSend(c, ntp)
  IN [statis |-> IF due THEN SentSR(c, ntp) ELSE c, due |-> due,
      sender |-> SenderInfo(c, ntp)]
===============================================================================
