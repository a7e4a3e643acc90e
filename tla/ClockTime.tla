------------------------------ MODULE ClockTime ------------------------------
(***************************************************************************)
(* The times of rtpinst.cpp: ClockTime has seconds of 32 bits and          *)
(* milliseconds; RTCP carries seconds and a fraction of 32 bits each, or   *)
(* the middle half of the two; media count units of their sample rate.     *)
(*                                                                         *)
(* RTP_SEQ_MOD counts the values of 16 bits, its square those of 32.       *)
(***************************************************************************)
EXTENDS Integers

CONSTANTS RTP_SEQ_MOD,
          Msecs,          \* milliseconds of a second: 1000
          m_sample_rate

ASSUME ClockAssumption ==
  RTP_SEQ_MOD \in Nat \ {0} /\ Msecs \in Nat \ {0} /\ m_sample_rate \in Nat

Mod16(n) == n % RTP_SEQ_MOD
Mod32(n) == n % (RTP_SEQ_MOD * RTP_SEQ_MOD)

\* What getNtpTime says after t milliseconds.
NtpTime(t) == [m_sec |-> Mod32(t \div Msecs), m_msec |-> t % Msecs]
Zero == [m_sec |-> 0, m_msec |-> 0]

\* Within a second time does not go back; from one to the next the seconds
\* may wrap.
Minus(t1, t2) ==
  LET borrowed == IF t1.m_msec < t2.m_msec THEN 1 ELSE 0
  IN IF t1.m_sec = t2.m_sec /\ borrowed = 1 THEN Zero
     ELSE [m_sec |-> Mod32(t1.m_sec - t2.m_sec - borrowed),
           m_msec |-> t1.m_msec - t2.m_msec + borrowed * Msecs]

Rescale(a, b, c) == (a * b) \div c

\* genSender: a time as it is in an SR
RtpTime(ntp) ==
  [m_sec |-> ntp.m_sec, m_frac |-> Rescale(ntp.m_msec, RTP_SEQ_MOD * RTP_SEQ_MOD, Msecs)]

Rtp2U32(rtp) == Mod16(rtp.m_sec) * RTP_SEQ_MOD + Mod16(rtp.m_frac \div RTP_SEQ_MOD)

Ntp2U32(ntp) ==
  Mod16(ntp.m_sec) * RTP_SEQ_MOD + Mod16((ntp.m_msec * RTP_SEQ_MOD) \div Msecs)

\* Both products have 32 bits, before the second one is divided.
Ntp2Unit(ntp) ==
  Mod32(ntp.m_sec * m_sample_rate + Mod32(ntp.m_msec * m_sample_rate) \div Msecs)
===============================================================================
