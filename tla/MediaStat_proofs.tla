--------------------------- MODULE MediaStat_proofs ---------------------------
(***************************************************************************)
(* Proofs about MediaStat: the counters of 16 and 32 bits stand for the    *)
(* publisher's packets whatever wraps (Numbers), reports say what they owe *)
(* and keep to their share, and the times in SRs and RRs are those of one  *)
(* clock.  For any width of the numbers, sample rate, clock, skew, set of  *)
(* players and of payload sizes.                                           *)
(***************************************************************************)
EXTENDS MediaStat, TLAPS

-------------------------------------------------------------------------------
(* Integers: quotients and remainders.                                       *)

\* % and \div of any number by a positive one.
LEMMA DivMod == ASSUME NEW a \in Int, NEW m \in Nat \ {0}
                PROVE  /\ a % m \in 0 .. m - 1
                       /\ a \div m \in Int
                       /\ a = m * (a \div m) + (a % m)
  OBVIOUS

\* The only multiple of m less than m away from 0 is 0.
LEMMA MulUnique ==
  ASSUME NEW m \in Nat \ {0}, NEW d \in Int, NEW e \in Int, e = m * d, -m < e, e < m
  PROVE  d = 0 /\ e = 0
<1>1. ASSUME d >= 1 PROVE FALSE
  <2>1. m * d >= m
    BY <1>1
  <2> QED BY <2>1
<1>2. ASSUME d <= -1 PROVE FALSE
  <2>1. m * d <= -m
    BY <1>2
  <2> QED BY <2>1
<1>3. d = 0
  BY <1>1, <1>2
<1>4. m * 0 = 0
  OBVIOUS
<1> QED BY <1>3, <1>4

\* A quotient and a remainder determine each other.
LEMMA ModUnique ==
  ASSUME NEW m \in Nat \ {0}, NEW a \in Int, NEW q \in Int, NEW r \in 0 .. m - 1,
         a = m * q + r
  PROVE  a % m = r /\ a \div m = q
<1> DEFINE q1 == a \div m
           r1 == a % m
<1>1. r1 \in 0 .. m - 1 /\ q1 \in Int /\ a = m * q1 + r1
  BY DivMod
<1> HIDE DEF q1, r1
<1>2. m * (q1 - q) = m * q1 - m * q
  BY <1>1
<1>3. m * q1 \in Int /\ m * q \in Int /\ q1 - q \in Int /\ m * (q1 - q) \in Int
  BY <1>1
<1>4. m * (q1 - q) = r - r1
  BY <1>1, <1>2, <1>3
<1>5. -m < r - r1 /\ r - r1 < m /\ r - r1 \in Int
  BY <1>1
<1>6. q1 - q = 0 /\ r - r1 = 0
  BY <1>3, <1>4, <1>5, MulUnique
<1>7. q1 = q /\ r1 = r
  BY <1>1, <1>6
<1> QED BY <1>7 DEF q1, r1

\* Multiples of m do not change the remainder.
LEMMA ModShift ==
  ASSUME NEW m \in Nat \ {0}, NEW a \in Int, NEW k \in Int
  PROVE  (a + m * k) % m = a % m
<1> DEFINE q == a \div m
           r == a % m
<1>1. r \in 0 .. m - 1 /\ q \in Int /\ a = m * q + r
  BY DivMod
<1> HIDE DEF q, r
<1>2. m * (q + k) = m * q + m * k /\ m * k \in Int /\ m * q \in Int /\ q + k \in Int
  BY <1>1
<1>3. a + m * k = m * (q + k) + r /\ a + m * k \in Int
  BY <1>1, <1>2
<1>4. (a + m * k) % m = r
  BY <1>1, <1>2, <1>3, ModUnique
<1> QED BY <1>4 DEF r

\* Two numbers are congruent when their difference is a multiple.
LEMMA ModEqual ==
  ASSUME NEW m \in Nat \ {0}, NEW a \in Int, NEW b \in Int, NEW k \in Int, a = b + m * k
  PROVE  a % m = b % m
  BY ModShift

\* A number and its remainder differ by a multiple.
LEMMA ModDiffers ==
  ASSUME NEW m \in Nat \ {0}, NEW a \in Int
  PROVE  \E k \in Int : a % m = a + m * k
<1> DEFINE q == a \div m
           r == a % m
<1>1. r \in 0 .. m - 1 /\ q \in Int /\ a = m * q + r
  BY DivMod
<1> HIDE DEF q, r
<1>2. m * (-q) = -(m * q) /\ m * q \in Int
  BY <1>1
<1>3. r = a + m * (-q)
  BY <1>1, <1>2
<1>4. -q \in Int
  BY <1>1
<1> QED BY <1>3, <1>4 DEF r

\* Sums and differences may be reduced at any time.
LEMMA ModPlus ==
  ASSUME NEW m \in Nat \ {0}, NEW a \in Int, NEW b \in Int
  PROVE  ((a % m) + b) % m = (a + b) % m
<1> DEFINE x == (a % m) + b
           y == a + b
<1>1. PICK k \in Int : a % m = a + m * k
  BY ModDiffers
<1>2. x = y + m * k /\ x \in Int /\ y \in Int
  BY <1>1
<1> HIDE DEF x, y
<1>3. x % m = y % m
  BY <1>2, ModEqual
<1> QED BY <1>3 DEF x, y

\* The same for the number taken away.
LEMMA ModMinus ==
  ASSUME NEW m \in Nat \ {0}, NEW a \in Int, NEW b \in Int
  PROVE  (a - (b % m)) % m = (a - b) % m
<1> DEFINE x == a - (b % m)
           y == a - b
<1>1. PICK k \in Int : b % m = b + m * k
  BY ModDiffers
<1>2. m * (-k) = -(m * k) /\ -k \in Int /\ m * k \in Int
  OBVIOUS
<1>3. x = y + m * (-k) /\ x \in Int /\ y \in Int
  BY <1>1, <1>2
<1> HIDE DEF x, y
<1>4. x % m = y % m
  BY <1>2, <1>3, ModEqual
<1> QED BY <1>4 DEF x, y

\* A remainder is its own remainder.
LEMMA ModSmall ==
  ASSUME NEW m \in Nat \ {0}, NEW a \in 0 .. m - 1
  PROVE  a % m = a
<1>1. a = m * 0 + a
  OBVIOUS
<1> QED BY <1>1, ModUnique

-------------------------------------------------------------------------------
\* Numbers of 32 bits that stand for the same number.

U32 == RTP_SEQ_MOD * RTP_SEQ_MOD
Same(a, b) == Mod32(a) = Mod32(b)

Num16 == 0 .. RTP_SEQ_MOD - 1
Num32 == 0 .. U32 - 1

\* There are values of 16 and of 32 bits.
LEMMA U32Type == U32 \in Nat \ {0} /\ RTP_SEQ_MOD \in Nat \ {0}
  BY ClockAssumption DEF U32

\* Mod16 and Mod32 cut numbers to 16 and 32 bits.
LEMMA ModTypes == ASSUME NEW a \in Int
                  PROVE  Mod16(a) \in Num16 /\ Mod32(a) \in Num32
  BY U32Type, DivMod DEF Mod16, Mod32, Num16, Num32, U32

\* Two numbers stand for the same one if they are some rounds apart.
LEMMA SameWitness ==
  ASSUME NEW a \in Int, NEW b \in Int
  PROVE  Same(a, b) <=> \E k \in Int : a = b + U32 * k
<1>1. ASSUME NEW k \in Int, a = b + U32 * k PROVE Same(a, b)
  BY <1>1, U32Type, ModEqual DEF Same, Mod32, U32
<1>2. ASSUME Same(a, b) PROVE \E k \in Int : a = b + U32 * k
  <2>1. PICK k \in Int : Mod32(a) = a + U32 * k
    BY U32Type, ModDiffers DEF Mod32, U32
  <2>2. PICK n \in Int : Mod32(b) = b + U32 * n
    BY U32Type, ModDiffers DEF Mod32, U32
  <2>3. U32 * (n - k) = U32 * n - U32 * k /\ U32 * k \in Int /\ U32 * n \in Int
    BY U32Type
  <2>4. a + U32 * k = b + U32 * n
    BY <1>2, <2>1, <2>2 DEF Same
  <2>5. a = b + (U32 * n - U32 * k)
    BY <2>3, <2>4
  <2>6. a = b + U32 * (n - k)
    BY <2>3, <2>5
  <2> QED BY <2>6
<1> QED BY <1>1, <1>2

\* Cutting a number to 32 bits does not change what it stands for.
LEMMA SameMod == ASSUME NEW a \in Int PROVE Same(Mod32(a), a)
<1>1. PICK k \in Int : Mod32(a) = a + U32 * k
  BY U32Type, ModDiffers DEF Mod32, U32
<1> QED BY <1>1, ModTypes, SameWitness DEF Num32

\* Sums of the same numbers are the same.
LEMMA SameSum ==
  ASSUME NEW a \in Int, NEW b \in Int, NEW c \in Int, NEW d \in Int,
         Same(a, b), Same(c, d)
  PROVE  Same(a + c, b + d)
<1>1. PICK k \in Int : a = b + U32 * k
  BY SameWitness
<1>2. PICK n \in Int : c = d + U32 * n
  BY SameWitness
<1>3. U32 * (k + n) = U32 * k + U32 * n /\ U32 * k \in Int /\ U32 * n \in Int
  BY U32Type
<1>4. a + c = (b + d) + U32 * (k + n)
  BY <1>1, <1>2, <1>3
<1> QED BY <1>4, SameWitness

\* Differences of the same numbers are the same.
LEMMA SameDifference ==
  ASSUME NEW a \in Int, NEW b \in Int, NEW c \in Int, NEW d \in Int,
         Same(a, b), Same(c, d)
  PROVE  Same(a - c, b - d)
<1>1. PICK k \in Int : a = b + U32 * k
  BY SameWitness
<1>2. PICK n \in Int : c = d + U32 * n
  BY SameWitness
<1>3. U32 * (k - n) = U32 * k - U32 * n /\ U32 * k \in Int /\ U32 * n \in Int
  BY U32Type
<1>4. a - c = (b - d) + U32 * (k - n)
  BY <1>1, <1>2, <1>3
<1> QED BY <1>4, SameWitness

\* What is added to one is added to the other.
LEMMA SameTransfer ==
  ASSUME NEW a \in Int, NEW b \in Int, NEW c \in Int, NEW d \in Int,
         Same(a, b), c - a = d - b
  PROVE  Same(c, d)
<1>1. PICK k \in Int : a = b + U32 * k
  BY SameWitness
<1>2. U32 * k \in Int
  BY U32Type
<1>3. c = d + U32 * k
  BY <1>1, <1>2
<1> QED BY <1>3, SameWitness

\* Every number is the same as itself.
LEMMA SameRefl == \A a : Same(a, a)
  BY DEF Same

\* Two numbers less than 2^32 apart that stand for the same one are equal.
LEMMA SameClose ==
  ASSUME NEW a \in Int, NEW b \in Int, Same(a, b), -U32 < a - b, a - b < U32
  PROVE  a = b
<1>1. PICK k \in Int : a = b + U32 * k
  BY SameWitness
<1>2. a - b = U32 * k
  BY <1>1, U32Type
<1>3. a - b = 0
  BY <1>2, U32Type, MulUnique
<1> QED BY <1>3

\* The number of cycles may be reduced to 16 bits.
LEMMA SameHigh ==
  ASSUME NEW a \in Int
  PROVE  Same(Mod16(a) * RTP_SEQ_MOD, a * RTP_SEQ_MOD)
<1> DEFINE r == RTP_SEQ_MOD
<1>0. r \in Nat \ {0}
  BY U32Type
<1>1. PICK k \in Int : Mod16(a) = a + r * k
  BY <1>0, ModDiffers DEF Mod16
<1>2. (a + r * k) * r = a * r + (r * r) * k
  BY <1>0
<1>3. Mod16(a) * r = a * r + U32 * k
  BY <1>1, <1>2 DEF U32
<1>4. Mod16(a) * r \in Int /\ a * r \in Int
  BY <1>0, ModTypes DEF Num16
<1> QED BY <1>3, <1>4, SameWitness

-------------------------------------------------------------------------------
(* The inductive invariant.                                                 *)

ClockTimes == [m_sec : Num32, m_msec : 0 .. Msecs - 1]
RecvStats ==
  [m_cycles : Num16, m_max_seq : Num16, m_last_expect_seq : Num32, m_cumm_lost : Num32,
   m_cumm_cycles : Num32, m_has_rtp : BOOLEAN, m_rcv_octet_cnt : Nat,
   m_rcv_pkg_cnt : Num32, m_last_rcv_octet_cnt : Nat, m_last_rr_ntp : ClockTimes,
   m_has_sr : BOOLEAN, m_last_sr_rtp : [m_sec : Num32, m_frac : Int],
   m_last_rcv_sr_ntp : ClockTimes]
SendStats ==
  [m_ready : BOOLEAN, m_has_send_sr : BOOLEAN, m_base_unit : Num32,
   m_first_ntp : ClockTimes, m_snd_pkg_cnt : Num32, m_snd_octet_cnt : Nat,
   m_last_snd_octet_cnt : Nat, m_last_sr_ntp : ClockTimes]
SrTimes == [sent : Clock \cup {-1}, arrived : Clock \cup {-1}]
Owes == [m_max_seq : Int, m_cumm_pkg_lost : Int, m_frac_lost : Int]
Senders ==
  [first : Nat, high : Nat, got : Nat, reported : Int, gotThen : Nat,
   owed : Owes \cup {NoReport}, sr : SrTimes,
   then : [at : Clock \cup {-1}, sr : SrTimes]]
Reports ==
  [m_max_seq : Num32, m_cumm_pkg_lost : Num32, m_frac_lost : Int, m_ntp_lsr : Int,
   m_delay_lsr : Int]
Srs ==
  [sender : [m_snd_pkt_cnt : Num32, m_snd_octet_cnt : Nat, m_rtp_ts : Num32,
             m_ntp : [m_sec : Num32, m_frac : Int]],
   at : Clock, seq : Nat, octets : Nat, cnt : Nat \ {0}]

\* Type invariant
TypeOK ==
  /\ now \in Clock
  /\ statis \in RecvStats
  /\ report \in Reports \cup {NoReport}
  /\ inst \in [m_first_ntp : ClockTimes, m_base_unit : Num32, m_seq : Nat]
  /\ snd \in [Player -> SendStats \cup {NotPlaying}]
  /\ sr \in [Player -> Srs \cup {NoSr}]
  /\ media \in [ts : Num32, at : Clock]
  /\ sender \in Senders
  /\ total \in [octets : Nat, rr : Nat]
  /\ joined \in [Player -> [seq : Nat, octets : Nat]]

\* The counters of s, with what was put away at the last report, stand for the
\* numbers of x, each modulo its width.
Numbers(s, x) ==
  /\ s.m_max_seq = Mod16(x.high)
  /\ Same((s.m_cumm_cycles + s.m_cycles) * RTP_SEQ_MOD + s.m_max_seq,
          x.high - x.first + Mod16(x.first))
  /\ Same(s.m_cycles * RTP_SEQ_MOD + s.m_max_seq - s.m_last_expect_seq,
          x.high - x.reported)
  /\ Same(s.m_cumm_lost, x.reported - x.first + 1 - x.gotThen)
  /\ Same(s.m_rcv_pkg_cnt, x.got - x.gotThen)

\* Nothing was received yet, but perhaps an SR.
Fresh(s, x) ==
  /\ s.m_cycles = 0 /\ s.m_cumm_cycles = 0 /\ s.m_cumm_lost = 0 /\ s.m_rcv_pkg_cnt = 0
  /\ x.high = x.first /\ x.got = 0 /\ x.reported = x.first - 1 /\ x.gotThen = 0

NumbersInv ==
  /\ statis.m_has_rtp => Numbers(statis, sender)
  /\ ~statis.m_has_rtp => Fresh(statis, sender)

\* What was reported was received before, and every packet takes the numbers on
\* by less than MAX_DROPOUT.
Ordered(x) ==
  /\ x.first <= x.high
  /\ x.first - 1 <= x.reported /\ x.reported <= x.high
  /\ x.gotThen <= x.got
  /\ x.high - x.first <= x.got * MAX_DROPOUT

BoundsInv == Ordered(sender) /\ sender.got <= inst.m_seq /\ inst.m_seq <= MaxPackets

\* The octets that earned a report earn no other one.
ShareRecvInv ==
  /\ statis.m_last_rcv_octet_cnt <= statis.m_rcv_octet_cnt
  /\ total.rr * DEF_RTCP_MIN_SIZE * RTCP_TX_RATIO_DEN
       + (statis.m_rcv_octet_cnt - statis.m_last_rcv_octet_cnt) * RTCP_TX_RATIO_NUM
       <= total.octets * RTCP_TX_RATIO_NUM

ShareSendInv == \A p \in Player : snd[p] # NotPlaying =>
  /\ snd[p].m_has_send_sr <=> sr[p] # NoSr
  /\ snd[p].m_last_snd_octet_cnt <= snd[p].m_snd_octet_cnt
  /\ sr[p] # NoSr =>
       (sr[p].cnt - 1) * DEF_RTCP_MIN_SIZE * RTCP_TX_RATIO_DEN
         <= snd[p].m_last_snd_octet_cnt * RTCP_TX_RATIO_NUM

\* What a player was sent is what was relayed since he joined.
SentInv == \A p \in Player :
  /\ snd[p] # NotPlaying =>
       /\ joined[p].seq <= inst.m_seq /\ joined[p].octets <= total.octets
       /\ snd[p].m_snd_pkg_cnt = Mod32(inst.m_seq - joined[p].seq)
       /\ snd[p].m_snd_octet_cnt = total.octets - joined[p].octets
  /\ snd[p] = NotPlaying => sr[p] = NoSr

-------------------------------------------------------------------------------
(* The operators of ClockTime, RecvStat and SendStat.                        *)

\* NtpTime makes a ClockTime.
LEMMA NtpTimeType == ASSUME NEW t \in Int PROVE NtpTime(t) \in ClockTimes
<1>1. t \div Msecs \in Int /\ t % Msecs \in 0 .. Msecs - 1
  BY ClockAssumption, DivMod
<1> QED BY <1>1, ModTypes DEF NtpTime, ClockTimes

\* The difference of two times is a time: no milliseconds below 0.
LEMMA MinusType == ASSUME NEW t \in ClockTimes, NEW u \in ClockTimes
                   PROVE  Minus(t, u) \in ClockTimes
<1>1. /\ t.m_sec \in Num32 /\ u.m_sec \in Num32
      /\ t.m_msec \in 0 .. Msecs - 1 /\ u.m_msec \in 0 .. Msecs - 1 /\ Msecs \in Nat
      /\ U32 \in Nat \ {0}
  BY ClockAssumption, U32Type DEF ClockTimes
<1>2. Zero \in ClockTimes
  BY <1>1, ClockAssumption DEF Zero, ClockTimes, Num32
<1>3. ASSUME NEW b \in {0, 1}, b = IF t.m_msec < u.m_msec THEN 1 ELSE 0
      PROVE  /\ t.m_sec - u.m_sec - b \in Int
             /\ t.m_msec - u.m_msec + b * Msecs \in 0 .. Msecs - 1
  <2>1. CASE t.m_msec < u.m_msec
    BY <1>1, <1>3, <2>1 DEF Num32
  <2>2. CASE ~(t.m_msec < u.m_msec)
    BY <1>1, <1>3, <2>2 DEF Num32
  <2> QED BY <2>1, <2>2
<1> DEFINE b == IF t.m_msec < u.m_msec THEN 1 ELSE 0
<1>4. b \in {0, 1}
  OBVIOUS
<1>5. /\ t.m_sec - u.m_sec - b \in Int
      /\ t.m_msec - u.m_msec + b * Msecs \in 0 .. Msecs - 1
  BY <1>3, <1>4
<1>6. Mod32(t.m_sec - u.m_sec - b) \in Num32
  BY <1>5, ModTypes
<1>7. [m_sec |-> Mod32(t.m_sec - u.m_sec - b),
       m_msec |-> t.m_msec - u.m_msec + b * Msecs] \in ClockTimes
  BY <1>5, <1>6 DEF ClockTimes
<1> QED BY <1>2, <1>7 DEF Minus

\* Media time has 32 bits.
LEMMA UnitType == ASSUME NEW t \in ClockTimes PROVE Ntp2Unit(t) \in Num32
<1>1. /\ t.m_sec \in Int /\ t.m_msec \in Int /\ m_sample_rate \in Int
      /\ Msecs \in Nat \ {0}
  BY ClockAssumption DEF ClockTimes, Num32
<1>2. t.m_msec * m_sample_rate \in Int /\ t.m_sec * m_sample_rate \in Int
  BY <1>1
<1>3. Mod32(t.m_msec * m_sample_rate) \div Msecs \in Int
  <2>1. Mod32(t.m_msec * m_sample_rate) \in Int
    BY <1>2, ModTypes DEF Num32
  <2> QED BY <1>1, <2>1, DivMod
<1> QED BY <1>2, <1>3, ModTypes DEF Ntp2Unit

\* The time stamp of a packet has 32 bits.
LEMMA TsType == ASSUME NEW t \in ClockTimes, NEW u \in ClockTimes, NEW b \in Num32
                PROVE  Ts(t, b, u) \in Num32
<1>1. Ntp2Unit(Minus(u, t)) \in Num32
  BY MinusType, UnitType
<1>2. Ntp2Unit(Minus(u, t)) + b \in Int
  BY <1>1 DEF Num32
<1> QED BY <1>2, ModTypes DEF Ts

\* The time in an SR has 32 bits of seconds.
LEMMA RtpTimeType == ASSUME NEW t \in ClockTimes
                     PROVE  RtpTime(t) \in [m_sec : Num32, m_frac : Int]
<1>1. t.m_msec * U32 \in Int /\ Msecs \in Nat \ {0}
  BY ClockAssumption, U32Type DEF ClockTimes
<1>2. (t.m_msec * U32) \div Msecs \in Int
  BY <1>1, DivMod
<1> QED BY <1>2 DEF RtpTime, Rescale, U32, ClockTimes

\* The times that an RR carries are numbers.
LEMMA U32Types ==
  /\ \A t \in ClockTimes : Ntp2U32(t) \in Int
  /\ \A t \in [m_sec : Num32, m_frac : Int] : Rtp2U32(t) \in Int
<1>1. ASSUME NEW t \in ClockTimes PROVE Ntp2U32(t) \in Int
  <2>1. t.m_msec * RTP_SEQ_MOD \in Int /\ Msecs \in Nat \ {0} /\ t.m_sec \in Int
    BY ClockAssumption DEF ClockTimes, Num32
  <2>2. (t.m_msec * RTP_SEQ_MOD) \div Msecs \in Int
    BY <2>1, DivMod
  <2>3. /\ Mod16((t.m_msec * RTP_SEQ_MOD) \div Msecs) \in Int
        /\ Mod16(t.m_sec) \in Int
    BY <2>1, <2>2, ModTypes DEF Num16
  <2> QED BY <2>3, U32Type DEF Ntp2U32
<1>2. ASSUME NEW t \in [m_sec : Num32, m_frac : Int] PROVE Rtp2U32(t) \in Int
  <2>1. t.m_frac \div RTP_SEQ_MOD \in Int /\ t.m_sec \in Int
    BY U32Type, DivMod DEF Num32
  <2>2. Mod16(t.m_frac \div RTP_SEQ_MOD) \in Int /\ Mod16(t.m_sec) \in Int
    BY <2>1, ModTypes DEF Num16
  <2> QED BY <2>2, U32Type DEF Rtp2U32
<1> QED BY <1>1, <1>2

\* What a report costs was received before.
LEMMA EarnedOctets ==
  ASSUME NEW n \in Nat, Earned(n)
  PROVE  DEF_RTCP_MIN_SIZE * RTCP_TX_RATIO_DEN <= n * RTCP_TX_RATIO_NUM
<1> DEFINE x == n * RTCP_TX_RATIO_NUM
           q == x \div RTCP_TX_RATIO_DEN
           d == RTCP_TX_RATIO_DEN
<1>1. x \in Int /\ d \in Nat \ {0} /\ DEF_RTCP_MIN_SIZE \in Nat
  BY StatAssumption
<1>2. q \in Int /\ x = d * q + (x % d) /\ x % d \in 0 .. d - 1
  BY <1>1, DivMod
<1>3. DEF_RTCP_MIN_SIZE <= q
  BY DEF Earned
<1> HIDE DEF x, q, d
<1>4. d * DEF_RTCP_MIN_SIZE <= d * q
  BY <1>1, <1>2, <1>3
<1>5. d * DEF_RTCP_MIN_SIZE = DEF_RTCP_MIN_SIZE * d /\ d * q \in Int
      /\ d * DEF_RTCP_MIN_SIZE \in Int
  BY <1>1, <1>2
<1>6. DEF_RTCP_MIN_SIZE * d <= x
  BY <1>1, <1>2, <1>4, <1>5
<1> QED BY <1>6 DEF x, d

-------------------------------------------------------------------------------
(* What RecvStatis makes of a packet and of a report.                        *)

\* A number that is up to one round higher is the old one and the difference,
\* with a carry into the cycles when it came out lower.
LEMMA Carry ==
  ASSUME NEW a \in Int, NEW d \in 0 .. RTP_SEQ_MOD - 1
  PROVE  Mod16(a + d) = Mod16(a) + d
           - (IF Mod16(a + d) < Mod16(a) THEN RTP_SEQ_MOD ELSE 0)
<1> DEFINE m == RTP_SEQ_MOD
           x == Mod16(a)
<1>0. m \in Nat \ {0} /\ x \in 0 .. m - 1 /\ d \in 0 .. m - 1
  BY U32Type, ModTypes DEF Num16
<1>1. Mod16(a + d) = (x + d) % m
  <2>1. m \in Nat \ {0} /\ d \in Int
    BY <1>0
  <2> HIDE DEF m
  <2>2. ((a % m) + d) % m = (a + d) % m
    BY <2>1, ModPlus
  <2> QED BY <2>2 DEF Mod16, m
<1> HIDE DEF x
<1>2. CASE x + d < m
  <2>1. (x + d) % m = x + d
    BY <1>0, <1>2, ModSmall
  <2> QED BY <1>0, <1>1, <2>1 DEF x
<1>3. CASE x + d >= m
  <2>1. x + d - m \in 0 .. m - 1
    BY <1>0, <1>3
  <2>2. x + d = m * 1 + (x + d - m)
    BY <1>0
  <2>3. (x + d) % m = x + d - m
    BY <1>0, <2>1, <2>2, ModUnique
  <2> QED BY <1>0, <1>1, <2>3 DEF x
<1> QED BY <1>0, <1>2, <1>3

\* How far a number is from the highest one, told from their lower halves.
LEMMA Delta ==
  ASSUME NEW h \in Int, NEW e \in Int, h - MAX_MISORDER < e, e < h + MAX_DROPOUT
  PROVE  LET delta == Mod16(Mod16(e) - Mod16(h))
         IN /\ delta \in Num16
            /\ delta < MAX_DROPOUT <=> h <= e
            /\ h <= e => e - h \in 0 .. RTP_SEQ_MOD - 1
<1> DEFINE m == RTP_SEQ_MOD
           delta == Mod16(Mod16(e) - Mod16(h))
           d == e - h
<1>0. /\ m \in Nat \ {0} /\ d \in Int /\ -MAX_MISORDER < d /\ d < MAX_DROPOUT
      /\ MAX_DROPOUT \in Nat /\ MAX_MISORDER \in Nat /\ MAX_DROPOUT + MAX_MISORDER <= m
  BY U32Type, StatAssumption
<1>1. delta = d % m
  <2>1. Mod16(h) \in Int /\ Mod16(e) \in Int
    BY ModTypes DEF Num16
  <2>2. ((e % m) + (-Mod16(h))) % m = (e + (-Mod16(h))) % m
    <3> DEFINE n == -Mod16(h)
    <3>1. m \in Nat \ {0} /\ n \in Int
      BY <1>0, <2>1
    <3> HIDE DEF m, n
    <3>2. ((e % m) + n) % m = (e + n) % m
      BY <3>1, ModPlus
    <3> QED BY <3>2 DEF m, n
  <2>3. e + (-Mod16(h)) = e - Mod16(h) /\ Mod16(e) + (-Mod16(h)) = Mod16(e) - Mod16(h)
    BY <2>1
  <2>4. (e - (h % m)) % m = (e - h) % m
    BY <1>0, ModMinus
  <2> QED BY <2>2, <2>3, <2>4 DEF Mod16
<1> HIDE DEF d
<1>2. CASE d >= 0
  <2>1. d \in 0 .. m - 1
    BY <1>0, <1>2
  <2>2. d % m = d
    BY <1>0, <2>1, ModSmall
  <2> QED BY <1>0, <1>1, <1>2, <2>1, <2>2 DEF d, Num16
<1>3. CASE d < 0
  <2>1. d + m \in 0 .. m - 1 /\ d = m * (-1) + (d + m)
    BY <1>0, <1>3
  <2>2. d % m = d + m
    BY <1>0, <2>1, ModUnique
  <2> QED BY <1>0, <1>1, <1>3, <2>1, <2>2 DEF d, Num16
<1> QED BY <1>0, <1>2, <1>3

\* procRtpData: the statistics after a packet.
Received(s, e, size) == UpdateRtpRecv(ValidSeq(s, Mod16(e)), size)

\* A packet adds one to the packets and its size to the octets, and leaves
\* alone what earlier reports and the SRs have put down.
LEMMA ReceivedEffect ==
  ASSUME NEW s \in RecvStats, NEW e \in Int, NEW size \in Nat
  PROVE  LET r == Received(s, e, size)
         IN /\ r \in RecvStats
            /\ r.m_has_rtp
            /\ r.m_rcv_pkg_cnt = Mod32(s.m_rcv_pkg_cnt + 1)
            /\ r.m_rcv_octet_cnt = s.m_rcv_octet_cnt + size
            /\ r.m_last_rcv_octet_cnt = s.m_last_rcv_octet_cnt
            /\ r.m_cumm_lost = s.m_cumm_lost /\ r.m_cumm_cycles = s.m_cumm_cycles
            /\ r.m_has_sr = s.m_has_sr /\ r.m_last_sr_rtp = s.m_last_sr_rtp
            /\ r.m_last_rcv_sr_ntp = s.m_last_rcv_sr_ntp
            /\ r.m_last_rr_ntp = s.m_last_rr_ntp
<1> DEFINE q == Mod16(e)
           v == ValidSeq(s, q)
           delta == Mod16(q - s.m_max_seq)
<1>1. q \in Num16 /\ q \in Int
  BY ModTypes DEF Num16
<1>2. /\ s.m_max_seq \in Int /\ s.m_cycles \in Int /\ s.m_rcv_pkg_cnt \in Int
      /\ s.m_has_rtp \in BOOLEAN
  BY DEF RecvStats, Num16, Num32
<1>3. /\ delta \in Int /\ MAX_DROPOUT \in Int
      /\ Mod32(q - 1) \in Num32 /\ Mod16(s.m_cycles + 1) \in Num16
      /\ Mod32(s.m_rcv_pkg_cnt + 1) \in Num32
  BY <1>1, <1>2, ModTypes, StatAssumption DEF Num16
<1> HIDE DEF q, delta
<1>4. /\ v \in RecvStats
      /\ v.m_has_rtp
      /\ v.m_rcv_pkg_cnt = s.m_rcv_pkg_cnt
      /\ v.m_rcv_octet_cnt = s.m_rcv_octet_cnt
      /\ v.m_last_rcv_octet_cnt = s.m_last_rcv_octet_cnt
      /\ v.m_cumm_lost = s.m_cumm_lost /\ v.m_cumm_cycles = s.m_cumm_cycles
      /\ v.m_has_sr = s.m_has_sr /\ v.m_last_sr_rtp = s.m_last_sr_rtp
      /\ v.m_last_rcv_sr_ntp = s.m_last_rcv_sr_ntp
      /\ v.m_last_rr_ntp = s.m_last_rr_ntp
  <2>1. CASE ~s.m_has_rtp
    BY <1>1, <1>2, <1>3, <2>1 DEF ValidSeq, RecvStats
  <2>2. CASE s.m_has_rtp /\ delta < MAX_DROPOUT
    BY <1>1, <1>2, <1>3, <2>2 DEF ValidSeq, RecvStats, delta
  <2>3. CASE s.m_has_rtp /\ ~(delta < MAX_DROPOUT)
    BY <1>1, <1>2, <1>3, <2>3 DEF ValidSeq, RecvStats, delta
  <2> QED BY <1>2, <2>1, <2>2, <2>3
<1> HIDE DEF v
<1>5. Received(s, e, size)
        = [v EXCEPT !.m_rcv_octet_cnt = @ + size, !.m_rcv_pkg_cnt = Mod32(@ + 1)]
  BY DEF Received, UpdateRtpRecv, v, q
<1>6. v.m_rcv_octet_cnt \in Nat /\ v.m_rcv_octet_cnt + size \in Nat
  BY <1>4 DEF RecvStats
<1>7. Received(s, e, size) \in RecvStats
  BY <1>3, <1>4, <1>5, <1>6 DEF RecvStats
<1> QED BY <1>4, <1>5, <1>7 DEF RecvStats

-------------------------------------------------------------------------------
\* Once numbers are there: the highest one and the cycles follow the packet.
LEMMA ReceivedNumber ==
  ASSUME NEW s \in RecvStats, NEW h \in Int, NEW e \in Int, NEW size \in Nat,
         s.m_has_rtp, s.m_max_seq = Mod16(h),
         h - MAX_MISORDER < e, e < h + MAX_DROPOUT
  PROVE  LET r == Received(s, e, size)
             high == IF e > h THEN e ELSE h
         IN /\ r.m_last_expect_seq = s.m_last_expect_seq
            /\ r.m_max_seq = Mod16(high)
            /\ Same(r.m_cycles * RTP_SEQ_MOD + r.m_max_seq,
                    s.m_cycles * RTP_SEQ_MOD + s.m_max_seq + high - h)
<1> DEFINE q == Mod16(e)
           delta == Mod16(q - s.m_max_seq)
           r == Received(s, e, size)
           m == RTP_SEQ_MOD
           c == s.m_cycles
<1>1. /\ delta \in Num16
      /\ delta < MAX_DROPOUT <=> h <= e
      /\ h <= e => e - h \in 0 .. m - 1
  BY Delta
<1>2. c \in Int /\ m \in Nat \ {0} /\ Mod16(h) \in Num16 /\ q \in Num16
  BY U32Type, ModTypes DEF RecvStats, Num16
<1>5. LET v == IF delta < MAX_DROPOUT
               THEN [s EXCEPT !.m_max_seq = q,
                       !.m_cycles = IF q < s.m_max_seq THEN Mod16(@ + 1) ELSE @]
               ELSE s
      IN r = [v EXCEPT !.m_rcv_octet_cnt = @ + size, !.m_rcv_pkg_cnt = Mod32(@ + 1)]
  <2>1. delta \in Int /\ MAX_DROPOUT \in Int
    BY <1>1, StatAssumption DEF Num16
  <2>2. ValidSeq(s, q) =
          IF delta < MAX_DROPOUT
          THEN [s EXCEPT !.m_max_seq = q,
                  !.m_cycles = IF q < s.m_max_seq THEN Mod16(@ + 1) ELSE @]
          ELSE s
    <3>1. CASE delta < MAX_DROPOUT
      BY <2>1, <3>1 DEF ValidSeq
    <3>2. CASE ~(delta < MAX_DROPOUT)
      BY <2>1, <3>2 DEF ValidSeq
    <3> QED BY <3>1, <3>2
  <2> QED BY <2>2 DEF Received, UpdateRtpRecv
<1>3. CASE h <= e
  <2> DEFINE d == e - h
             carried == q < Mod16(h)
             n == IF carried THEN Mod16(c + 1) ELSE c
             k == IF carried THEN c + 1 ELSE c
  <2>1. delta < MAX_DROPOUT
    BY <1>1, <1>3
  <2>2. /\ r.m_last_expect_seq = s.m_last_expect_seq /\ r.m_max_seq = q
        /\ r.m_cycles = n
    BY <1>5, <2>1 DEF RecvStats
  <2>3. d \in 0 .. m - 1 /\ h + d = e
    BY <1>1, <1>3
  <2>4. q = Mod16(h) + d - (IF carried THEN m ELSE 0)
    <3>1. Mod16(h + d) = Mod16(h) + d - (IF Mod16(h + d) < Mod16(h) THEN m ELSE 0)
      BY <2>3, Carry
    <3> QED BY <2>3, <3>1
  <2>5. Same(n * m, k * m) /\ n \in Int /\ k \in Int
    <3>1. c + 1 \in Int /\ Mod16(c + 1) \in Int
      BY <1>2, ModTypes DEF Num16
    <3>2. Same(Mod16(c + 1) * m, (c + 1) * m)
      BY <3>1, SameHigh
    <3>3. Same(c * m, c * m)
      BY DEF Same
    <3> QED BY <1>2, <3>1, <3>2, <3>3
  <2>6. k * m + q = c * m + Mod16(h) + d
    <3>1. (c + 1) * m = c * m + m /\ c * m \in Int
      BY <1>2
    <3> HIDE DEF q, d, m
    <3> QED BY <1>2, <2>3, <2>4, <3>1 DEF Num16
  <2>7. Same(n * m + q, k * m + q)
    <3>1. n * m \in Int /\ k * m \in Int /\ q \in Int /\ Same(q, q)
      BY <1>2, <2>5 DEF Same, Num16
    <3> HIDE DEF n, k, m, q
    <3> QED BY <2>5, <3>1, SameSum
  <2>8. (IF e > h THEN e ELSE h) = e
    BY <1>3
  <2>9. c * m + Mod16(h) + d = c * m + Mod16(h) + e - h
    <3>1. c * m \in Int /\ Mod16(h) \in Int
      BY <1>2 DEF Num16
    <3> HIDE DEF m
    <3> QED BY <3>1
  <2> HIDE DEF n, k
  <2> QED BY <2>2, <2>6, <2>7, <2>8, <2>9
<1>4. CASE ~(h <= e)
  <2>1. ~(delta < MAX_DROPOUT)
    BY <1>1, <1>4
  <2>2. /\ r.m_last_expect_seq = s.m_last_expect_seq /\ r.m_max_seq = s.m_max_seq
        /\ r.m_cycles = c
    BY <1>5, <2>1 DEF RecvStats
  <2>3. (IF e > h THEN e ELSE h) = h
    BY <1>4
  <2>4. c * m + s.m_max_seq = c * m + s.m_max_seq + h - h
    <3>1. c * m \in Int /\ s.m_max_seq \in Int
      BY <1>2 DEF Num16
    <3> HIDE DEF m, c
    <3> QED BY <3>1
  <2> QED BY <2>2, <2>3, <2>4 DEF Same
<1> QED BY <1>3, <1>4

\* The numbers of a publisher after a packet.
Seen(x, e) ==
  [x EXCEPT !.high = IF e > x.high THEN e ELSE x.high, !.got = x.got + 1]

\* The statistics keep to the numbers when a packet within the windows of
\* validSeq arrives.
LEMMA NumbersReceived ==
  ASSUME NEW s \in RecvStats, NEW x \in Senders, NEW e \in Int, NEW size \in Nat,
         s.m_has_rtp => Numbers(s, x),
         ~s.m_has_rtp => Fresh(s, x) /\ e = x.first,
         x.high - MAX_MISORDER < e, e < x.high + MAX_DROPOUT
  PROVE  Numbers(Received(s, e, size), Seen(x, e))
<1> DEFINE r == Received(s, e, size)
           y == Seen(x, e)
           m == RTP_SEQ_MOD
<1>1. /\ r \in RecvStats /\ r.m_has_rtp
      /\ r.m_rcv_pkg_cnt = Mod32(s.m_rcv_pkg_cnt + 1)
      /\ r.m_cumm_lost = s.m_cumm_lost /\ r.m_cumm_cycles = s.m_cumm_cycles
  BY ReceivedEffect
<1>2. /\ y.high = IF e > x.high THEN e ELSE x.high
      /\ y.got = x.got + 1 /\ y.first = x.first /\ y.reported = x.reported
      /\ y.gotThen = x.gotThen
  BY DEF Seen, Senders
<1>3. /\ x.high \in Int /\ x.first \in Int /\ x.got \in Int /\ x.reported \in Int
      /\ x.gotThen \in Int /\ y.high \in Int /\ Mod16(x.first) \in Int
  BY <1>2, ModTypes DEF Senders, Num16
<1>4. /\ s.m_rcv_pkg_cnt \in Int /\ s.m_cumm_lost \in Int /\ s.m_cumm_cycles \in Int
      /\ s.m_cycles \in Int /\ s.m_max_seq \in Int /\ s.m_last_expect_seq \in Int
      /\ r.m_cycles \in Int /\ r.m_max_seq \in Int /\ m \in Nat \ {0}
  BY <1>1, U32Type DEF RecvStats, Num16, Num32
<1> HIDE DEF r, y
<1>5. Same(Mod32(s.m_rcv_pkg_cnt + 1), s.m_rcv_pkg_cnt + 1)
  BY <1>4, SameMod
<1>6. Same(r.m_rcv_pkg_cnt, y.got - y.gotThen)
  <2>1. Same(s.m_rcv_pkg_cnt, x.got - x.gotThen)
    <3>1. CASE s.m_has_rtp
      BY <3>1 DEF Numbers
    <3>2. CASE ~s.m_has_rtp
      BY <3>2 DEF Fresh, Same
    <3> QED BY <3>1, <3>2
  <2>2. Same(s.m_rcv_pkg_cnt + 1, (x.got - x.gotThen) + 1)
    <3> DEFINE a1 == s.m_rcv_pkg_cnt
               b1 == x.got - x.gotThen
               c1 == s.m_rcv_pkg_cnt + 1
               d1 == (x.got - x.gotThen) + 1
    <3>a. /\ a1 \in Int /\ b1 \in Int /\ c1 \in Int /\ d1 \in Int
         /\ c1 - a1 = d1 - b1
      BY <1>3, <1>4
    <3>b. Same(a1, b1)
      BY <2>1
    <3> HIDE DEF a1, b1, c1, d1
    <3>c. Same(c1, d1)
      BY <3>a, <3>b, SameTransfer
    <3> QED BY <3>c DEF c1, d1
  <2>3. (x.got - x.gotThen) + 1 = y.got - y.gotThen
    BY <1>2, <1>3
  <2> QED BY <1>1, <1>5, <2>2, <2>3 DEF Same
<1>7. Same(r.m_cumm_lost, y.reported - y.first + 1 - y.gotThen)
  <2>1. CASE s.m_has_rtp
    BY <1>1, <1>2, <2>1 DEF Numbers
  <2>2. CASE ~s.m_has_rtp
    <3>1. x.reported - x.first + 1 - x.gotThen = 0
      BY <1>3, <2>2 DEF Fresh
    <3> QED BY <1>1, <1>2, <2>2, <3>1 DEF Same, Fresh
  <2> QED BY <2>1, <2>2
<1>8. CASE s.m_has_rtp
  <2>1. /\ r.m_last_expect_seq = s.m_last_expect_seq
        /\ r.m_max_seq = Mod16(y.high)
        /\ Same(r.m_cycles * m + r.m_max_seq, s.m_cycles * m + s.m_max_seq + y.high - x.high)
    BY <1>2, <1>3, <1>8, ReceivedNumber DEF Numbers, r
  <2> DEFINE a == r.m_cycles * m
             b == s.m_cycles * m
             c == s.m_cumm_cycles * m
  <2>2. a \in Int /\ b \in Int /\ c \in Int
    BY <1>4
  <2>3. /\ (s.m_cumm_cycles + s.m_cycles) * m = c + b
        /\ (r.m_cumm_cycles + r.m_cycles) * m = c + a
    BY <1>1, <1>4
  <2> HIDE DEF a, b, c
  <2>4. Same((r.m_cumm_cycles + r.m_cycles) * m + r.m_max_seq,
             y.high - y.first + Mod16(y.first))
    <3>1. Same(c + b + s.m_max_seq, x.high - x.first + Mod16(x.first))
      BY <1>8, <2>3 DEF Numbers
    <3>2. Same(a + r.m_max_seq, b + s.m_max_seq + y.high - x.high)
      BY <2>1 DEF a, b
    <3>3. Same((a + r.m_max_seq) + c, (b + s.m_max_seq + y.high - x.high) + c)
      <4> DEFINE a1 == a + r.m_max_seq
                 b1 == b + s.m_max_seq + y.high - x.high
                 c1 == (a + r.m_max_seq) + c
                 d1 == (b + s.m_max_seq + y.high - x.high) + c
      <4>a. /\ a1 \in Int /\ b1 \in Int /\ c1 \in Int /\ d1 \in Int
           /\ c1 - a1 = d1 - b1
        BY <1>3, <1>4, <2>2
      <4>b. Same(a1, b1)
        BY <3>2
      <4> HIDE DEF a1, b1, c1, d1
      <4>c. Same(c1, d1)
        BY <4>a, <4>b, SameTransfer
      <4> QED BY <4>c DEF c1, d1
    <3>4. Same((c + b + s.m_max_seq) + (y.high - x.high),
               (x.high - x.first + Mod16(x.first)) + (y.high - x.high))
      <4> DEFINE a1 == c + b + s.m_max_seq
                 b1 == x.high - x.first + Mod16(x.first)
                 c1 == (c + b + s.m_max_seq) + (y.high - x.high)
                 d1 == (x.high - x.first + Mod16(x.first)) + (y.high - x.high)
      <4>a. /\ a1 \in Int /\ b1 \in Int /\ c1 \in Int /\ d1 \in Int
           /\ c1 - a1 = d1 - b1
        BY <1>3, <1>4, <2>2
      <4>b. Same(a1, b1)
        BY <3>1
      <4> HIDE DEF a1, b1, c1, d1
      <4>c. Same(c1, d1)
        BY <4>a, <4>b, SameTransfer
      <4> QED BY <4>c DEF c1, d1
    <3>5. /\ (a + r.m_max_seq) + c = c + a + r.m_max_seq
          /\ (b + s.m_max_seq + y.high - x.high) + c
               = (c + b + s.m_max_seq) + (y.high - x.high)
          /\ (x.high - x.first + Mod16(x.first)) + (y.high - x.high)
               = y.high - x.first + Mod16(x.first)
      BY <1>3, <1>4, <2>2
    <3> QED BY <1>2, <2>3, <3>3, <3>4, <3>5 DEF Same
  <2>5. Same(r.m_cycles * m + r.m_max_seq - r.m_last_expect_seq, y.high - y.reported)
    <3>1. Same(b + s.m_max_seq - s.m_last_expect_seq, x.high - x.reported)
      BY <1>8 DEF Numbers, b
    <3>2. Same(a + r.m_max_seq, b + s.m_max_seq + y.high - x.high)
      BY <2>1 DEF a, b
    <3>3. Same((a + r.m_max_seq) - s.m_last_expect_seq,
               (b + s.m_max_seq + y.high - x.high) - s.m_last_expect_seq)
      <4> DEFINE a1 == a + r.m_max_seq
                 b1 == b + s.m_max_seq + y.high - x.high
                 c1 == (a + r.m_max_seq) - s.m_last_expect_seq
                 d1 == (b + s.m_max_seq + y.high - x.high) - s.m_last_expect_seq
      <4>a. /\ a1 \in Int /\ b1 \in Int /\ c1 \in Int /\ d1 \in Int
           /\ c1 - a1 = d1 - b1
        BY <1>3, <1>4, <2>2
      <4>b. Same(a1, b1)
        BY <3>2
      <4> HIDE DEF a1, b1, c1, d1
      <4>c. Same(c1, d1)
        BY <4>a, <4>b, SameTransfer
      <4> QED BY <4>c DEF c1, d1
    <3>4. Same((b + s.m_max_seq - s.m_last_expect_seq) + (y.high - x.high),
               (x.high - x.reported) + (y.high - x.high))
      <4> DEFINE a1 == b + s.m_max_seq - s.m_last_expect_seq
                 b1 == x.high - x.reported
                 c1 == (b + s.m_max_seq - s.m_last_expect_seq) + (y.high - x.high)
                 d1 == (x.high - x.reported) + (y.high - x.high)
      <4>a. /\ a1 \in Int /\ b1 \in Int /\ c1 \in Int /\ d1 \in Int
           /\ c1 - a1 = d1 - b1
        BY <1>3, <1>4, <2>2
      <4>b. Same(a1, b1)
        BY <3>1
      <4> HIDE DEF a1, b1, c1, d1
      <4>c. Same(c1, d1)
        BY <4>a, <4>b, SameTransfer
      <4> QED BY <4>c DEF c1, d1
    <3>5. /\ (b + s.m_max_seq + y.high - x.high) - s.m_last_expect_seq
               = (b + s.m_max_seq - s.m_last_expect_seq) + (y.high - x.high)
          /\ (x.high - x.reported) + (y.high - x.high) = y.high - x.reported
      BY <1>3, <1>4, <2>2
    <3>6. Same((a + r.m_max_seq) - s.m_last_expect_seq, y.high - y.reported)
      BY <1>2, <3>3, <3>4, <3>5 DEF Same
    <3>7. (a + r.m_max_seq) - s.m_last_expect_seq
            = a + r.m_max_seq - s.m_last_expect_seq
      BY <1>4, <2>2
    <3>8. r.m_last_expect_seq = s.m_last_expect_seq
      BY <2>1
    <3> QED BY <3>6, <3>7, <3>8 DEF a
  <2> QED BY <1>6, <1>7, <2>1, <2>4, <2>5 DEF Numbers, r, y
<1>9. CASE ~s.m_has_rtp
  <2>1. r.m_max_seq = Mod16(e) /\ r.m_last_expect_seq = Mod32(Mod16(e) - 1)
        /\ r.m_cycles = s.m_cycles
    BY <1>9 DEF r, Received, ValidSeq, UpdateRtpRecv, RecvStats
  <2>2. /\ s.m_cycles = 0 /\ s.m_cumm_cycles = 0 /\ e = x.first /\ x.high = x.first
        /\ x.reported = x.first - 1
    BY <1>9 DEF Fresh
  <2>3. y.high = e
    BY <1>2, <1>3, <2>2
  <2>4. (0 + 0) * m = 0 /\ 0 * m = 0
    BY <1>4
  <2> DEFINE q == Mod16(e)
  <2>5. q \in Int
    BY <1>3, <2>2
  <2> HIDE DEF q
  <2>6. Same(q - Mod32(q - 1), q - (q - 1))
    <3>1. Same(Mod32(q - 1), q - 1) /\ Mod32(q - 1) \in Int /\ Same(q, q)
      BY <2>5, SameMod, ModTypes DEF Num32, Same
    <3> QED BY <2>5, <3>1, SameDifference
  <2>7. /\ 0 + q - Mod32(q - 1) = q - Mod32(q - 1)
        /\ q - (q - 1) = y.high - y.reported
        /\ 0 + q = y.high - y.first + q
    <3>1. Mod32(q - 1) \in Int
      BY <2>5, ModTypes DEF Num32
    <3> QED BY <1>2, <1>3, <2>2, <2>3, <2>5, <3>1
  <2>8. Same((r.m_cumm_cycles + r.m_cycles) * m + r.m_max_seq,
             y.high - y.first + Mod16(y.first))
    BY <1>1, <1>2, <2>1, <2>2, <2>4, <2>7 DEF Same, q
  <2>9. Same(r.m_cycles * m + r.m_max_seq - r.m_last_expect_seq, y.high - y.reported)
    BY <2>1, <2>2, <2>4, <2>6, <2>7 DEF q
  <2> QED BY <1>6, <1>7, <2>1, <2>3, <2>8, <2>9 DEF Numbers, r, y
<1> QED BY <1>8, <1>9

-------------------------------------------------------------------------------
\* The numbers in a report, and the statistics after it.
LEMMA NumbersReported ==
  ASSUME NEW s \in RecvStats, NEW x \in Senders, NEW y \in Senders,
         NEW ntp \in ClockTimes,
         Numbers(s, x),
         y.first = x.first, y.high = x.high, y.got = x.got,
         y.reported = x.high, y.gotThen = x.got
  PROVE  /\ Same(CummLost(s), x.high - x.first + 1 - x.got)
         /\ Same(ExpectedInterval(s), x.high - x.reported)
         /\ CummLost(s) \in Num32 /\ ExpectedInterval(s) \in Num32
         /\ Reported(s, ntp) \in RecvStats
         /\ Numbers(Reported(s, ntp), y)
<1> DEFINE m == RTP_SEQ_MOD
           c == s.m_cycles * m
           d == s.m_cumm_cycles * m
           ex == ExpectedInterval(s)
           r == Reported(s, ntp)
           u == x.high - x.reported
           v == x.reported - x.first + 1 - x.gotThen
           w == x.got - x.gotThen
<1>1. /\ s.m_rcv_pkg_cnt \in Int /\ s.m_cumm_lost \in Int /\ s.m_cumm_cycles \in Int
      /\ s.m_cycles \in Int /\ s.m_max_seq \in Int /\ s.m_last_expect_seq \in Int
      /\ m \in Nat \ {0}
  BY U32Type DEF RecvStats, Num16, Num32
<1>2. /\ x.high \in Int /\ x.first \in Int /\ x.got \in Int /\ x.reported \in Int
      /\ x.gotThen \in Int /\ Mod16(x.first) \in Int
  BY ModTypes DEF Senders, Num16
<1>3. c \in Int /\ d \in Int /\ u \in Int /\ v \in Int /\ w \in Int
  BY <1>1, <1>2
<1>4. Same(c + s.m_max_seq - s.m_last_expect_seq, u)
  BY DEF Numbers
<1>5. Same(s.m_cumm_lost, v) /\ Same(s.m_rcv_pkg_cnt, w)
  BY DEF Numbers
<1>6. ex \in Num32 /\ ex = Mod32(c + s.m_max_seq - s.m_last_expect_seq)
  <2> HIDE DEF c
  <2>1. c + s.m_max_seq - s.m_last_expect_seq \in Int
    BY <1>1, <1>3
  <2>2. Mod32(c + s.m_max_seq - s.m_last_expect_seq) \in Num32
    BY <2>1, ModTypes
  <2> QED BY <2>2 DEF ExpectedInterval, c
<1>7. CummLost(s) = Mod32(s.m_cumm_lost + ex - s.m_rcv_pkg_cnt)
  BY DEF CummLost
<1>8. v + u - w = x.high - x.first + 1 - x.got
  <2>1. PICK h \in Int, f \in Int, p \in Int, g \in Int, t \in Int :
          x.high = h /\ x.first = f /\ x.reported = p /\ x.got = g /\ x.gotThen = t
    BY <1>2
  <2>2. (p - f + 1 - t) + (h - p) - (g - t) = h - f + 1 - g
    OBVIOUS
  <2> QED BY <2>1, <2>2
<1> HIDE DEF c, d, ex, u, v, w
<1>9. ex \in Int
  BY <1>6 DEF Num32
<1>10. Same(ex, u)
  <2> DEFINE t == c + s.m_max_seq - s.m_last_expect_seq
  <2>1. t \in Int
    BY <1>1, <1>3
  <2>2. Same(t, u)
    BY <1>4
  <2> HIDE DEF t
  <2>3. Same(Mod32(t), t)
    BY <2>1, SameMod
  <2>4. ex = Mod32(t)
    BY <1>6 DEF t
  <2> QED BY <2>2, <2>3, <2>4 DEF Same
<1>11. Same(s.m_cumm_lost + ex - s.m_rcv_pkg_cnt, v + u - w)
  <2> DEFINE i == s.m_cumm_lost + ex
             j == v + u
  <2>1. i \in Int /\ j \in Int
    BY <1>1, <1>3, <1>9
  <2>2. Same(i, j)
    BY <1>1, <1>3, <1>5, <1>9, <1>10, SameSum
  <2> HIDE DEF i, j
  <2>3. Same(i - s.m_rcv_pkg_cnt, j - w)
    BY <1>1, <1>3, <1>5, <2>1, <2>2, SameDifference
  <2>4. /\ i - s.m_rcv_pkg_cnt = s.m_cumm_lost + ex - s.m_rcv_pkg_cnt
        /\ j - w = v + u - w
    BY <1>1, <1>3, <1>9 DEF i, j
  <2> QED BY <2>3, <2>4
<1>12. CummLost(s) \in Num32 /\ Same(CummLost(s), v + u - w)
  <2> DEFINE t == s.m_cumm_lost + ex - s.m_rcv_pkg_cnt
  <2>1. t \in Int
    BY <1>1, <1>9
  <2>2. Same(t, v + u - w)
    BY <1>11
  <2> HIDE DEF t
  <2>3. Same(Mod32(t), t) /\ Mod32(t) \in Num32
    BY <2>1, SameMod, ModTypes
  <2>4. CummLost(s) = Mod32(t)
    BY <1>7 DEF t
  <2> QED BY <2>2, <2>3, <2>4 DEF Same
<1>13. r = [s EXCEPT !.m_cumm_lost = CummLost(s),
              !.m_cumm_cycles = Mod32(s.m_cumm_cycles + s.m_cycles),
              !.m_cycles = 0, !.m_rcv_pkg_cnt = 0, !.m_last_expect_seq = s.m_max_seq,
              !.m_last_rr_ntp = ntp, !.m_last_rcv_octet_cnt = s.m_rcv_octet_cnt]
  BY DEF Reported, RecvStats
<1> HIDE DEF r
<1>14. /\ Mod32(s.m_cumm_cycles + s.m_cycles) \in Num32
       /\ Same(Mod32(s.m_cumm_cycles + s.m_cycles), s.m_cumm_cycles + s.m_cycles)
  <2> DEFINE t == s.m_cumm_cycles + s.m_cycles
  <2>1. t \in Int
    BY <1>1
  <2> HIDE DEF t
  <2>2. Mod32(t) \in Num32 /\ Same(Mod32(t), t)
    BY <2>1, SameMod, ModTypes
  <2> QED BY <2>2 DEF t
<1>15. s.m_max_seq \in Num32 /\ 0 \in Num32 /\ 0 \in Num16
  <2>1. s.m_max_seq \in 0 .. m - 1
    BY DEF RecvStats, Num16
  <2>2. m <= m * m
    BY <1>1
  <2>3. m * m \in Int
    BY <1>1
  <2>4. U32 = m * m
    BY DEF U32
  <2>5. s.m_max_seq \in Num32 /\ 0 \in Num32
    BY <1>1, <2>1, <2>2, <2>3, <2>4 DEF Num32
  <2> QED BY <1>1, <2>5 DEF Num16
<1>16. r \in RecvStats
  BY <1>12, <1>13, <1>14, <1>15 DEF RecvStats
<1>17. /\ r.m_cycles = 0 /\ r.m_max_seq = s.m_max_seq /\ r.m_last_expect_seq = s.m_max_seq
       /\ r.m_rcv_pkg_cnt = 0 /\ r.m_cumm_lost = CummLost(s)
       /\ r.m_cumm_cycles = Mod32(s.m_cumm_cycles + s.m_cycles)
  BY <1>13 DEF RecvStats
<1>18. Same((r.m_cumm_cycles + r.m_cycles) * m + r.m_max_seq,
            y.high - y.first + Mod16(y.first))
  <2> DEFINE t == s.m_cumm_cycles + s.m_cycles
             n == Mod32(t)
             z == x.high - x.first + Mod16(x.first)
  <2>1. t \in Int /\ n \in Int /\ z \in Int /\ Same(n, t)
    BY <1>1, <1>2, <1>14 DEF Num32
  <2>2. Same(t * m + s.m_max_seq, z)
    BY DEF Numbers
  <2>3. (r.m_cumm_cycles + r.m_cycles) * m + r.m_max_seq = (n + 0) * m + s.m_max_seq
    BY <1>17
  <2> HIDE DEF t, n, z
  <2>4. n * m \in Int /\ t * m \in Int /\ (n + 0) * m = n * m
    BY <1>1, <2>1
  <2>5. Same(n * m, t * m)
    <3>1. PICK k \in Int : n = t + U32 * k
      BY <2>1, SameWitness
    <3>2. (t + U32 * k) * m = t * m + U32 * (k * m) /\ k * m \in Int
      BY <1>1, <2>1, U32Type
    <3>3. n * m = t * m + U32 * (k * m)
      BY <3>1, <3>2
    <3> DEFINE k1 == k * m
               a1 == n * m
               b1 == t * m
    <3>4. k1 \in Int /\ a1 \in Int /\ b1 \in Int /\ a1 = b1 + U32 * k1
      BY <2>4, <3>2, <3>3
    <3> HIDE DEF k1, a1, b1
    <3>5. Same(a1, b1)
      BY <3>4, SameWitness
    <3> QED BY <3>5 DEF a1, b1
  <2>6. Same(n * m + s.m_max_seq, t * m + s.m_max_seq)
    <3> DEFINE a1 == n * m
               b1 == t * m
    <3>1. a1 \in Int /\ b1 \in Int /\ Same(a1, b1) /\ s.m_max_seq \in Int
      BY <1>1, <2>4, <2>5
    <3> HIDE DEF a1, b1
    <3>2. Same(a1 + s.m_max_seq, b1 + s.m_max_seq)
      BY <3>1, SameRefl, SameSum
    <3> QED BY <3>2 DEF a1, b1
  <2>7. y.high - y.first + Mod16(y.first) = z
    BY DEF z
  <2> QED BY <2>2, <2>3, <2>4, <2>6, <2>7 DEF Same
<1>19. Same(r.m_cycles * m + r.m_max_seq - r.m_last_expect_seq, y.high - y.reported)
  <2>1. 0 * m + s.m_max_seq - s.m_max_seq = 0 /\ y.high - y.reported = 0
    BY <1>1, <1>2
  <2> QED BY <1>17, <2>1 DEF Same
<1>20. Same(r.m_cumm_lost, y.reported - y.first + 1 - y.gotThen)
  BY <1>8, <1>12, <1>17
<1>21. Same(r.m_rcv_pkg_cnt, y.got - y.gotThen)
  <2>1. y.got - y.gotThen = 0
    BY <1>2
  <2> QED BY <1>17, <2>1 DEF Same
<1>22. r.m_max_seq = Mod16(y.high)
  BY <1>17 DEF Numbers
<1>23. Numbers(r, y)
  BY <1>18, <1>19, <1>20, <1>21, <1>22 DEF Numbers
<1> QED BY <1>6, <1>8, <1>10, <1>12, <1>16, <1>23 DEF ex, u, r

-------------------------------------------------------------------------------
(* What SendStatis makes of a packet.                                        *)

InstStats == [m_first_ntp : ClockTimes, m_base_unit : Num32, m_seq : Nat]

\* A player's statistics c after a packet of size octets and, if one is due,
\* the SR that follows it.
SendRtpPost(s, i, size, ntp, d) ==
  /\ d.due \in BOOLEAN
  /\ d.statis \in SendStats
  /\ d.statis.m_ready
  /\ d.statis.m_first_ntp = IF s.m_ready THEN s.m_first_ntp ELSE i.m_first_ntp
  /\ d.statis.m_base_unit = IF s.m_ready THEN s.m_base_unit ELSE i.m_base_unit
  /\ d.statis.m_snd_pkg_cnt = Mod32(s.m_snd_pkg_cnt + 1)
  /\ d.statis.m_snd_octet_cnt = s.m_snd_octet_cnt + size
  /\ d.due => /\ d.statis.m_has_send_sr
              /\ d.statis.m_last_snd_octet_cnt = d.statis.m_snd_octet_cnt
              /\ s.m_has_send_sr =>
                   Earned(d.statis.m_snd_octet_cnt - s.m_last_snd_octet_cnt)
  /\ ~d.due => /\ d.statis.m_has_send_sr /\ s.m_has_send_sr
               /\ d.statis.m_last_snd_octet_cnt = s.m_last_snd_octet_cnt
  /\ d.sender \in [m_snd_pkt_cnt : Num32, m_snd_octet_cnt : Nat, m_rtp_ts : Num32,
                   m_ntp : [m_sec : Num32, m_frac : Int]]
  /\ d.sender.m_snd_pkt_cnt = d.statis.m_snd_pkg_cnt
  /\ d.sender.m_snd_octet_cnt = d.statis.m_snd_octet_cnt
  /\ d.sender.m_rtp_ts = Ts(d.statis.m_first_ntp, d.statis.m_base_unit, ntp)

\* sendRtp: what SendRtpPost says of it.
LEMMA SendRtpEffect ==
  ASSUME NEW s \in SendStats, NEW i \in InstStats, NEW size \in Nat, NEW ntp \in ClockTimes
  PROVE  SendRtpPost(s, i, size, ntp, SendRtp(s, i, size, ntp))
<1> DEFINE c == Counted(Ready(s, i, ntp), size)
           due == ChkSend(c, ntp)
           d == SendRtp(s, i, size, ntp)
           first == IF s.m_ready THEN s.m_first_ntp ELSE i.m_first_ntp
           base == IF s.m_ready THEN s.m_base_unit ELSE i.m_base_unit
           cnt == Mod32(s.m_snd_pkg_cnt + 1)
<1>1. /\ s.m_snd_octet_cnt + size \in Nat /\ first \in ClockTimes /\ base \in Num32
  BY DEF SendStats, InstStats
<1>2. cnt \in Num32
  <2>1. s.m_snd_pkg_cnt + 1 \in Int
    BY DEF SendStats, Num32
  <2> QED BY <2>1, ModTypes
<1>3. Ready(s, i, ntp) =
        [s EXCEPT !.m_ready = TRUE, !.m_first_ntp = first, !.m_base_unit = base]
  <2>1. CASE s.m_ready
    BY <2>1 DEF Ready, SendStats
  <2>2. CASE ~s.m_ready
    BY <2>2 DEF Ready, SendStats
  <2> QED BY <2>1, <2>2
<1>4. c = [s EXCEPT !.m_ready = TRUE, !.m_first_ntp = first, !.m_base_unit = base,
             !.m_snd_octet_cnt = s.m_snd_octet_cnt + size, !.m_snd_pkg_cnt = cnt]
  <2> HIDE DEF first, base, cnt
  <2>1. c = [Ready(s, i, ntp) EXCEPT !.m_snd_octet_cnt = @ + size, !.m_snd_pkg_cnt = Mod32(@ + 1)]
    BY DEF Counted
  <2> QED BY <1>3, <2>1 DEF SendStats, cnt
<1> HIDE DEF c, first, base, cnt
<1>5. c \in SendStats
  BY <1>1, <1>2, <1>4 DEF SendStats
<1>6. /\ c.m_ready /\ c.m_first_ntp = first /\ c.m_base_unit = base
      /\ c.m_snd_pkg_cnt = cnt /\ c.m_snd_octet_cnt = s.m_snd_octet_cnt + size
      /\ c.m_has_send_sr = s.m_has_send_sr
      /\ c.m_last_snd_octet_cnt = s.m_last_snd_octet_cnt
  BY <1>4 DEF SendStats
<1>7. d = [statis |-> IF due THEN SentSR(c, ntp) ELSE c, due |-> due,
           sender |-> SenderInfo(c, ntp)]
  BY DEF SendRtp, c
<1>8. due <=> \/ ~s.m_has_send_sr
              \/ /\ DEF_RTCP_SR_INTERVAL_SEC <= Minus(ntp, c.m_last_sr_ntp).m_sec
                 /\ Earned(c.m_snd_octet_cnt - s.m_last_snd_octet_cnt)
  BY <1>6 DEF ChkSend
<1>9. due \in BOOLEAN
  BY DEF ChkSend
<1> HIDE DEF due, d
<1>10. /\ d.due = due /\ d.statis = IF due THEN SentSR(c, ntp) ELSE c
       /\ d.sender = SenderInfo(c, ntp)
  BY <1>7
<1>11. /\ d.statis \in SendStats
       /\ d.statis.m_ready /\ d.statis.m_first_ntp = first /\ d.statis.m_base_unit = base
       /\ d.statis.m_snd_pkg_cnt = cnt
       /\ d.statis.m_snd_octet_cnt = s.m_snd_octet_cnt + size
       /\ due => d.statis.m_has_send_sr /\ d.statis.m_last_snd_octet_cnt = c.m_snd_octet_cnt
       /\ ~due => d.statis = c
  <2>1. CASE due
    BY <1>5, <1>6, <1>10, <2>1 DEF SentSR, SendStats
  <2>2. CASE ~due
    BY <1>5, <1>6, <1>10, <2>2
  <2> QED BY <2>1, <2>2
<1>12. /\ d.sender = [m_snd_pkt_cnt |-> cnt, m_snd_octet_cnt |-> s.m_snd_octet_cnt + size,
                      m_rtp_ts |-> Ts(first, base, ntp), m_ntp |-> RtpTime(ntp)]
  BY <1>6, <1>10 DEF SenderInfo
<1>13. Ts(first, base, ntp) \in Num32 /\ RtpTime(ntp) \in [m_sec : Num32, m_frac : Int]
  BY <1>1, TsType, RtpTimeType
<1>14. /\ d.sender \in [m_snd_pkt_cnt : Num32, m_snd_octet_cnt : Nat, m_rtp_ts : Num32,
                        m_ntp : [m_sec : Num32, m_frac : Int]]
       /\ d.sender.m_snd_pkt_cnt = cnt /\ d.sender.m_snd_octet_cnt = s.m_snd_octet_cnt + size
       /\ d.sender.m_rtp_ts = Ts(first, base, ntp)
  BY <1>1, <1>2, <1>12, <1>13
<1>15. /\ due => /\ d.statis.m_has_send_sr
                 /\ d.statis.m_last_snd_octet_cnt = d.statis.m_snd_octet_cnt
                 /\ s.m_has_send_sr =>
                      Earned(d.statis.m_snd_octet_cnt - s.m_last_snd_octet_cnt)
       /\ ~due => /\ d.statis.m_has_send_sr /\ s.m_has_send_sr
                  /\ d.statis.m_last_snd_octet_cnt = s.m_last_snd_octet_cnt
  BY <1>6, <1>8, <1>11
<1>16. /\ first = IF s.m_ready THEN s.m_first_ntp ELSE i.m_first_ntp
       /\ base = IF s.m_ready THEN s.m_base_unit ELSE i.m_base_unit
       /\ cnt = Mod32(s.m_snd_pkg_cnt + 1)
  BY DEF first, base, cnt
<1> QED BY <1>9, <1>10, <1>11, <1>14, <1>15, <1>16 DEF SendRtpPost, d

-------------------------------------------------------------------------------
(* What a packet, from validSeq to the last report, does to the state.       *)

\* The part of n in m, in 256ths, when some of m were lost.
LEMMA FractionType ==
  ASSUME NEW n \in Int, NEW m \in Nat, n > 0 => m # 0
  PROVE  (IF n > 0 THEN (n * 256) \div m ELSE 0) \in Int
<1>1. CASE n > 0
  <2>1. m \in Nat \ {0} /\ n * 256 \in Int
    BY <1>1
  <2> DEFINE x == n * 256
  <2>2. x \div m \in Int
    <3>1. x \in Int
      BY <2>1
    <3> HIDE DEF x
    <3> QED BY <2>1, <3>1, DivMod
  <2> QED BY <1>1, <2>2
<1>2. CASE ~(n > 0)
  BY <1>2
<1> QED BY <1>1, <1>2

\* A report has numbers of the widths of its fields.
LEMMA ReportType ==
  ASSUME NEW s \in RecvStats, NEW ntp \in ClockTimes,
         CummLost(s) \in Num32, ExpectedInterval(s) \in Num32
  PROVE  Report(s, ntp) \in Reports
<1> DEFINE ex == ExpectedInterval(s)
           lost == ex - s.m_rcv_pkg_cnt
           max == (s.m_cumm_cycles + s.m_cycles) * RTP_SEQ_MOD + s.m_max_seq
           cumm == IF CummLost(s) < Mod32(-1) \div 2 + 1 THEN CummLost(s) ELSE 0
           frac == IF lost > 0 THEN Rescale(lost, 256, ex) % 256 ELSE 0
           lsr == IF s.m_has_sr THEN Rtp2U32(s.m_last_sr_rtp) ELSE 0
           delay == IF s.m_has_sr THEN Ntp2U32(Minus(ntp, s.m_last_rcv_sr_ntp)) ELSE 0
<1>1. Mod32(max) \in Num32
  <2>1. max \in Int
    BY U32Type DEF RecvStats, Num16, Num32
  <2> HIDE DEF max
  <2> QED BY <2>1, ModTypes
<1>2. cumm \in Num32
  BY U32Type DEF Num32
<1>3. frac \in Int
  <2>1. ex \in Nat /\ lost \in Int /\ (lost > 0 => ex # 0)
    BY DEF Num32, RecvStats
  <2> HIDE DEF ex, lost
  <2>2. (IF lost > 0 THEN (lost * 256) \div ex ELSE 0) \in Int
    BY <2>1, FractionType
  <2>3. CASE lost > 0
    <3>1. Rescale(lost, 256, ex) \in Int
      BY <2>2, <2>3 DEF Rescale
    <3>2. Rescale(lost, 256, ex) % 256 \in Int
      BY <3>1, DivMod
    <3> QED BY <2>3, <3>2
  <2>4. CASE ~(lost > 0)
    BY <2>4
  <2> QED BY <2>3, <2>4
<1>4. lsr \in Int /\ delay \in Int
  <2>1. /\ s.m_last_sr_rtp \in [m_sec : Num32, m_frac : Int]
        /\ s.m_last_rcv_sr_ntp \in ClockTimes
    BY DEF RecvStats
  <2>2. Minus(ntp, s.m_last_rcv_sr_ntp) \in ClockTimes
    BY <2>1, MinusType
  <2> QED BY <2>1, <2>2, U32Types
<1>5. Report(s, ntp) = [m_max_seq |-> Mod32(max), m_cumm_pkg_lost |-> cumm,
                        m_frac_lost |-> frac, m_ntp_lsr |-> lsr, m_delay_lsr |-> delay]
  BY DEF Report
<1> HIDE DEF max, cumm, frac, lsr, delay
<1> QED BY <1>1, <1>2, <1>3, <1>4, <1>5 DEF Reports

\* A packet leaves what was reported alone, and is one packet more.
LEMMA SeenEffect ==
  ASSUME NEW x \in Senders, NEW e \in Int, Ordered(x), e < x.high + MAX_DROPOUT
  PROVE  LET y == Seen(x, e)
         IN /\ y \in Senders
            /\ y.first = x.first /\ y.reported = x.reported /\ y.gotThen = x.gotThen
            /\ y.got = x.got + 1 /\ y.high = IF e > x.high THEN e ELSE x.high
            /\ y.sr = x.sr /\ y.then = x.then /\ y.owed = x.owed
            /\ Ordered(y) /\ y.high >= x.high
<1> DEFINE y == Seen(x, e)
           h == IF e > x.high THEN e ELSE x.high
<1>1. /\ x.high \in Nat /\ x.first \in Nat /\ x.got \in Nat /\ x.reported \in Int
      /\ x.gotThen \in Nat /\ MAX_DROPOUT \in Nat \ {0}
  BY StatAssumption DEF Senders
<1>2. h \in Nat /\ h >= x.high /\ h < x.high + MAX_DROPOUT
  BY <1>1
<1>3. y = [x EXCEPT !.high = h, !.got = x.got + 1]
  BY DEF Seen
<1>4. (x.got + 1) * MAX_DROPOUT = x.got * MAX_DROPOUT + MAX_DROPOUT
      /\ x.got * MAX_DROPOUT \in Int
  BY <1>1
<1> HIDE DEF y, h
<1>5. /\ y \in Senders
      /\ y.first = x.first /\ y.reported = x.reported /\ y.gotThen = x.gotThen
      /\ y.got = x.got + 1 /\ y.high = h
      /\ y.sr = x.sr /\ y.then = x.then /\ y.owed = x.owed
  <2>1. x.got + 1 \in Nat
    BY <1>1
  <2>2. /\ y.first = x.first /\ y.reported = x.reported /\ y.gotThen = x.gotThen
        /\ y.got = x.got + 1 /\ y.high = h
        /\ y.sr = x.sr /\ y.then = x.then /\ y.owed = x.owed
    BY <1>3 DEF Senders
  <2> DEFINE g == x.got + 1
  <2> HIDE DEF g
  <2>3. [x EXCEPT !.high = h, !.got = g] \in Senders
    BY <1>2, <2>1 DEF Senders, g
  <2> QED BY <1>3, <2>2, <2>3 DEF g
<1>6. Ordered(y)
  <2>1. h - x.first <= (x.got + 1) * MAX_DROPOUT
    BY <1>1, <1>2, <1>4 DEF Ordered
  <2> QED BY <1>1, <1>2, <1>5, <2>1 DEF Ordered
<1> QED BY <1>2, <1>5, <1>6 DEF y, h

\* The numbers of x once they are reported.
Told(x, o, t) ==
  [x EXCEPT !.reported = x.high, !.gotThen = x.got, !.owed = o, !.then = t]

\* procRtpData: a report, if one is due, is made of statistics and numbers that
\* the packet is in.
LEMMA ReceiveEffect ==
  ASSUME TypeOK, NumbersInv, BoundsInv,
         NEW e \in Int, NEW size \in Nat,
         statis.m_has_rtp \/ e = sender.first,
         sender.high - MAX_MISORDER < e, e < sender.high + MAX_DROPOUT,
         Receive(e, size)
  PROVE  LET r == Received(statis, e, size)
             x == Seen(sender, e)
             due == ChkRecv(r, Ntp)
         IN /\ r \in RecvStats /\ x \in Senders /\ Ordered(x)
            /\ Numbers(r, x)
            /\ Ntp \in ClockTimes
            /\ due =>
                 /\ statis' = Reported(r, Ntp) /\ report' = Report(r, Ntp)
                 /\ total' = [octets |-> total.octets + size, rr |-> total.rr + 1]
                 /\ sender' = Told(x, Owed(x.high, x.got),
                                   [at |-> now, sr |-> sender.sr])
            /\ ~due => /\ statis' = r /\ report' = report /\ sender' = x
                       /\ total' = [octets |-> total.octets + size, rr |-> total.rr]
<1> DEFINE r == Received(statis, e, size)
           x == Seen(sender, e)
           due == ChkRecv(r, Ntp)
           high == IF e > sender.high THEN e ELSE sender.high
           got == sender.got + 1
           seen == [sender EXCEPT !.high = high, !.got = got]
<1>1. statis \in RecvStats /\ sender \in Senders /\ now \in Int
  BY MediaAssumption DEF TypeOK
<1>2. r \in RecvStats
  BY <1>1, ReceivedEffect
<1>3. /\ x \in Senders /\ Ordered(x)
      /\ x.high = high /\ x.got = got
  BY <1>1, SeenEffect DEF BoundsInv
<1>4. ~statis.m_has_rtp => e = sender.first
  OBVIOUS
<1>5. Numbers(r, x)
  BY <1>1, <1>4, NumbersReceived DEF NumbersInv
<1>6. Ntp \in ClockTimes
  BY <1>1, NtpTimeType DEF Ntp
<1>7. x = seen
  BY DEF Seen
<1>8. /\ statis' = IF due THEN Reported(r, Ntp) ELSE r
      /\ report' = IF due THEN Report(r, Ntp) ELSE report
      /\ total' = [octets |-> total.octets + size,
                   rr |-> IF due THEN total.rr + 1 ELSE total.rr]
      /\ sender' = IF due THEN [seen EXCEPT !.reported = high, !.gotThen = got,
                                  !.owed = Owed(high, got),
                                  !.then = [at |-> now, sr |-> sender.sr]]
                          ELSE seen
  BY DEF Receive, Received
<1> HIDE DEF r, x, due, high, got, seen
<1> QED BY <1>2, <1>3, <1>5, <1>6, <1>7, <1>8 DEF r, x, due, Told

\* What a report should say, in numbers.
LEMMA OwedType ==
  ASSUME NEW x \in Senders, Ordered(x), sender \in Senders,
         x.first = sender.first, x.reported = sender.reported,
         x.gotThen = sender.gotThen
  PROVE  Owed(x.high, x.got) \in Owes
<1>1. PICK h \in Int, g \in Int, f \in Nat, p \in Int, t \in Int :
        x.high = h /\ x.got = g /\ sender.first = f /\ sender.reported = p
        /\ sender.gotThen = t /\ t <= g /\ p <= h
  BY DEF Senders, Ordered
<1> DEFINE n == h - p - (g - t)
           m == h - p
           all == h - f + Mod16(f)
           lost == h - f + 1 - g
<1>2. n \in Int /\ m \in Nat /\ (n > 0 => m # 0) /\ lost \in Int
  BY <1>1
<1>3. Mod32(all) \in Int
  <2>1. all \in Int
    BY <1>1, ModTypes DEF Num16
  <2> HIDE DEF all
  <2> QED BY <2>1, ModTypes DEF Num32
<1>4. Owed(h, g) =
        [m_max_seq |-> Mod32(all), m_cumm_pkg_lost |-> IF lost > 0 THEN lost ELSE 0,
         m_frac_lost |-> IF n > 0 THEN (n * 256) \div m ELSE 0]
  BY <1>1 DEF Owed
<1> HIDE DEF n, m, all, lost
<1>5. (IF n > 0 THEN (n * 256) \div m ELSE 0) \in Int
  BY <1>2, FractionType
<1>6. (IF lost > 0 THEN lost ELSE 0) \in Int
  BY <1>2
<1> QED BY <1>1, <1>3, <1>4, <1>5, <1>6 DEF Owes

\* A report changes only what was reported.
LEMMA ReportedEffect ==
  ASSUME NEW x \in Senders, Ordered(x), NEW o \in Owes,
         NEW t \in [at : Clock \cup {-1}, sr : SrTimes]
  PROVE  LET y == Told(x, o, t)
         IN /\ y \in Senders /\ Ordered(y)
            /\ y.first = x.first /\ y.high = x.high /\ y.got = x.got
            /\ y.reported = x.high /\ y.gotThen = x.got
            /\ y.owed = o /\ y.then = t /\ y.sr = x.sr
<1> DEFINE y == Told(x, o, t)
<1>1. /\ y.first = x.first /\ y.high = x.high /\ y.got = x.got
      /\ y.reported = x.high /\ y.gotThen = x.got
      /\ y.owed = o /\ y.then = t /\ y.sr = x.sr
  BY DEF Senders, Told
<1>2. x.high \in Int /\ x.got \in Nat /\ x.first \in Nat /\ x.high \in Nat
  BY DEF Senders
<1>3. y \in Senders
  BY <1>2 DEF Senders, Told
<1>4. Ordered(y)
  <2> HIDE DEF y
  <2> QED BY <1>1, <1>2 DEF Ordered
<1> QED BY <1>1, <1>3, <1>4

\* procRtpData keeps the types, the numbers and the bounds, report or not.
LEMMA ReceiveNumbers ==
  ASSUME TypeOK, NumbersInv, BoundsInv,
         NEW e \in Int, NEW size \in Nat,
         statis.m_has_rtp \/ e = sender.first,
         sender.high - MAX_MISORDER < e, e < sender.high + MAX_DROPOUT,
         Receive(e, size)
  PROVE  /\ statis' \in RecvStats /\ sender' \in Senders
         /\ report' \in Reports \cup {NoReport}
         /\ total' \in [octets : Nat, rr : Nat]
         /\ total'.octets = total.octets + size
         /\ Numbers(statis', sender') /\ statis'.m_has_rtp
         /\ Ordered(sender') /\ sender'.got = sender.got + 1
<1> DEFINE r == Received(statis, e, size)
           x == Seen(sender, e)
           due == ChkRecv(r, Ntp)
           o == Owed(x.high, x.got)
           t == [at |-> now, sr |-> sender.sr]
           y == Told(x, o, t)
<1>1. /\ r \in RecvStats /\ x \in Senders /\ Ordered(x) /\ Numbers(r, x)
      /\ Ntp \in ClockTimes
      /\ due => /\ statis' = Reported(r, Ntp) /\ report' = Report(r, Ntp)
                /\ total' = [octets |-> total.octets + size, rr |-> total.rr + 1]
                /\ sender' = y
      /\ ~due => /\ statis' = r /\ report' = report /\ sender' = x
                 /\ total' = [octets |-> total.octets + size, rr |-> total.rr]
  BY ReceiveEffect
<1>2. statis \in RecvStats /\ sender \in Senders /\ report \in Reports \cup {NoReport}
      /\ total \in [octets : Nat, rr : Nat] /\ now \in Clock
  BY DEF TypeOK
<1>3. /\ x.first = sender.first /\ x.reported = sender.reported
      /\ x.gotThen = sender.gotThen /\ x.got = sender.got + 1
  BY <1>2, SeenEffect DEF BoundsInv
<1>4. r.m_has_rtp
  BY <1>2, ReceivedEffect
<1>5. total.octets + size \in Nat /\ total.rr + 1 \in Nat /\ total.rr \in Nat
  BY <1>2
<1> HIDE DEF r, x, due
<1>6. CASE due
  <2>1. o \in Owes
    BY <1>1, <1>2, <1>3, OwedType
  <2>2. t \in [at : Clock \cup {-1}, sr : SrTimes]
    BY <1>2 DEF Senders
  <2> HIDE DEF o, t
  <2>3. /\ y \in Senders /\ Ordered(y)
        /\ y.first = x.first /\ y.high = x.high /\ y.got = x.got
        /\ y.reported = x.high /\ y.gotThen = x.got
    BY <1>1, <2>1, <2>2, ReportedEffect
  <2> HIDE DEF y
  <2>4. /\ CummLost(r) \in Num32 /\ ExpectedInterval(r) \in Num32
        /\ Reported(r, Ntp) \in RecvStats /\ Numbers(Reported(r, Ntp), y)
    BY <1>1, <2>3, NumbersReported
  <2>5. Report(r, Ntp) \in Reports
    BY <1>1, <2>4, ReportType
  <2>6. Reported(r, Ntp).m_has_rtp
    BY <1>1, <1>4 DEF Reported, RecvStats
  <2>7. total' \in [octets : Nat, rr : Nat] /\ total'.octets = total.octets + size
    BY <1>1, <1>5, <1>6
  <2> QED BY <1>1, <1>3, <1>6, <2>3, <2>4, <2>5, <2>6, <2>7
<1>7. CASE ~due
  <2>1. total' \in [octets : Nat, rr : Nat] /\ total'.octets = total.octets + size
    BY <1>1, <1>5, <1>7
  <2> QED BY <1>1, <1>2, <1>3, <1>4, <1>7, <2>1
<1> QED BY <1>6, <1>7

\* The octets a report is made of are counted once.
LEMMA ReceiveShare ==
  ASSUME TypeOK, NumbersInv, BoundsInv, ShareRecvInv,
         NEW e \in Int, NEW size \in Nat,
         statis.m_has_rtp \/ e = sender.first,
         sender.high - MAX_MISORDER < e, e < sender.high + MAX_DROPOUT,
         Receive(e, size)
  PROVE  ShareRecvInv'
<1> DEFINE r == Received(statis, e, size)
           due == ChkRecv(r, Ntp)
<1>1. /\ r \in RecvStats
      /\ due => /\ statis' = Reported(r, Ntp)
                /\ total' = [octets |-> total.octets + size, rr |-> total.rr + 1]
      /\ ~due => /\ statis' = r
                 /\ total' = [octets |-> total.octets + size, rr |-> total.rr]
  BY ReceiveEffect
<1>2. /\ r.m_rcv_octet_cnt = statis.m_rcv_octet_cnt + size
      /\ r.m_last_rcv_octet_cnt = statis.m_last_rcv_octet_cnt
  BY ReceivedEffect DEF TypeOK
<1>3. PICK o \in Nat, l \in Nat, t \in Nat, n \in Nat :
        /\ statis.m_rcv_octet_cnt = o /\ statis.m_last_rcv_octet_cnt = l
        /\ total.octets = t /\ total.rr = n
  BY DEF TypeOK, RecvStats
<1> DEFINE S == DEF_RTCP_MIN_SIZE
           D == RTCP_TX_RATIO_DEN
           N == RTCP_TX_RATIO_NUM
<1>4. S \in Nat /\ D \in Nat /\ N \in Nat
  BY StatAssumption
<1>5. l <= o /\ n * S * D + (o - l) * N <= t * N
  BY <1>3 DEF ShareRecvInv
<1>6. due => Earned(o + size - l)
  <2>1. due => Earned(r.m_rcv_octet_cnt - r.m_last_rcv_octet_cnt)
    BY DEF ChkRecv
  <2> QED BY <1>2, <1>3, <2>1
<1> HIDE DEF r, due
<1>7. CASE due
  <2>1. o + size - l \in Nat
    BY <1>3, <1>5
  <2>2. S * D <= (o + size - l) * N
    BY <1>6, <1>7, <2>1, EarnedOctets
  <2>3. /\ (n + 1) * S * D = n * S * D + S * D
        /\ (o + size - l) * N = (o - l) * N + size * N
        /\ (t + size) * N = t * N + size * N
        /\ (o + size - (o + size)) * N = 0
        /\ n * S * D \in Int /\ S * D \in Int /\ (o - l) * N \in Int
        /\ size * N \in Int /\ t * N \in Int
    BY <1>3, <1>4
  <2>4. (n + 1) * S * D + (o + size - (o + size)) * N <= (t + size) * N
    <3> DEFINE a == n * S * D
               b == S * D
               c == (o - l) * N
               d == size * N
               f == t * N
    <3>1. a \in Int /\ b \in Int /\ c \in Int /\ d \in Int /\ f \in Int
          /\ b <= c + d /\ a + c <= f
      BY <1>5, <2>2, <2>3
    <3>2. (n + 1) * S * D + (o + size - (o + size)) * N = a + b + 0
          /\ (t + size) * N = f + d
      BY <2>3
    <3> HIDE DEF a, b, c, d, f, S, D, N
    <3>3. a + b + 0 <= f + d
      BY <3>1
    <3> QED BY <3>2, <3>3
  <2>5. /\ statis'.m_rcv_octet_cnt = o + size /\ statis'.m_last_rcv_octet_cnt = o + size
        /\ total'.octets = t + size /\ total'.rr = n + 1
    <3>1. /\ statis'.m_rcv_octet_cnt = r.m_rcv_octet_cnt
          /\ statis'.m_last_rcv_octet_cnt = r.m_rcv_octet_cnt
      BY <1>1, <1>7 DEF Reported, RecvStats
    <3>2. total'.octets = total.octets + size /\ total'.rr = total.rr + 1
      BY <1>1, <1>7
    <3> QED BY <1>2, <1>3, <3>1, <3>2
  <2>6. o + size <= o + size
    BY <1>3
  <2> QED BY <2>4, <2>5, <2>6 DEF ShareRecvInv
<1>8. CASE ~due
  <2>1. /\ statis'.m_rcv_octet_cnt = o + size /\ statis'.m_last_rcv_octet_cnt = l
        /\ total'.octets = t + size /\ total'.rr = n
    BY <1>1, <1>2, <1>3, <1>8
  <2>2. n * S * D + (o + size - l) * N <= (t + size) * N
    <3> DEFINE a == n * S * D
               c == (o - l) * N
               d == size * N
               f == t * N
    <3>1. a \in Int /\ c \in Int /\ d \in Int /\ f \in Int /\ a + c <= f
      BY <1>3, <1>4, <1>5
    <3>2. (o + size - l) * N = c + d /\ (t + size) * N = f + d
      BY <1>3, <1>4
    <3> HIDE DEF a, c, d, f, S, D, N
    <3>3. a + (c + d) <= f + d
      BY <3>1
    <3> QED BY <3>2, <3>3 DEF a
  <2>3. l <= o + size
    BY <1>3, <1>5
  <2> QED BY <2>1, <2>2, <2>3 DEF ShareRecvInv
<1> QED BY <1>7, <1>8

-------------------------------------------------------------------------------
(* What the packet does to the players.                                      *)

\* The marks of absence differ from every value they stand in for.
LEMMA Marks ==
  /\ \A s \in SendStats : s # NotPlaying
  /\ \A r \in Srs : r # NoSr
  /\ \A r \in Reports : r # NoReport
<1>1. ASSUME NEW s \in SendStats, s = NotPlaying PROVE FALSE
  <2>1. s.m_snd_pkg_cnt \in Num32 /\ s.m_snd_pkg_cnt = -1
    BY <1>1 DEF SendStats, NotPlaying
  <2> QED BY <2>1, U32Type DEF Num32
<1>2. ASSUME NEW r \in Srs, r = NoSr PROVE FALSE
  <2>1. r.cnt \in Nat \ {0} /\ r.cnt = 0
    BY <1>2 DEF Srs, NoSr
  <2> QED BY <2>1
<1>3. ASSUME NEW r \in Reports, r = NoReport PROVE FALSE
  <2>1. r.m_max_seq \in Num32 /\ r.m_max_seq = -1
    BY <1>3 DEF Reports, NoReport
  <2> QED BY <2>1, U32Type DEF Num32
<1> QED BY <1>1, <1>2, <1>3

\* A player who plays gets the packet, and the SR if it is due; the others are
\* left alone.
RelayPost(p, size, d) ==
  /\ SendRtpPost(snd[p], inst, size, Ntp, d)
  /\ snd'[p] = d.statis
  /\ sr'[p] = IF d.due
               THEN [sender |-> d.sender, at |-> now, seq |-> inst.m_seq + 1,
                     octets |-> total.octets + size, cnt |-> sr[p].cnt + 1]
               ELSE sr[p]

\* What a packet does to the instance and to each player.
LEMMA RelayEffect ==
  ASSUME TypeOK, NEW size \in Nat, Relay(size)
  PROVE  /\ inst' \in InstStats /\ inst'.m_seq = inst.m_seq + 1
         /\ inst'.m_first_ntp = inst.m_first_ntp
         /\ inst'.m_base_unit = inst.m_base_unit
         /\ media' = [ts |-> Ts(inst.m_first_ntp, inst.m_base_unit, Ntp), at |-> now]
         /\ media' \in [ts : Num32, at : Clock]
         /\ snd' = [p \in Player |-> snd'[p]] /\ sr' = [p \in Player |-> sr'[p]]
         /\ \A p \in Player :
              /\ snd[p] = NotPlaying => snd'[p] = NotPlaying /\ sr'[p] = sr[p]
              /\ snd[p] # NotPlaying => \E d : RelayPost(p, size, d)
<1>1. inst \in InstStats /\ now \in Clock /\ now \in Int
  BY MediaAssumption DEF TypeOK, InstStats
<1>2. Ntp \in ClockTimes
  BY <1>1, NtpTimeType DEF Ntp
<1>3. /\ inst' \in InstStats /\ inst'.m_seq = inst.m_seq + 1
      /\ inst'.m_first_ntp = inst.m_first_ntp
      /\ inst'.m_base_unit = inst.m_base_unit
  BY <1>1 DEF Relay, InstStats
<1>4. /\ media' = [ts |-> Ts(inst.m_first_ntp, inst.m_base_unit, Ntp), at |-> now]
      /\ media' \in [ts : Num32, at : Clock]
  <2>1. Ts(inst.m_first_ntp, inst.m_base_unit, Ntp) \in Num32
    BY <1>1, <1>2, TsType DEF InstStats
  <2>2. media' = [ts |-> Ts(inst.m_first_ntp, inst.m_base_unit, Ntp), at |-> now]
    BY DEF Relay
  <2> QED BY <1>1, <2>1, <2>2
<1>5. ASSUME NEW p \in Player, snd[p] = NotPlaying
      PROVE  snd'[p] = NotPlaying /\ sr'[p] = sr[p]
  BY <1>5 DEF Relay
<1>6. ASSUME NEW p \in Player, snd[p] # NotPlaying
      PROVE  \E d : RelayPost(p, size, d)
  <2> DEFINE d == SendRtp(snd[p], inst, size, Ntp)
  <2>1. snd[p] \in SendStats
    BY <1>6 DEF TypeOK
  <2>2. SendRtpPost(snd[p], inst, size, Ntp, d)
    BY <1>1, <1>2, <2>1, SendRtpEffect
  <2>3. /\ snd'[p] = d.statis
        /\ sr'[p] = IF d.due
                     THEN [sender |-> d.sender, at |-> now, seq |-> inst.m_seq + 1,
                           octets |-> total.octets + size, cnt |-> sr[p].cnt + 1]
                     ELSE sr[p]
    BY <1>6 DEF Relay
  <2> HIDE DEF d
  <2> QED BY <2>2, <2>3 DEF RelayPost
<1>7. snd' = [p \in Player |-> snd'[p]] /\ sr' = [p \in Player |-> sr'[p]]
  BY DEF Relay
<1> QED BY <1>3, <1>4, <1>5, <1>6, <1>7

\* The same for one player: his types, counters and share.
LEMMA RelayPlayer ==
  ASSUME TypeOK, ShareSendInv, SentInv, NEW size \in Nat,
         NEW p \in Player, NEW d, snd[p] # NotPlaying, RelayPost(p, size, d)
  PROVE  /\ snd'[p] \in SendStats /\ sr'[p] \in Srs
         /\ snd'[p].m_has_send_sr
         /\ snd'[p].m_last_snd_octet_cnt <= snd'[p].m_snd_octet_cnt
         /\ (sr'[p].cnt - 1) * DEF_RTCP_MIN_SIZE * RTCP_TX_RATIO_DEN
              <= snd'[p].m_last_snd_octet_cnt * RTCP_TX_RATIO_NUM
         /\ snd'[p].m_snd_pkg_cnt = Mod32(inst.m_seq + 1 - joined[p].seq)
         /\ snd'[p].m_snd_octet_cnt = total.octets + size - joined[p].octets
<1> DEFINE s == snd[p]
           t == snd'[p]
           K == DEF_RTCP_MIN_SIZE
           D == RTCP_TX_RATIO_DEN
           N == RTCP_TX_RATIO_NUM
<1>1. s \in SendStats /\ sr[p] \in Srs \cup {NoSr}
  BY DEF TypeOK
<1>2. SendRtpPost(s, inst, size, Ntp, d) /\ t = d.statis
  BY DEF RelayPost
<1>3. PICK i \in Nat, q \in Nat, o \in Nat, u \in Nat :
        i = inst.m_seq /\ q = joined[p].seq /\ o = total.octets /\ u = joined[p].octets
  BY DEF TypeOK
<1>4. /\ q <= i /\ u <= o /\ s.m_snd_pkg_cnt = Mod32(i - q) /\ s.m_snd_octet_cnt = o - u
  BY <1>3 DEF SentInv
<1>5. t \in SendStats /\ t.m_has_send_sr
  BY <1>2 DEF SendRtpPost
<1>6. t.m_snd_octet_cnt = o + size - u
  <2>1. t.m_snd_octet_cnt = (o - u) + size
    BY <1>2, <1>4 DEF SendRtpPost
  <2> QED BY <1>3, <2>1
<1>7. t.m_snd_pkg_cnt = Mod32(i + 1 - q)
  <2>1. t.m_snd_pkg_cnt = Mod32(Mod32(i - q) + 1)
    BY <1>2, <1>4 DEF SendRtpPost
  <2> DEFINE a == i - q
  <2>2. a \in Int /\ a + 1 = i + 1 - q
    BY <1>3
  <2> HIDE DEF a
  <2>3. Same(Mod32(a) + 1, a + 1)
    <3>1. Same(Mod32(a), a) /\ Mod32(a) \in Int
      BY <2>2, SameMod, ModTypes DEF Num32
    <3> DEFINE z == Mod32(a)
    <3> HIDE DEF z
    <3>2. z \in Int /\ Same(z, a) /\ Same(1, 1)
      BY <3>1 DEF z, Same
    <3>3. Same(z + 1, a + 1)
      BY <2>2, <3>2, SameSum
    <3> QED BY <3>3 DEF z
  <2> QED BY <2>1, <2>2, <2>3 DEF a, Same
<1>8. /\ t.m_last_snd_octet_cnt <= t.m_snd_octet_cnt
      /\ s.m_last_snd_octet_cnt <= s.m_snd_octet_cnt
  <2>1. s.m_last_snd_octet_cnt <= s.m_snd_octet_cnt
    BY DEF ShareSendInv
  <2>2. CASE d.due
    BY <1>2, <1>5, <2>1, <2>2 DEF SendRtpPost, SendStats
  <2>3. CASE ~d.due
    <3>1. t.m_last_snd_octet_cnt = s.m_last_snd_octet_cnt
          /\ t.m_snd_octet_cnt = s.m_snd_octet_cnt + size
      BY <1>2, <2>3 DEF SendRtpPost
    <3>2. s.m_last_snd_octet_cnt \in Nat /\ s.m_snd_octet_cnt \in Nat
      BY <1>1 DEF SendStats
    <3> QED BY <2>1, <3>1, <3>2
  <2> QED BY <1>2, <2>1, <2>2, <2>3 DEF SendRtpPost
<1>9. K \in Nat /\ D \in Nat /\ N \in Nat
  BY StatAssumption
<1>10. CASE d.due
  <2>1. /\ sr'[p] = [sender |-> d.sender, at |-> now, seq |-> i + 1,
                     octets |-> o + size, cnt |-> sr[p].cnt + 1]
    BY <1>3, <1>10 DEF RelayPost
  <2>2. sr[p].cnt \in Nat
    BY <1>1 DEF Srs, NoSr
  <2>3. sr'[p] \in Srs
    <3>1. d.sender \in [m_snd_pkt_cnt : Num32, m_snd_octet_cnt : Nat, m_rtp_ts : Num32,
                         m_ntp : [m_sec : Num32, m_frac : Int]]
      BY <1>2 DEF SendRtpPost
    <3>2. now \in Clock /\ i + 1 \in Nat /\ o + size \in Nat
          /\ sr[p].cnt + 1 \in Nat \ {0}
      BY <1>3, <2>2 DEF TypeOK
    <3> QED BY <2>1, <3>1, <3>2 DEF Srs
  <2>4. t.m_last_snd_octet_cnt = t.m_snd_octet_cnt
    BY <1>2, <1>10 DEF SendRtpPost
  <2>5. PICK n \in Nat, a \in Nat, b \in Nat :
          /\ n = sr[p].cnt /\ a = t.m_snd_octet_cnt /\ b = s.m_last_snd_octet_cnt /\ b <= a
    <3>1. s.m_last_snd_octet_cnt \in Nat /\ s.m_snd_octet_cnt \in Nat
          /\ t.m_snd_octet_cnt = s.m_snd_octet_cnt + size
      BY <1>1, <1>2 DEF SendStats, SendRtpPost
    <3> QED BY <1>8, <2>2, <3>1
  <2>6. (sr'[p].cnt - 1) = n
    BY <2>1, <2>5
  <2>7. n * K * D <= a * N
    <3>1. CASE s.m_has_send_sr
      <4>1. sr[p] # NoSr
        BY <3>1 DEF ShareSendInv
      <4>2. (n - 1) * K * D <= b * N
        BY <2>5, <4>1 DEF ShareSendInv
      <4>3. Earned(a - b) /\ a - b \in Nat
        BY <1>2, <1>10, <2>5, <3>1 DEF SendRtpPost
      <4>4. K * D <= (a - b) * N
        BY <4>3, EarnedOctets
      <4>5. /\ n * K * D = (n - 1) * K * D + K * D
            /\ a * N = b * N + (a - b) * N
            /\ (n - 1) * K * D \in Int /\ K * D \in Int /\ b * N \in Int
            /\ (a - b) * N \in Int
        BY <1>9, <2>5
      <4> QED BY <4>2, <4>4, <4>5
    <3>2. CASE ~s.m_has_send_sr
      <4>1. sr[p] = NoSr
        BY <3>2 DEF ShareSendInv
      <4>2. n = 0
        BY <2>5, <4>1 DEF NoSr
      <4>3. 0 * K * D = 0 /\ 0 <= a * N
        BY <1>9, <2>5
      <4> QED BY <4>2, <4>3
    <3> QED BY <3>1, <3>2
  <2> QED BY <1>3, <1>5, <1>6, <1>7, <1>8, <2>3, <2>4, <2>5, <2>6, <2>7
<1>11. CASE ~d.due
  <2>1. sr'[p] = sr[p] /\ s.m_has_send_sr
        /\ t.m_last_snd_octet_cnt = s.m_last_snd_octet_cnt
    BY <1>2, <1>11 DEF RelayPost, SendRtpPost
  <2>2. sr[p] # NoSr /\ sr[p] \in Srs
    BY <1>1, <2>1 DEF ShareSendInv
  <2>3. (sr[p].cnt - 1) * K * D <= s.m_last_snd_octet_cnt * N
    BY <2>2 DEF ShareSendInv
  <2> QED BY <1>3, <1>5, <1>6, <1>7, <1>8, <2>1, <2>2, <2>3
<1> QED BY <1>2, <1>10, <1>11 DEF SendRtpPost

\* A packet keeps the types, the counters and the shares of all players.
LEMMA RelayKeeps ==
  ASSUME TypeOK, ShareSendInv, SentInv, SrTrue, NEW size \in Nat,
         Relay(size), UNCHANGED joined, total'.octets = total.octets + size
  PROVE  /\ snd' \in [Player -> SendStats \cup {NotPlaying}]
         /\ sr' \in [Player -> Srs \cup {NoSr}]
         /\ ShareSendInv' /\ SentInv' /\ SrTrue'
<1> DEFINE Keeps(p) ==
      /\ snd'[p] \in SendStats \cup {NotPlaying} /\ sr'[p] \in Srs \cup {NoSr}
      /\ snd'[p] # NotPlaying =>
           /\ snd'[p].m_has_send_sr <=> sr'[p] # NoSr
           /\ snd'[p].m_last_snd_octet_cnt <= snd'[p].m_snd_octet_cnt
           /\ sr'[p] # NoSr =>
                (sr'[p].cnt - 1) * DEF_RTCP_MIN_SIZE * RTCP_TX_RATIO_DEN
                  <= snd'[p].m_last_snd_octet_cnt * RTCP_TX_RATIO_NUM
           /\ joined[p].seq <= inst'.m_seq /\ joined[p].octets <= total'.octets
           /\ snd'[p].m_snd_pkg_cnt = Mod32(inst'.m_seq - joined[p].seq)
           /\ snd'[p].m_snd_octet_cnt = total'.octets - joined[p].octets
      /\ snd'[p] = NotPlaying => sr'[p] = NoSr
      /\ sr'[p] # NoSr =>
           /\ sr'[p].sender.m_snd_pkt_cnt = Mod32(sr'[p].seq - joined[p].seq)
           /\ sr'[p].sender.m_snd_octet_cnt = sr'[p].octets - joined[p].octets
<1>1. /\ inst'.m_seq = inst.m_seq + 1
      /\ snd' = [p \in Player |-> snd'[p]] /\ sr' = [p \in Player |-> sr'[p]]
      /\ \A p \in Player :
           /\ snd[p] = NotPlaying => snd'[p] = NotPlaying /\ sr'[p] = sr[p]
           /\ snd[p] # NotPlaying => \E d : RelayPost(p, size, d)
  BY RelayEffect
<1>2. ASSUME NEW p \in Player PROVE Keeps(p)
  <2>1. CASE snd[p] = NotPlaying
    <3>1. snd'[p] = NotPlaying /\ sr'[p] = NoSr
      BY <1>1, <2>1 DEF SentInv
    <3> QED BY <3>1
  <2>2. CASE snd[p] # NotPlaying
    <3>1. PICK d : RelayPost(p, size, d)
      BY <1>1, <2>2
    <3>2. /\ snd'[p] \in SendStats /\ sr'[p] \in Srs
          /\ snd'[p].m_has_send_sr
          /\ snd'[p].m_last_snd_octet_cnt <= snd'[p].m_snd_octet_cnt
          /\ (sr'[p].cnt - 1) * DEF_RTCP_MIN_SIZE * RTCP_TX_RATIO_DEN
               <= snd'[p].m_last_snd_octet_cnt * RTCP_TX_RATIO_NUM
          /\ snd'[p].m_snd_pkg_cnt = Mod32(inst.m_seq + 1 - joined[p].seq)
          /\ snd'[p].m_snd_octet_cnt = total.octets + size - joined[p].octets
      BY <2>2, <3>1, RelayPlayer
    <3>3. PICK i \in Nat, q \in Nat, o \in Nat, u \in Nat :
            /\ i = inst.m_seq /\ q = joined[p].seq /\ o = total.octets
            /\ u = joined[p].octets
      BY DEF TypeOK
    <3>4. /\ inst.m_seq + 1 - joined[p].seq = (i + 1) - q
          /\ total.octets + size - joined[p].octets = (o + size) - u
      BY <3>3
    <3>5. snd'[p] # NotPlaying /\ sr'[p] # NoSr
      BY <3>2, Marks
    <3>6. joined[p].seq <= inst'.m_seq /\ joined[p].octets <= total'.octets
      <4>1. q <= i /\ u <= o
        BY <2>2, <3>3 DEF SentInv
      <4> QED BY <1>1, <3>3, <4>1
    <3>7. /\ sr'[p].sender.m_snd_pkt_cnt = Mod32(sr'[p].seq - joined[p].seq)
          /\ sr'[p].sender.m_snd_octet_cnt = sr'[p].octets - joined[p].octets
      <4>0. /\ SendRtpPost(snd[p], inst, size, Ntp, d) /\ snd'[p] = d.statis
            /\ d.due \in BOOLEAN
            /\ d.sender.m_snd_pkt_cnt = d.statis.m_snd_pkg_cnt
            /\ d.sender.m_snd_octet_cnt = d.statis.m_snd_octet_cnt
        BY <3>1 DEF RelayPost, SendRtpPost
      <4>1. CASE d.due
        <5>1. /\ sr'[p].sender = d.sender /\ sr'[p].seq = inst.m_seq + 1
              /\ sr'[p].octets = total.octets + size
          BY <3>1, <4>1 DEF RelayPost
        <5> QED BY <3>2, <3>3, <3>4, <4>0, <5>1
      <4>2. CASE ~d.due
        <5>1. sr'[p] = sr[p]
          BY <3>1, <4>2 DEF RelayPost
        <5> QED BY <3>5, <5>1 DEF SrTrue
      <4> QED BY <4>0, <4>1, <4>2
    <3> QED BY <1>1, <3>2, <3>5, <3>6, <3>7, <3>3, <3>4
  <2> QED BY <2>1, <2>2
<1> HIDE DEF Keeps
<1>3. snd' \in [Player -> SendStats \cup {NotPlaying}] /\ sr' \in [Player -> Srs \cup {NoSr}]
  <2>1. \A p \in Player :
          snd'[p] \in SendStats \cup {NotPlaying} /\ sr'[p] \in Srs \cup {NoSr}
    BY <1>2 DEF Keeps
  <2> QED BY <1>1, <2>1
<1>4. ShareSendInv'
  BY <1>2 DEF ShareSendInv, Keeps
<1>5. SentInv'
  BY <1>2 DEF SentInv, Keeps
<1>6. SrTrue'
  BY <1>2 DEF SrTrue, Keeps
<1> QED BY <1>3, <1>4, <1>5, <1>6

-------------------------------------------------------------------------------
(* The steps.                                                                *)

IInv ==
  /\ TypeOK /\ NumbersInv /\ BoundsInv /\ ShareRecvInv /\ ShareSendInv
  /\ SentInv /\ SrTrue

\* What an SR of the publisher leaves does not touch the numbers.
LEMMA ArriveEffect ==
  ASSUME NEW s \in RecvStats, NEW rtp \in [m_sec : Num32, m_frac : Int],
         NEW ntp \in ClockTimes
  PROVE  LET r == ProcSR(s, rtp, ntp)
         IN /\ r \in RecvStats
            /\ r.m_has_sr /\ r.m_last_sr_rtp = rtp /\ r.m_last_rcv_sr_ntp = ntp
            /\ r.m_has_rtp = s.m_has_rtp /\ r.m_max_seq = s.m_max_seq
            /\ r.m_cycles = s.m_cycles /\ r.m_cumm_cycles = s.m_cumm_cycles
            /\ r.m_last_expect_seq = s.m_last_expect_seq
            /\ r.m_cumm_lost = s.m_cumm_lost /\ r.m_rcv_pkg_cnt = s.m_rcv_pkg_cnt
            /\ r.m_rcv_octet_cnt = s.m_rcv_octet_cnt
            /\ r.m_last_rcv_octet_cnt = s.m_last_rcv_octet_cnt
  BY DEF ProcSR, RecvStats

\* The statistics after bzero.
LEMMA FreshStatis == RecvStatis \in RecvStats /\ Zero \in ClockTimes
<1>1. 0 \in Num32 /\ 0 \in Num16 /\ 0 \in 0 .. Msecs - 1
  BY U32Type, ClockAssumption DEF Num32, Num16
<1>2. Zero \in ClockTimes
  BY <1>1 DEF Zero, ClockTimes
<1> QED BY <1>1, <1>2 DEF RecvStatis, RecvStats

\* A publisher who starts agrees with statistics after bzero.
LEMMA FreshSender ==
  ASSUME NEW seq \in Nat
  PROVE  Sender(seq) \in Senders /\ Ordered(Sender(seq)) /\ Fresh(RecvStatis, Sender(seq))
<1>1. Never \in SrTimes
  BY DEF Never, SrTimes
<1>2. [at |-> -1, sr |-> Never] \in [at : Clock \cup {-1}, sr : SrTimes]
  BY <1>1
<1>3. Sender(seq) \in Senders
  BY <1>1, <1>2 DEF Sender, Senders
<1>4. seq - seq <= 0 * MAX_DROPOUT
  BY StatAssumption
<1> QED BY <1>3, <1>4 DEF Sender, Ordered, Fresh, RecvStatis

\* The first states.
LEMMA InitInv == Init => IInv
<1> SUFFICES ASSUME Init PROVE IInv
  OBVIOUS
<1>1. now \in Clock /\ now \in Int
  BY MediaAssumption DEF Init
<1>2. PICK seq \in Starts : sender = Sender(seq)
  BY DEF Init
<1>3. seq \in Nat
  BY MediaAssumption
<1>4. sender \in Senders /\ Ordered(sender) /\ Fresh(RecvStatis, sender) /\ sender.got = 0
  BY <1>2, <1>3, FreshSender DEF Sender
<1>5. m_base_unit \in Num32
  BY MediaAssumption DEF Num32, U32
<1>6. Ntp \in ClockTimes
  BY <1>1, NtpTimeType DEF Ntp
<1>7. TypeOK
  BY <1>1, <1>4, <1>5, <1>6, FreshStatis DEF TypeOK, Init
<1>8. NumbersInv
  BY <1>4 DEF NumbersInv, Init, RecvStatis
<1>9. BoundsInv
  BY <1>4, MediaAssumption DEF BoundsInv, Init
<1>10. ShareRecvInv
  BY StatAssumption DEF ShareRecvInv, Init, RecvStatis
<1>11. ShareSendInv /\ SentInv /\ SrTrue
  BY DEF ShareSendInv, SentInv, SrTrue, Init
<1> QED BY <1>7, <1>8, <1>9, <1>10, <1>11 DEF IInv

\* A packet arrives.
LEMMA PacketStep ==
  ASSUME IInv, NEW e \in Int, NEW size \in Payload, Packet(e, size)
  PROVE  IInv'
<1>1. size \in Nat
  BY MediaAssumption
<1>2. /\ TypeOK /\ NumbersInv /\ BoundsInv /\ ShareRecvInv /\ ShareSendInv
      /\ SentInv /\ SrTrue
  BY DEF IInv
<1>3. /\ statis.m_has_rtp \/ e = sender.first
      /\ sender.high - MAX_MISORDER < e /\ e < sender.high + MAX_DROPOUT
      /\ Receive(e, size) /\ Relay(size) /\ UNCHANGED <<now, joined>>
      /\ inst.m_seq < MaxPackets
  BY DEF Packet
<1>4. /\ statis' \in RecvStats /\ sender' \in Senders
      /\ report' \in Reports \cup {NoReport}
      /\ total' \in [octets : Nat, rr : Nat]
      /\ total'.octets = total.octets + size
      /\ Numbers(statis', sender') /\ statis'.m_has_rtp
      /\ Ordered(sender') /\ sender'.got = sender.got + 1
  BY <1>1, <1>2, <1>3, ReceiveNumbers
<1>5. ShareRecvInv'
  BY <1>1, <1>2, <1>3, ReceiveShare
<1>6. /\ inst' \in InstStats /\ inst'.m_seq = inst.m_seq + 1
      /\ media' \in [ts : Num32, at : Clock]
  BY <1>1, <1>2, <1>3, RelayEffect
<1>7. /\ snd' \in [Player -> SendStats \cup {NotPlaying}]
      /\ sr' \in [Player -> Srs \cup {NoSr}]
      /\ ShareSendInv' /\ SentInv' /\ SrTrue'
  BY <1>1, <1>2, <1>3, <1>4, RelayKeeps
<1>8. TypeOK'
  BY <1>2, <1>3, <1>4, <1>6, <1>7 DEF TypeOK, InstStats
<1>9. NumbersInv'
  BY <1>4 DEF NumbersInv
<1>10. BoundsInv'
  <2>1. PICK i \in Nat, g \in Nat : i = inst.m_seq /\ g = sender.got
    BY <1>2 DEF TypeOK, Senders
  <2>2. g <= i /\ i < MaxPackets /\ MaxPackets \in Nat
    BY <1>2, <1>3, <2>1, MediaAssumption DEF BoundsInv
  <2>3. g + 1 <= i + 1 /\ i + 1 <= MaxPackets
    BY <2>1, <2>2
  <2> QED BY <1>4, <1>6, <2>1, <2>3 DEF BoundsInv
<1> QED BY <1>5, <1>7, <1>8, <1>9, <1>10 DEF IInv

\* The publisher starts over.
LEMMA RestartStep ==
  ASSUME IInv, NEW seq \in Int, NEW next \in Starts, Restart(seq, next)
  PROVE  IInv'
<1>1. next \in Nat
  BY MediaAssumption
<1>2. /\ statis' = RecvStatis /\ sender' = Sender(next) /\ report' = NoReport
      /\ UNCHANGED <<now, inst, snd, sr, media, total, joined>>
  BY DEF Restart
<1>3. /\ Sender(next) \in Senders /\ Ordered(Sender(next))
      /\ Fresh(RecvStatis, Sender(next)) /\ Sender(next).got = 0
  BY <1>1, FreshSender DEF Sender
<1>4. TypeOK'
  BY <1>2, <1>3, FreshStatis DEF IInv, TypeOK
<1>5. NumbersInv'
  BY <1>2, <1>3 DEF NumbersInv, RecvStatis
<1>6. BoundsInv'
  <2>1. inst.m_seq \in Nat
    BY DEF IInv, TypeOK
  <2> QED BY <1>2, <1>3, <2>1 DEF IInv, BoundsInv
<1>7. ShareRecvInv'
  <2>1. PICK o \in Nat, l \in Nat, t \in Nat, n \in Nat :
          /\ statis.m_rcv_octet_cnt = o /\ statis.m_last_rcv_octet_cnt = l
          /\ total.octets = t /\ total.rr = n
    BY DEF IInv, TypeOK, RecvStats
  <2>2. l <= o /\ n * DEF_RTCP_MIN_SIZE * RTCP_TX_RATIO_DEN + (o - l) * RTCP_TX_RATIO_NUM
                  <= t * RTCP_TX_RATIO_NUM
    BY <2>1 DEF IInv, ShareRecvInv
  <2> DEFINE a == n * DEF_RTCP_MIN_SIZE * RTCP_TX_RATIO_DEN
             b == (o - l) * RTCP_TX_RATIO_NUM
             c == t * RTCP_TX_RATIO_NUM
  <2>3. a \in Int /\ b \in Nat /\ c \in Int /\ a + b <= c
    BY <2>1, <2>2, StatAssumption
  <2>4. (0 - 0) * RTCP_TX_RATIO_NUM = 0
    BY StatAssumption
  <2> HIDE DEF a, b, c
  <2>5. a + 0 <= c
    BY <2>3
  <2> QED BY <1>2, <2>1, <2>4, <2>5 DEF ShareRecvInv, RecvStatis, a, c
<1>8. ShareSendInv' /\ SentInv' /\ SrTrue'
  BY <1>2 DEF IInv, ShareSendInv, SentInv, SrTrue
<1> QED BY <1>4, <1>5, <1>6, <1>7, <1>8 DEF IInv

\* An SR of the publisher arrives.
LEMMA ArriveStep ==
  ASSUME IInv, NEW t \in Clock, ArriveSR(t)
  PROVE  IInv'
<1> DEFINE rtp == RtpTime(NtpTime(t + Skew))
           times == [sent |-> t, arrived |-> now]
<1>1. /\ statis' = ProcSR(statis, rtp, Ntp)
      /\ sender' = [sender EXCEPT !.sr = times]
      /\ UNCHANGED <<now, report, inst, snd, sr, media, total, joined>>
  BY DEF ArriveSR
<1>2. now \in Clock /\ statis \in RecvStats /\ sender \in Senders
  BY DEF IInv, TypeOK
<1>3. rtp \in [m_sec : Num32, m_frac : Int] /\ Ntp \in ClockTimes
  <2>1. now \in Int /\ t + Skew \in Int
    BY <1>2, MediaAssumption
  <2>2. NtpTime(now) \in ClockTimes /\ NtpTime(t + Skew) \in ClockTimes
    BY <2>1, NtpTimeType
  <2> QED BY <2>2, RtpTimeType DEF Ntp
<1>4. times \in SrTimes
  BY <1>2 DEF SrTimes
<1> HIDE DEF rtp, times
<1>5. /\ statis' \in RecvStats
      /\ statis'.m_has_rtp = statis.m_has_rtp /\ statis'.m_max_seq = statis.m_max_seq
      /\ statis'.m_cycles = statis.m_cycles /\ statis'.m_cumm_cycles = statis.m_cumm_cycles
      /\ statis'.m_last_expect_seq = statis.m_last_expect_seq
      /\ statis'.m_cumm_lost = statis.m_cumm_lost
      /\ statis'.m_rcv_pkg_cnt = statis.m_rcv_pkg_cnt
      /\ statis'.m_rcv_octet_cnt = statis.m_rcv_octet_cnt
      /\ statis'.m_last_rcv_octet_cnt = statis.m_last_rcv_octet_cnt
  BY <1>1, <1>2, <1>3, ArriveEffect
<1>6. /\ sender' \in Senders
      /\ sender'.first = sender.first /\ sender'.high = sender.high
      /\ sender'.got = sender.got /\ sender'.reported = sender.reported
      /\ sender'.gotThen = sender.gotThen
  BY <1>1, <1>2, <1>4 DEF Senders
<1>7. TypeOK'
  BY <1>1, <1>5, <1>6 DEF IInv, TypeOK
<1>8. NumbersInv'
  <2>1. CASE statis.m_has_rtp
    <3>1. Numbers(statis', sender')
      BY <1>5, <1>6, <2>1 DEF IInv, NumbersInv, Numbers
    <3> QED BY <1>5, <2>1, <3>1 DEF NumbersInv
  <2>2. CASE ~statis.m_has_rtp
    <3>1. Fresh(statis', sender')
      BY <1>5, <1>6, <2>2 DEF IInv, NumbersInv, Fresh
    <3> QED BY <1>5, <2>2, <3>1 DEF NumbersInv
  <2> QED BY <2>1, <2>2
<1>9. BoundsInv'
  BY <1>1, <1>6 DEF IInv, BoundsInv, Ordered
<1>10. ShareRecvInv'
  BY <1>1, <1>5 DEF IInv, ShareRecvInv
<1>11. ShareSendInv' /\ SentInv' /\ SrTrue'
  BY <1>1 DEF IInv, ShareSendInv, SentInv, SrTrue
<1> QED BY <1>7, <1>8, <1>9, <1>10, <1>11 DEF IInv

\* A player joins with cleared statistics.
LEMMA JoinStep ==
  ASSUME IInv, NEW q \in Player, Join(q)
  PROVE  IInv'
<1>1. /\ snd[q] = NotPlaying
      /\ snd' = [snd EXCEPT ![q] = SendStatis]
      /\ joined' = [joined EXCEPT ![q] = [seq |-> inst.m_seq, octets |-> total.octets]]
      /\ UNCHANGED <<now, statis, report, inst, sr, media, sender, total>>
  BY DEF Join
<1>2. TypeOK
  BY DEF IInv
<1>3. SendStatis \in SendStats
  <2>1. 0 \in Num32
    BY U32Type DEF Num32
  <2> QED BY <2>1, FreshStatis DEF SendStatis, SendStats
<1>4. inst.m_seq \in Nat /\ total.octets \in Nat
  BY <1>2 DEF TypeOK
<1>5. TypeOK'
  BY <1>1, <1>2, <1>3, <1>4 DEF TypeOK
<1>6. /\ snd'[q] = SendStatis /\ sr[q] = NoSr
      /\ joined'[q].seq = inst.m_seq /\ joined'[q].octets = total.octets
      /\ \A p \in Player \ {q} : snd'[p] = snd[p] /\ joined'[p] = joined[p]
  BY <1>1, <1>2 DEF IInv, SentInv, TypeOK
<1>7. ShareSendInv'
  <2>1. ~SendStatis.m_has_send_sr
        /\ SendStatis.m_last_snd_octet_cnt <= SendStatis.m_snd_octet_cnt
    BY DEF SendStatis
  <2> SUFFICES ASSUME NEW p \in Player, snd'[p] # NotPlaying
               PROVE  /\ snd'[p].m_has_send_sr <=> sr[p] # NoSr
                      /\ snd'[p].m_last_snd_octet_cnt <= snd'[p].m_snd_octet_cnt
                      /\ sr[p] # NoSr =>
                           (sr[p].cnt - 1) * DEF_RTCP_MIN_SIZE * RTCP_TX_RATIO_DEN
                             <= snd'[p].m_last_snd_octet_cnt * RTCP_TX_RATIO_NUM
    BY <1>1 DEF ShareSendInv
  <2>2. CASE p = q
    BY <1>6, <2>1, <2>2
  <2>3. CASE p # q
    BY <1>6, <2>3 DEF IInv, ShareSendInv
  <2> QED BY <2>2, <2>3
<1>8. SentInv'
  <2> SUFFICES ASSUME NEW p \in Player
               PROVE  /\ snd'[p] # NotPlaying =>
                           /\ joined'[p].seq <= inst.m_seq
                           /\ joined'[p].octets <= total.octets
                           /\ snd'[p].m_snd_pkg_cnt = Mod32(inst.m_seq - joined'[p].seq)
                           /\ snd'[p].m_snd_octet_cnt = total.octets - joined'[p].octets
                      /\ snd'[p] = NotPlaying => sr[p] = NoSr
    BY <1>1 DEF SentInv
  <2>1. CASE p = q
    <3>1. inst.m_seq - inst.m_seq = 0 /\ total.octets - total.octets = 0
      BY <1>4
    <3>2. Mod32(0) = 0
      <4>1. 0 \in 0 .. U32 - 1
        BY U32Type
      <4>2. 0 % U32 = 0
        BY <4>1, U32Type, ModSmall
      <4> QED BY <4>2 DEF Mod32, U32
    <3>3. SendStatis.m_snd_pkg_cnt = 0 /\ SendStatis.m_snd_octet_cnt = 0
      BY DEF SendStatis
    <3> QED BY <1>4, <1>6, <2>1, <3>1, <3>2, <3>3
  <2>2. CASE p # q
    BY <1>6, <2>2 DEF IInv, SentInv
  <2> QED BY <2>1, <2>2
<1>9. SrTrue'
  <2> SUFFICES ASSUME NEW p \in Player, sr[p] # NoSr
               PROVE  /\ sr[p].sender.m_snd_pkt_cnt = Mod32(sr[p].seq - joined'[p].seq)
                      /\ sr[p].sender.m_snd_octet_cnt = sr[p].octets - joined'[p].octets
    BY <1>1 DEF SrTrue
  <2>1. p # q
    BY <1>6
  <2> QED BY <1>6, <2>1 DEF IInv, SrTrue
<1>10. NumbersInv' /\ BoundsInv' /\ ShareRecvInv'
  BY <1>1 DEF IInv, NumbersInv, BoundsInv, ShareRecvInv, Numbers, Fresh, Ordered
<1> QED BY <1>5, <1>7, <1>8, <1>9, <1>10 DEF IInv

\* A player leaves.
LEMMA LeaveStep ==
  ASSUME IInv, NEW q \in Player, Leave(q)
  PROVE  IInv'
<1>1. /\ snd' = [snd EXCEPT ![q] = NotPlaying]
      /\ sr' = [sr EXCEPT ![q] = NoSr]
      /\ joined' = [joined EXCEPT ![q] = [seq |-> 0, octets |-> 0]]
      /\ UNCHANGED <<now, statis, report, inst, media, sender, total>>
  BY DEF Leave
<1>2. TypeOK
  BY DEF IInv
<1>3. TypeOK'
  BY <1>1, <1>2 DEF TypeOK
<1>4. /\ snd'[q] = NotPlaying /\ sr'[q] = NoSr
      /\ \A p \in Player \ {q} :
           snd'[p] = snd[p] /\ joined'[p] = joined[p] /\ sr'[p] = sr[p]
  BY <1>1, <1>2 DEF TypeOK
<1>5. ShareSendInv' /\ SentInv' /\ SrTrue'
  <2>1. ASSUME NEW p \in Player
        PROVE  /\ snd'[p] # NotPlaying => p # q
               /\ sr'[p] # NoSr => p # q
    BY <1>4
  <2>2. ShareSendInv'
    BY <1>4, <2>1 DEF IInv, ShareSendInv
  <2>3. SentInv'
    BY <1>1, <1>4, <2>1 DEF IInv, SentInv
  <2>4. SrTrue'
    BY <1>4, <2>1 DEF IInv, SrTrue
  <2> QED BY <2>2, <2>3, <2>4
<1>6. NumbersInv' /\ BoundsInv' /\ ShareRecvInv'
  BY <1>1 DEF IInv, NumbersInv, BoundsInv, ShareRecvInv, Numbers, Fresh, Ordered
<1> QED BY <1>3, <1>5, <1>6 DEF IInv

\* Time passes, or nothing happens.
LEMMA QuietStep ==
  ASSUME IInv, now' \in Clock,
         UNCHANGED <<statis, report, inst, snd, sr, media, sender, total, joined>>
  PROVE  IInv'
<1>1. TypeOK'
  BY DEF IInv, TypeOK
<1>2. NumbersInv' /\ BoundsInv' /\ ShareRecvInv'
  BY DEF IInv, NumbersInv, BoundsInv, ShareRecvInv, Numbers, Fresh, Ordered
<1>3. ShareSendInv' /\ SentInv' /\ SrTrue'
  BY DEF IInv, ShareSendInv, SentInv, SrTrue
<1> QED BY <1>1, <1>2, <1>3 DEF IInv

\* IInv is inductive.
LEMMA NextInv == IInv /\ [Next]_vars => IInv'
<1> SUFFICES ASSUME IInv, [Next]_vars PROVE IInv'
  OBVIOUS
<1>1. ASSUME NEW e \in sender.high - MAX_MISORDER .. sender.high + MAX_DROPOUT,
             NEW size \in Payload, Packet(e, size)
      PROVE  IInv'
  <2>1. sender.high - MAX_MISORDER \in Int /\ sender.high + MAX_DROPOUT \in Int
    BY StatAssumption DEF IInv, TypeOK, Senders
  <2>2. e \in Int
    BY <2>1
  <2> QED BY <1>1, <2>2, PacketStep
<1>2. ASSUME NEW seq \in 0 .. RTP_SEQ_MOD - 1, NEW next \in Starts, Restart(seq, next)
      PROVE  IInv'
  <2>1. seq \in Int
    BY U32Type
  <2> QED BY <1>2, <2>1, RestartStep
<1>3. ASSUME NEW t \in Clock, ArriveSR(t) PROVE IInv'
  BY <1>3, ArriveStep
<1>4. ASSUME NEW p \in Player, Join(p) PROVE IInv'
  BY <1>4, JoinStep
<1>5. ASSUME NEW p \in Player, Leave(p) PROVE IInv'
  BY <1>5, LeaveStep
<1>6. ASSUME Tick PROVE IInv'
  BY <1>6, QuietStep DEF Tick
<1>7. ASSUME UNCHANGED vars PROVE IInv'
  <2>1. now' \in Clock
    BY <1>7 DEF vars, IInv, TypeOK
  <2> QED BY <1>7, <2>1, QuietStep DEF vars
<1> QED BY <1>1, <1>2, <1>3, <1>4, <1>5, <1>6, <1>7 DEF Next

-------------------------------------------------------------------------------
(* The theorems.                                                             *)

\* Types, the counters against the numbers, and the shares, in every state.
THEOREM Invariance == Spec => []IInv
  BY InitInv, NextInv, PTL DEF Spec

\* The wraps of the publisher's numbers are all counted, once each, and the loss
\* is what is missing, at any time between reports.
THEOREM NumbersAreKept == Spec => []NumbersKept
<1>1. IInv => NumbersKept
  <2> SUFFICES ASSUME IInv, statis.m_has_rtp PROVE NumbersKept
    BY DEF NumbersKept
  <2>1. statis \in RecvStats /\ sender \in Senders /\ Numbers(statis, sender)
    BY DEF IInv, TypeOK, NumbersInv
  <2> DEFINE o == [m_max_seq |-> 0, m_cumm_pkg_lost |-> 0, m_frac_lost |-> 0]
             t == [at |-> -1, sr |-> sender.sr]
             y == Told(sender, o, t)
  <2>2. o \in Owes /\ t \in [at : Clock \cup {-1}, sr : SrTimes]
    BY <2>1 DEF Owes, Senders
  <2> HIDE DEF o, t
  <2>3. /\ y \in Senders /\ y.first = sender.first /\ y.high = sender.high
        /\ y.got = sender.got /\ y.reported = sender.high /\ y.gotThen = sender.got
    BY <2>1, <2>2, ReportedEffect DEF IInv, BoundsInv
  <2> HIDE DEF y
  <2>4. Same(CummLost(statis), sender.high - sender.first + 1 - sender.got)
        /\ CummLost(statis) \in Num32
    BY <2>1, <2>3, FreshStatis, NumbersReported
  <2>5. Mod32(CummLost(statis)) = CummLost(statis)
    BY <2>4, U32Type, ModSmall DEF Num32, Mod32, U32
  <2>6. Mod32((statis.m_cumm_cycles + statis.m_cycles) * RTP_SEQ_MOD + statis.m_max_seq)
          = Mod32(sender.high - sender.first + Mod16(sender.first))
    BY <2>1 DEF Numbers, Same
  <2> QED BY <2>4, <2>5, <2>6 DEF NumbersKept, Same
<1> QED BY <1>1, Invariance, PTL

\* What an SR counts is what the player was sent.
THEOREM SrIsTrue == Spec => []SrTrue
<1>1. IInv => SrTrue
  BY DEF IInv
<1> QED BY <1>1, Invariance, PTL

\* Each report is earned by octets of media of its own, but for the first SR.
THEOREM ReportsAreEarned == Spec => []ReportsEarned
<1>1. IInv => ReportsEarned
  <2> SUFFICES ASSUME IInv PROVE ReportsEarned
    OBVIOUS
  <2> DEFINE N == RTCP_TX_RATIO_NUM
  <2>1. N \in Nat /\ DEF_RTCP_MIN_SIZE \in Nat /\ RTCP_TX_RATIO_DEN \in Nat
    BY StatAssumption
  <2>2. total.rr * DEF_RTCP_MIN_SIZE * RTCP_TX_RATIO_DEN <= total.octets * N
    <3>1. PICK o \in Nat, l \in Nat, t \in Nat, n \in Nat :
            /\ statis.m_rcv_octet_cnt = o /\ statis.m_last_rcv_octet_cnt = l
            /\ total.octets = t /\ total.rr = n
      BY DEF IInv, TypeOK, RecvStats
    <3> DEFINE a == n * DEF_RTCP_MIN_SIZE * RTCP_TX_RATIO_DEN
               b == (o - l) * N
    <3>2. l <= o /\ a + b <= t * N
      BY <3>1 DEF IInv, ShareRecvInv
    <3>3. a \in Int /\ b \in Nat /\ t * N \in Int
      BY <2>1, <3>1, <3>2
    <3> HIDE DEF a, b
    <3>4. a <= t * N
      BY <3>2, <3>3
    <3> QED BY <3>1, <3>4 DEF a
  <2>3. ASSUME NEW p \in Player, sr[p] # NoSr
        PROVE  (sr[p].cnt - 1) * DEF_RTCP_MIN_SIZE * RTCP_TX_RATIO_DEN
                 <= snd[p].m_snd_octet_cnt * N
    <3>1. snd[p] # NotPlaying
      BY <2>3 DEF IInv, SentInv
    <3>2. snd[p] \in SendStats /\ sr[p] \in Srs
      BY <2>3, <3>1 DEF IInv, TypeOK
    <3>3. PICK n \in Nat, l \in Nat, o \in Nat :
            /\ n + 1 = sr[p].cnt /\ l = snd[p].m_last_snd_octet_cnt
            /\ o = snd[p].m_snd_octet_cnt
      <4>1. sr[p].cnt \in Nat \ {0}
        BY <3>2 DEF Srs
      <4>2. sr[p].cnt - 1 \in Nat /\ (sr[p].cnt - 1) + 1 = sr[p].cnt
        BY <4>1
      <4> QED BY <3>2, <4>2 DEF SendStats
    <3>4. l <= o /\ (sr[p].cnt - 1) * DEF_RTCP_MIN_SIZE * RTCP_TX_RATIO_DEN <= l * N
      BY <2>3, <3>1, <3>3 DEF IInv, ShareSendInv
    <3>5. l * N <= o * N
      BY <2>1, <3>3, <3>4
    <3>6. sr[p].cnt - 1 = n
      BY <3>3
    <3> DEFINE a == n * DEF_RTCP_MIN_SIZE * RTCP_TX_RATIO_DEN
    <3>7. a \in Int /\ l * N \in Int /\ o * N \in Int
      BY <2>1, <3>3
    <3> HIDE DEF N
    <3> QED BY <3>3, <3>4, <3>5, <3>6, <3>7
  <2> QED BY <2>2, <2>3 DEF ReportsEarned, Paid
<1> QED BY <1>1, Invariance, PTL

-------------------------------------------------------------------------------
(* What a report says.                                                       *)

\* The numbers of x fit into the signed loss of a report.
Countable(x) == 2 * (x.high - x.first + 1) <= U32 /\ 2 * x.got <= U32

\* genReport takes the upper half of 32 bits for a surplus.
LEMMA SignedLoss ==
  ASSUME NEW c \in Num32, NEW lost \in Int, Same(c, lost),
         2 * lost < U32, -U32 < 2 * lost
  PROVE  (IF c < Mod32(-1) \div 2 + 1 THEN c ELSE 0) = IF lost > 0 THEN lost ELSE 0
<1>0. U32 \in Nat \ {0} /\ c \in Int /\ 0 <= c /\ c < U32
  BY U32Type DEF Num32
<1>1. Mod32(-1) = U32 - 1
  <2>1. U32 - 1 \in 0 .. U32 - 1 /\ -1 = U32 * (-1) + (U32 - 1)
    BY <1>0
  <2>2. (-1) % U32 = U32 - 1
    BY <1>0, <2>1, ModUnique
  <2> QED BY <2>2 DEF Mod32, U32
<1> DEFINE n == U32 - 1
           half == n \div 2 + 1
<1>2. half \in Int /\ U32 <= 2 * half /\ 2 * half <= U32 + 1
  <2>1. n \in Int /\ n = U32 - 1
    BY <1>0
  <2> HIDE DEF n
  <2>2. n % 2 \in 0 .. 1 /\ n \div 2 \in Int /\ n = 2 * (n \div 2) + (n % 2)
    BY <2>1, DivMod
  <2> DEFINE q == n \div 2
             r == n % 2
  <2>3. q \in Int /\ r \in 0 .. 1 /\ n = 2 * q + r
    BY <2>2
  <2> HIDE DEF q, r
  <2>4. q + 1 \in Int /\ U32 <= 2 * (q + 1) /\ 2 * (q + 1) <= U32 + 1
    BY <1>0, <2>1, <2>3
  <2> QED BY <2>4 DEF q
<1> HIDE DEF half
<1>3. CASE lost >= 0
  <2>1. c = lost
    BY <1>0, <1>3, SameClose
  <2>2. c < half
    BY <1>0, <1>2, <2>1
  <2> QED BY <1>0, <1>1, <1>3, <2>1, <2>2 DEF half
<1>4. CASE lost < 0
  <2> DEFINE u == lost + U32
  <2>1. u \in Int /\ u = lost + U32 * 1
    BY <1>0
  <2> HIDE DEF u
  <2>2. Same(u, lost)
    BY <2>1, SameWitness
  <2>3. c = u
    BY <1>0, <1>4, <2>1, <2>2, SameClose DEF Same
  <2>4. ~(c < half)
    BY <1>0, <1>2, <1>4, <2>1, <2>3
  <2> QED BY <1>1, <1>4, <2>4 DEF half
<1> QED BY <1>3, <1>4

\* Less than all of them: the fraction needs no more than its 8 bits.
LEMMA ShortFraction ==
  ASSUME NEW n \in Int, NEW m \in Int, n > 0, n < m
  PROVE  ((n * 256) \div m) % 256 = (n * 256) \div m
<1> DEFINE x == n * 256
           q == x \div m
           r == x % m
<1>1. m \in Nat \ {0} /\ x \in Int /\ x < m * 256 /\ x > 0
  OBVIOUS
<1> HIDE DEF x
<1>2. q \in Int /\ r \in 0 .. m - 1 /\ x = m * q + r
  BY <1>1, DivMod
<1> HIDE DEF q, r
<1>3. ASSUME q < 0 PROVE FALSE
  <2>1. m * q <= m * (-1)
    BY <1>1, <1>2, <1>3
  <2>2. m * (-1) = -m /\ m * q \in Int
    BY <1>1, <1>2
  <2> QED BY <1>1, <1>2, <2>1, <2>2
<1>4. ASSUME q > 255 PROVE FALSE
  <2>1. m * q >= m * 256
    BY <1>1, <1>2, <1>4
  <2>2. m * q \in Int /\ m * 256 \in Int
    BY <1>1, <1>2
  <2> QED BY <1>1, <1>2, <2>1, <2>2
<1>5. q \in 0 .. 255
  BY <1>2, <1>3, <1>4
<1>6. q % 256 = q
  BY <1>5, ModSmall
<1> QED BY <1>6 DEF q, x

\* A report that is made with numbers that fit says what it owes.
LEMMA ReportOwed ==
  ASSUME NEW s \in RecvStats, NEW x \in Senders, NEW ntp \in ClockTimes,
         Ordered(x), Numbers(s, x), Countable(x), x.gotThen < x.got,
         sender.first = x.first, sender.reported = x.reported,
         sender.gotThen = x.gotThen
  PROVE  LET r == Report(s, ntp)
             o == Owed(x.high, x.got)
         IN /\ r.m_max_seq = o.m_max_seq
            /\ r.m_cumm_pkg_lost = o.m_cumm_pkg_lost
            /\ r.m_frac_lost = o.m_frac_lost
<1> DEFINE r == Report(s, ntp)
           o == Owed(x.high, x.got)
           ex == ExpectedInterval(s)
           c == CummLost(s)
           z == [m_max_seq |-> 0, m_cumm_pkg_lost |-> 0, m_frac_lost |-> 0]
           t == [at |-> -1, sr |-> x.sr]
           y == Told(x, z, t)
<1>1. z \in Owes /\ t \in [at : Clock \cup {-1}, sr : SrTimes]
  BY DEF Owes, Senders
<1>2. /\ c \in Num32 /\ ex \in Num32
      /\ Same(c, x.high - x.first + 1 - x.got) /\ Same(ex, x.high - x.reported)
  <2> HIDE DEF z, t
  <2>1. /\ y \in Senders /\ y.first = x.first /\ y.high = x.high
        /\ y.got = x.got /\ y.reported = x.high /\ y.gotThen = x.got
    BY <1>1, ReportedEffect
  <2> HIDE DEF y
  <2> QED BY <2>1, NumbersReported
<1>3. PICK h \in Int, g \in Nat, f \in Nat, p \in Int, n \in Nat, k \in Nat, a \in Int :
        /\ x.high = h /\ x.got = g /\ x.first = f /\ x.reported = p /\ x.gotThen = n
        /\ s.m_rcv_pkg_cnt = k /\ ex = a
        /\ 0 <= k /\ k < U32 /\ 0 <= a /\ a < U32
  <2>1. s.m_rcv_pkg_cnt \in Nat /\ s.m_rcv_pkg_cnt < U32 /\ ex \in Int /\ 0 <= ex
        /\ ex < U32
    BY <1>2, U32Type DEF RecvStats, Num32
  <2>2. x.high \in Int /\ x.got \in Nat /\ x.first \in Nat /\ x.reported \in Int
        /\ x.gotThen \in Nat
    BY DEF Senders
  <2> HIDE DEF ex
  <2> QED BY <2>1, <2>2
<1>4. /\ U32 \in Nat \ {0} /\ f <= h /\ f - 1 <= p /\ p <= h /\ n < g
      /\ 2 * (h - f + 1) <= U32 /\ 2 * g <= U32
  BY <1>3, U32Type DEF Ordered, Countable
<1>5. a = h - p
  <2>1. h - p \in Int /\ -U32 < a - (h - p) /\ a - (h - p) < U32
    BY <1>3, <1>4
  <2>2. Same(a, h - p)
    BY <1>2, <1>3
  <2> DEFINE u == h - p
  <2> HIDE DEF u, ex
  <2> QED BY <2>1, <2>2, SameClose DEF u
<1>6. k = g - n
  <2>1. g - n \in Int /\ -U32 < k - (g - n) /\ k - (g - n) < U32
    BY <1>3, <1>4
  <2>2. Same(k, g - n)
    BY <1>3 DEF Numbers
  <2> DEFINE u == g - n
  <2> HIDE DEF u
  <2> QED BY <2>1, <2>2, SameClose DEF u
<1>7. r.m_max_seq = o.m_max_seq
  <2>1. r.m_max_seq = Mod32((s.m_cumm_cycles + s.m_cycles) * RTP_SEQ_MOD + s.m_max_seq)
    BY DEF Report
  <2>2. o.m_max_seq = Mod32(x.high - x.first + Mod16(x.first))
    BY DEF Owed
  <2> QED BY <2>1, <2>2 DEF Numbers, Same
<1>8. r.m_cumm_pkg_lost = o.m_cumm_pkg_lost
  <2> DEFINE lost == h - f + 1 - g
  <2>1. r.m_cumm_pkg_lost = IF c < Mod32(-1) \div 2 + 1 THEN c ELSE 0
    BY DEF Report
  <2>2. o.m_cumm_pkg_lost = IF lost > 0 THEN lost ELSE 0
    BY <1>3 DEF Owed
  <2>3. lost \in Int /\ 2 * lost < U32 /\ -U32 < 2 * lost
    BY <1>3, <1>4
  <2>4. Same(c, lost)
    BY <1>2, <1>3
  <2> HIDE DEF lost, c, r, o
  <2>5. (IF c < Mod32(-1) \div 2 + 1 THEN c ELSE 0) = IF lost > 0 THEN lost ELSE 0
    BY <1>2, <2>3, <2>4, SignedLoss
  <2> QED BY <2>1, <2>2, <2>5
<1>9. r.m_frac_lost = o.m_frac_lost
  <2> DEFINE lost == a - k
  <2>1. r.m_frac_lost = IF lost > 0 THEN ((lost * 256) \div a) % 256 ELSE 0
    BY <1>3 DEF Report, Rescale
  <2>2. o.m_frac_lost = IF h - p - (g - n) > 0
                        THEN ((h - p - (g - n)) * 256) \div (h - p) ELSE 0
    BY <1>3 DEF Owed
  <2>3. h - p - (g - n) = lost
    BY <1>5, <1>6
  <2>4. o.m_frac_lost = IF lost > 0 THEN (lost * 256) \div a ELSE 0
    BY <1>5, <2>2, <2>3
  <2>5. lost \in Int /\ lost < a
    BY <1>3, <1>4, <1>6
  <2> HIDE DEF lost, r, o
  <2>6. CASE lost > 0
    <3>1. ((lost * 256) \div a) % 256 = (lost * 256) \div a
      BY <1>3, <2>5, <2>6, ShortFraction
    <3> QED BY <2>1, <2>4, <2>6, <3>1
  <2>7. CASE ~(lost > 0)
    BY <2>1, <2>4, <2>7
  <2> QED BY <2>6, <2>7
<1> QED BY <1>7, <1>8, <1>9

ReportInv == Countable(sender) => ReportTrue

\* A packet leaves a true report, the old one or a new one.
LEMMA ReportPacket ==
  ASSUME IInv, ReportInv, NEW e \in Int, NEW size \in Payload, Packet(e, size)
  PROVE  ReportInv'
<1> DEFINE r == Received(statis, e, size)
           x == Seen(sender, e)
           due == ChkRecv(r, Ntp)
           o == Owed(x.high, x.got)
           t == [at |-> now, sr |-> sender.sr]
<1>1. size \in Nat
  BY MediaAssumption
<1>2. TypeOK /\ NumbersInv /\ BoundsInv
  BY DEF IInv
<1>3. /\ statis.m_has_rtp \/ e = sender.first
      /\ sender.high - MAX_MISORDER < e /\ e < sender.high + MAX_DROPOUT
      /\ Receive(e, size)
  BY DEF Packet
<1>4. /\ r \in RecvStats /\ x \in Senders /\ Ordered(x) /\ Numbers(r, x)
      /\ Ntp \in ClockTimes
      /\ due => report' = Report(r, Ntp) /\ sender' = Told(x, o, t)
      /\ ~due => report' = report /\ sender' = x
  BY <1>1, <1>2, <1>3, ReceiveEffect
<1>5. sender \in Senders /\ now \in Clock /\ Ordered(sender)
  BY <1>2 DEF TypeOK, BoundsInv
<1>6. /\ x.first = sender.first /\ x.reported = sender.reported
      /\ x.gotThen = sender.gotThen /\ x.got = sender.got + 1 /\ x.high >= sender.high
      /\ x.owed = sender.owed
  BY <1>3, <1>5, SeenEffect
<1> HIDE DEF r, x, due
<1>7. CASE due
  <2>1. o \in Owes /\ t \in [at : Clock \cup {-1}, sr : SrTimes]
    BY <1>4, <1>5, <1>6, OwedType DEF Senders
  <2> HIDE DEF t
  <2>2. /\ sender'.owed = o /\ sender'.first = x.first /\ sender'.high = x.high
        /\ sender'.got = x.got
    <3> HIDE DEF o
    <3> QED BY <1>4, <1>7, <2>1, ReportedEffect
  <2>3. SUFFICES ASSUME Countable(sender') PROVE ReportTrue'
    BY DEF ReportInv
  <2>4. Countable(x)
    BY <2>2, <2>3 DEF Countable
  <2>5. x.gotThen < x.got
    BY <1>5, <1>6 DEF Ordered, Senders
  <2>6. /\ report'.m_max_seq = o.m_max_seq
        /\ report'.m_cumm_pkg_lost = o.m_cumm_pkg_lost
        /\ report'.m_frac_lost = o.m_frac_lost
    BY <1>4, <1>6, <1>7, <2>4, <2>5, ReportOwed
  <2>7. DOMAIN o = {"m_max_seq", "m_cumm_pkg_lost", "m_frac_lost"}
    BY DEF Owed
  <2> HIDE DEF o
  <2> QED BY <2>2, <2>6, <2>7 DEF ReportTrue
<1>8. CASE ~due
  <2>1. report' = report /\ sender' = x
    BY <1>4, <1>8
  <2>2. Countable(x) => Countable(sender)
    <3>1. PICK h \in Nat, g \in Nat, f \in Nat, i \in Nat :
            h = sender.high /\ g = sender.got /\ f = sender.first /\ i = x.high
      BY <1>4, <1>5 DEF Senders
    <3>2. x.first = f /\ x.got = g + 1 /\ i >= h
      BY <1>6, <3>1
    <3> QED BY <3>1, <3>2, U32Type DEF Countable
  <2>3. ReportTrue => ReportTrue'
    BY <1>6, <2>1 DEF ReportTrue
  <2> QED BY <2>1, <2>2, <2>3 DEF ReportInv
<1> QED BY <1>7, <1>8

\* As long as the publisher's numbers and packets since he started fit into the
\* signed 32 bits of the loss, every report says what was received and lost, with
\* wraps, late packets and repeated ones.
THEOREM ReportsAreTrue == Spec => [](Countable(sender) => ReportTrue)
<1>1. Init => ReportInv
  BY DEF Init, ReportInv, ReportTrue
<1>2. IInv /\ ReportInv /\ [Next]_vars => ReportInv'
  <2> SUFFICES ASSUME IInv, ReportInv, [Next]_vars PROVE ReportInv'
    OBVIOUS
  <2>1. ASSUME NEW e \in sender.high - MAX_MISORDER .. sender.high + MAX_DROPOUT,
               NEW size \in Payload, Packet(e, size)
        PROVE  ReportInv'
    <3>1. sender.high - MAX_MISORDER \in Int /\ sender.high + MAX_DROPOUT \in Int
      BY StatAssumption DEF IInv, TypeOK, Senders
    <3>2. e \in Int
      BY <3>1
    <3> QED BY <2>1, <3>2, ReportPacket
  <2>2. ASSUME NEW seq \in 0 .. RTP_SEQ_MOD - 1, NEW next \in Starts, Restart(seq, next)
        PROVE  ReportInv'
    BY <2>2 DEF Restart, ReportInv, ReportTrue
  <2>3. ASSUME NEW t \in Clock, ArriveSR(t) PROVE ReportInv'
    <3>1. /\ sender'.first = sender.first /\ sender'.high = sender.high
          /\ sender'.got = sender.got /\ sender'.owed = sender.owed /\ report' = report
      BY <2>3 DEF ArriveSR, IInv, TypeOK, Senders
    <3> QED BY <3>1 DEF ReportInv, ReportTrue, Countable
  <2>4. ASSUME UNCHANGED <<report, sender>> PROVE ReportInv'
    BY <2>4 DEF ReportInv, ReportTrue, Countable
  <2> QED BY <2>1, <2>2, <2>3, <2>4 DEF Next, Join, Leave, Tick, vars
<1> QED BY <1>1, <1>2, Invariance, PTL DEF Spec, ReportInv

-------------------------------------------------------------------------------
(* Times.                                                                    *)

\* Adding a multiple of m adds to the quotient.
LEMMA DivPlus ==
  ASSUME NEW m \in Nat \ {0}, NEW k \in Int, NEW a \in Int
  PROVE  (m * k + a) \div m = k + a \div m
<1> DEFINE q == a \div m
           r == a % m
           x == m * k + a
<1>1. q \in Int /\ r \in 0 .. m - 1 /\ a = m * q + r
  BY DivMod
<1>2. m * (k + q) = m * k + m * q /\ m * k \in Int /\ m * q \in Int /\ k + q \in Int
  BY <1>1
<1> HIDE DEF q, r
<1>3. x \in Int /\ x = m * (k + q) + r
  BY <1>1, <1>2
<1> DEFINE n == k + q
<1>4. n \in Int /\ x = m * n + r
  BY <1>2, <1>3
<1> HIDE DEF x, n
<1>5. x \div m = n
  BY <1>1, <1>4, ModUnique
<1> QED BY <1>5 DEF x, n, q

\* Rounding a difference instead of its parts: up to one less.
LEMMA DivDifference ==
  ASSUME NEW m \in Nat \ {0}, NEW x \in Int, NEW y \in Int
  PROVE  \E rounding \in 0 .. 1 : x \div m - y \div m = (x - y) \div m + rounding
<1> DEFINE z == x - y
<1>0. z \in Int /\ x = y + z
  OBVIOUS
<1> HIDE DEF z
<1>1. PICK a \in Int, r \in 0 .. m - 1 : a = x \div m /\ x = m * a + r
  BY DivMod
<1>2. PICK b \in Int, s \in 0 .. m - 1 : b = y \div m /\ y = m * b + s
  BY DivMod
<1>3. PICK c \in Int, t \in 0 .. m - 1 : c = z \div m /\ z = m * c + t
  BY <1>0, DivMod
<1> DEFINE k == a - b - c
<1>4. m * k = s + t - r /\ k \in Int
  <2>1. m * k = m * a - m * b - m * c /\ m * a \in Int /\ m * b \in Int /\ m * c \in Int
    OBVIOUS
  <2>2. m * a + r = (m * b + s) + (m * c + t)
    BY <1>0, <1>1, <1>2, <1>3
  <2> DEFINE i == m * a
             j == m * b
             l == m * c
  <2>3. i \in Int /\ j \in Int /\ l \in Int /\ i + r = (j + s) + (l + t)
        /\ m * k = i - j - l
    BY <2>1, <2>2
  <2> HIDE DEF i, j, l, k
  <2>4. i - j - l = s + t - r
    BY <2>3
  <2> QED BY <2>3, <2>4 DEF k
<1> HIDE DEF k
<1>5. -m < m * k /\ m * k < 2 * m
  BY <1>4
<1>6. ASSUME k <= -1 PROVE FALSE
  <2>1. m * k <= m * (-1)
    BY <1>4, <1>6
  <2>2. m * (-1) = -m /\ m * k \in Int
    BY <1>4
  <2> QED BY <1>5, <2>1, <2>2
<1>7. ASSUME k >= 2 PROVE FALSE
  <2>1. m * k >= m * 2
    BY <1>4, <1>7
  <2>2. m * 2 = 2 * m /\ m * k \in Int
    BY <1>4
  <2> QED BY <1>5, <2>1, <2>2
<1>8. k \in 0 .. 1
  BY <1>4, <1>6, <1>7
<1>9. a - b = c + k
  BY DEF k
<1> QED BY <1>1, <1>2, <1>3, <1>8, <1>9 DEF z

\* Factors keep numbers the same.
LEMMA SameTimes ==
  ASSUME NEW a \in Int, NEW b \in Int, NEW c \in Int, Same(a, b)
  PROVE  Same(a * c, b * c)
<1>1. PICK k \in Int : a = b + U32 * k
  BY SameWitness
<1> DEFINE n == k * c
           x == a * c
           y == b * c
<1>2. n \in Int /\ x \in Int /\ y \in Int /\ x = y + U32 * n
  <2>1. (b + U32 * k) * c = b * c + U32 * (k * c)
    BY U32Type
  <2> QED BY <1>1, <2>1
<1> HIDE DEF n, x, y
<1>3. Same(x, y)
  BY <1>2, SameWitness
<1> QED BY <1>3 DEF x, y

\* The difference of two times is what has passed between them, as long as that
\* is less than the seconds can count.
LEMMA MinusNtp ==
  ASSUME NEW t \in Int, NEW b \in Int, b <= t, t - b < (U32 - 1) * Msecs
  PROVE  Minus(NtpTime(t), NtpTime(b)) = NtpTime(t - b)
<1> DEFINE S == Msecs
<1>0. S \in Nat \ {0} /\ U32 \in Nat \ {0}
  BY ClockAssumption, U32Type
<1>1. PICK q \in Int, r \in 0 .. S - 1 :
        q = t \div S /\ r = t % S /\ t = S * q + r
  BY <1>0, DivMod
<1>2. PICK p \in Int, s \in 0 .. S - 1 :
        p = b \div S /\ s = b % S /\ b = S * p + s
  BY <1>0, DivMod
<1> DEFINE c == IF r < s THEN 1 ELSE 0
           D == q - p - c
           R == r - s + c * S
           d == t - b
<1>3. c \in 0 .. 1 /\ D \in Int /\ R \in 0 .. S - 1 /\ d \in Int /\ d >= 0
  <2>1. CASE r < s
    BY <1>0, <1>1, <1>2, <2>1
  <2>2. CASE ~(r < s)
    BY <1>0, <1>1, <1>2, <2>2
  <2> QED BY <2>1, <2>2
<1>4. d = S * D + R
  <2>1. S * (q - p - c) = S * q - S * p - c * S /\ S * q \in Int /\ S * p \in Int
        /\ c * S \in Int
    BY <1>0, <1>3
  <2> DEFINE i == S * q
             j == S * p
             l == c * S
  <2>2. /\ i \in Int /\ j \in Int /\ l \in Int /\ S * D = i - j - l
        /\ d = (i + r) - (j + s) /\ R = r - s + l
    BY <1>1, <1>2, <2>1
  <2> HIDE DEF i, j, l, D, R, d, c
  <2>3. (i + r) - (j + s) = (i - j - l) + (r - s + l)
    BY <1>1, <1>2, <2>2
  <2> QED BY <2>2, <2>3
<1>5. d \div S = D /\ d % S = R
  <2> HIDE DEF d, D, R
  <2> QED BY <1>0, <1>3, <1>4, ModUnique
<1>6. D >= 0 /\ D < U32 - 1
  <2> HIDE DEF D, R, S
  <2>1. ASSUME D <= -1 PROVE FALSE
    <3>1. S * D <= S * (-1) /\ S * (-1) = -S /\ S * D \in Int
      BY <1>0, <1>3, <2>1
    <3> QED BY <1>0, <1>3, <1>4, <3>1
  <2>2. ASSUME D >= U32 - 1 PROVE FALSE
    <3>1. S * D >= S * (U32 - 1) /\ S * (U32 - 1) = (U32 - 1) * S
          /\ S * D \in Int /\ (U32 - 1) * S \in Int
      BY <1>0, <1>3, <2>2
    <3>2. d < (U32 - 1) * S
      BY DEF S
    <3> QED BY <1>0, <1>3, <1>4, <3>1, <3>2
  <2> QED BY <1>0, <1>3, <2>1, <2>2
<1>7. NtpTime(t) = [m_sec |-> Mod32(q), m_msec |-> r]
      /\ NtpTime(b) = [m_sec |-> Mod32(p), m_msec |-> s]
      /\ NtpTime(d) = [m_sec |-> Mod32(D), m_msec |-> R]
  BY <1>1, <1>2, <1>5 DEF NtpTime
<1>8. Mod32(Mod32(q) - Mod32(p) - c) = Mod32(D)
  <2>1. Same(Mod32(q), q) /\ Same(Mod32(p), p) /\ Mod32(q) \in Int /\ Mod32(p) \in Int
    BY SameMod, ModTypes DEF Num32
  <2> DEFINE u == Mod32(q)
             v == Mod32(p)
             e == u - v
             f == q - p
  <2>2. e \in Int /\ f \in Int /\ Same(e, f)
    <3>1. u \in Int /\ v \in Int /\ Same(u, q) /\ Same(v, p)
      BY <2>1
    <3> HIDE DEF u, v
    <3> QED BY <3>1, SameDifference
  <2> HIDE DEF u, v, e, f, c
  <2>3. Same(c, c) /\ c \in Int
    BY <1>3 DEF Same
  <2>4. Same(e - c, f - c)
    BY <2>2, <2>3, SameDifference
  <2> QED BY <2>4 DEF Same, e, f, u, v
<1>9. ASSUME Mod32(q) = Mod32(p), c = 1 PROVE FALSE
  <2>1. Same(q, p) /\ q - p = D + 1
    BY <1>1, <1>2, <1>9 DEF Same
  <2>2. -U32 < q - p /\ q - p < U32
    BY <1>0, <1>3, <1>6, <2>1
  <2>3. q = p
    BY <2>1, <2>2, SameClose
  <2> HIDE DEF D
  <2> QED BY <1>3, <1>6, <2>1, <2>3
<1>10. Minus([m_sec |-> Mod32(q), m_msec |-> r], [m_sec |-> Mod32(p), m_msec |-> s])
         = IF Mod32(q) = Mod32(p) /\ c = 1 THEN Zero
           ELSE [m_sec |-> Mod32(Mod32(q) - Mod32(p) - c), m_msec |-> R]
  BY DEF Minus
<1> HIDE DEF c, D, R, d
<1>11. Minus(NtpTime(t), NtpTime(b)) = NtpTime(d)
  BY <1>7, <1>8, <1>9, <1>10
<1> QED BY <1>11 DEF d

\* No time has passed at the start: the time stamp is the base unit.
LEMMA MinusSame ==
  ASSUME NEW t \in ClockTimes, NEW base \in Num32
  PROVE  Ts(t, base, t) = base
<1>1. PICK a \in Int, b \in Int : a = t.m_sec /\ b = t.m_msec
  BY DEF ClockTimes, Num32
<1>2. Mod32(0) = 0
  <2>1. 0 \in 0 .. U32 - 1
    BY U32Type
  <2>2. 0 % U32 = 0
    BY <2>1, U32Type, ModSmall
  <2> QED BY <2>2 DEF Mod32, U32
<1>3. Minus(t, t) = [m_sec |-> 0, m_msec |-> 0]
  <2>1. ~(b < b) /\ a - a - 0 = 0 /\ b - b + 0 * Msecs = 0
    BY <1>1, ClockAssumption
  <2> QED BY <1>1, <1>2, <2>1 DEF Minus
<1>4. Ntp2Unit(Minus(t, t)) = 0
  <2>1. 0 * m_sample_rate = 0 /\ Msecs \in Nat \ {0} /\ 0 = Msecs * 0 + 0
        /\ 0 \in 0 .. Msecs - 1
    BY ClockAssumption
  <2>2. 0 \div Msecs = 0
    BY <2>1, ModUnique
  <2>3. 0 + 0 = 0
    OBVIOUS
  <2> QED BY <1>2, <1>3, <2>1, <2>2, <2>3 DEF Ntp2Unit
<1>5. Mod32(0 + base) = base
  <2>1. 0 + base = base /\ base \in 0 .. U32 - 1
    BY U32Type DEF Num32
  <2>2. base % U32 = base
    BY <2>1, U32Type, ModSmall
  <2> QED BY <2>1, <2>2 DEF Mod32, U32
<1> QED BY <1>4, <1>5 DEF Ts

\* A time in units of 1/n seconds, from its seconds and milliseconds.
LEMMA Units ==
  ASSUME NEW x \in Int, NEW n \in Nat
  PROVE  /\ x \div Msecs \in Int /\ x % Msecs \in 0 .. Msecs - 1
         /\ (x * n) \div Msecs = (x \div Msecs) * n + ((x % Msecs) * n) \div Msecs
         /\ ((x % Msecs) * n) \div Msecs \in 0 .. n
         /\ n > 0 => ((x % Msecs) * n) \div Msecs \in 0 .. n - 1
<1> DEFINE S == Msecs
<1>0. S \in Nat \ {0}
  BY ClockAssumption
<1>1. PICK q \in Int, r \in 0 .. S - 1 :
        q = x \div S /\ r = x % S /\ x = S * q + r
  BY <1>0, DivMod
<1> DEFINE k == q * n
           y == r * n
           e == y \div S
           f == y % S
<1>2. k \in Int /\ y \in Nat
  BY <1>0, <1>1
<1>3. x * n = S * k + y
  <2>1. (S * q + r) * n = S * (q * n) + r * n
    BY <1>0
  <2> QED BY <1>1, <2>1
<1> HIDE DEF k, y, S
<1>4. (S * k + y) \div S = k + e
  BY <1>0, <1>2, DivPlus
<1>5. e \in Int /\ f \in 0 .. S - 1 /\ y = S * e + f
  BY <1>0, <1>2, DivMod
<1> HIDE DEF e, f
<1>6. e >= 0
  <2>1. ASSUME e <= -1 PROVE FALSE
    <3>1. S * e <= S * (-1) /\ S * (-1) = -S /\ S * e \in Int
      BY <1>0, <1>5, <2>1
    <3> QED BY <1>0, <1>2, <1>5, <3>1
  <2> QED BY <1>5, <2>1
<1>7. n > 0 => e < n
  <2> SUFFICES ASSUME n > 0, e >= n PROVE FALSE
    BY <1>5
  <2>1. S * e >= S * n /\ S * e \in Int /\ S * n \in Int
    BY <1>0, <1>5
  <2>2. (r + 1) * n <= S * n
    BY <1>0, <1>1
  <2>3. (r + 1) * n = r * n + n /\ r * n \in Int
    BY <1>0, <1>1
  <2> QED BY <1>0, <1>5, <2>1, <2>2, <2>3 DEF y
<1>8. n = 0 => e = 0
  <2> SUFFICES ASSUME n = 0 PROVE e = 0
    OBVIOUS
  <2>1. y = 0
    BY <1>0, <1>1 DEF y
  <2>2. 0 = S * 0 + 0 /\ 0 \in 0 .. S - 1
    BY <1>0
  <2>3. 0 \div S = 0
    BY <1>0, <2>2, ModUnique
  <2> QED BY <2>1, <2>3 DEF e
<1>9. e \in 0 .. n /\ (n > 0 => e \in 0 .. n - 1)
  BY <1>5, <1>6, <1>7, <1>8
<1>10. (x * n) \div S = q * n + e
  BY <1>3, <1>4 DEF k
<1> QED BY <1>1, <1>9, <1>10 DEF e, y, S

\* What is less than a second fits into 32 bits when it is scaled to the sample
\* rate, which holds up to about 4.3 MHz.
RateFits == (Msecs - 1) * m_sample_rate < U32

\* Media time is the time in units of the sample rate, in 32 bits.
LEMMA UnitOf ==
  ASSUME RateFits, NEW d \in Int
  PROVE  Same(Ntp2Unit(NtpTime(d)), (d * m_sample_rate) \div Msecs)
<1> DEFINE n == m_sample_rate
           q == d \div Msecs
           e == ((d % Msecs) * n) \div Msecs
<1>0. n \in Nat
  BY ClockAssumption
<1>1. q \in Int /\ (d * n) \div Msecs = q * n + e /\ e \in 0 .. n
  BY <1>0, Units
<1>2. Ntp2Unit(NtpTime(d)) = Mod32(Mod32(q) * n + e)
  <2> DEFINE r == d % Msecs
  <2>1. Msecs \in Nat \ {0}
    BY ClockAssumption
  <2>2. r \in 0 .. Msecs - 1
    BY <1>0, Units
  <2> HIDE DEF r
  <2>3. PICK l \in Nat : l = Msecs - 1
    BY <2>1
  <2>4. r * n \in Nat /\ r * n <= l * n
    BY ONLY <1>0, <2>2, <2>3, n \in Nat, l \in Nat
  <2>5. r * n \in 0 .. U32 - 1
    <3>1. l * n < U32 /\ l * n \in Int
      BY <1>0, <2>3 DEF RateFits, n
    <3> QED BY <2>4, <3>1, U32Type
  <2>6. Mod32(r * n) = r * n
    BY <2>5, U32Type, ModSmall DEF Mod32, U32
  <2> QED BY <2>6 DEF Ntp2Unit, NtpTime, r, q, e
<1> HIDE DEF q, e, n
<1>3. Mod32(q) \in Int /\ Same(Mod32(q), q) /\ e \in Int
  BY <1>0, <1>1, SameMod, ModTypes DEF Num32
<1> DEFINE a == Mod32(q) * n
           b == q * n
<1>4. a \in Int /\ b \in Int
  BY <1>0, <1>1, <1>3
<1>5. Same(a, b)
  <2> DEFINE z == Mod32(q)
  <2>1. z \in Int /\ Same(z, q) /\ n \in Int
    BY <1>0, <1>3
  <2> HIDE DEF z
  <2>2. Same(z * n, q * n)
    BY <1>1, <2>1, SameTimes
  <2> QED BY <2>2 DEF z
<1> HIDE DEF a, b
<1>6. Same(a + e, b + e)
  BY <1>3, <1>4, <1>5, SameRefl, SameSum
<1> DEFINE u == a + e
<1>7. u \in Int
  BY <1>3, <1>4
<1> HIDE DEF u
<1>8. Same(Mod32(u), u)
  BY <1>7, SameMod
<1> QED BY <1>1, <1>2, <1>6, <1>8 DEF Same, u, a, b, n

\* The middle of a time that RTCP carries counts units of 1/2^16 seconds.
LEMMA Middle ==
  ASSUME NEW x \in Int
  PROVE  /\ Same(Rtp2U32(RtpTime(NtpTime(x))), (x * RTP_SEQ_MOD) \div Msecs)
         /\ Same(Ntp2U32(NtpTime(x)), (x * RTP_SEQ_MOD) \div Msecs)
         /\ Rtp2U32(RtpTime(NtpTime(x))) \in Int /\ Ntp2U32(NtpTime(x)) \in Int
<1> DEFINE S == Msecs
           M == RTP_SEQ_MOD
           q == x \div S
           r == x % S
           y == r * M
           e == y \div S
<1>0. S \in Nat \ {0} /\ M \in Nat \ {0}
  BY ClockAssumption
<1>1. q \in Int /\ r \in 0 .. S - 1 /\ (x * M) \div S = q * M + e /\ e \in 0 .. M - 1
  <2> HIDE DEF M
  <2>1. M \in Nat /\ M > 0
    BY <1>0
  <2> QED BY <2>1, Units
<1>2. NtpTime(x) = [m_sec |-> Mod32(q), m_msec |-> r]
  BY DEF NtpTime
<1> HIDE DEF q, r, S, M
<1>3. y \in Nat
  BY <1>0, <1>1
<1> HIDE DEF y
<1> DEFINE frac == ((y * M) \div S) \div M
<1>4. frac = e
  <2> DEFINE f == y % S
             g == f * M
             h == g \div S
             k == e * M
  <2>1. e \in Int /\ f \in 0 .. S - 1 /\ y = S * e + f
    BY <1>0, <1>3, DivMod
  <2>2. k \in Int /\ g \in Int /\ y * M = S * k + g
    <3>1. (S * e + f) * M = S * (e * M) + f * M
      BY <1>0, <2>1
    <3> HIDE DEF e, f
    <3> QED BY <1>0, <2>1, <3>1
  <2>3. h \in 0 .. M - 1
    <3>1. f = y % S
      OBVIOUS
    <3>2. S = Msecs
      BY DEF S
    <3>3. M \in Nat /\ M > 0
      BY <1>0
    <3>4. ((y % Msecs) * M) \div Msecs \in 0 .. M - 1
      BY <1>3, <3>3, Units
    <3> QED BY <3>2, <3>4
  <2> HIDE DEF e, f, g, k, h
  <2>4. (S * k + g) \div S = k + h
    BY <1>0, <2>2, DivPlus DEF h
  <2>5. (y * M) \div S = M * e + h
    BY <1>0, <2>1, <2>2, <2>4 DEF k
  <2>6. (M * e + h) \div M = e
    <3> DEFINE z == M * e + h
    <3>1. z = M * e + h /\ z \in Int
      BY <1>0, <2>1, <2>3
    <3> HIDE DEF z
    <3>2. z \div M = e
      BY <1>0, <2>1, <2>3, <3>1, ModUnique
    <3> QED BY <3>2 DEF z
  <2> QED BY <2>5, <2>6
<1>5. Mod16(e) = e
  <2> HIDE DEF e
  <2>1. e % M = e
    BY <1>0, <1>1, ModSmall
  <2> QED BY <2>1 DEF Mod16, M
<1>6. Rtp2U32(RtpTime(NtpTime(x))) = Mod16(Mod32(q)) * M + e
  <2>1. RtpTime(NtpTime(x)) =
          [m_sec |-> Mod32(q), m_frac |-> (r * (M * M)) \div S]
    BY <1>2 DEF RtpTime, Rescale, M, S
  <2>2. r * (M * M) = y * M
    BY <1>0, <1>1 DEF y
  <2> HIDE DEF e
  <2> QED BY <1>4, <1>5, <2>1, <2>2 DEF Rtp2U32, M
<1>7. Ntp2U32(NtpTime(x)) = Mod16(Mod32(q)) * M + e
  <2>1. (r * M) \div S = e
    BY DEF y
  <2> HIDE DEF e
  <2> QED BY <1>2, <1>5, <2>1 DEF Ntp2U32, M, S
<1> HIDE DEF e
<1> DEFINE a == Mod16(Mod32(q)) * M
           b == Mod32(q) * M
           c == q * M
<1>8. Mod32(q) \in Int /\ Mod16(Mod32(q)) \in Int
  <2>1. Mod32(q) \in Int
    BY <1>1, ModTypes DEF Num32
  <2> DEFINE z == Mod32(q)
  <2> HIDE DEF z
  <2>2. z \in Int => Mod16(z) \in Int
    BY ModTypes DEF Num16
  <2> QED BY <2>1, <2>2 DEF z
<1>9. a \in Int /\ b \in Int /\ c \in Int /\ e \in Int
  BY <1>0, <1>1, <1>8
<1>10. Same(a, b) /\ Same(b, c)
  <2> DEFINE z == Mod32(q)
  <2>1. z \in Int /\ Same(z, q) /\ M \in Int
    BY <1>0, <1>1, <1>8, SameMod
  <2> HIDE DEF z
  <2>2. Same(Mod16(z) * M, z * M)
    BY <2>1, SameHigh DEF M
  <2>3. Same(z * M, q * M)
    BY <1>1, <2>1, SameTimes
  <2> QED BY <2>2, <2>3 DEF z
<1> HIDE DEF a, b, c
<1>11. Same(a, c)
  BY <1>10 DEF Same
<1>12. Same(a + e, c + e) /\ a + e \in Int
  <2>1. Same(e, e)
    BY DEF Same
  <2> QED BY <1>9, <1>11, <2>1, SameSum
<1> QED BY <1>1, <1>6, <1>7, <1>12 DEF a, c, S, M

-------------------------------------------------------------------------------
(* Media time.                                                               *)

Begin == CHOOSE t \in Clock : \A u \in Clock : t <= u
MediaTime(t) == Ts(NtpTime(Begin), m_base_unit, NtpTime(t))

\* The server has not run for longer than its seconds can count, 136 years.
Counting == now - Begin < (U32 - 1) * Msecs

\* Everyone counts from the same time, whenever he joined.
TimeInv ==
  /\ Begin \in Clock /\ \A u \in Clock : Begin <= u
  /\ inst.m_first_ntp = NtpTime(Begin) /\ inst.m_base_unit = m_base_unit
  /\ media.ts = MediaTime(media.at) /\ media.at <= now
  /\ \A p \in Player : snd[p] # NotPlaying /\ snd[p].m_ready =>
       snd[p].m_first_ntp = NtpTime(Begin) /\ snd[p].m_base_unit = m_base_unit
  /\ \A p \in Player : sr[p] # NoSr =>
       sr[p].at <= now /\ sr[p].sender.m_rtp_ts = MediaTime(sr[p].at)

\* Media time begins with the first state.
LEMMA TimeInit == Init => TimeInv
<1> SUFFICES ASSUME Init PROVE TimeInv
  OBVIOUS
<1>1. now \in Clock /\ \A u \in Clock : now <= u
  BY DEF Init
<1>2. Clock \subseteq Nat
  BY MediaAssumption
<1>3. Begin \in Clock /\ \A u \in Clock : Begin <= u
  BY <1>1 DEF Begin
<1>4. Begin = now
  BY <1>1, <1>2, <1>3
<1>5. MediaTime(now) = m_base_unit
  <2>1. NtpTime(now) \in ClockTimes
    BY <1>1, <1>2, NtpTimeType
  <2>2. m_base_unit \in Num32
    BY MediaAssumption DEF Num32, U32
  <2> QED BY <1>4, <2>1, <2>2, MinusSame DEF MediaTime
<1>6. now <= now
  BY <1>1
<1> QED BY <1>3, <1>4, <1>5, <1>6 DEF TimeInv, Init, Ntp

\* What is when.
LEMMA TimesType ==
  ASSUME TypeOK
  PROVE  /\ now \in Clock /\ media.at \in Clock
         /\ \A p \in Player : sr[p] # NoSr => sr[p] \in Srs /\ sr[p].at \in Clock
         /\ \A t \in Clock : t \in Nat /\ t \in Int
<1>1. now \in Clock /\ media.at \in Clock
  BY DEF TypeOK
<1>2. ASSUME NEW p \in Player, sr[p] # NoSr PROVE sr[p] \in Srs /\ sr[p].at \in Clock
  <2>1. sr[p] \in Srs
    BY <1>2 DEF TypeOK
  <2> QED BY <2>1 DEF Srs
<1>3. \A t \in Clock : t \in Nat /\ t \in Int
  BY MediaAssumption
<1> QED BY <1>1, <1>2, <1>3

\* A packet and the SRs after it carry the media time of now.
LEMMA TimeRelay ==
  ASSUME IInv, TimeInv, NEW size \in Nat, Relay(size), UNCHANGED now
  PROVE  TimeInv'
<1>1. TypeOK
  BY DEF IInv
<1>2. /\ inst'.m_first_ntp = inst.m_first_ntp /\ inst'.m_base_unit = inst.m_base_unit
      /\ media' = [ts |-> Ts(inst.m_first_ntp, inst.m_base_unit, Ntp), at |-> now]
      /\ \A p \in Player :
           /\ snd[p] = NotPlaying => snd'[p] = NotPlaying /\ sr'[p] = sr[p]
           /\ snd[p] # NotPlaying => \E d : RelayPost(p, size, d)
  BY <1>1, RelayEffect
<1>3. now \in Int /\ now <= now
  BY <1>1, MediaAssumption DEF TypeOK
<1>4. media'.ts = MediaTime(media'.at) /\ media'.at = now
  BY <1>2 DEF TimeInv, MediaTime, Ntp
<1>5. ASSUME NEW p \in Player
      PROVE  /\ snd'[p] # NotPlaying /\ snd'[p].m_ready =>
                  snd'[p].m_first_ntp = NtpTime(Begin) /\ snd'[p].m_base_unit = m_base_unit
             /\ sr'[p] # NoSr =>
                  sr'[p].at <= now /\ sr'[p].sender.m_rtp_ts = MediaTime(sr'[p].at)
  <2>1. CASE snd[p] = NotPlaying
    BY <1>2, <2>1 DEF TimeInv
  <2>2. CASE snd[p] # NotPlaying
    <3>1. PICK d : RelayPost(p, size, d)
      BY <1>2, <2>2
    <3>2. /\ SendRtpPost(snd[p], inst, size, Ntp, d) /\ snd'[p] = d.statis
          /\ d.due \in BOOLEAN
          /\ d.sender.m_rtp_ts = Ts(d.statis.m_first_ntp, d.statis.m_base_unit, Ntp)
      BY <3>1 DEF RelayPost, SendRtpPost
    <3>3. d.statis.m_first_ntp = NtpTime(Begin) /\ d.statis.m_base_unit = m_base_unit
      BY <2>2, <3>2 DEF SendRtpPost, TimeInv
    <3>4. CASE d.due
      <4>1. sr'[p].sender = d.sender /\ sr'[p].at = now
        BY <3>1, <3>4 DEF RelayPost
      <4> QED BY <1>3, <3>2, <3>3, <4>1 DEF MediaTime, Ntp
    <3>5. CASE ~d.due
      <4>1. sr'[p] = sr[p]
        BY <3>1, <3>5 DEF RelayPost
      <4> QED BY <3>2, <3>3, <4>1 DEF TimeInv
    <3> QED BY <3>2, <3>4, <3>5
  <2> QED BY <2>1, <2>2
<1> QED BY <1>2, <1>3, <1>4, <1>5 DEF TimeInv

\* Everyone keeps counting from the same time.
LEMMA TimeNext == IInv /\ TimeInv /\ [Next]_vars => TimeInv'
<1> SUFFICES ASSUME IInv, TimeInv, [Next]_vars PROVE TimeInv'
  OBVIOUS
<1>1. TypeOK /\ SentInv
  BY DEF IInv
<1>2. ASSUME NEW e, NEW size \in Payload, Packet(e, size) PROVE TimeInv'
  <2>1. size \in Nat
    BY MediaAssumption
  <2>2. Relay(size) /\ UNCHANGED now
    BY <1>2 DEF Packet
  <2> QED BY <2>1, <2>2, TimeRelay
<1>3. ASSUME NEW p \in Player, Join(p) PROVE TimeInv'
  <2>1. /\ UNCHANGED <<now, inst, media, sr>>
        /\ snd' = [snd EXCEPT ![p] = SendStatis]
    BY <1>3 DEF Join
  <2>2. ~SendStatis.m_ready
    BY DEF SendStatis
  <2>3. \A q \in Player : snd'[q] # NotPlaying /\ snd'[q].m_ready => snd'[q] = snd[q]
    BY <1>1, <2>1, <2>2 DEF TypeOK
  <2> QED BY <2>1, <2>3 DEF TimeInv
<1>4. ASSUME NEW p \in Player, Leave(p) PROVE TimeInv'
  <2>1. /\ UNCHANGED <<now, inst, media>>
        /\ snd' = [snd EXCEPT ![p] = NotPlaying] /\ sr' = [sr EXCEPT ![p] = NoSr]
    BY <1>4 DEF Leave
  <2>2. /\ \A q \in Player : snd'[q] # NotPlaying => snd'[q] = snd[q]
        /\ \A q \in Player : sr'[q] # NoSr => sr'[q] = sr[q]
    BY <1>1, <2>1 DEF TypeOK
  <2> QED BY <2>1, <2>2 DEF TimeInv
<1>5. ASSUME Tick PROVE TimeInv'
  <2>1. UNCHANGED <<inst, media, sr, snd>> /\ now' \in Clock /\ now' > now
    BY <1>5 DEF Tick
  <2>2. now \in Int /\ now' \in Int /\ media.at \in Int
    BY <1>1, <2>1, TimesType
  <2>3. media.at <= now'
    BY <2>1, <2>2 DEF TimeInv
  <2>4. ASSUME NEW p \in Player, sr[p] # NoSr PROVE sr[p].at <= now'
    <3>1. sr[p].at \in Int
      BY <1>1, <2>4, TimesType
    <3>2. sr[p].at <= now
      BY <2>4 DEF TimeInv
    <3> QED BY <2>1, <2>2, <3>1, <3>2
  <2> QED BY <2>1, <2>3, <2>4 DEF TimeInv
<1>6. ASSUME UNCHANGED <<now, inst, media, sr, snd>> PROVE TimeInv'
  BY <1>6 DEF TimeInv
<1> QED BY <1>2, <1>3, <1>4, <1>5, <1>6 DEF Next, Restart, ArriveSR, vars

\* While the seconds can count, media time is the time since the beginning.
LEMMA MediaTimeIs ==
  ASSUME Counting, RateFits, Begin \in Int, now \in Int, NEW t \in Int, Begin <= t, t <= now
  PROVE  /\ Same(MediaTime(t), ((t - Begin) * m_sample_rate) \div Msecs + m_base_unit)
         /\ MediaTime(t) \in Int
         /\ ((t - Begin) * m_sample_rate) \div Msecs \in Int
<1> DEFINE d == t - Begin
           n == Ntp2Unit(NtpTime(d))
           k == (d * m_sample_rate) \div Msecs
           b == m_base_unit
<1>1. (U32 - 1) * Msecs \in Int
  BY U32Type, ClockAssumption
<1>2. d \in Int /\ d < (U32 - 1) * Msecs
  BY <1>1 DEF Counting
<1>3. Minus(NtpTime(t), NtpTime(Begin)) = NtpTime(d)
  BY <1>2, MinusNtp
<1>4. b \in Int
  BY MediaAssumption, U32Type DEF U32
<1> HIDE DEF d
<1>5. Same(n, k)
  BY <1>2, UnitOf
<1>6. n \in Int
  BY <1>2, NtpTimeType, UnitType DEF Num32
<1>7. k \in Int
  BY <1>2, ClockAssumption, Units
<1>8. MediaTime(t) = Mod32(n + b)
  BY <1>3 DEF MediaTime, Ts
<1> HIDE DEF n, k, b
<1>9. Same(n + b, k + b) /\ n + b \in Int
  <2>1. Same(b, b)
    BY DEF Same
  <2> QED BY <1>4, <1>5, <1>6, <1>7, <2>1, SameSum
<1> DEFINE u == n + b
<1>10. u \in Int
  BY <1>9
<1> HIDE DEF u
<1>11. Same(Mod32(u), u) /\ Mod32(u) \in Int
  BY <1>10, SameMod, ModTypes DEF Num32
<1> QED BY <1>7, <1>8, <1>9, <1>11 DEF Same, u, k, b, d

\* An SR ties media time to the clock for all packets that follow, whenever the
\* player joined, as long as the server's seconds can count and the sample rate
\* fits.
THEOREM TimelineIsKept == Spec => [](Counting /\ RateFits => SameTimeline)
<1>1. IInv /\ TimeInv => (Counting /\ RateFits => SameTimeline)
  <2> SUFFICES ASSUME IInv, TimeInv, Counting, RateFits, NEW p \in Player, sr[p] # NoSr
               PROVE  \E rounding \in 0 .. 1 :
                        Mod32(media.ts - sr[p].sender.m_rtp_ts)
                          = Mod32(((media.at - sr[p].at) * m_sample_rate) \div Msecs + rounding)
    BY DEF SameTimeline
  <2> DEFINE n == m_sample_rate
             b == m_base_unit
  <2>1. PICK i \in Int, j \in Int, z \in Int :
          /\ i = media.at /\ j = sr[p].at /\ z = Begin
          /\ z <= i /\ i <= now /\ z <= j /\ j <= now
    <3>1. TypeOK /\ Begin \in Clock
      BY DEF IInv, TimeInv
    <3>2. media.at \in Int /\ sr[p].at \in Int /\ Begin \in Int
          /\ media.at \in Clock /\ sr[p].at \in Clock
      BY <3>1, TimesType
    <3>3. /\ Begin <= media.at /\ media.at <= now
          /\ Begin <= sr[p].at /\ sr[p].at <= now
      BY <3>2 DEF TimeInv
    <3> QED BY <3>2, <3>3
  <2>2. now \in Int /\ n \in Int /\ Msecs \in Nat \ {0} /\ b \in Int
    BY MediaAssumption, ClockAssumption, U32Type DEF IInv, TypeOK, U32
  <2>3. media.ts = MediaTime(i) /\ sr[p].sender.m_rtp_ts = MediaTime(j)
    BY <2>1 DEF TimeInv
  <2> DEFINE x == (i - z) * n
             y == (j - z) * n
             k == x \div Msecs
             l == y \div Msecs
             m == MediaTime(i)
             o == MediaTime(j)
  <2>4. Same(m, k + b) /\ m \in Int /\ k \in Int
    BY <2>1, <2>2, MediaTimeIs
  <2>5. Same(o, l + b) /\ o \in Int /\ l \in Int
    BY <2>1, <2>2, MediaTimeIs
  <2>6. x \in Int /\ y \in Int /\ x - y = (i - j) * n
    BY <2>1, <2>2
  <2> HIDE DEF x, y
  <2>7. PICK rounding \in 0 .. 1 : k - l = (x - y) \div Msecs + rounding
    BY <2>2, <2>6, DivDifference
  <2> HIDE DEF m, o, k, l, b
  <2>8. Same(m - o, k - l)
    <3> DEFINE u == k + b
               v == l + b
    <3>1. u \in Int /\ v \in Int /\ Same(m, u) /\ Same(o, v) /\ u - v = k - l
      BY <2>2, <2>4, <2>5
    <3> HIDE DEF u, v
    <3>2. Same(m - o, u - v)
      BY <2>4, <2>5, <3>1, SameDifference
    <3> QED BY <3>1, <3>2
  <2> QED BY <2>1, <2>3, <2>6, <2>7, <2>8 DEF Same, m, o
<1> QED BY <1>1, TimeInit, TimeNext, Invariance, PTL DEF Spec

-------------------------------------------------------------------------------
(* The round trip.                                                           *)

\* The statistics hold the times of the last SR, a report those of the last one
\* that had arrived when it was made.
TripInv ==
  /\ statis.m_has_sr <=> sender.sr # Never
  /\ sender.sr # Never =>
       /\ sender.sr.sent \in Clock /\ sender.sr.arrived \in Clock
       /\ sender.sr.arrived <= now
       /\ statis.m_last_sr_rtp = RtpTime(NtpTime(sender.sr.sent + Skew))
       /\ statis.m_last_rcv_sr_ntp = NtpTime(sender.sr.arrived)
  /\ report # NoReport =>
       /\ sender.then.at \in Clock /\ sender.then.at <= now
       /\ sender.then.sr = Never => report.m_ntp_lsr = 0 /\ report.m_delay_lsr = 0
       /\ sender.then.sr # Never =>
            /\ sender.then.sr.sent \in Clock /\ sender.then.sr.arrived \in Clock
            /\ sender.then.sr.arrived <= sender.then.at
            /\ report.m_ntp_lsr = Rtp2U32(RtpTime(NtpTime(sender.then.sr.sent + Skew)))
            /\ report.m_delay_lsr =
                 Ntp2U32(Minus(NtpTime(sender.then.at), NtpTime(sender.then.sr.arrived)))

\* A report takes the times of the last SR with it.
LEMMA TripPacket ==
  ASSUME IInv, TripInv, NEW e \in Int, NEW size \in Payload, Packet(e, size)
  PROVE  TripInv'
<1> DEFINE r == Received(statis, e, size)
           x == Seen(sender, e)
           due == ChkRecv(r, Ntp)
           o == Owed(x.high, x.got)
           t == [at |-> now, sr |-> sender.sr]
<1>1. size \in Nat
  BY MediaAssumption
<1>2. TypeOK /\ NumbersInv /\ BoundsInv
  BY DEF IInv
<1>3. /\ statis.m_has_rtp \/ e = sender.first
      /\ sender.high - MAX_MISORDER < e /\ e < sender.high + MAX_DROPOUT
      /\ Receive(e, size) /\ now' = now
  BY DEF Packet
<1>4. /\ r \in RecvStats /\ x \in Senders /\ Ordered(x)
      /\ due => /\ statis' = Reported(r, Ntp) /\ report' = Report(r, Ntp)
                /\ sender' = Told(x, o, t)
      /\ ~due => statis' = r /\ report' = report /\ sender' = x
  BY <1>1, <1>2, <1>3, ReceiveEffect
<1>5. sender \in Senders /\ statis \in RecvStats /\ Ordered(sender)
      /\ now \in Clock /\ now \in Int
  BY <1>2, TimesType DEF TypeOK, BoundsInv
<1>6. /\ x.first = sender.first /\ x.reported = sender.reported
      /\ x.gotThen = sender.gotThen /\ x.sr = sender.sr /\ x.then = sender.then
  BY <1>3, <1>5, SeenEffect
<1>7. /\ r.m_has_sr = statis.m_has_sr /\ r.m_last_sr_rtp = statis.m_last_sr_rtp
      /\ r.m_last_rcv_sr_ntp = statis.m_last_rcv_sr_ntp
  BY <1>1, <1>5, ReceivedEffect
<1> HIDE DEF r, x, due
<1>8. CASE due
  <2>1. o \in Owes /\ t \in [at : Clock \cup {-1}, sr : SrTimes]
    BY <1>4, <1>5, <1>6, OwedType DEF Senders
  <2>2. t.at = now /\ t.sr = sender.sr
    OBVIOUS
  <2> HIDE DEF o, t
  <2>3. sender'.sr = sender.sr /\ sender'.then = t
    BY <1>4, <1>6, <1>8, <2>1, ReportedEffect
  <2>4. sender'.then.at = now /\ sender'.then.sr = sender.sr
    BY <2>2, <2>3
  <2>5. /\ statis'.m_has_sr = statis.m_has_sr
        /\ statis'.m_last_sr_rtp = statis.m_last_sr_rtp
        /\ statis'.m_last_rcv_sr_ntp = statis.m_last_rcv_sr_ntp
    <3>1. /\ Reported(r, Ntp).m_has_sr = r.m_has_sr
          /\ Reported(r, Ntp).m_last_sr_rtp = r.m_last_sr_rtp
          /\ Reported(r, Ntp).m_last_rcv_sr_ntp = r.m_last_rcv_sr_ntp
      BY <1>4 DEF Reported, RecvStats
    <3> QED BY <1>4, <1>7, <1>8, <3>1
  <2>6. /\ report'.m_ntp_lsr =
             IF statis.m_has_sr THEN Rtp2U32(statis.m_last_sr_rtp) ELSE 0
        /\ report'.m_delay_lsr =
             IF statis.m_has_sr THEN Ntp2U32(Minus(NtpTime(now), statis.m_last_rcv_sr_ntp))
                                ELSE 0
    <3>1. /\ Report(r, Ntp).m_ntp_lsr = IF r.m_has_sr THEN Rtp2U32(r.m_last_sr_rtp) ELSE 0
          /\ Report(r, Ntp).m_delay_lsr =
               IF r.m_has_sr THEN Ntp2U32(Minus(Ntp, r.m_last_rcv_sr_ntp)) ELSE 0
      BY DEF Report
    <3> QED BY <1>4, <1>7, <1>8, <3>1 DEF Ntp
  <2>7. now <= now
    BY <1>5
  <2>8. CASE sender.sr = Never
    <3>1. ~statis.m_has_sr
      BY <2>8 DEF TripInv
    <3> QED BY <1>3, <1>5, <2>3, <2>4, <2>5, <2>6, <2>7, <2>8, <3>1 DEF TripInv
  <2>9. CASE sender.sr # Never
    <3>1. /\ statis.m_has_sr
          /\ sender.sr.sent \in Clock /\ sender.sr.arrived \in Clock
          /\ sender.sr.arrived <= now
          /\ statis.m_last_sr_rtp = RtpTime(NtpTime(sender.sr.sent + Skew))
          /\ statis.m_last_rcv_sr_ntp = NtpTime(sender.sr.arrived)
      BY <2>9 DEF TripInv
    <3> QED BY <1>3, <1>5, <2>3, <2>4, <2>5, <2>6, <2>7, <2>9, <3>1 DEF TripInv
  <2> QED BY <2>8, <2>9
<1>9. CASE ~due
  <2>1. /\ report' = report /\ sender'.sr = sender.sr /\ sender'.then = sender.then
        /\ statis'.m_has_sr = statis.m_has_sr
        /\ statis'.m_last_sr_rtp = statis.m_last_sr_rtp
        /\ statis'.m_last_rcv_sr_ntp = statis.m_last_rcv_sr_ntp
    BY <1>4, <1>6, <1>7, <1>9
  <2> QED BY <1>3, <2>1 DEF TripInv
<1> QED BY <1>8, <1>9

\* The times of SRs and reports are kept.
LEMMA TripNext == IInv /\ TripInv /\ [Next]_vars => TripInv'
<1> SUFFICES ASSUME IInv, TripInv, [Next]_vars PROVE TripInv'
  OBVIOUS
<1>1. TypeOK /\ sender \in Senders /\ statis \in RecvStats
  BY DEF IInv, TypeOK
<1>2. ASSUME NEW e \in sender.high - MAX_MISORDER .. sender.high + MAX_DROPOUT,
             NEW size \in Payload, Packet(e, size)
      PROVE  TripInv'
  <2>1. sender.high - MAX_MISORDER \in Int /\ sender.high + MAX_DROPOUT \in Int
    BY <1>1, StatAssumption DEF Senders
  <2>2. e \in Int
    BY <2>1
  <2> QED BY <1>2, <2>2, TripPacket
<1>3. ASSUME NEW seq, NEW next \in Starts, Restart(seq, next) PROVE TripInv'
  <2>1. statis' = RecvStatis /\ sender' = Sender(next) /\ report' = NoReport
    BY <1>3 DEF Restart
  <2>2. sender'.sr = Never /\ ~statis'.m_has_sr
    BY <2>1 DEF Sender, RecvStatis
  <2> QED BY <2>1, <2>2 DEF TripInv
<1>4. ASSUME NEW t \in Clock, ArriveSR(t) PROVE TripInv'
  <2> DEFINE rtp == RtpTime(NtpTime(t + Skew))
             times == [sent |-> t, arrived |-> now]
  <2>1. /\ statis' = ProcSR(statis, rtp, Ntp) /\ sender' = [sender EXCEPT !.sr = times]
        /\ report' = report /\ now' = now
    BY <1>4 DEF ArriveSR
  <2>2. now \in Clock /\ now \in Int /\ t \in Nat /\ t + Skew \in Int
    <3>1. now \in Clock /\ now \in Int /\ t \in Nat
      BY <1>1, TimesType
    <3>2. Skew \in Int
      BY MediaAssumption
    <3> QED BY <3>1, <3>2
  <2>3. rtp \in [m_sec : Num32, m_frac : Int] /\ Ntp \in ClockTimes
    <3>1. NtpTime(now) \in ClockTimes /\ NtpTime(t + Skew) \in ClockTimes
      BY <2>2, NtpTimeType
    <3> QED BY <3>1, RtpTimeType DEF Ntp
  <2>4. times # Never /\ times.sent = t /\ times.arrived = now
    <3>1. times.sent = t /\ Never.sent = -1 /\ t # -1
      BY <2>2 DEF Never
    <3> QED BY <3>1
  <2> HIDE DEF times
  <2>5. sender'.sr = times /\ sender'.then = sender.then
    BY <1>1, <2>1 DEF Senders
  <2>6. statis'.m_has_sr /\ statis'.m_last_sr_rtp = rtp /\ statis'.m_last_rcv_sr_ntp = Ntp
    <3> HIDE DEF rtp
    <3> QED BY <1>1, <2>1, <2>3, ArriveEffect
  <2>7. now <= now
    BY <2>2
  <2> QED BY <2>1, <2>2, <2>4, <2>5, <2>6, <2>7 DEF TripInv, Ntp
<1>5. ASSUME Tick PROVE TripInv'
  <2>1. UNCHANGED <<statis, report, sender>> /\ now' \in Clock /\ now' > now
    BY <1>5 DEF Tick
  <2>2. now \in Int /\ now' \in Int
    BY <1>1, <2>1, TimesType
  <2>3. \A t \in Clock : t <= now => t <= now'
    BY <1>1, <2>1, <2>2, TimesType
  <2> QED BY <2>1, <2>3 DEF TripInv
<1>6. ASSUME UNCHANGED <<now, statis, report, sender>> PROVE TripInv'
  BY <1>6 DEF TripInv
<1> QED BY <1>2, <1>3, <1>4, <1>5, <1>6 DEF Next, Join, Leave, vars

\* As long as the server's seconds can count, the publisher computes from the two
\* times of a report how long his last SR was under way, up to three roundings.
THEOREM RoundTripIsTold == Spec => [](Counting => RoundTrip)
<1>1. Init => TripInv
  BY DEF Init, TripInv, Sender, RecvStatis
<1>2. IInv /\ TimeInv /\ TripInv => (Counting => RoundTrip)
  <2> SUFFICES ASSUME IInv, TimeInv, TripInv, Counting, report # NoReport
               PROVE  RoundTrip
    BY DEF RoundTrip
  <2> DEFINE last == sender.then.sr
             at == sender.then.at
             M == RTP_SEQ_MOD
  <2>1. CASE last = Never
    BY <2>1 DEF TripInv, RoundTrip
  <2>2. CASE last # Never
    <3>1. TypeOK /\ at \in Clock /\ last.sent \in Clock /\ last.arrived \in Clock
          /\ Begin \in Clock
      BY <2>2 DEF IInv, TimeInv, TripInv
    <3>2. PICK a \in Int, b \in Int, c \in Int, z \in Int, n \in Int :
            /\ a = at /\ b = last.sent /\ c = last.arrived /\ z = Begin /\ n = now
            /\ c <= a /\ a <= n /\ z <= c
      BY <2>2, <3>1, TimesType DEF TimeInv, TripInv
    <3>3. M \in Nat \ {0} /\ Msecs \in Nat \ {0} /\ Skew \in Int
      BY ClockAssumption, MediaAssumption
    <3>4. a - c < (U32 - 1) * Msecs
      <4>1. n - z < (U32 - 1) * Msecs
        BY <3>2 DEF Counting
      <4>2. (U32 - 1) * Msecs \in Int
        BY <3>3, U32Type
      <4> QED BY <3>2, <4>1, <4>2
    <3>5. Minus(NtpTime(a), NtpTime(c)) = NtpTime(a - c)
      BY <3>2, <3>4, MinusNtp
    <3> DEFINE x == a + Skew
               y == b + Skew
               d == a - c
               arrival == Rtp2U32(RtpTime(NtpTime(x)))
               lsr == Rtp2U32(RtpTime(NtpTime(y)))
               delay == Ntp2U32(NtpTime(d))
    <3>6. report.m_ntp_lsr = lsr /\ report.m_delay_lsr = delay
      BY <2>2, <3>2, <3>5 DEF TripInv
    <3>7. x \in Int /\ y \in Int /\ d \in Int /\ x - y - d = c - b
      BY <3>2, <3>3
    <3> HIDE DEF x, y, d
    <3> DEFINE xm == x * M
               ym == y * M
               dm == d * M
               wm == (c - b) * M
               xq == xm \div Msecs
               yq == ym \div Msecs
               dq == dm \div Msecs
               wq == wm \div Msecs
               vq == (xm - ym) \div Msecs
    <3>8. /\ xm \in Int /\ ym \in Int /\ dm \in Int /\ wm \in Int
          /\ xm - ym - dm = wm
      <4>1. (x - y - d) * M = x * M - y * M - d * M
        BY <3>3, <3>7
      <4> QED BY <3>2, <3>3, <3>7, <4>1
    <3>9. /\ Same(arrival, xq) /\ Same(lsr, yq) /\ Same(delay, dq)
          /\ arrival \in Int /\ lsr \in Int /\ delay \in Int
      BY <3>7, Middle
    <3> HIDE DEF xm, ym, dm, wm, arrival, lsr, delay
    <3>10. xq \in Int /\ yq \in Int /\ dq \in Int /\ wq \in Int /\ vq \in Int
      <4> DEFINE v == xm - ym
      <4>1. v \in Int
        BY <3>8
      <4> HIDE DEF v
      <4>2. v \div Msecs \in Int
        BY <3>3, <4>1, DivMod
      <4> QED BY <3>3, <3>8, <4>2, DivMod DEF v
    <3>11. PICK r1 \in 0 .. 1 : xq - yq = vq + r1
      BY <3>3, <3>8, DivDifference
    <3>12. PICK r2 \in 0 .. 1 : vq - dq = wq + r2
      <4> DEFINE v == xm - ym
      <4>1. v \in Int /\ v - dm = wm
        BY <3>8
      <4> HIDE DEF v
      <4>2. PICK r \in 0 .. 1 : v \div Msecs - dm \div Msecs = (v - dm) \div Msecs + r
        BY <3>3, <3>8, <4>1, DivDifference
      <4> QED BY <4>1, <4>2 DEF v
    <3> HIDE DEF xq, yq, dq, wq, vq
    <3>13. Same(arrival - lsr - delay, xq - yq - dq)
      <4> DEFINE i == arrival - lsr
                 j == xq - yq
      <4>1. i \in Int /\ j \in Int /\ Same(i, j)
        BY <3>9, <3>10, SameDifference
      <4> HIDE DEF i, j
      <4>2. Same(i - delay, j - dq)
        BY <3>9, <3>10, <4>1, SameDifference
      <4> QED BY <4>2 DEF i, j
    <3>14. xq - yq - dq = wq + (r1 + r2) /\ r1 + r2 \in 0 .. 2
      BY <3>10, <3>11, <3>12
    <3>15. \E rounding \in 0 .. 2 :
             Mod32(arrival - lsr - delay) = Mod32(wq + rounding)
      BY <3>13, <3>14 DEF Same
    <3>16. /\ Rtp2U32(RtpTime(NtpTime(sender.then.at + Skew))) = arrival
           /\ ((last.arrived - last.sent) * RTP_SEQ_MOD) \div Msecs = wq
      BY <3>2 DEF arrival, x, wq, wm
    <3> QED BY <2>2, <3>6, <3>15, <3>16 DEF RoundTrip
  <2> QED BY <2>1, <2>2
<1> QED BY <1>1, <1>2, TripNext, TimeInit, TimeNext, Invariance, PTL DEF Spec
===============================================================================
