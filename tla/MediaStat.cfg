CONSTANTS
  RTP_SEQ_MOD = 8
  Msecs = 3
  m_sample_rate = 5
  MAX_DROPOUT = 4
  MAX_MISORDER = 3
  DEF_RTCP_RR_INTERVAL_SEC = 1
  DEF_RTCP_SR_INTERVAL_SEC = 2
  RTCP_TX_RATIO_NUM = 5
  RTCP_TX_RATIO_DEN = 1000
  DEF_RTCP_MIN_SIZE = 28
  Player = {p}
  Payload = {2800}
  Starts = {0, 7}
  Clock = {188, 195, 202}
  Skew = 5
  m_base_unit = 60
  MaxPackets = 5
SPECIFICATION Spec
INVARIANTS NumbersKept ReportTrue RoundTrip SrTrue SameTimeline ReportsEarned
\* The packets and the clock are bounded.
CHECK_DEADLOCK FALSE
