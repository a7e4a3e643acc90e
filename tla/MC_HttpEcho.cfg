CONSTANTS
  loader = loader
  peer = peer
  Conn = {loader, peer}
  Cli = {loader}
  Traffic <- MCTraffic
  Requests <- MCRequests
  CliRequest <- MCCliRequest
  m_first_send_cnt = 2
  MaxRequests = 3
  MaxCaches = 10
SPECIFICATION Spec
INVARIANTS UsersCounted OneReplyEach EchoTrue ClosesWhenDone LoadKept
PROPERTIES Answered
\* A connection may end for good.
CHECK_DEADLOCK FALSE
