SPECIFICATION Spec
CONSTANTS
  Number <- const_Number
  Mixed <- const_Mixed
  INT_MAX = 1048575
  Fits <- const_Fits
  Line <- const_Line
  MAX_SDP_MEDIA_CNT = 3
  MAX_LINES = 4
INVARIANTS BlocksIndependent DescribedAsAnnounced
CHECK_DEADLOCK FALSE
