CONSTANTS
  MAX_BODY_SIZE = 2
  MAX_LINE_CNT = 4
  MAX_HEAD_SIZE = 13
  MAX_CHUNK_HD_LEN = 4
  MAX_CONTENT_SIZE = 8
  INT_MAX = 15
  Plans <- MCPlans
SPECIFICATION Spec
INVARIANTS BuffersKept Prompt
PROPERTIES NeverBack ImplementsFrames
\* A peer may stop sending, and a connection is given up after an error.
CHECK_DEADLOCK FALSE
