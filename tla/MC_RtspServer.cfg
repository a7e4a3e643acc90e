CONSTANTS
  s1 = s1
  s2 = s2
  cam = cam
  sub = sub
  CAM = CAM
  Sid = {s1, s2}
  MAX_STREAMS_CNT = 3
  FF <- MCFF
  Path <- MCPath
  MediaList <- MCMediaList
  Lower <- MCLower
  Addr = {cam}
  Ssrc = {0, 1}
  SeqMod = 1
  NoFF = NoFF
  Own = Own
  NullAddr = NullAddr
  NoInst = NoInst
  NoSeq = NoSeq
SYMMETRY Symmetry
SPECIFICATION MCSpec
INVARIANTS StreamsReachable OnHomeOnly AddressableAsSetUp OncePerInstance
PROPERTIES GroupsStay InstancesImplemented
CHECK_DEADLOCK FALSE
