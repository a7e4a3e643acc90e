CONSTANTS
  MAX_ITEM_SIZE = 2
  MaxPackets = 2
  Pads = {0, 4}
  Bad = Bad
  Ssrc <- Server
  Packets <- MCPackets
  CNames <- MCCNames
  LostCounts <- MCLost
  MediaPackets <- MCMedia
  MaxHops = 2
SPECIFICATION Spec
INVARIANTS SdesReadAsWritten
\* A datagram is read once.
CHECK_DEADLOCK FALSE
