CONSTANTS
  WordBits = 16
  Words = 2
  Recycles = FALSE
  Path = {a, b, empty}
  NoPath = empty
  MaxMedia = 2
  Usable = {0, 1, 2, 3, 4, 5, 6, 7, 8, 9, 10, 11, 12, 13, 14, 15, 16, 17, 18, 19, 20, 21, 22, 23}
SPECIFICATION PortsSpec
INVARIANTS PairsDisjoint SocketsOwned
PROPERTIES AnnounceReturns
