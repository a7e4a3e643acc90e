CONSTANTS
  f1 = f1
  f2 = f2
  a1 = a1
  a2 = a2
  FF = {f1, f2}
  Addr = {a1, a2}
  Ssrc = {0, 1, 2}
  SeqMod = 2
  NoFF = NoFF
  Own = Own
  NoSeq = NoSeq
  NullAddr = NullAddr
SYMMETRY Symmetry
SPECIFICATION Spec
INVARIANTS TypeOK RegistrySound FoundUnlessShared ListsSound HolderUsesIt ConflictOnlyAfterBye PlayersUpToDate
PROPERTIES RoleSticks MediaIsVouchedFor
CHECK_DEADLOCK FALSE
