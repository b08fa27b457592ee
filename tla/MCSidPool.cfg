CONSTANTS
  u1 = u1
  u2 = u2
  u3 = u3
  u4 = u4
  User <- MCUser
  NoUser = NoUser
  Pool = Pool
  MaxPool = 7
  HalfLoad = TRUE
SPECIFICATION FairSpec
INVARIANTS
  PoolSound
PROPERTIES
  AllocEnds
