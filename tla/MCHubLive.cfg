CONSTANTS
  u1 = u1
  u2 = u2
  u3 = u3
  guest = guest
  op = op
  c1 = c1
  c2 = c2
  s1 = s1
  s2 = s2
  User <- TwoUsers
  Nick <- TwoNicks
  Cid <- OneCid
  Share <- OneShare
  NoUser = NoUser
  Registered <- OneAccount
  Protected <- OneAccount
  MaxUsers = 0
  RegisteredOnly = FALSE
  ReloadStatus <- AnyStatus
  Sid <- OneSid
  NoSid = NoSid
  Request <- OnlyShutdown
  Choke <- NoChoke
SPECIFICATION FairSpec
PROPERTIES
  ConnectionsEnd
  DepartureSeen
  ShutdownEnds
