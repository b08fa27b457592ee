CONSTANTS
  u1 = u1
  u2 = u2
  u3 = u3
  guest = guest
  op = op
  c1 = c1
  c2 = c2
  s1 = s1
  s2 = s2
  User <- TwoUsers
  Nick <- TwoNicks
  Cid <- TwoCids
  Share <- Shares
  NoUser = NoUser
  Registered <- OneAccount
  Protected <- OneAccount
  MaxUsers = 2
  RegisteredOnly = FALSE
  ReloadStatus <- AnyStatus
  Sid <- OneSid
  NoSid = NoSid
  Request <- AnyRequest
  Choke <- AnyChoke
SYMMETRY Symmetry
SPECIFICATION Spec
INVARIANT
  CleanupNotifies
