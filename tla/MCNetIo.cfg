CONSTANTS
  c1 = c1
  c2 = c2
  c3 = c3
  Cons = {c1, c2, c3}
  Fds = {1, 2}
  NoCon = NoCon
  Listener = Listener
  MaxRoom = 1
  ChatLen = 2
  MaxSend = 2
  SoftSend = 1
  MaxSockets = 2
  MaxQueue = 2
  MaxChat = 1
  MaxTls = 1
SYMMETRY Symmetric
SPECIFICATION Spec
INVARIANTS Armed CleanupFits 
PROPERTIES  FreshProbeOnly
CHECK_DEADLOCK FALSE
