CONSTANTS
  e1 = e1
  e2 = e2
  e3 = e3
  e4 = e4
  Event <- MCEvent
  MaxPending = 4
SPECIFICATION FairSpec
INVARIANTS
  QueueInv
PROPERTIES
  ImplementsFifo
  EventuallyDelivered
