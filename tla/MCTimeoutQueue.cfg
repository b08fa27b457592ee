CONSTANTS
  t1 = t1
  t2 = t2
  t3 = t3
  Timer <- MCTimer
  Null = Null
  Lock = Lock
  Max = 3
  MaxTime = 5
SYMMETRY Symmetry
SPECIFICATION Spec
INVARIANTS
  TimersKept
  NoOversleep
PROPERTIES
  ImplementsWheel
  FiresOnTime
