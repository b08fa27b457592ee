CONSTANTS
  Jobs = {b1, b2}
  Answers <- MCAnswers
  Setups <- MCSetups
  MaxOut = 2
  MaxClients = 2
SPECIFICATION Spec
INVARIANTS CallbackSafe WriteArmed
PROPERTIES ConnectEnds DestroyEnds
CHECK_DEADLOCK FALSE
