SPECIFICATION Spec
CONSTANTS
  i1 = i1
  i2 = i2
  b1 = b1
  Keys <- MCInvites
  Invites <- MCInvites
  Reliable <- MCNoKeys
  SameCall <- MCPair
  T1 = 1
  T2 = 2
  T4 = 1
  TimerH = 2
  Shedding = TRUE
SYMMETRY Symmetry
INVARIANTS
  ServedOnce
PROPERTIES
  AckPrecise
CHECK_DEADLOCK FALSE
