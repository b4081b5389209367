SPECIFICATION MCSpec
CONSTANTS
  i1 = i1
  b1 = b1
  i2 = i2
  Keys <- MCKeys
  Invites <- MCInvites
  Reliable <- MCReliable
  T1 = 1
  T2 = 2
  T4 = 2
  TimerB = 4
  TimerF = 4
  TimerC = 5
  TimerD = 3
  Linger = 3
  Requests <- MCRequests
  Limit <- MCLimit
  Window = 2
  MaxInflight = 2
  Recovery = 2
INVARIANTS
  ClientSafe
PROPERTIES
  GateSafe
  TransactionsEnd
CHECK_DEADLOCK FALSE
