SPECIFICATION Spec
CONSTANTS
  c1 = c1
  c2 = c2
  t1 = t1
  t2 = t2
  NoFork = NoFork
  Calls <- MCCalls
  Forks <- MCOneFork
  MaxCalls = 2
  Provisionals <- MCPlain
  MaxProvisional = 1
  MaxQueue = 2
  ReliablePeer = FALSE
  SessionTimers = FALSE
INVARIANT
  ActiveCallsExact
CHECK_DEADLOCK FALSE
