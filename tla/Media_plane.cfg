SPECIFICATION MCSpec
CONSTANTS
  c1 = c1
  c2 = c2
  t1 = t1
  t2 = t2
  NoFork = NoFork
  Calls <- MCCalls
  Forks <- MCOneFork
  MaxCalls = 1
  Provisionals <- MCNone
  MaxProvisional = 0
  MaxQueue = 1
  ReliablePeer = TRUE
  SessionTimers = FALSE
  m1 = m1
  m2 = m2
  m3 = m3
  m4 = m4
  NoCaller = NoCaller
  NoRoom = NoRoom
  Callers <- MCCallers
  Rooms = {"bridge"}
  PortCount = 3
  SeqMod = 16
  TsMod = 32
  Lead = 2
  MaxLate = 1
  Digits = {1}
  MaxPackets = 4
  MaxPresses = 2
  MaxFlight = 2
SYMMETRY Symmetry
INVARIANTS
  NeverOvercounted
  RelaySafe
PROPERTIES
  SessionsSafe
CHECK_DEADLOCK FALSE
