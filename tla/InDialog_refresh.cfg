SPECIFICATION BoundedSpec
CONSTANTS
  Last = 2
  Kinds = {"reinvite", "offer", "target"}
  Backends = {"internal", "rtpengine"}
  MaxRepeats = 1
  MaxRelays = 1
  MaxRings = 1
INVARIANTS
  SessionsAgree
  AnsweredOnce
  ExclusiveExchange
PROPERTIES
  AcceptedInOrder
  ExchangeEnds
CHECK_DEADLOCK FALSE
