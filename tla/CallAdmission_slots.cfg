SPECIFICATION MCSpec
CONSTANTS
  t1 = t1
  t2 = t2
  NoTrunk = NoTrunk
  Requests <- MCRequests
  Limit <- MCRates
  Window = 1
  MaxInflight = 2
  Recovery = 1
  Trunks <- MCTrunks
  Members <- MCMembers
  Rank <- MCRank
  RoundRobin = TRUE
  MaxCalls <- MCOneEach
  GlobalLimit = 2
  SessionCap = 1
  FailureThreshold = 1
  Probed <- MCProbed
  ProbeFailures = 1
  ProbeRecovery = 2
  Names <- MCNames
  NoName = 0
  Normal <- MCNormal
  Conditional <- MCDiverted
  MaxHops = 2
  MaxRedirects = 2
  n1 = n1
  n2 = n2
  Nodes <- MCNodes
  NoNode = NoNode
  Interval = 3
  FinalDelay = 2
  MaxInvites = 2
  MaxCSeq = 2
  Patient = TRUE
  Balanced = FALSE
  Contacts <- MCContacts
  Proxies <- MCProxies
  Records <- MCRecords
  Paths <- MCPaths
  Targets <- MCTargets
  Hops = {"trunk"}
  NoHost = "nobody"
  Hidden = {"private"}
  Caller = "source"
  MaxRequests = 3
  RingsAgain = FALSE
INVARIANTS
  ForwardingSafe
  SlotsSafe
  RoutesSafe
PROPERTIES
  TimerSafe
  Recovers
CHECK_DEADLOCK FALSE
