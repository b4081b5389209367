SPECIFICATION FocusSpec
CONSTANTS
  s1 = s1
  s2 = s2
  k1 = k1
  k2 = k2
  h1 = h1
  h2 = h2
  a1 = a1
  a2 = a2
  Domain = Domain
  NoHost = NoHost
  NoConnection = NoConnection
  Senders <- MCSenders
  Zones <- MCZones
  AddressesOf <- MCAddressesOf
  MaxTargets = 2
  CacheTtl = 1
  Connections <- MCConnections
  MaxConnections = 1
  Destination <- MCDestination
  Streams <- MCStreams
  Declared <- MCDeclared
  MaxHeader = 6
  MaxMessage = 7
  MaxVersion = 3
  MaxRestarts = 2
  EarlyRotation = FALSE
INVARIANTS
  SendsSafe
  FramingSafe
PROPERTIES
  SendSettles
  CertificateServed
CHECK_DEADLOCK FALSE
