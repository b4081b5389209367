SPECIFICATION MCSpec
CONSTANTS
  n1 = n1
  n2 = n2
  r1 = r1
  r2 = r2
  c1 = c1
  c2 = c2
  c3 = c3
  Nodes <- MCNodes
  NoNode = NoNode
  MaxUpdates = 3
  MaxEpoch = 4
  MaxQueued = 1
  NoRegistrar = NoRegistrar
  NoContact = NoContact
  Registrars <- MCRegistrars
  Contacts <- MCContacts
  Order <- MCOrder
  Registers <- MCRegisters
  MaxBindings = 2
  Lifetime = 1
  MaxRegisters = 3
SYMMETRY Symmetry
INVARIANTS
  EpochsDistinct
  FencedStops
  RouteCurrent
PROPERTIES
  RegainedByNewEpoch
  LaterRegistrationStays
CHECK_DEADLOCK FALSE
