SPECIFICATION Spec
CONSTANTS
  Nodes = {n1, n2}
  NoNode = NoNode
  MaxUpdates = 3
  MaxEpoch = 4
  MaxQueued = 1
PROPERTY StaleOwnerFenced
CHECK_DEADLOCK FALSE
