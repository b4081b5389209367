SPECIFICATION MCSpec
CONSTANTS
  Attempts = 2
  QueryAttempts = 2
  Settings <- MCSettings
  Offers <- MCOffers
  Event = 101
  NoEvent = NoEvent
  Renegotiates = FALSE
  MaxRefreshes = 1
  MaxRefers = 2
  MaxFailovers = 0
  Overlap = FALSE
  MaxChunks = 3
  SessionTimer = FALSE
  NForks = 2
  MaxRSeq = 2
  Overtaking = FALSE
INVARIANTS
  MediaSafe
  ResultToReferrer
  AiSafe
  PracksSafe

  
CHECK_DEADLOCK FALSE
