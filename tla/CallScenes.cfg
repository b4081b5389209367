SPECIFICATION SceneSpec
CONSTANTS
  c1 = c1
  c2 = c2
  t1 = t1
  t2 = t2
  NoFork = NoFork
  Calls <- MCOneCall
  Forks <- MCForks
  MaxCalls = 1
  Provisionals <- MCAllProvisionals
  MaxProvisional = 1
  MaxQueue = 2
  ReliablePeer = FALSE
  SessionTimers = TRUE
INVARIANTS
  AnswersAccounted
  WinnerNotLost
  AnsweredCallKept
PROPERTIES
  ImplementsForkSelection
  CallEnds
CHECK_DEADLOCK FALSE
