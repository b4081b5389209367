SPECIFICATION MCSpec
CONSTANTS
  Selections <- MCSelections
  KeepPods = FALSE
  NoRestore = FALSE
  MaxInterrupts = 1
  Aks = TRUE
  KeepJob = FALSE
  NameReused = FALSE
  RunIds <- MCRunIds
  Profiles <- MCProfiles
  Flags <- MCFlags
  Others <- MCOthers
INVARIANTS
  RunsTruthful
  FailedKept
PROPERTIES
  RunsEnd
CHECK_DEADLOCK FALSE
