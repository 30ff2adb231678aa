CONSTANTS
  UseConerr = FALSE
  ForceMouse = FALSE
  SpawnOnce = FALSE
  Quota = 1
  MaxOutput = 1
  MaxEvents = 0
  MaxCalls = 2
SPECIFICATION FairSpec
PROPERTIES ChildExitReachesClient ChildExitEndsAgent FreeEndsAgent
CHECK_DEADLOCK FALSE
