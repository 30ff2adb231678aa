CONSTANTS
  UseConerr = TRUE
  ForceMouse = FALSE
  SpawnOnce = TRUE
  Quota = 0
  MaxOutput = 1
  MaxEvents = 1
  MaxCalls = 1
SPECIFICATION Spec
INVARIANTS MouseOffAtEof ExitsFlushed
PROPERTIES OutputsAreByteStreams
CHECK_DEADLOCK FALSE
