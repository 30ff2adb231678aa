CONSTANTS
  Outputs = {"conout"}
  Size = {s1, s2}
  StartSize = s1
  Garbage = Garbage
  MaxResizes = 2
  MaxShown = 1
  MaxTyped = 1
  Starts <- MCStarts
  NoStart = NoStart
SPECIFICATION AdapterSpec
INVARIANTS NoWakeupLost InputHearsShutdown OutputComplete ChildStartsAsAsked TerminalRestored
PROPERTIES SessionEnds ResizeReachesConsole
CHECK_DEADLOCK FALSE
