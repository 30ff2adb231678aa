CONSTANTS
  Outputs = {"conout"}
  Size = {s1, s2}
  StartSize = s1
  Garbage = Garbage
  MaxResizes = 2
  MaxShown = 1
  MaxTyped = 1
SPECIFICATION Spec
INVARIANTS NeverAborts
CHECK_DEADLOCK FALSE
