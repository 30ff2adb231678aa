CONSTANTS
  Mods = {2, 3, 5}
  Sessions <- MCSessions
  MouseMode = "force"
  Modes <- MCModes
  MaxModes = 1
  Width = 2
  Height = 2
  Timeout = 1
SPECIFICATION FairSpec
INVARIANTS KeysAsTyped DsrLatch DoubleClickIsTwoPresses
PROPERTIES InputDrains
CHECK_DEADLOCK FALSE
