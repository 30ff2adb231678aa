CONSTANTS
  BUFFER_LINE_COUNT = 6
  SYNC_MARKER_LEN = 1
  SYNC_MARKER_MARGIN = 1
  Sizes <- MCSizes
  Windows <- MCWindows
  Largest <- MCLargest
  Texts <- MCTexts
  Colored <- MCColored
  MarkerText <- MCMarkerText
  ConsoleModes = {}
  MaxSteps = 3
  MaxResizes = 0
SPECIFICATION Spec
INVARIANTS MarkerInHistory
CHECK_DEADLOCK FALSE
