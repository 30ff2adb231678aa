CONSTANTS
  BUFFER_LINE_COUNT = 6
  SYNC_MARKER_LEN = 1
  SYNC_MARKER_MARGIN = 1
  Sizes <- MCSizes
  Windows <- MCWindows
  Largest <- MCLargest
  Texts <- MCTexts
  Colored <- MCColored
  MarkerText <- MCMarkerText
  ConsoleModes = {}
  MaxSteps = 4
  MaxResizes = 1
SPECIFICATION Spec
INVARIANTS ShowsPaper CursorShown ResizeFits ReadsInsideBuffer
CHECK_DEADLOCK FALSE
