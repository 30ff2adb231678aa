CONSTANTS
  Thread = {t1, t2}
  NoThread = NoThread
  Timeout = 1
  MaxCalls = 2
  Systems = {"none", "xp", "vista", "8", "10"}
  CodePages = {437, 932, 936, 1361, 20005}
  Columns = {6, 50, 80, 120}
  FontTable <- MCFontTable
SPECIFICATION LibSpec
INVARIANTS InFlight OpenLeavesNoTrace StartsOnItsDesktop SmallFontFits
PROPERTIES ImplementsPromise CallsReturn NoAgentLeftBehind
CHECK_DEADLOCK FALSE
