CONSTANTS
  Base = 8
  Width <- MCWidth
  Handles = {9}
  Errors = {2}
  Processes <- MCProcesses
  Requests <- MCRequests
  InitialSize = 9
  IoSize = 4
  Quota = 6
SPECIFICATION FairSpec
INVARIANTS PacketsIntact
PROPERTIES EveryPacketHandled
CHECK_DEADLOCK FALSE
