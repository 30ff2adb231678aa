CONSTANTS
  Thread = {t1}
  NoThread = NoThread
  Timeout = 1
  MaxCalls = 1
SPECIFICATION Spec
INVARIANTS KeepsPipeOnReply
CHECK_DEADLOCK FALSE
