CONSTANTS
  Byte = {b1, b2}
  IoSize = 1
  ReadBufferSize = 2
  Quota = 1
  Reading = TRUE
  Writing = TRUE
  Server = FALSE
  HasTimer = FALSE
  ExitOnClose = TRUE
  MaxOut = 3
  MaxIn = 3
SPECIFICATION FairSpec
INVARIANTS InputConserved InputBounded NeverSleepsOnNews NeverWaitsBlind
PROPERTIES EverythingDelivered ExitsWhenPeerGone
CHECK_DEADLOCK FALSE
