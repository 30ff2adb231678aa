CONSTANTS
  Byte = {b1, b2}
  IoSize = 2
  ReadBufferSize = 1
  Quota = 1
  Reading = FALSE
  Writing = TRUE
  Server = TRUE
  HasTimer = TRUE
  ExitOnClose = FALSE
  MaxOut = 4
  MaxIn = 0
SPECIFICATION Spec
INVARIANTS TypeOK OutputConserved FlushedMeansHandedOver
PROPERTIES ImplementsByteStream
SYMMETRY Symmetric
