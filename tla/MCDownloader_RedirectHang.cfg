CONSTANTS
  File <- MCFileShort
  Undef = Undef
  SizeBits = 3
  ChunkLens = {1}
  MaxDelivers = 2
  MaxDepth = 8
  PlugHoldsRef = TRUE
  NullifyOnShutdown = TRUE
  TransportChecksRc = TRUE
  Transports <- MCTransports
  BadOffsets = {}
  ReopenMayFail = TRUE
  RedirectAfterData = FALSE

SPECIFICATION Spec

PROPERTY Completion
