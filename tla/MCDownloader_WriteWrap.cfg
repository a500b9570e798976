CONSTANTS
  File <- MCFile
  Undef = Undef
  SizeBits = 3
  ChunkLens = {2}
  MaxDelivers = 2
  MaxDepth = 8
  PlugHoldsRef = TRUE
  NullifyOnShutdown = TRUE
  TransportChecksRc = TRUE
  Transports <- MCTransports
  BadOffsets = {7}
  ReopenMayFail = FALSE
  RedirectAfterData = FALSE

SPECIFICATION Spec

INVARIANT WriteInBounds
