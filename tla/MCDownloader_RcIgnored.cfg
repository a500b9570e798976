CONSTANTS
  File <- MCFile
  Undef = Undef
  SizeBits = 3
  ChunkLens = {1, 2}
  MaxDelivers = 3
  MaxDepth = 6
  PlugHoldsRef = TRUE
  NullifyOnShutdown = TRUE
  TransportChecksRc = FALSE
  Transports <- MCOneTransport
  BadOffsets = {}
  ReopenMayFail = FALSE
  RedirectAfterData = FALSE

SPECIFICATION Spec

INVARIANT RegisteredImageCorrect
