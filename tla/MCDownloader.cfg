CONSTANTS
  File <- MCFile
  Undef = Undef
  SizeBits = 3
  ChunkLens = {1, 2}
  MaxDelivers = 4
  MaxDepth = 8
  PlugHoldsRef = TRUE
  NullifyOnShutdown = TRUE
  TransportChecksRc = TRUE
  Transports <- MCTransports
  BadOffsets = {}
  ReopenMayFail = FALSE
  RedirectAfterData = FALSE

SPECIFICATION Spec

INVARIANTS
  LifetimeSafe
  NoLeak
  RegisterOnce
  RegisteredImageCorrect
  JobOutcome
  WriteInBounds

PROPERTIES
  Completion
  DownloadJobSpec
