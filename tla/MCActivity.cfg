CONSTANTS
  p1 = p1
  p2 = p2
  Procs <- MCProcs
  UintBits = 2
  TickBits = 8
  TICKS_PER_SEC = 4
  Timeouts <- MCTimeouts
  InitTicks = {0, 1}
  TickLimit = 8
  MaxWaits = 3
  NestedTimeouts = {5}

SPECIFICATION Spec

INVARIANTS
  TypeOK
  WaitTrueMeansDone
  TimeoutHonoured

PROPERTIES
  WaitReturns
