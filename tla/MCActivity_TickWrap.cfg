CONSTANTS
  p1 = p1
  p2 = p2
  Procs <- MCProcs
  UintBits = 2
  TickBits = 5
  TICKS_PER_SEC = 10
  Timeouts = {1, 2}
  InitTicks = {30, 31}
  TickLimit = 8
  MaxWaits = 2
  NestedTimeouts = {}

SPECIFICATION Spec

INVARIANT TimeoutHonoured
