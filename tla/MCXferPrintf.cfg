CONSTANTS
  Formats <- MCFormats
  IntArgs <- MCIntArgs
  MaxMsgs = 3
  NUL = NUL

SPECIFICATION Spec

INVARIANTS
  TypeOK
  StreamIsRendered
