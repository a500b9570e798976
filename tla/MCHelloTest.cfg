CONSTANTS
  Bytes = {7, 10, 13, 65, 127, 200}
  MaxLen = 2
  Errors = {1}

SPECIFICATION Spec

INVARIANT PrintsOnlyPrintable
