CONSTANTS
  Regs <- MCRegs
  MaxWrites = 2
SPECIFICATION Spec
INVARIANT FieldsReadBack
INVARIANT EventsUnmasked
CHECK_DEADLOCK FALSE
