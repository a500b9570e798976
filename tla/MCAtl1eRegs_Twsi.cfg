CONSTANTS
  Regs <- MCRegsTwsi
  MaxWrites = 2
SPECIFICATION Spec
INVARIANT FieldsReadBack
CHECK_DEADLOCK FALSE
