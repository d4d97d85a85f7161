CONSTANTS
  BYTE = 4
  SPARSE = 4
  FINE = 4
  Schemas <- MCAlignedEnum
SPECIFICATION Spec
INVARIANT EveryValueSurvives
CHECK_DEADLOCK FALSE
