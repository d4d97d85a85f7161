CONSTANTS
  BYTE = 4
  SPARSE = 4
  FINE = 4
  Schemas <- MCSchemas
SPECIFICATION Spec
INVARIANTS DependencyOrder WithinBuffer SameWire RightMessage ValueSurvives
CHECK_DEADLOCK FALSE
