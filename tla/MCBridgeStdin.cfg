CONSTANTS
  MaxLines = 1
  MaxUnsolicited = 1
  Kinds = {"connect", "read_keyed"}
SPECIFICATION FairSpec
PROPERTIES ExitsWhenStdinCloses
CHECK_DEADLOCK FALSE
