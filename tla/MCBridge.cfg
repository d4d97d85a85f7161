CONSTANTS
  MaxLines = 3
  MaxUnsolicited = 1
  Kinds = {"connect", "disconnect", "read_keyed", "write", "register_periodic", "register_periodic_zero", "unregister_periodic", "get_stored", "list_ports", "quit", "invalid"}
SPECIFICATION FairSpec
INVARIANTS TypeOK
PROPERTIES ImplementsLedger EventsBelongToConnection EveryLineEnds QuitEnds
CHECK_DEADLOCK FALSE
