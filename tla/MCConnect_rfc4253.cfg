SPECIFICATION Spec
CONSTANTS
  Runtimes <- AllRuntimes
  Restarts = FALSE
INVARIANTS
  MacAccepted
CHECK_DEADLOCK FALSE
