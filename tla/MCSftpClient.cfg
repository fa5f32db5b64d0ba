SPECIFICATION FairSpec
CONSTANTS
  Ops <- MCOps
  Kinds <- MCKinds
  IdSpace = 3
  Limits = {1, 2}
  MaxWork = 1
INVARIANTS
  TypeOK
  PendingExact
  StaleDistance
  HandlesAccounted
PROPERTIES
  RequestTable
  CallsReturn
CHECK_DEADLOCK FALSE
