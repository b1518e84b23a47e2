SPECIFICATION Spec
CONSTANTS
  MaxClients = 2
  MaxBytes = 4
  BufSize = 2
INVARIANTS
  OwnClient
CHECK_DEADLOCK FALSE
