SPECIFICATION Spec
CONSTANTS
  c1 = c1
  c2 = c2
  c3 = c3
  NoThread = NoThread
  NoChannel = NoChannel
  Posters = {main, other}
  Owner = worker
  Notify = notify
  Channels = {notify, c1, c2}
  FdOf <- FdsReused
  MapLengths = {2, 4}
  SocketCap = 1
  Faults = {"early_update", "peer_reset", "no_memory"}
INVARIANTS
  LockInv
  WakeupInFlight
PROPERTIES
  CallbackOnlyWhileRegistered
CHECK_DEADLOCK FALSE
