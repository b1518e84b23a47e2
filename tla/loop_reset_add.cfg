SPECIFICATION Spec
CONSTANTS
  c1 = c1
  c2 = c2
  c3 = c3
  NoThread = NoThread
  NoChannel = NoChannel
  Posters = {main}
  Owner = worker
  Notify = notify
  Channels = {notify, c1, c2}
  FdOf <- FdsReused
  MapLengths = {2, 4}
  SocketCap = 1
  Faults = {"peer_reset"}
PROPERTIES
  AddRegisters
CHECK_DEADLOCK FALSE
