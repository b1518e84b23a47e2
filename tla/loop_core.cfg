SPECIFICATION FairSpec
CONSTANTS
  c1 = c1
  c2 = c2
  c3 = c3
  NoThread = NoThread
  NoChannel = NoChannel
  Posters = {main}
  Owner = worker
  Notify = notify
  Channels = {notify, c1, c2, c3}
  FdOf <- FdsApart
  MapLengths = {2, 4}
  SocketCap = 1
  Faults = {}
INVARIANTS
  RegistryMatches
  InterestCurrent
  MapAccessInBounds
PROPERTIES
  Refinement
  EveryAddRegistered
CHECK_DEADLOCK FALSE
