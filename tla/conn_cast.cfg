SPECIFICATION Spec
CONSTANTS
  MaxBytes = 3
  SendCap = 2
  ChannelData = "connection"
  PeerActs = {}
INVARIANTS
  NeverCrashes
CHECK_DEADLOCK FALSE
