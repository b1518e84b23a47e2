SPECIFICATION FairSpec
CONSTANTS
  MaxBytes = 5
  SendCap = 2
  ChannelData = "loop"
  PeerActs = {"finish", "reset"}
INVARIANTS
  BytesConserved
  ClosedOnce
PROPERTIES
  EveryByteAnswered
CHECK_DEADLOCK FALSE
