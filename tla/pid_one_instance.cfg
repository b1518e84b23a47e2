SPECIFICATION Spec
CONSTANTS
  Instances = {i1, i2, i3}
  NoInstance = none
INVARIANTS
  OneInstance
CHECK_DEADLOCK FALSE
