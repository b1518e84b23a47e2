SPECIFICATION Spec
CONSTANTS
  Bytes = {"a", "b"}
  Garbage = {"junk"}
  Inputs <- ShortInputs
  InitSize = 2
  MaxTotal = 6
  MemoryFails = FALSE
  NoByte = "none"
INVARIANTS
  IndicesInOrder
PROPERTIES
  Refinement
CHECK_DEADLOCK FALSE
