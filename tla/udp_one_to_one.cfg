SPECIFICATION Spec
CONSTANTS
  Hosts = {c1, c2}
  NoHost = none
  MaxQuestions = 2
  MaxDuplicates = 1
INVARIANTS
  OneToOne
CHECK_DEADLOCK FALSE
