SPECIFICATION Spec
CONSTANTS
  Channels = {c1, c2, c3, c4}
  Slots = 3
  Free = free
INVARIANTS
  SlotsMatchMap
  EventsMatch
SYMMETRY Symmetry
