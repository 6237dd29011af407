SPECIFICATION Spec
CONSTANTS
  Threads = {t1, t2}
  Capacity = 2
  Limit = 2
  MaxEvents = 5
  MaxClock = 2
  Width = 3
SYMMETRY Symmetry
INVARIANTS
  TypeOK
  NeverStale
  ExactWhenStill
PROPERTIES
  Elapsed
