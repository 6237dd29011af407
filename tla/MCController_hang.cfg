SPECIFICATION Spec
CONSTANTS
  Threads = {t1, t2}
  Leader = t1
  Initial = {t1, t2}
  MaxTids = 4
  Env = {"signal"}
CHECK_DEADLOCK FALSE
INVARIANTS
  NeverHung
