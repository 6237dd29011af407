SPECIFICATION Spec
CONSTANTS
  Threads = {t1, t2}
  Sites = {s1}
  Zero = Zero
  Slots = 2
  Depth = 1
  Capacity = 1
  MaxNest = 1
  HasRetprobe = TRUE
  Env = {"lap"}
CHECK_DEADLOCK FALSE
INVARIANTS
  ReturnsToCaller
