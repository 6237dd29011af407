SPECIFICATION Spec
CONSTANTS
  Threads = {t1}
  Sites = {s1}
  Zero = Zero
  Slots = 1
  Depth = 2
  Capacity = 2
  MaxNest = 3
  HasRetprobe = TRUE
  Env = {"signal"}
INVARIANTS
  ReturnsToCaller
