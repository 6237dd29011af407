SPECIFICATION Spec
CONSTANTS
  Threads = {t1}
  Sites = {s1}
  Zero = Zero
  Slots = 1
  Depth = 2
  Capacity = 4
  MaxNest = 3
  HasRetprobe = TRUE
  Env = {"signal", "longjmp"}
SYMMETRY Symmetry
VIEW LiveView
INVARIANTS
  DepthCovers
  NeverTraps
  CoverInv
