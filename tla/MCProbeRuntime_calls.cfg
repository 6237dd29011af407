SPECIFICATION FairSpec
CONSTANTS
  Threads = {t1, t2}
  Sites = {s1}
  Zero = Zero
  Slots = 2
  Depth = 1
  Capacity = 2
  MaxNest = 2
  HasRetprobe = TRUE
  Env = {}
INVARIANTS
  TypeOK
  SlotsUnique
  RecordOwn
  RecordWhole
  DepthBalanced
  ReturnsToCaller
  OwnDuration
  StackInv
PROPERTIES
  Transparent
  StubLeaves
  SlotsGrow
