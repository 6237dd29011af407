SPECIFICATION Spec
CONSTANTS
  Low = 100
  High = 200
  Span = 50
  Libraries <- MCLibraries
  Newer <- MCNewer
  Others <- MCOthers
  MaxOriginal = 32
  Rel32 <- MCRel32
  Size <- MCSize
CHECK_DEADLOCK FALSE
INVARIANTS
  TypeOK
  EntryWhole
  CleanRestore
  RightFunction
  InstalledWhole
  NothingTruncated
