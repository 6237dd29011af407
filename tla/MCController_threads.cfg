SPECIFICATION FairSpec
CONSTANTS
  Threads = {t1, t2, t3}
  Leader = t1
  Initial = {t1, t2}
  MaxTids = 2
  Env <- AllOfEnv
CHECK_DEADLOCK FALSE
INVARIANTS
  TypeOK
  HeldStill
  NoTracee
  PutBack
  HungForSignal
PROPERTIES
  Ends
