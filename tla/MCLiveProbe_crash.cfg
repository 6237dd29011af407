SPECIFICATION FairLiveSpec
CONSTANTS
  Commands = {c1}
  NoCommand = NoCommand
  Threads = {}
  Caller = Caller
  Funcs = {f1, f2}
  Addrs = {f1, f2}
  AddrOf <- MCAddrOf
  Bases = {b1, b2, b3}
  Orig = Orig
  MaxProbes = 1
  Serial = TRUE
  Faults <- FaultKinds
INVARIANTS
  CodeLeadsSomewhere
  NotLeftStopped
PROPERTIES
  Resumes
