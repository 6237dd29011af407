SPECIFICATION LiveSpec
CONSTANTS
  Commands = {c1}
  NoCommand = NoCommand
  Threads = {t1}
  Caller = Caller
  Funcs = {f1}
  Addrs = {f1}
  AddrOf <- MCAddrOf
  Bases = {b1}
  Orig = Orig
  MaxProbes = 1
  Serial = TRUE
  Faults = {}
INVARIANTS
  CleanUnload
