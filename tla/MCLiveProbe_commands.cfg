SPECIFICATION FairLiveSpec
CONSTANTS
  Commands = {c1}
  NoCommand = NoCommand
  Threads = {t1}
  Caller = Caller
  Funcs = {f1, f2}
  Addrs = {f1, f2}
  AddrOf <- MCAddrOf
  Bases = {b1, b2}
  Orig = Orig
  MaxProbes = 2
  Serial = TRUE
  Faults <- CallFaults
INVARIANTS
  TypeOK
  LiveTypeOK
  Consistent
  CodeLeadsSomewhere
  LostOnlyIfStruck
  HookLeads
PROPERTIES
  CallEnds
