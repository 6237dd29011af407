----------------------------- MODULE MCLiveProbe -----------------------------
(* LiveProbe on small instances: every function has an address of its own.   *)
EXTENDS LiveProbe

MCAddrOf    == [f \in Funcs |-> f]

\* All that a call on the target can answer, with the target's exit at any point.
CallFaults  == {"resolve", "decode", "mmap", "munmap", "install", "patch",
                "restore", "flag", "exit"}
===============================================================================
