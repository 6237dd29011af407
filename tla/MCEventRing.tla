------------------------------ MODULE MCEventRing ------------------------------
(* EventRing on small instances. *)
EXTENDS EventRing, TLC

Symmetry == Permutations(Threads)
================================================================================
