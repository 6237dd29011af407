----------------------------- MODULE CallReturn -----------------------------
(***************************************************************************)
(* What a probe promises to the program it is installed in: its control    *)
(* flow does not change.  The module is the target without a probe, seen   *)
(* only through the calls of the probed function: each thread nests        *)
(* activations of it, and an activation that returns continues right after *)
(* its own call.  A thread whose return lands anywhere else is lost; no    *)
(* action here loses one.  ProbeRuntime, the same program with the entry   *)
(* and return stubs in between, implements this specification.             *)
(***************************************************************************)
EXTENDS Integers

CONSTANTS Threads,  \* the threads of the target
          MaxNest   \* bound: activations a thread may nest

VARIABLE level      \* level[t]: activations of thread t on its stack;
                    \* Lost once its execution is not the program's any more

Lost == -1

Init == level = [t \in Threads |-> 0]

Call(t) == /\ level[t] \in 0..(MaxNest - 1)
           /\ level' = [level EXCEPT ![t] = @ + 1]

Return(t) == /\ level[t] \in 1..MaxNest
             /\ level' = [level EXCEPT ![t] = @ - 1]

Next == \E t \in Threads : Call(t) \/ Return(t)

Spec == Init /\ [][Next]_level
=============================================================================
