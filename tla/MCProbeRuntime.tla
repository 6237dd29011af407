---------------------------- MODULE MCProbeRuntime ----------------------------
(* ProbeRuntime on small instances.  Threads are interchangeable, and so are *)
(* the call instructions.                                                    *)
EXTENDS ProbeRuntimeInv, TLC

Symmetry == Permutations(Threads) \cup Permutations(Sites)

\* A state without the records no stub is using.  A stub stores both words of
\* a record before it reads them, so no step and no invariant of the run that
\* takes this view depends on what an earlier call left there.
InUse(e) == \E t \in Threads : \E k \in 1..top[t] :
               InFlight(frame[t][k]) /\ frame[t][k].ev = e
LiveView == <<enabled, next, [e \in {e \in Records : InUse(e)} |-> ring[e]],
              runtimeVars, top, frame>>
===============================================================================
