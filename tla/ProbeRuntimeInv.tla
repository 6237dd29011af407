--------------------------- MODULE ProbeRuntimeInv ---------------------------
(***************************************************************************)
(* The strengthenings that make the safety properties of ProbeRuntime      *)
(* inductive, in layers: the registers of a stub are in range (RegsOK); a  *)
(* stub's record is its own and the slots it has searched are taken by     *)
(* others (SearchInv); a slot's depth covers its thread's hooked           *)
(* activations (CoverInv); the shadow stack mirrors the thread's own stack *)
(* (StackInv).  TLC checks them on small instances, ProbeRuntimeProofs     *)
(* proves the first two and StackProofs the others.                        *)
(***************************************************************************)
EXTENDS ProbeRuntime

\* The slot register is an index where it is used as one, and so is depth.
Indexed(f) ==
    /\ f.pc \in {"cas", "depth", "saveRet", "saveTs", "push", "swap", "rdepth",
                 "decr", "load", "rclaim", "rfill", "rdur", "jump"}
          => f.idx \in SlotIds
    /\ f.pc \in {"saveRet", "saveTs", "push", "decr", "load", "rclaim", "rfill",
                 "rdur", "jump"}
          => f.dep \in FrameIds

RegsOK == \A t \in Threads : \A k \in 1..MaxNest : Indexed(frame[t][k])

TypeInv == TypeOK /\ RegsOK
-----------------------------------------------------------------------------
\* Two stubs in flight hold different records.
Exclusive ==
    \A t, u \in Threads : \A k \in 1..top[t] : \A l \in 1..top[u] :
       /\ InFlight(frame[t][k]) /\ InFlight(frame[u][l])
       /\ <<t, k>> # <<u, l>>
       => frame[t][k].ev # frame[u][l].ev

\* The tid in the record is the stub's own thread from its store on.
RecordTid ==
    \A t \in Threads : \A k \in 1..top[t] :
       frame[t][k].pc \in Reading \cup {"time"}
          => ring[frame[t][k].ev].tid = t

\* The slots behind the search belong to other threads.
Searched ==
    \A t \in Threads : \A k \in 1..top[t] :
       frame[t][k].pc \in {"scan", "cas"} =>
          \A j \in SlotIds : j < frame[t][k].idx => slotTid[j] \notin {Zero, t}

SearchInv == /\ TypeInv
             /\ Exclusive
             /\ RecordTid
             /\ RecordOwn
             /\ Searched
             /\ SlotsPrefix
             /\ SlotsUnique
-----------------------------------------------------------------------------
(* The shadow stack covers its thread's hooked activations, whatever handlers *)
(* interrupt and longjmp drops: CoverInv.                                     *)

\* From the load of the depth on a frame is being filled, at index dep.
Pushing == {"saveRet", "saveTs", "push", "swap"}

\* Who has a frame, or is about to, has it in a slot of its own thread.
HookOK(t, f) ==
    /\ f.pc \in RetPcs => f.hooked
    /\ f.pc \in EntryPcs => ~f.hooked
    /\ f.hooked \/ f.pc \in Pushing => f.dep \in FrameIds
    /\ f.hooked \/ f.pc \in Pushing \cup {"depth"}
          => f.idx \in SlotIds /\ slotTid[f.idx] = t

Hooks == \A t \in Threads : \A k \in 1..top[t] : HookOK(t, frame[t][k])

\* What is pending below the activation at level k.
Below(t, k) == {l \in Pending(t) : l < k}

\* A depth is at least the number of frames to come back for, and so is one
\* that a stub has loaded and not yet stored.
Covers == \A t \in Threads :
    /\ \A i \in SlotIds : slotTid[i] = t => Cardinality(Pending(t)) <= slotDepth[i]
    /\ \A k \in 1..top[t] :
          frame[t][k].pc \in {"saveRet", "saveTs", "push", "decr"}
             => Cardinality(Below(t, k)) <= frame[t][k].dep

NoTrap == \A t \in Threads : \A k \in 1..top[t] : frame[t][k].pc # "trap"

CoverInv == /\ SearchInv
            /\ Hooks
            /\ Covers
            /\ NoTrap
-----------------------------------------------------------------------------
(* The frames of a thread's slot are those of its activations, each with its  *)
(* own return address, when nothing interrupts a stub: StackInv.              *)

\* Without signal handlers only the activation on top of a stack executes.
OnlyTopRuns ==
    \A t \in Threads : \A k \in 1..top[t] :
       /\ ~frame[t][k].handler
       /\ k < top[t] => frame[t][k].pc = "body"

\* What the shadow stack holds for an activation at each step of its stubs.
SavedAt(t, k) ==
    LET f == frame[t][k] IN
       /\ f.pc \in {"saveRet", "saveTs", "push"} => f.dep = slotDepth[f.idx]
       /\ (\/ f.pc \in {"saveTs", "push", "swap"}
           \/ f.hooked /\ f.pc \in {"body", "find", "rdepth", "decr", "load"})
             => retAddr[f.idx][f.dep] = CallId(t, k)
       /\ (\/ f.pc \in {"push", "swap"}
           \/ f.hooked /\ f.pc # "jump")
             => entryTs[f.idx][f.dep] = CallId(t, k)
       /\ f.pc = "load" => f.dep = slotDepth[f.idx]
       /\ f.pc \in {"rclaim", "rfill", "rdur", "jump"} => f.addr = CallId(t, k)
       /\ f.pc = "jump" => f.dur = CallId(t, k)

Saved == \A t \in Threads : \A k \in 1..top[t] : SavedAt(t, k)

\* The frames of a slot are those of its thread's activations, in order.
Mirror ==
    \A t \in Threads :
       /\ \A k \in 1..top[t] : Counted(frame[t][k]) =>
             frame[t][k].dep < slotDepth[frame[t][k].idx]
       /\ \A k, l \in 1..top[t] :
             k < l /\ Counted(frame[t][k]) /\ Counted(frame[t][l])
                => frame[t][k].dep < frame[t][l].dep
       /\ \A i \in SlotIds : slotTid[i] = t =>
             \A d \in 0..(slotDepth[i] - 1) : \E k \in 1..top[t] :
                Counted(frame[t][k]) /\ frame[t][k].dep = d

FreeEmpty == \A i \in SlotIds : slotTid[i] = Zero => slotDepth[i] = 0

StackInv == /\ CoverInv
            /\ OnlyTopRuns
            /\ Saved
            /\ Mirror
            /\ FreeEmpty
            /\ ReturnsToCaller
=============================================================================
