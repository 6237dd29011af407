---------------------------- MODULE ProbeRuntime ----------------------------
(***************************************************************************)
(* The code lightprobe leaves in the target: the entry stub and the return *)
(* stub that trampoline_x86_64.c generates, running in every thread that   *)
(* calls the probed function.  The stubs share, without any lock, the      *)
(* enabled flag of the remote config, the write index and the records of   *)
(* the event ring, and the shadow stack: one slot per thread, claimed by   *)
(* compare-and-swap, each with a depth and an array of frames (the saved   *)
(* return address and the entry timestamp).                                *)
(*                                                                         *)
(* One action is one access of a stub to shared memory together with the   *)
(* register work around it.  A slot's tid is written once (SlotTid only    *)
(* leaves Zero), so the load of a slot's tid and the load of the ring's    *)
(* tid that follows it are one step: the second cannot be separated from   *)
(* the first by a write that would change the outcome.                     *)
(*                                                                         *)
(* A call is identified by the address it returns to, CallId(t, k): thread *)
(* t, nesting level k, call instruction.  It serves as its entry timestamp *)
(* as well, which is how a record or a shadow frame that belongs to        *)
(* another call is told apart.                                             *)
(***************************************************************************)
EXTENDS Integers, FiniteSets

CONSTANTS
    Threads,      \* threads of the target (their kernel tids)
    Sites,        \* call instructions that reach the probed function
    Zero,         \* the content of memory fresh from mmap
    Slots,        \* LP_SHADOW_STACK_THREADS
    Depth,        \* LP_SHADOW_STACK_DEPTH
    Capacity,     \* EVENT_BUFFER_CAPACITY
    MaxNest,      \* bound: activations and handlers nested by a thread
    HasRetprobe,  \* attach --ret
    Env           \* what the target may do beyond calling and returning

(***************************************************************************)
(* Env lists the behaviours of the target and of its scheduler that the    *)
(* stubs meet in a real process:                                           *)
(*   "signal"   a handler runs on top of whatever the thread was doing,    *)
(*              and may call the probed function;                          *)
(*   "longjmp"  a thread drops activations without returning from them;    *)
(*   "lap"      Capacity claims or more of ring records happen while a     *)
(*              stub is between its own claim and its last use of it.      *)
(***************************************************************************)
ASSUME ZeroAssumption  == Zero \notin Threads
ASSUME SizeAssumption  == /\ Slots \in Nat
                          /\ Depth \in Nat
                          /\ Capacity \in Nat \ {0}
                          /\ MaxNest \in Nat
ASSUME ModeAssumption  == /\ HasRetprobe \in BOOLEAN
                          /\ Env \subseteq {"signal", "longjmp", "lap"}

VARIABLES
    enabled,      \* remote config: enabled
    next,         \* the ring record the next xadd of write_index yields
    ring,         \* ring[e]: tid and timestamp_ns of the record e
    slotTid,      \* shadow stack: owner of each slot
    slotDepth,    \* shadow stack: depth of each slot
    retAddr,      \* shadow stack: return_addr of each frame of each slot
    entryTs,      \* shadow stack: entry_timestamp of each frame
    top,          \* top[t]: frames on the stack of thread t
    frame         \* frame[t][k]: activation k of t, with the stub's registers

runtimeVars == <<slotTid, slotDepth, retAddr, entryTs>>
vars == <<enabled, next, ring, slotTid, slotDepth, retAddr, entryTs, top, frame>>
-----------------------------------------------------------------------------
EntryPcs == {"check", "claim", "tid", "time", "scan", "cas", "depth",
             "saveRet", "saveTs", "push", "swap"}
RetPcs   == {"find", "rdepth", "decr", "load", "rclaim", "rfill", "rdur", "jump"}
StubPcs  == EntryPcs \cup RetPcs
Pcs      == StubPcs \cup {"body", "trap", "astray"}

SlotIds  == 0..(Slots - 1)
FrameIds == 0..(Depth - 1)
Records  == 0..(Capacity - 1)
Calls    == Threads \X (1..MaxNest) \X (Sites \cup {Zero})
Words    == Calls \cup {Zero}

(***************************************************************************)
(* A frame of a thread's stack.  handler: a signal handler rather than an  *)
(* activation of the probed function.  hooked: the return address on the   *)
(* stack is the return stub.  The registers idx (slot), ev (record), dep,  *)
(* addr (return address loaded) and dur (entry timestamp subtracted) are   *)
(* those of the stub the activation runs; once the activation is hooked,   *)
(* idx and dep remember the frame the entry stub pushed for it.            *)
(***************************************************************************)
Frames == [handler : BOOLEAN, site : Sites \cup {Zero}, pc : Pcs, hooked : BOOLEAN,
           idx : 0..Slots, ev : Records, dep : 0..Depth,
           addr : Words, dur : Words]

Fresh(s, p, h) == [handler |-> h, site |-> s, pc |-> p, hooked |-> FALSE,
                   idx |-> 0, ev |-> 0, dep |-> 0, addr |-> Zero, dur |-> Zero]

Idle == Fresh(Zero, "body", FALSE)  \* what a level above top holds

Cur(t)       == frame[t][top[t]]
CallId(t, k) == <<t, k, frame[t][k].site>>

\* Some stub executed ud2: the kernel kills the process.
Trapped == \E t \in Threads : top[t] > 0 /\ Cur(t).pc = "trap"

\* A thread executes the step at p of the activation on top of its stack.
At(t, p) == ~Trapped /\ top[t] > 0 /\ Cur(t).pc = p

SetCur(t, f) == frame' = [frame EXCEPT ![t] = [@ EXCEPT ![top[t]] = f]]
Goto(t, p)   == SetCur(t, [Cur(t) EXCEPT !.pc = p])

\* Mutant: the return address is swapped on this way out as well.
ToTrampolineHooked(f) == [f EXCEPT !.pc = "body", !.ev = 0, !.dep = 0, !.hooked = TRUE]

\* The entry stub restores the registers and jumps to the trampoline, without
\* having touched the return address.
ToTrampoline(f) == [f EXCEPT !.pc = "body", !.idx = 0, !.ev = 0, !.dep = 0]

\* Mutant: a taken slot is tried again instead of the next one.
SameSlot(f) == [f EXCEPT !.pc = "scan"]

\* The search goes on with the next slot.
NextSlot(f) == [f EXCEPT !.pc = "scan", !.idx = @ + 1]

Push(t, f) == /\ top[t] < MaxNest
              /\ top' = [top EXCEPT ![t] = @ + 1]
              /\ frame' = [frame EXCEPT ![t] = [@ EXCEPT ![top[t] + 1] = f]]
Pop(t) == /\ top' = [top EXCEPT ![t] = @ - 1]
          /\ SetCur(t, Idle)

\* Between its claim and its last use of the record a stub depends on it.
InFlight(f) == f.pc \in {"tid", "time", "scan", "cas", "depth", "saveRet",
                         "saveTs", "rfill", "rdur"}
Unlapped(e) == \A u \in Threads : \A k \in 1..top[u] :
                  InFlight(frame[u][k]) => frame[u][k].ev # e
\* Mutants: xadd without the lock prefix may lose an increment; no masking.
ClaimWithoutLock == next' \in {next, (next + 1) % Capacity}
ClaimUnmasked    == next' = next + 1

\* mov eax,1; lock xadd [write_index],rax; and eax,0xFFF
Claim == /\ "lap" \in Env \/ Unlapped(next)
         /\ next' = (next + 1) % Capacity
-----------------------------------------------------------------------------
Init == /\ enabled = TRUE
        /\ next = 0
        /\ ring = [e \in Records |-> [tid |-> Zero, ts |-> Zero]]
        /\ slotTid = [i \in SlotIds |-> Zero]
        /\ slotDepth = [i \in SlotIds |-> 0]
        /\ retAddr = [i \in SlotIds |-> [d \in FrameIds |-> Zero]]
        /\ entryTs = [i \in SlotIds |-> [d \in FrameIds |-> Zero]]
        /\ top = [t \in Threads |-> 0]
        /\ frame = [t \in Threads |-> [k \in 1..MaxNest |-> Idle]]

\* lightprobe enable / disable: one remote write, the target not stopped.
Toggle == /\ ~Trapped
          /\ enabled' = ~enabled
          /\ UNCHANGED <<next, ring, runtimeVars, top, frame>>

\* The target, or an activation of the probed function, calls it: the jmp
\* patched over its first bytes leads to the entry stub.
Call(t, s) == /\ ~Trapped
              /\ top[t] > 0 => Cur(t).pc = "body"
              /\ Push(t, Fresh(s, "check", FALSE))
              /\ UNCHANGED <<enabled, next, ring, runtimeVars>>

(***************************************************************************)
(* The entry stub.                                                         *)
(***************************************************************************)
CheckEnabled(t) ==
    /\ At(t, "check")
    /\ \/ enabled /\ Goto(t, "claim")
       \/ ~enabled /\ SetCur(t, ToTrampoline(Cur(t)))
    /\ UNCHANGED <<enabled, next, ring, runtimeVars, top>>

ClaimEvent(t) ==
    /\ At(t, "claim")
    /\ Claim
    /\ SetCur(t, [Cur(t) EXCEPT !.pc = "tid", !.ev = next])
    /\ UNCHANGED <<enabled, ring, runtimeVars, top>>

EntryTid(t) ==
    /\ At(t, "tid")
    /\ ring' = [ring EXCEPT ![Cur(t).ev].tid = t]
    /\ Goto(t, "time")
    /\ UNCHANGED <<enabled, next, runtimeVars, top>>

\* attach decides whether the stub it generates goes on to hook the return.
EntryTime(t) ==
    /\ At(t, "time")
    /\ ring' = [ring EXCEPT ![Cur(t).ev].ts = CallId(t, top[t])]
    /\ SetCur(t, IF HasRetprobe THEN [Cur(t) EXCEPT !.pc = "scan", !.idx = 0]
                                 ELSE ToTrampoline(Cur(t)))
    /\ UNCHANGED <<enabled, next, runtimeVars, top>>

\* One turn of the search for the thread's slot, which compares with the tid
\* in the shared record, not with a register.
Scan(t) ==
    /\ At(t, "scan")
    /\ LET i == Cur(t).idx
       IN  \/ /\ i = Slots
              /\ SetCur(t, ToTrampoline(Cur(t)))
           \/ /\ i < Slots
              /\ slotTid[i] = Zero
              /\ Goto(t, "cas")
           \/ /\ i < Slots
              /\ slotTid[i] # Zero
              /\ slotTid[i] = ring[Cur(t).ev].tid
              /\ Goto(t, "depth")
           \/ /\ i < Slots
              /\ slotTid[i] # Zero
              /\ slotTid[i] # ring[Cur(t).ev].tid
              /\ SetCur(t, NextSlot(Cur(t)))
    /\ UNCHANGED <<enabled, next, ring, runtimeVars, top>>

\* lock cmpxchg of the slot's tid with the tid in the shared record.
Cas(t) ==
    /\ At(t, "cas")
    /\ LET i    == Cur(t).idx
           mine == ring[Cur(t).ev].tid
       IN  \/ /\ slotTid[i] = Zero
              /\ slotTid' = [slotTid EXCEPT ![i] = mine]
              /\ Goto(t, "depth")
           \/ /\ slotTid[i] # Zero
              /\ slotTid[i] = mine
              /\ Goto(t, "depth")
              /\ UNCHANGED slotTid
           \/ /\ slotTid[i] # Zero
              /\ slotTid[i] # mine
              /\ SetCur(t, NextSlot(Cur(t)))
              /\ UNCHANGED slotTid
    /\ UNCHANGED <<enabled, next, ring, slotDepth, retAddr, entryTs, top>>

ReadDepth(t) ==
    /\ At(t, "depth")
    /\ LET d == slotDepth[Cur(t).idx]
       IN  \/ /\ d >= Depth
              /\ SetCur(t, ToTrampoline(Cur(t)))
           \/ /\ d < Depth
              /\ SetCur(t, [Cur(t) EXCEPT !.pc = "saveRet", !.dep = d])
    /\ UNCHANGED <<enabled, next, ring, runtimeVars, top>>

SaveRet(t) ==
    /\ At(t, "saveRet")
    /\ retAddr' = [retAddr EXCEPT ![Cur(t).idx] =
                      [@ EXCEPT ![Cur(t).dep] = CallId(t, top[t])]]
    /\ Goto(t, "saveTs")
    /\ UNCHANGED <<enabled, next, ring, slotTid, slotDepth, entryTs, top>>

\* Mutant: the entry timestamp is not stored.
SaveTsMissing(t) ==
    /\ At(t, "saveTs")
    /\ Goto(t, "push")
    /\ UNCHANGED <<enabled, next, ring, runtimeVars, top>>

\* The entry timestamp is read back from the shared record.
SaveTs(t) ==
    /\ At(t, "saveTs")
    /\ entryTs' = [entryTs EXCEPT ![Cur(t).idx] =
                      [@ EXCEPT ![Cur(t).dep] = ring[Cur(t).ev].ts]]
    /\ Goto(t, "push")
    /\ UNCHANGED <<enabled, next, ring, slotTid, slotDepth, retAddr, top>>

\* Mutant: the incremented depth is not stored.
PushDepthMissing(t) ==
    /\ At(t, "push")
    /\ Goto(t, "swap")
    /\ UNCHANGED <<enabled, next, ring, runtimeVars, top>>

PushDepth(t) ==
    /\ At(t, "push")
    /\ slotDepth' = [slotDepth EXCEPT ![Cur(t).idx] = Cur(t).dep + 1]
    /\ Goto(t, "swap")
    /\ UNCHANGED <<enabled, next, ring, slotTid, retAddr, entryTs, top>>

\* The return address on the thread's own stack becomes the return stub.
SwapReturn(t) ==
    /\ At(t, "swap")
    /\ SetCur(t, [Cur(t) EXCEPT !.pc = "body", !.ev = 0, !.hooked = TRUE])
    /\ UNCHANGED <<enabled, next, ring, runtimeVars, top>>

(***************************************************************************)
(* The return of an activation and the return stub.  It does not look at   *)
(* enabled: a call that was hooked is unhooked whatever happened since.    *)
(***************************************************************************)
ReturnPlain(t) ==
    /\ At(t, "body")
    /\ ~Cur(t).handler /\ ~Cur(t).hooked
    /\ Pop(t)
    /\ UNCHANGED <<enabled, next, ring, runtimeVars>>

ReturnHooked(t) ==
    /\ At(t, "body")
    /\ Cur(t).hooked
    /\ Goto(t, "find")
    /\ UNCHANGED <<enabled, next, ring, runtimeVars, top>>

\* The whole search is one step: a slot that holds t never changes again.
FindSlot(t) ==
    /\ At(t, "find")
    /\ \/ \E i \in SlotIds :
             /\ slotTid[i] = t
             /\ \A j \in 0..(i - 1) : slotTid[j] # t
             /\ SetCur(t, [Cur(t) EXCEPT !.pc = "rdepth", !.idx = i])
       \/ /\ \A i \in SlotIds : slotTid[i] # t
          /\ Goto(t, "trap")
    /\ UNCHANGED <<enabled, next, ring, runtimeVars, top>>

RetDepth(t) ==
    /\ At(t, "rdepth")
    /\ LET d == slotDepth[Cur(t).idx]
       IN  \/ /\ d = 0
              /\ Goto(t, "trap")
           \/ /\ d > 0
              /\ SetCur(t, [Cur(t) EXCEPT !.pc = "decr", !.dep = d - 1])
    /\ UNCHANGED <<enabled, next, ring, runtimeVars, top>>

\* Mutant: an empty stack gives its slot back.
DecrementFreeing(t) ==
    /\ At(t, "decr")
    /\ slotDepth' = [slotDepth EXCEPT ![Cur(t).idx] = Cur(t).dep]
    /\ slotTid' = [slotTid EXCEPT ![Cur(t).idx] = IF Cur(t).dep = 0 THEN Zero ELSE @]
    /\ Goto(t, "load")
    /\ UNCHANGED <<enabled, next, ring, retAddr, entryTs, top>>

\* The depth is popped first ...
Decrement(t) ==
    /\ At(t, "decr")
    /\ slotDepth' = [slotDepth EXCEPT ![Cur(t).idx] = Cur(t).dep]
    /\ Goto(t, "load")
    /\ UNCHANGED <<enabled, next, ring, slotTid, retAddr, entryTs, top>>

\* ... and the frame read afterwards.
LoadReturn(t) ==
    /\ At(t, "load")
    /\ SetCur(t, [Cur(t) EXCEPT !.pc = "rclaim",
                                !.addr = retAddr[Cur(t).idx][Cur(t).dep]])
    /\ UNCHANGED <<enabled, next, ring, runtimeVars, top>>

RetClaim(t) ==
    /\ At(t, "rclaim")
    /\ Claim
    /\ SetCur(t, [Cur(t) EXCEPT !.pc = "rfill", !.ev = next])
    /\ UNCHANGED <<enabled, ring, runtimeVars, top>>

\* The record's tid is the slot's, not the one gettid returned.
RetFill(t) ==
    /\ At(t, "rfill")
    /\ ring' = [ring EXCEPT ![Cur(t).ev].tid = slotTid[Cur(t).idx]]
    /\ Goto(t, "rdur")
    /\ UNCHANGED <<enabled, next, runtimeVars, top>>

\* timestamp_ns = now; duration_ns = now - entry_timestamp.
RetDuration(t) ==
    /\ At(t, "rdur")
    /\ ring' = [ring EXCEPT ![Cur(t).ev].ts = Zero]
    /\ SetCur(t, [Cur(t) EXCEPT !.pc = "jump",
                                !.dur = entryTs[Cur(t).idx][Cur(t).dep]])
    /\ UNCHANGED <<enabled, next, runtimeVars, top>>

\* jmp r11.  A thread that lands anywhere but after its call is astray: what
\* it executes from there on is not modelled.
JumpBack(t) ==
    /\ At(t, "jump")
    /\ \/ /\ Cur(t).addr = CallId(t, top[t])
          /\ Pop(t)
       \/ /\ Cur(t).addr # CallId(t, top[t])
          /\ Goto(t, "astray")
          /\ UNCHANGED top
    /\ UNCHANGED <<enabled, next, ring, runtimeVars>>

(***************************************************************************)
(* The environment.                                                        *)
(***************************************************************************)
Astray(t) == top[t] > 0 /\ Cur(t).pc = "astray"

\* A handler interrupts the thread between any two instructions.
Signal(t) == /\ "signal" \in Env
             /\ ~Trapped /\ ~Astray(t)
             /\ top[t] > 0
             /\ Push(t, Fresh(Zero, "body", TRUE))
             /\ UNCHANGED <<enabled, next, ring, runtimeVars>>

\* sigreturn: the thread resumes exactly where it was interrupted.
HandlerReturn(t) == /\ At(t, "body")
                    /\ Cur(t).handler
                    /\ Pop(t)
                    /\ UNCHANGED <<enabled, next, ring, runtimeVars>>

\* longjmp or an exception out of one or more activations, or a thread exit
\* followed by a new thread with the same tid (n = 0).
Longjmp(t) == /\ "longjmp" \in Env
              /\ At(t, "body")
              /\ \E n \in 0..(top[t] - 1) :
                    /\ n > 0 => frame[t][n].pc = "body"
                    /\ top' = [top EXCEPT ![t] = n]
                    /\ frame' = [frame EXCEPT ![t] =
                           [k \in 1..MaxNest |-> IF k > n THEN Idle ELSE @[k]]]
              /\ UNCHANGED <<enabled, next, ring, runtimeVars>>

EntryStub(t) == \/ CheckEnabled(t) \/ ClaimEvent(t) \/ EntryTid(t) \/ EntryTime(t)
                \/ Scan(t) \/ Cas(t) \/ ReadDepth(t) \/ SaveRet(t) \/ SaveTs(t)
                \/ PushDepth(t) \/ SwapReturn(t)
RetStub(t)   == \/ FindSlot(t) \/ RetDepth(t) \/ Decrement(t) \/ LoadReturn(t)
                \/ RetClaim(t) \/ RetFill(t) \/ RetDuration(t) \/ JumpBack(t)
StubStep(t)  == EntryStub(t) \/ RetStub(t)
Target(t)    == \/ \E s \in Sites : Call(t, s)
                \/ ReturnPlain(t) \/ ReturnHooked(t)
                \/ Signal(t) \/ HandlerReturn(t) \/ Longjmp(t)

Next == Toggle \/ \E t \in Threads : StubStep(t) \/ Target(t)

Spec == Init /\ [][Next]_vars

\* The kernel schedules every runnable thread, so a stub that can take its
\* next instruction does; the target need not call or return.
FairSpec == Spec /\ \A t \in Threads : WF_vars(StubStep(t))
-----------------------------------------------------------------------------
(***************************************************************************)
(* Correctness.                                                            *)
(***************************************************************************)
TypeOK == /\ enabled \in BOOLEAN
          /\ next \in Records
          /\ ring \in [Records -> [tid : Threads \cup {Zero}, ts : Words]]
          /\ slotTid \in [SlotIds -> Threads \cup {Zero}]
          /\ slotDepth \in [SlotIds -> 0..Depth]
          /\ retAddr \in [SlotIds -> [FrameIds -> Words]]
          /\ entryTs \in [SlotIds -> [FrameIds -> Words]]
          /\ top \in [Threads -> 0..MaxNest]
          /\ frame \in [Threads -> [1..MaxNest -> Frames]]

\* No thread ever owns two slots of the shadow stack, whatever threads race
\* for the same free slot: the frames of one thread are one stack.
SlotsUnique == \A i, j \in SlotIds :
                  i # j /\ slotTid[i] # Zero => slotTid[i] # slotTid[j]

\* Slots are taken from the lowest index up and are never given back or
\* handed over, so that the search may stop at the first free slot and the
\* two searches of a call find the same one.
SlotsPrefix == \A i, j \in SlotIds :
                  i < j /\ slotTid[j] # Zero => slotTid[i] # Zero
SlotsGrow   == [][\A i \in SlotIds : /\ slotTid[i] # Zero => slotTid'[i] = slotTid[i]
                                     /\ SlotsPrefix']_vars

\* The steps of the entry stub that depend on a record it filled before.
Reading == {"scan", "cas", "depth", "saveRet", "saveTs"}

\* While the entry stub uses its record again, to find its slot and to save
\* the entry timestamp, the record still is the one it filled.
RecordOwn == \A t \in Threads : \A k \in 1..top[t] :
    LET f == frame[t][k] IN
    f.pc \in Reading =>
       ring[f.ev] = [tid |-> t, ts |-> CallId(t, k)]

\* A record that no stub is filling is the record of one call: the thread it
\* names is the thread whose call it timestamps.
RecordWhole == \A e \in Records :
    Unlapped(e) /\ ring[e].ts # Zero => ring[e].ts[1] = ring[e].tid

\* A frame of the shadow stack that the stubs still count, from the store of
\* the incremented depth to the store of the decremented one.
Counted(f) == \/ f.pc = "swap"
              \/ f.hooked /\ f.pc \in {"body", "find", "rdepth", "decr"}
Pending(t) == {k \in 1..top[t] : Counted(frame[t][k])}

\* The depth of a thread's slot is the number of its activations that will
\* return through the return stub, at every instruction of the stubs.
DepthBalanced == \A t \in Threads : \A i \in SlotIds :
    slotTid[i] = t => slotDepth[i] = Cardinality(Pending(t))

\* Weaker: activations that are dropped leave their frames behind, but no
\* activation that will return is ever without one.
DepthCovers == \A t \in Threads : Pending(t) # {} =>
    \E i \in SlotIds : slotTid[i] = t /\ slotDepth[i] >= Cardinality(Pending(t))

\* No stub reaches ud2, that is: the probe never kills the target.
NeverTraps == ~Trapped

\* A return that went through the return stub continues after its own call.
ReturnsToCaller == \A t \in Threads : \A k \in 1..top[t] :
    /\ frame[t][k].pc = "jump" => frame[t][k].addr = CallId(t, k)
    /\ frame[t][k].pc # "astray"

\* The duration of a return event is measured from the entry of that call.
OwnDuration == \A t \in Threads : \A k \in 1..top[t] :
    frame[t][k].pc = "jump" => frame[t][k].dur = CallId(t, k)

\* The target's control flow is what it is without the probe: the stubs
\* implement the plain call and return of CallReturn.
CR == INSTANCE CallReturn
        WITH level <- [t \in Threads |-> IF Astray(t) THEN -1 ELSE top[t]]
Transparent == CR!Spec

\* A thread in a stub leaves it however the other threads interleave: the
\* searches and the compare-and-swap never retry without progress.
InStub(t)   == top[t] > 0 /\ Cur(t).pc \in StubPcs
StubLeaves  == \A t \in Threads : InStub(t) ~> ~InStub(t)
=============================================================================
