-------------------------- MODULE ControllerProofs --------------------------
(***************************************************************************)
(* For any number of threads and whatever fails, exits or is created:      *)
(* while a command holds the target the threads found stay stopped, and    *)
(* when it is over it traces none.  Neither is inductive.  HeldInv adds    *)
(* which threads the command traces and has recorded at each of its steps, *)
(* and that a recorded thread is stopped, so that it cannot exit; LeftInv  *)
(* adds what is due to the target at each step: the SIGSTOPs on their way, *)
(* and the code and registers of the leader.                               *)
(***************************************************************************)
EXTENDS Controller, TLAPS, FiniteSetTheorems

\* The thread the scan is busy with.
Busy == IF pc \in {"attach", "wait"} THEN {cur} ELSE {}

Room == pc \in {"attach", "wait"} => Cardinality(attached) < MaxTids

\* Tracees are the recorded threads and the one just attached to.
Tracees == /\ \A t \in Threads : Stopped(t) => t \in traced
           /\ At("idle") => traced = {}
           /\ traced \subseteq attached \cup (IF At("wait") THEN {cur} ELSE {})

RecordedStopped ==
    ~At("idle") => \A t \in attached : Stopped(t) \/ (t = Leader /\ At("trap"))

\* Whoever was listed and lives is recorded.
Listed == /\ \A t \in seen \cup present : state[t] # "none"
          /\ pc \in Scanning => seen \cap Live \subseteq attached \cup Busy
          /\ pc \in Holding => present \cap Live \subseteq attached

HeldInv == TypeOK /\ Room /\ Tracees /\ RecordedStopped /\ Listed

LEMMA InitHeld == Init => HeldInv
<1> SUFFICES ASSUME Init PROVE HeldInv
    OBVIOUS
<1>1. Cardinality(attached) = 0
      BY FS_EmptySet DEF Init
<1>2. TypeOK
  <2>1. Cardinality(attached) <= MaxTids
        BY <1>1, ControllerAssumption
  <2>2. /\ state \in [Threads -> States]
        /\ pending \in [Threads -> SUBSET {"STOP", "USR1"}]
        BY DEF Init, States
  <2>3. cur \in Threads /\ pc \in Pcs
        BY ControllerAssumption DEF Init, Pcs
  <2> QED BY <2>1, <2>2, <2>3 DEF Init, TypeOK
<1>3. Room /\ Tracees /\ RecordedStopped /\ Listed
      BY DEF Init, Room, Tracees, RecordedStopped, Listed, Stops, Stopped, Scanning,
             Holding, Borrowing, At
<1> QED BY <1>2, <1>3 DEF HeldInv

\* The steps of the target keep HeldInv: a thread that stops is a tracee, one
\* that exits was not stopped and so not recorded, one that is created has not
\* been listed.  None of them moves the command on.
LEMMA TargetHeld == HeldInv /\ Target => HeldInv'
<1> SUFFICES ASSUME HeldInv, Target PROVE HeldInv'
    OBVIOUS
<1>1. ASSUME NEW t \in Threads, NEW u \in Threads, Clone(t, u) PROVE HeldInv'
  <2> USE <1>1 DEF Clone, scanVars, borrowVars, HeldInv
  <2>1. TypeOK'
        BY DEF TypeOK, States, Pcs
  <2>2. Room'
        BY DEF Room
  <2>3. Tracees'
        BY DEF TypeOK, Tracees, Stopped, Stops, At
  <2>4. RecordedStopped'
        BY DEF TypeOK, RecordedStopped, Stopped, Stops, At
  <2>5. Listed'
        BY DEF TypeOK, Listed, Live, Busy, At
  <2> QED BY <2>1, <2>2, <2>3, <2>4, <2>5
<1>2. ASSUME NEW t \in Threads, ExitThread(t) PROVE HeldInv'
  <2> USE <1>2 DEF ExitThread, scanVars, borrowVars, HeldInv
  <2>1. TypeOK'
        BY DEF TypeOK, States, Pcs
  <2>2. Room'
        BY DEF Room
  <2>3. Tracees'
        BY DEF TypeOK, Tracees, Stopped, Stops, At
  <2>4. RecordedStopped'
        BY DEF TypeOK, RecordedStopped, Stopped, Stops, At, Runs
  <2>5. Listed'
        BY DEF TypeOK, Listed, Live, Busy, At
  <2> QED BY <2>1, <2>2, <2>3, <2>4, <2>5
<1>3. ASSUME NEW t \in Threads, Signal(t) PROVE HeldInv'
  <2> USE <1>3 DEF Signal, scanVars, borrowVars, HeldInv
  <2>1. TypeOK'
        BY DEF TypeOK
  <2>2. Room' /\ Tracees' /\ RecordedStopped' /\ Listed'
        BY DEF Room, Tracees, RecordedStopped, Listed, Stopped, Live, Busy, At
  <2> QED BY <2>1, <2>2
<1>4. ASSUME NEW t \in Threads, Take(t) PROVE HeldInv'
  <2> USE <1>4 DEF Take, scanVars, borrowVars, HeldInv
  <2>1. Next1(t) \in Stops /\ Next1(t) \notin {"none", "running", "dead"}
        BY DEF Next1, Stops
  <2>2. \/ t \in traced /\ state' = [state EXCEPT ![t] = Next1(t)]
        \/ state' = state
        OBVIOUS
  <2>3. TypeOK'
    <3>1. state' \in [Threads -> States]
          BY <2>1, <2>2 DEF TypeOK, States
    <3>2. pending' \in [Threads -> SUBSET {"STOP", "USR1"}]
          BY DEF TypeOK
    <3>3. hung' \in BOOLEAN
          BY DEF TypeOK
    <3> QED BY <3>1, <3>2, <3>3 DEF TypeOK
  <2>4. Live' = Live
        BY <2>1, <2>2 DEF TypeOK, Live, Runs
  <2>5. \A u \in Threads : /\ Stopped(u) => Stopped(u)'
                           /\ Stopped(u)' => Stopped(u) \/ u \in traced
                           /\ state[u] # "none" => state'[u] # "none"
        BY <2>1, <2>2 DEF TypeOK, Stopped
  <2>6. Room'
        BY DEF Room
  <2>7. Tracees'
        BY <2>5 DEF Tracees, At
  <2>8. RecordedStopped'
        BY <2>5 DEF TypeOK, RecordedStopped, At
  <2>9. Listed'
        BY <2>4, <2>5 DEF TypeOK, Listed, Busy
  <2> QED BY <2>3, <2>6, <2>7, <2>8, <2>9
<1>5. CASE Breakpoint
  <2> USE <1>5, ControllerAssumption DEF Breakpoint, scanVars, borrowVars, HeldInv
  <2>1. TypeOK'
        BY DEF TypeOK, States, Stops
  <2>2. Live' = Live
        BY DEF TypeOK, Live, Runs
  <2>3. \A u \in Threads : /\ Stopped(u) => Stopped(u)'
                           /\ Stopped(u)' => Stopped(u) \/ u \in traced
                           /\ state[u] # "none" => state'[u] # "none"
        BY DEF TypeOK, Stopped, Stops
  <2>4. Room'
        BY DEF Room
  <2>5. Tracees'
        BY <2>3 DEF Tracees, At
  <2>6. RecordedStopped'
        BY <2>3 DEF TypeOK, RecordedStopped, At
  <2>7. Listed'
        BY <2>2, <2>3 DEF TypeOK, Listed, Busy
  <2> QED BY <2>1, <2>4, <2>5, <2>6, <2>7
<1> QED BY <1>1, <1>2, <1>3, <1>4, <1>5 DEF Target

\* The steps of the scan: a thread is recorded once it has stopped, and let go
\* again by Abort.
LEMMA ScanHeld ==
    HeldInv /\ (OpenDir \/ (\E t \in Threads : ReadDir(t)) \/ EndScan \/ Attach
                \/ WaitStop \/ Abort) => HeldInv'
<1> SUFFICES ASSUME HeldInv,
                    OpenDir \/ (\E t \in Threads : ReadDir(t)) \/ EndScan \/ Attach
                            \/ WaitStop \/ Abort
             PROVE  HeldInv'
    OBVIOUS
<1> USE DEF HeldInv, At, Goto, targetVars, borrowVars, scanVars
<1>a. IsFiniteSet(attached)
      BY ControllerAssumption, FS_Subset DEF TypeOK
<1>1. CASE OpenDir
  <2> USE <1>1 DEF OpenDir
  <2>1. attached' = {} /\ Cardinality(attached') = 0
        BY FS_EmptySet
  <2>2. TypeOK'
        BY <2>1, ControllerAssumption DEF TypeOK, Pcs, Scanning, Live
  <2>3. Room' /\ RecordedStopped'
        BY DEF Room, RecordedStopped
  <2>4. Tracees'
        BY DEF Tracees, Stopped
  <2>5. Listed'
        BY DEF TypeOK, Listed, Live, Busy, Scanning, Holding, Borrowing
  <2> QED BY <2>2, <2>3, <2>4, <2>5
<1>2. ASSUME NEW t \in Threads, ReadDir(t) PROVE HeldInv'
  <2> USE <1>2 DEF ReadDir
  <2>1. TypeOK'
        BY DEF TypeOK, Pcs, Scanning
  <2>2. Room'
        BY <1>a, FS_CardinalityType, ControllerAssumption DEF Room
  <2>3. Tracees'
        BY DEF Tracees, Stopped
  <2>4. RecordedStopped'
        BY DEF RecordedStopped, Stopped, TypeOK
  <2>5. Listed'
        BY DEF TypeOK, Listed, Live, Busy, Scanning, Holding, Borrowing
  <2> QED BY <2>1, <2>2, <2>3, <2>4, <2>5
<1>3. CASE EndScan
  <2> USE <1>3 DEF EndScan
  <2>1. TypeOK'
        BY DEF TypeOK, Pcs, Holding, Borrowing
  <2>2. Room'
        BY DEF Room
  <2>3. Tracees'
        BY DEF Tracees, Stopped
  <2>4. RecordedStopped'
        BY DEF RecordedStopped, Stopped, TypeOK
  <2>5. Listed'
        BY DEF TypeOK, Listed, Live, Busy, Scanning, Holding, Borrowing
  <2> QED BY <2>1, <2>2, <2>3, <2>4, <2>5
<1>4. CASE Attach
  <2> USE <1>4 DEF Attach
  <2>1. TypeOK'
        BY DEF TypeOK, Pcs, Scanning
  <2>2. Room'
        BY DEF Room
  <2>3. Tracees'
        BY DEF Tracees, Stopped
  <2>4. RecordedStopped'
        BY DEF RecordedStopped, Stopped, TypeOK
  <2>5. Listed'
        BY DEF TypeOK, Listed, Live, Busy, Scanning, Holding, Borrowing
  <2> QED BY <2>1, <2>2, <2>3, <2>4, <2>5
<1>5. CASE WaitStop
  <2> USE <1>5 DEF WaitStop
  <2>1. Cardinality(attached) < MaxTids /\ Cardinality(attached) \in Nat
        BY <1>a, FS_CardinalityType DEF Room
  <2>2. Cardinality(attached \cup {cur}) \in {Cardinality(attached), Cardinality(attached) + 1}
        BY <1>a, FS_AddElement
  <2>3. Cardinality(attached \cup {cur}) <= MaxTids
        BY <2>1, <2>2, ControllerAssumption
  <2>4. TypeOK'
        BY <2>3 DEF TypeOK, Pcs, Scanning
  <2>5. Room'
        BY DEF Room
  <2>6. Tracees'
        BY DEF Tracees, Stopped, Stops
  <2>7. RecordedStopped'
        BY DEF RecordedStopped, Stopped, TypeOK
  <2>8. Listed'
        BY DEF TypeOK, Listed, Live, Busy, Scanning, Holding, Borrowing
  <2> QED BY <2>4, <2>5, <2>6, <2>7, <2>8
<1>6. CASE Abort
  <2> USE <1>6 DEF Abort, Detach, Resumed
  <2>1. TypeOK'
        BY DEF TypeOK, Pcs, States, Discards
  <2>2. Room' /\ RecordedStopped'
        BY DEF Room, RecordedStopped
  <2>3. Tracees'
        BY DEF TypeOK, Tracees, Stopped, Stops
  <2>4. Listed'
        BY DEF TypeOK, Listed, Scanning, Holding, Borrowing
  <2> QED BY <2>1, <2>2, <2>3, <2>4
<1> QED BY <1>1, <1>2, <1>3, <1>4, <1>5, <1>6

\* The steps that hold the target: only the leader goes on, between Continue
\* and WaitTrap, and ResumeAll finds every recorded thread alive.
LEMMA BorrowHeld ==
    HeldInv /\ (Find \/ Plant \/ PushReturn \/ SetRegs \/ Continue \/ WaitTrap
                \/ GetRegs \/ Unplant \/ GiveBack \/ PutCode \/ PutRegs \/ Patch
                \/ ResumeAll) => HeldInv'
<1> SUFFICES ASSUME HeldInv,
                    Find \/ Plant \/ PushReturn \/ SetRegs \/ Continue \/ WaitTrap
                    \/ GetRegs \/ Unplant \/ GiveBack \/ PutCode \/ PutRegs \/ Patch
                    \/ ResumeAll
             PROVE  HeldInv'
    OBVIOUS
<1> USE DEF HeldInv, At, Goto, targetVars, borrowVars, scanVars
\* The calls that leave the threads alone lead from one step of Holding to another.
<1>a. ASSUME UNCHANGED <<targetVars, scanVars, op>>,
             pc \in Holding \ {"trap"}, pc' \in Holding \ {"trap"},
             code' \in {"own", "int3"}, regs' \in {"own", "call"},
             refused' \subseteq {"code", "regs"}
      PROVE  HeldInv'
  <2> USE <1>a
  <2>1. pc # "idle" /\ pc' # "idle" /\ pc' \notin {"attach", "wait"} /\ pc' \notin Scanning
        BY DEF Holding, Borrowing, Scanning
  <2>2. TypeOK'
        BY DEF TypeOK, Pcs
  <2>3. Room' /\ Listed'
        BY <2>1 DEF TypeOK, Room, Listed, Live
  <2>4. Tracees' /\ RecordedStopped'
        BY <2>1 DEF Tracees, RecordedStopped, Stopped, Holding, Borrowing
  <2> QED BY <2>2, <2>3, <2>4
<1>1. CASE Find \/ Plant \/ PushReturn
      BY <1>1, <1>a DEF Find, Plant, PushReturn, Leads, Holding, Borrowing, TypeOK
<1>2. CASE SetRegs \/ GetRegs \/ Unplant
      BY <1>2, <1>a DEF SetRegs, GetRegs, Unplant, Leads, Holding, Borrowing, TypeOK
<1>3. CASE PutCode \/ PutRegs
      BY <1>3, <1>a DEF PutCode, PutRegs, Holding, Borrowing, TypeOK
<1>4. CASE Patch \/ GiveBack
      BY <1>4, <1>a DEF Patch, GiveBack, Leads, Holding, Borrowing, TypeOK
<1>5. CASE Continue
  <2> USE <1>5, ControllerAssumption DEF Continue, Leads, Resumed
  <2>1. TypeOK'
        BY DEF TypeOK, Pcs, Holding, Borrowing, States, Discards
  <2>2. Room'
        BY DEF Room
  <2>3. Tracees'
        BY DEF TypeOK, Tracees, Stopped, Stops
  <2>4. RecordedStopped'
        BY DEF TypeOK, RecordedStopped, Stopped, Stops
  <2>5. Listed'
        BY DEF TypeOK, Listed, Live, Stopped, Stops, Scanning, Holding, Borrowing
  <2> QED BY <2>1, <2>2, <2>3, <2>4, <2>5
<1>6. CASE WaitTrap
  <2> USE <1>6 DEF WaitTrap
  <2>1. TypeOK' /\ Room'
        BY DEF TypeOK, Pcs, Holding, Borrowing, Room
  <2>2. Tracees' /\ RecordedStopped'
        BY DEF Tracees, RecordedStopped, Stopped
  <2>3. Listed'
        BY DEF TypeOK, Listed, Live, Scanning, Holding, Borrowing
  <2> QED BY <2>1, <2>2, <2>3
<1>7. CASE ResumeAll
  <2> USE <1>7 DEF ResumeAll, Detach, Resumed
  <2>1. TypeOK'
        BY DEF TypeOK, Pcs, States, Discards, Live
  <2>2. Room' /\ RecordedStopped'
        BY DEF Room, RecordedStopped
  <2>3. attached \subseteq Live
        BY DEF TypeOK, RecordedStopped, Stopped, Stops, Live
  <2>4. Tracees'
        BY <2>3 DEF TypeOK, Tracees, Stopped, Stops, Live
  <2>5. Listed'
        BY DEF TypeOK, Listed, Scanning, Holding, Borrowing
  <2> QED BY <2>1, <2>2, <2>4, <2>5
<1> QED BY <1>1, <1>2, <1>3, <1>4, <1>5, <1>6, <1>7

LEMMA NextHeld == HeldInv /\ [Next]_vars => HeldInv'
<1> SUFFICES ASSUME HeldInv, [Next]_vars PROVE HeldInv'
    OBVIOUS
<1>1. CASE Next
      BY <1>1, TargetHeld, ScanHeld, BorrowHeld DEF Next, Command
<1>2. CASE UNCHANGED vars
      BY <1>2 DEF vars, targetVars, scanVars, borrowVars, HeldInv, TypeOK, Room,
         Tracees, RecordedStopped, Listed, Stopped, At, Live, Busy
<1> QED BY <1>1, <1>2

LEMMA Held == Spec => []HeldInv
BY InitHeld, NextHeld, PTL DEF Spec

\* While a command holds the target, every thread that was there when the scan
\* began is stopped, but for the leader inside the borrowed system call.
THEOREM ThreadsHeldStill == Spec => []HeldStill
<1>1. HeldInv => HeldStill
      BY DEF HeldInv, TypeOK, Listed, RecordedStopped, HeldStill, Holding, Borrowing,
             At, Live
<1> QED BY <1>1, Held, PTL

\* A command that is over, after whatever failure, traces no thread and leaves
\* none in a ptrace stop.
THEOREM AllLetGo == Spec => []NoTracee
<1>1. HeldInv => NoTracee
      BY DEF HeldInv, Tracees, NoTracee, At
<1> QED BY <1>1, Held, PTL
-----------------------------------------------------------------------------
\* A SIGSTOP still on its way to a thread: it is waited for, or a SIGUSR1 was
\* reported in its place, or swallowed already.
StopsDue == /\ hung => swallowed # {}
            /\ \A t \in Threads :
                  "STOP" \in pending[t] =>
                     /\ t \in Live
                     /\ \/ swallowed # {}
                        \/ state[t] = "USR1"
                        \/ At("wait") /\ t = cur /\ state[t] = "running" /\ t \in traced

\* Where the leader has its own code and registers.
Due == /\ pc \in Scanning \cup {"find", "plant", "giveBack", "patch"} => code = "own"
       /\ pc \in Scanning \cup {"find", "plant", "push", "set", "patch"} => regs = "own"
       /\ pc \in {"putRegs", "resume"} => code = "own" \/ "code" \in refused
       /\ pc = "resume" => regs = "own" \/ "regs" \in refused

LeftInv == HeldInv /\ StopsDue /\ Due

LEMMA InitLeft == Init => LeftInv
BY InitHeld DEF Init, LeftInv, StopsDue, Due

LEMMA NextDue == HeldInv /\ Due /\ Next => Due'
<1> SUFFICES ASSUME HeldInv, Due, Next PROVE Due'
    OBVIOUS
<1> USE DEF Due, Scanning, At, Goto, scanVars, borrowVars
<1>1. CASE OpenDir
      BY <1>1 DEF OpenDir
<1>2. CASE Target
      BY <1>2 DEF Target, Clone, ExitThread, Signal, Take, Breakpoint
<1>3. CASE Command
  <2>1. CASE \/ \E t \in Threads : ReadDir(t)
             \/ EndScan \/ Attach \/ WaitStop \/ Abort \/ ResumeAll
        BY <2>1 DEF ReadDir, EndScan, Attach, WaitStop, Abort, ResumeAll
  <2>2. CASE Find \/ Plant \/ PushReturn \/ SetRegs \/ Continue \/ WaitTrap \/ GetRegs
        BY <2>2 DEF Find, Plant, PushReturn, SetRegs, Continue, WaitTrap, GetRegs, Leads
  <2>3. CASE Unplant \/ GiveBack \/ PutCode \/ PutRegs \/ Patch
        BY <2>3 DEF Unplant, GiveBack, PutCode, PutRegs, Patch, Leads
  <2> QED BY <1>3, <2>1, <2>2, <2>3 DEF Command
<1> QED BY <1>1, <1>2, <1>3 DEF Next

\* The SIGSTOP of PTRACE_ATTACH is either what the thread stops at, or comes
\* after a SIGUSR1 that the tracer then discards.
LEMMA NextStopsDue == LeftInv /\ Next => StopsDue'
<1> SUFFICES ASSUME LeftInv, Next PROVE StopsDue'
    OBVIOUS
<1> USE DEF LeftInv, HeldInv, TypeOK, Tracees, StopsDue, Stopped, Stops, Live, At,
        Goto, targetVars, scanVars, borrowVars
<1>1. CASE OpenDir
      BY <1>1 DEF OpenDir
<1>2. CASE Target
  <2>1. ASSUME NEW t \in Threads, NEW u \in Threads, Clone(t, u) PROVE StopsDue'
        BY <2>1 DEF Clone
  <2>2. ASSUME NEW t \in Threads, ExitThread(t) PROVE StopsDue'
        BY <2>2 DEF ExitThread
  <2>3. ASSUME NEW t \in Threads, Signal(t) PROVE StopsDue'
        BY <2>3 DEF Signal
  <2>4. ASSUME NEW t \in Threads, Take(t) PROVE StopsDue'
        BY <2>4 DEF Take, Next1, Runs
  <2>5. CASE Breakpoint
        BY <2>5, ControllerAssumption DEF Breakpoint, Runs, Due, Scanning
  <2> QED BY <1>2, <2>1, <2>2, <2>3, <2>4, <2>5 DEF Target
<1>3. CASE Command
  <2>1. ASSUME NEW t \in Threads, ReadDir(t) PROVE StopsDue'
        BY <2>1 DEF ReadDir
  <2>2. CASE EndScan
        BY <2>2 DEF EndScan
  <2>3. CASE Attach
        BY <2>3 DEF Attach
  <2>4. CASE WaitStop
        BY <2>4 DEF WaitStop
  <2>5. CASE Abort
        BY <2>5 DEF Abort, Detach, Resumed, Discards, RecordedStopped
  <2>6. CASE ResumeAll
        BY <2>6 DEF ResumeAll, Detach, Resumed, Discards
  <2>7. CASE Continue
        BY <2>7, ControllerAssumption DEF Continue, Leads, Resumed, Discards
  <2>8. CASE \/ Find \/ Plant \/ PushReturn \/ SetRegs \/ WaitTrap \/ GetRegs
             \/ Unplant \/ GiveBack \/ PutCode \/ PutRegs \/ Patch
        BY <2>8 DEF Find, Plant, PushReturn, SetRegs, WaitTrap, GetRegs, Unplant,
           GiveBack, PutCode, PutRegs, Patch, Leads
  <2> QED BY <1>3, <2>1, <2>2, <2>3, <2>4, <2>5, <2>6, <2>7, <2>8 DEF Command
<1> QED BY <1>1, <1>2, <1>3 DEF Next

LEMMA Left == Spec => []LeftInv
<1>1. LeftInv /\ [Next]_vars => LeftInv'
  <2>1. LeftInv /\ Next => LeftInv'
        BY NextHeld, NextDue, NextStopsDue DEF LeftInv
  <2>2. LeftInv /\ UNCHANGED vars => LeftInv'
        BY NextHeld DEF LeftInv, StopsDue, Due, vars, targetVars, scanVars, borrowVars,
           Live, At
  <2> QED BY <2>1, <2>2
<1> QED BY <1>1, InitLeft, PTL DEF Spec

\* A command leaves the target stopped only where a thread of it lost a signal
\* to the command: with no signals sent, every target goes on.
THEOREM StoppedForSignal == Spec => []HungForSignal
<1>1. LeftInv => HungForSignal
      BY DEF LeftInv, StopsDue, HungForSignal
<1> QED BY <1>1, Left, PTL

\* Whichever call of a remote system call failed, the leader's code and its
\* registers are put back, unless that very call was refused.
THEOREM LeaderPutBack == Spec => []PutBack
<1>1. LeftInv => PutBack
      BY DEF LeftInv, Due, PutBack, At
<1> QED BY <1>1, Left, PTL

\* Every variable keeps its type, and no more threads are recorded than there
\* is room for.
THEOREM ControllerTypes == Spec => []TypeOK
<1>1. HeldInv => TypeOK
      BY DEF HeldInv
<1> QED BY <1>1, Held, PTL
=============================================================================
