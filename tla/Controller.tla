----------------------------- MODULE Controller -----------------------------
(***************************************************************************)
(* How a command holds its target: stop_all_threads attaches to every      *)
(* thread listed in /proc/<pid>/task (thread_control.c), remote_syscall    *)
(* borrows the leader for an mmap or munmap (remote_syscall.c), the entry  *)
(* is patched, and resume_all_threads detaches.  ProbeManager takes the    *)
(* whole of it as single actions; here the threads of the target go on     *)
(* running, are created, exit and get signals between any two calls.       *)
(*                                                                         *)
(* What ptrace does is modelled after ptrace(2): PTRACE_ATTACH queues a    *)
(* SIGSTOP and returns; a traced thread stops at each signal it takes and  *)
(* reports it, the lowest number first; resumed with signal 0, which is    *)
(* what every PTRACE_CONT and PTRACE_DETACH of the code passes, it never   *)
(* gets that signal.                                                       *)
(***************************************************************************)
EXTENDS Naturals, FiniteSets

CONSTANTS
    Threads,    \* threads that may ever exist in the target
    Leader,     \* the one whose tid is the pid; it stays
    Initial,    \* the threads at the start
    MaxTids,    \* room in attached_tids[]
    Env         \* what the target and the calls may do, of EnvKinds

\* "clone", "exit", "signal": threads create threads, exit, are sent SIGUSR1.
\* "attach": PTRACE_ATTACH refused; "call": any call of remote_syscall fails.
EnvKinds == {"clone", "exit", "signal", "attach", "call"}

ASSUME ControllerAssumption == /\ Leader \in Initial
                               /\ Initial \subseteq Threads
                               /\ IsFiniteSet(Threads)
                               /\ MaxTids \in Nat
                               /\ Env \subseteq EnvKinds

VARIABLES
    state,      \* state[t]: of a thread, or the signal it is stopped at
    pending,    \* pending[t]: signals queued for it
    traced,     \* threads the command is the tracer of
    hung,       \* a SIGSTOP was delivered: the whole process is stopped
    swallowed,  \* threads that lost a SIGUSR1 to the last command (history)
    op,         \* the command: "attach" or "detach"
    pc,         \* its next call
    present,    \* threads there were when the directory was opened (history)
    seen,       \* entries readdir has returned
    cur,        \* tid
    attached,   \* attached_tids[0..attached_count-1]
    code,       \* the byte at the leader's instruction pointer
    regs,       \* the leader's registers: its own, or for the system call
    refused     \* calls to put these back that failed (history)

targetVars == <<state, pending, traced, hung, swallowed>>
scanVars   == <<present, seen, cur, attached>>
borrowVars == <<code, regs, refused>>
vars       == <<targetVars, op, pc, scanVars, borrowVars>>
-----------------------------------------------------------------------------
Stops  == {"STOP", "USR1", "TRAP"}
States == {"none", "running", "dead"} \cup Stops

Live       == {t \in Threads : state[t] \notin {"none", "dead"}}
Stopped(t) == state[t] \in Stops
Runs(t)    == state[t] = "running" /\ ~hung

Scanning  == {"scan", "attach", "wait"}
Borrowing == {"find", "plant", "push", "set", "cont", "trap", "get", "unplant",
              "giveBack", "putCode", "putRegs"}
Holding   == Borrowing \cup {"patch", "resume"}
Pcs       == Scanning \cup Holding \cup {"idle", "abort"}

At(p)      == pc = p
Goto(p)    == pc' = p
Fails(kind) == kind \in Env

\* Threads S go on with signal 0: what they are stopped at is discarded.
Resumed(S) == [t \in Threads |-> IF t \in S /\ Stopped(t) THEN "running" ELSE state[t]]
Discards(S) == {t \in S : state[t] = "USR1"}

\* PTRACE_DETACH of the threads in S.
Detach(S) == /\ state' = Resumed(S)
             /\ swallowed' = swallowed \cup Discards(S)
             /\ traced' = traced \ S
             /\ UNCHANGED <<pending, hung>>

Init == /\ state = [t \in Threads |-> IF t \in Initial THEN "running" ELSE "none"]
        /\ pending = [t \in Threads |-> {}]
        /\ traced = {}
        /\ hung = FALSE
        /\ swallowed = {}
        /\ op = "attach"
        /\ pc = "idle"
        /\ present = {}
        /\ seen = {}
        /\ cur = Leader
        /\ attached = {}
        /\ code = "own"
        /\ regs = "own"
        /\ refused = {}
-----------------------------------------------------------------------------
(***************************************************************************)
(* stop_all_threads.                                                       *)
(***************************************************************************)
\* A command starts on a target that has taken its SIGSTOPs, is not hung and
\* was not left broken by the last one.
OpenDir ==
    /\ At("idle")
    /\ ~hung
    /\ code = "own" /\ regs = "own"
    /\ \A t \in Live : "STOP" \notin pending[t]
    /\ present' = Live
    /\ seen' = {}
    /\ attached' = {}
    /\ refused' = {}
    /\ swallowed' = {}
    /\ op' \in {"attach", "detach"}
    /\ Goto("scan")
    /\ UNCHANGED <<state, pending, traced, hung, cur, code, regs>>

\* Mutant: no limit on the entries recorded.
ReadDirUnlimited(t) ==
    /\ At("scan")
    /\ t \in Live \ seen
    /\ seen' = seen \cup {t}
    /\ Goto("attach")
    /\ cur' = t
    /\ UNCHANGED <<op, targetVars, present, attached, borrowVars>>

\* readdir returns each thread at most once: surely those that are there from
\* opendir on, perhaps those created meanwhile.
ReadDir(t) ==
    /\ At("scan")
    /\ t \in Live \ seen
    /\ seen' = seen \cup {t}
    /\ Goto(IF Cardinality(attached) >= MaxTids THEN "abort" ELSE "attach")
    /\ cur' = t
    /\ UNCHANGED <<op, targetVars, present, attached, borrowVars>>

\* Mutant: the scan ends with the first thread.
EndScanEarly ==
    /\ At("scan")
    /\ Leader \in attached
    /\ Goto("find")
    /\ UNCHANGED <<op, targetVars, scanVars, borrowVars>>

EndScan ==
    /\ At("scan")
    /\ present \cap Live \subseteq seen
    /\ Goto(IF op = "attach" THEN "find" ELSE "patch")
    /\ UNCHANGED <<op, targetVars, scanVars, borrowVars>>

\* PTRACE_ATTACH; a thread that is gone (ESRCH) is passed over.
Attach ==
    /\ At("attach")
    /\ \/ /\ state[cur] = "running"
          /\ traced' = traced \cup {cur}
          /\ pending' = [pending EXCEPT ![cur] = @ \cup {"STOP"}]
          /\ Goto("wait")
       \/ /\ state[cur] = "dead"
          /\ Goto("scan")
          /\ UNCHANGED <<traced, pending>>
       \/ /\ Fails("attach")
          /\ Goto("abort")
          /\ UNCHANGED <<traced, pending>>
    /\ UNCHANGED <<op, state, hung, swallowed, scanVars, borrowVars>>

\* Mutant: the thread is recorded before it has stopped.
WaitNot ==
    /\ At("wait")
    /\ attached' = attached \cup {cur}
    /\ Goto("scan")
    /\ UNCHANGED <<op, targetVars, present, seen, cur, borrowVars>>

\* waitpid of the thread: it stopped, at whichever signal, or it exited, which
\* makes the whole stop fail with EBUSY.  (waitpid itself cannot fail: the
\* thread is a tracee and the command has no signal handlers.)
WaitStop ==
    /\ At("wait")
    /\ \/ /\ Stopped(cur)
          /\ attached' = attached \cup {cur}
          /\ Goto("scan")
          /\ UNCHANGED traced
       \/ /\ state[cur] = "dead"
          /\ traced' = traced \ {cur}
          /\ Goto("abort")
          /\ UNCHANGED attached
    /\ UNCHANGED <<op, state, pending, hung, swallowed, present, seen, cur, borrowVars>>

\* Mutant: a failed stop leaves the threads it has as they are.
AbortKeeping ==
    /\ At("abort")
    /\ Goto("idle")
    /\ UNCHANGED <<op, targetVars, scanVars, borrowVars>>

\* detach_recorded_threads.  Stopped threads do not exit, so each detach
\* succeeds and what the threads let go first do meanwhile changes nothing.
Abort ==
    /\ At("abort")
    /\ Detach(attached)
    /\ Goto("idle")
    /\ UNCHANGED <<op, scanVars, borrowVars>>

\* resume_all_threads: every thread still listed; those created meanwhile are
\* no tracees (ESRCH), which is passed over.
ResumeAll ==
    /\ At("resume")
    /\ Detach(Live)
    /\ Goto("idle")
    /\ UNCHANGED <<op, scanVars, borrowVars>>
-----------------------------------------------------------------------------
(***************************************************************************)
(* remote_syscall.  The leader is sent to a syscall; ret sequence in libc, *)
(* with its own instruction pointer as return address and a breakpoint     *)
(* there.  The word pushed below its stack pointer is not put back.        *)
(***************************************************************************)
\* A call that leads from p to q, or fails and leads to r.
Leads(p, q, r) == At(p) /\ (Goto(q) \/ (Fails("call") /\ Goto(r)))

\* Gadget, PTRACE_GETREGS and remote_read: nothing to put back yet.
Find == /\ Leads("find", "plant", "resume")
        /\ UNCHANGED <<op, targetVars, scanVars, borrowVars>>

\* Mutant: the breakpoint is not written.
PlantNothing == /\ Leads("plant", "push", "putCode")
                /\ UNCHANGED <<op, targetVars, scanVars, borrowVars>>

Plant == /\ Leads("plant", "push", "putCode")
         /\ code' = IF pc' = "push" THEN "int3" ELSE code
         /\ UNCHANGED <<op, targetVars, scanVars, regs, refused>>

PushReturn == /\ Leads("push", "set", "putCode")
              /\ UNCHANGED <<op, targetVars, scanVars, borrowVars>>

SetRegs == /\ Leads("set", "cont", "putCode")
           /\ regs' = IF pc' = "cont" THEN "call" ELSE regs
           /\ UNCHANGED <<op, targetVars, scanVars, code, refused>>

Continue ==
    /\ Leads("cont", "trap", "putCode")
    /\ IF pc' = "trap"
       THEN /\ state' = Resumed({Leader})
            /\ swallowed' = swallowed \cup Discards({Leader})
       ELSE UNCHANGED <<state, swallowed>>
    /\ UNCHANGED <<op, pending, traced, hung, scanVars, borrowVars>>

\* Mutant: an unexpected stop ends the call without putting anything back.
WaitTrapBare ==
    /\ At("trap")
    /\ Stopped(Leader)
    /\ Goto(IF state[Leader] = "TRAP" THEN "get" ELSE "resume")
    /\ UNCHANGED <<op, targetVars, scanVars, borrowVars>>

\* A stop at another signal than SIGTRAP ends the call with EFAULT.
WaitTrap ==
    /\ At("trap")
    /\ Stopped(Leader)
    /\ Goto(IF state[Leader] = "TRAP" THEN "get" ELSE "putCode")
    /\ UNCHANGED <<op, targetVars, scanVars, borrowVars>>

GetRegs == /\ Leads("get", "unplant", "putCode")
           /\ UNCHANGED <<op, targetVars, scanVars, borrowVars>>

Unplant ==
    /\ Leads("unplant", "giveBack", "putRegs")
    /\ IF pc' = "giveBack" THEN code' = "own" /\ UNCHANGED refused
       ELSE refused' = refused \cup {"code"} /\ UNCHANGED code
    /\ UNCHANGED <<op, targetVars, scanVars, regs>>

\* After it attach goes on to install the runtime and patch the entry.
GiveBack ==
    /\ At("giveBack")
    /\ \/ /\ regs' = "own"
          /\ Goto(IF op = "attach" THEN "patch" ELSE "resume")
          /\ UNCHANGED refused
       \/ /\ Fails("call")
          /\ refused' = refused \cup {"regs"}
          /\ Goto("resume")
          /\ UNCHANGED regs
    /\ UNCHANGED <<targetVars, op, scanVars, code>>

\* restore_remote_state_best_effort: two calls whose failures are ignored.
PutCode ==
    /\ At("putCode")
    /\ Goto("putRegs")
    /\ \/ /\ code' = "own" /\ UNCHANGED refused
       \/ /\ Fails("call") /\ refused' = refused \cup {"code"} /\ UNCHANGED code
    /\ UNCHANGED <<op, targetVars, scanVars, regs>>

PutRegs ==
    /\ At("putRegs")
    /\ Goto("resume")
    /\ \/ /\ regs' = "own" /\ UNCHANGED refused
       \/ /\ Fails("call") /\ refused' = refused \cup {"regs"} /\ UNCHANGED regs
    /\ UNCHANGED <<op, targetVars, scanVars, code>>

\* Patching or restoring the entry, which ProbeManager models.  Detach unmaps the
\* runtime once the entry is restored.
Patch == /\ Leads("patch", IF op = "attach" THEN "resume" ELSE "find", "resume")
         /\ UNCHANGED <<targetVars, op, scanVars, borrowVars>>
-----------------------------------------------------------------------------
(***************************************************************************)
(* The target and its kernel.                                              *)
(***************************************************************************)
Clone(t, u) ==
    /\ "clone" \in Env
    /\ Runs(t)
    /\ state[u] = "none"
    /\ state' = [state EXCEPT ![u] = "running"]
    /\ UNCHANGED <<op, pending, traced, hung, swallowed, pc, scanVars, borrowVars>>

\* A thread may exit before it takes the SIGSTOP of PTRACE_ATTACH.
ExitThread(t) ==
    /\ "exit" \in Env
    /\ t # Leader
    /\ Runs(t)
    /\ state' = [state EXCEPT ![t] = "dead"]
    /\ pending' = [pending EXCEPT ![t] = {}]
    /\ UNCHANGED <<op, traced, hung, swallowed, pc, scanVars, borrowVars>>

Signal(t) ==
    /\ "signal" \in Env
    /\ t \in Live
    /\ "USR1" \notin pending[t]
    /\ pending' = [pending EXCEPT ![t] = @ \cup {"USR1"}]
    /\ UNCHANGED <<op, state, traced, hung, swallowed, pc, scanVars, borrowVars>>

\* SIGUSR1 is 10, SIGSTOP 19.
Next1(t) == IF "USR1" \in pending[t] THEN "USR1" ELSE "STOP"

\* A tracee stops and reports; another thread runs its handler, or stops the
\* process.
Take(t) ==
    /\ Runs(t)
    /\ pending[t] # {}
    /\ pending' = [pending EXCEPT ![t] = @ \ {Next1(t)}]
    /\ IF t \in traced
       THEN state' = [state EXCEPT ![t] = Next1(t)] /\ UNCHANGED hung
       ELSE hung' = (Next1(t) = "STOP") /\ UNCHANGED state
    /\ UNCHANGED <<op, traced, swallowed, pc, scanVars, borrowVars>>

\* The leader has made the system call and runs into the breakpoint.
Breakpoint ==
    /\ Runs(Leader)
    /\ regs = "call"
    /\ code = "int3"
    /\ Leader \in traced
    /\ state' = [state EXCEPT ![Leader] = "TRAP"]
    /\ UNCHANGED <<op, pending, traced, hung, swallowed, pc, scanVars, borrowVars>>

Command == \/ \E t \in Threads : ReadDir(t)
           \/ EndScan \/ Attach \/ WaitStop \/ Abort \/ ResumeAll
           \/ Find \/ Plant \/ PushReturn \/ SetRegs \/ Continue \/ WaitTrap
           \/ GetRegs \/ Unplant \/ GiveBack \/ PutCode \/ PutRegs \/ Patch

Target == \/ \E t \in Threads : \/ \E u \in Threads : Clone(t, u)
                                \/ ExitThread(t) \/ Signal(t) \/ Take(t)
          \/ Breakpoint

Next == OpenDir \/ Command \/ Target

Spec == Init /\ [][Next]_vars

\* A started command goes on, and the kernel schedules the target's threads.
FairSpec == /\ Spec
            /\ WF_vars(Command)
            /\ \A t \in Threads : WF_vars(Take(t))
            /\ WF_vars(Breakpoint)
-----------------------------------------------------------------------------
TypeOK == /\ state \in [Threads -> States]
          /\ pending \in [Threads -> SUBSET {"STOP", "USR1"}]
          /\ traced \subseteq Threads
          /\ hung \in BOOLEAN
          /\ swallowed \subseteq Threads
          /\ op \in {"attach", "detach"}
          /\ pc \in Pcs
          /\ present \subseteq Threads
          /\ seen \subseteq Threads
          /\ cur \in Threads
          /\ attached \subseteq Threads
          /\ Cardinality(attached) <= MaxTids
          /\ code \in {"own", "int3"}
          /\ regs \in {"own", "call"}
          /\ refused \subseteq {"code", "regs"}

\* While a command holds the target to change its code, every thread that was
\* there when the scan began is stopped, but for the leader in the borrowed
\* system call.  A thread created during the scan may run.
HeldStill ==
    pc \in Holding => \A t \in present \cap Live :
                         Stopped(t) \/ (t = Leader /\ At("trap"))

\* A command that is over is the tracer of no thread, whatever failed or
\* exited, and no thread is stopped for it.
NoTracee == At("idle") => traced = {} /\ \A t \in Threads : ~Stopped(t)

\* Whichever step of a remote system call failed, the leader gets back its
\* code and its registers, unless the very call to put them back was refused.
PutBack == At("resume") => /\ "code" \notin refused => code = "own"
                           /\ "regs" \notin refused => regs = "own"

\* The target is left stopped only where a signal was swallowed instead of
\* the SIGSTOP of PTRACE_ATTACH.
HungForSignal == hung => swallowed # {}

\* Every command comes to its end: no wait for a thread lasts forever.
Ends == pc # "idle" ~> pc = "idle"

\* No command leaves the target stopped.
NeverHung == ~hung
=============================================================================
