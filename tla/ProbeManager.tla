---------------------------- MODULE ProbeManager ----------------------------
(***************************************************************************)
(* The life of probes: the lightprobe commands attach, detach, enable and  *)
(* disable (probe_manager.c), each a process of its own that loads the     *)
(* probe table from the state file, works on the target through ptrace     *)
(* while it holds it stopped, and writes the whole table back.             *)
(*                                                                         *)
(* One action is one call that touches something outside the command: the  *)
(* target's threads, its code, its mappings, the remote config, the state  *)
(* file.  Every call that can fail has its failure as a disjunct, and a    *)
(* command can be killed between any two of them.                          *)
(*                                                                         *)
(* There is one target process.  The bytes at a function's entry are Orig  *)
(* (the program's own) or the base of the runtime that the jmp patched     *)
(* over them leads to.                                                     *)
(***************************************************************************)
EXTENDS Integers

CONSTANTS
    Commands,   \* command processes
    NoCommand,
    Funcs,      \* names a probe can be asked for
    Addrs,      \* function entries in the target
    AddrOf,     \* AddrOf[f]: the address f resolves to, or its --addr
    Bases,      \* addresses mmap can return for a runtime
    Orig,
    MaxProbes,  \* LP_MAX_PROBES
    Serial,     \* commands are run one at a time, as the README asks
    Faults      \* what may go wrong

(***************************************************************************)
(* Faults lists the failures admitted.  "resolve": the symbol is not found *)
(* or a thread cannot be stopped; "decode": the entry cannot be read or    *)
(* its instructions not decoded; "mmap", "munmap": the remote system call  *)
(* fails; "install": a write into the new runtime fails; "patch": the      *)
(* entry stub is out of reach of a rel32 jmp, or the write fails;          *)
(* "restore", "flag": those remote writes fail; "open", "write": the state *)
(* file cannot be opened or not written in full; "crash": a command is     *)
(* killed; "exit": the target exits; "remove": a script removes the state  *)
(* file, the only way on after a short one.                                *)
(***************************************************************************)
FaultKinds == {"resolve", "decode", "mmap", "munmap", "install", "patch",
               "restore", "flag", "open", "write", "crash", "exit", "remove"}

ASSUME ManagerAssumption == /\ NoCommand \notin Commands
                            /\ Orig \notin Bases
                            /\ AddrOf \in [Funcs -> Addrs]
                            /\ MaxProbes \in Nat
                            /\ Serial \in BOOLEAN
                            /\ Faults \subseteq FaultKinds

VARIABLES
    file,     \* the state file: "missing", "short", or "full"
    stored,   \* the table in a full state file
    pc,       \* pc[c]: the next call of command c
    op,       \* op[c]: the subcommand
    func,     \* func[c]: --func
    table,    \* table[c]: g_probe_table
    slot,     \* slot[c]: index of desc in it
    alive,    \* the target runs
    tracer,   \* the command that holds the target's threads stopped
    code,     \* code[a]: the bytes at the function entry a
    runtime,  \* runtime[b]: the mapping at b
    undone    \* functions whose jmp a detach took away before it failed (history)

fileVars   == <<file, stored>>
targetVars == <<alive, tracer, code, runtime, undone>>
vars       == <<file, stored, pc, op, func, table, slot, targetVars>>
-----------------------------------------------------------------------------
Slots     == 0..(MaxProbes - 1)
Code      == Bases \cup {Orig}
Empty     == [used |-> FALSE]
Entries   == [used : {TRUE}, func : Funcs, base : Bases, saved : Code,
              enabled : BOOLEAN]
Tables    == [Slots -> Entries \cup {Empty}]
NoProbes  == [i \in Slots |-> Empty]

\* A mapping: free, mapped (its content still incomplete) or ready, with the
\* enabled flag of its config, the bytes copied into its trampoline and the
\* function entry behind which the trampoline resumes.
Runtimes  == [state : {"free", "mapped", "ready"}, enabled : BOOLEAN,
              trampoline : Code, entry : Addrs \cup {Orig}]
Free      == [state |-> "free", enabled |-> FALSE, trampoline |-> Orig, entry |-> Orig]

\* The steps of a command while it holds the target, and all its steps.
Holding   == {"map", "install", "patch", "restore", "unmap", "resume", "giveUp"}
Pcs       == Holding \cup {"idle", "stop", "flag", "open", "write"}

Fails(kind) == kind \in Faults
Held(c)     == alive /\ tracer = c

At(c, p)    == pc[c] = p
Goto(c, p)  == pc' = [pc EXCEPT ![c] = p]
Desc(c)     == table[c][slot[c]]
Address(c)  == AddrOf[func[c]]
SetDesc(c, e) == table' = [table EXCEPT ![c] = [@ EXCEPT ![slot[c]] = e]]

\* The process exits; nothing of its memory remains.
Forget(c)   == /\ table' = [table EXCEPT ![c] = NoProbes]
               /\ slot' = [slot EXCEPT ![c] = 0]
Exit(c)     == Goto(c, "idle") /\ Forget(c)

\* lp_probe_manager_find and lp_probe_manager_alloc: the lowest index in S.
Lowest(S)   == {i \in S : \A j \in S : i <= j}
-----------------------------------------------------------------------------
Init == /\ file = "missing"
        /\ stored = NoProbes
        /\ pc = [c \in Commands |-> "idle"]
        /\ op = [c \in Commands |-> "attach"]
        /\ func \in {[c \in Commands |-> f] : f \in Funcs}
        /\ table = [c \in Commands |-> NoProbes]
        /\ slot = [c \in Commands |-> 0]
        /\ alive = TRUE
        /\ tracer = NoCommand
        /\ code = [a \in Addrs |-> Orig]
        /\ runtime = [b \in Bases |-> Free]
        /\ undone = {}

(***************************************************************************)
(* main: load the table, dispatch, look the probe up.  With a short file   *)
(* every command exits at once; so does attach when the probe exists or no *)
(* entry is free, and the others when it does not exist.                   *)
(***************************************************************************)

\* Mutant: the table is not cleared when there is no file.
LoadedUncleared == IF file = "full" THEN stored
                   ELSE [i \in Slots |-> [used |-> FALSE, enabled |-> TRUE]]

Loaded == IF file = "full" THEN stored ELSE NoProbes

Start(c, o, f) ==
    /\ At(c, "idle")
    /\ Serial => \A d \in Commands : At(d, "idle")
    /\ file # "short"
    /\ LET named  == {j \in Slots : Loaded[j].used /\ Loaded[j].func = f}
           unused == {j \in Slots : ~Loaded[j].used}
       IN  \/ /\ o = "attach"
              /\ named = {}
              /\ \E i \in Lowest(unused) : slot' = [slot EXCEPT ![c] = i]
              /\ Goto(c, "stop")
           \/ /\ o # "attach"
              /\ \E i \in Lowest(named) : slot' = [slot EXCEPT ![c] = i]
              /\ Goto(c, IF o = "detach" THEN "stop" ELSE "flag")
    /\ op' = [op EXCEPT ![c] = o]
    /\ func' = [func EXCEPT ![c] = f]
    /\ table' = [table EXCEPT ![c] = Loaded]
    /\ UNCHANGED <<fileVars, targetVars>>

\* lp_stop_all_threads (and, for attach, lp_resolve_symbol before it): fails
\* when the target is gone or another process traces it.
Stop(c) ==
    /\ At(c, "stop")
    /\ \/ /\ alive /\ tracer = NoCommand
          /\ tracer' = c
          /\ Goto(c, IF op[c] = "attach" THEN "map" ELSE "restore")
          /\ UNCHANGED <<table, slot>>
       \/ /\ ~alive \/ tracer # NoCommand \/ Fails("resolve")
          /\ Exit(c)
          /\ UNCHANGED tracer
    /\ UNCHANGED <<fileVars, op, func, alive, code, runtime, undone>>

(***************************************************************************)
(* attach.                                                                 *)
(***************************************************************************)
\* lp_x86_64_read_original_code and the mmap of lp_install_remote_runtime:
\* nothing can change the entry's bytes between the two.
ReadAndMap(c) ==
    /\ At(c, "map")
    /\ \/ /\ Held(c)
          /\ \E b \in Bases :
                /\ runtime[b].state = "free"
                /\ runtime' = [runtime EXCEPT ![b] = [Free EXCEPT !.state = "mapped"]]
                /\ SetDesc(c, [used |-> TRUE, func |-> func[c], base |-> b,
                               saved |-> code[Address(c)], enabled |-> TRUE])
          /\ Goto(c, "install")
       \/ /\ \/ ~Held(c) \/ Fails("decode") \/ Fails("mmap")
             \/ \A b \in Bases : runtime[b].state # "free"
          /\ Goto(c, "giveUp")
          /\ UNCHANGED <<table, runtime>>
    /\ UNCHANGED <<fileVars, op, func, slot, alive, tracer, code, undone>>

\* Config (enabled), empty ring and shadow stack, trampoline and stubs.
Install(c) ==
    /\ At(c, "install")
    /\ \/ /\ Held(c)
          /\ runtime' = [runtime EXCEPT ![Desc(c).base] =
                            [state |-> "ready", enabled |-> TRUE,
                             trampoline |-> Desc(c).saved, entry |-> Address(c)]]
          /\ Goto(c, "patch")
       \/ /\ ~Held(c) \/ Fails("install")
          /\ Goto(c, "giveUp")
          /\ UNCHANGED runtime
    /\ UNCHANGED <<fileVars, op, func, table, slot, alive, tracer, code, undone>>

PatchEntry(c) ==
    /\ At(c, "patch")
    /\ \/ /\ Held(c)
          /\ code' = [code EXCEPT ![Address(c)] = Desc(c).base]
          /\ undone' = undone \ {func[c]}
          /\ Goto(c, "resume")
       \/ /\ ~Held(c) \/ Fails("patch")
          /\ Goto(c, "giveUp")
          /\ UNCHANGED <<code, undone>>
    /\ UNCHANGED <<fileVars, op, func, table, slot, alive, tracer, runtime>>

(***************************************************************************)
(* detach.                                                                 *)
(***************************************************************************)
PutBack(c) == code' = [code EXCEPT ![Address(c)] = Desc(c).saved]

\* Mutant: the runtime is unmapped whether or not the code was restored.
RestoreUnchecked(c) ==
    /\ At(c, "restore")
    /\ \/ Held(c) /\ PutBack(c)
       \/ UNCHANGED code
    /\ Goto(c, "unmap")
    /\ UNCHANGED <<fileVars, op, func, table, slot, alive, tracer, runtime, undone>>

\* The bytes go back word by word and the first word has those of the jmp: a
\* restore that fails has changed nothing, or all that the jmp had.
RestoreEntry(c) ==
    /\ At(c, "restore")
    /\ \/ /\ Held(c)
          /\ PutBack(c)
          /\ undone' = undone \ {func[c]}
          /\ Goto(c, "unmap")
       \/ /\ ~Held(c) \/ Fails("restore")
          /\ Goto(c, "giveUp")
          /\ UNCHANGED <<code, undone>>
       \/ /\ Held(c) /\ Fails("restore")
          /\ PutBack(c)
          /\ undone' = undone \cup {func[c]}
          /\ Goto(c, "giveUp")
    /\ UNCHANGED <<fileVars, op, func, table, slot, alive, tracer, runtime>>

\* Best effort: detach goes on whether or not the munmap succeeded.
Unmap(c) ==
    /\ At(c, "unmap")
    /\ \/ /\ Held(c)
          /\ runtime' = [runtime EXCEPT ![Desc(c).base] = Free]
       \/ /\ ~Held(c) \/ Fails("munmap")
          /\ UNCHANGED runtime
    /\ Goto(c, "resume")
    /\ UNCHANGED <<fileVars, op, func, table, slot, alive, tracer, code, undone>>

(***************************************************************************)
(* enable and disable: one remote write, the target not stopped.           *)
(***************************************************************************)
SetEnabled(c) ==
    /\ At(c, "flag")
    /\ LET b == Desc(c).base
           v == op[c] = "enable"
       IN  \/ /\ alive
              /\ runtime[b].state # "free"
              /\ runtime' = [runtime EXCEPT ![b].enabled = v]
              /\ SetDesc(c, [Desc(c) EXCEPT !.enabled = v])
              /\ Goto(c, "open")
              /\ UNCHANGED slot
           \/ /\ ~alive \/ runtime[b].state = "free" \/ Fails("flag")
              /\ Exit(c)
              /\ UNCHANGED runtime
    /\ UNCHANGED <<fileVars, op, func, alive, tracer, code, undone>>

(***************************************************************************)
(* The end of a command: resume the target, and after a success save the   *)
(* table.  A failed command resumes the target and changes nothing else.   *)
(***************************************************************************)
\* Mutant: a path that forgets to resume the target.
LetGoNever(c) == tracer' = tracer

LetGo(c) == tracer' = IF tracer = c THEN NoCommand ELSE tracer

\* Mutant: detach leaves the entry in the table.
ResumeKeeping(c) ==
    /\ At(c, "resume")
    /\ LetGo(c)
    /\ Goto(c, "open")
    /\ UNCHANGED <<fileVars, op, func, table, slot, alive, code, runtime, undone>>

Resume(c) ==
    /\ At(c, "resume")
    /\ LetGo(c)
    /\ IF op[c] = "detach" THEN SetDesc(c, Empty) ELSE UNCHANGED table
    /\ Goto(c, "open")
    /\ UNCHANGED <<fileVars, op, func, slot, alive, code, runtime, undone>>

GiveUp(c) ==
    /\ At(c, "giveUp")
    /\ LetGo(c)
    /\ Exit(c)
    /\ UNCHANGED <<fileVars, op, func, alive, code, runtime, undone>>

\* fopen(.., "wb") empties the file ...
OpenState(c) ==
    /\ At(c, "open")
    /\ \/ /\ file' = "short"
          /\ stored' = NoProbes
          /\ Goto(c, "write")
          /\ UNCHANGED <<table, slot>>
       \/ /\ Fails("open")
          /\ Exit(c)
          /\ UNCHANGED fileVars
    /\ UNCHANGED <<op, func, targetVars>>

\* ... and fwrite and fclose fill it.
WriteState(c) ==
    /\ At(c, "write")
    /\ \/ /\ file' = "full"
          /\ stored' = table[c]
       \/ /\ Fails("write")
          /\ UNCHANGED fileVars
    /\ Exit(c)
    /\ UNCHANGED <<op, func, targetVars>>

(***************************************************************************)
(* The environment.                                                        *)
(***************************************************************************)
\* A killed command: the kernel detaches the threads it traced.
Crash(c) ==
    /\ Fails("crash")
    /\ ~At(c, "idle")
    /\ LetGo(c)
    /\ Exit(c)
    /\ UNCHANGED <<fileVars, op, func, alive, code, runtime, undone>>

TargetExit ==
    /\ Fails("exit")
    /\ alive
    /\ alive' = FALSE
    /\ tracer' = NoCommand
    /\ code' = [a \in Addrs |-> Orig]
    /\ runtime' = [b \in Bases |-> Free]
    /\ undone' = {}
    /\ UNCHANGED <<fileVars, pc, op, func, table, slot>>

\* rm -f of the state file, between two commands.
RemoveState ==
    /\ Fails("remove")
    /\ file # "missing"
    /\ \A c \in Commands : At(c, "idle")
    /\ file' = "missing"
    /\ stored' = NoProbes
    /\ UNCHANGED <<pc, op, func, table, slot, targetVars>>

Command(c) == \/ Stop(c) \/ ReadAndMap(c) \/ Install(c) \/ PatchEntry(c)
              \/ RestoreEntry(c) \/ Unmap(c) \/ SetEnabled(c) \/ Resume(c)
              \/ GiveUp(c) \/ OpenState(c) \/ WriteState(c)

Ops == {"attach", "detach", "enable", "disable"}

Next == \/ \E c \in Commands : \/ \E o \in Ops, f \in Funcs : Start(c, o, f)
                               \/ Command(c)
                               \/ Crash(c)
        \/ TargetExit \/ RemoveState

Spec == Init /\ [][Next]_vars

\* A command that was started runs to its end: none of its calls blocks.
FairSpec == Spec /\ \A c \in Commands : WF_vars(Command(c))
-----------------------------------------------------------------------------
TypeOK == /\ file \in {"missing", "short", "full"}
          /\ stored \in Tables
          /\ pc \in [Commands -> Pcs]
          /\ op \in [Commands -> Ops]
          /\ func \in [Commands -> Funcs]
          /\ table \in [Commands -> Tables]
          /\ slot \in [Commands -> Slots \cup {0}]
          /\ alive \in BOOLEAN
          /\ tracer \in Commands \cup {NoCommand}
          /\ code \in [Addrs -> Code]
          /\ runtime \in [Bases -> Runtimes]
          /\ undone \subseteq Funcs

Quiet    == \A c \in Commands : At(c, "idle")
Recorded == {stored[i] : i \in {j \in Slots : stored[j].used}}

\* Between two commands the state file is exact: the probes it records are the
\* probes that are in the target, each with its own function and runtime, with
\* the flag the target sees and with the program's own bytes to put back.  Only
\* of a probe whose last detach failed in the middle of the restore the jmp is
\* gone; all the rest of it is there, for the next detach to take away.
Consistent ==
    Quiet /\ alive =>
       /\ file # "short"
       /\ \A e \in Recorded :
             /\ code[AddrOf[e.func]] = IF e.func \in undone THEN e.saved ELSE e.base
             /\ runtime[e.base] = [state |-> "ready", enabled |-> e.enabled,
                                   trampoline |-> Orig, entry |-> AddrOf[e.func]]
             /\ e.saved = Orig
       /\ \A a \in Addrs : code[a] # Orig => \E e \in Recorded : AddrOf[e.func] = a
       /\ \A i, j \in Slots : i # j /\ stored[i].used /\ stored[j].used
                                 => stored[i].func # stored[j].func

\* A jmp patched into the target leads to a runtime that is mapped and
\* complete, whatever step a command has reached or failed at.
CodeLeadsSomewhere ==
    \A a \in Addrs : code[a] # Orig => runtime[code[a]].state = "ready"

\* Every failure path lets the target go: it is stopped only while a command
\* is at a step that still resumes it.
NotLeftStopped == tracer # NoCommand => pc[tracer] \in Holding

\* A stopped target runs again.
Resumes == tracer # NoCommand ~> tracer = NoCommand
=============================================================================
