# lightprobe: verification project

lightprobe attaches dynamic probes to functions of a running x86-64 Linux
process: it stops the process with ptrace, maps a *runtime* into it (config,
event ring, shadow stack, trampoline, two stubs), patches a `jmp` over the
function's entry, and lets the process run. From then on the stubs execute in
the target's own threads and record an event per call (and per return, with
`--ret`). This directory models it in TLA+, checks the models with TLC and
proves theorems about them with TLAPS.

## 1. Inventory

| Component | Source | State | Operations | Where it is modelled |
|---|---|---|---|---|
| Entry stub, return stub, shadow stack | `injector/trampoline_x86_64.c`, `runtime/shadow_stack.c` | enabled flag; 256 slots `{tid, depth, return_addrs[64], entry_timestamps[64]}`; registers and stack of each thread | call, return, signal, longjmp | `ProbeRuntime` |
| Event ring, `events` | `runtime/event_buffer.c`, `cli/cmd_events.c`, the stubs' stores | `write_index`, 4096 records | claim, fill, read | `EventRing` |
| Probe manager, `attach` `detach` `enable` `disable` | `injector/probe_manager.c`, `cli/` | probe table, state file, code and mappings of the target | the four commands | `ProbeManager`; with the target's threads, `LiveProbe` |
| Entry patching | `injector/patch_x86_64.c` | the function's first bytes | read, patch, restore | `EntryPatch` (single actions of `ProbeManager`) |
| Instruction lengths | `injector/instruction_x86_64.c` | none | length of an instruction, of what to save | `Insn` |
| Thread control | `controller/thread_control.c` | ptrace state of each thread | stop all, resume all | `Controller` (one action of `ProbeManager`) |
| Remote system calls | `controller/remote_syscall.c` | code byte and registers of the borrowed leader | borrow the leader for one call | `Controller` |
| Remote memory, gadget search | `controller/remote_mem_ptrace.c`, `gadget_finder.c` | words of the target | read, write, mmap, munmap, find the gadget | `RemoteMem`, `Symbols`, `EntryPatch` |
| Layout, config | `runtime/remote_layout.c`, `runtime_config.c` | offsets | compute | `Layout` |
| Symbol resolution | `controller/elf_resolver.c`, `maps_parser.c` | none | name to address | `Symbols`, `EntryPatch` |
| `list`, assembler placeholders, tests | | none | | not modelled |

How they interact. The commands and the stubs never run in one process. They
share the target's memory: a command writes the runtime before the code is
patched, toggles `enabled` and reads the ring while the stubs run, without a
lock. The stubs of all threads share the ring and the shadow stack, without a
lock but with `lock xadd` and `lock cmpxchg`. Two commands share the state file,
without any exclusion. What is hard, then:

* stubs of several threads interleave at each memory access, with signal
  handlers on top of a stub, with calls dropped by `longjmp`, with the flag
  toggled at any instruction, with the stack of a slot or the slots themselves
  used up;
* the entry stub uses its record of the ring as scratch memory: it reads its
  thread id and its timestamp back from it, so that overtaking by a lap matters
  beyond the record;
* the reader copies records that are being filled and reused;
* threads are created, exit and take signals between any two ptrace calls of a
  command that believes it has stopped them all;
* a command fails, or is killed, between two changes to the target, or between
  the target and the state file; the target exits; a record becomes stale;
* the commands change code under threads that stand anywhere in it, and nothing
  in attach or detach looks where they stand;
* attach reads instructions from memory, symbols from a file that may have been
  replaced, an address from maps that may have changed, and executes copied
  instructions at another address and with a word more on the stack.

`PROJECT.json` lists the hazards at their lines, with the properties that would
show them going wrong.

What makes each component correct:

* stubs: the target's control flow is unchanged; each return is matched with its
  own call; no thread has two slots; no stub loops for ever or kills the target;
* ring: a record belongs to one call; a line printed is not older than its
  event; without concurrent writers the output is exact;
* manager: between commands the state file agrees with the target; a patched
  jmp always leads to a complete runtime; every path resumes the target; no
  thread executes what a command changed or took away under it;
* patching: the code is the program's own or that with one whole jmp over whole
  instructions of the function asked for, whatever fails; the copy does what
  the instructions did;
* controller: the threads found stay stopped while the target is changed; a
  command that is over holds none of them; the borrowed leader gets its code and
  registers back; no wait lasts for ever.

## 2. Modules

| Module | What it is |
|---|---|
| `CallReturn` | abstract: the target without a probe, seen as nested calls |
| `ProbeRuntime` | the stubs in the threads of the target; implements `CallReturn` |
| `ProbeRuntimeInv` | the strengthenings of its invariants, in layers |
| `ProbeRuntimeProofs`, `StackProofs` | theorems and proofs: types, records and slots; the shadow stack and the refinement |
| `MCProbeRuntime` | instances for TLC |
| `ProbeManager` | the life of probes across commands |
| `ProbeManagerProofs`, `LiveProbeProofs` | theorems and proofs about `ProbeManager` and `LiveProbe` |
| `LiveProbe`, `MCLiveProbe` | `ProbeManager` composed with threads that run through entry, stubs and trampoline, and instances |
| `EventRing`, `MCEventRing` | writers and reader of the ring, and instances |
| `EventRingProofs` | theorems and proofs about `EventRing` |
| `Controller`, `MCController` | stopping the target and borrowing its leader, and instances |
| `ControllerProofs` | theorems and proofs about `Controller` |
| `Insn`, `RemoteMem`, `Symbols`, `Layout` | pure parts: instruction lengths, remote reads and writes, name and gadget lookup, offsets in the runtime |
| `EntryPatch`, `MCEntryPatch` | what attach and detach do to the target's memory, built from the four, and instances |
| `LayoutProofs`, `EntryPatchProofs` | theorems and proofs about them |

Definitions whose comment begins with *Mutant* are wrong on purpose. Nothing
uses them: they record a plausible bug, and substituting one for the definition
that follows it makes a named property fail (`PROJECT.json`, "mutants").

### ProbeRuntime

`frame[t]` is the stack of thread `t` restricted to activations of the probed
function and to signal handlers; only the activation on top executes. Its `pc`
names the next access to shared memory of the stub it is in, and `idx`, `ev`,
`dep`, `addr`, `dur` are registers. The correspondence, by lines of
`trampoline_x86_64.c`:

| Action | Code |
|---|---|
| `CheckEnabled` | `cmp [config],0; je`, 418-422 |
| `ClaimEvent` | `lock xadd` and the mask, 424-436; the fields known from the start, 441-458 |
| `EntryTid`, `EntryTime` | `gettid` and its store; `clock_gettime` and its store, 86-126 |
| `Scan`, `Cas` | the loop over the slots, 193-247; compares with the tid *in the record* |
| `ReadDepth`, `SaveRet`, `SaveTs`, `PushDepth`, `SwapReturn` | 271-286 |
| `FindSlot` | the loop of the return stub, 536-581 |
| `RetDepth`, `Decrement`, `LoadReturn` | 633-643 |
| `RetClaim`, `RetFill`, `RetDuration`, `JumpBack` | 644-691 |
| `trap` | the fallback `ud2`, 710-716 |

An address that a call returns to is the triple of thread, level and call
instruction. A call's timestamp is represented by the same triple, so that a
timestamp taken from another call is recognised; the clock itself is the
subject of `EventRing`. `JumpBack` compares the address loaded with the one the
call pushed: a thread that lands elsewhere is `astray` and not followed further.

`Env` names what the target may do beyond calling and returning: `"signal"`,
`"longjmp"` and `"lap"`. Without `"lap"` a claim does not reach a record that a
stub still uses, that is, no stub is delayed while 4096 events are recorded; it
is the assumption under which the shadow stack works, and one run drops it.

### ProbeManager

One action per call that touches the target or the file: `Start` (load and
lookup), `Stop`, `ReadAndMap`, `Install`, `PatchEntry`, `RestoreEntry`, `Unmap`,
`SetEnabled`, `Resume`, `OpenState`, `WriteState`, and `GiveUp` for the failure
paths. `Faults` selects which calls may fail and what may happen from outside:
a killed command, an exiting target, a removed state file. `Serial` states the
README's rule that commands are run one at a time.

A restore is written word by word and its first word has all the bytes of the
jmp (`EntryPatch`, below). So one that fails has changed nothing or has taken the
jmp away already; in either case detach reports a failure and keeps the record
and the runtime. `RestoreEntry` has both outcomes, the history variable `undone`
names the functions left in the second one, and `Consistent` says of those that
only the jmp is missing.

### LiveProbe

The commands of `ProbeManager`, unchanged, on a target whose threads are at
work. `place[t]` is where a thread is: at the `entry`, behind its first
instruction but inside the five bytes of a jmp (`torn`), in the `entryStub`, the
`trampoline`, the `body`, the `retStub`, or `lost`. `within[t]` is the runtime it
is in, `return[t]` the runtime its return address leads to, `framed[b]` who has a
frame on the shadow stack at `b`. While a command holds the target no thread
moves; `Underfoot` records in `struck` those a step of the commands found in
what it changed: in the five bytes when they are patched, in a runtime, or with
a return address into it, when it is unmapped. `LostOnlyIfStruck` says that
nobody else is lost, and `CleanUnload`, which fails, that no thread has the
memory unmapped under it.

The trampoline of a runtime works if what was copied were the function's own
instructions (`ProbeManager`'s `trampoline` field) and if it was built for the
function the thread called (`entry`).

### EntryPatch

One probe, attached and detached, with the target's memory as bytes. The library
is mapped at one of two addresses, another file at the other one; its versions
are files with instructions, symbol tables and a gadget. `Resolve` looks the name
up (`Symbols`), before the target is stopped; `ReadOriginal` measures the first
instructions (`Insn`); `Map` and `Unmap` need the gadget; `Install` writes the six
parts one by one (`Layout`); `Patch` and `Restore` write words (`RemoteMem`). Each
may fail (`GiveUp`), and the command may be killed between any two. While no
command holds it, the target may unload the library and load it at the other
address (`Reload`), and at any time the file may be replaced (`Replace`); `stale`
is a history variable of both.

`Insn` decodes bytes as `lp_x86_64_insn_len` does: legacy and REX prefixes in any
order, one- and two-byte opcodes, ModRM, SIB, displacement, immediate, and
failure beyond fifteen bytes. What it gets wrong is called `misread`: an opcode
outside its tables is taken to have neither ModRM nor immediate, and an
immediate is never taken to have the two bytes that a 66 prefix gives it.

Nothing is assumed of the symbols of a file. `RightFunction` has as its condition
that the function is the first entry of its name in each table (`Exports`), and the
library the first mapping with its name; that neither was moved or replaced
meanwhile is what `stale = {}` says.

### EventRing

A record has two parts, filled and copied separately, as the stores of a stub
and the remote copy are not atomic; values are the sequence numbers of events.
`complete` is a history variable: the events complete when the reader took the
index. Durations are subtracted modulo `2^Width`. The clock read is
`CLOCK_REALTIME` (`edi` is 0, `trampoline_x86_64.c:111`), not `CLOCK_MONOTONIC` as
`docs/member_a_runtime_layout.md:72` says: it may be set back. The history variables
`timed` and `ran` are a stopwatch beside it: who is in a call during which it was
not set back, and how far it has run since the entry of that call. `Elapsed` says
that the duration recorded for such a call is exactly what the stopwatch shows.

### Controller

The inside of what `ProbeManager` takes as the single actions `Stop`, the remote
`mmap` or `munmap`, and `LetGo`. `OpenDir`, `ReadDir`, `EndScan`, `Attach`,
`WaitStop` and `Abort` are `stop_all_threads`; `Find` to `GiveBack` are
`remote_syscall`, one action per call, with `PutCode` and `PutRegs` its failure
path; `ResumeAll` is `resume_all_threads`. attach borrows the leader and then
patches, detach restores and then borrows. The threads' side is ptrace(2):
`PTRACE_ATTACH` queues a SIGSTOP; a traced thread stops at each signal it takes,
SIGUSR1 before SIGSTOP; resumed with signal 0 it never gets that signal.
`swallowed`, `refused` and `present` are history variables. `Abort` and
`ResumeAll` detach all threads in one step: a stopped thread neither exits nor
is affected by what those let go before it do.

## 3. Runs

All runs finish in about three minutes or less with two workers.

| Run | Bounds | Shows |
|---|---|---|
| `calls` | 2 threads, 2 slots of depth 1, 2 records, 2 nested calls, toggling | every return finds its frame, recursion past the depth of a slot included; refinement of `CallReturn`; a stub ends; slots are taken in order and never change hands; the inductive strengthening `StackInv` |
| `handlers` | 1 thread, depth 2, 4 records, 3 levels, handlers, longjmp | a handler at every instruction of a nested call; dropped activations; the inductive strengthening `CoverInv` |
| `commands` | 1 thread, 2 functions, 2 probes, each call may fail, exit | `Consistent`, `CodeLeadsSomewhere`, `LostOnlyIfStruck`, `HookLeads`, `CallEnds` |
| `crash` | 1 command at a time, 2 functions, 1 probe, 3 mappings, every fault | `CodeLeadsSomewhere` whenever a command is killed; the target is resumed |
| `threads` | 2 threads and a third created meanwhile, room for 2 | every failure, exit, signal and creation at every step of a command; the list of tids overflows |
| `reader` | 2 threads, capacity 2, 5 events, a clock of 3 readings that is set back | more than two laps of the ring under the reader; durations |
| `prepare` | 27 first instructions, 2 prologues, a function at the end of its page and an imported one; 3 files at the other address; 1 replacement | what is patched, where, over how much, and what is left when a call fails or the command is killed |

Why the bounds are enough. The stubs touch one slot, one frame and one record at
a time; a conflict involves two threads, or a thread and its own handler, on one
of them. Two threads and two slots, so that the loser of a race goes on to the
next one; one level more than the depth; and a ring as small as the stubs in
flight allow exercise each boundary but one: no run has more threads than slots
(three threads with nested calls are too many states), and of a thread that
finds no slot only the theorems of section 4 speak. In `handlers` a ring of four
records lets a handler make whole calls, entry and return, while the stub it
interrupted holds one; more claims than that are a lap, which this run excludes
as the theorems do, and `lap_violated` shows what one does. Its `VIEW` leaves out
the records no stub is using: a stub stores both words of a record before it
reads them, so what an earlier call left there decides no step and none of the
run's three invariants. `MaxNest`, `MaxEvents` and `MaxClock` are bounds of the
models only; `Slots`, `Depth` and `Capacity` are the code's constants, shrunk.
Threads and
call sites are interchangeable and no property names one, so `SYMMETRY` is used
in the runs without liveness.

In `Controller` the scan treats one thread at a time, so two threads and a late
one show every order; four threads give the same result. In `LiveProbe` threads
do not affect one another (what they share in a runtime is `ProbeRuntime`'s
subject), so one thread against any sequence of commands shows every
conflict; two functions and two mappings let one probe's runtime take the place
of another's. `crash` has no thread in the target; with three mappings a second attach
finds the jmp of a killed one, and a third the second's. No run has two commands
at once: that they let the target go is proved for any number (`TargetReleased`),
and no more is claimed of them. In `EntryPatch` addresses are small, but words are eight bytes, a
jmp five, what is saved five to ten and the bytes behind it part of the next
word; the instructions have each prefix, form of ModRM, SIB, displacement and
immediate the decoder distinguishes.

Deadlock is checked except in the violation run `lap_violated`, where a return
stub can reach `ud2` and a killed process stops, in the runs of `Controller`,
where a target can be left stopped or broken, and in those of `EntryPatch`, where
what follows a killed command is `ProbeManager`'s subject.

Fairness. `ProbeRuntime`: weak fairness of each thread's stub steps, as the
kernel schedules runnable threads; none for calls, returns, signals, toggling.
`ProbeManager`: weak fairness of each started command's steps, as none of its
calls waits for another command (`PTRACE_ATTACH` of a traced thread fails at
once); none for starting one, for kills or for the target's exit. `LiveProbe`
adds strong fairness of each thread's steps in a call: commands may stop it again
and again, but between two of them it is scheduled.
`Controller`: weak fairness of a started command, and of each thread's taking a
signal or reaching the breakpoint, as the kernel schedules running threads; none
for creating, exiting or signalling.

### Runs that find a disagreement

| Run | Property | What happens |
|---|---|---|
| `lap_violated` | `ReturnsToCaller` | a stub overtaken by a lap reads another thread's tid from its record and pushes on that thread's stack; `docs/presentation_report.md:39` promises correct pairing for threads |
| `handler_violated` | `ReturnsToCaller` | the return stub pops before it reads; `docs/improvement_plan.md:152` prescribes the opposite order |
| `hang` | `NeverHung` | a signal pending at `PTRACE_ATTACH` is reported first; the detach discards it and the SIGSTOP that follows stops the whole target; `docs/presentation_report.md:100` says it is resumed |
| `unload_violated` | `CleanUnload` | detach unmaps the runtime while a stopped thread is in it or has to return to it; in the trace, one that is in the entry stub; `docs/presentation_report.md:41` promises a clean unload |
| `copy_violated` | `CopyWorks` | an unoptimised leaf function (`push rbp; mov rbp,rsp; mov [rbp-4],edi`) stores in the red zone in the copied instructions, and the trampoline's `push r11` overwrites it; `docs/project_structure.md:89` says the trampoline executes the overwritten instructions and jumps back |

In each, the environment does what a real one may: a stub is preempted for 4096
events, a handler calls the function, a thread has a signal pending or is inside
a call when the probe is detached, a function is compiled without optimisation.
`copy_violated` uses nothing but such prologues. Among the functions of `prepare`
`CopyWorks` has two further causes: relative operands and branches among the
copied instructions are not relocated, and the length of some instructions is
wrong, so that one may be cut in two: `cmp al, imm8`, `mov al, imm8`, `movdqa` and
x87 are not in the decoder's tables, and `mov ax, imm16` is, with an immediate of
four bytes.

## 4. Theorems

In `ProbeRuntimeProofs`, for all values of the constants that satisfy the three
named assumptions (`Zero` is not a thread; the sizes are naturals, the capacity
positive; `Env` is a subset of the three behaviours).

* `TypeCorrect`: `Spec => []TypeOK`. `TypeOK` alone is not inductive: that a
  depth stays within the slot needs that the register it is computed from is
  in range wherever it is used. `TypeInv` adds that (`RegsOK`). The step goes
  through `SetCurType`: a step replaces the activation on top of one stack, and
  it suffices that the new one is well formed.
* `OneSlotPerThread` (`SlotsUnique`, `SlotsPrefix`) and `RecordIsOwn` (`RecordOwn`),
  if `"lap" \notin Env`, with signals and longjmp admitted. `SlotsUnique` needs that
  the tid a stub compares with is its own (`RecordTid`), thus that no two stubs in
  flight hold one record (`Exclusive`), and that the slots behind the search
  belong to others (`Searched`): a thread that takes a slot at `i` has seen every slot below taken
  by another thread, and by `SlotsPrefix` all slots above are free. Steps that
  leave slots and records alone share one lemma (`QuietMove`).

In `StackProofs`, from the same assumptions and what each theorem says of `Env`:

* `Covered` (`CoverInv`), `ProbeNeverTraps` (`NeverTraps`), `EveryReturnCovered`
  (`DepthCovers`) and `SlotsNeverChangeHands` (`SlotsGrow`), if `"lap" \notin Env`:
  whatever handlers and longjmp do, no return stub reaches `ud2`. `CoverInv` says
  that who has a frame, or is about to fill one, has it in a slot of its own
  thread (`Hooks`), and that the depth in memory, and every depth a stub has loaded
  and not yet stored, is at least the number of activations that will come back
  (`Covers`). The loaded depths are what makes it inductive: a handler that runs
  between the load and the store leaves the depth as it found it or higher, and the
  store that follows counts only what is below it on the stack.
* `RecordsWhole` (`RecordWhole`), if the target does not both handle signals and
  longjmp: a handler that leaves a stub for good leaves its record half filled.
* `StackMirrored` (`StackInv`), `EveryReturnHome` (`ReturnsToCaller`), `DurationIsOwn`
  (`OwnDuration`) and `DepthIsBalanced` (`DepthBalanced`), if `Env = {}`: no laps,
  handlers or longjmp, any number of threads, slots, nested calls and call sites,
  and any order of stubs and toggles. `Saved` says what the frame of each activation
  holds at each instruction of its stubs, and `Mirror` that the frames below the
  depth are those of the thread's activations, in their order; so the top frame is
  that of the activation that returns, and the depth counts them (`FS_Bijection`).
* `ProbeTransparent`: if `Env = {}`, `ProbeRuntime` implements `CallReturn`. A thread
  is never astray, so the abstract level is the height of the stack; every step of
  a stub but the last keeps it, the last lowers it by one.

The restriction is not for the proof's sake: the runs `lap_violated` and
`handler_violated` show that `ReturnsToCaller` is false with laps and with handlers,
and a dropped activation leaves its frame on the shadow stack.

In `ControllerProofs`, for any finite set of threads, any room
in the list of tids and any choice of what may fail (`ControllerAssumption`):

* `ThreadsHeldStill` (`HeldStill`) and `AllLetGo` (`NoTracee`). The strengthening
  `HeldInv` says who is traced at each step (the recorded threads and the one
  being waited for), that whoever was listed and lives is recorded, and that
  recorded threads are stopped. The last one closes the circle: a stopped thread
  cannot exit, so resuming finds it.
* `StoppedForSignal` (`HungForSignal`): without signals no command leaves the
  target stopped. `StopsDue` follows each SIGSTOP from `PTRACE_ATTACH`: it is
  waited for, or a SIGUSR1 was reported in its place, or swallowed already.
* `LeaderPutBack` (`PutBack`), from where on the path the leader has its own code
  and registers (`Due`); `ControllerTypes` (`TypeOK`), where the bound on the
  recorded threads needs that `ReadDir` has checked it.

In `LayoutProofs` and `EntryPatchProofs`, for any sizes of the parts, any files
with the library's name that have at least five instructions one behind the other
from the function on (`FilesAssumption`), any symbol tables, addresses and bytes:

* `AreasApart`: the six parts lie inside the mapping and share no byte.
* `EntryStaysWhole` (`EntryWhole`) and `RestoreIsClean` (`CleanRestore`), from
  `CodeInv`: what was saved is what the loader put there, at least five bytes
  once a jmp is written, and the first word restored covers the whole jmp; before
  the patch and after the first word the code is the program's own.
* `PatchTypes` (`TypeOK`), from `Values` and `StepInv`: what is saved covers the jmp
  and has at most fourteen bytes more, which fit the trampoline, and a restore is
  never at a fourth word; `TypeOK` bounds `step` for each call by itself. `PatchLenIs` bounds the answer of
  `lp_calc_patch_len`: among the offsets from which its loop would leave these
  bounds there would be a last one, and one more turn leads out of it.
* `InsnPrefix`: the decoder looks at no byte behind the instruction it measures.
  Whatever follows, its answer for the bytes of the instruction alone is the same.
* `NoneCutInTwo` (`NothingTruncated`), from `LengthInv`: what was saved is as long as
  the decoder says of the code that is there. Its loop then goes from the begin of
  one instruction to that of the next (`OneTurn`), so that it stops at the end of
  one. The theorem has the hypothesis `Measured`: the decoder measures each
  instruction right on its own, but those that `Insn` names as misread. That is
  a statement about the opcode tables and the processor; it holds of the
  instructions of the run `prepare`, which exercises every form the tables
  distinguish, and is a hypothesis of this theorem only.
* `RuntimeIsWhole` (`InstalledWhole`), from `RuntimeInv`: the parts installed so
  far are there, because a part no longer than its size covers no other
  (`AreasApart`).
* `PatchesTheRightFunction` (`RightFunction`), from `TargetInv`: if the library is the
  first mapping with its name (`FirstLine`) and the function the first entry of its
  name in each of its tables, then whichever tables cannot be read, whatever
  entries of the name come later and whatever else is mapped, the address is the
  function's. The first match exists wherever there is one (`FirstIn`, from the
  well-foundedness of the naturals), and it is one of these (`SymbolOf`). It does
  not cover what section 5 lists: an imported or local symbol that comes first,
  a library moved, a file replaced.

In `ProbeManagerProofs` and `LiveProbeProofs`, for any number of commands, threads,
functions, addresses, runtimes and table entries (`ManagerAssumption`,
`LiveAssumption`):

* `ManagerTypes` (`TypeOK`) and `TargetReleased` (`NotLeftStopped`), whatever fails
  and however commands overlap. `TypeInv` adds that the entry a command is about to
  use exists.
* `FileIsExact` (`Consistent`) and `JumpsLead` (`CodeLeadsSomewhere`), under `Orderly`:
  commands run one at a time (`Serial`, as the README of lightprobe asks) and to
  their ends, the state file can be written, and functions have addresses of their
  own. Every other failure is admitted, and the target's exit. The strengthening
  `ExactInv` names, for each call a command can be at, the table that is the truth
  about the target just then (`TruthInv`): what the file holds until the jmp is
  written or taken back (`HalfUndone`, if the restore fails after that), the
  command's own table from then on, and for detach that
  table without the entry (`Without`), since the entry is cleared last. What one
  entry, one jmp or one runtime more or less does to a table that is the truth is a
  lemma each (`Added`, `Removed`, `Flagged`, `OtherRuntime`). Section 5 tells what
  happens when functions share an address or a command is killed.
* `OneProbeSurvives` (`CodeLeadsSomewhere`), under `OneProbe`: commands run one at a
  time, and the table has one entry or there is one name to ask for. Here any call
  may fail, any command be killed, and the state file be short, unwritable or
  removed. A jmp that nobody records stays, and the next attach saves it as the
  function's own bytes. So `SoleInv` says of whatever is on record (`Removable`) that
  what its detach puts back leads to a complete runtime that is not the one it
  unmaps, and that no other jmp leads to that one; and that there is one probe on
  record at most, which is where it fails for two (section 5).
* `OnlyStruckAreLost` (`LostOnlyIfStruck`), `HooksLead` (`HookLeads`) and `ThreadTypes`
  (`LiveTypeOK`), under `Orderly`. `Standing` says what a thread that was not struck
  finds where it is: in a stub or the trampoline, a complete runtime built for the
  function it called (`ExactServes`, from `ExactInv`); behind the first instruction,
  code that is the program's own. No command changes a complete runtime but to set
  its flag or to unmap it (`ReadyStays`).

In `EventRingProofs`, for any number of threads, any capacity and limit
(`RingAssumption`):

* `LinesNeverStale` (`NeverStale`), `OutputExact` (`ExactWhenStill`) and `RingTypes`
  (`TypeOK`). Two events of one record are a capacity apart (`SameRecord`), and
  `RecordInv` says that no stub in flight is later than that: so filling a record
  never replaces an event by an older one (`FillsForward`), and what was filled
  stays or gives way to a later event (`FilledInv`). `PrintedInv` and `StillInv`
  carry this over to what the reader has copied of the record it is at.
* `DurationsElapsed` (`Elapsed`), from `ClockInv`: as long as the clock is not set back
  in a call, it has run exactly as far as it is ahead of the call's entry
  timestamp, and that difference is less than `2^Width`.

Every invariant and action property of a passing run, and the refinement, is stated
by a theorem. Only model-checked are:

* liveness (`StubLeaves`, `Resumes`, `CallEnds`, `Ends`): the prover does not handle
  fairness and `ENABLED`;
* the opcode tables: `NothingTruncated`, in `prepare`, compares what the decoder says
  with the lengths given for the instructions there.

## 5. Not modelled, and limits

* `LiveProbe` takes the five bytes of the jmp as one place behind the first
  instruction, and each stub as one step; `ProbeRuntime` has their instructions
  but no detach.
* Two names of one address (or a name and `--addr`) give two probes, the second
  with the first one's jmp as its original code: `attach` compares names only
  (`probe_manager.c:242`). Detached in the order of attachment they leave a jmp
  into unmapped memory. The instances give every function its own address. After
  an attach that was killed before it wrote the state file the next one saves its
  jmp too; that runtime stays mapped, for nobody knows of it.
* `EntryPatch` has one library and one probe. It assumes that offsets in the file
  are offsets from the base, that no branch leads back into the first five bytes,
  and that the function has five bytes.
* Of an imported symbol, which has value 0 and is not told apart
  (`elf_resolver.c:234`), attach takes the address of the ELF header, of two local
  ones the first. A library that is moved between the lookup and the stop, or
  whose file was replaced on disk, is patched at an address that means nothing;
  nor does the lookup notice another path that contains the name and is mapped
  lower. `RightFunction` excepts these four; all other properties of `prepare` hold
  in them too.
* A library unloaded while the probe is recorded: detach writes the saved bytes
  over whatever is mapped at the address then. `EntryWhole` and `CleanRestore`
  except it by name.
* A runtime out of the reach of the rel32 jmp makes attach fail and stays mapped,
  unrecorded (`probe_manager.c:283`).
* `process_vm_writev` is taken to write all or nothing: code whose pages differ
  in being writable is left out.
* A thread created while the task directory is read, and passed over, runs while
  the entry is patched: `HeldStill` speaks of the threads present when the scan
  began, and no more than that is true.
* `remote_syscall` pushes its return address below the leader's stack pointer and
  does not put that word back. A leaf function may keep data there (the red
  zone); the model leaves memory below the stack pointer out.
* A command killed between `PTRACE_ATTACH` and `waitpid` leaves a SIGSTOP on its
  way, as in `hang`; `Controller` has no kills.
* The models have one target: that the pid on record is given to another process
  is left out, and nothing in a record would tell the two apart.
* Detaching a probe of a target that has exited fails and leaves its table entry
  for good (`probe_manager.c:310`), although `tests/scripts/run_signal_stress.sh:77`
  expects success there.
* `crash` and `OneProbeSurvives` have one probe at a time: with two, TLC finds that
  the record left by a detach that was killed can name a mapping that a later
  attach was given, and detaching it again unmaps the other probe's runtime. And
  of commands that overlap only their hold on the target is claimed: two attaches
  of one function and a detach between them can leave a jmp to an unmapped
  runtime. No document promises anything about a killed command, and the README
  of lightprobe asks for serial use, so these are hazards and not findings.
* A probe without `--ret` (`HasRetprobe = FALSE`) is covered by the theorems, not
  by a run: its entry stub takes the path of a call that finds no slot.
* A record's fields are grouped, `pid`, arguments and return value are left out.
* x86-TSO: the stubs' stores are taken as sequentially consistent. The accesses
  that decide anything are locked instructions, or are of one thread's own slot
  and record.

## 6. Plan

1. `Controller` composed with `ProbeManager`: its `Stop`, `Unmap` and `LetGo` as
   the abstraction of the scan, the borrowed call and the detach; the word below
   the stack pointer.
2. `EntryPatch` shown to implement the `Stop` to `Resume` actions of one command of
   `ProbeManager`.

Nothing else of the program keeps state that a command or a stub changes: `list`
prints, `process_attach.c` and the assembler files are not used.
