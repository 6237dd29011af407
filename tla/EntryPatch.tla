----------------------------- MODULE EntryPatch -----------------------------
(***************************************************************************)
(* How attach and detach change the target's memory: the function is found *)
(* in the maps and the file of its library, the target stopped, its first  *)
(* instructions read and measured, a runtime mapped and filled part by     *)
(* part, the entry overwritten with a jmp; and for detach, the entry put   *)
(* back word by word.  Any call may fail and the command may be killed     *)
(* between any two.  Which command runs when, and the state file, are the  *)
(* subject of ProbeManager: here is one probe, attached and detached.      *)
(*                                                                         *)
(* While no command holds it, the target may unload its library and load   *)
(* it again elsewhere, and the file may be replaced.  The function is one  *)
(* of the library that also has the syscall gadget.                        *)
(*                                                                         *)
(* A file is [image, entry, text, tables, names]: its bytes, the offset of *)
(* the function, the instructions from there on, its symbol tables, and    *)
(* the --lib arguments its path contains.  An instruction is [end, kind]:  *)
(* the offset behind its last byte; and "stack" if it moves the stack      *)
(* pointer, "red" if it stores in the word below it, "relative" if what it *)
(* does depends on its address, "misread" if the decoder gets its length   *)
(* wrong (its opcode is not in the tables, or its immediate has the two    *)
(* bytes of a 66 prefix), else "plain".                                    *)
(***************************************************************************)
EXTENDS Insn, RemoteMem, Symbols, Layout

CONSTANTS
    Low, High,    \* the addresses a library can be mapped at
    Span,         \* and the bytes from there on
    Libraries,    \* files the library can have been mapped from
    Newer,        \* the file it is replaced with
    Others,       \* files that can be mapped at the other address
    MaxOriginal,  \* LP_MAX_ORIGINAL_CODE
    Rel32         \* the displacement of the jmp, four bytes

ASSUME PatchAssumption == /\ Low \in Nat \ {0} /\ High \in Nat /\ Span \in Nat
                          /\ Low + Span <= High
                          /\ MaxOriginal \in Nat /\ MaxOriginal >= 5
                          /\ Rel32 \in Byte \X Byte \X Byte \X Byte

Name    == "f"
Library == "libc.so"
Files   == Libraries \cup {Newer}
JmpLen  == 5

\* Where instruction i of f begins.
Begin(f, i) == IF i = 1 THEN f.entry ELSE f.text[i - 1].end

\* The path of the library contains its name.  Every version has enough
\* instructions one behind the other from the function on (those of the next
\* one included).  Of the symbols nothing is assumed.
ASSUME FilesAssumption ==
    /\ \A f \in Files \cup Others :
          f.image \in Seq(Byte) /\ f.tables \in Seq(Seq([name : STRING, value : Nat]))
    /\ \A f \in Files : /\ Library \in f.names
                       /\ f.entry \in Nat /\ Len(f.image) <= Span
                       /\ f.text \in Seq([end : Nat, kind : STRING])
                       /\ Len(f.text) >= JmpLen
                       /\ \A i \in DOMAIN f.text :
                             f.text[i].end \in (Begin(f, i) + 1)..Len(f.image)

VARIABLES
    pc,       \* the next call of the command
    step,     \* parts installed, or words written, so far
    target,   \* desc->target_addr
    saved,    \* desc->original_code, of original_len bytes
    probed,   \* the probe is recorded
    home,     \* the address of the library
    lib,      \* the file it was mapped from
    other,    \* the file mapped at the other address
    disk,     \* the file at the library's path
    mem,      \* the bytes at both addresses
    runtime,  \* runtime[o]: the part whose byte is at offset o of desc's runtime
    stale     \* what became of the library behind the command's back (history)

probeVars  == <<target, saved, probed>>
targetVars == <<home, lib, other, disk>>
vars       == <<pc, step, probeVars, targetVars, mem, runtime, stale>>
-----------------------------------------------------------------------------
Places == {Low, High}
Space == UNION {p..(p + Span - 1) : p \in Places}
RelJmp == <<\hE9, Rel32[1], Rel32[2], Rel32[3], Rel32[4]>>

FileAt(p) == IF p = home THEN lib ELSE other
PlaceOf(x) == IF x >= High THEN High ELSE Low

\* The two mappings as the loader made them.
Fresh == [x \in Space |-> LET p == PlaceOf(x)
                              f == FileAt(p)
                          IN  IF x - p < Len(f.image) THEN f.image[x - p + 1] ELSE Unmapped]

\* /proc/<pid>/maps, in the order of addresses: headers, then code.
Lines(p) == IF FileAt(p).image = <<>> THEN <<>>
            ELSE <<[start |-> p, offset |-> 0, names |-> FileAt(p).names],
                   [start |-> p + 1, offset |-> 1, names |-> FileAt(p).names]>>
Maps == Lines(Low) \o Lines(High)

\* What is now at the path of the file mapped at p.
OnDisk(p) == IF p = home THEN disk ELSE other

Parts == <<"config", "events", "shadowStack", "trampoline", "entryStub", "retStub">>

\* The copied instructions and the 17 bytes of the jump back.
Written(p) == IF p = "trampoline" THEN Len(saved) + 17 ELSE Size[p]

NoRuntime == <<>>

Holding == {"read", "map", "install", "patch", "restore", "unmap", "resume", "giveUp"}
Pcs     == Holding \cup {"idle", "stop", "dead"}

Goto(p) == pc' = p /\ step' = 0

\* lp_probe_manager_remove: a runtime that was not unmapped is forgotten.
Remove == /\ target' = 0
          /\ saved' = <<>>
          /\ probed' = FALSE
          /\ runtime' = NoRuntime
-----------------------------------------------------------------------------
Init == /\ pc = "idle"
        /\ step = 0
        /\ target = 0
        /\ saved = <<>>
        /\ probed = FALSE
        /\ home \in Places
        /\ lib \in Libraries
        /\ other \in Others
        /\ disk = lib
        /\ mem = Fresh
        /\ runtime = NoRuntime
        /\ stale = {}

\* lp_resolve_symbol: the target is not stopped yet.  A symbol table that
\* cannot be read is passed over.
Resolve ==
    /\ pc = "idle"
    /\ ~probed
    /\ \E unread \in SUBSET {1, 2} :
          LET line == FindLibrary(Maps, Library)
              base == Maps[line].start
              file == OnDisk(base)
              at   == ResolveSymbol([i \in DOMAIN file.tables |->
                                       IF i \in unread THEN <<>> ELSE file.tables[i]],
                                    Name, base)
          IN  /\ line # None
              /\ at # None
              /\ target' = at
              /\ stale' = (stale \ {"moved", "replaced"})
                             \cup (IF file = FileAt(base) THEN {} ELSE {"replaced"})
    /\ Goto("stop")
    /\ UNCHANGED <<saved, probed, targetVars, mem, runtime>>

\* lp_probe_detach starts without asking where the library is now.
Detach ==
    /\ pc = "idle"
    /\ probed
    /\ Goto("stop")
    /\ UNCHANGED <<probeVars, targetVars, mem, runtime, stale>>

Stop ==
    /\ pc = "stop"
    /\ \/ Goto(IF probed THEN "restore" ELSE "read") /\ UNCHANGED <<probeVars, runtime>>
       \/ Goto("idle") /\ IF probed THEN UNCHANGED <<probeVars, runtime>> ELSE Remove
    /\ UNCHANGED <<targetVars, mem, stale>>

ReadOriginal ==
    /\ pc = "read"
    /\ LET n == PatchLen(Read(mem, target, MaxOriginal), JmpLen)
       IN  IF Mapped(mem, target, MaxOriginal) /\ n \in 1..MaxOriginal
           THEN saved' = Read(mem, target, n) /\ Goto("map")
           ELSE UNCHANGED saved /\ Goto("giveUp")
    /\ UNCHANGED <<target, probed, targetVars, mem, runtime, stale>>

\* A remote system call is made at the gadget, if it is one in memory too.
CanCall == LET line == FindLibrary(Maps, Library)
               base == Maps[line].start
               at   == ResolveGadget(OnDisk(base).image, base)
           IN  /\ line # None /\ at # None
               /\ Mapped(mem, at, 3) /\ Read(mem, at, 3) = Pattern

Map ==
    /\ pc = "map"
    /\ \/ CanCall /\ runtime' = [o \in 0..(RuntimeSize - 1) |-> "zero"] /\ Goto("install")
       \/ UNCHANGED runtime /\ Goto("giveUp")
    /\ UNCHANGED <<probeVars, targetVars, mem, stale>>

Install ==
    /\ pc = "install"
    /\ LET p == Parts[step + 1]
       IN  \/ /\ Written(p) <= Size[p]
              /\ runtime' = [o \in DOMAIN runtime |->
                                IF o \in Offset[p]..(Offset[p] + Written(p) - 1)
                                THEN p ELSE runtime[o]]
              /\ IF step + 1 < Len(Parts) THEN step' = step + 1 /\ UNCHANGED pc
                                          ELSE Goto("patch")
           \/ UNCHANGED runtime /\ Goto("giveUp")
    /\ UNCHANGED <<probeVars, targetVars, mem, stale>>

\* The jmp fits in one word.  It may not reach the runtime, which then stays.
Patch ==
    /\ pc = "patch"
    /\ \/ /\ Len(saved) >= JmpLen
          /\ mem' = Poke(mem, target, RelJmp, 0)
          /\ Goto("resume")
       \/ UNCHANGED mem /\ Goto("giveUp")
    /\ UNCHANGED <<probeVars, targetVars, runtime, stale>>

\* Mutant: what cannot be restored is taken for restored.
RestoreRegardless ==
    /\ pc = "restore"
    /\ \/ mem' = Poke(mem, target, saved, 0)
       \/ UNCHANGED mem
    /\ Goto("unmap")
    /\ UNCHANGED <<probeVars, targetVars, runtime, stale>>

\* The next word, or all at once if the code is writable.
Restore ==
    /\ pc = "restore"
    /\ \/ /\ Mapped(mem, target + Word * step, Word)
          /\ mem' = Poke(mem, target, saved, Word * step)
          /\ IF Word * (step + 1) < Len(saved) THEN step' = step + 1 /\ UNCHANGED pc
                                               ELSE Goto("unmap")
       \/ /\ step = 0
          /\ Mapped(mem, target, Len(saved))
          /\ mem' = Store(mem, target, saved)
          /\ Goto("unmap")
       \/ UNCHANGED mem /\ Goto("giveUp")
    /\ UNCHANGED <<probeVars, targetVars, runtime, stale>>

\* Best effort: detach goes on either way.
Unmap ==
    /\ pc = "unmap"
    /\ (CanCall /\ runtime' = NoRuntime) \/ UNCHANGED runtime
    /\ Goto("resume")
    /\ UNCHANGED <<probeVars, targetVars, mem, stale>>

Resume ==
    /\ pc = "resume"
    /\ IF probed THEN Remove ELSE probed' = TRUE /\ UNCHANGED <<target, saved, runtime>>
    /\ Goto("idle")
    /\ UNCHANGED <<targetVars, mem, stale>>

GiveUp ==
    /\ pc = "giveUp"
    /\ IF probed THEN UNCHANGED <<probeVars, runtime>> ELSE Remove
    /\ Goto("idle")
    /\ UNCHANGED <<targetVars, mem, stale>>

\* What comes after is ProbeManager's subject.
Kill ==
    /\ pc \notin {"idle", "dead"}
    /\ Goto("dead")
    /\ UNCHANGED <<probeVars, targetVars, mem, runtime, stale>>

\* The library is unloaded and loaded again, from the file there is now.
Reload ==
    /\ pc \notin Holding \cup {"dead"}
    /\ home' = CHOOSE p \in Places : p # home
    /\ lib' = disk
    /\ UNCHANGED <<pc, step, probeVars, other, disk, runtime>>
    /\ mem' = Fresh'
    /\ stale' = stale \cup (IF probed THEN {"moved", "unloaded"} ELSE {"moved"})

Replace ==
    /\ pc # "dead"
    /\ disk # Newer
    /\ disk' = Newer
    /\ UNCHANGED <<pc, step, probeVars, home, lib, other, mem, runtime, stale>>

Command == \/ Resolve \/ Detach \/ Stop \/ ReadOriginal \/ Map \/ Install \/ Patch
           \/ Restore \/ Unmap \/ Resume \/ GiveUp

Next == Command \/ Kill \/ Reload \/ Replace

Spec == Init /\ [][Next]_vars
-----------------------------------------------------------------------------
TypeOK == /\ pc \in Pcs
          /\ step \in CASE pc = "install" -> 0..(Len(Parts) - 1)
                       [] pc = "restore" -> 0..2
                       [] OTHER          -> {0}
          /\ target \in Nat
          /\ saved = <<>> \/ Len(saved) \in JmpLen..MaxOriginal
          /\ Len(saved) <= JmpLen + 14
          /\ probed \in BOOLEAN
          /\ home \in Places
          /\ lib \in Files
          /\ other \in Others
          /\ disk \in Files
          /\ mem \in [Space -> Byte \cup {Unmapped}]
          /\ runtime = NoRuntime
                \/ runtime \in [0..(RuntimeSize - 1) -> Areas \cup {"zero"}]
          /\ stale \subseteq {"moved", "replaced", "unloaded"}

\* At every step of attach and detach, wherever they fail or are killed, the
\* code is the program's own or that with one whole jmp over it: no word
\* written half, no byte of a neighbour changed.  (A library unloaded while it
\* is probed takes the jmp with it, and detach writes over what is there then.)
EntryWhole == "unloaded" \notin stale =>
                 mem = Fresh \/ mem = Store(Fresh, target, RelJmp)

\* A probe that was detached, or not attached, leaves no trace in the code.
CleanRestore == pc = "idle" /\ ~probed /\ "unloaded" \notin stale => mem = Fresh

Patched == mem # Fresh

Named(f, i) == {j \in DOMAIN f.tables[i] : f.tables[i][j].name = Name}

\* The first entry of the name, in each symbol table that has one, is the
\* function: no undefined or local symbol comes before it.
Exports(f) == \A i \in DOMAIN f.tables :
                 Named(f, i) # {} => f.tables[i][First(Named(f, i))].value = f.entry

\* The function patched is the one asked for, whichever symbol table cannot be
\* read, whatever entries of its name come later in a table, and whatever is
\* mapped before the library without its name or behind it with the name.  (A
\* library moved, or a file replaced, meanwhile is excepted: see README.md.)
RightFunction == Patched /\ stale = {} /\ Exports(lib)
                    /\ (Library \in other.names => home = Low)
                    => target = home + lib.entry

\* When the jmp is written, and as long as the probe is recorded, every part of
\* its runtime is there as it was written: none covers another.
Installed(p)   == \A o \in Offset[p]..(Offset[p] + Written(p) - 1) : runtime[o] = p
InstalledWhole == (pc \in {"patch", "resume"} \/ probed) /\ runtime # NoRuntime =>
                     \A p \in Areas : Installed(p)

\* What was saved are the first k instructions of the function.
Whole(k) == saved = SubSeq(lib.image, lib.entry + 1, lib.text[k].end)
Kind(i)  == lib.text[i].kind

\* The right function is patched.
InPlace == Patched /\ stale = {} /\ target = home + lib.entry

\* No instruction is cut in two, if the decoder gets none of those it looks at
\* wrong.
NothingTruncated ==
    InPlace /\ (\A i \in 1..JmpLen : Kind(i) # "misread") =>
       \E k \in 1..Len(lib.text) : Whole(k)

\* The trampoline executes the instructions overwritten: they are whole, do
\* the same at another address, and leave nothing in the word that the jump
\* back pushes r11 to.
CopyWorks ==
    InPlace => \E k \in 1..Len(lib.text) :
                  /\ Whole(k)
                  /\ \A i \in 1..k :
                        /\ Kind(i) # "relative"
                        /\ Kind(i) = "red" => \E j \in (i + 1)..k : Kind(j) = "stack"
=============================================================================
