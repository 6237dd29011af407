----------------------------- MODULE RemoteMem -----------------------------
(***************************************************************************)
(* Reading and writing the target's memory (remote_mem_ptrace.c).  Where   *)
(* process_vm_writev is refused, as for code that is mapped read-only, the *)
(* bytes are written in words of eight with PTRACE_POKEDATA; each word is  *)
(* a step that may fail.  A memory is a function from addresses to bytes.  *)
(***************************************************************************)
EXTENDS Integers, Sequences

Word     == 8
Unmapped == -1

Mapped(mem, a, n) == \A x \in a..(a + n - 1) : x \in DOMAIN mem /\ mem[x] # Unmapped

Read(mem, a, n) == [i \in 1..n |-> mem[a + i - 1]]

Store(mem, a, bytes) ==
    [x \in DOMAIN mem |-> IF x \in a..(a + Len(bytes) - 1) THEN bytes[x - a + 1]
                                                          ELSE mem[x]]

\* Mutant: the word is not read back where only a part of it is to be written.
PokeBlind(mem, a, bytes, i) ==
    [x \in DOMAIN mem |-> IF x \notin (a + i)..(a + i + Word - 1) THEN mem[x]
                          ELSE IF x - a < Len(bytes) THEN bytes[x - a + 1] ELSE 0]

\* The word that starts at bytes[i + 1].  Behind the end of bytes it keeps
\* what PTRACE_PEEKDATA has just read there.
Poke(mem, a, bytes, i) ==
    [x \in DOMAIN mem |-> IF x \in (a + i)..(a + i + Word - 1) /\ x - a < Len(bytes)
                          THEN bytes[x - a + 1] ELSE mem[x]]
=============================================================================
